--------------------------- MODULE MCRawBroadcast ---------------------------
(* Files for the run of RawBroadcast.                                     *)
EXTENDS RawBroadcast

Plain == <<<<3, 1>>, <<>>, <<1>>, <<2, 3, 1>>, <<2, 2>>, <<1>>>>
SomeExact == {<<4, 1>>}
=============================================================================
