--------------------------- MODULE MCUdpTransfer ---------------------------
(* Files for the runs of UdpTransfer.                                      *)
EXTENDS UdpTransfer

TwoOneOne == <<2, 1, 1>>
OneThenTwo == <<1, 2>>
TwoEmptyOneThree == <<2, 0, 1, 3>>
=============================================================================
