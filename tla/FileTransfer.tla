---------------------------- MODULE FileTransfer ----------------------------
(***************************************************************************)
(* What the file-transfer labs promise for every file: it appears at the   *)
(* receiver at most once, whole, and stays as it is.                       *)
(***************************************************************************)
CONSTANTS File,      \* the files of the sender
          Content,   \* Content[f]: the fragments of f
          NoFile     \* the receiver does not have the file

VARIABLE copy        \* copy[f]: what the receiver has of f

Init == copy = [f \in File |-> NoFile]

Deliver(f) ==
  /\ copy[f] = NoFile
  /\ copy' = [copy EXCEPT ![f] = Content[f]]

Next == \E f \in File : Deliver(f)

Spec == Init /\ [][Next]_copy
=============================================================================
