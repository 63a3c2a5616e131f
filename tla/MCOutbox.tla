------------------------------ MODULE MCOutbox ------------------------------
(***************************************************************************)
(* Outbox on small instances: two recipients and one mishap for the safety *)
(* properties, one recipient and three mishaps for delivery, one recipient *)
(* without a card for the order of messages.                               *)
(***************************************************************************)
EXTENDS Outbox, TLC

\* Every recipient goes through the same code.
ChatSymmetry == Permutations(Chats)
=============================================================================
