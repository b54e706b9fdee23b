----------------------------- MODULE MCSendQueue -----------------------------
(***************************************************************************)
(* The instances of SendQueue and FifoLink that TLC checks.  Four messages *)
(* suffice for every position of a message against a write: being written, *)
(* next, and behind one that waits; the fifth shows a queue that has been  *)
(* emptied and filled again twice.                                         *)
(***************************************************************************)
EXTENDS SendQueue

MCMsgs == 5
=============================================================================
