--------------------------- MODULE MCLoginSessions ---------------------------
(***************************************************************************)
(* Two attempts are what it takes for one to find another's client in the  *)
(* shared pointers; two responses per connection let a second one follow   *)
(* an accepted login; two requests make one wait behind the other.         *)
(***************************************************************************)
EXTENDS LoginSessions

MCSessions == 2
MCReads == 2
MCSends == 2
=============================================================================
