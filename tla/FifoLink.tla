------------------------------- MODULE FifoLink -------------------------------
(***************************************************************************)
(* What the outgoing side of a Client promises its callers, and nothing    *)
(* else: the messages handed over arrive once each, in the order they were *)
(* handed over, until the link goes down.  The i-th message handed over is *)
(* the number i, so an order or a duplicate shows in the arrived numbers.  *)
(***************************************************************************)
EXTENDS Naturals, Sequences

CONSTANT MaxMsgs        \* bound: how many messages the callers hand over

VARIABLES
    sent,       \* how many messages the callers have handed over
    arrived,    \* what the peer's end of the link has taken, oldest first
    up          \* FALSE once the link is closed, for good

vars == <<sent, arrived, up>>

Init == sent = 0 /\ arrived = << >> /\ up = TRUE

Send == /\ sent < MaxMsgs
        /\ sent' = sent + 1
        /\ UNCHANGED <<arrived, up>>

Arrive == /\ up
          /\ Len(arrived) < sent
          /\ arrived' = Append(arrived, Len(arrived) + 1)
          /\ UNCHANGED <<sent, up>>

Drop == up /\ up' = FALSE /\ UNCHANGED <<sent, arrived>>

Next == Send \/ Arrive \/ Drop

Spec == Init /\ [][Next]_vars

\* Whatever has been handed over arrives while the link is up.
Delivery == WF_vars(Arrive)

FairSpec == Spec /\ Delivery
=============================================================================
