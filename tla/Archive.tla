-------------------------------- MODULE Archive --------------------------------
(***************************************************************************)
(* What the cache of the client promises, and nothing else: per channel it *)
(* is an archive of messages of that channel, in the order they were       *)
(* posted and none twice, which only ever grows at its end.  What is not   *)
(* archived in its turn is left out for good.                              *)
(***************************************************************************)
EXTENDS Naturals, Sequences, FiniteSets

CONSTANT Channels

VARIABLES
    posted,     \* the channel of each message posted; a message is its position
    rows        \* the archive of each channel

vars == <<posted, rows>>

Init == posted = << >> /\ rows = [ch \in Channels |-> << >>]

\* The messages of a channel that were posted after everything it archived
Later(ch) == {m \in DOMAIN posted : /\ posted[m] = ch
                                    /\ \A i \in DOMAIN rows[ch] : rows[ch][i] < m}

Publish == \E ch \in Channels : posted' = Append(posted, ch) /\ UNCHANGED rows

\* The one ascending sequence of a set of messages
InTurn(msgs) == {f \in [1..Cardinality(msgs) -> msgs] :
                    \A i, j \in 1..Cardinality(msgs) : i < j => f[i] < f[j]}

Record == \E ch \in Channels : \E msgs \in SUBSET Later(ch) : \E more \in InTurn(msgs) :
    /\ rows' = [rows EXCEPT ![ch] = @ \o more]
    /\ UNCHANGED posted

Next == Publish \/ Record

Spec == Init /\ [][Next]_vars
=============================================================================
