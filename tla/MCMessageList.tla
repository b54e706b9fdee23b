---------------------------- MODULE MCMessageList ----------------------------
EXTENDS MessageList, TLC

\* The channels are alike: nothing but their number is told apart.
Alike == Permutations(Channels)
=============================================================================
