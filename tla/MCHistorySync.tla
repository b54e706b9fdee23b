---------------------------- MODULE MCHistorySync ----------------------------
EXTENDS HistorySync

MCChannels == {"a", "b"}
=============================================================================
