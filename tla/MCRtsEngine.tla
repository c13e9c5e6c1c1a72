---------------------------- MODULE MCRtsEngine ----------------------------
(***************************************************************************)
(* Small instances of the Relative Time Processor.                         *)
(***************************************************************************)
EXTENDS RtsHistory

CONSTANT ActiveBound       \* counted active sequences explored

Cmd(n) == [wait |-> n, good |-> TRUE]
Corrupt == [wait |-> 0, good |-> FALSE]

\* An empty table, one that sends two commands at once, one that waits twice,
\* and one whose command has a bad checksum.
ShortTables == {<<>>, <<Cmd(0), Cmd(0)>>, <<Cmd(1), Cmd(2)>>, <<Corrupt>>}

MCNext == HNext /\ numRtsActive' <= ActiveBound

MCSpec == HInit /\ [][MCNext]_hvars

=============================================================================
