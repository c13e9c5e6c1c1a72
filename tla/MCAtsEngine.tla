---------------------------- MODULE MCAtsEngine ----------------------------
(***************************************************************************)
(* Small instances of the Absolute Time Processor.                         *)
(***************************************************************************)
EXTENDS AtsHistory, TLC

At(t) == [time |-> t, kind |-> "command"]
CorruptAt(t) == [time |-> t, kind |-> "corrupt"]
SwitchAt(t) == [time |-> t, kind |-> "switch"]

\* Two commands of one second, and two of different seconds of which the
\* later one has the lower number: any two of these overlap.
OverlapTables == {1 :> At(1) @@ 2 :> At(1), 1 :> At(2) @@ 2 :> At(1)}

\* No checksum fails in these, so the flag that tells what to do then is left
\* alone.
OverlapNext == HNext /\ continue'

OverlapSpec == HInit /\ [][OverlapNext]_hvars

\* A switch in the middle of an ATS, and a command that fails its checksum.
TroubleTables == {1 :> SwitchAt(1) @@ 2 :> At(2), 1 :> CorruptAt(1) @@ 2 :> At(1)}

=============================================================================
