----------------------------- MODULE MCSoloRepl -----------------------------
EXTENDS SoloRepl

\* Both blocks are in one record of the read tracker.
MCRecordOf == [b \in Blks |-> 1]
MCSizes == <<{1}, {0, 1, 2}, {0, 1}>>
=============================================================================
