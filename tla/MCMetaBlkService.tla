-------------------------- MODULE MCMetaBlkService --------------------------
(* Instances of MetaBlkService for TLC. *)
EXTENDS MetaBlkService

\* Two clients registered before start, one of which depends on the other, and one
\* that registers late.
MCBids == 1..7
MCDeps == {<<"cp", "logdev">>}

\* At most three superblocks at a time, one per client.
FewSuperblks == \A b, c \in DOMAIN blks : blks[b].type = blks[c].type => b = c

\* At most one of them has an overflow chain, and only the largest are compressed.
OneLarge ==
    /\ \A b, c \in DOMAIN blks : blks[b].sz # 0 /\ blks[c].sz # 0 => b = c
    /\ \A b \in DOMAIN blks : blks[b].comp => blks[b].sz = 4
=============================================================================
