---------------------------- MODULE MCReplGroup ----------------------------
\* ReplGroup with a lasting member, one to be replaced and its replacement.
EXTENDS ReplGroup

CONSTANTS s1, s2, s3

MCRequests ==
    {[op |-> op, q |-> 0, target |-> op = "replace"] :
        op \in {"replace", "flip", "remove", "clean", "destroy"}}
    \cup {[op |-> "replace", q |-> 1, target |-> TRUE]}
============================================================================
