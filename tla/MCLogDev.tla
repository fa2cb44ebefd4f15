------------------------------ MODULE MCLogDev ------------------------------
(* Instances of LogDev for TLC. *)
EXTENDS LogDev

MCStoreIds == 0..1

\* A record that came back (DeadOnlyAtStart) has the store's lsns
\* out of order from then on: the state is checked but not explored further.
NothingBack ==
    \A s \in Open : \A l \in DOMAIN stores[s].recs :
        stores[s].recs[l].key \notin undone \cup orphaned

\* One store truncates at a time; the other stores' truncations reach the device
\* through ServiceTruncate.
OneCut == \A s, t \in StoreIds : cut[s] # None /\ cut[t] # None => s = t

\* At most one record is dead (rolled back or of a removed store) and one id garbage
\* at a time: a second one goes through the same steps.
FewDead == Cardinality(undone \cup orphaned) <= 1 /\ Cardinality(garbage) <= 1
==============================================================================
