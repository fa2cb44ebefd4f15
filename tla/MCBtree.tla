------------------------------- MODULE MCBtree -------------------------------
EXTENDS Btree

Req(op, lo, hi, type, val, batch) ==
    [op |-> op, lo |-> lo, hi |-> hi, type |-> type, val |-> val, batch |-> batch]
Put(k) == Req("put", k, k, "UPSERT", 0, 1)
Rm(k) == Req("rm", k, k, "none", 0, 1)

\* Two levels of leaves and interior nodes; a full root; a tree thinned out by removes.
MCLoads == {
    <<Put(2), Put(4), Put(6), Put(8), Put(10)>>,
    <<Put(2), Put(4), Put(6), Put(8), Rm(2), Rm(8), Rm(4)>>,
    <<Put(2), Put(4), Put(6), Put(8), Put(10), Put(12), Put(14), Put(16)>>,
    <<Put(2), Put(4), Put(6), Put(8), Put(10), Put(12), Put(14), Put(16), Put(18), Rm(4)>>}

Writes(v) == {Req("put", 3, 3, "INSERT", v, 1), Req("put", 17, 17, "UPSERT", v, 1),
              Req("put", 8, 8, "UPDATE", v, 1),
              Req("rput", 3, 9, "UPDATE", v, 1),
              Rm(2), Rm(6), Rm(8), Rm(16), Req("rrm", 3, 13, "none", v, 1), Req("any", 2, 9, "none", v, 1)}
Reads == {Req("get", 6, 6, "none", 0, 1), Req("getany", 5, 9, "none", 0, 1),
          Req("sweep", 2, 16, "none", 0, 2), Req("trav", 2, 16, "none", 0, 3)}
MCRequests == [t \in Threads |->
    IF t = 1 THEN Writes(1) ELSE Writes(2) \cup Reads]
==============================================================================
