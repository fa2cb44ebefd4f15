----------------------------- MODULE MetaStore ------------------------------
(***************************************************************************)
(* What MetaBlkService promises its clients: a durable map of superblocks  *)
(* on which add, update and remove are atomic.  A request takes effect at  *)
(* one instant between its call and its return; a crash in between leaves  *)
(* the map with the whole effect or with none of it; after a restart the   *)
(* clients are handed exactly the map.                                     *)
(***************************************************************************)
EXTENDS Functions

CONSTANTS Cookies, Payloads, None

VARIABLES
    kv,    \* the superblocks, by cookie
    held,  \* the superblocks the clients hold
    req    \* the request being served, or None

vars == <<kv, held, req>>

Maps == UNION {[D -> Payloads] : D \in SUBSET Cookies}

Requests ==
    [op : {"put"}, cookie : Cookies, data : Payloads] \cup [op : {"del"}, cookie : Cookies]

Apply(r, m) ==
    IF r.op = "put"
    THEN [c \in DOMAIN m \cup {r.cookie} |-> IF c = r.cookie THEN r.data ELSE m[c]]
    ELSE Restrict(m, DOMAIN m \ {r.cookie})

Init == kv = <<>> /\ held = <<>> /\ req = None

Call == req = None /\ req' \in Requests /\ UNCHANGED <<kv, held>>

Commit == req # None /\ kv' = Apply(req, kv) /\ UNCHANGED <<held, req>>

\* The call returns only when its effect is durable.
Return ==
    /\ req # None /\ kv = Apply(req, kv)
    /\ held' = Apply(req, held)
    /\ req' = None
    /\ UNCHANGED kv

\* Clients lose what they held ...
Crash == held' = <<>> /\ req' = None /\ UNCHANGED kv

\* ... and get it back, some superblocks at a time.
Deliver ==
    /\ \E D \in SUBSET DOMAIN kv : held' = Restrict(kv, DOMAIN held \cup D)
    /\ UNCHANGED <<kv, req>>

Next == Call \/ Commit \/ Return \/ Crash \/ Deliver

Spec == Init /\ [][Next]_vars
=============================================================================
