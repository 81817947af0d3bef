-------------------------- MODULE RegistryContract --------------------------
(***************************************************************************)
(* What a page may rely on of a registry: the three rules that             *)
(* PipelineRegistry (pipeline.py) and the older HubRegistry (hub.py) state *)
(* of themselves.  A key has one run however many hold it, a run is not    *)
(* taken from those who hold it, and there are never more than the cap,    *)
(* those under construction included.  Both registries implement it.       *)
(***************************************************************************)
EXTENDS Naturals, FiniteSets

CONSTANTS Keys, \* what runs are kept under: one per browser
          Users, \* sockets
          Cap

VARIABLES
    stage,      \* per key: "none", "building" or "live"
    holders,    \* per key: the users that hold its run
    closed      \* stop_all has run

contractVars == <<stage, holders, closed>>

Init ==
    /\ stage = [k \in Keys |-> "none"] /\ holders = [k \in Keys |-> {}]
    /\ closed = FALSE

InUse == Cardinality({k \in Keys : stage[k] # "none"})

Moves(k, from, to) == stage[k] = from /\ stage' = [stage EXCEPT ![k] = to]

\* u, that held no run, holds the one of k.
Holds(u, k) ==
    /\ holders' = [holders EXCEPT ![k] = @ \cup {u}]
    /\ \A j \in Keys : u \notin holders[j]

\* The first to ask for a key has its run built, when there is room for one more.
Begin(k) == Moves(k, "none", "building") /\ InUse < Cap /\ UNCHANGED <<holders, closed>>
Fail(k) == Moves(k, "building", "none") /\ UNCHANGED <<holders, closed>>
Ready(k, u) == Moves(k, "building", "live") /\ Holds(u, k) /\ UNCHANGED closed

\* Who comes later joins it.
Join(k, u) == stage[k] = "live" /\ Holds(u, k) /\ UNCHANGED <<stage, closed>>

Leave(k, u) ==
    /\ u \in holders[k]
    /\ holders' = [holders EXCEPT ![k] = @ \ {u}]
    /\ UNCHANGED <<stage, closed>>

\* A run that somebody holds is not evicted, until the registry is closed.
Evict(k) ==
    /\ Moves(k, "live", "none")
    /\ holders[k] = {} \/ closed
    /\ UNCHANGED <<holders, closed>>

StopAll ==
    /\ ~closed /\ closed' = TRUE
    /\ stage' = [k \in Keys |-> IF stage[k] = "live" THEN "none" ELSE stage[k]]
    /\ UNCHANGED holders

Next ==
    \/ \E k \in Keys : \/ Begin(k) \/ Fail(k) \/ Evict(k)
                       \/ \E u \in Users : Ready(k, u) \/ Join(k, u) \/ Leave(k, u)
    \/ StopAll

Spec == Init /\ [][Next]_contractVars

=============================================================================
