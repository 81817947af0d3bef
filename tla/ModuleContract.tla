--------------------------- MODULE ModuleContract ---------------------------
(***************************************************************************)
(* What the author of a module may rely on, for each instance of it        *)
(* (core/src/pswamp_core/modules.py: setup, teardown, reset, "one call at  *)
(* a time").  ModuleHost implements it.                                    *)
(***************************************************************************)
EXTENDS Naturals, FiniteSets

CONSTANTS Instances, Streams

VARIABLES
    stage,      \* per instance: "new", "ready" (set up), "torn", "gone" (never set up)
    memory      \* per instance: the streams of the inputs since its last reset

contractVars == <<stage, memory>>

Init == stage = [i \in Instances |-> "new"] /\ memory = [i \in Instances |-> {}]

\* setup returned: once, before anything else.
SetUp(i) ==
    /\ stage[i] = "new"
    /\ stage' = [stage EXCEPT ![i] = "ready"]
    /\ UNCHANGED memory

\* process is called for an input of stream s: none of another stream was since the reset.
Process(i, s) ==
    /\ stage[i] = "ready" /\ memory[i] \subseteq {s}
    /\ memory' = [memory EXCEPT ![i] = {s}]
    /\ UNCHANGED stage

Reset(i) ==
    /\ stage[i] = "ready"
    /\ memory' = [memory EXCEPT ![i] = {}]
    /\ UNCHANGED stage

\* teardown is called: once, when set up.  An instance that never was just goes.
TearDown(i) ==
    /\ stage' = [stage EXCEPT ![i] = IF stage[i] = "ready" THEN "torn" ELSE "gone"]
    /\ stage[i] \in {"new", "ready"}
    /\ UNCHANGED memory

Next == \E i \in Instances : SetUp(i) \/ Reset(i) \/ TearDown(i) \/ \E s \in Streams : Process(i, s)

Spec == Init /\ [][Next]_contractVars

=============================================================================
