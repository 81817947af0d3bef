---------------------------- MODULE MCModuleHost ----------------------------
(* ModuleHost for two runs, the first with three streams: see the .cfg files. *)
EXTENDS ModuleHost

MCKind == [t \in Topics |-> t]
MCKeys == {[run |-> 1, stream |-> 0], [run |-> 1, stream |-> 1], [run |-> 1, stream |-> 2], [run |-> 2, stream |-> 0]}
=============================================================================
