-------------------------- MODULE MCModuleSettings --------------------------
(* ModuleSettings with three settings, the second of which the module refuses. *)
EXTENDS ModuleSettings
UnfitSettings == {2}
=============================================================================
