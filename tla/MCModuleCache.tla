---------------------------- MODULE MCModuleCache ----------------------------
(***************************************************************************)
(* A small instance of ModuleCache.                                        *)
(***************************************************************************)
EXTENDS ModuleCache
CONSTANTS l1, l2
=============================================================================
