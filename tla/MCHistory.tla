------------------------------ MODULE MCHistory ------------------------------
(* The boards of MCEngine, for the engine with its history. *)
EXTENDS MCEngine, EngineHistory

=============================================================================
