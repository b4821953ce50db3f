----------------------------- MODULE MCAnalysis ------------------------------
(* The boards of MCEngine, for the engine with its history and with the     *)
(* statistics of its game, which run side by side.                          *)
EXTENDS MCHistory, GameAnalysis

RecordedVars == <<historyVars, analysisVars>>
RecordedSpec ==
    HistoryInit /\ AnalysisInit /\ [][HistoryNext /\ AnalysisNext]_RecordedVars

=============================================================================
