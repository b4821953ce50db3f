---------------------------- MODULE EngineClaims ----------------------------
(***************************************************************************)
(* What a document of the repository says of the engine, and what the code *)
(* does not do.  The property is violated in a run of its own.             *)
(***************************************************************************)
EXTENDS EngineProps

\* "If the wolves have won by their kill, the wolves win, even if the witch
\* then poisons the last wolf" (docs/specs/requirements.md:84).  The code
\* judges knife and poison together, and asks first whether a wolf is left.
KnifeWinsFirst ==
    [][LET knifed == ResolveNight([night' EXCEPT !.witch_poison_target = None])
       IN  /\ phase \in NightPhases /\ phase' = "GAME_OVER"
           /\ WolvesWin(alive \ knifed)
           => winner' = "WOLF"]_vars

=============================================================================
