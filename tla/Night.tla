------------------------------- MODULE Night --------------------------------
(***************************************************************************)
(* The night: what guard, wolves, witch and seer may do in their phases,   *)
(* and how the engine leaves a phase and resolves the night.               *)
(***************************************************************************)
EXTENDS EngineFlow

-----------------------------------------------------------------------------
(* What _validate accepts *)

CanSkip(s) == phase \in {"NIGHT_GUARD", "NIGHT_WITCH", "NIGHT_SEER"} /\ OnTurn(s)

CanGuard(s, t) ==
    /\ phase = "NIGHT_GUARD" /\ OnTurn(s)
    /\ t \in alive
    /\ t = s => config.can_guard_self
    /\ t = last_guard_target[s] => config.can_guard_same_target_consecutively

\* KILL, or SKIP when t is None.
CanPropose(s, t) ==
    /\ phase = "NIGHT_WEREWOLF" /\ OnTurn(s)
    /\ IF t = None THEN config.allow_wolf_empty_knife
       ELSE t \in alive /\ (t \in Wolves => config.allow_wolf_self_knife)

CanSave(s) ==
    /\ phase = "NIGHT_WITCH" /\ OnTurn(s)
    /\ s \in antidote
    /\ night.wolf_target # None
    /\ night.wolf_target = s => \/ config.self_rescue_always
                                \/ config.self_rescue_first_night /\ round = 1

CanPoison(s, t) == phase = "NIGHT_WITCH" /\ OnTurn(s) /\ s \in poison /\ t \in alive

CanCheck(s, t) == phase = "NIGHT_SEER" /\ OnTurn(s) /\ t \in alive

-----------------------------------------------------------------------------
(* What a night action does: everything else is left alone *)

NightActionFrame ==
    UNCHANGED <<controlVars, round, alive, revealed, antidote, badge, pending_hunter, day_exiled,
                wolf_kill_round, last_proposals, voteVars, election_stage, campaignVars>>

Acted(s) == acted_seats' = acted_seats \cup {s}

\* SKIP of guard, witch and seer.  A guard who skips is recorded as having
\* guarded nobody; the others are only recorded as having acted.
Skip(s) ==
    /\ CanSkip(s)
    /\ Acted(s)
    /\ IF phase = "NIGHT_GUARD"
       THEN /\ night' = [night EXCEPT !.guard_target = None]
            /\ last_guard_target' = [last_guard_target EXCEPT ![s] = None]
       ELSE UNCHANGED <<night, last_guard_target>>
    /\ UNCHANGED <<poison, wolf_proposals>>
    /\ NightActionFrame

Guard(s, t) ==
    /\ CanGuard(s, t)
    /\ Acted(s)
    /\ night' = [night EXCEPT !.guard_target = t]
    /\ last_guard_target' = [last_guard_target EXCEPT ![s] = t]
    /\ UNCHANGED <<poison, wolf_proposals>>
    /\ NightActionFrame

Propose(s, t) ==
    /\ CanPropose(s, t)
    /\ Acted(s)
    /\ wolf_proposals' = [wolf_proposals EXCEPT ![s] = t]
    /\ UNCHANGED <<night, poison, last_guard_target>>
    /\ NightActionFrame

\* The antidote is only marked here; ResolveNightAndContinue consumes it.
Save(s) ==
    /\ CanSave(s)
    /\ Acted(s)
    /\ night' = [night EXCEPT !.witch_save = TRUE]
    /\ UNCHANGED <<poison, last_guard_target, wolf_proposals>>
    /\ NightActionFrame

Poison(s, t) ==
    /\ CanPoison(s, t)
    /\ Acted(s)
    /\ night' = [night EXCEPT !.witch_poison_target = t]
    /\ poison' = poison \ {s}
    /\ UNCHANGED <<last_guard_target, wolf_proposals>>
    /\ NightActionFrame

\* What the seer learns is not part of the state.
Check(s) ==
    /\ \E t \in Seats : CanCheck(s, t)
    /\ Acted(s)
    /\ UNCHANGED <<night, poison, last_guard_target, wolf_proposals>>
    /\ NightActionFrame

NightAction ==
    \E s \in Seats :
        \/ Skip(s)
        \/ Save(s)
        \/ Check(s)
        \/ \E t \in Aim["guard"] : Guard(s, t)
        \/ \E t \in Aim["kill"] \cup {None} : Propose(s, t)
        \/ \E t \in Aim["poison"] : Poison(s, t)

-----------------------------------------------------------------------------
(* The end of the night *)

\* A save takes the potion of the first living witch, whoever used it.
MutantSpared(n) ==
    IF n.witch_save /\ ~(config.self_rescue_first_night /\ round = 1)
    THEN Lowest(alive \cap Holders("WITCH")) ELSE {}
AntidotePayer(n) ==
    IF n.witch_save /\ n.wolf_target # None
    THEN Lowest(alive \cap Holders("WITCH")) ELSE {}

\* _resolve_night_and_continue, for the night record n.
ResolveNightAndContinue(n) ==
    LET deaths == ResolveNight(n)
        resolved == [n EXCEPT !.deaths = deaths]
    IN  /\ antidote' = antidote \ AntidotePayer(n)
        /\ UNCHANGED <<revealed, poison, last_guard_target, day_exiled, campaignVars>>
        /\ IF CheckWin(alive \ deaths) # "none" /\ config.wolf_first_kill_priority
           THEN /\ alive' = alive \ deaths
                /\ GameOver(CheckWin(alive'), resolved)
                /\ UNCHANGED <<badge, pending_hunter, election_stage>>
           ELSE IF /\ round = 1
                   /\ config.sheriff_enabled
                   /\ config.election_before_first_death_announce
           THEN /\ EnterPhase("SHERIFF_ELECTION", "none", speech)
                /\ election_stage' = "candidacy"
                /\ SameRound(resolved)
                /\ UNCHANGED <<alive, badge, pending_hunter>>
           ELSE /\ AnnounceAndContinueNight(alive, badge, resolved)
                /\ UNCHANGED election_stage

LeaveNightPhase(n) ==
    LET order == config.night_order
        i == CHOOSE i \in DOMAIN order : order[i] = phase
    IN  IF i < Len(order)
        THEN /\ EnterPhase(order[i + 1], "none", speech)
             /\ SameRound(n)
             /\ UNCHANGED <<alive, powerVars, badge, pending_hunter, day_exiled,
                            election_stage, campaignVars>>
        ELSE ResolveNightAndContinue(n)

\* _wolf_revote_pending and WOLF_KILL_REVOTE: the wolves propose again.
WolfRevotePending ==
    /\ wolf_kill_round < config.wolf_consensus_rounds
    /\ WolvesDisagree(wolf_proposals)

MutantEndlessRevote ==
    /\ SystemTurn /\ phase = "NIGHT_WEREWOLF"
    /\ WolfRevotePending
    /\ wolf_proposals' = NoBallots
    /\ last_proposals' = wolf_proposals
    /\ UNCHANGED <<controlVars, round, alive, powerVars, badge, pending_hunter, day_exiled, night,
                   acted_seats, voteVars, election_stage, campaignVars, wolf_kill_round>>
WolfRevote ==
    /\ SystemTurn /\ phase = "NIGHT_WEREWOLF"
    /\ WolfRevotePending
    /\ wolf_proposals' = NoBallots
    /\ wolf_kill_round' = wolf_kill_round + 1
    /\ last_proposals' = wolf_proposals
    /\ UNCHANGED <<controlVars, round, alive, powerVars, badge, pending_hunter, day_exiled, night,
                   acted_seats, voteVars, election_stage, campaignVars>>

WolfKillDecided ==
    /\ SystemTurn /\ phase = "NIGHT_WEREWOLF"
    /\ ~WolfRevotePending
    /\ \E t \in WolfConsensus(wolf_proposals) :
          LeaveNightPhase([night EXCEPT !.wolf_target = t])

NightPhaseOver ==
    /\ SystemTurn /\ phase \in NightPhases \ {"NIGHT_WEREWOLF"}
    /\ LeaveNightPhase(night)

=============================================================================
