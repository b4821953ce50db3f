------------------------------- MODULE Engine -------------------------------
(***************************************************************************)
(* The rule engine: step and advance of engine/engine.py.                  *)
(*                                                                         *)
(* step(state, action) validates and applies one action of a player and    *)
(* then runs advance, a loop of system transitions that ends when the game *)
(* waits for somebody or is over.  Here each iteration of the loop is an   *)
(* action of its own.  Players act only where the loop has ended (all      *)
(* their guards imply ExpectedActors # {}), so nothing comes between the   *)
(* iterations.  A rejected action changes nothing and is not a step.       *)
(***************************************************************************)
EXTENDS Night, Day, Election

\* create_game, up to the first night (GAME_CREATED to PHASE_CHANGED).
Init ==
    /\ phase = config.night_order[1]
    /\ round = 1
    /\ winner = "none"
    /\ alive = Seats
    /\ revealed = {}
    /\ antidote = Seats
    /\ poison = Seats
    /\ last_guard_target = [s \in Seats |-> None]
    /\ badge = [seat |-> None, flags |-> {}]
    /\ speech = Ascending({})
    /\ resume_token = "none"
    /\ pending_hunter = None
    /\ day_exiled = None
    /\ night = NoNight
    /\ wolf_proposals = NoBallots
    /\ wolf_kill_round = 1
    /\ last_proposals = NoBallots
    /\ acted_seats = {}
    /\ votes = NoBallots
    /\ vote_candidates = {}
    /\ tie_round = 0
    /\ election_stage = "none"
    /\ sheriff_candidates = {}
    /\ sheriff_declared = {}
    /\ sheriff_votes = NoBallots
    /\ sheriff_withdrawn = {}
    /\ sheriff_pk_bystanders = {}
    /\ sheriff_confirmed = {}
    /\ sheriff_speech_direction = "none"

PlayerAction == NightAction \/ DayAction \/ ElectionAction

SystemStep ==
    \/ WolfRevote
    \/ WolfKillDecided
    \/ NightPhaseOver
    \/ DayStep
    \/ ElectionStep

\* A finished game stays as it is.
Finished == phase = "GAME_OVER" /\ UNCHANGED vars

Next == PlayerAction \/ SystemStep \/ Finished

Spec == Init /\ [][Next]_vars

\* The runner always drives the game on: a seat that does not answer in time
\* gets its default action (runtime/game_runner.py).
FairSpec == Spec /\ WF_vars(PlayerAction \/ SystemStep)

=============================================================================
