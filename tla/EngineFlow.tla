----------------------------- MODULE EngineFlow -----------------------------
(***************************************************************************)
(* Where a step of the rule engine leads (engine/engine.py, with the       *)
(* reducer of engine/events.py).                                           *)
(*                                                                         *)
(* A helper that the code chains at the end of a step (announce the dead,  *)
(* last words, day, nightfall) is an operator on the primed variables.     *)
(* Its argument n is the night record so far, which nightfall resets.  The *)
(* events of a step are not kept: the primed variables are what reduce     *)
(* makes of them.                                                          *)
(***************************************************************************)
EXTENDS GameState

-----------------------------------------------------------------------------
(* The first checks of _validate: the actor may act now.  Who has just been *)
(* put out still shoots and speaks; everybody else must be alive.           *)
OnTurn(s) == s \in ExpectedActors /\ (s \in alive \/ phase \in {"HUNTER_SHOOT", "LAST_WORDS"})

-----------------------------------------------------------------------------
(* Where a step ends *)

\* PHASE_CHANGED.  A queue goes with the phases in which seats speak in turn.
EnterPhase(p, token, queue) ==
    /\ phase' = p
    /\ resume_token' = token
    /\ speech' = queue
    /\ UNCHANGED winner

\* The round goes on with the night record n.
SameRound(n) ==
    /\ night' = n
    /\ UNCHANGED <<round, huntVars, voteVars>>

\* GAME_OVER.
GameOver(w, n) ==
    /\ phase' = "GAME_OVER"
    /\ winner' = w
    /\ resume_token' = "none"
    /\ UNCHANGED speech
    /\ SameRound(n)

\* ROUND_STARTED: the wolves' decision starts afresh.
FreshHunt ==
    /\ wolf_proposals' = NoBallots
    /\ wolf_kill_round' = 1
    /\ acted_seats' = {}
    /\ last_proposals' = NoBallots

\* _begin_night: ROUND_STARTED, and the first phase of the night.
BeginNight ==
    /\ EnterPhase(config.night_order[1], "none", Ascending({}))
    /\ round' = round + 1
    /\ night' = NoNight
    /\ FreshHunt
    /\ votes' = NoBallots
    /\ vote_candidates' = {}
    /\ tie_round' = 0

\* _after_day_death: the game is decided, or out of rounds, or night falls.
AfterDayDeath(n) ==
    IF CheckWin(alive') # "none" THEN GameOver(CheckWin(alive'), n)
    ELSE IF round >= config.max_rounds THEN GameOver("none", n)
    ELSE BeginNight

\* _speech_order: everybody alive, in the order the rules give.  Without a
\* sheriff who has set a direction, the walk starts after the last death.
AfterLastDeath(n) ==
    IF n.deaths # {} THEN {Queue(alive', d + 1, TRUE) : d \in Highest(n.deaths)}
    ELSE IF day_exiled # None THEN {Queue(alive', day_exiled + 1, TRUE)}
    ELSE {Ascending(alive')}

ClockOrder == IF round % 2 = 1 THEN Ascending(alive') ELSE Descending(alive')

\* On even days left and right are exchanged.
ChiefsOrder(n) ==
    LET chief == badge'.seat
        rightward == sheriff_speech_direction = (IF round % 2 = 1 THEN "RIGHT" ELSE "LEFT")
    IN  IF chief = None \/ sheriff_speech_direction = "none" THEN AfterLastDeath(n)
        ELSE IF rightward THEN {Queue(alive', chief + 1, TRUE)}
        ELSE {Queue(alive', chief - 1, FALSE)}

SpeechOrder(n) ==
    IF config.speech_order_rule = "DEATH_NEXT" THEN AfterLastDeath(n)
    ELSE IF config.speech_order_rule = "SHERIFF_DECIDES" THEN ChiefsOrder(n)
    ELSE IF config.speech_order_rule = "ODD_EVEN_CLOCK" THEN {ClockOrder}
    ELSE {Ascending(alive')}

\* _enter_day_speech; a day that a self-destruction cut off is skipped here.
EnterDaySpeech(n) ==
    IF n.skip_day THEN AfterDayDeath(n)
    ELSE /\ \E queue \in SpeechOrder(n) : EnterPhase("DAY_SPEECH", "none", queue)
         /\ SameRound(n)

\* _badge_orphaned, _auto_badge_if_orphaned, BADGE_PASSED and BADGE_LOST, on a
\* badge b when the seats in living are alive.
Orphaned(b, living) == b.seat # None /\ b.seat \notin living

MutantKeepFlag(b, from, to) == [seat |-> to, flags |-> b.flags \cup ({to} \ {None})]
MutantFlagNone(b, from, to) == [seat |-> to, flags |-> (b.flags \ {from}) \cup {to}]
PassBadgeTo(b, from, to) ==
    [seat |-> to, flags |-> (b.flags \ {from}) \cup ({to} \ {None})]

MutantNoAutoBadge(b, living, recipients) == b
AutoBadge(b, living, recipients) ==
    IF Orphaned(b, living) /\ b.seat \notin recipients THEN PassBadgeTo(b, b.seat, None) ELSE b

BadgeLost(b) == [seat |-> None, flags |-> b.flags \ {b.seat}]

\* _open_badge_window: the dead sheriff may only pass on or tear up the badge.
OpenBadgeWindow(token) == EnterPhase("LAST_WORDS", token, Ascending({badge'.seat}))

\* _last_words_recipients, for the dead of a night.
NightLastWords(deaths) ==
    IF \/ config.last_words = "ALWAYS_NIGHT"
       \/ config.last_words = "FIRST_NIGHT_ONLY" /\ round = 1
       \/ config.last_words = "N_EQUALS_WOLVES" /\ round <= Cardinality(Wolves)
    THEN deaths ELSE {}

\* _finish_night_deaths: badge and last words of the night's dead, then day.
LastWordsOf(recipients, b, n) ==
    /\ badge' = IF config.night_death_badge_window THEN b ELSE AutoBadge(b, alive', recipients)
    /\ IF /\ config.night_death_badge_window
          /\ recipients = {}
          /\ Orphaned(b, alive')
       THEN OpenBadgeWindow("badge_only:day_speech") /\ SameRound(n)
       ELSE IF recipients # {}
       THEN EnterPhase("LAST_WORDS", "day_speech", Ascending(recipients)) /\ SameRound(n)
       ELSE EnterDaySpeech(n)

MutantLostToShot(b, n) ==
    LastWordsOf(IF phase = "HUNTER_SHOOT" THEN {} ELSE NightLastWords(n.deaths), b, n)
FinishNightDeaths(b, n) == LastWordsOf(NightLastWords(n.deaths), b, n)

\* _dead_hunter_can_shoot: the first dead hunter who was not poisoned.
MutantPoisonedShoot(n) == Lowest({s \in n.deaths : Role[s] = "HUNTER"})
DeadHunters(n) ==
    Lowest({s \in n.deaths : Role[s] = "HUNTER" /\ s # n.witch_poison_target})

\* DEATH_ANNOUNCED.
MutantNotAnnounced(living, n) == living
Announced(living, n) == living \ n.deaths

\* _announce_and_continue_night: DEATH_ANNOUNCED for n.deaths among living.
AnnounceAndContinueNight(living, b, n) ==
    /\ alive' = Announced(living, n)
    /\ IF CheckWin(alive') # "none"
       THEN GameOver(CheckWin(alive'), n) /\ badge' = b /\ UNCHANGED pending_hunter
       ELSE IF DeadHunters(n) # {}
       THEN /\ pending_hunter' \in DeadHunters(n)
            /\ EnterPhase("HUNTER_SHOOT", "night_after_hunter", speech)
            /\ SameRound(n)
            /\ badge' = b
       ELSE FinishNightDeaths(b, n) /\ UNCHANGED pending_hunter

=============================================================================
