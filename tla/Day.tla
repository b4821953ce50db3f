-------------------------------- MODULE Day ---------------------------------
(***************************************************************************)
(* The day: speeches, the exile vote and its runoff, the hunter's shot,    *)
(* last words and the badge window, and a wolf that blows itself up.       *)
(***************************************************************************)
EXTENDS EngineFlow

-----------------------------------------------------------------------------
(* What _validate accepts *)

\* Speak.  The BIDDING rule is declared but not implemented.
CanSpeak(s) ==
    /\ OnTurn(s)
    /\ phase \in {"DAY_SPEECH", "LAST_WORDS"} \/ SpeechQueuePending
    /\ ~IsBadgeOnlyWindow
    /\ config.speech_order_rule = "BIDDING" => ~(phase = "DAY_SPEECH" \/ PkSpeaking)

MutantVoteBeforeSpeech(s, t) ==
    /\ phase \in {"VOTE", "VOTE_PK"} /\ OnTurn(s)
    /\ s \notin revealed
    /\ \/ t = None
       \/ t \in alive /\ (vote_candidates # {} => t \in vote_candidates)
\* DayVote; None abstains.
CanCastVote(s, t) ==
    /\ phase \in {"VOTE", "VOTE_PK"} /\ OnTurn(s) /\ ~PkSpeaking
    /\ s \notin revealed
    /\ \/ t = None
       \/ t \in alive /\ (vote_candidates # {} => t \in vote_candidates)

\* SHOOT, or SKIP when t is None.
CanShoot(s, t) ==
    /\ phase = "HUNTER_SHOOT" /\ OnTurn(s)
    /\ t = None \/ t \in alive

\* PASS_BADGE, or TEAR_BADGE when t is None.
CanPassBadge(s, t) ==
    /\ phase = "LAST_WORDS" /\ OnTurn(s)
    /\ config.night_death_badge_window => IsBadgeOnlyWindow
    /\ s \in badge.flags
    /\ t = None \/ t \in alive

\* SelfDestruct: any living wolf, in turn or not.
CanSelfDestruct(s) ==
    /\ s \in alive \cap Wolves
    /\ phase \in {"DAY_SPEECH"} \cup ElectionPhases

-----------------------------------------------------------------------------
(* Actions of the players *)

SpeechDone(s) == speech' = [speech EXCEPT !.who = speech.who \ {s}]

Speak(s) ==
    /\ CanSpeak(s)
    /\ SpeechDone(s)
    /\ UNCHANGED <<phase, resume_token, winner, round, alive, powerVars, badge, pending_hunter,
                   day_exiled, night, huntVars, voteVars, election_stage, campaignVars>>

CastVote(s, t) ==
    /\ CanCastVote(s, t)
    /\ votes' = [votes EXCEPT ![s] = t]
    /\ UNCHANGED <<controlVars, round, alive, powerVars, badge, pending_hunter, day_exiled, night,
                   huntVars, vote_candidates, tie_round, election_stage, campaignVars>>

Shoot(s, t) ==
    /\ CanShoot(s, t)
    /\ alive' = alive \ {t}
    /\ pending_hunter' = None
    /\ UNCHANGED <<controlVars, round, powerVars, badge, day_exiled, night, huntVars, voteVars,
                   election_stage, campaignVars>>

PassBadge(s, t) ==
    /\ CanPassBadge(s, t)
    /\ badge' = PassBadgeTo(badge, s, t)
    /\ SpeechDone(s)
    /\ UNCHANGED <<phase, resume_token, winner, round, alive, powerVars, pending_hunter,
                   day_exiled, night, huntVars, voteVars, election_stage, campaignVars>>

\* _apply_self_destruct and _after_self_destruct.  The dead wolf gets no last
\* words, so a badge it holds is torn up at once; an election that it cuts off
\* is followed by the announcement of the night's dead and by nightfall.
SelfDestruct(s) ==
    /\ ExpectedActors # {}
    /\ CanSelfDestruct(s)
    /\ LET living == alive \ {s}
           eaten == IF phase \in ElectionPhases /\ config.wolf_selfdestruct_eats_badge
                    THEN BadgeLost(badge) ELSE badge
           b == AutoBadge(eaten, living, {})
       IN  IF phase = "DAY_SPEECH"
           THEN /\ alive' = living
                /\ badge' = b
                /\ AfterDayDeath(night)
                /\ UNCHANGED <<pending_hunter, election_stage>>
           ELSE /\ election_stage' = "none"
                /\ AnnounceAndContinueNight(living, b, [night EXCEPT !.skip_day = TRUE])
    /\ UNCHANGED <<powerVars, day_exiled, campaignVars>>

DayAction ==
    \E s \in Seats :
        \/ Speak(s)
        \/ SelfDestruct(s)
        \/ \E t \in Aim["vote"] \cup {None} : CastVote(s, t)
        \/ \E t \in Aim["shoot"] \cup {None} : Shoot(s, t)
        \/ \E t \in Aim["badge"] \cup {None} : PassBadge(s, t)

-----------------------------------------------------------------------------
(* Steps of the engine *)

Unheld == UNCHANGED <<powerVars, election_stage, campaignVars>>

\* VOTE_STARTED, with the seats that may be voted for ({}: everybody).
VoteStarted(candidates, ties) ==
    /\ votes' = NoBallots
    /\ vote_candidates' = candidates
    /\ tie_round' = ties

OpenVote ==
    /\ SystemTurn /\ phase = "DAY_SPEECH"
    /\ EnterPhase("VOTE", "none", speech)
    /\ VoteStarted({}, 0)
    /\ UNCHANGED <<round, alive, badge, pending_hunter, day_exiled, night, huntVars>>
    /\ Unheld

\* _tally_and_continue: the seats the vote may fall on.  A tie is decided by
\* lot only under PK_THEN_RANDOM, and after the runoff.
Tied == Leaders(votes, badge.flags \cap alive)
Runoff == tie_round = 0 /\ config.tie_rule \in {"PK_THEN_NO_EXILE", "PK_THEN_RANDOM"}
Exiles ==
    IF Cardinality(Tied) = 1 \/ (config.tie_rule = "PK_THEN_RANDOM" /\ ~Runoff) THEN Tied ELSE {}

VoteOver == SystemTurn /\ phase \in {"VOTE", "VOTE_PK"}

\* An idiot that is voted out for the first time stays, and night falls.
FlipIdiot(s) ==
    /\ VoteOver
    /\ Tied = {s} /\ Role[s] = "IDIOT" /\ s \notin revealed
    /\ revealed' = revealed \cup {s}
    /\ UNCHANGED <<antidote, poison, last_guard_target, alive, badge, pending_hunter, day_exiled,
                   election_stage, campaignVars>>
    /\ AfterDayDeath(night)

Exile(s) ==
    /\ VoteOver
    /\ s \in Exiles /\ ~(Tied = {s} /\ Role[s] = "IDIOT" /\ s \notin revealed)
    /\ alive' = alive \ {s}
    /\ day_exiled' = s
    /\ EnterPhase("EXILE", "none", speech)
    /\ SameRound(night)
    /\ UNCHANGED <<badge, pending_hunter>>
    /\ Unheld

StartRunoff ==
    /\ VoteOver
    /\ Cardinality(Tied) > 1 /\ Runoff
    /\ EnterPhase("VOTE_PK", "none", Ascending(Tied))
    /\ VoteStarted(Tied, 1)
    /\ UNCHANGED <<round, alive, badge, pending_hunter, day_exiled, night, huntVars>>
    /\ Unheld

NobodyExiled ==
    /\ VoteOver
    /\ Exiles = {} /\ ~(Cardinality(Tied) > 1 /\ Runoff)
    /\ day_exiled' = None
    /\ UNCHANGED <<alive, badge, pending_hunter>>
    /\ Unheld
    /\ AfterDayDeath(night)

\* _enter_day_last_words.  Who is shot by an exiled hunter is not among the
\* dead that speak (the code passes no extra seat).
EnterDayLastWords ==
    LET recipients == {day_exiled} \ {None}
    IN  /\ badge' = IF config.night_death_badge_window THEN badge
                    ELSE AutoBadge(badge, alive, recipients)
        /\ IF /\ config.night_death_badge_window
              /\ recipients = {}
              /\ Orphaned(badge, alive)
           THEN OpenBadgeWindow("badge_only:after_day") /\ SameRound(night)
           ELSE IF recipients # {}
           THEN EnterPhase("LAST_WORDS", "after_day", Ascending(recipients)) /\ SameRound(night)
           ELSE AfterDayDeath(night)

\* _after_exile: an exiled hunter shoots before the last words.
AfterExile ==
    /\ SystemTurn /\ phase = "EXILE"
    /\ UNCHANGED <<alive, day_exiled>>
    /\ IF day_exiled \in Holders("HUNTER")
       THEN /\ EnterPhase("HUNTER_SHOOT", "day_after_hunter", speech)
            /\ pending_hunter' = day_exiled
            /\ SameRound(night)
            /\ UNCHANGED badge
       ELSE EnterDayLastWords /\ UNCHANGED pending_hunter
    /\ Unheld

AfterHunterShot ==
    /\ SystemTurn /\ phase = "HUNTER_SHOOT"
    /\ UNCHANGED <<alive, pending_hunter, day_exiled>>
    /\ IF CheckWin(alive) # "none" THEN GameOver(CheckWin(alive), night) /\ UNCHANGED badge
       ELSE IF resume_token = "night_after_hunter" THEN FinishNightDeaths(badge, night)
       ELSE EnterDayLastWords
    /\ Unheld

\* The end of LAST_WORDS: the badge window if the badge is still on a dead
\* seat, else on to the day's speeches or to the end of the day.
AfterLastWords ==
    /\ SystemTurn /\ phase = "LAST_WORDS"
    /\ UNCHANGED <<alive, badge, pending_hunter, day_exiled>>
    /\ LET to_day == resume_token \in {"day_speech", "badge_only:day_speech"}
       IN  IF /\ ~IsBadgeOnlyWindow
              /\ config.night_death_badge_window
              /\ Orphaned(badge, alive)
           THEN /\ OpenBadgeWindow(IF to_day THEN "badge_only:day_speech"
                                   ELSE "badge_only:after_day")
                /\ SameRound(night)
           ELSE IF to_day THEN EnterDaySpeech(night)
           ELSE AfterDayDeath(night)
    /\ Unheld

DayStep ==
    \/ OpenVote
    \/ StartRunoff
    \/ NobodyExiled
    \/ \E s \in Seats : FlipIdiot(s) \/ Exile(s)
    \/ AfterExile
    \/ AfterHunterShot
    \/ AfterLastWords

=============================================================================
