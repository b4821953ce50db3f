----------------------------- MODULE EngineProps -----------------------------
(***************************************************************************)
(* What the rule engine promises.                                          *)
(***************************************************************************)
EXTENDS Engine

-----------------------------------------------------------------------------
(* default_action (runtime/defaults.py): what the runner plays for a seat   *)
(* that does not answer.                                                    *)

\* _teammate_target: the lowest of the seats proposed most often in this
\* round of proposals or, before the first of them, in the round before.
Followed ==
    LET current == {s \in Seats : wolf_proposals[s] \in Seats}
        pool == IF current # {} THEN wolf_proposals ELSE last_proposals
    IN  Lowest(Leaders(pool, {}))

DefaultKillAccepted(s) ==
    IF Followed # {} THEN \A t \in Followed : CanPropose(s, t)
    ELSE IF config.allow_wolf_empty_knife THEN CanPropose(s, None)
    ELSE \A t \in alive \ Wolves : CanPropose(s, t)

\* A seer checks another living seat (any of those not checked yet), or skips.
DefaultCheckAccepted(s) == CanSkip(s) /\ \A t \in alive \ {s} : CanCheck(s, t)

DefaultAccepted(s) ==
    CASE SpeechQueuePending -> CanSpeak(s)
      [] phase \in {"NIGHT_GUARD", "NIGHT_WITCH"} -> CanSkip(s)
      [] phase = "NIGHT_WEREWOLF" -> DefaultKillAccepted(s)
      [] phase = "NIGHT_SEER" -> DefaultCheckAccepted(s)
      [] phase = "HUNTER_SHOOT" -> CanShoot(s, None)
      [] phase = "LAST_WORDS" ->
            IF s \in badge.flags /\ (IsBadgeOnlyWindow \/ ~config.night_death_badge_window)
            THEN CanPassBadge(s, None) ELSE CanSpeak(s)
      [] phase \in {"VOTE", "VOTE_PK"} /\ ~SpeechQueuePending -> CanCastVote(s, None)
      [] InElection("candidacy") -> CanDeclare(s)
      [] InElection("withdraw") -> CanConfirm(s)
      [] InElection("direction") -> CanSetDirection(s)
      [] (InElection("vote") \/ phase = "SHERIFF_PK") /\ ~SpeechQueuePending ->
            \A t \in Lowest(IF sheriff_candidates # {} THEN sheriff_candidates ELSE alive) :
                CanVoteSheriff(s, t)
      [] OTHER -> CanSpeak(s)

-----------------------------------------------------------------------------
(* Invariants *)

\* Whoever the game waits for, the default action of that seat is legal:
\* a seat that never answers cannot stop the game (_apply_default raises if
\* its action is rejected).
DefaultsAccepted == \A s \in ExpectedActors : DefaultAccepted(s)

\* The two records of who holds the badge, sheriff_seat and the is_sheriff
\* flags of the players, always name the same seat.
BadgeConsistent == badge.flags = {badge.seat} \ {None}

\* Under the two-step rule (night_death_badge_window) no night, speech or vote
\* is ever reached with the badge on a dead seat, on whichever path its holder
\* died: at night, exiled, shot by a hunter, or by blowing itself up.
NoOrphanBadge ==
    /\ config.night_death_badge_window
    /\ phase \in NightPhases \cup ElectionPhases \cup {"DAY_SPEECH", "VOTE", "VOTE_PK"}
    => badge.seat \in alive \cup {None}

\* The dead of the night are still at the table until they are announced, and
\* no speech, vote, exile or last words comes before that.
NightDeathsSettled ==
    /\ phase \in ElectionPhases => alive = Seats
    /\ phase \notin NightPhases \cup ElectionPhases => night.deaths \cap alive = {}

\* The game waits for the living, except that the dead speak their last words,
\* hand on the badge, and shoot.
ActorsAreLive ==
    IF phase \in {"LAST_WORDS", "HUNTER_SHOOT"} THEN ExpectedActors \cap alive = {}
    ELSE ExpectedActors \subseteq alive

\* Every ballot in the box was cast by somebody with the right to vote, for a
\* seat that could be voted for: by no revealed idiot, no one tied in the
\* runoff, no candidate for sheriff, no one who withdrew and, if the rules bar
\* them, no one who was left out of the sheriff's runoff.
BallotsLegal ==
    /\ phase \in {"VOTE", "VOTE_PK"} =>
          \A s \in Seats : votes[s] # NotYet =>
              /\ s \in alive \ (revealed \cup vote_candidates)
              /\ votes[s] \in alive \cup {None}
              /\ vote_candidates # {} => votes[s] \in vote_candidates \cup {None}
    /\ InElection("vote") \/ phase = "SHERIFF_PK" =>
          \A s \in Seats : sheriff_votes[s] # NotYet =>
              /\ s \in alive \ (revealed \cup sheriff_candidates \cup sheriff_withdrawn)
              /\ config.pk_voters = "NON_CANDIDATES_ONLY" => s \notin sheriff_pk_bystanders
              /\ sheriff_votes[s] \in sheriff_candidates \cap alive

-----------------------------------------------------------------------------
(* Refinement *)

Stage ==
    CASE phase \in NightPhases -> "night"
      [] phase \in ElectionPhases -> "election"
      [] phase \in {"DAY_SPEECH", "VOTE", "VOTE_PK"} -> "day"
      [] phase = "GAME_OVER" -> "over"
      [] OTHER -> IF resume_token \in {"night_after_hunter", "day_speech", "badge_only:day_speech"}
                  THEN "dawn" ELSE "dusk"

\* An exiled hunter has its shot from the moment it is exiled.
Gun == IF phase = "EXILE" /\ day_exiled \in Holders("HUNTER") THEN day_exiled ELSE pending_hunter

Game == INSTANCE WerewolfGame
            WITH stage <- Stage, day <- round, living <- alive, gun <- Gun,
                 doomed <- night.witch_poison_target, cutoff <- night.skip_day, result <- winner

\* The engine plays the game of WerewolfGame: nobody dies but by a kill that
\* the game knows, at the time it knows; a hunter shoots once, and not when
\* poisoned; a day that was cut short is skipped; a decided game stops.
GameImplemented == Game!GameSpec

-----------------------------------------------------------------------------
(* Action properties *)

\* The runoff for sheriff is decided by exactly those who voted in the first
\* ballot, and there is at least one of them (the comment in _advance_election
\* that spares the runoff a check for an empty electorate).
RunoffElectorate ==
    [][phase = "SHERIFF_ELECTION" /\ phase' = "SHERIFF_PK"
          => /\ SheriffPkElectorate' # {}
             /\ config.pk_voters = "NON_CANDIDATES_ONLY"
                    => SheriffPkElectorate' = {s \in Seats : sheriff_votes[s] # NotYet}]_vars

-----------------------------------------------------------------------------
(* Liveness *)

\* Every game ends, whatever the players do.
GameEnds == <>(phase = "GAME_OVER")

=============================================================================
