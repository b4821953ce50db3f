------------------------------ MODULE GameState ------------------------------
(***************************************************************************)
(* GameState and Player (engine/state.py), and who must act in a state     *)
(* (engine/phases.py).                                                     *)
(*                                                                         *)
(* Abstracted away: the texts of speeches, role claims and badge-flow      *)
(* announcements; what a seer learns (seer_log), which no rule reads; and  *)
(* hunter_can_shoot, which no code ever sets to False.                     *)
(***************************************************************************)
EXTENDS GameConfig

VARIABLES
    phase, round, winner,
    alive,              \* the seats with Player.alive
    revealed,           \* idiots turned over: idiot_revealed, and no can_vote
    antidote, poison,   \* the seats that still hold the potion
    last_guard_target,
    badge,              \* .seat: sheriff_seat; .flags: the seats with is_sheriff
    speech,             \* the queue of speakers
    resume_token, pending_hunter, day_exiled,
    night,              \* pending_night, with night_deaths and skip_day
    wolf_proposals, wolf_kill_round,
    last_proposals,     \* the last entry of wolf_proposal_history
    acted_seats,
    votes, vote_candidates, tie_round,
    election_stage, sheriff_candidates, sheriff_declared, sheriff_votes,
    sheriff_withdrawn, sheriff_pk_bystanders, sheriff_confirmed,
    sheriff_speech_direction

powerVars == <<revealed, antidote, poison, last_guard_target>>
huntVars == <<wolf_proposals, wolf_kill_round, last_proposals, acted_seats>>
voteVars == <<votes, vote_candidates, tie_round>>
campaignVars == <<sheriff_candidates, sheriff_declared, sheriff_votes, sheriff_withdrawn,
                  sheriff_pk_bystanders, sheriff_confirmed, sheriff_speech_direction>>
controlVars == <<phase, resume_token, speech, winner>>

vars == <<controlVars, round, alive, powerVars, badge, pending_hunter, day_exiled, night,
          huntVars, voteVars, election_stage, campaignVars>>

ElectionPhases == {"SHERIFF_ELECTION", "SHERIFF_PK"}
Phases == NightPhases \cup ElectionPhases \cup
          {"LAST_WORDS", "DAY_SPEECH", "VOTE", "VOTE_PK", "EXILE", "HUNTER_SHOOT", "GAME_OVER"}

\* ElectionStage; "none" is the code's "".
Stages == {"none", "candidacy", "speech", "withdraw", "vote", "direction", "announce"}

\* resume_token: where the game goes on after an interruption.
BadgeWindowTokens == {"badge_only:day_speech", "badge_only:after_day"}
Tokens == {"none", "night_after_hunter", "day_after_hunter", "day_speech", "after_day"}
              \cup BadgeWindowTokens

NoBallots == [s \in Seats |-> NotYet]
NoNight == [guard_target |-> None, wolf_target |-> None, witch_save |-> FALSE,
            witch_poison_target |-> None, deaths |-> {}, skip_day |-> FALSE]

Ballots == [Seats -> SeatOrNone \cup {NotYet}]
Queues == [who : SUBSET Seats, from : Int, clockwise : BOOLEAN]
Nights == [guard_target : SeatOrNone, wolf_target : SeatOrNone, witch_save : BOOLEAN,
           witch_poison_target : SeatOrNone, deaths : SUBSET Seats, skip_day : BOOLEAN]

Badges == [seat : SeatOrNone, flags : SUBSET Seats]

ControlTypeOK ==
    /\ phase \in Phases
    /\ resume_token \in Tokens
    /\ speech \in Queues
    /\ winner \in {"GOOD", "WOLF", "none"}

PowerTypeOK ==
    /\ revealed \subseteq Seats
    /\ antidote \subseteq Seats
    /\ poison \subseteq Seats
    /\ last_guard_target \in [Seats -> SeatOrNone]

HuntTypeOK ==
    /\ wolf_proposals \in Ballots
    /\ wolf_kill_round \in Nat
    /\ last_proposals \in Ballots
    /\ acted_seats \subseteq Seats

VoteTypeOK ==
    /\ votes \in Ballots
    /\ vote_candidates \subseteq Seats
    /\ tie_round \in {0, 1}

CampaignTypeOK ==
    /\ sheriff_candidates \subseteq Seats
    /\ sheriff_declared \subseteq Seats
    /\ sheriff_votes \in Ballots
    /\ sheriff_withdrawn \subseteq Seats
    /\ sheriff_pk_bystanders \subseteq Seats
    /\ sheriff_confirmed \subseteq Seats
    /\ sheriff_speech_direction \in {"none", "LEFT", "RIGHT"}

\* The state stays within the fields of GameState and Player: no step leaves a
\* stray seat, phase, stage or token behind.
TypeOK ==
    /\ ControlTypeOK
    /\ round \in Nat
    /\ alive \subseteq Seats
    /\ PowerTypeOK
    /\ badge \in Badges
    /\ pending_hunter \in SeatOrNone
    /\ day_exiled \in SeatOrNone
    /\ night \in Nights
    /\ HuntTypeOK
    /\ VoteTypeOK
    /\ election_stage \in Stages
    /\ CampaignTypeOK

-----------------------------------------------------------------------------
(* Windows (phases.py) *)

IsBadgeOnlyWindow == phase = "LAST_WORDS" /\ resume_token \in BadgeWindowTokens
CampaignSpeaking ==
    phase = "SHERIFF_ELECTION" /\ election_stage = "speech" /\ speech.who # {}
PkSpeaking == phase \in {"VOTE_PK", "SHERIFF_PK"} /\ speech.who # {}
SpeechQueuePending == CampaignSpeaking \/ PkSpeaking

MutantNobodyBarred == {}
\* sheriff_pk_barred: candidates who missed the runoff and may not vote in it.
SheriffPkBarred ==
    IF config.pk_voters = "NON_CANDIDATES_ONLY" THEN sheriff_pk_bystanders ELSE {}

CanVote == alive \ revealed
Waiting(ballots) == {s \in Seats : ballots[s] = NotYet}

MutantCandidatesVote == CanVote \ sheriff_withdrawn
\* Those who elect the sheriff in the first ballot, and in the runoff.
SheriffElectorate == CanVote \ (sheriff_candidates \cup sheriff_withdrawn)
SheriffPkElectorate == SheriffElectorate \ SheriffPkBarred

NightActors ==
    CASE phase = "NIGHT_GUARD" -> (alive \cap Holders("GUARD")) \ acted_seats
      [] phase = "NIGHT_WEREWOLF" -> (alive \cap Wolves) \cap Waiting(wolf_proposals)
      [] phase = "NIGHT_WITCH" ->
            (alive \cap Holders("WITCH") \cap (antidote \cup poison)) \ acted_seats
      [] phase = "NIGHT_SEER" -> (alive \cap Holders("SEER")) \ acted_seats
      [] OTHER -> {}

ElectionActors ==
    CASE election_stage = "candidacy" -> alive \ sheriff_declared
      [] election_stage = "speech" -> NextSpeaker(speech)
      [] election_stage = "withdraw" -> sheriff_candidates \ sheriff_confirmed
      [] election_stage = "vote" -> SheriffElectorate \cap Waiting(sheriff_votes)
      [] election_stage = "direction" -> {badge.seat} \ {None}
      [] OTHER -> {}

\* expected_actors: the seats the game waits for; none in a state that the
\* engine leaves by itself.
ExpectedActors ==
    CASE phase \in NightPhases -> NightActors
      [] phase \in {"DAY_SPEECH", "LAST_WORDS"} -> NextSpeaker(speech)
      [] phase = "VOTE" -> CanVote \cap Waiting(votes)
      [] phase = "VOTE_PK" ->
            IF speech.who # {} THEN NextSpeaker(speech)
            ELSE (CanVote \ vote_candidates) \cap Waiting(votes)
      [] phase = "HUNTER_SHOOT" -> {pending_hunter} \ {None}
      [] phase = "SHERIFF_ELECTION" -> ElectionActors
      [] phase = "SHERIFF_PK" ->
            IF speech.who # {} THEN NextSpeaker(speech)
            ELSE SheriffPkElectorate \cap Waiting(sheriff_votes)
      [] OTHER -> {}

\* The condition of the loop of advance: the engine moves on without a player.
SystemTurn == phase # "GAME_OVER" /\ ExpectedActors = {}

=============================================================================
