----------------------------- MODULE GameAnalysis ----------------------------
(***************************************************************************)
(* The statistics of a game (eval/metrics.py): analyze_game replays the    *)
(* events of a game and counts, for each seat, what the report on a        *)
(* profile divides by one another.  Here the replay runs beside the        *)
(* engine, over the events that its steps emit, for the seats in Watched;  *)
(* it never influences a step.                                             *)
(*                                                                         *)
(* Left out: what is counted of speeches, skills, proposals and the        *)
(* election, each the count of one event; the fingerprints of profiles.    *)
(***************************************************************************)
EXTENDS EngineProps

CONSTANT Watched    \* the seats whose statistics are followed

VARIABLES
    seats,          \* SeatStats of the watched seats
    dead,           \* the seats whose death has been counted
    first_targets,  \* the watched seats' ballots in the first vote of the day
    pk_candidates,  \* whom the runoff is about; {}: it is the first vote
    counted         \* which of a night's counts have been made: night_counted...

analysisVars == <<vars, seats, dead, first_targets, pk_candidates, counted>>

NoStats ==
    [rounds_alive |-> 0, exiled |-> 0, night_killed |-> 0,
     pk_votes_eligible |-> 0, vote_changes |-> 0,
     wolf_nights |-> 0, revote_nights |-> 0, decided_no_kill |-> 0]

AnalysisInit ==
    /\ Init
    /\ seats = [s \in Watched |-> NoStats]
    /\ dead = {}
    /\ first_targets = [s \in Watched |-> NotYet]
    /\ pk_candidates = {}
    /\ counted = {}

-----------------------------------------------------------------------------
(* The events of a step of the engine, by the change that each makes *)

Filled(ballots, before) == {s \in Seats : before[s] = NotYet /\ ballots[s] # NotYet}

VoteCast == Filled(votes', votes)
KillProposed == Filled(wolf_proposals', wolf_proposals)
KillRevote == wolf_kill_round' > wolf_kill_round
NoKillDecided ==
    phase = "NIGHT_WEREWOLF" /\ phase' # phase /\ night'.wolf_target = None
RoundStarted == round' > round
NightResolved ==
    IF phase \in NightPhases /\ phase' \notin NightPhases THEN night'.deaths ELSE {}
PlayerExiled == IF phase' = "EXILE" THEN alive \ alive' ELSE {}

\* Who falls by day: exiled, shot, or by its own hand.  The dead of the night
\* that the same step announces have been counted before.
FallsByDay == IF phase \in NightPhases THEN {} ELSE alive \ alive'

-----------------------------------------------------------------------------
(* What the replay makes of them *)

Count(condition) == IF condition THEN 1 ELSE 0

\* _die: only the first death of a seat is recorded, with the round it is in.
Dying == (NightResolved \cup FallsByDay) \ dead

\* A runoff vote tells something if the voter's first choice is in the runoff.
Eligible(s) == s \in VoteCast /\ pk_candidates # {} /\ first_targets[s] \in pk_candidates

\* What this step adds to the counts that are made once a night.
CountedNow ==
    {c \in {"night", "revote", "decided"} \ counted :
        CASE c = "night" -> KillProposed # {}
          [] c = "revote" -> KillRevote /\ "night" \in counted
          [] OTHER -> NoKillDecided /\ "night" \in counted}

Counted(s, st) ==
    LET hunts == s \in alive \cap Wolves
    IN  [rounds_alive |-> IF s \in Dying THEN round ELSE st.rounds_alive,
         exiled |-> st.exiled + Count(s \in PlayerExiled),
         night_killed |-> st.night_killed + Count(s \in NightResolved),
         pk_votes_eligible |-> st.pk_votes_eligible + Count(Eligible(s)),
         vote_changes |-> st.vote_changes + Count(Eligible(s) /\ votes'[s] # first_targets[s]),
         wolf_nights |-> st.wolf_nights + Count(hunts /\ "night" \in CountedNow),
         revote_nights |-> st.revote_nights + Count(hunts /\ "revote" \in CountedNow),
         decided_no_kill |-> st.decided_no_kill + Count(hunts /\ "decided" \in CountedNow)]

MutantRunoffForgotten ==
    /\ pk_candidates' = IF phase # "VOTE_PK" /\ phase' = "VOTE_PK" THEN vote_candidates'
                        ELSE pk_candidates
    /\ first_targets' = [s \in Watched |-> IF s \in VoteCast /\ pk_candidates = {}
                                           THEN votes'[s] ELSE first_targets[s]]
\* VOTE_STARTED, with the candidates of a runoff or none, and VOTE_CAST.
FollowVotes ==
    IF phase' # phase /\ phase' \in {"VOTE", "VOTE_PK"}
    THEN /\ pk_candidates' = vote_candidates'
         /\ first_targets' = IF tie_round' = 0 THEN [s \in Watched |-> NotYet] ELSE first_targets
    ELSE /\ first_targets' = [s \in Watched |-> IF s \in VoteCast /\ pk_candidates = {}
                                                THEN votes'[s] ELSE first_targets[s]]
         /\ UNCHANGED pk_candidates

AnalysisNext ==
    /\ Next
    /\ seats' = [s \in Watched |-> Counted(s, seats[s])]
    /\ dead' = dead \cup Dying
    /\ counted' = IF RoundStarted THEN {} ELSE counted \cup CountedNow
    /\ FollowVotes

AnalysisSpec == AnalysisInit /\ [][AnalysisNext]_analysisVars

-----------------------------------------------------------------------------
(* The report (aggregate), on the seats of one finished game *)

finished == phase = "GAME_OVER"

\* After the last event: who is still there has lived through all rounds.
alive_at_end(s) == Count(s \notin dead)
rounds_alive(s) == IF s \in dead THEN seats[s].rounds_alive ELSE round
wins(s) == Count(winner = IF s \in Wolves THEN "WOLF" ELSE "GOOD")

\* aggregate: games that were broken off are not in the report, and a game
\* counts for one of the two sides.
games == Count(finished)
wolf_games(s) == Count(finished /\ s \in Wolves)
good_games(s) == Count(finished /\ s \notin Wolves)

\* The rates of ProfileStats, as numerator and denominator; a denominator of 0
\* gives None, and N/A in the report.
FateRates(s) ==
    [win_rate |-> <<games * wins(s), games>>,
     wolf_win_rate |-> <<wolf_games(s) * wins(s), wolf_games(s)>>,
     good_win_rate |-> <<good_games(s) * wins(s), good_games(s)>>,
     survive_rate |-> <<games * alive_at_end(s), games>>,
     exiled_rate |-> <<games * seats[s].exiled, games>>,
     night_killed_rate |-> <<games * seats[s].night_killed, games>>]

VoteRates(s) == [vote_change_rate |-> <<seats[s].vote_changes, seats[s].pk_votes_eligible>>]

WolfRates(s) ==
    [revote_night_rate |-> <<seats[s].revote_nights, seats[s].wolf_nights>>,
     decided_no_kill_rate |-> <<seats[s].decided_no_kill, seats[s].wolf_nights>>]

-----------------------------------------------------------------------------
\* The replay's own book of the dead is the engine's, although it is kept from
\* four kinds of events: it is ahead of the table by the unannounced dead of
\* the night, and says at the end of the game who survived.
DeathsCounted ==
    /\ dead = (Seats \ alive) \cup (IF phase \in ElectionPhases THEN night.deaths ELSE {})
    /\ \A s \in Watched : alive_at_end(s) + seats[s].exiled + seats[s].night_killed <= 1

\* The wolves have yet to be called this night, or are being called.
WolvesAhead ==
    \E i, j \in DOMAIN config.night_order :
        i <= j /\ config.night_order[i] = phase /\ config.night_order[j] = "NIGHT_WEREWOLF"

\* A wolf is in one wolf night for each round it lives to see, whatever the
\* number of proposals and revotes in it: the denominator of two rates.
NightsCounted ==
    \A s \in Watched \cap Wolves :
        LET hunted == Count(WolvesAhead => "night" \in counted)
        IN  seats[s].wolf_nights =
                IF s \in dead THEN rounds_alive(s) ELSE round - 1 + hunted

\* A day brings at most one runoff vote in which a seat may stick to its choice.
RunoffsCounted ==
    \A s \in Watched :
        seats[s].pk_votes_eligible <= IF phase \in NightPhases \cup {"DAY_SPEECH", "VOTE"}
                                      THEN round - 1 ELSE round

Shares(rates) == \A name \in DOMAIN rates : rates[name][1] <= rates[name][2]

\* The report on a game is true (README.md:578-593): survivors survived, a rate
\* is a share of what the README says, and none exceeds 100%.  The rate of
\* candidacies, which does not keep this, is left out of the model.
StatisticsTrue ==
    /\ DeathsCounted
    /\ NightsCounted
    /\ RunoffsCounted
    /\ \A s \in Watched : Shares(FateRates(s)) /\ Shares(VoteRates(s)) /\ Shares(WolfRates(s))

=============================================================================
