---------------------------- MODULE HistoryProofs ----------------------------
(***************************************************************************)
(* What the engine remembers of the past: theorems about the properties    *)
(* of EngineHistory, which relate a state to speeches, deaths and potions  *)
(* of earlier phases and nights, and about the statistics of GameAnalysis, *)
(* which are counted while the game is played.                             *)
(*                                                                         *)
(* The invariant of the statistics (StatInv) ties each count to the table: *)
(* the book of the dead to who is alive, the nights to whether the wolves  *)
(* have yet to be called (WolvesAhead), the runoffs to where in the day    *)
(* the game is.  A step matters to it only as it begins a night, stays in  *)
(* one, goes on to its next phase or ends it (RoundStep).                  *)
(***************************************************************************)
EXTENDS GameProofs, EngineHistory, GameAnalysis

-----------------------------------------------------------------------------
(* Where the flow at the end of a step leads *)

\* The phases that the flow enters; the day begins with everybody in the queue.
FlowEnds ==
  /\ phase' \in NightPhases \cup {"GAME_OVER", "LAST_WORDS", "HUNTER_SHOOT", "DAY_SPEECH"}
  /\ phase' = "DAY_SPEECH" => speech'.who = alive'

LEMMA DayDeathFlow ==
  ASSUME NEW n, AfterDayDeath(n)
  PROVE  /\ phase' \in NightPhases \cup {"GAME_OVER"}
         /\ FlowEnds
<1>1. phase' \in NightPhases \cup {"GAME_OVER"}
  BY NightOrderType DEF AfterDayDeath, GameOver, BeginNight, EnterPhase
<1>2. phase' # "DAY_SPEECH"
  BY <1>1, PlainPhases
<1> QED
  BY <1>1, <1>2 DEF FlowEnds

LEMMA DaySpeechFlow ==
  ASSUME NEW n, EnterDaySpeech(n)
  PROVE  FlowEnds
<1>1. CASE n.skip_day
  BY <1>1, DayDeathFlow DEF EnterDaySpeech
<1>2. CASE ~n.skip_day
  <2>1. PICK queue \in SpeechOrder(n) : EnterPhase("DAY_SPEECH", "none", queue)
    BY <1>2 DEF EnterDaySpeech
  <2> QED
    BY <2>1, SpeechOrderWho DEF EnterPhase, FlowEnds
<1> QED
  BY <1>1, <1>2

LEMMA FinishNightFlow ==
  ASSUME NEW b, NEW n, FinishNightDeaths(b, n)
  PROVE  FlowEnds
<1>1. CASE EnterDaySpeech(n)
  BY <1>1, DaySpeechFlow
<1>2. CASE phase' = "LAST_WORDS"
  BY <1>2 DEF FlowEnds
<1> QED
  BY <1>1, <1>2 DEF FinishNightDeaths, LastWordsOf, OpenBadgeWindow, EnterPhase

LEMMA DayLastWordsFlow ==
  ASSUME EnterDayLastWords
  PROVE  FlowEnds
<1>1. CASE AfterDayDeath(night)
  BY <1>1, DayDeathFlow
<1>2. CASE phase' = "LAST_WORDS"
  BY <1>2 DEF FlowEnds
<1> QED
  BY <1>1, <1>2 DEF EnterDayLastWords, OpenBadgeWindow, EnterPhase

LEMMA AnnounceFlow ==
  ASSUME NEW living, NEW b, NEW n, AnnounceAndContinueNight(living, b, n)
  PROVE  FlowEnds
<1>1. CASE FinishNightDeaths(b, n)
  BY <1>1, FinishNightFlow
<1>2. CASE phase' \in {"GAME_OVER", "HUNTER_SHOOT"}
  BY <1>2 DEF FlowEnds
<1> QED
  BY <1>1, <1>2 DEF AnnounceAndContinueNight, GameOver, EnterPhase

\* How a step may change the phase.
PhaseMoves ==
  \/ UNCHANGED phase
  \/ FlowEnds
  \/ phase' \in {"SHERIFF_ELECTION", "EXILE"}
  \/ OpenVote
  \/ StartRunoff
  \/ StartSheriffRunoff

LEMMA NightStepMoves ==
  ASSUME GameInv, WolfRevote \/ WolfKillDecided \/ NightPhaseOver
  PROVE  PhaseMoves
<1>1. CASE WolfRevote
  BY <1>1 DEF WolfRevote, controlVars, PhaseMoves
<1>2. ASSUME NEW n, phase \in NightPhases, LeaveNightPhase(n)
      PROVE  PhaseMoves
  <2> DEFINE order == config.night_order
             i == CHOOSE j \in DOMAIN order : order[j] = phase
  <2>1. i \in DOMAIN order
    BY <1>2 DEF GameInv, Inv, TypeInv, Scheduled
  <2>2. CASE i < Len(order)
    <3>1. i + 1 \in DOMAIN order
      BY <2>1, <2>2, RulesAssumption
    <3>2. phase' \in NightPhases
      BY <1>2, <2>2, <3>1, NightOrderType DEF LeaveNightPhase, EnterPhase
    <3>3. phase' # "DAY_SPEECH"
      BY <3>2, PlainPhases
    <3> QED
      BY <3>2, <3>3 DEF PhaseMoves, FlowEnds
  <2>3. CASE ResolveNightAndContinue(n)
    <3>1. \A b, m : AnnounceAndContinueNight(alive, b, m) => FlowEnds
      BY AnnounceFlow
    <3>2. \A w, m : GameOver(w, m) => FlowEnds
      BY DEF GameOver, FlowEnds
    <3> QED
      BY <2>3, <3>1, <3>2 DEF ResolveNightAndContinue, EnterPhase, PhaseMoves
  <2> QED
    BY <1>2, <2>2, <2>3 DEF LeaveNightPhase
<1>3. CASE WolfKillDecided
  <2>1. PICK t \in WolfConsensus(wolf_proposals) :
          LeaveNightPhase([night EXCEPT !.wolf_target = t])
    BY <1>3 DEF WolfKillDecided
  <2>2. phase \in NightPhases
    BY <1>3 DEF WolfKillDecided, NightPhases
  <2> QED
    BY <1>2, <2>1, <2>2
<1>4. CASE NightPhaseOver
  <2>1. phase \in NightPhases /\ LeaveNightPhase(night)
    BY <1>4 DEF NightPhaseOver
  <2> QED
    BY <1>2, <2>1
<1> QED
  BY <1>1, <1>3, <1>4

LEMMA DayStepMoves ==
  ASSUME DayStep
  PROVE  PhaseMoves
<1>1. CASE OpenVote \/ StartRunoff
  BY <1>1 DEF PhaseMoves
<1>2. CASE NobodyExiled \/ \E s \in Seats : FlipIdiot(s)
  BY <1>2, DayDeathFlow DEF NobodyExiled, FlipIdiot, PhaseMoves
<1>3. CASE \E s \in Seats : Exile(s)
  BY <1>3 DEF Exile, EnterPhase, PhaseMoves
<1>4. ASSUME phase' \in {"LAST_WORDS", "HUNTER_SHOOT", "GAME_OVER"}
      PROVE  PhaseMoves
  BY <1>4 DEF PhaseMoves, FlowEnds
<1>5. CASE AfterExile
  BY <1>4, <1>5, DayLastWordsFlow DEF AfterExile, EnterPhase, PhaseMoves
<1>6. CASE AfterHunterShot
  BY <1>4, <1>6, DayLastWordsFlow, FinishNightFlow DEF AfterHunterShot, GameOver, PhaseMoves
<1>7. CASE AfterLastWords
  BY <1>4, <1>7, DaySpeechFlow, DayDeathFlow
     DEF AfterLastWords, OpenBadgeWindow, EnterPhase, PhaseMoves
<1> QED
  BY <1>1, <1>2, <1>3, <1>5, <1>6, <1>7 DEF DayStep

LEMMA ElectionStepMoves ==
  ASSUME ElectionStep
  PROVE  PhaseMoves
<1>1. ASSUME NEW b, EndElection(b)
      PROVE  PhaseMoves
  BY <1>1, AnnounceFlow DEF EndElection, PhaseMoves
<1>2. EnterWithdraw => PhaseMoves
  BY DEF EnterWithdraw, controlVars, PhaseMoves
<1>3. CASE AllDeclared
  BY <1>1, <1>2, <1>3 DEF AllDeclared, PhaseMoves
<1>4. CASE CampaignOver
  BY <1>2, <1>4 DEF CampaignOver
<1>5. CASE AllConfirmed
  BY <1>1, <1>5 DEF AllConfirmed, controlVars, PhaseMoves
<1>6. CASE \E s \in Seats : Elect(s)
  BY <1>1, <1>6 DEF Elect, EnterPhase, PhaseMoves
<1>7. CASE StartSheriffRunoff
  BY <1>7 DEF PhaseMoves
<1>8. CASE NobodyElected \/ DirectionSet
  BY <1>1, <1>8 DEF NobodyElected, DirectionSet
<1> QED
  BY <1>3, <1>4, <1>5, <1>6, <1>7, <1>8 DEF ElectionStep

LEMMA StepMoves ==
  ASSUME GameInv, [Next]_vars
  PROVE  PhaseMoves
<1>1. CASE NightAction
  BY <1>1 DEF NightAction, Skip, Guard, Propose, Save, Poison, Check, NightActionFrame,
     controlVars, PhaseMoves
<1>2. CASE DayAction
  <2>1. ASSUME NEW s \in Seats, SelfDestruct(s)
        PROVE  FlowEnds
    BY <2>1, DayDeathFlow, AnnounceFlow DEF SelfDestruct
  <2> QED
    BY <1>2, <2>1 DEF DayAction, Speak, CastVote, Shoot, PassBadge, controlVars, PhaseMoves
<1>3. CASE ElectionAction
  BY <1>3 DEF ElectionAction, Declare, Confirm, VoteSheriff, SetDirection, ElectionFrame,
     controlVars, PhaseMoves
<1>4. CASE SystemStep
  BY <1>4, NightStepMoves, DayStepMoves, ElectionStepMoves DEF SystemStep
<1>5. CASE UNCHANGED vars
  BY <1>5 DEF vars, controlVars, PhaseMoves
<1> QED
  BY <1>1, <1>2, <1>3, <1>4, <1>5 DEF Next, PlayerAction, Finished

-----------------------------------------------------------------------------
(* Ballots are opened empty, and only when the queue is *)

\* How a step may change a ballot while the seats of its phase still speak.
LEMMA RoundKeepsBallots ==
  /\ \A n : SameRound(n) => votes' = votes
  /\ \A w, n : GameOver(w, n) => votes' = votes
  /\ BeginNight => votes' = NoBallots
  /\ \A n : AfterDayDeath(n) => votes' \in {votes, NoBallots}
  /\ EnterDayLastWords => votes' \in {votes, NoBallots}
<1>1. \A n : SameRound(n) => votes' = votes
  BY DEF SameRound, voteVars
<1>2. \A w, n : GameOver(w, n) => votes' = votes
  BY <1>1 DEF GameOver
<1>3. BeginNight => votes' = NoBallots
  BY DEF BeginNight
<1>4. \A n : AfterDayDeath(n) => votes' \in {votes, NoBallots}
  BY <1>2, <1>3 DEF AfterDayDeath
<1> QED
  BY <1>1, <1>2, <1>3, <1>4 DEF EnterDayLastWords

\* While the seats of a runoff still speak, no ballot is cast in it.
LEMMA BallotsWait ==
  ASSUME [Next]_vars, UNCHANGED phase, speech.who # {}
  PROVE  /\ phase = "VOTE_PK" => votes' \in {votes, NoBallots}
         /\ phase = "SHERIFF_PK" => sheriff_votes' \in {sheriff_votes, NoBallots}
<1>1. ASSUME phase = "VOTE_PK"
      PROVE  votes' \in {votes, NoBallots}
  <2>1. phase \notin NightPhases \cup ElectionPhases
    BY <1>1, PlainPhases
  <2>2. ~(NightAction \/ WolfRevote \/ WolfKillDecided \/ NightPhaseOver)
    BY <1>1, <2>1 DEF NightAction, Skip, Guard, Propose, Save, Poison, Check, CanSkip, CanGuard,
       CanPropose, CanSave, CanPoison, CanCheck, WolfRevote, WolfKillDecided, NightPhaseOver
  <2>3. ~(ElectionAction \/ ElectionStep)
    BY <1>1, <2>1 DEF ElectionAction, Declare, Confirm, VoteSheriff, SetDirection, CanDeclare,
       CanConfirm, CanVoteSheriff, CanSetDirection, InElection, ElectionStep, AllDeclared,
       CampaignOver, AllConfirmed, Elect, StartSheriffRunoff, NobodyElected, DirectionSet,
       SheriffVoteOver
  <2>4. DayAction => votes' = votes
    BY <1>1, <2>1 DEF DayAction, Speak, SelfDestruct, CanSelfDestruct, CastVote, CanCastVote,
       PkSpeaking, Shoot, PassBadge, voteVars
  <2>5. DayStep => votes' \in {votes, NoBallots}
    BY <1>1, RoundKeepsBallots DEF DayStep, OpenVote, StartRunoff, VoteStarted, NobodyExiled,
       FlipIdiot, Exile, AfterExile, AfterHunterShot, AfterLastWords
  <2> QED
    BY <2>2, <2>3, <2>4, <2>5 DEF Next, PlayerAction, SystemStep, Finished, vars, voteVars
<1>2. ASSUME phase = "SHERIFF_PK"
      PROVE  sheriff_votes' \in {sheriff_votes, NoBallots}
  <2>1. phase \notin NightPhases
    BY <1>2, PlainPhases DEF ElectionPhases
  <2>2. ~(NightAction \/ WolfRevote \/ WolfKillDecided \/ NightPhaseOver)
    BY <1>2, <2>1 DEF NightAction, Skip, Guard, Propose, Save, Poison, Check, CanSkip, CanGuard,
       CanPropose, CanSave, CanPoison, CanCheck, WolfRevote, WolfKillDecided, NightPhaseOver
  <2>3. DayAction => sheriff_votes' = sheriff_votes
    BY DEF DayAction, Speak, SelfDestruct, CastVote, Shoot, PassBadge, campaignVars
  <2>4. DayStep => sheriff_votes' = sheriff_votes
    BY DEF DayStep, OpenVote, StartRunoff, NobodyExiled, FlipIdiot, Exile, AfterExile,
       AfterHunterShot, AfterLastWords, Unheld, campaignVars
  <2>5. ElectionAction => sheriff_votes' = sheriff_votes
    BY <1>2 DEF ElectionAction, Declare, Confirm, VoteSheriff, CanVoteSheriff,
       SpeechQueuePending, PkSpeaking, SetDirection
  <2>6. ElectionStep => sheriff_votes' \in {sheriff_votes, NoBallots}
    BY DEF ElectionStep, AllDeclared, CampaignOver, EnterWithdraw, AllConfirmed,
       SheriffVoteStarted, Elect, StartSheriffRunoff, NobodyElected, DirectionSet, campaignVars
  <2> QED
    BY <2>2, <2>3, <2>4, <2>5, <2>6
       DEF Next, PlayerAction, SystemStep, Finished, vars, campaignVars
<1> QED
  BY <1>1, <1>2

-----------------------------------------------------------------------------
(* Nobody votes before everybody who may speak has spoken *)

\* Those who have yet to be heard are in the queue.
HeardInv ==
  /\ unheard \subseteq Seats
  /\ phase \in {"DAY_SPEECH", "VOTE_PK", "SHERIFF_PK"} => unheard \subseteq speech.who
  /\ phase = "VOTE" => unheard = {}
  /\ HeardBeforeVote

HeardStep == unheard' = Speakers \ IF phase' = phase THEN speech.who \ speech'.who ELSE {}

LEMMA HeardSamePhase ==
  ASSUME GameInv, HeardInv, [Next]_vars, HeardStep, UNCHANGED phase
  PROVE  HeardInv'
<1>1. unheard' = unheard \ (speech.who \ speech'.who)
  BY DEF HeardStep, Speakers
<1>2. phase' \in {"DAY_SPEECH", "VOTE_PK", "SHERIFF_PK"} => unheard' \subseteq speech'.who
  BY <1>1 DEF HeardInv
<1>3. unheard' # {} /\ phase \in {"VOTE_PK", "SHERIFF_PK"} => speech.who # {}
  BY <1>1 DEF HeardInv
<1>4. HeardBeforeVote'
  BY <1>1, <1>3, BallotsWait DEF HeardInv, HeardBeforeVote
<1> QED
  BY <1>1, <1>2, <1>4 DEF HeardInv

LEMMA HeardNewPhase ==
  ASSUME GameInv, HeardInv, [Next]_vars, HeardStep, ~UNCHANGED phase
  PROVE  HeardInv'
<1>1. unheard' = Speakers
  BY DEF HeardStep
<1>2. GameInv'
  BY NextPlay
<1>3. /\ alive' \subseteq Seats /\ vote_candidates' \subseteq Seats
      /\ sheriff_candidates' \subseteq Seats
  BY <1>2 DEF GameInv, Inv, TypeInv, TypeOK, VoteTypeOK, CampaignTypeOK
<1>4. unheard' \subseteq Seats
  BY <1>1, <1>3 DEF Speakers, HeardInv
<1>5. CASE FlowEnds
  <2>1. phase' \notin {"VOTE", "VOTE_PK", "SHERIFF_PK"}
    BY <1>5, PlainPhases DEF FlowEnds, ElectionPhases
  <2>2. phase' = "DAY_SPEECH" => unheard' \subseteq speech'.who
    BY <1>1, <1>5 DEF FlowEnds, Speakers
  <2> QED
    BY <1>4, <2>1, <2>2 DEF HeardInv, HeardBeforeVote
<1>6. CASE phase' \in {"SHERIFF_ELECTION", "EXILE"}
  BY <1>4, <1>6 DEF HeardInv, HeardBeforeVote
<1>7. CASE OpenVote
  <2>1. unheard = {}
    BY <1>7, QueueEmpty DEF OpenVote, HeardInv
  <2>2. phase' = "VOTE"
    BY <1>7 DEF OpenVote, EnterPhase
  <2> QED
    BY <1>1, <2>1, <2>2 DEF Speakers, HeardInv, HeardBeforeVote
<1>8. CASE StartRunoff
  <2>1. /\ phase' = "VOTE_PK" /\ speech'.who = vote_candidates' /\ votes' = NoBallots
    BY <1>8 DEF StartRunoff, EnterPhase, VoteStarted, Ascending, Queue
  <2> QED
    BY <1>1, <1>4, <2>1 DEF Speakers, HeardInv, HeardBeforeVote
<1>9. CASE StartSheriffRunoff
  <2>1. /\ phase' = "SHERIFF_PK" /\ speech'.who = sheriff_candidates'
        /\ sheriff_votes' = NoBallots
    BY <1>9 DEF StartSheriffRunoff, EnterPhase, SheriffVoteStarted, Ascending, Queue
  <2> QED
    BY <1>1, <1>4, <2>1 DEF Speakers, HeardInv, HeardBeforeVote
<1> QED
  BY <1>5, <1>6, <1>7, <1>8, <1>9, StepMoves DEF PhaseMoves

LEMMA InitHeard == HistoryInit => GameInv /\ HeardInv
<1> SUFFICES ASSUME HistoryInit PROVE GameInv /\ HeardInv
  OBVIOUS
<1>1. GameInv
  BY InitPlay DEF HistoryInit
<1> QED
  BY <1>1 DEF HistoryInit, HeardInv, HeardBeforeVote

LEMMA NextHeard == GameInv /\ HeardInv /\ [HistoryNext]_historyVars => GameInv' /\ HeardInv'
<1> SUFFICES ASSUME GameInv, HeardInv, [HistoryNext]_historyVars PROVE GameInv' /\ HeardInv'
  OBVIOUS
<1>1. [Next]_vars
  BY DEF HistoryNext, historyVars
<1>2. GameInv'
  BY <1>1, NextPlay
<1>3. CASE HistoryNext
  BY <1>1, <1>2, <1>3, HeardSamePhase, HeardNewPhase DEF HistoryNext, HeardStep
<1>4. CASE UNCHANGED historyVars
  <2>1. UNCHANGED <<unheard, phase, speech, votes, sheriff_votes>>
    BY <1>4 DEF historyVars, vars, controlVars, voteVars, campaignVars
  <2> QED
    BY <1>2, <2>1 DEF HeardInv, HeardBeforeVote
<1> QED
  BY <1>3, <1>4

\* On every board nobody votes before everybody who may speak has spoken: all
\* the living before the exile vote, the tied before a runoff.
THEOREM EverybodyHeard == HistorySpec => []HeardBeforeVote
<1>1. HeardInv => HeardBeforeVote
  BY DEF HeardInv
<1> QED
  BY <1>1, InitHeard, NextHeard, PTL DEF HistorySpec

-----------------------------------------------------------------------------
(* Nobody is cut short of the last words it has a right to *)

\* Between a death and its last words only the shot of a hunter comes, and the
\* queue of the last words holds everybody who is owed them.
OwedTo ==
  CASE phase = "EXILE" -> {day_exiled} \ {None}
    [] phase = "HUNTER_SHOOT" ->
          IF resume_token = "night_after_hunter" THEN NightLastWords(night.deaths)
          ELSE {day_exiled} \ {None}
    [] phase = "LAST_WORDS" -> speech.who
    [] OTHER -> {}

OwedInv == phase # "GAME_OVER" => owed \subseteq OwedTo

OwedStep == owed' = (owed \cup Owed) \ Floored

LEMMA NobodyOwed ==
  ASSUME OwedStep, owed = {}, Owed = {} \/ UNCHANGED alive
  PROVE  OwedInv'
<1>1. Owed = {}
  BY DEF Owed, Died
<1> QED
  BY <1>1 DEF OwedStep, OwedInv

\* Most phases owe nobody anything.
LEMMA OwedNothing ==
  ASSUME OwedInv, phase \notin {"EXILE", "HUNTER_SHOOT", "LAST_WORDS", "GAME_OVER"}
  PROVE  owed = {}
  BY DEF OwedInv, OwedTo

LEMMA FinishNightOwes ==
  ASSUME NEW b, NEW n, FinishNightDeaths(b, n), owed' \subseteq NightLastWords(n.deaths)
  PROVE  OwedInv'
<1>1. CASE NightLastWords(n.deaths) = {}
  BY <1>1 DEF OwedInv
<1>2. CASE NightLastWords(n.deaths) # {}
  <2>1. phase' = "LAST_WORDS" /\ speech' = Ascending(NightLastWords(n.deaths))
    BY <1>2 DEF FinishNightDeaths, LastWordsOf, EnterPhase
  <2>2. speech'.who = NightLastWords(n.deaths)
    BY <2>1 DEF Ascending, Queue
  <2> QED
    BY <2>1, <2>2 DEF OwedInv, OwedTo
<1> QED
  BY <1>1, <1>2

LEMMA AnnounceRecord ==
  ASSUME NEW living, NEW b, NEW n, AnnounceAndContinueNight(living, b, n)
  PROVE  night' \in {n, NoNight}
<1>1. \A m : SameRound(m) => night' = m
  BY DEF SameRound
<1>2. \A w, m : GameOver(w, m) => night' = m
  BY <1>1 DEF GameOver
<1>3. BeginNight => night' = NoNight
  BY DEF BeginNight
<1>4. \A m : AfterDayDeath(m) => night' \in {m, NoNight}
  BY <1>2, <1>3 DEF AfterDayDeath
<1>5. \A m : EnterDaySpeech(m) => night' \in {m, NoNight}
  BY <1>1, <1>4 DEF EnterDaySpeech
<1>6. \A c, m : FinishNightDeaths(c, m) => night' \in {m, NoNight}
  BY <1>1, <1>5 DEF FinishNightDeaths, LastWordsOf
<1> QED
  BY <1>1, <1>2, <1>6 DEF AnnounceAndContinueNight

\* The announcement of the dead leads to the last words of all of them.
LEMMA AnnounceOwes ==
  ASSUME OwedStep, owed = {}, phase \in NightPhases \cup ElectionPhases,
         NEW living, NEW b, NEW n, AnnounceAndContinueNight(living, b, n)
  PROVE  OwedInv'
<1>1. phase' # "EXILE"
  BY AnnounceFlow, PlainPhases DEF FlowEnds
<1>2. owed' \subseteq NightLastWords(night'.deaths)
  BY <1>1 DEF OwedStep, Owed
<1>3. NightLastWords(NoNight.deaths) = {}
  BY DEF NoNight, NightLastWords
<1>4. owed' \subseteq NightLastWords(n.deaths)
  BY <1>2, <1>3, AnnounceRecord
<1>5. CASE phase' = "GAME_OVER"
  BY <1>5 DEF OwedInv
<1>6. CASE FinishNightDeaths(b, n)
  BY <1>4, <1>6, FinishNightOwes
<1>7. CASE EnterPhase("HUNTER_SHOOT", "night_after_hunter", speech) /\ SameRound(n)
  <2>1. /\ phase' = "HUNTER_SHOOT" /\ resume_token' = "night_after_hunter"
        /\ night' = n /\ round' = round
    BY <1>7 DEF EnterPhase, SameRound
  <2>2. NightLastWords(n.deaths)' = NightLastWords(n.deaths)
    BY <2>1 DEF NightLastWords
  <2>3. OwedTo' = NightLastWords(n.deaths)
    BY <2>1, <2>2 DEF OwedTo, NightLastWords
  <2> QED
    BY <1>4, <2>3 DEF OwedInv
<1> QED
  BY <1>5, <1>6, <1>7 DEF AnnounceAndContinueNight, GameOver

LEMMA NightOwes ==
  ASSUME GameInv, OwedInv, OwedStep, NightAction \/ WolfRevote \/ WolfKillDecided \/ NightPhaseOver
  PROVE  OwedInv'
<1>1. phase \in NightPhases
  BY DEF NightAction, Skip, Guard, Propose, Save, Poison, Check, CanSkip, CanGuard,
     CanPropose, CanSave, CanPoison, CanCheck, WolfRevote, WolfKillDecided, NightPhaseOver,
     NightPhases
<1>2. owed = {}
  BY <1>1, PlainPhases, OwedNothing
<1>3. ASSUME UNCHANGED alive
      PROVE  OwedInv'
  BY <1>2, <1>3, NobodyOwed
<1>4. CASE NightAction \/ WolfRevote
  BY <1>3, <1>4 DEF NightAction, Skip, Guard, Propose, Save, Poison, Check, NightActionFrame,
     WolfRevote
<1>5. ASSUME NEW n, LeaveNightPhase(n)
      PROVE  OwedInv'
  <2>1. CASE UNCHANGED alive
    BY <1>3, <2>1
  <2>2. ASSUME NEW b, NEW m, AnnounceAndContinueNight(alive, b, m)
        PROVE  OwedInv'
    BY <1>1, <1>2, <2>2, AnnounceOwes
  <2>3. ASSUME NEW w, NEW m, GameOver(w, m)
        PROVE  OwedInv'
    BY <2>3 DEF GameOver, OwedInv
  <2>4. CASE ResolveNightAndContinue(n)
    BY <2>1, <2>2, <2>3, <2>4 DEF ResolveNightAndContinue
  <2> QED
    BY <1>5, <2>1, <2>4 DEF LeaveNightPhase
<1>6. CASE WolfKillDecided
  BY <1>5, <1>6 DEF WolfKillDecided
<1>7. CASE NightPhaseOver
  BY <1>5, <1>7 DEF NightPhaseOver
<1> QED
  BY <1>4, <1>6, <1>7

LEMMA ElectionOwes ==
  ASSUME OwedInv, OwedStep, ElectionAction \/ ElectionStep
  PROVE  OwedInv'
<1>1. phase \in ElectionPhases
  BY DEF ElectionAction, Declare, Confirm, VoteSheriff, SetDirection, CanDeclare, CanConfirm,
     CanVoteSheriff, CanSetDirection, InElection, ElectionStep, AllDeclared, CampaignOver,
     AllConfirmed, Elect, StartSheriffRunoff, NobodyElected, DirectionSet, SheriffVoteOver,
     ElectionPhases
<1>2. owed = {}
  BY <1>1, PlainPhases, OwedNothing
<1>3. ASSUME UNCHANGED alive
      PROVE  OwedInv'
  BY <1>2, <1>3, NobodyOwed
<1>4. ASSUME NEW b, EndElection(b)
      PROVE  OwedInv'
  BY <1>1, <1>2, <1>4, AnnounceOwes DEF EndElection
<1>5. EnterWithdraw => OwedInv'
  BY <1>3 DEF EnterWithdraw, StillElecting
<1>6. CASE ElectionAction
  BY <1>3, <1>6 DEF ElectionAction, Declare, Confirm, VoteSheriff, SetDirection, ElectionFrame
<1>7. CASE AllDeclared
  BY <1>3, <1>4, <1>5, <1>7 DEF AllDeclared, StillElecting
<1>8. CASE CampaignOver
  BY <1>5, <1>8 DEF CampaignOver
<1>9. CASE AllConfirmed
  BY <1>3, <1>4, <1>9 DEF AllConfirmed, StillElecting
<1>10. CASE \E s \in Seats : Elect(s)
  BY <1>3, <1>4, <1>10 DEF Elect
<1>11. CASE StartSheriffRunoff
  BY <1>3, <1>11 DEF StartSheriffRunoff, StillElecting
<1>12. CASE NobodyElected \/ DirectionSet
  BY <1>4, <1>12 DEF NobodyElected, DirectionSet
<1> QED
  BY <1>6, <1>7, <1>8, <1>9, <1>10, <1>11, <1>12 DEF ElectionStep

LEMMA DayActionOwes ==
  ASSUME OwedInv, OwedStep, DayAction
  PROVE  OwedInv'
<1>1. ASSUME phase # "GAME_OVER", UNCHANGED <<phase, alive>>, phase # "HUNTER_SHOOT",
             phase # "EXILE"
      PROVE  OwedInv'
  <2>1. Owed = {}
    BY <1>1 DEF Owed, Died
  <2>2. CASE phase = "LAST_WORDS"
    <3>1. owed \subseteq speech.who
      BY <2>2 DEF OwedInv, OwedTo
    <3>2. owed' \subseteq speech'.who
      BY <2>1, <2>2, <3>1 DEF OwedStep, Floored
    <3> QED
      BY <1>1, <2>2, <3>2 DEF OwedInv, OwedTo
  <2>3. CASE phase # "LAST_WORDS"
    BY <1>1, <2>1, <2>3, OwedNothing, NobodyOwed
  <2> QED
    BY <2>2, <2>3
<1>2. CASE \E s \in Seats : Speak(s)
  BY <1>1, <1>2 DEF Speak, CanSpeak, SpeechQueuePending, CampaignSpeaking, PkSpeaking
<1>3. CASE \E s \in Seats : \E t \in Aim["vote"] \cup {None} : CastVote(s, t)
  BY <1>1, <1>3 DEF CastVote, CanCastVote, controlVars
<1>4. CASE \E s \in Seats : \E t \in Aim["badge"] \cup {None} : PassBadge(s, t)
  BY <1>1, <1>4 DEF PassBadge, CanPassBadge
<1>5. ASSUME NEW s \in Seats, NEW t, Shoot(s, t)
      PROVE  OwedInv'
  <2>1. /\ phase = "HUNTER_SHOOT"
        /\ UNCHANGED <<phase, resume_token, night, day_exiled, round>>
    BY <1>5 DEF Shoot, CanShoot, controlVars
  <2>2. owed' \subseteq owed
    BY <2>1, PlainPhases DEF OwedStep, Owed
  <2>3. OwedTo' = OwedTo
    BY <2>1 DEF OwedTo, NightLastWords
  <2> QED
    BY <2>1, <2>2, <2>3 DEF OwedInv
<1>6. ASSUME NEW s \in Seats, SelfDestruct(s)
      PROVE  OwedInv'
  <2>1. phase \in {"DAY_SPEECH"} \cup ElectionPhases
    BY <1>6 DEF SelfDestruct, CanSelfDestruct
  <2>2. owed = {}
    BY <2>1, PlainPhases, OwedNothing
  <2>3. CASE phase = "DAY_SPEECH"
    <3>1. AfterDayDeath(night)
      BY <1>6, <2>3 DEF SelfDestruct
    <3>2. Owed = {}
      BY <2>3, <3>1, DayDeathFlow, PlainPhases DEF Owed
    <3> QED
      BY <2>2, <3>2, NobodyOwed
  <2>4. CASE phase \in ElectionPhases
    <3>1. PICK living, b, n : AnnounceAndContinueNight(living, b, n)
      BY <1>6, <2>4, PlainPhases DEF SelfDestruct
    <3> QED
      BY <2>2, <2>4, <3>1, AnnounceOwes
  <2> QED
    BY <2>1, <2>3, <2>4
<1> QED
  BY <1>2, <1>3, <1>4, <1>5, <1>6 DEF DayAction

\* The last words of an exiled seat, or the end of the day if nobody has any.
LEMMA DayLastWordsOwes ==
  ASSUME EnterDayLastWords, owed' \subseteq {day_exiled} \ {None}
  PROVE  OwedInv'
<1>1. CASE {day_exiled} \ {None} = {}
  BY <1>1 DEF OwedInv
<1>2. CASE {day_exiled} \ {None} # {}
  <2>1. phase' = "LAST_WORDS" /\ speech' = Ascending({day_exiled} \ {None})
    BY <1>2 DEF EnterDayLastWords, EnterPhase
  <2>2. speech'.who = {day_exiled} \ {None}
    BY <2>1 DEF Ascending, Queue
  <2> QED
    BY <2>1, <2>2 DEF OwedInv, OwedTo
<1> QED
  BY <1>1, <1>2

LEMMA DayStepOwes ==
  ASSUME GameInv, OwedInv, OwedStep, DayStep
  PROVE  OwedInv'
<1>1. /\ phase \notin NightPhases \cup ElectionPhases /\ phase # "GAME_OVER"
      /\ phase # "EXILE" => Owed = {} \/ phase' = "EXILE"
  BY PlainPhases DEF DayStep, OpenVote, StartRunoff, NobodyExiled, FlipIdiot, Exile, VoteOver,
     AfterExile, AfterHunterShot, AfterLastWords, Owed
<1>2. ASSUME phase' # "EXILE", phase # "LAST_WORDS" \/ speech.who = {}
      PROVE  owed' = owed
  <2>1. Owed = {} /\ Floored = {}
    BY <1>1, <1>2 DEF Owed, Floored
  <2> QED
    BY <2>1 DEF OwedStep
<1>3. CASE OpenVote \/ StartRunoff \/ NobodyExiled \/ \E s \in Seats : FlipIdiot(s)
  <2>1. phase \in {"DAY_SPEECH", "VOTE", "VOTE_PK"} /\ phase' # "EXILE"
    BY <1>3, DayDeathFlow, PlainPhases DEF OpenVote, StartRunoff, NobodyExiled, FlipIdiot,
       VoteOver, EnterPhase
  <2>2. owed = {}
    BY <2>1, OwedNothing
  <2> QED
    BY <1>2, <2>1, <2>2 DEF OwedInv
<1>4. ASSUME NEW s \in Seats, Exile(s)
      PROVE  OwedInv'
  <2>1. /\ phase \in {"VOTE", "VOTE_PK"} /\ phase' = "EXILE" /\ day_exiled' = s
        /\ alive' = alive \ {s}
    BY <1>4 DEF Exile, VoteOver, EnterPhase
  <2>2. owed' \subseteq {s}
    BY <2>1, OwedNothing DEF OwedStep, Owed, Died
  <2>3. s # None
    BY SeatFacts
  <2> QED
    BY <2>1, <2>2, <2>3 DEF OwedInv, OwedTo
<1>5. CASE AfterExile
  <2>1. /\ phase = "EXILE" /\ UNCHANGED <<alive, day_exiled>>
        /\ owed \subseteq {day_exiled} \ {None}
    BY <1>5 DEF AfterExile, OwedInv, OwedTo
  <2>2. owed' \subseteq {day_exiled} \ {None}
    BY <2>1 DEF OwedStep, Owed, Died
  <2>3. CASE day_exiled \in Holders("HUNTER")
    <3>1. phase' = "HUNTER_SHOOT" /\ resume_token' = "day_after_hunter"
      BY <1>5, <2>3 DEF AfterExile, EnterPhase
    <3> QED
      BY <2>1, <2>2, <3>1 DEF OwedInv, OwedTo
  <2>4. CASE day_exiled \notin Holders("HUNTER")
    BY <1>5, <2>2, <2>4, DayLastWordsOwes DEF AfterExile
  <2> QED
    BY <2>3, <2>4
<1>6. CASE AfterHunterShot
  <2>1. phase = "HUNTER_SHOOT" /\ UNCHANGED alive
    BY <1>6 DEF AfterHunterShot
  <2>2. owed' = owed
    BY <1>2, <2>1, PlainPhases DEF OwedStep, Owed, Died, Floored
  <2>3. CASE phase' = "GAME_OVER"
    BY <2>3 DEF OwedInv
  <2>4. CASE resume_token = "night_after_hunter" /\ phase' # "GAME_OVER"
    <3>1. FinishNightDeaths(badge, night)
      BY <1>6, <2>4 DEF AfterHunterShot, GameOver
    <3>2. owed' \subseteq NightLastWords(night.deaths)
      BY <2>1, <2>2, <2>4 DEF OwedInv, OwedTo
    <3> QED
      BY <3>1, <3>2, FinishNightOwes
  <2>5. CASE resume_token # "night_after_hunter" /\ phase' # "GAME_OVER"
    <3>1. EnterDayLastWords
      BY <1>6, <2>5 DEF AfterHunterShot, GameOver
    <3>2. owed' \subseteq {day_exiled} \ {None}
      BY <2>1, <2>2, <2>5 DEF OwedInv, OwedTo
    <3> QED
      BY <3>1, <3>2, DayLastWordsOwes
  <2> QED
    BY <2>3, <2>4, <2>5
<1>7. CASE AfterLastWords
  <2>1. phase = "LAST_WORDS" /\ SystemTurn /\ UNCHANGED alive
    BY <1>7 DEF AfterLastWords
  <2>2. speech.who = {}
    BY <2>1, QueueEmpty
  <2>3. owed = {}
    BY <2>1, <2>2 DEF OwedInv, OwedTo
  <2> QED
    BY <2>1, <2>3, NobodyOwed
<1> QED
  BY <1>3, <1>4, <1>5, <1>6, <1>7 DEF DayStep

LEMMA NextOwed ==
  GameInv /\ OwedInv /\ [HistoryNext]_historyVars => GameInv' /\ OwedInv'
<1> SUFFICES ASSUME GameInv, OwedInv, [HistoryNext]_historyVars PROVE GameInv' /\ OwedInv'
  OBVIOUS
<1>1. GameInv'
  BY NextPlay DEF HistoryNext, historyVars
<1>2. CASE HistoryNext
  <2>1. OwedStep /\ Next
    BY <1>2 DEF HistoryNext, OwedStep
  <2>2. Finished => OwedInv'
    BY DEF Finished, vars, controlVars, OwedInv
  <2> QED
    BY <1>1, <2>1, <2>2, NightOwes, ElectionOwes, DayActionOwes, DayStepOwes
       DEF Next, PlayerAction, SystemStep
<1>3. CASE UNCHANGED historyVars
  <2>1. UNCHANGED <<owed, phase, resume_token, speech, day_exiled, night, round>>
    BY <1>3 DEF historyVars, vars, controlVars
  <2>2. OwedTo' = OwedTo
    BY <2>1 DEF OwedTo, NightLastWords
  <2> QED
    BY <1>1, <2>1, <2>2 DEF OwedInv
<1> QED
  BY <1>2, <1>3

\* On every board whoever was exiled, and whoever died in a night whose dead
\* may speak, has had its last words before the next day or night begins.
THEOREM LastWordsGiven == HistorySpec => []LastWordsHeard
<1>1. HistoryInit => GameInv /\ OwedInv
  BY InitPlay DEF HistoryInit, OwedInv
<1>2. OwedInv => LastWordsHeard
  BY PlainPhases DEF OwedInv, OwedTo, LastWordsHeard
<1> QED
  BY <1>1, <1>2, NextOwed, PTL DEF HistorySpec

-----------------------------------------------------------------------------
(* A witch has one bottle of each kind *)

\* The wolves have had their turn in this night.
KnifePast ==
  \E i, j \in DOMAIN config.night_order :
      /\ i < j
      /\ config.night_order[i] = "NIGHT_WEREWOLF"
      /\ config.night_order[j] = phase

KnifeInv ==
  phase \in NightPhases =>
      /\ night.witch_save => night.wolf_target # None
      /\ night.wolf_target # None => KnifePast

\* The antidote was used in this night, which is yet to be resolved.
Pending(s) ==
  /\ phase \in NightPhases
  /\ night.witch_save
  /\ s \in alive \cap Holders("WITCH")

Once(nights) == \A p, q \in nights : p = q

SavedOnce ==
  \A s \in Seats :
      used[s].save # {} => Once(used[s].save) /\ (s \in antidote => Pending(s))

PoisonedOnce ==
  \A s \in Seats :
      used[s].poison # {} => Once(used[s].poison) /\ s \notin poison

BottlesInv == KnifeInv /\ SavedOnce /\ PoisonedOnce

\* A step that ends outside of a phase's own actions forgets who acted, and
\* starts a night with a blank record.
FlowFresh ==
  /\ acted_seats' \subseteq acted_seats
  /\ phase' \in NightPhases => night' = NoNight

LEMMA EnterDayFresh ==
  ASSUME NEW p \in {"LAST_WORDS", "DAY_SPEECH", "HUNTER_SHOOT", "GAME_OVER", "EXILE", "VOTE",
                    "VOTE_PK"} \cup ElectionPhases,
         phase' = p, UNCHANGED huntVars
  PROVE  FlowFresh
  BY PlainPhases DEF FlowFresh, huntVars

LEMMA GameOverFresh ==
  ASSUME NEW w, NEW n, GameOver(w, n)
  PROVE  FlowFresh
  BY EnterDayFresh DEF GameOver, SameRound

LEMMA DayDeathFresh ==
  ASSUME NEW n, AfterDayDeath(n)
  PROVE  FlowFresh
<1>1. BeginNight => FlowFresh
  BY DEF BeginNight, FreshHunt, FlowFresh
<1> QED
  BY <1>1, GameOverFresh DEF AfterDayDeath

LEMMA DaySpeechFresh ==
  ASSUME NEW n, EnterDaySpeech(n)
  PROVE  FlowFresh
<1>1. CASE n.skip_day
  BY <1>1, DayDeathFresh DEF EnterDaySpeech
<1>2. CASE ~n.skip_day
  BY <1>2, EnterDayFresh DEF EnterDaySpeech, EnterPhase, SameRound
<1> QED
  BY <1>1, <1>2

LEMMA FinishNightFresh ==
  ASSUME NEW b, NEW n, FinishNightDeaths(b, n)
  PROVE  FlowFresh
<1>1. CASE EnterDaySpeech(n)
  BY <1>1, DaySpeechFresh
<1>2. CASE phase' = "LAST_WORDS" /\ SameRound(n)
  BY <1>2, EnterDayFresh DEF SameRound
<1> QED
  BY <1>1, <1>2 DEF FinishNightDeaths, LastWordsOf, OpenBadgeWindow, EnterPhase

LEMMA DayLastWordsFresh ==
  ASSUME EnterDayLastWords
  PROVE  FlowFresh
<1>1. CASE AfterDayDeath(night)
  BY <1>1, DayDeathFresh
<1>2. CASE phase' = "LAST_WORDS" /\ SameRound(night)
  BY <1>2, EnterDayFresh DEF SameRound
<1> QED
  BY <1>1, <1>2 DEF EnterDayLastWords, OpenBadgeWindow, EnterPhase

LEMMA AnnounceFresh ==
  ASSUME NEW living, NEW b, NEW n, AnnounceAndContinueNight(living, b, n)
  PROVE  FlowFresh
<1>1. CASE FinishNightDeaths(b, n)
  BY <1>1, FinishNightFresh
<1>2. CASE phase' = "HUNTER_SHOOT" /\ SameRound(n)
  BY <1>2, EnterDayFresh DEF SameRound
<1>3. CASE GameOver(CheckWin(alive'), n)
  BY <1>3, GameOverFresh
<1> QED
  BY <1>1, <1>2, <1>3 DEF AnnounceAndContinueNight, EnterPhase

LEMMA DayFresh ==
  ASSUME DayAction \/ DayStep
  PROVE  FlowFresh \/ UNCHANGED <<phase, night, huntVars>>
<1>1. CASE DayAction
  <2>1. ASSUME NEW s \in Seats, SelfDestruct(s)
        PROVE  FlowFresh
    BY <2>1, DayDeathFresh, AnnounceFresh DEF SelfDestruct
  <2> QED
    BY <1>1, <2>1 DEF DayAction, Speak, CastVote, Shoot, PassBadge, controlVars
<1>2. CASE OpenVote \/ StartRunoff
  BY <1>2, EnterDayFresh DEF OpenVote, StartRunoff, EnterPhase
<1>3. CASE NobodyExiled \/ \E s \in Seats : FlipIdiot(s)
  BY <1>3, DayDeathFresh DEF NobodyExiled, FlipIdiot
<1>4. CASE \E s \in Seats : Exile(s)
  BY <1>4, EnterDayFresh DEF Exile, EnterPhase, SameRound
<1>5. CASE AfterExile
  BY <1>5, EnterDayFresh, DayLastWordsFresh DEF AfterExile, EnterPhase, SameRound
<1>6. CASE AfterHunterShot
  BY <1>6, GameOverFresh, FinishNightFresh, DayLastWordsFresh DEF AfterHunterShot
<1>7. CASE AfterLastWords
  BY <1>7, EnterDayFresh, DaySpeechFresh, DayDeathFresh
     DEF AfterLastWords, OpenBadgeWindow, EnterPhase, SameRound
<1> QED
  BY <1>1, <1>2, <1>3, <1>4, <1>5, <1>6, <1>7 DEF DayStep

LEMMA ElectionFresh ==
  ASSUME ElectionAction \/ ElectionStep
  PROVE  FlowFresh \/ UNCHANGED <<phase, night, huntVars>>
<1>1. \A b : EndElection(b) => FlowFresh
  BY AnnounceFresh DEF EndElection
<1>2. StillElecting => UNCHANGED <<night, huntVars>>
  BY DEF StillElecting, SameRound
<1>3. EnterWithdraw => UNCHANGED <<phase, night, huntVars>>
  BY <1>2 DEF EnterWithdraw, controlVars
<1>4. CASE ElectionAction
  BY <1>4 DEF ElectionAction, Declare, Confirm, VoteSheriff, SetDirection, ElectionFrame,
     controlVars
<1>5. CASE AllDeclared \/ CampaignOver
  BY <1>1, <1>2, <1>3, <1>5 DEF AllDeclared, CampaignOver
<1>6. CASE AllConfirmed
  BY <1>1, <1>2, <1>6 DEF AllConfirmed, controlVars
<1>7. CASE StartSheriffRunoff
  BY <1>2, <1>7, EnterDayFresh DEF StartSheriffRunoff, EnterPhase, ElectionPhases
<1>8. ASSUME NEW s, Elect(s)
      PROVE  FlowFresh
  BY <1>1, <1>8, EnterDayFresh DEF Elect, EnterPhase, SameRound, ElectionPhases
<1>9. CASE NobodyElected \/ DirectionSet
  BY <1>1, <1>9 DEF NobodyElected, DirectionSet
<1> QED
  BY <1>4, <1>5, <1>6, <1>7, <1>8, <1>9 DEF ElectionStep

\* Nobody is given a potion back.
LEMMA BottlesEmptied ==
  ASSUME [Next]_vars
  PROVE  antidote' \subseteq antidote /\ poison' \subseteq poison
<1>1. CASE NightAction
  BY <1>1 DEF NightAction, NightActionFrame, Skip, Guard, Propose, Save, Poison, Check
<1>2. ASSUME NEW n, LeaveNightPhase(n)
      PROVE  antidote' \subseteq antidote /\ poison' \subseteq poison
  BY <1>2 DEF LeaveNightPhase, ResolveNightAndContinue, powerVars
<1>3. CASE WolfRevote \/ WolfKillDecided \/ NightPhaseOver
  BY <1>2, <1>3 DEF WolfRevote, WolfKillDecided, NightPhaseOver, powerVars
<1>4. CASE DayAction
  BY <1>4 DEF DayAction, Speak, SelfDestruct, CastVote, Shoot, PassBadge, powerVars
<1>5. CASE DayStep
  BY <1>5 DEF DayStep, OpenVote, StartRunoff, NobodyExiled, FlipIdiot, Exile, AfterExile,
     AfterHunterShot, AfterLastWords, Unheld, powerVars
<1>6. CASE ElectionAction \/ ElectionStep
  BY <1>6 DEF ElectionAction, Declare, Confirm, VoteSheriff, SetDirection, ElectionFrame,
     ElectionStep, AllDeclared, CampaignOver, AllConfirmed, Elect, SheriffVoteOver,
     StartSheriffRunoff, NobodyElected, DirectionSet, powerVars
<1> QED
  BY <1>1, <1>3, <1>4, <1>5, <1>6 DEF Next, PlayerAction, SystemStep, Finished, vars, powerVars

BottleStep ==
  used' = [s \in Seats |->
             [save |-> used[s].save \cup
                   {r \in {round} : Actor(s) /\ night'.witch_save # night.witch_save},
              poison |-> used[s].poison \cup
                   {r \in {round} :
                       Actor(s) /\ night'.witch_poison_target # night.witch_poison_target}]]

LEMMA UsedAgain ==
  ASSUME BottleStep, NEW s \in Seats
  PROVE  /\ Actor(s) /\ night'.witch_save # night.witch_save
               => used'[s].save = used[s].save \cup {round}
         /\ ~(Actor(s) /\ night'.witch_save # night.witch_save)
               => used'[s].save = used[s].save
         /\ Actor(s) /\ night'.witch_poison_target # night.witch_poison_target
               => used'[s].poison = used[s].poison \cup {round}
         /\ ~(Actor(s) /\ night'.witch_poison_target # night.witch_poison_target)
               => used'[s].poison = used[s].poison
  BY DEF BottleStep

\* Who uses a potion still has it, and marks the night's record.
LEMMA BottleOpened ==
  ASSUME TypeOK, NightAction, NEW s \in Seats, Actor(s)
  PROVE  /\ night'.witch_save # night.witch_save
               => /\ s \in antidote /\ ~night.witch_save /\ night'.witch_save
                  /\ s \in alive \cap Holders("WITCH") /\ night.wolf_target # None
         /\ night'.witch_poison_target # night.witch_poison_target
               => s \in poison /\ s \notin poison'
<1>1. night \in Nights
  BY DEF TypeOK
<1>2. PICK u \in Seats :
        \/ Skip(u) \/ Save(u) \/ Check(u)
        \/ \E t \in Aim["guard"] : Guard(u, t)
        \/ \E t \in Aim["kill"] \cup {None} : Propose(u, t)
        \/ \E t \in Aim["poison"] : Poison(u, t)
  BY DEF NightAction
<1>3. u = s
  BY <1>2 DEF Skip, Save, Check, Guard, Propose, Poison, Acted, Actor
<1>4. CASE Save(s)
  <2>1. /\ s \in antidote /\ night.wolf_target # None /\ phase = "NIGHT_WITCH"
        /\ s \in ExpectedActors
    BY <1>4 DEF Save, CanSave, OnTurn
  <2>2. s \in alive \cap Holders("WITCH")
    BY <2>1 DEF ExpectedActors, NightActors, NightPhases
  <2>3. night'.witch_save = TRUE /\ night'.witch_poison_target = night.witch_poison_target
    BY <1>1, <1>4 DEF Save, Nights
  <2>4. night.witch_save \in BOOLEAN
    BY <1>1 DEF Nights
  <2> QED
    BY <2>1, <2>2, <2>3, <2>4
<1>5. CASE \E t \in Aim["poison"] : Poison(s, t)
  <2>1. s \in poison /\ s \notin poison' /\ night'.witch_save = night.witch_save
    BY <1>1, <1>5 DEF Poison, CanPoison, Nights
  <2> QED
    BY <2>1
<1>6. CASE \/ Skip(s) \/ Check(s)
           \/ \E t \in Aim["guard"] : Guard(s, t)
           \/ \E t \in Aim["kill"] \cup {None} : Propose(s, t)
  <2>1. /\ night'.witch_save = night.witch_save
        /\ night'.witch_poison_target = night.witch_poison_target
    BY <1>1, <1>6 DEF Skip, Check, Guard, Propose, Nights
  <2> QED
    BY <2>1
<1> QED
  BY <1>2, <1>3, <1>4, <1>5, <1>6

LEMMA NightActionBottles ==
  ASSUME GameInv, BottlesInv, BottleStep, NightAction
  PROVE  BottlesInv'
<1>1. TypeOK /\ night \in Nights
  BY DEF GameInv, Inv, TypeInv, TypeOK
<1>2. UNCHANGED <<phase, alive, antidote>> /\ phase \in NightPhases
  BY DEF NightAction, NightActionFrame, controlVars, Skip, Guard, Propose, Save, Poison, Check,
     CanSkip, CanGuard, CanPropose, CanSave, CanPoison, CanCheck, NightPhases
<1>3. /\ night'.wolf_target = night.wolf_target
      /\ night'.witch_save = night.witch_save \/ (night'.witch_save /\ night.wolf_target # None)
  BY <1>1 DEF NightAction, Skip, Guard, Propose, Save, CanSave, Poison, Check, Nights
<1>4. KnifeInv'
  BY <1>2, <1>3 DEF BottlesInv, KnifeInv, KnifePast
<1>5. SavedOnce'
  <2> SUFFICES ASSUME NEW s \in Seats, used'[s].save # {}
               PROVE  Once(used'[s].save) /\ (s \in antidote => Pending(s)')
    BY <1>2 DEF SavedOnce, Once
  <2>1. CASE Actor(s) /\ night'.witch_save # night.witch_save
    <3>1. /\ s \in antidote /\ ~night.witch_save /\ night'.witch_save
          /\ s \in alive \cap Holders("WITCH")
      BY <1>1, <2>1, BottleOpened
    <3>2. used[s].save = {}
      BY <3>1 DEF BottlesInv, SavedOnce, Pending
    <3>3. used'[s].save = {round}
      BY <2>1, <3>2, UsedAgain
    <3> QED
      BY <1>2, <3>1, <3>3 DEF Once, Pending
  <2>2. CASE ~(Actor(s) /\ night'.witch_save # night.witch_save)
    <3>1. used'[s].save = used[s].save
      BY <2>2, UsedAgain
    <3>2. Once(used[s].save) /\ (s \in antidote => Pending(s))
      BY <3>1 DEF BottlesInv, SavedOnce
    <3> QED
      BY <1>2, <1>3, <3>1, <3>2 DEF Pending, Once
  <2> QED
    BY <2>1, <2>2
<1>6. PoisonedOnce'
  <2> SUFFICES ASSUME NEW s \in Seats, used'[s].poison # {}
               PROVE  Once(used'[s].poison) /\ s \notin poison'
    BY DEF PoisonedOnce, Once
  <2>1. CASE Actor(s) /\ night'.witch_poison_target # night.witch_poison_target
    <3>1. s \in poison /\ s \notin poison'
      BY <1>1, <2>1, BottleOpened
    <3>2. used[s].poison = {}
      BY <3>1 DEF BottlesInv, PoisonedOnce
    <3>3. used'[s].poison = {round}
      BY <2>1, <3>2, UsedAgain
    <3> QED
      BY <3>1, <3>3 DEF Once
  <2>2. CASE ~(Actor(s) /\ night'.witch_poison_target # night.witch_poison_target)
    <3>1. used'[s].poison = used[s].poison
      BY <2>2, UsedAgain
    <3>2. poison' \subseteq poison
      BY BottlesEmptied DEF Next, PlayerAction
    <3> QED
      BY <3>1, <3>2 DEF BottlesInv, PoisonedOnce, Once
  <2> QED
    BY <2>1, <2>2
<1> QED
  BY <1>4, <1>5, <1>6 DEF BottlesInv

\* Outside the actions of the night nobody uses a potion: what was used stays
\* used, and the record of a pending save must only survive until it is paid.
LEMMA OtherStepBottles ==
  ASSUME BottlesInv, BottleStep, [Next]_vars, acted_seats' \subseteq acted_seats, KnifeInv',
         \A s \in Seats : Pending(s) /\ s \in antidote' => Pending(s)'
  PROVE  BottlesInv'
<1>1. \A s \in Seats : ~Actor(s)
  BY DEF Actor
<1>2. \A s \in Seats : used'[s].save = used[s].save /\ used'[s].poison = used[s].poison
  BY <1>1, UsedAgain
<1>3. antidote' \subseteq antidote /\ poison' \subseteq poison
  BY BottlesEmptied
<1>4. SavedOnce'
  BY <1>2, <1>3 DEF BottlesInv, SavedOnce, Once
<1>5. PoisonedOnce'
  BY <1>2, <1>3 DEF BottlesInv, PoisonedOnce, Once
<1> QED
  BY <1>4, <1>5 DEF BottlesInv

\* Boards with one witch: validate_config allows more, and the engine then
\* charges every save to the first of them.
OneWitch == \A s, t \in Holders("WITCH") : s = t

LEMMA ResolveNightBottles ==
  ASSUME OneWitch, GameInv, BottlesInv, BottleStep, Next, phase \in NightPhases,
         NEW n, n.witch_save = night.witch_save,
         n.witch_save => n.wolf_target # None,
         ResolveNightAndContinue(n)
  PROVE  BottlesInv'
<1>1. FlowFresh
  <2>1. \A b, m : AnnounceAndContinueNight(alive, b, m) => FlowFresh
    BY AnnounceFresh
  <2>2. \A w, m : GameOver(w, m) => FlowFresh
    BY GameOverFresh
  <2>3. \A m : EnterPhase("SHERIFF_ELECTION", "none", speech) /\ SameRound(m) => FlowFresh
    BY EnterDayFresh DEF EnterPhase, SameRound, ElectionPhases
  <2> QED
    BY <2>1, <2>2, <2>3 DEF ResolveNightAndContinue
<1>2. KnifeInv'
  BY <1>1 DEF FlowFresh, KnifeInv, NoNight
<1>3. ASSUME NEW s \in Seats, Pending(s)
      PROVE  s \notin antidote'
  <2>1. alive \cap Holders("WITCH") = {s}
    BY <1>3 DEF Pending, OneWitch
  <2>2. s <= s
    BY SeatFacts
  <2>3. AntidotePayer(n) = {s}
    BY <1>3, <2>1, <2>2 DEF AntidotePayer, Lowest, Pending
  <2> QED
    BY <2>3 DEF ResolveNightAndContinue
<1> QED
  BY <1>1, <1>2, <1>3, OtherStepBottles DEF FlowFresh

LEMMA KnifeStaysPast ==
  ASSUME NEW i \in DOMAIN config.night_order, i + 1 \in DOMAIN config.night_order,
         config.night_order[i] = phase, config.night_order[i + 1] = phase',
         KnifePast \/ phase = "NIGHT_WEREWOLF"
  PROVE  KnifePast'
<1>1. \A k \in DOMAIN config.night_order : k \in Nat
  BY RulesAssumption
<1>2. CASE phase = "NIGHT_WEREWOLF"
  BY <1>1, <1>2 DEF KnifePast
<1>3. CASE KnifePast
  <2>1. PICK j, k \in DOMAIN config.night_order :
          /\ j < k
          /\ config.night_order[j] = "NIGHT_WEREWOLF"
          /\ config.night_order[k] = phase
    BY <1>3 DEF KnifePast
  <2>2. k = i
    BY <2>1, RulesAssumption
  <2>3. j < i + 1
    BY <1>1, <2>1, <2>2
  <2> QED
    BY <2>1, <2>3 DEF KnifePast
<1> QED
  BY <1>2, <1>3

LEMMA LeaveNightBottles ==
  ASSUME OneWitch, GameInv, BottlesInv, BottleStep, Next, phase \in NightPhases,
         NEW n \in Nights, n.witch_save = night.witch_save,
         n.witch_save => n.wolf_target # None,
         n.wolf_target # None => KnifePast \/ phase = "NIGHT_WEREWOLF",
         LeaveNightPhase(n)
  PROVE  BottlesInv'
<1> DEFINE order == config.night_order
           i == CHOOSE j \in DOMAIN order : order[j] = phase
<1>1. i \in DOMAIN order /\ order[i] = phase
  BY DEF GameInv, Inv, TypeInv, Scheduled
<1>2. CASE i < Len(order)
  <2>1. /\ phase' = order[i + 1] /\ night' = n /\ UNCHANGED <<alive, acted_seats>>
    BY <1>2 DEF LeaveNightPhase, EnterPhase, SameRound, huntVars
  <2>2. i + 1 \in DOMAIN order /\ i \in Nat
    BY <1>1, <1>2, RulesAssumption
  <2>3. order[i + 1] \in NightPhases
    BY <2>2, NightOrderType
  <2>4. ASSUME n.wolf_target # None
        PROVE  KnifePast'
    <3>1. KnifePast \/ phase = "NIGHT_WEREWOLF"
      BY <2>4
    <3> QED
      BY <1>1, <2>1, <2>2, <3>1, KnifeStaysPast
  <2>5. KnifeInv'
    BY <2>1, <2>4 DEF KnifeInv
  <2>6. \A s \in Seats : Pending(s) => Pending(s)'
    BY <2>1, <2>3 DEF Pending
  <2> QED
    BY <2>1, <2>5, <2>6, OtherStepBottles
<1>3. CASE ~(i < Len(order))
  BY <1>3, ResolveNightBottles DEF LeaveNightPhase
<1> QED
  BY <1>2, <1>3

LEMMA NightStepBottles ==
  ASSUME OneWitch, GameInv, BottlesInv, BottleStep, Next,
         WolfRevote \/ WolfKillDecided \/ NightPhaseOver
  PROVE  BottlesInv'
<1>1. phase \in NightPhases /\ night \in Nights
  BY DEF WolfRevote, WolfKillDecided, NightPhaseOver, NightPhases, GameInv, Inv, TypeInv, TypeOK
<1>2. CASE WolfRevote
  <2>1. UNCHANGED <<phase, night, alive, acted_seats>>
    BY <1>2 DEF WolfRevote, controlVars
  <2>2. KnifeInv' /\ \A s \in Seats : Pending(s) => Pending(s)'
    BY <2>1 DEF BottlesInv, KnifeInv, KnifePast, Pending
  <2> QED
    BY <2>1, <2>2, OtherStepBottles
<1>3. CASE WolfKillDecided
  <2>1. PICK t \in WolfConsensus(wolf_proposals) :
          LeaveNightPhase([night EXCEPT !.wolf_target = t])
    BY <1>3 DEF WolfKillDecided
  <2>2. phase = "NIGHT_WEREWOLF" /\ t \in SeatOrNone
    BY <1>3, ConsensusType DEF WolfKillDecided
  <2>3. ~KnifePast
    BY <2>2, RulesAssumption DEF KnifePast
  <2>4. ~night.witch_save
    BY <1>1, <2>3 DEF BottlesInv, KnifeInv
  <2> DEFINE n == [night EXCEPT !.wolf_target = t]
  <2>5. n \in Nights /\ n.witch_save = night.witch_save
    BY <1>1, <2>2 DEF Nights
  <2> HIDE DEF n
  <2>6. LeaveNightPhase(n)
    BY <2>1 DEF n
  <2> QED
    BY <1>1, <2>2, <2>4, <2>5, <2>6, LeaveNightBottles
<1>4. CASE NightPhaseOver
  <2>1. LeaveNightPhase(night)
    BY <1>4 DEF NightPhaseOver
  <2> QED
    BY <1>1, <2>1, LeaveNightBottles DEF BottlesInv, KnifeInv
<1> QED
  BY <1>2, <1>3, <1>4

LEMMA DayBottles ==
  ASSUME BottlesInv, BottleStep, Next,
         DayAction \/ DayStep \/ ElectionAction \/ ElectionStep
  PROVE  BottlesInv'
<1>1. FlowFresh \/ UNCHANGED <<phase, night, huntVars>>
  BY DayFresh, ElectionFresh
<1>2. acted_seats' \subseteq acted_seats
  BY <1>1 DEF FlowFresh, huntVars
<1>3. KnifeInv'
  BY <1>1 DEF FlowFresh, KnifeInv, KnifePast, NoNight, BottlesInv
<1>4. phase \notin NightPhases
  BY PlainPhases DEF DayAction, Speak, CanSpeak, SpeechQueuePending, CampaignSpeaking, PkSpeaking,
     SelfDestruct, CanSelfDestruct, CastVote, CanCastVote, Shoot, CanShoot, PassBadge,
     CanPassBadge, DayStep, OpenVote, StartRunoff, NobodyExiled, FlipIdiot, Exile, VoteOver,
     AfterExile, AfterHunterShot, AfterLastWords, ElectionAction, Declare, Confirm, VoteSheriff,
     SetDirection, CanDeclare, CanConfirm, CanVoteSheriff, CanSetDirection, InElection,
     ElectionStep, AllDeclared, CampaignOver, AllConfirmed, Elect, StartSheriffRunoff,
     NobodyElected, DirectionSet, SheriffVoteOver, ElectionPhases
<1>5. \A s \in Seats : ~Pending(s)
  BY <1>4 DEF Pending
<1> QED
  BY <1>2, <1>3, <1>5, OtherStepBottles

LEMMA NextBottles ==
  ASSUME OneWitch
  PROVE  GameInv /\ BottlesInv /\ [HistoryNext]_historyVars => GameInv' /\ BottlesInv'
<1> SUFFICES ASSUME GameInv, BottlesInv, [HistoryNext]_historyVars PROVE GameInv' /\ BottlesInv'
  OBVIOUS
<1>1. GameInv'
  BY NextPlay DEF HistoryNext, historyVars
<1>2. CASE HistoryNext
  <2>1. BottleStep /\ Next
    BY <1>2 DEF HistoryNext, BottleStep
  <2>2. CASE Finished
    <3>1. UNCHANGED <<phase, night, alive, acted_seats>>
      BY <2>2 DEF Finished, vars, controlVars, huntVars
    <3>2. KnifeInv' /\ \A s \in Seats : Pending(s) => Pending(s)'
      BY <3>1 DEF BottlesInv, KnifeInv, KnifePast, Pending
    <3> QED
      BY <1>1, <2>1, <3>1, <3>2, OtherStepBottles
  <2> QED
    BY <1>1, <2>1, <2>2, NightActionBottles, NightStepBottles, DayBottles
       DEF Next, PlayerAction, SystemStep
<1>3. CASE UNCHANGED historyVars
  <2>1. UNCHANGED <<used, phase, night, alive, antidote, poison>>
    BY <1>3 DEF historyVars, vars, controlVars, powerVars
  <2> QED
    BY <1>1, <2>1 DEF BottlesInv, KnifeInv, KnifePast, SavedOnce, PoisonedOnce, Pending, Once
<1> QED
  BY <1>2, <1>3

LEMMA AtMostOnce ==
  ASSUME NEW nights, Once(nights)
  PROVE  Cardinality(nights) <= 1
<1>1. CASE nights = {}
  BY <1>1, FS_EmptySet
<1>2. CASE nights # {}
  <2>1. PICK r : nights = {r}
    BY <1>2 DEF Once
  <2> QED
    BY <2>1, FS_Singleton
<1> QED
  BY <1>1, <1>2

\* On every board with one witch no seat uses the antidote, or the poison, on
\* two nights, though the antidote is only taken when the night is resolved.
THEOREM OneBottle ==
  OneWitch /\ HistorySpec => []OneBottleEach
<1>1. HistoryInit => GameInv /\ BottlesInv
  <2> SUFFICES ASSUME HistoryInit PROVE GameInv /\ BottlesInv
    OBVIOUS
  <2>1. GameInv
    BY InitPlay DEF HistoryInit
  <2>2. night = NoNight /\ \A s \in Seats : used[s].save = {} /\ used[s].poison = {}
    BY DEF HistoryInit, Init, NobodyUsed
  <2> QED
    BY <2>1, <2>2 DEF BottlesInv, KnifeInv, SavedOnce, PoisonedOnce, NoNight
<1>2. BottlesInv => OneBottleEach
  <2> SUFFICES ASSUME BottlesInv, NEW s \in Seats
               PROVE  Cardinality(used[s].save) <= 1 /\ Cardinality(used[s].poison) <= 1
    BY DEF OneBottleEach
  <2>1. Once(used[s].save) /\ Once(used[s].poison)
    BY DEF BottlesInv, SavedOnce, PoisonedOnce, Once
  <2> QED
    BY <2>1, AtMostOnce
<1>3. OneWitch /\ GameInv /\ BottlesInv /\ [HistoryNext]_historyVars
        => OneWitch' /\ GameInv' /\ BottlesInv'
  BY NextBottles DEF OneWitch
<1> QED
  BY <1>1, <1>2, <1>3, PTL DEF HistorySpec

-----------------------------------------------------------------------------
(* When night falls, and who has fallen by then *)

\* A step that begins a night.
NightBegun ==
  /\ round' = round + 1
  /\ wolf_proposals' = NoBallots
  /\ phase' = config.night_order[1]
  /\ CheckWin(alive') = "none"

\* A step that ends outside of the night and its hunt.
HuntLeft == UNCHANGED <<round, wolf_proposals>> /\ phase' \notin NightPhases

LEMMA EnterPhaseLeaves ==
  ASSUME NEW p \in {"LAST_WORDS", "DAY_SPEECH", "HUNTER_SHOOT", "GAME_OVER", "EXILE", "VOTE",
                    "VOTE_PK"} \cup ElectionPhases,
         phase' = p, UNCHANGED <<round, huntVars>>
  PROVE  HuntLeft
  BY PlainPhases DEF HuntLeft, huntVars

LEMMA GameOverLeaves ==
  ASSUME NEW w, NEW n, GameOver(w, n)
  PROVE  HuntLeft
  BY EnterPhaseLeaves DEF GameOver, SameRound

LEMMA DayDeathRound ==
  ASSUME NEW n, AfterDayDeath(n)
  PROVE  NightBegun \/ HuntLeft
<1>1. CASE GameOver(CheckWin(alive'), n) \/ GameOver("none", n)
  BY <1>1, GameOverLeaves
<1>2. CASE BeginNight /\ CheckWin(alive') = "none"
  BY <1>2 DEF BeginNight, EnterPhase, FreshHunt, NightBegun
<1> QED
  BY <1>1, <1>2 DEF AfterDayDeath

LEMMA DaySpeechRound ==
  ASSUME NEW n, EnterDaySpeech(n)
  PROVE  (n.skip_day /\ NightBegun) \/ HuntLeft
<1>1. CASE n.skip_day
  BY <1>1, DayDeathRound DEF EnterDaySpeech
<1>2. CASE ~n.skip_day
  BY <1>2, EnterPhaseLeaves DEF EnterDaySpeech, EnterPhase, SameRound
<1> QED
  BY <1>1, <1>2

LEMMA FinishNightRound ==
  ASSUME NEW b, NEW n, FinishNightDeaths(b, n)
  PROVE  (n.skip_day /\ NightBegun) \/ HuntLeft
<1>1. CASE EnterDaySpeech(n)
  BY <1>1, DaySpeechRound
<1>2. CASE phase' = "LAST_WORDS" /\ SameRound(n)
  BY <1>2, EnterPhaseLeaves DEF SameRound
<1> QED
  BY <1>1, <1>2 DEF FinishNightDeaths, LastWordsOf, OpenBadgeWindow, EnterPhase

LEMMA DayLastWordsRound ==
  ASSUME EnterDayLastWords
  PROVE  NightBegun \/ HuntLeft
<1>1. CASE AfterDayDeath(night)
  BY <1>1, DayDeathRound
<1>2. CASE phase' = "LAST_WORDS" /\ SameRound(night)
  BY <1>2, EnterPhaseLeaves DEF SameRound
<1> QED
  BY <1>1, <1>2 DEF EnterDayLastWords, OpenBadgeWindow, EnterPhase

LEMMA AnnounceRound ==
  ASSUME NEW living, NEW b, NEW n, AnnounceAndContinueNight(living, b, n)
  PROVE  (n.skip_day /\ NightBegun) \/ HuntLeft
<1>1. CASE FinishNightDeaths(b, n)
  BY <1>1, FinishNightRound
<1>2. CASE phase' = "HUNTER_SHOOT" /\ SameRound(n)
  BY <1>2, EnterPhaseLeaves DEF SameRound
<1>3. CASE GameOver(CheckWin(alive'), n)
  BY <1>3, GameOverLeaves
<1> QED
  BY <1>1, <1>2, <1>3 DEF AnnounceAndContinueNight, EnterPhase

\* Outside of the night a step begins the next one or leaves the hunt alone.
LEMMA DayRound ==
  ASSUME phase \notin NightPhases, DayAction \/ DayStep
  PROVE  NightBegun \/ HuntLeft
<1>1. CASE DayAction
  <2>1. ASSUME NEW s \in Seats, SelfDestruct(s)
        PROVE  NightBegun \/ HuntLeft
    BY <2>1, DayDeathRound, AnnounceRound DEF SelfDestruct
  <2> QED
    BY <1>1, <2>1
       DEF DayAction, Speak, CastVote, Shoot, PassBadge, controlVars, huntVars, HuntLeft
<1>2. CASE OpenVote \/ StartRunoff
  BY <1>2, EnterPhaseLeaves DEF OpenVote, StartRunoff, EnterPhase
<1>3. CASE NobodyExiled \/ \E s \in Seats : FlipIdiot(s)
  BY <1>3, DayDeathRound DEF NobodyExiled, FlipIdiot
<1>4. CASE \E s \in Seats : Exile(s)
  BY <1>4, EnterPhaseLeaves DEF Exile, EnterPhase, SameRound
<1>5. CASE AfterExile
  BY <1>5, EnterPhaseLeaves, DayLastWordsRound DEF AfterExile, EnterPhase, SameRound
<1>6. CASE AfterHunterShot
  BY <1>6, GameOverLeaves, FinishNightRound, DayLastWordsRound DEF AfterHunterShot
<1>7. CASE AfterLastWords
  BY <1>7, EnterPhaseLeaves, DaySpeechRound, DayDeathRound
     DEF AfterLastWords, OpenBadgeWindow, EnterPhase, SameRound
<1> QED
  BY <1>1, <1>2, <1>3, <1>4, <1>5, <1>6, <1>7 DEF DayStep

LEMMA ElectionRound ==
  ASSUME phase \notin NightPhases, ElectionAction \/ ElectionStep
  PROVE  NightBegun \/ HuntLeft
<1>1. \A b : EndElection(b) => NightBegun \/ HuntLeft
  BY AnnounceRound DEF EndElection
<1>2. StillElecting => UNCHANGED <<round, huntVars>>
  BY DEF StillElecting, SameRound
<1>3. UNCHANGED <<phase, round, huntVars>> => HuntLeft
  BY DEF HuntLeft, huntVars
<1>4. EnterWithdraw => HuntLeft
  BY <1>2, <1>3 DEF EnterWithdraw, controlVars
<1>5. CASE ElectionAction
  BY <1>3, <1>5 DEF ElectionAction, Declare, Confirm, VoteSheriff, SetDirection, ElectionFrame,
     controlVars
<1>6. CASE AllDeclared \/ CampaignOver
  BY <1>1, <1>2, <1>3, <1>4, <1>6 DEF AllDeclared, CampaignOver
<1>7. CASE AllConfirmed
  BY <1>1, <1>2, <1>3, <1>7 DEF AllConfirmed, controlVars
<1>8. CASE StartSheriffRunoff
  BY <1>2, <1>8, EnterPhaseLeaves DEF StartSheriffRunoff, EnterPhase, ElectionPhases
<1>9. ASSUME NEW s, Elect(s)
      PROVE  NightBegun \/ HuntLeft
  BY <1>1, <1>9, EnterPhaseLeaves DEF Elect, EnterPhase, SameRound, ElectionPhases
<1>10. CASE NobodyElected \/ DirectionSet
  BY <1>1, <1>10 DEF NobodyElected, DirectionSet
<1> QED
  BY <1>5, <1>6, <1>7, <1>8, <1>9, <1>10 DEF ElectionStep

LEMMA NotByNight ==
  ASSUME DayAction \/ DayStep \/ ElectionAction \/ ElectionStep
  PROVE  phase \notin NightPhases
  BY PlainPhases DEF DayAction, Speak, CanSpeak, SpeechQueuePending, CampaignSpeaking, PkSpeaking,
     SelfDestruct, CanSelfDestruct, CastVote, CanCastVote, Shoot, CanShoot, PassBadge,
     CanPassBadge, DayStep, OpenVote, StartRunoff, NobodyExiled, FlipIdiot, Exile, VoteOver,
     AfterExile, AfterHunterShot, AfterLastWords, ElectionAction, Declare, Confirm, VoteSheriff,
     SetDirection, CanDeclare, CanConfirm, CanVoteSheriff, CanSetDirection, InElection,
     ElectionStep, AllDeclared, CampaignOver, AllConfirmed, Elect, StartSheriffRunoff,
     NobodyElected, DirectionSet, SheriffVoteOver, ElectionPhases

\* The ways in which a step leaves a state of the night: it stays in its phase,
\* goes on to the next one, or resolves the night.
NightHeld == UNCHANGED <<phase, alive, round>>

NightMoves ==
  /\ SystemTurn
  /\ UNCHANGED <<alive, round, wolf_proposals>>
  /\ \E i \in DOMAIN config.night_order :
        /\ i + 1 \in DOMAIN config.night_order
        /\ config.night_order[i] = phase /\ config.night_order[i + 1] = phase'

NightOver ==
  /\ SystemTurn /\ HuntLeft
  /\ \E i \in DOMAIN config.night_order :
        i = Len(config.night_order) /\ config.night_order[i] = phase
  /\ night'.deaths \subseteq alive
  /\ alive' = IF phase' \in ElectionPhases THEN alive ELSE alive \ night'.deaths
  /\ phase' # "EXILE"

LEMMA AnnounceKeeps ==
  ASSUME NEW living, NEW b, NEW n, AnnounceAndContinueNight(living, b, n)
  PROVE  /\ alive' = living \ n.deaths /\ phase' \notin ElectionPhases \cup {"EXILE"}
         /\ ~n.skip_day => night' = n
<1>1. alive' = living \ n.deaths
  BY DEF AnnounceAndContinueNight, Announced
<1>2. phase' \notin ElectionPhases \cup {"EXILE"}
  BY AnnounceFlow, PlainPhases DEF FlowEnds, ElectionPhases, NightPhases
<1>3. ASSUME ~n.skip_day
      PROVE  night' = n
  <2>1. SameRound(n) => night' = n
    BY DEF SameRound
  <2>2. EnterDaySpeech(n) => SameRound(n)
    BY <1>3 DEF EnterDaySpeech
  <2>3. FinishNightDeaths(b, n) => SameRound(n)
    BY <2>2 DEF FinishNightDeaths, LastWordsOf
  <2> QED
    BY <2>1, <2>3 DEF AnnounceAndContinueNight, GameOver
<1> QED
  BY <1>1, <1>2, <1>3

LEMMA ResolvedDeaths ==
  ASSUME GameInv, phase \in NightPhases, NEW n, NightRecord(n)
  PROVE  ResolveNight(n) \subseteq alive
<1>1. None \notin Seats
  BY BoardAssumption
<1>2. n.witch_poison_target \in alive \cup {None} /\ n.wolf_target \in alive \cup {None}
  BY NightPhaseFacts DEF NightRecord
<1> QED
  BY <1>1, <1>2 DEF ResolveNight

LEMMA LeaveNightRound ==
  ASSUME GameInv, SystemTurn, phase \in NightPhases, NEW n, NightRecord(n), LeaveNightPhase(n)
  PROVE  NightMoves \/ NightOver
<1> DEFINE order == config.night_order
           i == CHOOSE j \in DOMAIN order : order[j] = phase
           deaths == ResolveNight(n)
           resolved == [n EXCEPT !.deaths = deaths]
<1>1. i \in DOMAIN order /\ order[i] = phase
  BY DEF GameInv, Inv, TypeInv, Scheduled
<1>2. CASE i < Len(order)
  <2>1. i + 1 \in DOMAIN order
    BY <1>1, <1>2, RulesAssumption
  <2>2. phase' = order[i + 1] /\ UNCHANGED <<alive, round, wolf_proposals>>
    BY <1>2 DEF LeaveNightPhase, EnterPhase, SameRound, huntVars
  <2> QED
    BY <1>1, <2>1, <2>2 DEF NightMoves
<1>3. CASE ~(i < Len(order))
  <2>1. ResolveNightAndContinue(n)
    BY <1>3 DEF LeaveNightPhase
  <2>2. i = Len(order)
    BY <1>1, <1>3, RulesAssumption
  <2>3. resolved.deaths = deaths /\ ~resolved.skip_day
    BY DEF NightRecord, Nights
  <2>4. deaths \subseteq alive
    BY ResolvedDeaths
  <2> HIDE DEF resolved, deaths
  <2>5. /\ HuntLeft /\ night' = resolved
        /\ alive' = IF phase' \in ElectionPhases THEN alive ELSE alive \ deaths
        /\ phase' # "EXILE"
    <3>1. CASE alive' = alive \ deaths /\ GameOver(CheckWin(alive'), resolved)
      <4>1. phase' = "GAME_OVER" /\ night' = resolved
        BY <3>1 DEF GameOver, SameRound
      <4> QED
        BY <3>1, <4>1, GameOverLeaves, PlainPhases
    <3>2. CASE /\ EnterPhase("SHERIFF_ELECTION", "none", speech)
               /\ SameRound(resolved) /\ UNCHANGED alive
      <4>1. phase' \in ElectionPhases /\ night' = resolved /\ UNCHANGED <<round, huntVars>>
        BY <3>2 DEF EnterPhase, SameRound, ElectionPhases
      <4> QED
        BY <3>2, <4>1, EnterPhaseLeaves, PlainPhases
    <3>3. CASE AnnounceAndContinueNight(alive, badge, resolved)
      BY <2>3, <3>3, AnnounceKeeps, AnnounceRound
    <3> QED
      BY <2>1, <3>1, <3>2, <3>3 DEF ResolveNightAndContinue, resolved, deaths
  <2> QED
    BY <1>1, <2>2, <2>3, <2>4, <2>5 DEF NightOver
<1> QED
  BY <1>2, <1>3

LEMMA NightRound ==
  ASSUME GameInv, NightAction \/ WolfRevote \/ WolfKillDecided \/ NightPhaseOver
  PROVE  phase \in NightPhases /\ (NightHeld \/ NightMoves \/ NightOver)
<1>1. phase \in NightPhases
  BY DEF NightAction, Skip, Guard, Propose, Save, Poison, Check, CanSkip, CanGuard,
     CanPropose, CanSave, CanPoison, CanCheck, WolfRevote, WolfKillDecided, NightPhaseOver,
     NightPhases
<1>2. CASE NightAction
  BY <1>1, <1>2 DEF NightAction, Skip, Guard, Propose, Save, Poison, Check, NightActionFrame,
     controlVars, NightHeld
<1>3. CASE WolfRevote
  BY <1>1, <1>3 DEF WolfRevote, controlVars, NightHeld
<1>4. CASE WolfKillDecided
  BY <1>1, <1>4, NightRecords, LeaveNightRound DEF WolfKillDecided
<1>5. CASE NightPhaseOver
  BY <1>1, <1>5, NightRecords, LeaveNightRound DEF NightPhaseOver
<1> QED
  BY <1>2, <1>3, <1>4, <1>5, <1>1

\* Every step, seen from the count of the nights.
RoundStep ==
  \/ phase \in NightPhases /\ (NightHeld \/ NightMoves \/ NightOver)
  \/ phase \notin NightPhases /\ (NightBegun \/ HuntLeft)

LEMMA StepRound ==
  ASSUME GameInv, [Next]_vars
  PROVE  RoundStep
<1>1. CASE NightAction \/ WolfRevote \/ WolfKillDecided \/ NightPhaseOver
  BY <1>1, NightRound DEF RoundStep
<1>2. CASE DayAction \/ DayStep \/ ElectionAction \/ ElectionStep
  BY <1>2, NotByNight, DayRound, ElectionRound DEF RoundStep
<1>3. CASE UNCHANGED vars
  BY <1>3 DEF vars, controlVars, huntVars, RoundStep, NightHeld, HuntLeft
<1> QED
  BY <1>1, <1>2, <1>3 DEF Next, PlayerAction, SystemStep, Finished

-----------------------------------------------------------------------------
(* Who falls by day *)

LEMMA ElectionFates ==
  ASSUME GameInv, [Next]_vars, phase \in ElectionPhases
  PROVE  IF phase' \in ElectionPhases THEN UNCHANGED <<alive, night>>
         ELSE alive' \subseteq alive /\ alive' \cap night.deaths = {} /\ phase' # "EXILE"
<1> DEFINE Fates == IF phase' \in ElectionPhases THEN UNCHANGED <<alive, night>>
                    ELSE alive' \subseteq alive /\ alive' \cap night.deaths = {} /\ phase' # "EXILE"
<1>1. phase \notin NightPhases /\ night \in Nights
  BY PlainPhases DEF GameInv, Inv, TypeInv, TypeOK
<1>2. phase \notin {"VOTE", "VOTE_PK", "LAST_WORDS", "DAY_SPEECH", "EXILE", "HUNTER_SHOOT",
                    "GAME_OVER"}
  BY PlainPhases
<1>3. ~(NightAction \/ WolfRevote \/ WolfKillDecided \/ NightPhaseOver)
  BY <1>1, NightRound
<1>4. UNCHANGED <<phase, alive, night>> => Fates
  OBVIOUS
<1>5. ASSUME NEW b, EndElection(b)
      PROVE  Fates
  BY <1>5, AnnounceKeeps DEF EndElection
<1>6. StillElecting => UNCHANGED <<alive, night>>
  BY DEF StillElecting, SameRound
<1>7. EnterWithdraw => Fates
  BY <1>6 DEF EnterWithdraw, controlVars
<1>8. CASE DayAction
  <2>1. ASSUME NEW s \in Seats, SelfDestruct(s)
        PROVE  Fates
    <3>1. PICK b : AnnounceAndContinueNight(alive \ {s}, b, [night EXCEPT !.skip_day = TRUE])
      BY <1>2, <2>1 DEF SelfDestruct
    <3> DEFINE n == [night EXCEPT !.skip_day = TRUE]
    <3>2. n.deaths = night.deaths
      BY <1>1 DEF Nights
    <3> HIDE DEF n
    <3>3. /\ alive' = (alive \ {s}) \ n.deaths
          /\ phase' \notin ElectionPhases \cup {"EXILE"}
      BY <3>1, AnnounceKeeps DEF n
    <3> QED
      BY <3>2, <3>3
  <2>2. \A s, t : ~Shoot(s, t)
    BY <1>2 DEF Shoot, CanShoot
  <2> QED
    BY <1>4, <1>8, <2>1, <2>2 DEF DayAction, Speak, CastVote, PassBadge, controlVars
<1>9. ~DayStep
  BY <1>2 DEF DayStep, OpenVote, StartRunoff, NobodyExiled, FlipIdiot, Exile, VoteOver,
     AfterExile, AfterHunterShot, AfterLastWords
<1>10. CASE ElectionAction
  BY <1>4, <1>10 DEF ElectionAction, Declare, Confirm, VoteSheriff, SetDirection, ElectionFrame,
     controlVars
<1>11. CASE AllDeclared \/ CampaignOver \/ AllConfirmed
  BY <1>5, <1>6, <1>7, <1>11 DEF AllDeclared, CampaignOver, AllConfirmed, controlVars
<1>12. CASE \E s \in Seats : Elect(s)
  BY <1>5, <1>12 DEF Elect, SameRound, EnterPhase, ElectionPhases
<1>13. CASE StartSheriffRunoff \/ NobodyElected \/ DirectionSet
  BY <1>5, <1>6, <1>13
     DEF StartSheriffRunoff, NobodyElected, DirectionSet, EnterPhase, ElectionPhases
<1>14. CASE UNCHANGED vars
  BY <1>4, <1>14 DEF vars, controlVars
<1> QED
  BY <1>3, <1>8, <1>9, <1>10, <1>11, <1>12, <1>13, <1>14
     DEF Next, PlayerAction, SystemStep, Finished, ElectionStep

LEMMA DayFates ==
  ASSUME GameInv, [Next]_vars, phase \notin NightPhases \cup ElectionPhases
  PROVE  phase' \notin ElectionPhases /\ alive' \subseteq alive
<1>1. ~(NightAction \/ WolfRevote \/ WolfKillDecided \/ NightPhaseOver)
  BY NightRound
<1>2. ~(ElectionAction \/ ElectionStep)
  BY DEF ElectionAction, Declare, Confirm, VoteSheriff, SetDirection, CanDeclare, CanConfirm,
     CanVoteSheriff, CanSetDirection, InElection, ElectionStep, AllDeclared, CampaignOver,
     AllConfirmed, Elect, StartSheriffRunoff, NobodyElected, DirectionSet, SheriffVoteOver,
     ElectionPhases
<1>3. FlowEnds \/ phase' \in {"EXILE", "VOTE", "VOTE_PK"} => phase' \notin ElectionPhases
  BY PlainPhases DEF FlowEnds
<1>4. CASE DayAction
  <2>1. ASSUME NEW s \in Seats, SelfDestruct(s)
        PROVE  FlowEnds /\ alive' \subseteq alive
    <3>1. alive' = alive \ {s} /\ AfterDayDeath(night)
      BY <2>1 DEF SelfDestruct, CanSelfDestruct
    <3> QED
      BY <3>1, DayDeathFlow
  <2> QED
    BY <1>3, <1>4, <2>1 DEF DayAction, Speak, CastVote, Shoot, PassBadge, controlVars
<1>5. CASE DayStep
  <2>1. alive' \subseteq alive
    BY <1>5 DEF DayStep, OpenVote, StartRunoff, NobodyExiled, FlipIdiot, Exile, AfterExile,
       AfterHunterShot, AfterLastWords
  <2>2. CASE OpenVote \/ StartRunoff \/ \E s \in Seats : Exile(s)
    BY <1>3, <2>1, <2>2 DEF OpenVote, StartRunoff, Exile, EnterPhase
  <2>3. CASE NobodyExiled \/ \E s \in Seats : FlipIdiot(s)
    BY <1>3, <2>1, <2>3, DayDeathFlow DEF NobodyExiled, FlipIdiot
  <2>4. ASSUME phase' \in {"LAST_WORDS", "HUNTER_SHOOT", "GAME_OVER"}
        PROVE  FlowEnds
    BY <2>4 DEF FlowEnds
  <2>5. CASE AfterExile
    BY <1>3, <2>1, <2>4, <2>5, DayLastWordsFlow DEF AfterExile, EnterPhase
  <2>6. CASE AfterHunterShot
    BY <1>3, <2>1, <2>4, <2>6, DayLastWordsFlow, FinishNightFlow DEF AfterHunterShot, GameOver
  <2>7. CASE AfterLastWords
    BY <1>3, <2>1, <2>4, <2>7, DaySpeechFlow, DayDeathFlow
       DEF AfterLastWords, OpenBadgeWindow, EnterPhase
  <2> QED
    BY <1>5, <2>2, <2>3, <2>5, <2>6, <2>7 DEF DayStep
<1>6. CASE UNCHANGED vars
  BY <1>6 DEF vars, controlVars
<1> QED
  BY <1>1, <1>2, <1>4, <1>5, <1>6 DEF Next, PlayerAction, SystemStep, Finished

-----------------------------------------------------------------------------
(* The ballots of the day *)

LEMMA FlowKeepsBallots ==
  /\ \A n : EnterDaySpeech(n) => votes' \in {votes, NoBallots}
  /\ \A b, n : FinishNightDeaths(b, n) => votes' \in {votes, NoBallots}
  /\ \A living, b, n : AnnounceAndContinueNight(living, b, n) => votes' \in {votes, NoBallots}
<1>1. \A n : EnterDaySpeech(n) => votes' \in {votes, NoBallots}
  BY RoundKeepsBallots DEF EnterDaySpeech
<1>2. \A b, n : FinishNightDeaths(b, n) => votes' \in {votes, NoBallots}
  BY <1>1, RoundKeepsBallots DEF FinishNightDeaths, LastWordsOf
<1> QED
  BY <1>1, <1>2, RoundKeepsBallots DEF AnnounceAndContinueNight

\* Ballots are cast, and the box is emptied; they do not change otherwise.
LEMMA BallotSteps ==
  ASSUME [Next]_vars
  PROVE  \/ votes' \in {votes, NoBallots}
         \/ \E s \in Seats, t \in SeatOrNone : CastVote(s, t)
<1> DEFINE Kept == votes' \in {votes, NoBallots}
<1>1. CASE NightAction \/ WolfRevote
  BY <1>1 DEF NightAction, Skip, Guard, Propose, Save, Poison, Check, NightActionFrame,
     WolfRevote, voteVars
<1>2. ASSUME NEW n, LeaveNightPhase(n)
      PROVE  Kept
  BY <1>2, RoundKeepsBallots, FlowKeepsBallots DEF LeaveNightPhase, ResolveNightAndContinue
<1>3. CASE WolfKillDecided \/ NightPhaseOver
  BY <1>2, <1>3 DEF WolfKillDecided, NightPhaseOver
<1>4. CASE DayAction
  <2>1. \A s \in Seats : SelfDestruct(s) => Kept
    BY RoundKeepsBallots, FlowKeepsBallots DEF SelfDestruct
  <2>2. Aim["vote"] \cup {None} \subseteq SeatOrNone
    BY BoardAssumption DEF AimKinds, SeatOrNone
  <2> QED
    BY <1>4, <2>1, <2>2 DEF DayAction, Speak, Shoot, PassBadge, voteVars
<1>5. CASE DayStep
  BY <1>5, RoundKeepsBallots, FlowKeepsBallots DEF DayStep, OpenVote, StartRunoff, VoteStarted,
     NobodyExiled, FlipIdiot, Exile, AfterExile, AfterHunterShot, AfterLastWords
<1>6. CASE ElectionAction
  BY <1>6 DEF ElectionAction, Declare, Confirm, VoteSheriff, SetDirection, ElectionFrame, voteVars
<1>7. CASE ElectionStep
  <2>1. StillElecting => Kept
    BY RoundKeepsBallots DEF StillElecting
  <2>2. EnterWithdraw => Kept
    BY <2>1 DEF EnterWithdraw
  <2>3. \A b : EndElection(b) => Kept
    BY FlowKeepsBallots DEF EndElection
  <2> HIDE DEF Kept
  <2>4. AllDeclared \/ CampaignOver \/ AllConfirmed => Kept
    BY <2>1, <2>2, <2>3 DEF AllDeclared, CampaignOver, AllConfirmed
  <2>5. (\E s \in Seats : Elect(s)) => Kept
    BY <2>3, RoundKeepsBallots DEF Elect, Kept
  <2>6. StartSheriffRunoff \/ NobodyElected \/ DirectionSet => Kept
    BY <2>1, <2>3 DEF StartSheriffRunoff, NobodyElected, DirectionSet
  <2> QED
    BY <1>7, <2>4, <2>5, <2>6 DEF ElectionStep, Kept
<1>8. CASE UNCHANGED vars
  BY <1>8 DEF vars, voteVars
<1> QED
  BY <1>1, <1>3, <1>4, <1>5, <1>6, <1>7, <1>8 DEF Next, PlayerAction, SystemStep, Finished

LEMMA BallotCast ==
  ASSUME [Next]_vars, VoteCast # {}
  PROVE  phase \in {"VOTE", "VOTE_PK"} /\ UNCHANGED <<phase, alive, round, wolf_proposals>>
<1>1. votes' # votes /\ votes' # NoBallots
  BY DEF VoteCast, Filled, NoBallots
<1>2. PICK s \in Seats, t \in SeatOrNone : CastVote(s, t)
  BY <1>1, BallotSteps
<1> QED
  BY <1>2 DEF CastVote, CanCastVote, controlVars, huntVars

\* A runoff is the second vote of a day, and there is no third.
LEMMA RunoffStarts ==
  ASSUME GameInv, [Next]_vars, phase # "VOTE_PK", phase' = "VOTE_PK"
  PROVE  tie_round' = 1
<1>1. ~FlowEnds /\ ~OpenVote /\ ~StartSheriffRunoff
  BY PlainPhases DEF FlowEnds, OpenVote, StartSheriffRunoff, EnterPhase
<1>2. StartRunoff
  BY <1>1, StepMoves DEF PhaseMoves
<1> QED
  BY <1>2 DEF StartRunoff, VoteStarted

LEMMA RunoffEnds ==
  ASSUME GameInv, [Next]_vars, phase = "VOTE_PK", tie_round = 1
  PROVE  \/ /\ UNCHANGED <<phase, tie_round>>
            /\ \A s \in Seats : votes[s] # NotYet => votes'[s] # NotYet
         \/ phase' \in NightPhases \cup {"EXILE", "GAME_OVER"}
<1> DEFINE Kept == /\ UNCHANGED <<phase, tie_round>>
                   /\ \A s \in Seats : votes[s] # NotYet => votes'[s] # NotYet
<1>1. phase \notin NightPhases \cup ElectionPhases
  BY PlainPhases
<1>2. ~(NightAction \/ WolfRevote \/ WolfKillDecided \/ NightPhaseOver)
  BY <1>1, NightRound
<1>3. ~(ElectionAction \/ ElectionStep)
  BY <1>1 DEF ElectionAction, Declare, Confirm, VoteSheriff, SetDirection, CanDeclare,
     CanConfirm, CanVoteSheriff, CanSetDirection, InElection, ElectionStep, AllDeclared,
     CampaignOver, AllConfirmed, Elect, StartSheriffRunoff, NobodyElected, DirectionSet,
     SheriffVoteOver, ElectionPhases
<1>4. CASE DayAction
  <2>1. votes \in [Seats -> SeatOrNone \cup {NotYet}] /\ NotYet \notin SeatOrNone
    BY BoardAssumption DEF GameInv, Inv, TypeInv, TypeOK, VoteTypeOK, Ballots
  <2>2. ASSUME NEW s \in Seats, NEW t \in SeatOrNone, CastVote(s, t)
        PROVE  Kept
    BY <2>1, <2>2 DEF CastVote, controlVars
  <2>3. Aim["vote"] \cup {None} \subseteq SeatOrNone
    BY BoardAssumption DEF AimKinds, SeatOrNone
  <2>4. \A s \in Seats : ~SelfDestruct(s)
    BY <1>1 DEF SelfDestruct, CanSelfDestruct
  <2>5. \A s \in Seats, t \in Aim["shoot"] \cup {None} : ~Shoot(s, t)
    BY DEF Shoot, CanShoot
  <2>6. UNCHANGED <<phase, voteVars>> => Kept
    BY DEF voteVars
  <2> HIDE DEF Kept
  <2>7. Kept
    BY <1>4, <2>2, <2>3, <2>4, <2>5, <2>6 DEF DayAction, Speak, PassBadge
  <2> QED
    BY <2>7 DEF Kept
<1>5. CASE DayStep
  <2>1. ~OpenVote /\ ~AfterExile /\ ~AfterHunterShot /\ ~AfterLastWords
    BY DEF OpenVote, AfterExile, AfterHunterShot, AfterLastWords
  <2>2. ~StartRunoff
    BY DEF StartRunoff, Runoff
  <2>3. CASE NobodyExiled \/ \E s \in Seats : FlipIdiot(s)
    BY <2>3, DayDeathFlow DEF NobodyExiled, FlipIdiot
  <2>4. CASE \E s \in Seats : Exile(s)
    BY <2>4 DEF Exile, EnterPhase
  <2> QED
    BY <1>5, <2>1, <2>2, <2>3, <2>4 DEF DayStep
<1>6. CASE UNCHANGED vars
  BY <1>6 DEF vars, controlVars, voteVars
<1> QED
  BY <1>2, <1>3, <1>4, <1>5, <1>6 DEF Next, PlayerAction, SystemStep, Finished

-----------------------------------------------------------------------------
(* The invariant of the statistics *)

\* The book of the dead is that of the engine, and a death is counted once.
DeadInv == dead = (Seats \ alive) \cup (IF phase \in ElectionPhases THEN night.deaths ELSE {})

FateInv ==
  \A s \in Watched :
      /\ seats[s].exiled \in Nat /\ seats[s].night_killed \in Nat
      /\ seats[s].exiled + seats[s].night_killed <= 1
      /\ s \notin dead => seats[s].exiled = 0 /\ seats[s].night_killed = 0

\* The night is counted with the first proposal of a wolf, so that it has been
\* counted when the wolves are no longer ahead.
HuntInv ==
  /\ (\E w \in Seats : wolf_proposals[w] # NotYet) => "night" \in counted
  /\ ~WolvesAhead => "night" \in counted
  /\ phase \in NightPhases => alive \cap Wolves # {}

WolfInv ==
  \A s \in Watched \cap Wolves :
      seats[s].wolf_nights = IF s \in dead THEN seats[s].rounds_alive
                             ELSE round - 1 + Count("night" \in counted)

\* Of a wolf night that has been counted, each of its other counts is still to
\* come or has been made.
Ahead(count) == Count("night" \in counted /\ count \notin counted)

RateInv ==
  \A s \in Watched :
      /\ seats[s].wolf_nights \in Nat
      /\ seats[s].revote_nights \in Nat /\ seats[s].decided_no_kill \in Nat
      /\ seats[s].revote_nights <= seats[s].wolf_nights
      /\ seats[s].decided_no_kill <= seats[s].wolf_nights
      /\ s \in alive \cap Wolves =>
            /\ seats[s].revote_nights + Ahead("revote") <= seats[s].wolf_nights
            /\ seats[s].decided_no_kill + Ahead("decided") <= seats[s].wolf_nights

\* The runoffs that may have been counted for a seat: that of today when it has
\* cast its ballot, or when the vote is over.
RunoffsOf(s) ==
  IF Stage \in {"dusk", "over"} \/ (phase = "VOTE_PK" /\ s \in Seats /\ votes[s] # NotYet)
  THEN round ELSE round - 1

RunoffInv ==
  /\ phase = "VOTE" => pk_candidates = {}
  /\ phase = "VOTE_PK" => tie_round = 1
  /\ \A s \in Watched :
        /\ seats[s].pk_votes_eligible \in Nat /\ seats[s].vote_changes \in Nat
        /\ seats[s].vote_changes <= seats[s].pk_votes_eligible
        /\ seats[s].pk_votes_eligible <= RunoffsOf(s)

StatInv == DeadInv /\ FateInv /\ HuntInv /\ WolfInv /\ RateInv /\ RunoffInv

\* A step of the replay.
Replayed ==
  /\ seats' = [s \in Watched |-> Counted(s, seats[s])]
  /\ dead' = dead \cup Dying
  /\ counted' = IF RoundStarted THEN {} ELSE counted \cup CountedNow
  /\ FollowVotes

LEMMA CountType ==
  /\ \A condition : Count(condition) \in {0, 1}
  /\ \A condition : condition => Count(condition) = 1
  /\ \A condition : ~condition => Count(condition) = 0
  BY DEF Count

LEMMA SeatCounted ==
  ASSUME Replayed, NEW s \in Watched
  PROVE  /\ seats'[s].rounds_alive = IF s \in Dying THEN round ELSE seats[s].rounds_alive
         /\ seats'[s].exiled = seats[s].exiled + Count(s \in PlayerExiled)
         /\ seats'[s].night_killed = seats[s].night_killed + Count(s \in NightResolved)
         /\ seats'[s].pk_votes_eligible = seats[s].pk_votes_eligible + Count(Eligible(s))
         /\ seats'[s].vote_changes
               = seats[s].vote_changes + Count(Eligible(s) /\ votes'[s] # first_targets[s])
         /\ seats'[s].wolf_nights
               = seats[s].wolf_nights + Count(s \in alive \cap Wolves /\ "night" \in CountedNow)
         /\ seats'[s].revote_nights
               = seats[s].revote_nights + Count(s \in alive \cap Wolves /\ "revote" \in CountedNow)
         /\ seats'[s].decided_no_kill
               = seats[s].decided_no_kill + Count(s \in alive \cap Wolves /\ "decided" \in CountedNow)
<1>1. seats'[s] = Counted(s, seats[s])
  BY DEF Replayed
<1> QED
  BY <1>1 DEF Counted

LEMMA CountsOfNight ==
  /\ "night" \in CountedNow <=> "night" \notin counted /\ KillProposed # {}
  /\ "revote" \in CountedNow => "night" \in counted /\ "revote" \notin counted
  /\ "decided" \in CountedNow => "night" \in counted /\ "decided" \notin counted
  BY DEF CountedNow

-----------------------------------------------------------------------------
(* Steps, seen from the counts *)

LEMMA RoundCount ==
  ASSUME GameInv, RoundStep
  PROVE  /\ round \in Nat
         /\ RoundStarted => phase \notin NightPhases /\ NightBegun
         /\ ~RoundStarted => round' = round
         /\ phase \notin NightPhases /\ phase' \in NightPhases => RoundStarted
<1>1. round \in Nat
  BY DEF GameInv, Inv, TypeInv, TypeOK
<1>2. NightBegun => RoundStarted
  BY <1>1 DEF NightBegun, RoundStarted
<1>3. UNCHANGED round => ~RoundStarted
  BY <1>1 DEF RoundStarted
<1>4. NightHeld \/ NightMoves \/ NightOver \/ HuntLeft => UNCHANGED round
  BY DEF NightHeld, NightMoves, NightOver, HuntLeft
<1> QED
  BY <1>1, <1>2, <1>3, <1>4 DEF RoundStep, HuntLeft

LEMMA ProposedByNight ==
  ASSUME RoundStep, KillProposed # {}
  PROVE  phase \in NightPhases /\ UNCHANGED <<phase, alive, round>>
<1>1. wolf_proposals' # wolf_proposals /\ wolf_proposals' # NoBallots
  BY DEF KillProposed, Filled, NoBallots
<1> QED
  BY <1>1 DEF RoundStep, NightHeld, NightMoves, NightOver, NightBegun, HuntLeft

\* When the wolves have been called, those alive have proposed.
LEMMA WolvesHeard ==
  ASSUME SystemTurn, phase = "NIGHT_WEREWOLF", alive \cap Wolves # {}
  PROVE  \E w \in Seats : wolf_proposals[w] # NotYet
<1>1. PICK w \in alive \cap Wolves : TRUE
  OBVIOUS
<1>2. NightActors = {}
  BY DEF SystemTurn, ExpectedActors, NightPhases
<1>3. w \in Seats
  BY DEF Wolves, Holders
<1> QED
  BY <1>1, <1>2, <1>3 DEF NightActors, Waiting

LEMMA WolvesPass ==
  ASSUME GameInv, HuntInv, RoundStep, ~RoundStarted, ~WolvesAhead'
  PROVE  "night" \in counted
<1> DEFINE order == config.night_order
<1>1. \A i \in DOMAIN order : i \in 1 .. Len(order)
  BY RulesAssumption
<1>2. Len(order) \in Nat
  BY RulesAssumption
<1>3. PICK k \in DOMAIN order : order[k] = "NIGHT_WEREWOLF"
  BY RulesAssumption
<1>4. CASE phase \notin NightPhases
  <2>1. ~WolvesAhead
    BY <1>4, NightOrderType DEF WolvesAhead
  <2> QED
    BY <2>1 DEF HuntInv
<1>5. ASSUME NEW i \in DOMAIN order, order[i] = phase, phase \in NightPhases, SystemTurn, k <= i
      PROVE  "night" \in counted
  <2>1. CASE k = i
    BY <1>3, <1>5, <2>1, WolvesHeard DEF HuntInv
  <2>2. CASE k # i
    <3>1. \A a, b \in DOMAIN order :
             order[a] = phase /\ order[b] = "NIGHT_WEREWOLF" => a = i /\ b = k
      BY <1>3, <1>5, RulesAssumption
    <3>2. ~WolvesAhead
      BY <1>1, <1>5, <2>2, <3>1 DEF WolvesAhead
    <3> QED
      BY <3>2 DEF HuntInv
  <2> QED
    BY <2>1, <2>2
<1>6. CASE phase \in NightPhases /\ NightHeld
  BY <1>6 DEF NightHeld, WolvesAhead, HuntInv
<1>7. CASE phase \in NightPhases /\ NightMoves
  <2>1. PICK i \in DOMAIN order :
          i + 1 \in DOMAIN order /\ order[i] = phase /\ order[i + 1] = phase'
    BY <1>7 DEF NightMoves
  <2>2. ~(i + 1 <= k)
    BY <1>3, <2>1 DEF WolvesAhead
  <2>3. k <= i
    BY <1>1, <2>2
  <2> QED
    BY <1>5, <1>7, <2>1, <2>3 DEF NightMoves
<1>8. CASE phase \in NightPhases /\ NightOver
  <2>1. PICK i \in DOMAIN order : i = Len(order) /\ order[i] = phase
    BY <1>8 DEF NightOver
  <2>2. k <= i
    BY <1>1, <1>2, <2>1
  <2> QED
    BY <1>5, <1>8, <2>1, <2>2 DEF NightOver
<1> QED
  BY <1>4, <1>6, <1>7, <1>8 DEF RoundStep

LEMMA WolvesCalled ==
  ASSUME NightBegun
  PROVE  WolvesAhead' /\ alive' \cap Wolves # {}
<1>1. PICK k \in DOMAIN config.night_order : config.night_order[k] = "NIGHT_WEREWOLF"
  BY RulesAssumption
<1>2. 1 \in DOMAIN config.night_order /\ 1 <= k
  BY <1>1, RulesAssumption
<1>3. alive' \cap Wolves # {}
  BY DEF NightBegun, CheckWin
<1> QED
  BY <1>1, <1>2, <1>3 DEF WolvesAhead, NightBegun

\* Nobody dies in a night before it has been counted.
LEMMA DyingCounted ==
  ASSUME GameInv, HuntInv, RoundStep, Dying # {}
  PROVE  "night" \in counted
<1>1. phase \notin NightPhases \/ phase' \notin NightPhases
  BY DEF Dying, NightResolved, FallsByDay
<1>2. phase' \notin NightPhases => ~WolvesAhead'
  BY NightOrderType DEF WolvesAhead
<1>3. phase \notin NightPhases => ~WolvesAhead
  BY NightOrderType DEF WolvesAhead
<1>4. CASE phase \notin NightPhases
  BY <1>3, <1>4 DEF HuntInv
<1>5. CASE phase \in NightPhases
  BY <1>1, <1>2, <1>5, RoundCount, WolvesPass
<1> QED
  BY <1>4, <1>5

-----------------------------------------------------------------------------
(* Every step keeps the statistics true *)

LEMMA DeadStep ==
  ASSUME GameInv, DeadInv, [Next]_vars, RoundStep, Replayed
  PROVE  DeadInv'
<1>1. alive \subseteq Seats /\ night.deaths \subseteq Seats
  BY DEF GameInv, Inv, TypeInv, TypeOK, Nights
<1>2. dead' = dead \cup NightResolved \cup FallsByDay
  BY DEF Replayed, Dying
<1>3. CASE phase \in NightPhases
  <2>1. dead = Seats \ alive /\ FallsByDay = {}
    BY <1>3, PlainPhases DEF DeadInv, FallsByDay
  <2>2. CASE phase' \in NightPhases
    <3>1. NightResolved = {} /\ phase' \notin ElectionPhases
      BY <2>2, PlainPhases DEF NightResolved
    <3>2. alive' = alive
      BY <1>3, <2>2 DEF RoundStep, NightHeld, NightMoves, NightOver, HuntLeft
    <3> QED
      BY <1>2, <2>1, <3>1, <3>2 DEF DeadInv
  <2>3. CASE phase' \notin NightPhases
    <3>1. NightResolved = night'.deaths
      BY <1>3, <2>3 DEF NightResolved
    <3>2. NightOver
      BY <1>3, <2>3, NightOrderType DEF RoundStep, NightHeld, NightMoves
    <3>3. /\ night'.deaths \subseteq alive
          /\ alive' = IF phase' \in ElectionPhases THEN alive ELSE alive \ night'.deaths
      BY <3>2 DEF NightOver
    <3> QED
      BY <1>1, <1>2, <2>1, <3>1, <3>3 DEF DeadInv
  <2> QED
    BY <2>2, <2>3
<1>4. CASE phase \in ElectionPhases
  <2>1. NightResolved = {} /\ FallsByDay = alive \ alive'
    BY <1>4, PlainPhases DEF NightResolved, FallsByDay
  <2>2. dead = (Seats \ alive) \cup night.deaths
    BY <1>4 DEF DeadInv
  <2>3. CASE phase' \in ElectionPhases
    <3>1. alive' = alive /\ night' = night
      BY <1>4, <2>3, ElectionFates
    <3> QED
      BY <1>2, <2>1, <2>2, <2>3, <3>1 DEF DeadInv
  <2>4. CASE phase' \notin ElectionPhases
    <3>1. alive' \subseteq alive /\ alive' \cap night.deaths = {}
      BY <1>4, <2>4, ElectionFates
    <3> QED
      BY <1>1, <1>2, <2>1, <2>2, <2>4, <3>1 DEF DeadInv
  <2> QED
    BY <2>3, <2>4
<1>5. CASE phase \notin NightPhases \cup ElectionPhases
  <2>1. NightResolved = {} /\ FallsByDay = alive \ alive' /\ dead = Seats \ alive
    BY <1>5 DEF NightResolved, FallsByDay, DeadInv
  <2>2. phase' \notin ElectionPhases /\ alive' \subseteq alive
    BY <1>5, DayFates
  <2> QED
    BY <1>1, <1>2, <2>1, <2>2 DEF DeadInv
<1> QED
  BY <1>3, <1>4, <1>5

\* Who is exiled, and who dies by night, was in no book of the dead.
LEMMA FreshDeaths ==
  ASSUME GameInv, DeadInv, [Next]_vars, RoundStep
  PROVE  /\ (PlayerExiled \cup NightResolved) \cap dead = {}
         /\ PlayerExiled \cap NightResolved = {}
         /\ PlayerExiled \cup NightResolved \subseteq Dying
<1>1. ASSUME NEW s \in NightResolved
      PROVE  s \notin dead /\ s \notin PlayerExiled
  <2>1. phase \in NightPhases /\ phase' \notin NightPhases /\ s \in night'.deaths
    BY DEF NightResolved
  <2>2. NightOver
    BY <2>1, NightOrderType DEF RoundStep, NightHeld, NightMoves
  <2>3. s \in alive /\ phase' # "EXILE" /\ dead = Seats \ alive
    BY <2>1, <2>2, PlainPhases DEF NightOver, DeadInv
  <2> QED
    BY <2>3 DEF PlayerExiled
<1>2. ASSUME NEW s \in PlayerExiled
      PROVE  s \notin dead /\ s \in FallsByDay
  <2>1. phase' = "EXILE" /\ s \in alive \ alive'
    BY DEF PlayerExiled
  <2>2. phase \notin NightPhases
    BY <2>1, PlainPhases DEF RoundStep, NightHeld, NightMoves, NightOver
  <2>3. phase \notin ElectionPhases
    BY <2>1, ElectionFates, PlainPhases
  <2> QED
    BY <2>1, <2>2, <2>3 DEF FallsByDay, DeadInv
<1> QED
  BY <1>1, <1>2 DEF Dying

LEMMA FateStep ==
  ASSUME GameInv, DeadInv, FateInv, [Next]_vars, RoundStep, Replayed
  PROVE  FateInv'
<1> SUFFICES ASSUME NEW s \in Watched
             PROVE  /\ seats'[s].exiled \in Nat /\ seats'[s].night_killed \in Nat
                    /\ seats'[s].exiled + seats'[s].night_killed <= 1
                    /\ s \notin dead' => seats'[s].exiled = 0 /\ seats'[s].night_killed = 0
  BY DEF FateInv
<1> DEFINE e == Count(s \in PlayerExiled)
           k == Count(s \in NightResolved)
<1>1. /\ seats'[s].exiled = seats[s].exiled + e
      /\ seats'[s].night_killed = seats[s].night_killed + k
  BY SeatCounted
<1>2. /\ seats[s].exiled \in Nat /\ seats[s].night_killed \in Nat
      /\ seats[s].exiled + seats[s].night_killed <= 1
      /\ s \notin dead => seats[s].exiled = 0 /\ seats[s].night_killed = 0
  BY DEF FateInv
<1>3. dead' = dead \cup Dying
  BY DEF Replayed
<1>4. CASE s \notin PlayerExiled \cup NightResolved
  <2>1. e = 0 /\ k = 0
    BY <1>4, CountType
  <2> HIDE DEF e, k
  <2> QED
    BY <1>1, <1>2, <1>3, <2>1
<1>5. CASE s \in PlayerExiled \cup NightResolved
  <2>1. s \notin dead /\ s \in Dying /\ ~(s \in PlayerExiled /\ s \in NightResolved)
    BY <1>5, FreshDeaths
  <2>2. e \in {0, 1} /\ k \in {0, 1} /\ (e = 0 \/ k = 0)
    BY <2>1, CountType
  <2> HIDE DEF e, k
  <2> QED
    BY <1>1, <1>2, <1>3, <2>1, <2>2
<1> QED
  BY <1>4, <1>5

LEMMA HuntStep ==
  ASSUME GameInv, HuntInv, RoundStep, Replayed
  PROVE  HuntInv'
<1>1. CASE RoundStarted
  <2>1. NightBegun
    BY <1>1, RoundCount
  <2>2. \A w \in Seats : wolf_proposals'[w] = NotYet
    BY <2>1 DEF NightBegun, NoBallots
  <2> QED
    BY <2>1, <2>2, WolvesCalled DEF HuntInv
<1>2. CASE ~RoundStarted
  <2>1. counted' = counted \cup CountedNow
    BY <1>2 DEF Replayed
  <2>2. ASSUME NEW w \in Seats, wolf_proposals'[w] # NotYet
        PROVE  "night" \in counted'
    <3>1. CASE wolf_proposals[w] # NotYet
      BY <2>1, <3>1 DEF HuntInv
    <3>2. CASE wolf_proposals[w] = NotYet
      <4>1. KillProposed # {}
        BY <2>2, <3>2 DEF KillProposed, Filled
      <4> QED
        BY <2>1, <4>1, CountsOfNight
    <3> QED
      BY <3>1, <3>2
  <2>3. ~WolvesAhead' => "night" \in counted'
    BY <1>2, <2>1, WolvesPass
  <2>4. phase' \in NightPhases => alive' \cap Wolves # {}
    <3>1. phase' \in NightPhases => phase \in NightPhases /\ alive' = alive
      BY <1>2, RoundCount DEF RoundStep, NightHeld, NightMoves, NightOver, HuntLeft
    <3> QED
      BY <3>1 DEF HuntInv
  <2> QED
    BY <2>2, <2>3, <2>4 DEF HuntInv
<1> QED
  BY <1>1, <1>2

LEMMA NewRoundCounted ==
  ASSUME GameInv, HuntInv, RoundStep, RoundStarted
  PROVE  "night" \in counted /\ round' = round + 1 /\ round \in Nat
<1>1. phase \notin NightPhases /\ NightBegun /\ round \in Nat
  BY RoundCount
<1>2. ~WolvesAhead
  BY <1>1, NightOrderType DEF WolvesAhead
<1> QED
  BY <1>1, <1>2 DEF HuntInv, NightBegun

LEMMA WolfStep ==
  ASSUME GameInv, DeadInv, HuntInv, WolfInv, RateInv, RoundStep, Replayed
  PROVE  WolfInv'
<1> SUFFICES ASSUME NEW s \in Watched \cap Wolves
             PROVE  seats'[s].wolf_nights = IF s \in dead' THEN seats'[s].rounds_alive
                                            ELSE round' - 1 + Count("night" \in counted')
  BY DEF WolfInv
<1> DEFINE now == Count(s \in alive \cap Wolves /\ "night" \in CountedNow)
<1>1. /\ seats'[s].wolf_nights = seats[s].wolf_nights + now
      /\ seats'[s].rounds_alive = IF s \in Dying THEN round ELSE seats[s].rounds_alive
  BY SeatCounted
<1>2. seats[s].wolf_nights = IF s \in dead THEN seats[s].rounds_alive
                             ELSE round - 1 + Count("night" \in counted)
  BY DEF WolfInv
<1>3. dead' = dead \cup Dying /\ (s \in Dying => s \notin dead) /\ round \in Nat /\ s \in Seats
  BY RoundCount DEF Replayed, Dying, Wolves, Holders
<1>4. CASE s \in dead
  <2>1. ~(s \in alive \cap Wolves /\ "night" \in CountedNow)
    <3>1. "night" \in CountedNow => phase \in NightPhases
      BY CountsOfNight, ProposedByNight
    <3>2. phase \in NightPhases => s \notin alive
      BY <1>4, PlainPhases DEF DeadInv
    <3> QED
      BY <3>1, <3>2
  <2>2. now = 0
    BY <2>1, CountType
  <2>3. seats[s].wolf_nights \in Nat
    BY DEF RateInv
  <2> HIDE DEF now
  <2> QED
    BY <1>1, <1>2, <1>3, <1>4, <2>2, <2>3
<1>5. CASE s \in Dying
  <2>1. "night" \in counted
    BY <1>5, DyingCounted
  <2>2. "night" \notin CountedNow
    BY <2>1, CountsOfNight
  <2>3. now = 0 /\ Count("night" \in counted) = 1
    BY <2>1, <2>2, CountType
  <2> HIDE DEF now
  <2> QED
    BY <1>1, <1>2, <1>3, <1>5, <2>3
<1>6. CASE s \notin dead'
  <2>1. s \notin dead /\ s \notin Dying /\ s \in alive \cap Wolves
    BY <1>3, <1>6 DEF DeadInv
  <2>2. now = Count("night" \in CountedNow)
    BY <2>1 DEF Count
  <2>3. round' - 1 + Count("night" \in counted')
            = round - 1 + Count("night" \in counted) + now
    <3>1. CASE RoundStarted
      <4>1. "night" \in counted /\ round' = round + 1 /\ counted' = {}
        BY <3>1, NewRoundCounted DEF Replayed
      <4>2. "night" \notin CountedNow
        BY <4>1, CountsOfNight
      <4>3. Count("night" \in counted) = 1 /\ Count("night" \in counted') = 0 /\ now = 0
        BY <2>2, <4>1, <4>2, CountType
      <4> HIDE DEF now
      <4> QED
        BY <1>3, <4>1, <4>3
    <3>2. CASE ~RoundStarted
      <4>1. round' = round /\ counted' = counted \cup CountedNow
        BY <3>2, RoundCount DEF Replayed
      <4>2. Count("night" \in counted') = Count("night" \in counted) + now
        <5>1. "night" \in CountedNow => "night" \notin counted
          BY CountsOfNight
        <5> QED
          BY <2>2, <4>1, <5>1 DEF Count
      <4>3. Count("night" \in counted) \in {0, 1} /\ now \in {0, 1}
        BY <2>2, CountType
      <4> HIDE DEF now
      <4> QED
        BY <1>3, <4>1, <4>2, <4>3
    <3> QED
      BY <3>1, <3>2
  <2> HIDE DEF now
  <2> QED
    BY <1>1, <1>2, <1>6, <2>1, <2>3
<1> QED
  BY <1>3, <1>4, <1>5, <1>6

LEMMA NobodyRises ==
  ASSUME GameInv, [Next]_vars, RoundStep
  PROVE  alive' \subseteq alive
<1>1. CASE phase \in NightPhases
  BY <1>1, NightOrderType DEF RoundStep, NightHeld, NightMoves, NightOver
<1>2. CASE phase \in ElectionPhases
  BY <1>2, ElectionFates
<1>3. CASE phase \notin NightPhases \cup ElectionPhases
  BY <1>3, DayFates
<1> QED
  BY <1>1, <1>2, <1>3

\* A count that is made once a night, after the night itself has been counted.
LEMMA OncePerNight ==
  ASSUME Replayed, alive' \subseteq alive, NEW count \in {"revote", "decided"},
         NEW s, NEW made \in Nat, NEW nights \in Nat, made <= nights,
         s \in alive \cap Wolves => made + Ahead(count) <= nights,
         NEW more, more = Count(s \in alive \cap Wolves /\ count \in CountedNow),
         NEW night1, night1 = Count(s \in alive \cap Wolves /\ "night" \in CountedNow)
  PROVE  /\ made + more \in Nat /\ nights + night1 \in Nat
         /\ made + more <= nights + night1
         /\ s \in alive' \cap Wolves => made + more + Ahead(count)' <= nights + night1
<1>1. more \in {0, 1} /\ night1 \in {0, 1} /\ Ahead(count) \in {0, 1} /\ Ahead(count)' \in {0, 1}
  BY CountType DEF Ahead
<1>2. CASE s \notin alive \cap Wolves
  <2>1. more = 0 /\ night1 = 0
    BY <1>2, CountType
  <2> QED
    BY <1>2, <2>1
<1>3. CASE s \in alive \cap Wolves
  <2>1. count \in CountedNow => "night" \in counted /\ count \notin counted
    BY CountsOfNight
  <2>2. "night" \in CountedNow => "night" \notin counted
    BY CountsOfNight
  <2>3. more = Count(count \in CountedNow) /\ night1 = Count("night" \in CountedNow)
    BY <1>3 DEF Count
  <2>4. more <= Ahead(count)
    BY <2>1, <2>3 DEF Ahead, Count
  <2>5. more + Ahead(count)' <= Ahead(count) + night1
    <3>1. CASE RoundStarted
      <4>1. Ahead(count)' = 0
        BY <3>1 DEF Ahead, Count, Replayed
      <4> QED
        BY <1>1, <2>4, <4>1
    <3>2. CASE ~RoundStarted
      <4>1. counted' = counted \cup CountedNow
        BY <3>2 DEF Replayed
      <4>2. CASE "night" \in counted
        <5>1. Ahead(count)' = Count(count \notin counted /\ count \notin CountedNow)
          BY <4>1, <4>2 DEF Ahead, Count
        <5>2. Ahead(count) = Count(count \notin counted)
          BY <4>2 DEF Ahead, Count
        <5>3. more + Ahead(count)' = Ahead(count)
          BY <2>1, <2>3, <5>1, <5>2 DEF Count
        <5> QED
          BY <1>1, <5>3
      <4>3. CASE "night" \notin counted
        <5>1. more = 0
          BY <2>1, <2>3, <4>3 DEF Count
        <5>2. Ahead(count)' <= night1
          BY <2>3, <4>1, <4>3 DEF Ahead, Count
        <5> QED
          BY <1>1, <5>1, <5>2
      <4> QED
        BY <4>2, <4>3
    <3> QED
      BY <3>1, <3>2
  <2>6. made + Ahead(count) <= nights
    BY <1>3
  <2> QED
    BY <1>1, <2>4, <2>5, <2>6
<1> QED
  BY <1>2, <1>3

LEMMA RateStep ==
  ASSUME GameInv, RateInv, [Next]_vars, RoundStep, Replayed
  PROVE  RateInv'
<1> SUFFICES ASSUME NEW s \in Watched
             PROVE  /\ seats'[s].wolf_nights \in Nat
                    /\ seats'[s].revote_nights \in Nat /\ seats'[s].decided_no_kill \in Nat
                    /\ seats'[s].revote_nights <= seats'[s].wolf_nights
                    /\ seats'[s].decided_no_kill <= seats'[s].wolf_nights
                    /\ s \in alive' \cap Wolves =>
                          /\ seats'[s].revote_nights + Ahead("revote")' <= seats'[s].wolf_nights
                          /\ seats'[s].decided_no_kill + Ahead("decided")'
                                <= seats'[s].wolf_nights
  BY DEF RateInv
<1>1. alive' \subseteq alive
  BY NobodyRises
<1>2. PICK night1 : night1 = Count(s \in alive \cap Wolves /\ "night" \in CountedNow)
  OBVIOUS
<1>3. PICK revoted : revoted = Count(s \in alive \cap Wolves /\ "revote" \in CountedNow)
  OBVIOUS
<1>4. PICK decided : decided = Count(s \in alive \cap Wolves /\ "decided" \in CountedNow)
  OBVIOUS
<1>5. PICK st : st = seats[s]
  OBVIOUS
<1>6. /\ seats'[s].wolf_nights = st.wolf_nights + night1
      /\ seats'[s].revote_nights = st.revote_nights + revoted
      /\ seats'[s].decided_no_kill = st.decided_no_kill + decided
  BY <1>2, <1>3, <1>4, <1>5, SeatCounted
<1>7. /\ st.wolf_nights \in Nat
      /\ st.revote_nights \in Nat /\ st.decided_no_kill \in Nat
      /\ st.revote_nights <= st.wolf_nights
      /\ st.decided_no_kill <= st.wolf_nights
      /\ s \in alive \cap Wolves =>
            /\ st.revote_nights + Ahead("revote") <= st.wolf_nights
            /\ st.decided_no_kill + Ahead("decided") <= st.wolf_nights
  BY <1>5 DEF RateInv
<1>8. /\ st.revote_nights + revoted \in Nat /\ st.wolf_nights + night1 \in Nat
      /\ st.revote_nights + revoted <= st.wolf_nights + night1
      /\ s \in alive' \cap Wolves
            => st.revote_nights + revoted + Ahead("revote")' <= st.wolf_nights + night1
  BY <1>1, <1>2, <1>3, <1>7, OncePerNight
<1>9. /\ st.decided_no_kill + decided \in Nat
      /\ st.decided_no_kill + decided <= st.wolf_nights + night1
      /\ s \in alive' \cap Wolves
            => st.decided_no_kill + decided + Ahead("decided")' <= st.wolf_nights + night1
  BY <1>1, <1>2, <1>4, <1>7, OncePerNight
<1> QED
  BY <1>6, <1>8, <1>9

-----------------------------------------------------------------------------
(* Runoffs *)

\* In the abstract game dusk lasts until nightfall, and a game that is over
\* stays over.
LEMMA DuskLasts ==
  ASSUME GameInv, [Next]_vars
  PROVE  /\ Stage = "dusk" => round' = round + 1 \/ (round' = round /\ Stage' \in {"dusk", "over"})
         /\ Stage = "over" => round' = round /\ Stage' = "over"
<1>1. Game!GameNext \/ UNCHANGED Game!gameVars
  BY NextMaps
<1>2. UNCHANGED Game!gameVars => Stage' = Stage /\ round' = round
  BY DEF Game!gameVars
<1>3. Game!HunterShoots => Stage' = Stage /\ round' = round
  BY DEF Game!HunterShoots
<1>4. CASE Stage = "over"
  <2>1. ~(\/ Game!Poisoned \/ Game!NightEnds \/ Game!ElectionStarts \/ Game!ElectionEnds
          \/ Game!DawnEnds \/ Game!Exiled \/ Game!NobodyExiledToday \/ Game!DuskEnds)
    BY <1>4 DEF Game!Poisoned, Game!NightEnds, Game!ElectionStarts, Game!ElectionEnds,
       Game!DawnEnds, Game!Exiled, Game!NobodyExiledToday, Game!DuskEnds
  <2> QED
    BY <1>1, <1>2, <1>3, <1>4, <2>1 DEF Game!GameNext
<1>5. CASE Stage = "dusk"
  <2>1. ~(\/ Game!Poisoned \/ Game!NightEnds \/ Game!ElectionStarts \/ Game!ElectionEnds
          \/ Game!DawnEnds \/ Game!Exiled \/ Game!NobodyExiledToday)
    BY <1>5 DEF Game!Poisoned, Game!NightEnds, Game!ElectionStarts, Game!ElectionEnds,
       Game!DawnEnds, Game!Exiled, Game!NobodyExiledToday
  <2>2. Game!DuskEnds => round' = round + 1 \/ (round' = round /\ Stage' = "over")
    BY DEF Game!DuskEnds, Game!DayEnds, Game!NightFalls, Game!Decided, Game!TimeUp
  <2> QED
    BY <1>1, <1>2, <1>3, <1>5, <2>1, <2>2 DEF Game!GameNext
<1> QED
  BY <1>4, <1>5

LEMMA RunoffsGrow ==
  ASSUME GameInv, RunoffInv, [Next]_vars, RoundStep, NEW s
  PROVE  RunoffsOf(s) <= RunoffsOf(s)' /\ RunoffsOf(s) \in Int /\ RunoffsOf(s)' \in Int
<1>1. round \in Nat /\ (round' = round \/ round' = round + 1)
  BY RoundCount DEF NightBegun
<1>2. RunoffsOf(s) \in {round - 1, round} /\ RunoffsOf(s)' \in {round' - 1, round'}
  BY DEF RunoffsOf
<1>3. CASE round' = round + 1
  BY <1>1, <1>2, <1>3
<1>4. CASE round' = round /\ Stage \in {"dusk", "over"}
  <2>1. Stage' \in {"dusk", "over"}
    BY <1>1, <1>4, DuskLasts
  <2>2. RunoffsOf(s)' = round'
    BY <2>1 DEF RunoffsOf
  <2> QED
    BY <1>1, <1>2, <1>4, <2>2
<1>5. CASE round' = round /\ phase = "VOTE_PK" /\ s \in Seats /\ votes[s] # NotYet
  <2>1. phase' \notin NightPhases
    <3>1. phase \notin NightPhases
      BY <1>5, PlainPhases
    <3>2. ~RoundStarted
      BY <1>1, <1>5 DEF RoundStarted
    <3> QED
      BY <3>1, <3>2, RoundCount
  <2>2. CASE phase' = "VOTE_PK" /\ votes'[s] # NotYet
    <3>1. RunoffsOf(s)' = round'
      BY <1>5, <2>2 DEF RunoffsOf
    <3> QED
      BY <1>1, <1>2, <1>5, <3>1
  <2>3. CASE phase' \in {"EXILE", "GAME_OVER"}
    <3>1. GameInv'
      BY NextPlay
    <3>2. phase' = "EXILE" => resume_token' = "none"
      BY <3>1 DEF GameInv, PlayInv, PathInv
    <3>3. Stage' \in {"dusk", "over"}
      BY <2>3, <3>2, StageAfter DEF DawnTokens
    <3>4. RunoffsOf(s)' = round'
      BY <3>3 DEF RunoffsOf
    <3> QED
      BY <1>1, <1>2, <1>5, <3>4
  <2> QED
    BY <1>5, <2>1, <2>2, <2>3, RunoffEnds DEF RunoffInv
<1>6. CASE round' = round /\ RunoffsOf(s) = round - 1
  BY <1>1, <1>2, <1>6
<1> QED
  BY <1>1, <1>3, <1>4, <1>5, <1>6 DEF RunoffsOf

LEMMA RunoffCounts ==
  ASSUME GameInv, RunoffInv, [Next]_vars, RoundStep, Replayed
  PROVE  RunoffInv'
<1>1. GameInv'
  BY NextPlay
<1>2. phase' = "VOTE" => pk_candidates' = {}
  <2>1. phase' = "VOTE" => vote_candidates' = {}
    BY <1>1 DEF GameInv, PlayInv, BallotInv
  <2> QED
    BY <2>1 DEF Replayed, FollowVotes, RunoffInv
<1>3. phase' = "VOTE_PK" => tie_round' = 1
  <2>1. CASE phase = "VOTE_PK"
    BY <2>1, RunoffEnds, PlainPhases DEF RunoffInv
  <2>2. CASE phase # "VOTE_PK"
    BY <2>2, RunoffStarts
  <2> QED
    BY <2>1, <2>2
<1>4. ASSUME NEW s \in Watched
      PROVE  /\ seats'[s].pk_votes_eligible \in Nat /\ seats'[s].vote_changes \in Nat
             /\ seats'[s].vote_changes <= seats'[s].pk_votes_eligible
             /\ seats'[s].pk_votes_eligible <= RunoffsOf(s)'
  <2>1. PICK e, c : /\ e = Count(Eligible(s))
                    /\ c = Count(Eligible(s) /\ votes'[s] # first_targets[s])
    OBVIOUS
  <2>2. /\ seats'[s].pk_votes_eligible = seats[s].pk_votes_eligible + e
        /\ seats'[s].vote_changes = seats[s].vote_changes + c
    BY <2>1, SeatCounted
  <2>3. e \in {0, 1} /\ c \in {0, 1} /\ c <= e
    BY <2>1 DEF Count
  <2>4. /\ seats[s].pk_votes_eligible \in Nat /\ seats[s].vote_changes \in Nat
        /\ seats[s].vote_changes <= seats[s].pk_votes_eligible
        /\ seats[s].pk_votes_eligible <= RunoffsOf(s)
    BY <1>4 DEF RunoffInv
  <2>5. RunoffsOf(s) + e <= RunoffsOf(s)' /\ RunoffsOf(s) \in Int /\ RunoffsOf(s)' \in Int
    <3>1. CASE Eligible(s)
      <4>1. s \in VoteCast /\ pk_candidates # {}
        BY <3>1 DEF Eligible
      <4>2. phase = "VOTE_PK" /\ UNCHANGED <<phase, round>>
        BY <4>1, BallotCast DEF RunoffInv
      <4>3. s \in Seats /\ votes[s] = NotYet /\ votes'[s] # NotYet
        BY <4>1 DEF VoteCast, Filled
      <4>4. Stage = "day" /\ round \in Nat
        BY <4>2, StageOf, RoundCount
      <4>5. RunoffsOf(s) = round - 1 /\ RunoffsOf(s)' = round
        BY <4>2, <4>3, <4>4 DEF RunoffsOf
      <4> QED
        BY <2>3, <4>4, <4>5
    <3>2. CASE ~Eligible(s)
      <4>1. e = 0
        BY <2>1, <3>2, CountType
      <4> QED
        BY <4>1, RunoffsGrow
    <3> QED
      BY <3>1, <3>2
  <2> QED
    BY <2>2, <2>3, <2>4, <2>5
<1> QED
  BY <1>2, <1>3, <1>4 DEF RunoffInv

-----------------------------------------------------------------------------
(* The statistics of every game are true *)

LEMMA InitStatistics == AnalysisInit => GameInv /\ StatInv
<1> SUFFICES ASSUME AnalysisInit PROVE GameInv /\ StatInv
  OBVIOUS
<1>1. GameInv /\ Init
  BY InitPlay DEF AnalysisInit
<1>2. /\ phase = config.night_order[1] /\ round = 1 /\ alive = Seats
      /\ wolf_proposals = NoBallots
  BY <1>1 DEF Init
<1>3. phase \in NightPhases /\ phase \notin ElectionPhases \cup {"VOTE", "VOTE_PK"}
  BY <1>2, NightOrderType, PlainPhases
<1>4. dead = {} /\ counted = {} /\ \A s \in Watched : seats[s] = NoStats
  BY DEF AnalysisInit
<1>5. DeadInv
  BY <1>2, <1>3, <1>4 DEF DeadInv
<1>6. FateInv
  BY <1>4 DEF FateInv, NoStats
<1>7. HuntInv
  <2>1. WolvesAhead
    <3>1. PICK k \in DOMAIN config.night_order : config.night_order[k] = "NIGHT_WEREWOLF"
      BY RulesAssumption
    <3>2. 1 \in DOMAIN config.night_order /\ 1 <= k
      BY <3>1, RulesAssumption
    <3> QED
      BY <1>2, <3>1, <3>2 DEF WolvesAhead
  <2>2. alive \cap Wolves # {}
    BY <1>2, BoardAssumption DEF Wolves, Holders
  <2> QED
    BY <1>2, <2>1, <2>2 DEF HuntInv, NoBallots
<1>8. Count("night" \in counted) = 0 /\ \A count : Ahead(count) = 0
  BY <1>4 DEF Count, Ahead
<1>9. WolfInv
  BY <1>2, <1>4, <1>8 DEF WolfInv, NoStats
<1>10. RateInv
  BY <1>4, <1>8 DEF RateInv, NoStats
<1>11. RunoffInv
  <2>1. Stage = "night"
    BY <1>3, StageOf
  <2>2. \A s : RunoffsOf(s) = 0
    BY <1>2, <1>3, <2>1 DEF RunoffsOf
  <2> QED
    BY <1>3, <1>4, <2>2 DEF RunoffInv, NoStats
<1> QED
  BY <1>1, <1>5, <1>6, <1>7, <1>9, <1>10, <1>11 DEF StatInv

LEMMA NextStatistics == GameInv /\ StatInv /\ [AnalysisNext]_analysisVars => GameInv' /\ StatInv'
<1> SUFFICES ASSUME GameInv, StatInv, [AnalysisNext]_analysisVars PROVE GameInv' /\ StatInv'
  OBVIOUS
<1>1. [Next]_vars
  BY DEF AnalysisNext, analysisVars
<1>2. GameInv' /\ RoundStep
  BY <1>1, NextPlay, StepRound
<1>3. CASE AnalysisNext
  <2>1. Replayed
    BY <1>3 DEF AnalysisNext, Replayed
  <2>2. DeadInv' /\ FateInv' /\ HuntInv' /\ WolfInv' /\ RateInv' /\ RunoffInv'
    BY <1>1, <1>2, <2>1, DeadStep, FateStep, HuntStep, WolfStep, RateStep, RunoffCounts DEF StatInv
  <2> QED
    BY <1>2, <2>2 DEF StatInv
<1>4. CASE UNCHANGED analysisVars
  <2>1. UNCHANGED <<seats, dead, counted, pk_candidates, phase, resume_token, round, alive, night,
                    wolf_proposals, votes, tie_round>>
    BY <1>4 DEF analysisVars, vars, controlVars, huntVars, voteVars
  <2>2. DeadInv' /\ FateInv'
    BY <2>1 DEF StatInv, DeadInv, FateInv
  <2>3. HuntInv' /\ WolfInv'
    BY <2>1 DEF StatInv, HuntInv, WolfInv, WolvesAhead
  <2>4. RateInv'
    BY <2>1 DEF StatInv, RateInv, Ahead
  <2>5. RunoffInv'
    BY <2>1 DEF StatInv, RunoffInv, RunoffsOf, Stage
  <2> QED
    BY <1>2, <2>2, <2>3, <2>4, <2>5 DEF StatInv
<1> QED
  BY <1>3, <1>4

\* Of at most all.
LEMMA ShareOfOne ==
  ASSUME NEW a \in {0, 1}, NEW b \in {0, 1}
  PROVE  a * b <= a
<1>1. CASE a = 0
  BY <1>1
<1>2. CASE a = 1
  BY <1>2
<1> QED
  BY <1>1, <1>2

LEMMA StatisticsFollow ==
  ASSUME GameInv, StatInv
  PROVE  StatisticsTrue
<1>1. DeathsCounted
  <2>1. ASSUME NEW s \in Watched
        PROVE  alive_at_end(s) + seats[s].exiled + seats[s].night_killed <= 1
    <3>1. /\ seats[s].exiled \in Nat /\ seats[s].night_killed \in Nat
          /\ seats[s].exiled + seats[s].night_killed <= 1
          /\ s \notin dead => seats[s].exiled = 0 /\ seats[s].night_killed = 0
      BY DEF StatInv, FateInv
    <3>2. alive_at_end(s) = IF s \notin dead THEN 1 ELSE 0
      BY DEF alive_at_end, Count
    <3> QED
      BY <3>1, <3>2
  <2> QED
    BY <2>1 DEF DeathsCounted, StatInv, DeadInv
<1>2. NightsCounted
  <2>1. Count(WolvesAhead => "night" \in counted) = Count("night" \in counted)
    BY DEF StatInv, HuntInv, Count
  <2> QED
    BY <2>1 DEF NightsCounted, rounds_alive, StatInv, WolfInv
<1>3. RunoffsCounted
  <2> SUFFICES ASSUME NEW s \in Watched
               PROVE  seats[s].pk_votes_eligible
                         <= IF phase \in NightPhases \cup {"DAY_SPEECH", "VOTE"} THEN round - 1
                            ELSE round
    BY DEF RunoffsCounted
  <2>1. /\ seats[s].pk_votes_eligible \in Nat /\ seats[s].pk_votes_eligible <= RunoffsOf(s)
        /\ round \in Nat
    BY DEF StatInv, RunoffInv, GameInv, Inv, TypeInv, TypeOK
  <2>2. phase \in NightPhases \cup {"DAY_SPEECH", "VOTE"} => RunoffsOf(s) = round - 1
    <3>1. phase \in NightPhases \cup {"DAY_SPEECH", "VOTE"} => Stage \in {"night", "day"}
      BY StageOf
    <3>2. phase \in NightPhases \cup {"DAY_SPEECH", "VOTE"} => phase # "VOTE_PK"
      BY PlainPhases
    <3> QED
      BY <3>1, <3>2 DEF RunoffsOf
  <2>3. RunoffsOf(s) <= round
    BY <2>1 DEF RunoffsOf
  <2>4. RunoffsOf(s) \in {round - 1, round}
    BY DEF RunoffsOf
  <2> QED
    BY <2>1, <2>2, <2>3, <2>4
<1>4. ASSUME NEW s \in Watched
      PROVE  Shares(FateRates(s)) /\ Shares(VoteRates(s)) /\ Shares(WolfRates(s))
  <2>1. /\ seats[s].exiled \in Nat /\ seats[s].night_killed \in Nat
        /\ seats[s].exiled + seats[s].night_killed <= 1
    BY DEF StatInv, FateInv
  <2>2. seats[s].exiled \in {0, 1} /\ seats[s].night_killed \in {0, 1}
    BY <2>1
  <2>3. /\ games \in {0, 1} /\ wolf_games(s) \in {0, 1} /\ good_games(s) \in {0, 1}
        /\ wins(s) \in {0, 1} /\ alive_at_end(s) \in {0, 1}
    BY DEF games, wolf_games, good_games, wins, alive_at_end, Count
  <2>4. /\ games * wins(s) <= games
        /\ wolf_games(s) * wins(s) <= wolf_games(s)
        /\ good_games(s) * wins(s) <= good_games(s)
        /\ games * alive_at_end(s) <= games
        /\ games * seats[s].exiled <= games
        /\ games * seats[s].night_killed <= games
    BY <2>2, <2>3, ShareOfOne
  <2>5. Shares(FateRates(s))
    BY <2>4 DEF Shares, FateRates
  <2>6. Shares(VoteRates(s))
    BY DEF Shares, VoteRates, StatInv, RunoffInv
  <2>7. Shares(WolfRates(s))
    BY DEF Shares, WolfRates, StatInv, RateInv
  <2> QED
    BY <2>5, <2>6, <2>7
<1> QED
  BY <1>1, <1>2, <1>3, <1>4 DEF StatisticsTrue

\* On every board, whatever the rules and the order of the night, the report on
\* a game is true: the replay's dead are those of the engine, a wolf is in one
\* wolf night for each round that it lives to see, a day brings a seat at most
\* one runoff, and no rate of the model exceeds 100% (that of candidacies is left out).
THEOREM ReportIsTrue == AnalysisSpec => []StatisticsTrue
<1>1. GameInv /\ StatInv => StatisticsTrue
  BY StatisticsFollow
<1> QED
  BY <1>1, InitStatistics, NextStatistics, PTL DEF AnalysisSpec

=============================================================================
