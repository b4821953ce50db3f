----------------------------- MODULE GameProofs -----------------------------
(***************************************************************************)
(* The rule engine plays the game of WerewolfGame, and its ballots are     *)
(* legal: theorems about whom a step may put out, when, and by whose vote. *)
(*                                                                         *)
(* The invariant is what the engine's jumps leave behind in its fields:    *)
(* where the game goes on after an interruption (resume_token), that a     *)
(* hunter waits for its shot in one phase only, that a day is cut short    *)
(* only between a wolf's self-destruction and nightfall, and that knife,   *)
(* poison and ballots are aimed at the living.                             *)
(***************************************************************************)
EXTENDS EngineProofs, WellFoundedInduction, FiniteSetTheorems

-----------------------------------------------------------------------------
(* A queue in which somebody waits has a next speaker *)

LEMMA LeastNumber ==
  ASSUME NEW T, T \subseteq Nat, T # {}
  PROVE  \E x \in T : \A y \in T : x <= y
<1> DEFINE R == {ss \in Nat \X Nat : ss[1] < ss[2]}
<1>1. IsWellFoundedOn(R, Nat)
  BY NatLessThanWellFounded DEF OpToRel
<1>2. PICK x \in T : \A y \in T : ~(<<y, x>> \in R)
  BY <1>1, WFMin
<1>3. ASSUME NEW y \in T
      PROVE  x <= y
  <2>1. x \in Nat /\ y \in Nat
    OBVIOUS
  <2>2. ~(y < x)
    BY <1>2, <2>1
  <2> QED
    BY <2>1, <2>2
<1> QED
  BY <1>3

LEMMA SomebodySpeaks ==
  ASSUME NEW queue \in Queues, queue.who # {}
  PROVE  NextSpeaker(queue) # {}
<1> DEFINE T == {Distance(queue, s) : s \in queue.who}
<1>1. N \in Nat /\ N # 0
  BY BoardAssumption DEF Seats, Goods
<1>2. queue.from \in Int /\ queue.who \subseteq Seats /\ queue.clockwise \in BOOLEAN
  BY DEF Queues
<1>3. ASSUME NEW s \in queue.who
      PROVE  Distance(queue, s) \in Nat
  <2>1. s \in Int
    BY <1>2, SeatFacts
  <2> QED
    BY <1>1, <1>2, <2>1 DEF Distance
<1>4. T \subseteq Nat /\ T # {}
  BY <1>3
<1>5. PICK least \in T : \A d \in T : least <= d
  BY <1>4, LeastNumber
<1>6. PICK s \in queue.who : least = Distance(queue, s)
  BY <1>5
<1>7. s \in NextSpeaker(queue)
  BY <1>5, <1>6 DEF NextSpeaker
<1> QED
  BY <1>7

\* The day begins with everybody in the queue.
LEMMA SpeechOrderWho ==
  ASSUME NEW n, NEW queue \in SpeechOrder(n)
  PROVE  queue.who = alive'
  BY DEF SpeechOrder, AfterLastDeath, ChiefsOrder, ClockOrder, Ascending, Descending, Queue

-----------------------------------------------------------------------------
(* The invariant *)

DawnTokens == {"night_after_hunter", "day_speech", "badge_only:day_speech"}
LastWordsTokens == {"day_speech", "after_day"} \cup BadgeWindowTokens

\* Where an interrupted game goes on, whose shot it waits for, that it does not
\* hear the last words of a decided game, and when a day may have been cut short.
PathInv ==
  /\ phase # "GAME_OVER" => winner = "none"
  /\ phase # "HUNTER_SHOOT" => pending_hunter = None
  /\ phase = "HUNTER_SHOOT" => resume_token \in {"night_after_hunter", "day_after_hunter"}
  /\ phase = "LAST_WORDS" => resume_token \in LastWordsTokens
  /\ phase = "EXILE" => resume_token = "none"
  /\ phase = "LAST_WORDS" /\ resume_token \in DawnTokens => CheckWin(alive) = "none"
  /\ Stage \in {"night", "election", "day", "dusk"} => ~night.skip_day

\* Knife and poison are aimed at the living, and the dead that an election
\* keeps waiting are those of the night.
AimInv ==
  /\ phase \in NightPhases =>
        /\ night.wolf_target \in alive \cup {None}
        /\ night.witch_poison_target \in alive \cup {None}
        /\ \A w \in Seats : wolf_proposals[w] \in alive \cup {None, NotYet}
  /\ phase \in ElectionPhases => night.deaths = ResolveNight(night)

BallotInv == BallotsLegal /\ (phase = "VOTE" => vote_candidates = {})

PlayInv == PathInv /\ AimInv /\ BallotInv

GameInv == Inv /\ PlayInv

\* The phases in which nothing but where the game goes on is at stake.
Plain(p) == p \notin NightPhases \cup ElectionPhases \cup {"VOTE", "VOTE_PK"}

LEMMA PlainPhases ==
  /\ \A p \in {"LAST_WORDS", "DAY_SPEECH", "EXILE", "HUNTER_SHOOT", "GAME_OVER"} : Plain(p)
  /\ NightPhases \cap ElectionPhases = {}
  /\ {"VOTE", "VOTE_PK", "LAST_WORDS", "DAY_SPEECH", "EXILE", "HUNTER_SHOOT", "GAME_OVER"}
         \cap (NightPhases \cup ElectionPhases) = {}
  BY DEF Plain, NightPhases, ElectionPhases

LEMMA PlainAims ==
  ASSUME Plain(phase')
  PROVE  AimInv' /\ BallotInv'
  BY DEF Plain, AimInv, BallotInv, BallotsLegal, InElection, ElectionPhases

LEMMA StageOf ==
  /\ phase \in NightPhases => Stage = "night"
  /\ phase \in ElectionPhases => Stage = "election"
  /\ phase \in {"DAY_SPEECH", "VOTE", "VOTE_PK"} => Stage = "day"
  /\ phase = "GAME_OVER" => Stage = "over"
  /\ phase \in {"HUNTER_SHOOT", "LAST_WORDS", "EXILE"} =>
        Stage = IF resume_token \in DawnTokens THEN "dawn" ELSE "dusk"
  BY PlainPhases DEF Stage, DawnTokens

LEMMA StageAfter ==
  /\ phase' \in NightPhases => Stage' = "night"
  /\ phase' \in ElectionPhases => Stage' = "election"
  /\ phase' \in {"DAY_SPEECH", "VOTE", "VOTE_PK"} => Stage' = "day"
  /\ phase' = "GAME_OVER" => Stage' = "over"
  /\ phase' \in {"HUNTER_SHOOT", "LAST_WORDS", "EXILE"} =>
        Stage' = IF resume_token' \in DawnTokens THEN "dawn" ELSE "dusk"
  BY PlainPhases DEF Stage, DawnTokens

-----------------------------------------------------------------------------
(* Where the end of a step leaves it *)

LEMMA GameOverPlay ==
  ASSUME NEW w, NEW n, GameOver(w, n), pending_hunter' = None
  PROVE  PlayInv'
<1>1. phase' = "GAME_OVER"
  BY DEF GameOver
<1> QED
  BY <1>1, PlainPhases, PlainAims, StageAfter DEF PlayInv, PathInv

LEMMA BeginNightPlay ==
  ASSUME BeginNight, winner = "none", pending_hunter' = None
  PROVE  PlayInv'
<1>1. phase' \in NightPhases /\ winner' = "none"
  BY NightOrderType DEF BeginNight, EnterPhase
<1>2. phase' \notin ElectionPhases
        \cup {"VOTE", "VOTE_PK", "LAST_WORDS", "EXILE", "HUNTER_SHOOT"}
  BY <1>1, PlainPhases
<1>3. night' = NoNight /\ wolf_proposals' = NoBallots
  BY DEF BeginNight, FreshHunt
<1>4. AimInv'
  BY <1>2, <1>3 DEF AimInv, NoNight, NoBallots
<1>5. BallotInv'
  BY <1>2 DEF BallotInv, BallotsLegal, InElection, ElectionPhases
<1> QED
  BY <1>1, <1>2, <1>3, <1>4, <1>5 DEF PlayInv, PathInv, NoNight

LEMMA AfterDayDeathPlay ==
  ASSUME NEW n, AfterDayDeath(n), winner = "none", pending_hunter' = None
  PROVE  PlayInv'
  BY GameOverPlay, BeginNightPlay DEF AfterDayDeath

LEMMA EnterPlainPlay ==
  ASSUME NEW p, NEW token, NEW queue, EnterPhase(p, token, queue), winner = "none",
         p \in {"LAST_WORDS", "DAY_SPEECH", "HUNTER_SHOOT"},
         p = "LAST_WORDS" => token \in LastWordsTokens,
         p = "HUNTER_SHOOT" => token \in {"night_after_hunter", "day_after_hunter"},
         p = "HUNTER_SHOOT" \/ pending_hunter' = None,
         (p # "DAY_SPEECH" /\ token \in DawnTokens) \/ ~night'.skip_day,
         p = "LAST_WORDS" /\ token \in DawnTokens => CheckWin(alive') = "none"
  PROVE  PlayInv'
<1>1. phase' = p /\ resume_token' = token /\ winner' = winner
  BY DEF EnterPhase
<1>2. Stage' \in {"night", "election", "day", "dusk"} => ~night'.skip_day
  BY <1>1, StageAfter
<1> QED
  BY <1>1, <1>2, PlainPhases, PlainAims DEF PlayInv, PathInv

LEMMA EnterDaySpeechPlay ==
  ASSUME NEW n, EnterDaySpeech(n), winner = "none", pending_hunter' = None
  PROVE  PlayInv'
<1>1. CASE n.skip_day
  BY <1>1, AfterDayDeathPlay DEF EnterDaySpeech
<1>2. CASE ~n.skip_day
  <2>1. PICK queue \in SpeechOrder(n) : EnterPhase("DAY_SPEECH", "none", queue)
    BY <1>2 DEF EnterDaySpeech
  <2>2. ~night'.skip_day
    BY <1>2 DEF EnterDaySpeech, SameRound
  <2> QED
    BY <2>1, <2>2, EnterPlainPlay
<1> QED
  BY <1>1, <1>2

LEMMA FinishNightPlay ==
  ASSUME NEW b, NEW n, FinishNightDeaths(b, n), winner = "none", pending_hunter' = None,
         CheckWin(alive') = "none"
  PROVE  PlayInv'
<1> DEFINE recipients == NightLastWords(n.deaths)
<1>1. CASE OpenBadgeWindow("badge_only:day_speech")
  BY <1>1, EnterPlainPlay DEF OpenBadgeWindow, DawnTokens, LastWordsTokens, BadgeWindowTokens
<1>2. CASE EnterPhase("LAST_WORDS", "day_speech", Ascending(recipients))
  BY <1>2, EnterPlainPlay DEF DawnTokens, LastWordsTokens
<1>3. CASE EnterDaySpeech(n)
  BY <1>3, EnterDaySpeechPlay
<1> QED
  BY <1>1, <1>2, <1>3 DEF FinishNightDeaths, LastWordsOf

LEMMA DayLastWordsPlay ==
  ASSUME EnterDayLastWords, winner = "none", pending_hunter' = None, ~night.skip_day
  PROVE  PlayInv'
<1>1. CASE OpenBadgeWindow("badge_only:after_day") /\ SameRound(night)
  BY <1>1, EnterPlainPlay
     DEF OpenBadgeWindow, SameRound, DawnTokens, LastWordsTokens, BadgeWindowTokens
<1>2. CASE EnterPhase("LAST_WORDS", "after_day", Ascending({day_exiled} \ {None}))
           /\ SameRound(night)
  BY <1>2, EnterPlainPlay DEF SameRound, DawnTokens, LastWordsTokens
<1>3. CASE AfterDayDeath(night)
  BY <1>3, AfterDayDeathPlay
<1> QED
  BY <1>1, <1>2, <1>3 DEF EnterDayLastWords

LEMMA AnnouncePlay ==
  ASSUME NEW living, NEW b, NEW n, AnnounceAndContinueNight(living, b, n),
         winner = "none", pending_hunter = None
  PROVE  PlayInv'
<1>1. CASE GameOver(CheckWin(alive'), n) /\ UNCHANGED pending_hunter
  BY <1>1, GameOverPlay
<1>2. CASE EnterPhase("HUNTER_SHOOT", "night_after_hunter", speech)
  BY <1>2, EnterPlainPlay DEF DawnTokens
<1>3. CASE FinishNightDeaths(b, n) /\ UNCHANGED pending_hunter /\ CheckWin(alive') = "none"
  BY <1>3, FinishNightPlay
<1> QED
  BY <1>1, <1>2, <1>3 DEF AnnounceAndContinueNight

\* Where the engine moves on by itself, the queue is empty.
LEMMA QueueEmpty ==
  ASSUME GameInv, SystemTurn, phase \in {"DAY_SPEECH", "LAST_WORDS"}
  PROVE  speech.who = {}
<1>1. speech \in Queues
  BY DEF GameInv, Inv, TypeInv, TypeOK, ControlTypeOK
<1>2. NextSpeaker(speech) = {}
  BY PlainPhases DEF SystemTurn, ExpectedActors
<1> QED
  BY <1>1, <1>2, SomebodySpeaks

-----------------------------------------------------------------------------
(* What is left alone *)

LEMMA PathFrame ==
  ASSUME PathInv, UNCHANGED <<phase, resume_token, winner>>,
         night'.skip_day = night.skip_day, pending_hunter' \in {pending_hunter, None},
         phase = "HUNTER_SHOOT" \/ UNCHANGED alive
  PROVE  PathInv'
  BY DEF PathInv, Stage

LEMMA AimFrame ==
  ASSUME AimInv, UNCHANGED <<phase, alive, night, wolf_proposals>>
  PROVE  AimInv'
  BY DEF AimInv

LEMMA BallotFrame ==
  ASSUME BallotInv, UNCHANGED <<phase, alive, revealed, voteVars, election_stage, campaignVars>>
  PROVE  BallotInv'
  BY DEF BallotInv, BallotsLegal, InElection, voteVars, campaignVars

-----------------------------------------------------------------------------
(* The night *)

LEMMA NightPhaseFacts ==
  ASSUME GameInv, phase \in NightPhases
  PROVE  /\ winner = "none" /\ pending_hunter = None /\ night.skip_day = FALSE
         /\ night.wolf_target \in alive \cup {None}
         /\ night.witch_poison_target \in alive \cup {None}
         /\ \A w \in Seats : wolf_proposals[w] \in alive \cup {None, NotYet}
         /\ Stage = "night"
<1>1. phase # "GAME_OVER" /\ phase # "HUNTER_SHOOT"
  BY DEF NightPhases
<1>2. night.skip_day \in BOOLEAN
  BY DEF GameInv, Inv, TypeInv, TypeOK, Nights
<1> QED
  BY <1>1, <1>2, StageOf DEF GameInv, PlayInv, PathInv, AimInv

LEMMA NightActionPlay ==
  ASSUME GameInv, NightAction
  PROVE  PlayInv'
<1>1. NightActionFrame
  BY DEF NightAction, Skip, Guard, Propose, Save, Poison, Check
<1>2. phase \in NightPhases
  BY DEF NightAction, Skip, Guard, Propose, Save, Poison, Check, CanSkip, CanGuard, CanPropose,
         CanSave, CanPoison, CanCheck, NightPhases
<1>3. UNCHANGED <<phase, resume_token, winner, alive, revealed, pending_hunter, voteVars,
                  election_stage, campaignVars>>
  BY <1>1 DEF NightActionFrame, controlVars
<1>4. night \in Nights /\ wolf_proposals \in Ballots
  BY DEF GameInv, Inv, TypeInv, TypeOK, HuntTypeOK
<1>5. night'.skip_day = night.skip_day /\ night'.wolf_target = night.wolf_target
  BY <1>4 DEF Nights, NightAction, Skip, Guard, Propose, Save, Poison, Check
<1>6. night'.witch_poison_target \in alive \cup {None}
  BY <1>2, <1>4, NightPhaseFacts
     DEF Nights, NightAction, Skip, Guard, Propose, Save, Poison, CanPoison, Check
<1>7. \A w \in Seats : wolf_proposals'[w] \in alive \cup {None, NotYet}
  <2>1. \A w \in Seats : wolf_proposals[w] \in alive \cup {None, NotYet}
    BY <1>2, NightPhaseFacts
  <2>2. ASSUME NEW s \in Seats, NEW t \in Aim["kill"] \cup {None}, Propose(s, t)
        PROVE  \A w \in Seats : wolf_proposals'[w] \in alive \cup {None, NotYet}
    BY <1>4, <2>1, <2>2 DEF Propose, CanPropose, Ballots
  <2> QED
    BY <2>1, <2>2 DEF NightAction, Skip, Guard, Save, Poison, Check
<1>8. PathInv' /\ BallotInv'
  BY <1>3, <1>5, PathFrame, BallotFrame DEF GameInv, PlayInv
<1>9. AimInv'
  <2>1. phase' \notin ElectionPhases
    BY <1>2, <1>3, PlainPhases
  <2>2. night'.wolf_target \in alive \cup {None}
    BY <1>2, <1>5, NightPhaseFacts
  <2> QED
    BY <1>3, <1>6, <1>7, <2>1, <2>2 DEF AimInv
<1> QED
  BY <1>8, <1>9 DEF PlayInv

\* Who dies in a night does not depend on the record of who died.
LEMMA ResolveFrame ==
  ASSUME NEW n \in Nights, NEW deaths
  PROVE  ResolveNight([n EXCEPT !.deaths = deaths]) = ResolveNight(n)
  BY DEF ResolveNight, Nights

LEMMA ConsensusAlive ==
  ASSUME NEW proposals, \A w \in Seats : proposals[w] \in alive \cup {None, NotYet},
         NEW t \in WolfConsensus(proposals)
  PROVE  t \in alive \cup {None}
<1>1. NotYet \notin Seats /\ None \notin Seats
  BY BoardAssumption DEF SeatOrNone
<1>2. t = None \/ \E w \in Seats : t \in Seats /\ proposals[w] = t
  BY DEF WolfConsensus
<1> QED
  BY <1>1, <1>2

\* A night record as it leaves a phase of the night.
NightRecord(n) ==
  /\ n \in Nights /\ ~n.skip_day
  /\ n.wolf_target \in alive \cup {None}
  /\ n.witch_poison_target = night.witch_poison_target

LEMMA ResolveNightPlay ==
  ASSUME GameInv, phase \in NightPhases, NEW n, NightRecord(n), ResolveNightAndContinue(n)
  PROVE  PlayInv'
<1> DEFINE resolved == [n EXCEPT !.deaths = ResolveNight(n)]
<1>1. winner = "none" /\ pending_hunter = None
  BY NightPhaseFacts
<1>2. CASE GameOver(CheckWin(alive'), resolved) /\ UNCHANGED pending_hunter
  BY <1>1, <1>2, GameOverPlay
<1>3. CASE /\ EnterPhase("SHERIFF_ELECTION", "none", speech)
           /\ election_stage' = "candidacy"
           /\ SameRound(resolved)
           /\ UNCHANGED pending_hunter
  <2>1. phase' = "SHERIFF_ELECTION" /\ winner' = "none" /\ night' = resolved
    BY <1>1, <1>3 DEF EnterPhase, SameRound
  <2>2. phase' \in ElectionPhases /\ phase' \notin NightPhases
    BY <2>1 DEF ElectionPhases, NightPhases
  <2>3. night'.deaths = ResolveNight(night') /\ ~night'.skip_day
    BY <2>1, ResolveFrame DEF NightRecord, Nights
  <2> QED
    BY <1>1, <1>3, <2>1, <2>2, <2>3
       DEF PlayInv, PathInv, AimInv, BallotInv, BallotsLegal, InElection
<1>4. CASE AnnounceAndContinueNight(alive, badge, resolved)
  BY <1>1, <1>4, AnnouncePlay
<1> QED
  BY <1>2, <1>3, <1>4 DEF ResolveNightAndContinue

LEMMA LeaveNightPhasePlay ==
  ASSUME GameInv, phase \in NightPhases, NEW n, NightRecord(n), LeaveNightPhase(n)
  PROVE  PlayInv'
<1> DEFINE order == config.night_order
           i == CHOOSE j \in DOMAIN order : order[j] = phase
<1>1. i \in DOMAIN order
  BY DEF GameInv, Inv, TypeInv, Scheduled
<1>2. CASE i < Len(order)
  <2>1. order[i + 1] \in NightPhases
    <3>1. i + 1 \in DOMAIN order
      BY <1>1, <1>2, RulesAssumption
    <3> QED
      BY <3>1, NightOrderType
  <2>2. phase' \in NightPhases /\ UNCHANGED <<winner, alive, pending_hunter, wolf_proposals>>
    BY <1>2, <2>1 DEF LeaveNightPhase, EnterPhase, SameRound, huntVars
  <2>3. night' = n
    BY <1>2 DEF LeaveNightPhase, SameRound
  <2>4. phase' \notin ElectionPhases \cup {"VOTE", "VOTE_PK", "LAST_WORDS", "EXILE",
                                          "HUNTER_SHOOT", "GAME_OVER"}
    BY <2>2, PlainPhases
  <2>5. PathInv'
    BY <2>2, <2>3, <2>4, NightPhaseFacts DEF PathInv, NightRecord
  <2>6. AimInv'
    BY <2>2, <2>3, <2>4, NightPhaseFacts DEF AimInv, NightRecord
  <2>7. BallotInv'
    BY <2>4 DEF BallotInv, BallotsLegal, InElection, ElectionPhases
  <2> QED
    BY <2>5, <2>6, <2>7 DEF PlayInv
<1>3. CASE ~(i < Len(order))
  BY <1>3, ResolveNightPlay DEF LeaveNightPhase
<1> QED
  BY <1>2, <1>3

LEMMA NightRecords ==
  ASSUME GameInv, phase \in NightPhases
  PROVE  /\ NightRecord(night)
         /\ \A t \in WolfConsensus(wolf_proposals) :
               NightRecord([night EXCEPT !.wolf_target = t])
<1>1. night \in Nights
  BY DEF GameInv, Inv, TypeInv, TypeOK
<1>2. NightRecord(night)
  BY <1>1, NightPhaseFacts DEF NightRecord
<1>3. ASSUME NEW t \in WolfConsensus(wolf_proposals)
      PROVE  NightRecord([night EXCEPT !.wolf_target = t])
  <2>1. t \in alive \cup {None} /\ t \in SeatOrNone
    BY ConsensusAlive, ConsensusType, NightPhaseFacts
  <2> QED
    BY <1>1, <1>2, <2>1 DEF NightRecord, Nights
<1> QED
  BY <1>2, <1>3

LEMMA NightStepPlay ==
  ASSUME GameInv, WolfRevote \/ WolfKillDecided \/ NightPhaseOver
  PROVE  PlayInv'
<1>1. phase \in NightPhases
  BY DEF WolfRevote, WolfKillDecided, NightPhaseOver, NightPhases
<1>2. CASE WolfRevote
  <2>1. UNCHANGED <<phase, resume_token, winner, alive, revealed, pending_hunter, night,
                    voteVars, election_stage, campaignVars>> /\ wolf_proposals' = NoBallots
    BY <1>2 DEF WolfRevote, controlVars, powerVars
  <2>2. PathInv' /\ BallotInv'
    BY <2>1, PathFrame, BallotFrame DEF GameInv, PlayInv
  <2>3. AimInv'
    BY <1>1, <2>1, PlainPhases, NightPhaseFacts DEF AimInv, NoBallots
  <2> QED
    BY <2>2, <2>3 DEF PlayInv
<1>3. CASE WolfKillDecided
  BY <1>1, <1>3, NightRecords, LeaveNightPhasePlay DEF WolfKillDecided
<1>4. CASE NightPhaseOver
  BY <1>1, <1>4, NightRecords, LeaveNightPhasePlay DEF NightPhaseOver
<1> QED
  BY <1>2, <1>3, <1>4

-----------------------------------------------------------------------------
(* The day *)

LEMMA ElectionFacts ==
  ASSUME GameInv, phase \in ElectionPhases
  PROVE  /\ winner = "none" /\ pending_hunter = None /\ night.skip_day = FALSE
         /\ alive = Seats
         /\ night.deaths = ResolveNight(night)
         /\ Stage = "election"
<1>1. phase # "GAME_OVER" /\ phase # "HUNTER_SHOOT"
  BY DEF ElectionPhases
<1>2. night.skip_day \in BOOLEAN
  BY DEF GameInv, Inv, TypeInv, TypeOK, Nights
<1> QED
  BY <1>1, <1>2, StageOf DEF GameInv, Inv, TableInv, PlayInv, PathInv, AimInv

LEMMA DayFacts ==
  ASSUME GameInv, phase \in {"DAY_SPEECH", "VOTE", "VOTE_PK"}
  PROVE  winner = "none" /\ pending_hunter = None /\ night.skip_day = FALSE /\ Stage = "day"
<1>1. night.skip_day \in BOOLEAN
  BY DEF GameInv, Inv, TypeInv, TypeOK, Nights
<1> QED
  BY <1>1, StageOf DEF GameInv, PlayInv, PathInv

LEMMA SelfDestructPlay ==
  ASSUME GameInv, NEW s \in Seats, SelfDestruct(s)
  PROVE  PlayInv'
<1>1. phase = "DAY_SPEECH" \/ phase \in ElectionPhases
  BY DEF SelfDestruct, CanSelfDestruct
<1>2. CASE phase = "DAY_SPEECH"
  <2>1. AfterDayDeath(night) /\ UNCHANGED pending_hunter
    BY <1>2 DEF SelfDestruct
  <2> QED
    BY <1>2, <2>1, DayFacts, AfterDayDeathPlay
<1>3. CASE phase \in ElectionPhases
  <2>1. phase # "DAY_SPEECH"
    BY <1>3, PlainPhases
  <2>2. \E living, b : AnnounceAndContinueNight(living, b, [night EXCEPT !.skip_day = TRUE])
    BY <2>1 DEF SelfDestruct
  <2> QED
    BY <1>3, <2>2, ElectionFacts, AnnouncePlay
<1> QED
  BY <1>1, <1>2, <1>3

LEMMA CastVotePlay ==
  ASSUME GameInv, NEW s \in Seats, NEW t, CastVote(s, t)
  PROVE  PlayInv'
<1>1. UNCHANGED <<phase, resume_token, winner, alive, revealed, pending_hunter, night,
                  wolf_proposals, vote_candidates, sheriff_votes, election_stage>>
  BY DEF CastVote, controlVars, powerVars, huntVars, campaignVars
<1>2. phase \in {"VOTE", "VOTE_PK"} /\ s \in ExpectedActors /\ ~PkSpeaking
  BY DEF CastVote, CanCastVote, OnTurn
<1>3. phase \notin NightPhases \cup ElectionPhases
  BY <1>2, PlainPhases
<1>4. s \in alive \ (revealed \cup vote_candidates)
  BY <1>2, <1>3 DEF ExpectedActors, CanVote, PkSpeaking, GameInv, PlayInv, BallotInv
<1>5. t \in alive \cup {None} /\ (vote_candidates # {} => t \in vote_candidates \cup {None})
  BY DEF CastVote, CanCastVote
<1>6. votes \in Ballots /\ votes' = [votes EXCEPT ![s] = t]
  BY DEF CastVote, GameInv, Inv, TypeInv, TypeOK, VoteTypeOK
<1>7. ASSUME NEW v \in Seats, votes'[v] # NotYet
      PROVE  /\ v \in alive \ (revealed \cup vote_candidates)
             /\ votes'[v] \in alive \cup {None}
             /\ vote_candidates # {} => votes'[v] \in vote_candidates \cup {None}
  <2>1. CASE v = s
    BY <1>4, <1>5, <1>6, <2>1 DEF Ballots
  <2>2. CASE v # s
    <3>1. votes'[v] = votes[v]
      BY <1>6, <2>2 DEF Ballots
    <3> QED
      BY <1>2, <1>7, <3>1 DEF GameInv, PlayInv, BallotInv, BallotsLegal
  <2> QED
    BY <2>1, <2>2
<1>8. BallotInv'
  <2>1. ~(InElection("vote") \/ phase = "SHERIFF_PK")'
    BY <1>1, <1>3 DEF InElection, ElectionPhases
  <2> QED
    BY <1>1, <1>7, <2>1 DEF BallotInv, BallotsLegal, GameInv, PlayInv
<1>9. PathInv' /\ AimInv'
  BY <1>1, PathFrame, AimFrame DEF GameInv, PlayInv
<1> QED
  BY <1>8, <1>9 DEF PlayInv

LEMMA DayActionPlay ==
  ASSUME GameInv, DayAction
  PROVE  PlayInv'
<1>1. PICK s \in Seats :
        \/ Speak(s)
        \/ SelfDestruct(s)
        \/ \E t \in Aim["vote"] \cup {None} : CastVote(s, t)
        \/ \E t \in Aim["shoot"] \cup {None} : Shoot(s, t)
        \/ \E t \in Aim["badge"] \cup {None} : PassBadge(s, t)
  BY DEF DayAction
<1>2. ASSUME Speak(s) \/ \E t : PassBadge(s, t)
      PROVE  PlayInv'
  <2>1. UNCHANGED <<phase, resume_token, winner, alive, revealed, pending_hunter, night,
                    wolf_proposals, voteVars, election_stage, campaignVars>>
    BY <1>2 DEF Speak, PassBadge, powerVars, huntVars
  <2> QED
    BY <2>1, PathFrame, AimFrame, BallotFrame DEF GameInv, PlayInv
<1>3. ASSUME NEW t, Shoot(s, t)
      PROVE  PlayInv'
  <2>1. /\ UNCHANGED <<phase, resume_token, winner, night>>
        /\ pending_hunter' = None
        /\ phase = "HUNTER_SHOOT"
    BY <1>3 DEF Shoot, CanShoot, controlVars
  <2>2. Plain(phase')
    BY <2>1, PlainPhases
  <2> QED
    BY <2>1, <2>2, PathFrame, PlainAims DEF GameInv, PlayInv
<1> QED
  BY <1>1, <1>2, <1>3, SelfDestructPlay, CastVotePlay

\* Who leads the count was voted for, and is alive.
LEMMA TiedAlive ==
  ASSUME GameInv, VoteOver
  PROVE  Tied \subseteq alive /\ Exiles \subseteq Tied
<1>1. phase \in {"VOTE", "VOTE_PK"}
  BY DEF VoteOver
<1>2. ASSUME NEW s \in Tied
      PROVE  s \in alive
  <2>1. s \in Seats /\ VotersFor(votes, s) # {}
    BY <1>2 DEF Tied, Leaders
  <2>2. PICK v \in Seats : votes[v] = s
    BY <2>1 DEF VotersFor
  <2>3. s # NotYet /\ s # None
    BY <2>1, BoardAssumption DEF SeatOrNone
  <2> QED
    BY <1>1, <2>2, <2>3 DEF GameInv, PlayInv, BallotInv, BallotsLegal
<1> QED
  BY <1>2 DEF Exiles

LEMMA VoteStepPlay ==
  ASSUME GameInv, \/ OpenVote \/ StartRunoff \/ NobodyExiled
                  \/ \E s \in Seats : FlipIdiot(s) \/ Exile(s)
  PROVE  PlayInv'
<1>1. phase \in {"DAY_SPEECH", "VOTE", "VOTE_PK"}
  BY DEF OpenVote, StartRunoff, NobodyExiled, FlipIdiot, Exile, VoteOver
<1>2. winner = "none" /\ pending_hunter = None /\ ~night.skip_day
  BY <1>1, DayFacts
<1>3. ASSUME NEW p \in {"VOTE", "VOTE_PK"}, EnterPhase(p, "none", speech)
                  \/ EnterPhase(p, "none", Ascending(Tied)),
             votes' = NoBallots, p = "VOTE" => vote_candidates' = {},
             UNCHANGED <<night, pending_hunter>>
      PROVE  PlayInv'
  <2>1. phase' = p /\ winner' = winner
    BY <1>3 DEF EnterPhase
  <2>2. phase' \notin NightPhases \cup ElectionPhases
    BY <2>1, PlainPhases
  <2>3. BallotInv'
    BY <1>3, <2>1, <2>2
       DEF BallotInv, BallotsLegal, InElection, ElectionPhases, NoBallots
  <2> QED
    BY <1>2, <1>3, <2>1, <2>2, <2>3 DEF PlayInv, PathInv, AimInv
<1>4. CASE OpenVote
  BY <1>3, <1>4 DEF OpenVote, VoteStarted
<1>5. CASE StartRunoff
  BY <1>3, <1>5 DEF StartRunoff, VoteStarted
<1>6. CASE NobodyExiled
  BY <1>2, <1>6, AfterDayDeathPlay DEF NobodyExiled
<1>7. ASSUME NEW s \in Seats, FlipIdiot(s)
      PROVE  PlayInv'
  BY <1>2, <1>7, AfterDayDeathPlay DEF FlipIdiot
<1>8. ASSUME NEW s \in Seats, Exile(s)
      PROVE  PlayInv'
  <2>1. /\ phase' = "EXILE" /\ resume_token' = "none" /\ winner' = winner
        /\ night' = night /\ UNCHANGED pending_hunter
    BY <1>8 DEF Exile, EnterPhase, SameRound
  <2> QED
    BY <1>2, <2>1, PlainPhases, PlainAims DEF PlayInv, PathInv
<1> QED
  BY <1>4, <1>5, <1>6, <1>7, <1>8

\* Once the hunter has shot, or declined, the game waits for it no longer.
LEMMA ShotFired ==
  ASSUME AfterHunterShot
  PROVE  pending_hunter = None
<1>1. phase = "HUNTER_SHOOT" /\ ExpectedActors = {}
  BY DEF AfterHunterShot, SystemTurn
<1>2. phase \notin NightPhases
  BY <1>1, PlainPhases
<1> QED
  BY <1>1, <1>2 DEF ExpectedActors

LEMMA AfterDeathPlay ==
  ASSUME GameInv, AfterExile \/ AfterHunterShot \/ AfterLastWords
  PROVE  PlayInv'
<1>1. phase \in {"EXILE", "HUNTER_SHOOT", "LAST_WORDS"}
  BY DEF AfterExile, AfterHunterShot, AfterLastWords
<1>2. PathInv /\ winner = "none"
  BY <1>1 DEF GameInv, PlayInv, PathInv
<1>3. resume_token \notin DawnTokens => ~night.skip_day
  BY <1>1, <1>2, StageOf DEF PathInv
<1>4. CASE AfterExile
  <2>1. ~night.skip_day /\ pending_hunter = None
    BY <1>2, <1>3, <1>4 DEF AfterExile, PathInv, DawnTokens
  <2>2. CASE EnterPhase("HUNTER_SHOOT", "day_after_hunter", speech) /\ SameRound(night)
    BY <1>2, <2>1, <2>2, EnterPlainPlay DEF SameRound
  <2>3. CASE EnterDayLastWords /\ UNCHANGED pending_hunter
    BY <1>2, <2>1, <2>3, DayLastWordsPlay
  <2> QED
    BY <1>4, <2>2, <2>3 DEF AfterExile
<1>5. CASE AfterHunterShot
  <2>1. pending_hunter' = None
    BY <1>5, ShotFired DEF AfterHunterShot
  <2>2. CASE GameOver(CheckWin(alive), night)
    BY <2>1, <2>2, GameOverPlay
  <2>3. CASE FinishNightDeaths(badge, night) /\ CheckWin(alive) = "none"
    BY <1>2, <1>5, <2>1, <2>3, FinishNightPlay DEF AfterHunterShot
  <2>4. CASE EnterDayLastWords /\ resume_token # "night_after_hunter"
    <3>1. ~night.skip_day
      BY <1>2, <1>3, <1>5, <2>4 DEF AfterHunterShot, PathInv, DawnTokens
    <3> QED
      BY <1>2, <2>1, <2>4, <3>1, DayLastWordsPlay
  <2> QED
    BY <1>5, <2>2, <2>3, <2>4 DEF AfterHunterShot
<1>6. CASE AfterLastWords
  <2> DEFINE to_day == resume_token \in {"day_speech", "badge_only:day_speech"}
  <2>1. pending_hunter' = None /\ phase = "LAST_WORDS"
    BY <1>2, <1>6 DEF AfterLastWords, PathInv
  <2>2. to_day \/ ~night.skip_day
    BY <1>2, <1>3, <2>1 DEF PathInv, LastWordsTokens, BadgeWindowTokens, DawnTokens
  <2>3. CASE /\ OpenBadgeWindow(IF to_day THEN "badge_only:day_speech"
                                ELSE "badge_only:after_day")
             /\ SameRound(night)
    <3>1. CASE to_day
      BY <1>2, <1>6, <2>1, <2>3, <3>1, EnterPlainPlay
         DEF AfterLastWords, PathInv, OpenBadgeWindow, DawnTokens, LastWordsTokens, BadgeWindowTokens
    <3>2. CASE ~to_day
      BY <1>2, <2>1, <2>2, <2>3, <3>2, EnterPlainPlay
         DEF OpenBadgeWindow, SameRound, DawnTokens, LastWordsTokens, BadgeWindowTokens
    <3> QED
      BY <3>1, <3>2
  <2>4. CASE EnterDaySpeech(night)
    BY <1>2, <2>1, <2>4, EnterDaySpeechPlay
  <2>5. CASE AfterDayDeath(night)
    BY <1>2, <2>1, <2>5, AfterDayDeathPlay
  <2> QED
    BY <1>6, <2>3, <2>4, <2>5 DEF AfterLastWords
<1> QED
  BY <1>4, <1>5, <1>6

-----------------------------------------------------------------------------
(* The election *)

\* A step from election to election that leaves night and hunter alone.
LEMMA StillElectingPlay ==
  ASSUME GameInv, phase \in ElectionPhases, phase' \in ElectionPhases,
         UNCHANGED <<winner, night, pending_hunter>>
  PROVE  PathInv' /\ AimInv'
<1>1. phase' \notin NightPhases \cup {"LAST_WORDS", "EXILE", "HUNTER_SHOOT", "GAME_OVER"}
  BY PlainPhases
<1> QED
  BY <1>1, ElectionFacts DEF PathInv, AimInv, ResolveNight

LEMMA NoBallotOpen ==
  ASSUME phase' \in ElectionPhases,
         phase' = "SHERIFF_ELECTION" => election_stage' # "vote",
         phase' = "SHERIFF_PK" => sheriff_votes' = NoBallots
  PROVE  BallotInv'
<1>1. phase' \notin {"VOTE", "VOTE_PK"}
  BY PlainPhases
<1> QED
  BY <1>1 DEF BallotInv, BallotsLegal, InElection, NoBallots

LEMMA VoteSheriffPlay ==
  ASSUME GameInv, NEW s \in Seats, NEW t \in Seats, VoteSheriff(s, t)
  PROVE  BallotInv'
<1>1. UNCHANGED <<phase, alive, revealed, election_stage, sheriff_candidates,
                  sheriff_withdrawn, sheriff_pk_bystanders>>
  BY DEF VoteSheriff, ElectionFrame, controlVars, powerVars
<1>2. /\ phase = "SHERIFF_PK" \/ InElection("vote")
      /\ s \in ExpectedActors /\ ~SpeechQueuePending
      /\ s \notin sheriff_withdrawn \cup SheriffPkBarred
      /\ t \in sheriff_candidates
  BY DEF VoteSheriff, CanVoteSheriff, OnTurn
<1>3. phase \in ElectionPhases /\ phase \notin NightPhases \cup {"VOTE", "VOTE_PK"}
  BY <1>2, PlainPhases DEF InElection, ElectionPhases
<1>4. s \in SheriffElectorate
  <2>1. CASE phase = "SHERIFF_PK"
    BY <1>2, <1>3, <2>1
       DEF ExpectedActors, SpeechQueuePending, PkSpeaking, SheriffPkElectorate
  <2>2. CASE InElection("vote")
    BY <1>2, <1>3, <2>2 DEF ExpectedActors, ElectionActors, InElection
  <2> QED
    BY <1>2, <2>1, <2>2
<1>5. /\ s \in alive \ (revealed \cup sheriff_candidates \cup sheriff_withdrawn)
      /\ config.pk_voters = "NON_CANDIDATES_ONLY" => s \notin sheriff_pk_bystanders
      /\ t \in sheriff_candidates \cap alive
  <2>1. alive = Seats
    BY <1>3, ElectionFacts
  <2> QED
    BY <1>2, <1>4, <2>1 DEF SheriffElectorate, CanVote, SheriffPkBarred
<1>6. sheriff_votes \in Ballots /\ sheriff_votes' = [sheriff_votes EXCEPT ![s] = t]
  BY DEF VoteSheriff, GameInv, Inv, TypeInv, TypeOK, CampaignTypeOK
<1>7. ASSUME NEW v \in Seats, sheriff_votes'[v] # NotYet
      PROVE  /\ v \in alive \ (revealed \cup sheriff_candidates \cup sheriff_withdrawn)
             /\ config.pk_voters = "NON_CANDIDATES_ONLY" => v \notin sheriff_pk_bystanders
             /\ sheriff_votes'[v] \in sheriff_candidates \cap alive
  <2>1. CASE v = s
    BY <1>5, <1>6, <2>1 DEF Ballots
  <2>2. CASE v # s
    <3>1. sheriff_votes'[v] = sheriff_votes[v]
      BY <1>6, <2>2 DEF Ballots
    <3> QED
      BY <1>2, <1>7, <3>1 DEF GameInv, PlayInv, BallotInv, BallotsLegal
  <2> QED
    BY <2>1, <2>2
<1> QED
  BY <1>1, <1>3, <1>7 DEF BallotInv, BallotsLegal

LEMMA ElectionActionPlay ==
  ASSUME GameInv, ElectionAction
  PROVE  PlayInv'
<1>1. PICK s \in Seats :
        \/ \E running \in BOOLEAN : Declare(s, running) \/ Confirm(s, running)
        \/ \E t \in Seats : VoteSheriff(s, t)
        \/ \E d \in {"LEFT", "RIGHT"} : SetDirection(s, d)
  BY DEF ElectionAction
<1>2. UNCHANGED <<phase, winner, night, pending_hunter>>
  BY <1>1 DEF Declare, Confirm, VoteSheriff, SetDirection, ElectionFrame, controlVars
<1>3. phase \in ElectionPhases
  BY <1>1 DEF Declare, Confirm, VoteSheriff, SetDirection, CanDeclare, CanConfirm,
              CanVoteSheriff, CanSetDirection, InElection, ElectionPhases
<1>4. PathInv' /\ AimInv'
  BY <1>2, <1>3, StillElectingPlay
<1>5. ASSUME \/ \E running \in BOOLEAN : Declare(s, running) \/ Confirm(s, running)
             \/ \E d \in {"LEFT", "RIGHT"} : SetDirection(s, d)
      PROVE  BallotInv'
  <2>1. phase = "SHERIFF_ELECTION" /\ election_stage' # "vote"
    BY <1>5 DEF Declare, Confirm, SetDirection, CanDeclare, CanConfirm, CanSetDirection,
                InElection
  <2> QED
    BY <1>2, <1>3, <2>1, NoBallotOpen
<1> QED
  BY <1>1, <1>4, <1>5, VoteSheriffPlay DEF PlayInv

LEMMA EndElectionPlay ==
  ASSUME GameInv, phase \in ElectionPhases, NEW b, EndElection(b)
  PROVE  PlayInv'
  BY ElectionFacts, AnnouncePlay DEF EndElection

LEMMA EnterWithdrawPlay ==
  ASSUME GameInv, phase = "SHERIFF_ELECTION", EnterWithdraw
  PROVE  PlayInv'
<1>1. /\ UNCHANGED <<phase, winner, night, pending_hunter>>
      /\ election_stage' = "withdraw"
  BY DEF EnterWithdraw, StillElecting, SameRound, controlVars
<1> QED
  BY <1>1, StillElectingPlay, NoBallotOpen DEF ElectionPhases, PlayInv

LEMMA ElectionStepPlay ==
  ASSUME GameInv, ElectionStep
  PROVE  PlayInv'
<1>1. phase \in ElectionPhases
  BY DEF ElectionStep, AllDeclared, CampaignOver, AllConfirmed, Elect, StartSheriffRunoff,
         NobodyElected, DirectionSet, SheriffVoteOver, InElection, ElectionPhases
<1>2. CASE AllDeclared
  <2>1. phase = "SHERIFF_ELECTION"
    BY <1>2 DEF AllDeclared, InElection
  <2>2. CASE /\ election_stage' = "speech"
             /\ StillElecting
             /\ UNCHANGED <<phase, winner>>
    <3>1. UNCHANGED <<night, pending_hunter>>
      BY <2>2 DEF StillElecting, SameRound
    <3> QED
      BY <1>1, <2>1, <2>2, <3>1, StillElectingPlay, NoBallotOpen DEF PlayInv
  <2> QED
    BY <1>1, <1>2, <2>1, <2>2, EndElectionPlay, EnterWithdrawPlay DEF AllDeclared
<1>3. CASE CampaignOver
  BY <1>3, EnterWithdrawPlay DEF CampaignOver, InElection
<1>4. CASE AllConfirmed
  <2>1. CASE /\ SheriffVoteStarted(sheriff_candidates)
             /\ StillElecting
             /\ UNCHANGED controlVars
    <3>1. /\ UNCHANGED <<phase, winner, night, pending_hunter>>
          /\ sheriff_votes' = NoBallots
      BY <2>1 DEF StillElecting, SameRound, controlVars, SheriffVoteStarted
    <3>2. BallotInv'
      BY <1>1, <3>1, PlainPhases DEF BallotInv, BallotsLegal, NoBallots
    <3> QED
      BY <1>1, <3>1, <3>2, StillElectingPlay DEF PlayInv
  <2> QED
    BY <1>1, <1>4, <2>1, EndElectionPlay DEF AllConfirmed
<1>5. ASSUME NEW s \in Seats, Elect(s)
      PROVE  PlayInv'
  <2>1. CASE /\ EnterPhase("SHERIFF_ELECTION", "none", speech)
             /\ election_stage' = "direction"
             /\ SameRound(night)
             /\ UNCHANGED pending_hunter
    <3>1. phase' = "SHERIFF_ELECTION" /\ UNCHANGED <<winner, night>>
      BY <2>1 DEF EnterPhase, SameRound
    <3> QED
      BY <1>1, <2>1, <3>1, StillElectingPlay, NoBallotOpen DEF PlayInv, ElectionPhases
  <2> QED
    BY <1>1, <1>5, <2>1, EndElectionPlay DEF Elect
<1>6. CASE StartSheriffRunoff
  <2>1. /\ phase' = "SHERIFF_PK" /\ UNCHANGED <<winner, night, pending_hunter>>
        /\ sheriff_votes' = NoBallots
    BY <1>6 DEF StartSheriffRunoff, EnterPhase, StillElecting, SameRound, SheriffVoteStarted
  <2> QED
    BY <1>1, <2>1, StillElectingPlay, NoBallotOpen DEF PlayInv, ElectionPhases
<1>7. CASE NobodyElected
  BY <1>1, <1>7, EndElectionPlay DEF NobodyElected
<1>8. CASE DirectionSet
  BY <1>1, <1>8, EndElectionPlay DEF DirectionSet
<1> QED
  BY <1>2, <1>3, <1>4, <1>5, <1>6, <1>7, <1>8 DEF ElectionStep

-----------------------------------------------------------------------------
(* The invariant holds *)

LEMMA InitPlay == Init => GameInv
<1>1. SUFFICES ASSUME Init PROVE PlayInv
  BY InitInv DEF GameInv
<1>2. phase \in NightPhases /\ winner = "none" /\ pending_hunter = None /\ night = NoNight
      /\ wolf_proposals = NoBallots
  BY <1>1, NightOrderType DEF Init
<1>3. phase \notin ElectionPhases
        \cup {"VOTE", "VOTE_PK", "LAST_WORDS", "EXILE", "HUNTER_SHOOT"}
  BY <1>2, PlainPhases
<1> QED
  BY <1>2, <1>3 DEF PlayInv, PathInv, AimInv, BallotInv, BallotsLegal, InElection,
     ElectionPhases, NoNight, NoBallots

LEMMA NextPlay == GameInv /\ [Next]_vars => GameInv'
<1> SUFFICES ASSUME GameInv, [Next]_vars PROVE GameInv'
  OBVIOUS
<1>1. Inv'
  BY NextInv DEF GameInv
<1>2. CASE PlayerAction
  BY <1>1, <1>2, NightActionPlay, DayActionPlay, ElectionActionPlay DEF PlayerAction, GameInv
<1>3. CASE SystemStep
  BY <1>1, <1>3, NightStepPlay, VoteStepPlay, AfterDeathPlay, ElectionStepPlay
     DEF SystemStep, DayStep, GameInv
<1>4. CASE UNCHANGED vars
  <2>1. UNCHANGED <<phase, resume_token, winner, alive, revealed, pending_hunter, night,
                    wolf_proposals, voteVars, election_stage, campaignVars>>
    BY <1>4 DEF vars, controlVars, powerVars, huntVars
  <2> QED
    BY <1>1, <2>1, PathFrame, AimFrame, BallotFrame DEF GameInv, PlayInv
<1> QED
  BY <1>2, <1>3, <1>4 DEF Next, Finished

THEOREM GameInvHolds == Spec => []GameInv
  BY InitPlay, NextPlay, PTL DEF Spec

\* On every board, every ballot in the box was cast by somebody with the right
\* to vote, for a seat that could be voted for - in the exile vote, its runoff,
\* the election of the sheriff and its runoff.
THEOREM OnlyLegalBallots == Spec => []BallotsLegal
<1>1. GameInv => BallotsLegal
  BY DEF GameInv, PlayInv, BallotInv
<1> QED
  BY <1>1, GameInvHolds, PTL

-----------------------------------------------------------------------------
(* The runoff for sheriff *)

LEMMA FlowLeavesElection ==
  /\ \A n : AfterDayDeath(n) => phase' \notin ElectionPhases
  /\ \A living, b, n : AnnounceAndContinueNight(living, b, n) => phase' \notin ElectionPhases
<1>1. ASSUME NEW n, AfterDayDeath(n)
      PROVE  phase' \notin ElectionPhases
  <2>1. phase' \in NightPhases \cup {"GAME_OVER"}
    BY <1>1, NightOrderType DEF AfterDayDeath, GameOver, BeginNight, EnterPhase
  <2> QED
    BY <2>1, PlainPhases
<1>2. ASSUME NEW n, EnterDaySpeech(n)
      PROVE  phase' \notin ElectionPhases
  BY <1>1, <1>2, PlainPhases DEF EnterDaySpeech, EnterPhase
<1>3. ASSUME NEW living, NEW b, NEW n, AnnounceAndContinueNight(living, b, n)
      PROVE  phase' \notin ElectionPhases
  <2>1. CASE FinishNightDeaths(b, n)
    BY <1>2, <2>1, PlainPhases DEF FinishNightDeaths, LastWordsOf, OpenBadgeWindow, EnterPhase
  <2> QED
    BY <1>3, <2>1, PlainPhases DEF AnnounceAndContinueNight, GameOver, EnterPhase
<1> QED
  BY <1>1, <1>3

LEMMA RunoffOnly ==
  ASSUME [Next]_vars, phase = "SHERIFF_ELECTION", phase' = "SHERIFF_PK"
  PROVE  StartSheriffRunoff
<1>1. phase \notin NightPhases
        \cup {"DAY_SPEECH", "VOTE", "VOTE_PK", "EXILE", "HUNTER_SHOOT", "LAST_WORDS"}
  BY PlainPhases DEF ElectionPhases
<1>2. phase' \in ElectionPhases
  BY DEF ElectionPhases
<1>3. ~NightAction
  BY <1>1 DEF NightAction, Skip, Guard, Propose, Save, Poison, Check, CanSkip, CanGuard,
     CanPropose, CanSave, CanPoison, CanCheck, NightPhases
<1>4. ~(WolfRevote \/ WolfKillDecided \/ NightPhaseOver)
  BY <1>1 DEF WolfRevote, WolfKillDecided, NightPhaseOver, NightPhases
<1>5. ~DayAction
  <2>1. ASSUME NEW s \in Seats, SelfDestruct(s)
        PROVE  FALSE
    BY <1>1, <1>2, <2>1, FlowLeavesElection DEF SelfDestruct
  <2> QED
    BY <1>1, <2>1 DEF DayAction, Speak, CastVote, CanCastVote, Shoot, CanShoot, PassBadge,
       CanPassBadge, controlVars
<1>6. ~DayStep
  BY <1>1 DEF DayStep, OpenVote, StartRunoff, NobodyExiled, FlipIdiot, Exile, VoteOver,
     AfterExile, AfterHunterShot, AfterLastWords
<1>7. ~ElectionAction
  BY DEF ElectionAction, Declare, Confirm, VoteSheriff, SetDirection, ElectionFrame, controlVars
<1>8. ElectionStep
  BY <1>3, <1>4, <1>5, <1>6, <1>7
     DEF Next, PlayerAction, SystemStep, Finished, vars, controlVars
<1>9. ASSUME NEW b
      PROVE  ~EndElection(b)
  BY <1>2, FlowLeavesElection DEF EndElection
<1>10. ~EnterWithdraw
  BY DEF EnterWithdraw, controlVars
<1> QED
  BY <1>8, <1>9, <1>10
     DEF ElectionStep, AllDeclared, CampaignOver, AllConfirmed, Elect, NobodyElected,
         DirectionSet, EnterPhase, controlVars

LEMMA RunoffStep ==
  ASSUME GameInv, [Next]_vars, phase = "SHERIFF_ELECTION", phase' = "SHERIFF_PK"
  PROVE  /\ SheriffPkElectorate' # {}
         /\ config.pk_voters = "NON_CANDIDATES_ONLY"
               => SheriffPkElectorate' = {s \in Seats : sheriff_votes[s] # NotYet}
<1> DEFINE voters == {s \in Seats : sheriff_votes[s] # NotYet}
           standing == sheriff_candidates
<1>1. StartSheriffRunoff
  BY RunoffOnly
<1>2. InElection("vote") /\ ExpectedActors = {} /\ phase \notin NightPhases
  BY <1>1, PlainPhases
     DEF StartSheriffRunoff, SheriffVoteOver, SystemTurn, InElection, ElectionPhases
<1>3. SheriffElectorate \subseteq voters
  <2>1. SheriffElectorate \cap Waiting(sheriff_votes) = {}
    BY <1>2 DEF InElection, ExpectedActors, ElectionActors
  <2>2. SheriffElectorate \subseteq Seats
    BY DEF SheriffElectorate, CanVote, GameInv, Inv, TypeInv, TypeOK
  <2> QED
    BY <2>1, <2>2 DEF Waiting
<1>4. ASSUME NEW v \in voters
      PROVE  /\ v \in SheriffElectorate
             /\ config.pk_voters = "NON_CANDIDATES_ONLY" => v \notin sheriff_pk_bystanders
             /\ sheriff_votes[v] \in standing
  BY <1>2, <1>4 DEF GameInv, PlayInv, BallotInv, BallotsLegal, SheriffElectorate, CanVote
<1>5. SheriffTied \subseteq standing
  <2>1. ASSUME NEW t \in SheriffTied
        PROVE  t \in standing
    <3>1. t \in Seats /\ VotersFor(sheriff_votes, t) # {}
      BY <2>1 DEF SheriffTied, Leaders
    <3>2. PICK v \in Seats : sheriff_votes[v] = t
      BY <3>1 DEF VotersFor
    <3>3. v \in voters
      BY <3>1, <3>2, BoardAssumption DEF SeatOrNone
    <3> QED
      BY <1>4, <3>2, <3>3
  <2> QED
    BY <2>1
<1>6. SheriffTied # {}
  <2>1. Cardinality(SheriffTied) > 1 /\ Cardinality({}) = 0
    BY <1>1, FS_EmptySet DEF StartSheriffRunoff
  <2> QED
    BY <2>1
<1>7. voters # {}
  <2>1. PICK t : t \in SheriffTied
    BY <1>6
  <2>2. t \in Seats /\ VotersFor(sheriff_votes, t) # {}
    BY <2>1 DEF SheriffTied, Leaders
  <2>3. PICK v \in Seats : sheriff_votes[v] = t
    BY <2>2 DEF VotersFor
  <2> QED
    BY <2>2, <2>3, BoardAssumption DEF SeatOrNone
<1>8. /\ sheriff_candidates' = SheriffTied
      /\ sheriff_pk_bystanders' = sheriff_pk_bystanders \cup (standing \ SheriffTied)
      /\ UNCHANGED <<alive, revealed, sheriff_withdrawn>>
  BY <1>1, <1>5 DEF StartSheriffRunoff, SheriffVoteOver, SheriffVoteStarted, StillElecting, powerVars
<1>9. CASE config.pk_voters = "NON_CANDIDATES_ONLY"
  <2>1. SheriffPkElectorate' = SheriffElectorate \ sheriff_pk_bystanders
    BY <1>5, <1>8, <1>9
       DEF SheriffPkElectorate, SheriffElectorate, SheriffPkBarred, CanVote
  <2>2. SheriffPkElectorate' = voters
    BY <1>3, <1>4, <1>9, <2>1
  <2> QED
    BY <1>7, <2>2
<1>10. CASE config.pk_voters # "NON_CANDIDATES_ONLY"
  <2>1. SheriffElectorate \subseteq SheriffPkElectorate'
    BY <1>5, <1>8, <1>10
       DEF SheriffPkElectorate, SheriffElectorate, SheriffPkBarred, CanVote
  <2> QED
    BY <1>4, <1>7, <1>10, <2>1
<1> QED
  BY <1>9, <1>10

\* On every board the runoff for sheriff is decided by exactly those who voted
\* in the first ballot (or, where the candidates who missed it may vote, by
\* them too), and by at least one seat.
THEOREM RunoffDecided == Spec => RunoffElectorate
<1>1. GameInv /\ [Next]_vars
        => [phase = "SHERIFF_ELECTION" /\ phase' = "SHERIFF_PK"
              => /\ SheriffPkElectorate' # {}
                 /\ config.pk_voters = "NON_CANDIDATES_ONLY"
                        => SheriffPkElectorate' = {s \in Seats : sheriff_votes[s] # NotYet}]_vars
  BY RunoffStep
<1> QED
  BY <1>1, GameInvHolds, PTL DEF Spec, RunoffElectorate

-----------------------------------------------------------------------------
(* The refinement *)

\* The board of the abstract game is the board of the engine.
LEMMA SameBoard ==
  /\ Game!Seats = Seats /\ Game!SeatOrNone = SeatOrNone
  /\ \A role : Game!Holders(role) = Holders(role)
  /\ Game!Wolves = Wolves
  /\ \A living : Game!CheckWin(living) = CheckWin(living)
<1>1. Game!Seats = Seats /\ \A role : Game!Holders(role) = Holders(role)
  BY DEF Game!Seats, Seats, Game!Holders, Holders
<1>2. Game!Wolves = Wolves /\ Game!Goods = Goods
  BY <1>1 DEF Game!Wolves, Wolves, Game!Goods, Goods
<1>3. Game!Villagers = Villagers /\ Game!Gods = Gods
  BY <1>1, <1>2 DEF Game!Villagers, Villagers, Game!Gods, Gods
<1> QED
  BY <1>1, <1>2, <1>3 DEF Game!SeatOrNone, SeatOrNone, Game!CheckWin, CheckWin, Game!WolvesWin,
     WolvesWin

LEMMA GunOf ==
  /\ phase # "EXILE" => Gun = pending_hunter
  /\ phase = "EXILE" =>
        Gun = IF day_exiled \in Holders("HUNTER") THEN day_exiled ELSE pending_hunter
  /\ phase' # "EXILE" => Gun' = pending_hunter'
  /\ phase' = "EXILE" =>
        Gun' = IF day_exiled' \in Holders("HUNTER") THEN day_exiled' ELSE pending_hunter'
  BY DEF Gun

\* A step that the abstract game does not see.
LEMMA Unseen ==
  ASSUME Stage' = Stage, Gun' = Gun, UNCHANGED <<round, alive, winner>>,
         night'.witch_poison_target = night.witch_poison_target,
         night'.skip_day = night.skip_day
  PROVE  UNCHANGED Game!gameVars
  BY DEF Game!gameVars

-----------------------------------------------------------------------------
(* Where the end of a step leads in the abstract game *)

\* The night record of a step names the poisoned seat of the night.
SamePoison(n) == n.witch_poison_target = night.witch_poison_target

LEMMA DecidedMaps ==
  ASSUME NEW n, SamePoison(n), GameOver(CheckWin(alive'), n), CheckWin(alive') # "none",
         pending_hunter' = None
  PROVE  Game!Decided /\ night'.skip_day = n.skip_day
<1>1. /\ phase' = "GAME_OVER" /\ winner' = CheckWin(alive') /\ night' = n
      /\ UNCHANGED round
  BY DEF GameOver, SameRound
<1>2. Stage' = "over" /\ Gun' = None
  BY <1>1, StageAfter, GunOf
<1> QED
  BY <1>1, <1>2, SameBoard DEF Game!Decided, Game!Undecided, SamePoison

LEMMA DayEndsMaps ==
  ASSUME GameInv, NEW n, SamePoison(n), AfterDayDeath(n), winner = "none",
         pending_hunter' = None
  PROVE  Game!DayEnds(n.skip_day)
<1>1. CASE CheckWin(alive') # "none"
  <2>1. GameOver(CheckWin(alive'), n)
    BY <1>1 DEF AfterDayDeath
  <2> QED
    BY <1>1, <2>1, DecidedMaps DEF Game!DayEnds
<1>2. CASE CheckWin(alive') = "none" /\ round >= config.max_rounds
  <2>1. /\ phase' = "GAME_OVER" /\ winner' = winner /\ night' = n
        /\ UNCHANGED round
    BY <1>2 DEF AfterDayDeath, GameOver, SameRound
  <2>2. Stage' = "over" /\ Gun' = None
    BY <2>1, StageAfter, GunOf
  <2> QED
    BY <1>2, <2>1, <2>2, SameBoard DEF Game!DayEnds, Game!TimeUp, Game!Undecided, SamePoison
<1>3. CASE CheckWin(alive') = "none" /\ ~(round >= config.max_rounds)
  <2>1. BeginNight
    BY <1>3 DEF AfterDayDeath
  <2>2. /\ phase' \in NightPhases /\ UNCHANGED winner /\ round' = round + 1
        /\ night'.witch_poison_target = None /\ night'.skip_day = FALSE
    BY <2>1, NightOrderType DEF BeginNight, EnterPhase, NoNight
  <2>3. phase' # "EXILE"
    BY <2>2 DEF NightPhases
  <2>4. Stage' = "night" /\ Gun' = None
    BY <2>2, <2>3, StageAfter, GunOf
  <2>5. round < config.max_rounds
    BY <1>3, RulesAssumption DEF GameInv, Inv, TypeInv, TypeOK
  <2> QED
    BY <1>3, <2>2, <2>4, <2>5, SameBoard DEF Game!DayEnds, Game!NightFalls, Game!Undecided
<1> QED
  BY <1>1, <1>2, <1>3

LEMMA DaybreakMaps ==
  ASSUME GameInv, NEW n, SamePoison(n), EnterDaySpeech(n), winner = "none",
         n.skip_day \in BOOLEAN, pending_hunter' = None, CheckWin(alive') = "none"
  PROVE  Game!DayOrCutoff(n.skip_day)
<1>1. CASE n.skip_day
  BY <1>1, DayEndsMaps DEF EnterDaySpeech, Game!DayOrCutoff
<1>2. CASE ~n.skip_day
  <2>1. PICK queue \in SpeechOrder(n) : EnterPhase("DAY_SPEECH", "none", queue)
    BY <1>2 DEF EnterDaySpeech
  <2>2. /\ phase' = "DAY_SPEECH" /\ night' = n
        /\ UNCHANGED <<winner, round>>
    BY <1>2, <2>1 DEF EnterDaySpeech, EnterPhase, SameRound
  <2>3. Stage' = "day" /\ Gun' = None
    BY <2>2, StageAfter, GunOf
  <2> QED
    BY <1>2, <2>2, <2>3, SameBoard
       DEF Game!DayOrCutoff, Game!Daybreak, Game!Undecided, SamePoison
<1> QED
  BY <1>1, <1>2

\* What FinishNightDeaths comes to: it stays at dawn, or goes on to the day.
LEMMA DawnMaps ==
  ASSUME GameInv, NEW b, NEW n, SamePoison(n), FinishNightDeaths(b, n), winner = "none",
         n.skip_day \in BOOLEAN, pending_hunter' = None, CheckWin(alive') = "none"
  PROVE  \/ /\ Stage' = "dawn" /\ Gun' = None
            /\ UNCHANGED <<winner, round>> /\ night' = n
         \/ Game!DayOrCutoff(n.skip_day)
<1>1. ASSUME NEW token \in DawnTokens, NEW queue, EnterPhase("LAST_WORDS", token, queue),
             SameRound(n)
      PROVE  /\ Stage' = "dawn" /\ Gun' = None
             /\ UNCHANGED <<winner, round>> /\ night' = n
  BY <1>1, StageAfter, GunOf DEF EnterPhase, SameRound
<1>2. CASE OpenBadgeWindow("badge_only:day_speech") /\ SameRound(n)
  BY <1>1, <1>2 DEF OpenBadgeWindow, DawnTokens
<1>3. CASE EnterPhase("LAST_WORDS", "day_speech", Ascending(NightLastWords(n.deaths)))
           /\ SameRound(n)
  BY <1>1, <1>3 DEF DawnTokens
<1>4. CASE EnterDaySpeech(n)
  BY <1>4, DaybreakMaps
<1> QED
  BY <1>2, <1>3, <1>4 DEF FinishNightDeaths, LastWordsOf

LEMMA AnnounceMaps ==
  ASSUME GameInv, winner = "none", pending_hunter = None,
         NEW n \in Nights, SamePoison(n), n.deaths = ResolveNight(n),
         n.wolf_target \in alive \cup {None},
         NEW wolf \in Wolves \cup {None}, NEW b,
         AnnounceAndContinueNight(alive \ {wolf}, b, n)
  PROVE  \E victim \in alive \cup {None} : Game!Announce(victim, wolf, n.skip_day)
<1> DEFINE victim == IF n.wolf_target \in n.deaths THEN n.wolf_target ELSE None
           doomed == night.witch_poison_target
           shooter == IF victim \in Holders("HUNTER") \ {doomed} THEN victim ELSE None
<1>1. alive \subseteq Seats /\ None \notin Seats /\ n.skip_day \in BOOLEAN
  BY SeatFacts DEF GameInv, Inv, TypeInv, TypeOK, Nights
<1>2. victim \in alive \cup {None}
  OBVIOUS
<1>3. n.deaths = {victim, doomed} \cap Seats
  BY <1>1 DEF ResolveNight, SamePoison
<1>4. alive' = alive \ {victim, doomed, wolf}
  BY <1>1, <1>3 DEF AnnounceAndContinueNight, Announced
<1>5. DeadHunters(n) = {shooter} \ {None}
  <2>1. {s \in n.deaths : Role[s] = "HUNTER" /\ s # n.witch_poison_target} = {shooter} \ {None}
    BY <1>1, <1>3 DEF Holders, SamePoison
  <2>2. CASE shooter = None
    BY <2>1, <2>2 DEF DeadHunters, Lowest
  <2>3. CASE shooter # None
    <3>1. shooter \in Int
      BY <2>3, SeatFacts DEF Holders
    <3> QED
      BY <2>1, <2>3, <3>1 DEF DeadHunters, Lowest
  <2> QED
    BY <2>2, <2>3
<1>6. \/ Game!Decided /\ night'.skip_day = n.skip_day
      \/ /\ Stage' = "dawn" /\ CheckWin(alive') = "none" /\ Gun' = shooter
         /\ UNCHANGED <<winner, round>> /\ night' = n
      \/ shooter = None /\ Game!DayOrCutoff(n.skip_day)
  <2>1. CASE CheckWin(alive') # "none"
    <3>1. GameOver(CheckWin(alive'), n) /\ UNCHANGED pending_hunter
      BY <2>1 DEF AnnounceAndContinueNight
    <3> QED
      BY <2>1, <3>1, DecidedMaps
  <2>2. CASE CheckWin(alive') = "none" /\ DeadHunters(n) # {}
    <3>1. /\ pending_hunter' = shooter
          /\ EnterPhase("HUNTER_SHOOT", "night_after_hunter", speech)
          /\ SameRound(n)
      BY <1>5, <2>2 DEF AnnounceAndContinueNight
    <3>2. /\ phase' = "HUNTER_SHOOT" /\ resume_token' \in DawnTokens
          /\ UNCHANGED <<winner, round>> /\ night' = n
      BY <3>1 DEF EnterPhase, SameRound, DawnTokens
    <3>3. Stage' = "dawn" /\ Gun' = shooter
      BY <3>1, <3>2, StageAfter, GunOf
    <3> QED
      BY <2>2, <3>2, <3>3
  <2>3. CASE CheckWin(alive') = "none" /\ DeadHunters(n) = {}
    <3>1. FinishNightDeaths(b, n) /\ pending_hunter' = None /\ shooter = None
      BY <1>5, <2>3 DEF AnnounceAndContinueNight
    <3> QED
      BY <1>1, <2>3, <3>1, DawnMaps
  <2> QED
    BY <2>1, <2>2, <2>3
<1>7. Game!Announce(victim, wolf, n.skip_day)
  <2> HIDE DEF victim
  <2> QED
    BY <1>4, <1>6, SameBoard DEF Game!Announce, Game!Undecided, SamePoison
<1> QED
  BY <1>2, <1>7

-----------------------------------------------------------------------------
(* Every step of the engine is a step of the abstract game, or none *)

LEMMA NightActionMaps ==
  ASSUME GameInv, NightAction
  PROVE  Game!GameNext \/ UNCHANGED Game!gameVars
<1>1. NightActionFrame
  BY DEF NightAction, Skip, Guard, Propose, Save, Poison, Check
<1>2. phase \in NightPhases
  BY DEF NightAction, Skip, Guard, Propose, Save, Poison, Check, CanSkip, CanGuard, CanPropose,
         CanSave, CanPoison, CanCheck, NightPhases
<1>3. UNCHANGED <<phase, resume_token, winner, round, alive, pending_hunter, day_exiled>>
  BY <1>1 DEF NightActionFrame, controlVars
<1>4. Stage' = Stage /\ Gun' = Gun
  BY <1>3 DEF Stage, Gun
<1>5. night \in Nights
  BY DEF GameInv, Inv, TypeInv, TypeOK
<1>6. night'.skip_day = night.skip_day
  BY <1>5 DEF Nights, NightAction, Skip, Guard, Propose, Save, Poison, Check
<1>7. CASE \E s \in Seats : \E t \in Aim["poison"] : Poison(s, t)
  <2>1. night'.witch_poison_target \in alive
    BY <1>5, <1>7 DEF Poison, CanPoison, Nights
  <2>2. Stage = "night"
    BY <1>2, NightPhaseFacts
  <2> QED
    BY <1>3, <1>4, <1>6, <2>1, <2>2 DEF Game!GameNext, Game!Poisoned
<1>8. CASE ~\E s \in Seats : \E t \in Aim["poison"] : Poison(s, t)
  <2>1. night'.witch_poison_target = night.witch_poison_target
    BY <1>5, <1>8 DEF Nights, NightAction, Skip, Guard, Propose, Save, Check
  <2> QED
    BY <1>3, <1>4, <1>6, <2>1, Unseen
<1> QED
  BY <1>7, <1>8

LEMMA ResolveNightMaps ==
  ASSUME GameInv, phase \in NightPhases, NEW n, NightRecord(n), ResolveNightAndContinue(n)
  PROVE  Game!GameNext
<1> DEFINE deaths == ResolveNight(n)
           resolved == [n EXCEPT !.deaths = deaths]
<1>1. winner = "none" /\ pending_hunter = None /\ Stage = "night" /\ night.skip_day = FALSE
  BY NightPhaseFacts
<1>2. /\ resolved \in Nights /\ resolved.deaths = deaths /\ ResolveNight(resolved) = deaths
      /\ SamePoison(resolved)
      /\ resolved.wolf_target = n.wolf_target /\ n.wolf_target \in alive \cup {None}
      /\ resolved.skip_day = FALSE
  BY ResolveNightType, ResolveFrame DEF NightRecord, Nights, SamePoison
<1> HIDE DEF resolved, deaths
<1>3. CASE /\ CheckWin(alive \ deaths) # "none"
           /\ alive' = alive \ deaths
           /\ GameOver(CheckWin(alive'), resolved)
           /\ UNCHANGED pending_hunter
  <2> DEFINE victim == IF n.wolf_target \in deaths THEN n.wolf_target ELSE None
  <2>1. Game!Decided /\ night'.skip_day = FALSE
    BY <1>1, <1>2, <1>3, DecidedMaps
  <2>2. alive \subseteq Seats /\ None \notin Seats
    BY SeatFacts DEF GameInv, Inv, TypeInv, TypeOK
  <2>3. victim \in alive \cup {None} /\ alive' = alive \ {victim, night.witch_poison_target, None}
    BY <1>2, <1>3, <2>2 DEF deaths, ResolveNight, NightRecord
  <2> HIDE DEF victim
  <2>4. Game!Announce(victim, None, FALSE)
    BY <2>1, <2>3, SameBoard DEF Game!Announce
  <2> QED
    BY <1>1, <2>3, <2>4, SameBoard DEF Game!GameNext, Game!NightEnds
<1>4. CASE /\ round = 1
           /\ EnterPhase("SHERIFF_ELECTION", "none", speech)
           /\ SameRound(resolved)
           /\ UNCHANGED <<alive, pending_hunter>>
  <2>1. /\ phase' = "SHERIFF_ELECTION" /\ phase' \in ElectionPhases
        /\ UNCHANGED <<winner, round>> /\ night' = resolved
    BY <1>4 DEF EnterPhase, SameRound, ElectionPhases
  <2>2. phase # "EXILE"
    BY PlainPhases
  <2>3. Stage' = "election" /\ Gun' = Gun
    BY <1>4, <2>1, <2>2, StageAfter, GunOf
  <2> QED
    BY <1>1, <1>2, <1>4, <2>1, <2>3
       DEF Game!GameNext, Game!ElectionStarts, SamePoison
<1>5. CASE AnnounceAndContinueNight(alive, badge, resolved)
  <2>1. alive = alive \ {None}
    BY SeatFacts DEF GameInv, Inv, TypeInv, TypeOK
  <2>2. AnnounceAndContinueNight(alive \ {None}, badge, resolved)
    BY <1>5, <2>1
  <2>3. PICK victim \in alive \cup {None} : Game!Announce(victim, None, FALSE)
    BY <1>1, <1>2, <2>2, AnnounceMaps
  <2> QED
    BY <1>1, <2>3, SameBoard DEF Game!GameNext, Game!NightEnds
<1> QED
  BY <1>3, <1>4, <1>5 DEF ResolveNightAndContinue, resolved, deaths

LEMMA LeaveNightPhaseMaps ==
  ASSUME GameInv, phase \in NightPhases, NEW n, NightRecord(n), LeaveNightPhase(n)
  PROVE  Game!GameNext \/ UNCHANGED Game!gameVars
<1> DEFINE order == config.night_order
           i == CHOOSE j \in DOMAIN order : order[j] = phase
<1>1. i \in DOMAIN order
  BY DEF GameInv, Inv, TypeInv, Scheduled
<1>2. CASE i < Len(order)
  <2>1. order[i + 1] \in NightPhases
    <3>1. i + 1 \in DOMAIN order
      BY <1>1, <1>2, RulesAssumption
    <3> QED
      BY <3>1, NightOrderType
  <2>2. /\ phase' \in NightPhases /\ night' = n
        /\ UNCHANGED <<winner, round, alive, pending_hunter>>
    BY <1>2, <2>1 DEF LeaveNightPhase, EnterPhase, SameRound
  <2>3. phase # "EXILE" /\ phase' # "EXILE"
    BY <2>2, PlainPhases
  <2>4. Stage' = Stage /\ Gun' = Gun
    BY <2>2, <2>3, StageOf, StageAfter, GunOf
  <2> QED
    BY <2>2, <2>4, Unseen, NightPhaseFacts DEF NightRecord, Nights
<1>3. CASE ~(i < Len(order))
  BY <1>3, ResolveNightMaps DEF LeaveNightPhase
<1> QED
  BY <1>2, <1>3

LEMMA NightStepMaps ==
  ASSUME GameInv, WolfRevote \/ WolfKillDecided \/ NightPhaseOver
  PROVE  Game!GameNext \/ UNCHANGED Game!gameVars
<1>1. phase \in NightPhases
  BY DEF WolfRevote, WolfKillDecided, NightPhaseOver, NightPhases
<1>2. CASE WolfRevote
  <2>1. UNCHANGED <<phase, resume_token, winner, round, alive, pending_hunter, day_exiled, night>>
    BY <1>2 DEF WolfRevote, controlVars
  <2>2. Stage' = Stage /\ Gun' = Gun
    BY <2>1 DEF Stage, Gun
  <2> QED
    BY <2>1, <2>2, Unseen
<1>3. CASE WolfKillDecided
  BY <1>1, <1>3, NightRecords, LeaveNightPhaseMaps DEF WolfKillDecided
<1>4. CASE NightPhaseOver
  BY <1>1, <1>4, NightRecords, LeaveNightPhaseMaps DEF NightPhaseOver
<1> QED
  BY <1>2, <1>3, <1>4

\* What the end of the day comes to in a phase after an exile.
LEMMA DayLastWordsMaps ==
  ASSUME GameInv, EnterDayLastWords, Stage = "dusk", Gun = None, UNCHANGED alive,
         night.skip_day = FALSE, winner = "none", pending_hunter' = None
  PROVE  Game!GameNext \/ UNCHANGED Game!gameVars
<1>1. ASSUME NEW token, token \notin DawnTokens, NEW queue,
             EnterPhase("LAST_WORDS", token, queue), SameRound(night)
      PROVE  UNCHANGED Game!gameVars
  <2>1. /\ phase' = "LAST_WORDS" /\ resume_token' = token /\ night' = night
        /\ UNCHANGED <<winner, round>>
    BY <1>1 DEF EnterPhase, SameRound
  <2>2. Stage' = "dusk" /\ Gun' = None
    BY <1>1, <2>1, StageAfter, GunOf
  <2> QED
    BY <2>1, <2>2, Unseen
<1>2. CASE OpenBadgeWindow("badge_only:after_day") /\ SameRound(night)
  BY <1>1, <1>2 DEF OpenBadgeWindow, DawnTokens
<1>3. CASE EnterPhase("LAST_WORDS", "after_day", Ascending({day_exiled} \ {None}))
           /\ SameRound(night)
  BY <1>1, <1>3 DEF DawnTokens
<1>4. CASE AfterDayDeath(night)
  <2>1. Game!DayEnds(FALSE)
    BY <1>4, DayEndsMaps DEF SamePoison
  <2> QED
    BY <2>1 DEF Game!GameNext, Game!DuskEnds
<1> QED
  BY <1>2, <1>3, <1>4 DEF EnterDayLastWords

LEMMA NobodyExiledMaps ==
  ASSUME GameInv, phase \in {"DAY_SPEECH", "VOTE", "VOTE_PK"}, AfterDayDeath(night),
         UNCHANGED pending_hunter,
         UNCHANGED alive \/ \E wolf \in alive \cap Wolves : alive' = alive \ {wolf}
  PROVE  Game!GameNext
<1>1. Stage = "day" /\ winner = "none" /\ pending_hunter' = None /\ night.skip_day = FALSE
  BY DayFacts
<1>2. Game!DayEnds(FALSE)
  BY <1>1, DayEndsMaps DEF SamePoison
<1>3. alive = alive \ {None}
  BY SeatFacts DEF GameInv, Inv, TypeInv, TypeOK
<1>4. \E wolf \in (alive \cap Wolves) \cup {None} : alive' = alive \ {wolf}
  BY <1>3
<1> QED
  BY <1>1, <1>2, <1>4, SameBoard DEF Game!GameNext, Game!NobodyExiledToday

LEMMA ElectionEndsMaps ==
  ASSUME GameInv, phase \in ElectionPhases, NEW wolf \in (alive \cap Wolves) \cup {None},
         NEW b, NEW n, n = [night EXCEPT !.skip_day = (wolf # None)],
         AnnounceAndContinueNight(alive \ {wolf}, b, n)
  PROVE  Game!GameNext
<1>1. night \in Nights /\ night.deaths = ResolveNight(night) /\ alive = Seats
      /\ winner = "none" /\ pending_hunter = None /\ Stage = "election"
  BY ElectionFacts DEF GameInv, Inv, TypeInv, TypeOK
<1>2. /\ n \in Nights /\ SamePoison(n) /\ n.skip_day = (wolf # None)
      /\ n.wolf_target \in alive \cup {None}
    BY <1>1 DEF Nights, SamePoison, SeatOrNone
<1>3. n.deaths = ResolveNight(n)
  BY <1>1 DEF Nights, ResolveNight
<1>4. \E victim \in alive \cup {None} : Game!Announce(victim, wolf, wolf # None)
  <2>1. wolf \in Wolves \cup {None}
    OBVIOUS
  <2>2. \E victim \in alive \cup {None} : Game!Announce(victim, wolf, n.skip_day)
    BY <1>1, <1>2, <1>3, <2>1, AnnounceMaps
  <2> QED
    BY <1>2, <2>2
<1> QED
  BY <1>1, <1>4, SameBoard DEF Game!GameNext, Game!ElectionEnds

LEMMA SelfDestructMaps ==
  ASSUME GameInv, NEW s \in Seats, SelfDestruct(s)
  PROVE  Game!GameNext
<1>1. /\ phase = "DAY_SPEECH" \/ phase \in ElectionPhases
      /\ s \in alive \cap Wolves
  BY DEF SelfDestruct, CanSelfDestruct
<1>2. CASE phase = "DAY_SPEECH"
  <2>1. AfterDayDeath(night) /\ UNCHANGED pending_hunter /\ alive' = alive \ {s}
    BY <1>2 DEF SelfDestruct
  <2> QED
    BY <1>1, <1>2, <2>1, NobodyExiledMaps
<1>3. CASE phase \in ElectionPhases
  <2>1. phase # "DAY_SPEECH" /\ s # None
    BY <1>3, PlainPhases, SeatFacts
  <2>2. \E b : AnnounceAndContinueNight(alive \ {s}, b, [night EXCEPT !.skip_day = TRUE])
    BY <2>1 DEF SelfDestruct
  <2> QED
    BY <1>1, <1>3, <2>1, <2>2, ElectionEndsMaps
<1> QED
  BY <1>1, <1>2, <1>3

LEMMA DayActionMaps ==
  ASSUME GameInv, DayAction
  PROVE  Game!GameNext \/ UNCHANGED Game!gameVars
<1>1. PICK s \in Seats :
        \/ Speak(s)
        \/ SelfDestruct(s)
        \/ \E t \in Aim["vote"] \cup {None} : CastVote(s, t)
        \/ \E t \in Aim["shoot"] \cup {None} : Shoot(s, t)
        \/ \E t \in Aim["badge"] \cup {None} : PassBadge(s, t)
  BY DEF DayAction
<1>2. ASSUME Speak(s) \/ (\E t : CastVote(s, t)) \/ (\E t : PassBadge(s, t))
      PROVE  UNCHANGED Game!gameVars
  <2>1. UNCHANGED <<phase, resume_token, winner, round, alive, pending_hunter, day_exiled, night>>
    BY <1>2 DEF Speak, CastVote, PassBadge, controlVars
  <2>2. Stage' = Stage /\ Gun' = Gun
    BY <2>1 DEF Stage, Gun
  <2> QED
    BY <2>1, <2>2, Unseen
<1>3. ASSUME NEW t, Shoot(s, t)
      PROVE  Game!GameNext
  <2>1. /\ UNCHANGED <<phase, resume_token, winner, round, day_exiled, night>>
        /\ phase = "HUNTER_SHOOT" /\ s \in ExpectedActors
        /\ alive' = alive \ {t} /\ t \in alive \cup {None} /\ pending_hunter' = None
    BY <1>3 DEF Shoot, CanShoot, OnTurn, controlVars
  <2>2. phase \notin NightPhases
    BY <2>1, PlainPhases
  <2>3. pending_hunter # None
    BY <2>1, <2>2 DEF ExpectedActors
  <2>4. Stage' = Stage /\ Gun # None /\ Gun' = None
    BY <2>1, <2>3 DEF Stage, Gun
  <2> QED
    BY <2>1, <2>4 DEF Game!GameNext, Game!HunterShoots
<1> QED
  BY <1>1, <1>2, <1>3, SelfDestructMaps

LEMMA VoteStepMaps ==
  ASSUME GameInv, \/ OpenVote \/ StartRunoff \/ NobodyExiled
                  \/ \E s \in Seats : FlipIdiot(s) \/ Exile(s)
  PROVE  Game!GameNext \/ UNCHANGED Game!gameVars
<1>1. phase \in {"DAY_SPEECH", "VOTE", "VOTE_PK"}
  BY DEF OpenVote, StartRunoff, NobodyExiled, FlipIdiot, Exile, VoteOver
<1>2. Stage = "day" /\ winner = "none" /\ pending_hunter = None
  BY <1>1, DayFacts
<1>3. CASE OpenVote \/ StartRunoff
  <2>1. /\ phase' \in {"VOTE", "VOTE_PK"}
        /\ UNCHANGED <<winner, round, alive, pending_hunter, night>>
    BY <1>3 DEF OpenVote, StartRunoff, EnterPhase
  <2>2. Stage' = Stage /\ Gun' = Gun
    BY <1>1, <1>2, <2>1, StageAfter, GunOf
  <2> QED
    BY <2>1, <2>2, Unseen
<1>4. CASE NobodyExiled
  BY <1>1, <1>4, NobodyExiledMaps DEF NobodyExiled
<1>5. ASSUME NEW s \in Seats, FlipIdiot(s)
      PROVE  Game!GameNext
  BY <1>1, <1>5, NobodyExiledMaps DEF FlipIdiot
<1>6. ASSUME NEW s \in Seats, Exile(s)
      PROVE  Game!GameNext
  <2>1. s \in alive
    BY <1>6, TiedAlive DEF Exile
  <2>2. /\ phase' = "EXILE" /\ resume_token' = "none" /\ day_exiled' = s
        /\ alive' = alive \ {s} /\ night' = night
        /\ UNCHANGED <<winner, round, pending_hunter>>
    BY <1>6 DEF Exile, EnterPhase, SameRound
  <2>3. Stage' = "dusk"
    BY <2>2, StageAfter DEF DawnTokens
  <2>4. Gun' = IF Role[s] = "HUNTER" THEN s ELSE None
    BY <1>2, <2>2, GunOf DEF Holders
  <2> QED
    BY <1>2, <2>1, <2>2, <2>3, <2>4 DEF Game!GameNext, Game!Exiled
<1> QED
  BY <1>3, <1>4, <1>5, <1>6

LEMMA AfterDeathMaps ==
  ASSUME GameInv, AfterExile \/ AfterHunterShot \/ AfterLastWords
  PROVE  Game!GameNext \/ UNCHANGED Game!gameVars
<1>1. phase \in {"EXILE", "HUNTER_SHOOT", "LAST_WORDS"}
  BY DEF AfterExile, AfterHunterShot, AfterLastWords
<1>2. PathInv /\ winner = "none" /\ night \in Nights /\ night.skip_day \in BOOLEAN
  BY <1>1 DEF GameInv, PlayInv, PathInv, Inv, TypeInv, TypeOK, Nights
<1>3. Stage = IF resume_token \in DawnTokens THEN "dawn" ELSE "dusk"
  BY <1>1, StageOf
<1>4. Stage = "dusk" => night.skip_day = FALSE
  BY <1>2 DEF PathInv
<1>5. SamePoison(night)
  BY DEF SamePoison
<1>6. ASSUME Gun = None, UNCHANGED alive, Stage = "dawn", Game!DayOrCutoff(night.skip_day)
      PROVE  Game!GameNext
  BY <1>6 DEF Game!GameNext, Game!DawnEnds
<1>7. ASSUME Gun = None, UNCHANGED alive, Stage = "dusk", Game!DayEnds(FALSE)
      PROVE  Game!GameNext
  BY <1>7 DEF Game!GameNext, Game!DuskEnds
<1>8. CASE AfterExile
  <2>1. /\ phase = "EXILE" /\ pending_hunter = None /\ Stage = "dusk"
        /\ UNCHANGED <<alive, day_exiled>>
    BY <1>2, <1>3, <1>8 DEF AfterExile, PathInv, DawnTokens
  <2>2. CASE /\ day_exiled \in Holders("HUNTER")
             /\ EnterPhase("HUNTER_SHOOT", "day_after_hunter", speech)
             /\ pending_hunter' = day_exiled
             /\ SameRound(night)
    <3>1. /\ phase' = "HUNTER_SHOOT" /\ resume_token' = "day_after_hunter"
          /\ UNCHANGED <<winner, round>> /\ night' = night
      BY <2>2 DEF EnterPhase, SameRound
    <3>2. Stage' = "dusk" /\ Gun' = Gun
      BY <2>1, <2>2, <3>1, StageAfter, GunOf DEF DawnTokens
    <3> QED
      BY <2>1, <3>1, <3>2, Unseen
  <2>3. CASE day_exiled \notin Holders("HUNTER") /\ EnterDayLastWords /\ UNCHANGED pending_hunter
    <3>1. Gun = None
      BY <2>1, <2>3, GunOf
    <3> QED
      BY <1>2, <1>4, <2>1, <2>3, <3>1, DayLastWordsMaps
  <2> QED
    BY <1>8, <2>2, <2>3 DEF AfterExile
<1>9. CASE AfterHunterShot
  <2>1. phase = "HUNTER_SHOOT" /\ pending_hunter = None /\ UNCHANGED <<alive, pending_hunter>>
    BY <1>9, ShotFired DEF AfterHunterShot
  <2>2. Gun = None /\ pending_hunter' = None
    BY <2>1, GunOf
  <2>3. CASE CheckWin(alive) # "none" /\ GameOver(CheckWin(alive), night)
    <3>1. Game!Decided /\ night'.skip_day = night.skip_day
      BY <1>5, <2>1, <2>2, <2>3, DecidedMaps
    <3> QED
      BY <1>2, <1>3, <1>4, <1>6, <1>7, <2>1, <2>2, <3>1
         DEF Game!DayOrCutoff, Game!DayEnds
  <2>4. CASE /\ CheckWin(alive) = "none" /\ resume_token = "night_after_hunter"
             /\ FinishNightDeaths(badge, night)
    <3>1. Stage = "dawn"
      BY <1>3, <2>4 DEF DawnTokens
    <3>2. CASE /\ Stage' = "dawn" /\ Gun' = None
               /\ UNCHANGED <<winner, round>> /\ night' = night
      BY <2>1, <2>2, <3>1, <3>2, Unseen
    <3>3. CASE Game!DayOrCutoff(night.skip_day)
      BY <1>6, <2>1, <2>2, <3>1, <3>3
    <3> QED
      BY <1>2, <1>5, <2>1, <2>2, <2>4, <3>2, <3>3, DawnMaps
  <2>5. CASE resume_token # "night_after_hunter" /\ EnterDayLastWords
    <3>1. Stage = "dusk"
      BY <1>2, <1>3, <2>1, <2>5 DEF PathInv, DawnTokens
    <3> QED
      BY <1>2, <1>4, <2>1, <2>2, <2>5, <3>1, DayLastWordsMaps
  <2> QED
    BY <1>9, <2>3, <2>4, <2>5 DEF AfterHunterShot
<1>10. CASE AfterLastWords
  <2> DEFINE to_day == resume_token \in {"day_speech", "badge_only:day_speech"}
  <2>1. /\ phase = "LAST_WORDS" /\ pending_hunter = None
        /\ UNCHANGED <<alive, pending_hunter>>
    BY <1>2, <1>10 DEF AfterLastWords, PathInv
  <2>2. Gun = None /\ pending_hunter' = None
    BY <2>1, GunOf
  <2>3. Stage = IF to_day THEN "dawn" ELSE "dusk"
    BY <1>2, <1>3, <2>1
       DEF PathInv, DawnTokens, LastWordsTokens, BadgeWindowTokens
  <2>4. CASE /\ OpenBadgeWindow(IF to_day THEN "badge_only:day_speech"
                                ELSE "badge_only:after_day")
             /\ SameRound(night)
    <3>1. /\ phase' = "LAST_WORDS"
          /\ resume_token' = IF to_day THEN "badge_only:day_speech" ELSE "badge_only:after_day"
          /\ UNCHANGED <<winner, round>> /\ night' = night
      BY <2>4 DEF OpenBadgeWindow, EnterPhase, SameRound
    <3>2. Stage' = Stage /\ Gun' = Gun
      BY <2>2, <2>3, <3>1, StageAfter, GunOf DEF DawnTokens
    <3> QED
      BY <2>1, <3>1, <3>2, Unseen
  <2>5. CASE to_day /\ EnterDaySpeech(night)
    <3>1. Stage = "dawn"
      BY <2>3, <2>5
    <3>2. CheckWin(alive') = "none"
      BY <1>2, <2>1, <2>5 DEF PathInv, DawnTokens
    <3>3. Game!DayOrCutoff(night.skip_day)
      BY <1>2, <1>5, <2>2, <2>5, <3>2, DaybreakMaps
    <3> QED
      BY <1>6, <2>1, <2>2, <3>1, <3>3
  <2>6. CASE ~to_day /\ AfterDayDeath(night)
    <3>1. Game!DayEnds(FALSE)
      BY <1>2, <1>4, <1>5, <2>2, <2>3, <2>6, DayEndsMaps
    <3>2. Stage = "dusk"
      BY <2>3, <2>6
    <3> QED
      BY <1>7, <2>1, <2>2, <3>1, <3>2
  <2> QED
    BY <1>10, <2>4, <2>5, <2>6 DEF AfterLastWords
<1> QED
  BY <1>1, <1>8, <1>9, <1>10

LEMMA ElectionActionMaps ==
  ASSUME ElectionAction
  PROVE  UNCHANGED Game!gameVars
<1>1. ElectionFrame
  BY DEF ElectionAction, Declare, Confirm, VoteSheriff, SetDirection
<1>2. UNCHANGED <<phase, resume_token, winner, round, alive, pending_hunter, day_exiled, night>>
  BY <1>1 DEF ElectionFrame, controlVars
<1>3. Stage' = Stage /\ Gun' = Gun
  BY <1>2 DEF Stage, Gun
<1> QED
  BY <1>2, <1>3, Unseen

LEMMA ElectionStepMaps ==
  ASSUME GameInv, ElectionStep
  PROVE  Game!GameNext \/ UNCHANGED Game!gameVars
<1>1. phase \in ElectionPhases
  BY DEF ElectionStep, AllDeclared, CampaignOver, AllConfirmed, Elect, StartSheriffRunoff,
         NobodyElected, DirectionSet, SheriffVoteOver, InElection, ElectionPhases
<1>2. ASSUME NEW b, EndElection(b)
      PROVE  Game!GameNext
  <2>1. /\ alive = alive \ {None} /\ night.skip_day = FALSE /\ night \in Nights
    BY <1>1, ElectionFacts, SeatFacts DEF GameInv, Inv, TypeInv, TypeOK
  <2>2. night = [night EXCEPT !.skip_day = (None # None)]
    BY <2>1 DEF Nights
  <2>3. AnnounceAndContinueNight(alive \ {None}, b, night)
    BY <1>2, <2>1 DEF EndElection
  <2> QED
    BY <1>1, <2>2, <2>3, ElectionEndsMaps
<1>3. ASSUME phase' \in ElectionPhases,
             UNCHANGED <<winner, round, alive, pending_hunter, night>>
      PROVE  UNCHANGED Game!gameVars
  <2>1. phase # "EXILE" /\ phase' # "EXILE"
    BY <1>1, <1>3, PlainPhases
  <2>2. Stage' = Stage /\ Gun' = Gun
    BY <1>1, <1>3, <2>1, StageOf, StageAfter, GunOf
  <2> QED
    BY <1>3, <2>2, Unseen
<1>4. ASSUME EnterWithdraw
      PROVE  UNCHANGED Game!gameVars
  BY <1>1, <1>3, <1>4 DEF EnterWithdraw, StillElecting, SameRound, controlVars
<1>5. CASE AllDeclared
  BY <1>1, <1>2, <1>3, <1>4, <1>5 DEF AllDeclared, StillElecting, SameRound
<1>6. CASE CampaignOver
  BY <1>4, <1>6 DEF CampaignOver
<1>7. CASE AllConfirmed
  BY <1>1, <1>2, <1>3, <1>7 DEF AllConfirmed, StillElecting, SameRound, controlVars
<1>8. ASSUME NEW s \in Seats, Elect(s)
      PROVE  Game!GameNext \/ UNCHANGED Game!gameVars
  BY <1>2, <1>3, <1>8 DEF Elect, EnterPhase, SameRound, ElectionPhases
<1>9. CASE StartSheriffRunoff
  BY <1>3, <1>9 DEF StartSheriffRunoff, EnterPhase, StillElecting, SameRound, ElectionPhases
<1>10. CASE NobodyElected
  BY <1>2, <1>10 DEF NobodyElected
<1>11. CASE DirectionSet
  BY <1>2, <1>11 DEF DirectionSet
<1> QED
  BY <1>5, <1>6, <1>7, <1>8, <1>9, <1>10, <1>11 DEF ElectionStep

LEMMA InitMaps == Init => Game!GameInit
<1>1. SUFFICES ASSUME Init PROVE Game!GameInit
  OBVIOUS
<1>2. phase \in NightPhases
  BY <1>1, NightOrderType DEF Init
<1>3. phase # "EXILE"
  BY <1>2, PlainPhases
<1>4. Stage = "night" /\ Gun = None
  BY <1>1, <1>2, <1>3, StageOf, GunOf DEF Init
<1> QED
  BY <1>1, <1>4, SameBoard DEF Init, NoNight, Game!GameInit

LEMMA NextMaps == GameInv /\ [Next]_vars => [Game!GameNext]_(Game!gameVars)
<1> SUFFICES ASSUME GameInv, [Next]_vars
             PROVE  Game!GameNext \/ UNCHANGED Game!gameVars
  OBVIOUS
<1>1. CASE PlayerAction
  BY <1>1, NightActionMaps, DayActionMaps, ElectionActionMaps DEF PlayerAction
<1>2. CASE SystemStep
  BY <1>2, NightStepMaps, VoteStepMaps, AfterDeathMaps, ElectionStepMaps
     DEF SystemStep, DayStep
<1>3. CASE UNCHANGED vars
  <2>1. UNCHANGED <<phase, resume_token, winner, round, alive, pending_hunter, day_exiled, night>>
    BY <1>3 DEF vars, controlVars
  <2>2. Stage' = Stage /\ Gun' = Gun
    BY <2>1 DEF Stage, Gun
  <2> QED
    BY <2>1, <2>2, Unseen
<1> QED
  BY <1>1, <1>2, <1>3 DEF Next, Finished

\* On every board, under every combination of rules, the engine plays the game
\* of WerewolfGame: nobody is put out but by a kill that the game knows, at the
\* time it knows; a hunter shoots once, and not when poisoned; a day that was
\* cut short is skipped; and a decided game stops at once.
THEOREM EnginePlaysTheGame == Spec => GameImplemented
  BY InitMaps, NextMaps, GameInvHolds, PTL DEF Spec, GameImplemented, Game!GameSpec

=============================================================================
