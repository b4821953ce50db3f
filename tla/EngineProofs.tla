---------------------------- MODULE EngineProofs ----------------------------
(***************************************************************************)
(* Theorems about the rule engine, for every deal and every set of rules   *)
(* that BoardAssumption and RulesAssumption allow.                         *)
(***************************************************************************)
EXTENDS EngineProps, TLAPS

-----------------------------------------------------------------------------
(* What the pure operators return *)

LEMMA SeatFacts == /\ \A s \in Seats : s \in Int /\ s + 1 \in Int /\ s - 1 \in Int
                   /\ None \notin Seats
                   /\ None \in SeatOrNone /\ Seats \subseteq SeatOrNone
  BY BoardAssumption DEF Seats, SeatOrNone

LEMMA CheckWinType ==
  ASSUME NEW living
  PROVE  CheckWin(living) \in {"GOOD", "WOLF", "none"}
  BY DEF CheckWin

LEMMA ResolveNightType ==
  ASSUME NEW n
  PROVE  ResolveNight(n) \subseteq Seats
  BY DEF ResolveNight

LEMMA ConsensusType ==
  ASSUME NEW proposals, NEW t \in WolfConsensus(proposals)
  PROVE  t \in SeatOrNone
  BY DEF WolfConsensus, SeatOrNone

LEMMA NightOrderType ==
  /\ config.night_order[1] \in NightPhases
  /\ 1 \in DOMAIN config.night_order
  /\ \A i \in DOMAIN config.night_order : config.night_order[i] \in NightPhases
  BY RulesAssumption

LEMMA QueueType ==
  ASSUME NEW who, who \subseteq Seats
  PROVE  /\ Ascending(who) \in Queues
         /\ Descending(who) \in Queues
         /\ \A from \in Int : /\ Queue(who, from, TRUE) \in Queues
                              /\ Queue(who, from, FALSE) \in Queues
  BY BoardAssumption DEF Queue, Ascending, Descending, Queues

LEMMA BlankTypes ==
  /\ NoBallots \in Ballots
  /\ NoNight \in Nights
  BY SeatFacts DEF NoBallots, Ballots, NoNight, Nights

LEMMA BadgeTypes ==
  ASSUME NEW b \in Badges, NEW from \in SeatOrNone, NEW to \in SeatOrNone,
         NEW living, NEW recipients
  PROVE  /\ PassBadgeTo(b, from, to) \in Badges
         /\ AutoBadge(b, living, recipients) \in Badges
         /\ BadgeLost(b) \in Badges
  BY SeatFacts DEF Badges, SeatOrNone, PassBadgeTo, AutoBadge, BadgeLost

-----------------------------------------------------------------------------
(* The types of what a step leads to *)

\* The night phases that the game enters are on the board's night order, so
\* that the phase after one of them is well defined.
Scheduled(p) ==
  p \in NightPhases => \E i \in DOMAIN config.night_order : config.night_order[i] = p

ControlOK == ControlTypeOK /\ Scheduled(phase)

TypeInv == TypeOK /\ Scheduled(phase)

\* What the operators at the end of a step determine.
FlowOK ==
  /\ ControlOK
  /\ round \in Nat
  /\ night \in Nights
  /\ HuntTypeOK
  /\ VoteTypeOK

LEMMA SameRoundType ==
  ASSUME TypeOK, NEW n \in Nights, SameRound(n)
  PROVE  /\ round' \in Nat
         /\ night' \in Nights
         /\ HuntTypeOK'
         /\ VoteTypeOK'
  BY DEF TypeOK, SameRound, huntVars, voteVars, HuntTypeOK, VoteTypeOK

LEMMA OtherPhases ==
  \A p \in Phases \ NightPhases : Scheduled(p)
  BY DEF Scheduled

LEMMA DayPhases ==
  {"LAST_WORDS", "DAY_SPEECH", "VOTE", "VOTE_PK", "EXILE", "HUNTER_SHOOT", "GAME_OVER"}
      \cup ElectionPhases \subseteq Phases \ NightPhases
  BY DEF Phases, NightPhases, ElectionPhases

LEMMA EnterPhaseType ==
  ASSUME TypeOK, NEW p \in Phases, Scheduled(p), NEW token \in Tokens, NEW queue \in Queues,
         EnterPhase(p, token, queue)
  PROVE  ControlOK'
  BY DEF TypeOK, EnterPhase, ControlTypeOK, ControlOK, Scheduled

LEMMA GameOverType ==
  ASSUME TypeOK, NEW n \in Nights, NEW w \in {"GOOD", "WOLF", "none"}, GameOver(w, n)
  PROVE  FlowOK'
<1>1. ControlOK'
  BY OtherPhases, DayPhases DEF TypeOK, GameOver, ControlTypeOK, ControlOK, Scheduled, Tokens
<1> QED
  BY <1>1, SameRoundType DEF GameOver, FlowOK

LEMMA BeginNightType ==
  ASSUME TypeOK, BeginNight
  PROVE  FlowOK'
<1>1. ControlOK'
  <2>1. Ascending({}) \in Queues
    BY QueueType
  <2> QED
    BY <2>1, NightOrderType, EnterPhaseType DEF BeginNight, Scheduled, Phases, Tokens
<1>2. HuntTypeOK'
  BY BlankTypes DEF BeginNight, FreshHunt, HuntTypeOK
<1>3. VoteTypeOK'
  BY BlankTypes DEF BeginNight, VoteTypeOK
<1> QED
  BY <1>1, <1>2, <1>3, BlankTypes DEF TypeOK, BeginNight, FlowOK

LEMMA AfterDayDeathType ==
  ASSUME TypeOK, NEW n \in Nights, AfterDayDeath(n)
  PROVE  FlowOK'
<1>1. CheckWin(alive') \in {"GOOD", "WOLF", "none"}
  BY CheckWinType
<1> QED
  BY <1>1, GameOverType, BeginNightType DEF AfterDayDeath

LEMMA SpeechOrderType ==
  ASSUME TypeOK, NEW n \in Nights, alive' \subseteq Seats, badge' \in Badges
  PROVE  SpeechOrder(n) \subseteq Queues
<1>1. \A d \in n.deaths : d + 1 \in Int
  BY SeatFacts DEF Nights
<1>2. /\ Ascending(alive') \in Queues
      /\ Descending(alive') \in Queues
      /\ \A from \in Int : /\ Queue(alive', from, TRUE) \in Queues
                           /\ Queue(alive', from, FALSE) \in Queues
  BY QueueType
<1>3. AfterLastDeath(n) \subseteq Queues
  <2>1. CASE n.deaths # {}
    <3>1. Highest(n.deaths) \subseteq n.deaths
      BY DEF Highest
    <3> QED
      BY <1>1, <1>2, <2>1, <3>1 DEF AfterLastDeath
  <2>2. CASE n.deaths = {}
    <3>1. day_exiled # None => day_exiled + 1 \in Int
      BY SeatFacts DEF TypeOK, SeatOrNone
    <3> QED
      BY <1>2, <2>2, <3>1 DEF AfterLastDeath
  <2> QED
    BY <2>1, <2>2
<1>4. badge'.seat # None => badge'.seat + 1 \in Int /\ badge'.seat - 1 \in Int
  <2>1. badge'.seat \in SeatOrNone
    BY DEF Badges
  <2> QED
    BY <2>1, SeatFacts DEF SeatOrNone
<1>5. ChiefsOrder(n) \subseteq Queues
  BY <1>2, <1>3, <1>4 DEF ChiefsOrder
<1> QED
  BY <1>2, <1>3, <1>5 DEF SpeechOrder, ClockOrder

LEMMA EnterDaySpeechType ==
  ASSUME TypeOK, NEW n \in Nights, alive' \subseteq Seats, badge' \in Badges,
         EnterDaySpeech(n)
  PROVE  FlowOK'
<1>1. CASE n.skip_day
  BY <1>1, AfterDayDeathType DEF EnterDaySpeech
<1>2. CASE ~n.skip_day
  <2>1. PICK queue \in SpeechOrder(n) : EnterPhase("DAY_SPEECH", "none", queue)
    BY <1>2 DEF EnterDaySpeech
  <2>2. queue \in Queues
    BY <2>1, SpeechOrderType
  <2>3. ControlOK'
    BY <2>1, <2>2, OtherPhases, DayPhases, EnterPhaseType DEF Tokens
  <2> QED
    BY <1>2, <2>3, SameRoundType DEF EnterDaySpeech, FlowOK
<1> QED
  BY <1>1, <1>2

LEMMA OpenBadgeWindowType ==
  ASSUME TypeOK, NEW token \in Tokens, badge' \in Badges, badge'.seat # None,
         OpenBadgeWindow(token)
  PROVE  ControlOK'
<1>1. badge'.seat \in Seats
  BY DEF Badges, SeatOrNone
<1>2. Ascending({badge'.seat}) \in Queues
  BY <1>1, QueueType
<1> QED
  BY <1>2, OtherPhases, DayPhases, EnterPhaseType DEF OpenBadgeWindow

LEMMA LastWordsType ==
  ASSUME TypeOK, NEW n \in Nights, NEW b \in Badges, alive' \subseteq Seats,
         FinishNightDeaths(b, n)
  PROVE  FlowOK' /\ badge' \in Badges
<1> DEFINE recipients == NightLastWords(n.deaths)
<1>1. recipients \subseteq Seats
  BY DEF NightLastWords, Nights
<1>2. badge' \in Badges
  <2>1. b.seat \in SeatOrNone
    BY DEF Badges
  <2>2. AutoBadge(b, alive', recipients) \in Badges
    BY <2>1, BadgeTypes
  <2> QED
    BY <2>2 DEF FinishNightDeaths, LastWordsOf
<1>3. CASE OpenBadgeWindow("badge_only:day_speech") /\ Orphaned(b, alive') /\ SameRound(n)
           /\ badge' = b
  <2>1. ControlOK'
    BY <1>2, <1>3, OpenBadgeWindowType DEF Orphaned, Tokens, BadgeWindowTokens
  <2> QED
    BY <1>2, <1>3, <2>1, SameRoundType DEF FlowOK
<1>4. CASE EnterPhase("LAST_WORDS", "day_speech", Ascending(recipients)) /\ SameRound(n)
  <2>1. ControlOK'
    BY <1>1, <1>4, QueueType, OtherPhases, DayPhases, EnterPhaseType DEF Tokens
  <2> QED
    BY <1>2, <1>4, <2>1, SameRoundType DEF FlowOK
<1>5. CASE EnterDaySpeech(n)
  BY <1>2, <1>5, EnterDaySpeechType
<1> QED
  BY <1>3, <1>4, <1>5 DEF FinishNightDeaths, LastWordsOf

LEMMA AnnounceType ==
  ASSUME TypeOK, NEW n \in Nights, NEW b \in Badges, NEW living, living \subseteq Seats,
         AnnounceAndContinueNight(living, b, n)
  PROVE  /\ FlowOK'
         /\ alive' \subseteq Seats
         /\ badge' \in Badges
         /\ pending_hunter' \in SeatOrNone
<1>1. alive' \subseteq Seats
  BY DEF AnnounceAndContinueNight, Announced
<1>2. CASE GameOver(CheckWin(alive'), n) /\ badge' = b /\ UNCHANGED pending_hunter
  <2>1. CheckWin(alive') \in {"GOOD", "WOLF", "none"}
    BY CheckWinType
  <2> QED
    BY <1>1, <1>2, <2>1, GameOverType DEF TypeOK
<1>3. CASE /\ pending_hunter' \in DeadHunters(n)
           /\ EnterPhase("HUNTER_SHOOT", "night_after_hunter", speech)
           /\ SameRound(n)
           /\ badge' = b
  <2>1. ControlOK'
    BY <1>3, OtherPhases, DayPhases, EnterPhaseType DEF TypeOK, ControlTypeOK, Tokens
  <2>2. pending_hunter' \in n.deaths
    BY <1>3 DEF DeadHunters, Lowest
  <2> QED
    BY <1>1, <1>3, <2>1, <2>2, SameRoundType DEF FlowOK, Nights, SeatOrNone
<1>4. CASE FinishNightDeaths(b, n) /\ UNCHANGED pending_hunter
  BY <1>1, <1>4, LastWordsType DEF TypeOK
<1> QED
  BY <1>2, <1>3, <1>4 DEF AnnounceAndContinueNight

LEMMA DayLastWordsType ==
  ASSUME TypeOK, UNCHANGED alive, EnterDayLastWords
  PROVE  FlowOK' /\ badge' \in Badges
<1> DEFINE recipients == {day_exiled} \ {None}
<1>1. recipients \subseteq Seats
  BY DEF TypeOK, SeatOrNone
<1>2. badge' \in Badges
  <2>1. badge \in Badges /\ badge.seat \in SeatOrNone
    BY DEF TypeOK, Badges
  <2>2. AutoBadge(badge, alive, recipients) \in Badges
    BY <2>1, BadgeTypes
  <2> QED
    BY <2>1, <2>2 DEF EnterDayLastWords
<1>3. CASE OpenBadgeWindow("badge_only:after_day") /\ Orphaned(badge, alive)
           /\ badge' = badge /\ SameRound(night)
  <2>1. ControlOK'
    BY <1>2, <1>3, OpenBadgeWindowType DEF Orphaned, Tokens, BadgeWindowTokens
  <2> QED
    BY <1>2, <1>3, <2>1, SameRoundType DEF FlowOK, TypeOK
<1>4. CASE EnterPhase("LAST_WORDS", "after_day", Ascending(recipients)) /\ SameRound(night)
  <2>1. ControlOK'
    BY <1>1, <1>4, QueueType, OtherPhases, DayPhases, EnterPhaseType DEF Tokens
  <2> QED
    BY <1>2, <1>4, <2>1, SameRoundType DEF FlowOK, TypeOK
<1>5. CASE AfterDayDeath(night)
  BY <1>2, <1>5, AfterDayDeathType DEF TypeOK
<1> QED
  BY <1>3, <1>4, <1>5 DEF EnterDayLastWords

-----------------------------------------------------------------------------
(* Type correctness of every step *)

LEMMA UnchangedTypes ==
  ASSUME TypeOK
  PROVE  /\ UNCHANGED campaignVars => CampaignTypeOK'
         /\ UNCHANGED powerVars => PowerTypeOK'
         /\ UNCHANGED voteVars => VoteTypeOK'
         /\ UNCHANGED huntVars => HuntTypeOK'
         /\ UNCHANGED controlVars => ControlTypeOK'
<1>1. UNCHANGED campaignVars => CampaignTypeOK'
  BY DEF TypeOK, campaignVars, CampaignTypeOK
<1>2. UNCHANGED powerVars => PowerTypeOK'
  BY DEF TypeOK, powerVars, PowerTypeOK
<1>3. UNCHANGED voteVars => VoteTypeOK'
  BY DEF TypeOK, voteVars, VoteTypeOK
<1>4. UNCHANGED huntVars => HuntTypeOK'
  BY DEF TypeOK, huntVars, HuntTypeOK
<1>5. UNCHANGED controlVars => ControlTypeOK'
  BY DEF TypeOK, controlVars, ControlTypeOK
<1> QED
  BY <1>1, <1>2, <1>3, <1>4, <1>5

LEMMA StutterType ==
  ASSUME TypeInv, UNCHANGED vars
  PROVE  TypeInv'
<1>1. /\ CampaignTypeOK' /\ PowerTypeOK' /\ VoteTypeOK' /\ HuntTypeOK' /\ ControlTypeOK'
  BY UnchangedTypes DEF vars, TypeInv
<1> QED
  BY <1>1 DEF vars, controlVars, TypeInv, TypeOK, Scheduled

LEMMA ResolveNightStepType ==
  ASSUME TypeInv, NEW n \in Nights, ResolveNightAndContinue(n)
  PROVE  TypeInv'
<1> DEFINE resolved == [n EXCEPT !.deaths = ResolveNight(n)]
<1>1. resolved \in Nights
  BY ResolveNightType DEF Nights
<1>2. CampaignTypeOK' /\ PowerTypeOK' /\ day_exiled' \in SeatOrNone
  <2>1. CampaignTypeOK' /\ day_exiled' \in SeatOrNone
    BY UnchangedTypes DEF ResolveNightAndContinue, TypeInv, TypeOK
  <2>2. PowerTypeOK'
    BY DEF ResolveNightAndContinue, TypeInv, TypeOK, PowerTypeOK
  <2> QED
    BY <2>1, <2>2
<1>3. FlowOK' /\ alive' \subseteq Seats /\ badge' \in Badges
        /\ pending_hunter' \in SeatOrNone /\ election_stage' \in Stages
  <2>1. CASE /\ alive' = alive \ ResolveNight(n)
             /\ GameOver(CheckWin(alive'), resolved)
             /\ UNCHANGED <<badge, pending_hunter, election_stage>>
    <3>1. CheckWin(alive') \in {"GOOD", "WOLF", "none"}
      BY CheckWinType
    <3> QED
      BY <1>1, <2>1, <3>1, GameOverType DEF TypeInv, TypeOK
  <2>2. CASE /\ EnterPhase("SHERIFF_ELECTION", "none", speech)
             /\ election_stage' = "candidacy"
             /\ SameRound(resolved)
             /\ UNCHANGED <<alive, badge, pending_hunter>>
    <3>1. ControlOK'
      BY <2>2, OtherPhases, DayPhases, EnterPhaseType
         DEF TypeInv, TypeOK, ControlTypeOK, ElectionPhases, Tokens
    <3> QED
      BY <1>1, <2>2, <3>1, SameRoundType DEF TypeInv, TypeOK, FlowOK, Stages
  <2>3. CASE AnnounceAndContinueNight(alive, badge, resolved) /\ UNCHANGED election_stage
    BY <1>1, <2>3, AnnounceType DEF TypeInv, TypeOK
  <2> QED
    BY <2>1, <2>2, <2>3 DEF ResolveNightAndContinue
<1> QED
  BY <1>2, <1>3 DEF FlowOK, ControlOK, TypeInv, TypeOK

LEMMA LeaveNightPhaseType ==
  ASSUME TypeInv, phase \in NightPhases, NEW n \in Nights, LeaveNightPhase(n)
  PROVE  TypeInv'
<1> DEFINE order == config.night_order
           i == CHOOSE j \in DOMAIN order : order[j] = phase
<1>1. i \in DOMAIN order
  BY DEF TypeInv, Scheduled
<1>2. CASE i < Len(order) /\ LeaveNightPhase(n)
  <2>1. i + 1 \in DOMAIN order
    BY <1>1, <1>2, RulesAssumption
  <2>2. order[i + 1] \in Phases /\ Scheduled(order[i + 1])
    BY <2>1, NightOrderType DEF Scheduled, Phases
  <2>3. /\ EnterPhase(order[i + 1], "none", speech)
        /\ SameRound(n)
        /\ UNCHANGED <<alive, powerVars, badge, pending_hunter, day_exiled,
                       election_stage, campaignVars>>
    BY <1>2 DEF LeaveNightPhase
  <2>4. ControlOK'
    BY <2>2, <2>3, EnterPhaseType DEF TypeInv, TypeOK, ControlTypeOK, Tokens
  <2> QED
    BY <2>3, <2>4, SameRoundType, UnchangedTypes DEF ControlOK, TypeInv, TypeOK
<1>3. CASE ~(i < Len(order)) /\ LeaveNightPhase(n)
  BY <1>3, ResolveNightStepType DEF LeaveNightPhase
<1> QED
  BY <1>2, <1>3

LEMMA NightStepType ==
  ASSUME TypeInv, WolfRevote \/ WolfKillDecided \/ NightPhaseOver
  PROVE  TypeInv'
<1>1. CASE WolfRevote
  <2>1. /\ PowerTypeOK' /\ VoteTypeOK' /\ CampaignTypeOK' /\ ControlTypeOK'
    BY <1>1, UnchangedTypes DEF WolfRevote, TypeInv
  <2>2. HuntTypeOK'
    BY <1>1, BlankTypes DEF WolfRevote, TypeInv, TypeOK, HuntTypeOK
  <2> QED
    BY <1>1, <2>1, <2>2 DEF WolfRevote, controlVars, TypeInv, TypeOK, Scheduled
<1>2. CASE WolfKillDecided
  <2>1. PICK t \in WolfConsensus(wolf_proposals) :
          LeaveNightPhase([night EXCEPT !.wolf_target = t])
    BY <1>2 DEF WolfKillDecided
  <2>2. [night EXCEPT !.wolf_target = t] \in Nights
    BY <2>1, ConsensusType DEF TypeInv, TypeOK, Nights
  <2>3. phase \in NightPhases
    BY <1>2 DEF WolfKillDecided, NightPhases
  <2> QED
    BY <2>1, <2>2, <2>3, LeaveNightPhaseType
<1>3. CASE NightPhaseOver
  BY <1>3, LeaveNightPhaseType DEF NightPhaseOver, TypeInv, TypeOK
<1> QED
  BY <1>1, <1>2, <1>3

LEMMA NightActionType ==
  ASSUME TypeInv, NightAction
  PROVE  TypeInv'
<1>1. NightActionFrame
  BY DEF NightAction, Skip, Guard, Propose, Save, Poison, Check
<1>2. /\ ControlTypeOK' /\ VoteTypeOK' /\ CampaignTypeOK'
  BY <1>1, UnchangedTypes DEF NightActionFrame, TypeInv
<1>3. /\ night' \in Nights
      /\ PowerTypeOK'
      /\ HuntTypeOK'
  <2>1. \A k \in AimKinds : Aim[k] \subseteq Seats
    BY BoardAssumption
  <2>2. PICK s \in Seats :
          \/ Skip(s)
          \/ Save(s)
          \/ Check(s)
          \/ \E t \in Aim["guard"] : Guard(s, t)
          \/ \E t \in Aim["kill"] \cup {None} : Propose(s, t)
          \/ \E t \in Aim["poison"] : Poison(s, t)
    BY DEF NightAction
  <2> USE DEF NightActionFrame, Acted, TypeInv, TypeOK, PowerTypeOK, HuntTypeOK
  <2>3. CASE Skip(s)
    BY <2>3, SeatFacts DEF Skip, Nights
  <2>4. CASE Save(s)
    BY <2>4 DEF Save, Nights
  <2>5. CASE Check(s)
    BY <2>5 DEF Check
  <2>6. ASSUME NEW t \in Aim["guard"], Guard(s, t)
        PROVE  night' \in Nights /\ PowerTypeOK' /\ HuntTypeOK'
    <3>1. t \in Seats /\ t \in SeatOrNone
      BY <2>1, <2>6, SeatFacts DEF AimKinds
    <3> QED
      BY <2>6, <3>1 DEF Guard, Nights
  <2>7. ASSUME NEW t \in Aim["kill"] \cup {None}, Propose(s, t)
        PROVE  night' \in Nights /\ PowerTypeOK' /\ HuntTypeOK'
    <3>1. t \in SeatOrNone
      BY <2>1, <2>7, SeatFacts DEF AimKinds
    <3> QED
      BY <2>7, <3>1 DEF Propose, Ballots
  <2>8. ASSUME NEW t \in Aim["poison"], Poison(s, t)
        PROVE  night' \in Nights /\ PowerTypeOK' /\ HuntTypeOK'
    <3>1. t \in SeatOrNone
      BY <2>1, <2>8, SeatFacts DEF AimKinds
    <3> QED
      BY <2>8, <3>1 DEF Poison, Nights
  <2> QED
    BY <2>2, <2>3, <2>4, <2>5, <2>6, <2>7, <2>8
<1> QED
  BY <1>1, <1>2, <1>3 DEF NightActionFrame, controlVars, TypeInv, TypeOK, Scheduled

LEMMA SpeechDoneType ==
  ASSUME TypeInv, NEW s, SpeechDone(s), UNCHANGED <<phase, resume_token, winner>>
  PROVE  ControlOK'
  BY DEF TypeInv, TypeOK, SpeechDone, ControlOK, ControlTypeOK, Scheduled, Queues

LEMMA SelfDestructType ==
  ASSUME TypeInv, NEW s \in Seats, SelfDestruct(s)
  PROVE  TypeInv'
<1> DEFINE living == alive \ {s}
           eaten == IF phase \in ElectionPhases /\ config.wolf_selfdestruct_eats_badge
                    THEN BadgeLost(badge) ELSE badge
           b == AutoBadge(eaten, living, {})
<1>1. b \in Badges
  <2>1. badge \in Badges /\ badge.seat \in SeatOrNone
    BY DEF TypeInv, TypeOK, Badges
  <2>2. eaten \in Badges
    BY <2>1, BadgeTypes
  <2>3. eaten.seat \in SeatOrNone
    BY <2>2 DEF Badges
  <2> QED
    BY <2>2, <2>3, BadgeTypes
<1>2. PowerTypeOK' /\ CampaignTypeOK' /\ day_exiled' \in SeatOrNone
  BY UnchangedTypes DEF SelfDestruct, TypeInv, TypeOK
<1>3. CASE /\ alive' = living
           /\ badge' = b
           /\ AfterDayDeath(night)
           /\ UNCHANGED <<pending_hunter, election_stage>>
  BY <1>1, <1>2, <1>3, AfterDayDeathType DEF FlowOK, ControlOK, TypeInv, TypeOK
<1>4. CASE /\ election_stage' = "none"
           /\ AnnounceAndContinueNight(living, b, [night EXCEPT !.skip_day = TRUE])
  <2>1. [night EXCEPT !.skip_day = TRUE] \in Nights
    BY DEF TypeInv, TypeOK, Nights
  <2>2. living \subseteq Seats
    BY DEF TypeInv, TypeOK
  <2>3. /\ FlowOK'
        /\ alive' \subseteq Seats
        /\ badge' \in Badges
        /\ pending_hunter' \in SeatOrNone
    BY <1>1, <1>4, <2>1, <2>2, AnnounceType DEF TypeInv
  <2> QED
    BY <1>2, <1>4, <2>3 DEF FlowOK, ControlOK, TypeInv, TypeOK, Stages
<1> QED
  BY <1>3, <1>4 DEF SelfDestruct

LEMMA DayActionType ==
  ASSUME TypeInv, DayAction
  PROVE  TypeInv'
<1>1. \A k \in AimKinds : Aim[k] \subseteq Seats
  BY BoardAssumption
<1>2. PICK s \in Seats :
        \/ Speak(s)
        \/ SelfDestruct(s)
        \/ \E t \in Aim["vote"] \cup {None} : CastVote(s, t)
        \/ \E t \in Aim["shoot"] \cup {None} : Shoot(s, t)
        \/ \E t \in Aim["badge"] \cup {None} : PassBadge(s, t)
  BY DEF DayAction
<1>3. CASE Speak(s)
  <2>1. ControlOK'
    BY <1>3, SpeechDoneType DEF Speak
  <2> QED
    BY <1>3, <2>1, UnchangedTypes DEF Speak, ControlOK, TypeInv, TypeOK
<1>4. CASE SelfDestruct(s)
  BY <1>4, SelfDestructType
<1>5. ASSUME NEW t \in Aim["vote"] \cup {None}, CastVote(s, t)
      PROVE  TypeInv'
  <2>1. t \in SeatOrNone
    BY <1>1, <1>5, SeatFacts DEF AimKinds
  <2>2. VoteTypeOK'
    BY <1>5, <2>1 DEF CastVote, TypeInv, TypeOK, VoteTypeOK, Ballots
  <2> QED
    BY <1>5, <2>2, UnchangedTypes DEF CastVote, controlVars, TypeInv, TypeOK, Scheduled
<1>6. ASSUME NEW t \in Aim["shoot"] \cup {None}, Shoot(s, t)
      PROVE  TypeInv'
  BY <1>6, SeatFacts, UnchangedTypes DEF Shoot, controlVars, TypeInv, TypeOK, Scheduled
<1>7. ASSUME NEW t \in Aim["badge"] \cup {None}, PassBadge(s, t)
      PROVE  TypeInv'
  <2>1. t \in SeatOrNone /\ s \in SeatOrNone
    BY <1>1, <1>7, SeatFacts DEF AimKinds
  <2>2. badge' \in Badges
    BY <1>7, <2>1, BadgeTypes DEF PassBadge, TypeInv, TypeOK
  <2>3. ControlOK'
    BY <1>7, SpeechDoneType DEF PassBadge
  <2> QED
    BY <1>7, <2>2, <2>3, UnchangedTypes DEF PassBadge, ControlOK, TypeInv, TypeOK
<1> QED
  BY <1>2, <1>3, <1>4, <1>5, <1>6, <1>7

LEMMA DayStepType ==
  ASSUME TypeInv, DayStep
  PROVE  TypeInv'
<1>1. CASE Unheld /\ UNCHANGED <<alive, day_exiled>> /\ pending_hunter' \in SeatOrNone
           /\ FlowOK' /\ badge' \in Badges
  BY <1>1, UnchangedTypes DEF Unheld, FlowOK, ControlOK, TypeInv, TypeOK
<1>2. CASE OpenVote
  <2>1. ControlOK'
    BY <1>2, OtherPhases, DayPhases, EnterPhaseType
       DEF OpenVote, TypeInv, TypeOK, ControlTypeOK, Tokens
  <2>2. VoteTypeOK'
    BY <1>2, BlankTypes DEF OpenVote, VoteStarted, VoteTypeOK
  <2> QED
    BY <1>1, <1>2, <2>1, <2>2, UnchangedTypes DEF OpenVote, FlowOK, TypeInv, TypeOK
<1>3. CASE StartRunoff
  <2>1. Tied \subseteq Seats
    BY DEF Tied, Leaders
  <2>2. ControlOK'
    BY <1>3, <2>1, QueueType, OtherPhases, DayPhases, EnterPhaseType
       DEF StartRunoff, TypeInv, Tokens
  <2>3. VoteTypeOK'
    BY <1>3, <2>1, BlankTypes DEF StartRunoff, VoteStarted, VoteTypeOK
  <2> QED
    BY <1>1, <1>3, <2>2, <2>3, UnchangedTypes DEF StartRunoff, FlowOK, TypeInv, TypeOK
<1>4. CASE NobodyExiled
  <2>1. FlowOK'
    BY <1>4, AfterDayDeathType DEF NobodyExiled, TypeInv, TypeOK
  <2> QED
    BY <1>4, <2>1, SeatFacts, UnchangedTypes
       DEF NobodyExiled, Unheld, FlowOK, ControlOK, TypeInv, TypeOK
<1>5. ASSUME NEW s \in Seats, FlipIdiot(s)
      PROVE  TypeInv'
  <2>1. FlowOK'
    BY <1>5, AfterDayDeathType DEF FlipIdiot, TypeInv, TypeOK
  <2>2. PowerTypeOK'
    BY <1>5 DEF FlipIdiot, TypeInv, TypeOK, PowerTypeOK
  <2> QED
    BY <1>5, <2>1, <2>2, UnchangedTypes DEF FlipIdiot, FlowOK, ControlOK, TypeInv, TypeOK
<1>6. ASSUME NEW s \in Seats, Exile(s)
      PROVE  TypeInv'
  <2>1. ControlOK'
    BY <1>6, OtherPhases, DayPhases, EnterPhaseType
       DEF Exile, TypeInv, TypeOK, ControlTypeOK, Tokens
  <2> QED
    BY <1>6, <2>1, SeatFacts, SameRoundType, UnchangedTypes
       DEF Exile, Unheld, ControlOK, TypeInv, TypeOK
<1>7. CASE AfterExile
  <2>1. CASE /\ EnterPhase("HUNTER_SHOOT", "day_after_hunter", speech)
             /\ pending_hunter' = day_exiled
             /\ SameRound(night)
             /\ UNCHANGED badge
    <3>1. ControlOK'
      BY <2>1, OtherPhases, DayPhases, EnterPhaseType DEF TypeInv, TypeOK, ControlTypeOK, Tokens
    <3> QED
      BY <1>1, <1>7, <2>1, <3>1, SameRoundType DEF AfterExile, FlowOK, TypeInv, TypeOK
  <2>2. CASE EnterDayLastWords /\ UNCHANGED pending_hunter
    BY <1>1, <1>7, <2>2, DayLastWordsType DEF AfterExile, TypeInv, TypeOK
  <2> QED
    BY <1>7, <2>1, <2>2 DEF AfterExile
<1>8. CASE AfterHunterShot
  <2>1. CASE GameOver(CheckWin(alive), night) /\ UNCHANGED badge
    <3>1. CheckWin(alive) \in {"GOOD", "WOLF", "none"}
      BY CheckWinType
    <3> QED
      BY <1>1, <1>8, <2>1, <3>1, GameOverType DEF AfterHunterShot, TypeInv, TypeOK
  <2>2. CASE FinishNightDeaths(badge, night)
    BY <1>1, <1>8, <2>2, LastWordsType DEF AfterHunterShot, TypeInv, TypeOK
  <2>3. CASE EnterDayLastWords
    BY <1>1, <1>8, <2>3, DayLastWordsType DEF AfterHunterShot, TypeInv, TypeOK
  <2> QED
    BY <1>8, <2>1, <2>2, <2>3 DEF AfterHunterShot
<1>9. CASE AfterLastWords
  <2>1. alive' \subseteq Seats /\ badge' \in Badges /\ night \in Nights
    BY <1>9 DEF AfterLastWords, TypeInv, TypeOK
  <2>2. CASE \E token \in BadgeWindowTokens :
               OpenBadgeWindow(token) /\ SameRound(night) /\ Orphaned(badge, alive)
    <3>1. ControlOK'
      BY <1>9, <2>1, <2>2, OpenBadgeWindowType DEF AfterLastWords, Orphaned, Tokens, TypeInv
    <3> QED
      BY <1>1, <1>9, <2>1, <2>2, <3>1, SameRoundType DEF AfterLastWords, FlowOK, TypeInv, TypeOK
  <2>3. CASE EnterDaySpeech(night)
    BY <1>1, <1>9, <2>1, <2>3, EnterDaySpeechType DEF AfterLastWords, TypeInv, TypeOK
  <2>4. CASE AfterDayDeath(night)
    BY <1>1, <1>9, <2>1, <2>4, AfterDayDeathType DEF AfterLastWords, TypeInv, TypeOK
  <2> QED
    BY <1>9, <2>2, <2>3, <2>4 DEF AfterLastWords, BadgeWindowTokens
<1> QED
  BY <1>2, <1>3, <1>4, <1>5, <1>6, <1>7, <1>8, <1>9 DEF DayStep

LEMMA ElectionActionType ==
  ASSUME TypeInv, ElectionAction
  PROVE  TypeInv'
<1>1. PICK s \in Seats :
        \/ \E running \in BOOLEAN : Declare(s, running) \/ Confirm(s, running)
        \/ \E t \in Seats : VoteSheriff(s, t)
        \/ \E d \in {"LEFT", "RIGHT"} : SetDirection(s, d)
  BY DEF ElectionAction
<1>2. ElectionFrame
  BY <1>1 DEF Declare, Confirm, VoteSheriff, SetDirection
<1>3. CampaignTypeOK' /\ election_stage' \in Stages
  <2> USE DEF TypeInv, TypeOK, CampaignTypeOK
  <2>1. ASSUME NEW running \in BOOLEAN, Declare(s, running)
        PROVE  CampaignTypeOK' /\ election_stage' \in Stages
    BY <2>1 DEF Declare
  <2>2. ASSUME NEW running \in BOOLEAN, Confirm(s, running)
        PROVE  CampaignTypeOK' /\ election_stage' \in Stages
    BY <2>2 DEF Confirm
  <2>3. ASSUME NEW t \in Seats, VoteSheriff(s, t)
        PROVE  CampaignTypeOK' /\ election_stage' \in Stages
    BY <2>3, SeatFacts DEF VoteSheriff, Ballots
  <2>4. ASSUME NEW d \in {"LEFT", "RIGHT"}, SetDirection(s, d)
        PROVE  CampaignTypeOK' /\ election_stage' \in Stages
    BY <2>4 DEF SetDirection, Stages
  <2> QED
    BY <1>1, <2>1, <2>2, <2>3, <2>4
<1> QED
  BY <1>2, <1>3, UnchangedTypes DEF ElectionFrame, controlVars, TypeInv, TypeOK, Scheduled

LEMMA EndElectionType ==
  ASSUME TypeInv, NEW b \in Badges, EndElection(b)
  PROVE  /\ FlowOK'
         /\ alive' \subseteq Seats
         /\ badge' \in Badges
         /\ pending_hunter' \in SeatOrNone
         /\ election_stage' \in Stages
  BY AnnounceType DEF EndElection, TypeInv, TypeOK, Stages

LEMMA EnterWithdrawType ==
  ASSUME TypeInv, EnterWithdraw, UNCHANGED <<powerVars, day_exiled>>
  PROVE  TypeInv'
<1>1. CampaignTypeOK'
  BY DEF EnterWithdraw, TypeInv, TypeOK, CampaignTypeOK
<1> QED
  BY <1>1, SameRoundType, UnchangedTypes
     DEF EnterWithdraw, StillElecting, controlVars, TypeInv, TypeOK, Scheduled, Stages

LEMMA VoteStartType ==
  ASSUME TypeInv, NEW candidates, candidates \subseteq Seats,
         SheriffVoteStarted(candidates),
         UNCHANGED <<sheriff_declared, sheriff_withdrawn, sheriff_confirmed,
                     sheriff_speech_direction>>
  PROVE  CampaignTypeOK'
  BY BlankTypes DEF SheriffVoteStarted, TypeInv, TypeOK, CampaignTypeOK

LEMMA ElectionStepType ==
  ASSUME TypeInv, ElectionStep
  PROVE  TypeInv'
<1>1. badge \in Badges /\ BadgeLost(badge) \in Badges
  BY BadgeTypes, SeatFacts DEF TypeInv, TypeOK
<1>2. ASSUME NEW b \in Badges, EndElection(b), UNCHANGED <<powerVars, day_exiled, campaignVars>>
      PROVE  TypeInv'
  BY <1>2, EndElectionType, UnchangedTypes DEF FlowOK, ControlOK, TypeInv, TypeOK
<1>3. CASE AllDeclared
  <2>1. CASE EndElection(BadgeLost(badge)) /\ UNCHANGED campaignVars
    BY <1>1, <1>2, <1>3, <2>1 DEF AllDeclared
  <2>2. CASE /\ election_stage' = "speech"
             /\ speech' \in CampaignSpeechOrders
             /\ StillElecting
             /\ UNCHANGED <<phase, resume_token, winner, campaignVars>>
    <3>1. CampaignSpeechOrders \subseteq Queues
      BY QueueType DEF CampaignSpeechOrders, TypeInv, TypeOK, CampaignTypeOK
    <3>2. ControlOK'
      BY <2>2, <3>1 DEF TypeInv, TypeOK, ControlTypeOK, ControlOK, Scheduled
    <3> QED
      BY <1>3, <2>2, <3>2, SameRoundType, UnchangedTypes
         DEF AllDeclared, StillElecting, ControlOK, TypeInv, TypeOK, Stages
  <2>3. CASE EnterWithdraw
    BY <1>3, <2>3, EnterWithdrawType DEF AllDeclared
  <2> QED
    BY <1>3, <2>1, <2>2, <2>3 DEF AllDeclared
<1>4. CASE CampaignOver
  BY <1>4, EnterWithdrawType DEF CampaignOver
<1>5. CASE AllConfirmed
  <2>1. CASE EndElection(BadgeLost(badge)) /\ UNCHANGED campaignVars
    BY <1>1, <1>2, <1>5, <2>1 DEF AllConfirmed
  <2>2. CASE /\ election_stage' = "vote"
             /\ SheriffVoteStarted(sheriff_candidates)
             /\ StillElecting
             /\ UNCHANGED <<controlVars, sheriff_declared, sheriff_withdrawn, sheriff_confirmed,
                            sheriff_speech_direction>>
    <3>1. CampaignTypeOK'
      BY <2>2, VoteStartType DEF TypeInv, TypeOK, CampaignTypeOK
    <3> QED
      BY <1>5, <2>2, <3>1, SameRoundType, UnchangedTypes
         DEF AllConfirmed, StillElecting, controlVars, TypeInv, TypeOK, Scheduled, Stages
  <2> QED
    BY <1>5, <2>1, <2>2 DEF AllConfirmed
<1>6. ASSUME NEW s \in Seats, Elect(s)
      PROVE  TypeInv'
  <2> DEFINE b == [seat |-> s, flags |-> (badge.flags \ {badge.seat}) \cup {s}]
  <2>1. b \in Badges
    BY <1>1, SeatFacts DEF Badges
  <2>2. CASE /\ EnterPhase("SHERIFF_ELECTION", "none", speech)
             /\ election_stage' = "direction"
             /\ badge' = b
             /\ SameRound(night)
             /\ UNCHANGED <<alive, pending_hunter>>
    <3>1. ControlOK'
      BY <2>2, OtherPhases, DayPhases, EnterPhaseType
         DEF TypeInv, TypeOK, ControlTypeOK, ElectionPhases, Tokens
    <3> QED
      BY <1>6, <2>1, <2>2, <3>1, SameRoundType, UnchangedTypes
         DEF Elect, SheriffVoteOver, ControlOK, TypeInv, TypeOK, Stages
  <2>3. CASE EndElection(b)
    BY <1>2, <1>6, <2>1, <2>3 DEF Elect, SheriffVoteOver
  <2> QED
    BY <1>6, <2>2, <2>3 DEF Elect
<1>7. CASE StartSheriffRunoff
  <2>1. SheriffTied \subseteq Seats
    BY DEF SheriffTied, Leaders
  <2>2. ControlOK'
    BY <1>7, <2>1, QueueType, OtherPhases, DayPhases, EnterPhaseType
       DEF StartSheriffRunoff, ElectionPhases, TypeInv, Tokens
  <2>3. CampaignTypeOK'
    BY <1>7, <2>1, VoteStartType DEF StartSheriffRunoff
  <2> QED
    BY <1>7, <2>2, <2>3, SameRoundType, UnchangedTypes
       DEF StartSheriffRunoff, SheriffVoteOver, StillElecting, ControlOK, TypeInv, TypeOK
<1>8. CASE NobodyElected
  BY <1>1, <1>2, <1>8 DEF NobodyElected, SheriffVoteOver
<1>9. CASE DirectionSet
  BY <1>1, <1>2, <1>9 DEF DirectionSet
<1> QED
  BY <1>3, <1>4, <1>5, <1>6, <1>7, <1>8, <1>9 DEF ElectionStep

LEMMA InitType == Init => TypeInv
<1> SUFFICES ASSUME Init PROVE TypeInv
  OBVIOUS
<1>1. ControlTypeOK /\ Scheduled(phase)
  <2>1. Ascending({}) \in Queues
    BY QueueType
  <2> QED
    BY <2>1, NightOrderType DEF Init, ControlTypeOK, Scheduled, Phases, Tokens
<1>2. PowerTypeOK
  BY SeatFacts DEF Init, PowerTypeOK
<1>3. HuntTypeOK
  BY BlankTypes DEF Init, HuntTypeOK
<1>4. VoteTypeOK
  BY BlankTypes DEF Init, VoteTypeOK
<1>5. CampaignTypeOK
  BY BlankTypes DEF Init, CampaignTypeOK
<1> QED
  BY <1>1, <1>2, <1>3, <1>4, <1>5, SeatFacts, BlankTypes DEF Init, TypeInv, TypeOK, Badges, Stages

LEMMA NextType == TypeInv /\ [Next]_vars => TypeInv'
<1> SUFFICES ASSUME TypeInv, [Next]_vars PROVE TypeInv'
  OBVIOUS
<1>1. CASE PlayerAction
  BY <1>1, NightActionType, DayActionType, ElectionActionType DEF PlayerAction
<1>2. CASE SystemStep
  BY <1>2, NightStepType, DayStepType, ElectionStepType DEF SystemStep
<1>3. CASE Finished
  BY <1>3, StutterType DEF Finished
<1>4. CASE UNCHANGED vars
  BY <1>4, StutterType
<1> QED
  BY <1>1, <1>2, <1>3, <1>4 DEF Next

\* Every reachable state of the engine is well typed: no step of step or advance
\* leaves a field of GameState outside its domain, whatever the board and the rules.
THEOREM TypeCorrect == Spec => []TypeOK
<1>1. Spec => []TypeInv
  BY InitType, NextType, PTL DEF Spec
<1>2. TypeInv => TypeOK
  BY DEF TypeInv
<1> QED
  BY <1>1, <1>2, PTL

-----------------------------------------------------------------------------
(***************************************************************************)
(* Where the badge and the dead of a night may be: the steps of the engine *)
(* that put somebody out.                                                  *)
(*                                                                         *)
(* The invariant follows the badge through a step.  A seat that is put out *)
(* leaves the phases in which the badge must be on a living seat (or the   *)
(* badge is torn up at once), and the way back to them leads through       *)
(* EnterDaySpeech and AfterDayDeath, which are reached only with the badge *)
(* in order, if need be after a window in which nothing can be done but to *)
(* hand it on.                                                             *)
(***************************************************************************)

TwoStep == config.night_death_badge_window

BadgeSafe == badge.seat \in alive \cup {None}

Unannounced == NightPhases \cup ElectionPhases
SettledPhases == Unannounced \cup {"DAY_SPEECH", "VOTE", "VOTE_PK"}

\* What holds of the badge, the dead and the first day between two steps.
TableInv ==
  /\ round \in Nat \ {0}
  /\ phase \in ElectionPhases \/ (phase \in NightPhases /\ round = 1) => alive = Seats
  /\ phase \notin Unannounced => night.deaths \cap alive = {}
  /\ TwoStep /\ phase \in SettledPhases => BadgeSafe
  /\ TwoStep /\ IsBadgeOnlyWindow => BadgeSafe \/ speech.who = {badge.seat}

Inv == TypeInv /\ BadgeConsistent /\ TableInv

-----------------------------------------------------------------------------
(* One record of the badge, and one queue of one seat *)

Single(b) == b.flags = {b.seat} \ {None}

LEMMA SingleBadge ==
  ASSUME NEW b \in Badges, Single(b), NEW living, NEW recipients
  PROVE  /\ \A to \in SeatOrNone : Single(PassBadgeTo(b, b.seat, to))
         /\ Single(AutoBadge(b, living, recipients))
         /\ Single(BadgeLost(b))
  BY SeatFacts DEF Badges, Single, PassBadgeTo, AutoBadge, BadgeLost

LEMMA LoneSpeaker ==
  ASSUME NEW queue \in Queues, NEW s \in Seats, queue.who = {s}
  PROVE  NextSpeaker(queue) = {s}
<1>1. Distance(queue, s) \in Int
  <2>1. N \in Nat /\ N # 0
    BY BoardAssumption DEF Seats
  <2>2. queue.from \in Int /\ s \in Int
    BY SeatFacts DEF Queues
  <2> QED
    BY <2>1, <2>2 DEF Distance
<1> QED
  BY <1>1 DEF NextSpeaker

-----------------------------------------------------------------------------
(* Where the end of a step leaves the table *)

LEMMA GameOverTable ==
  ASSUME Inv, NEW n \in Nights, NEW w, GameOver(w, n), n.deaths \cap alive' = {}
  PROVE  TableInv'
  BY DEF Inv, TableInv, GameOver, SameRound, IsBadgeOnlyWindow, Unannounced, SettledPhases,
         NightPhases, ElectionPhases

LEMMA BeginNightTable ==
  ASSUME Inv, BeginNight, TwoStep => BadgeSafe'
  PROVE  TableInv'
<1>1. phase' \in NightPhases
  BY NightOrderType DEF BeginNight, EnterPhase
<1>2. phase' # "LAST_WORDS" /\ phase' \notin ElectionPhases
  BY <1>1 DEF NightPhases, ElectionPhases
<1>3. round' \in Nat \ {0} /\ round' # 1
  BY DEF BeginNight, Inv, TableInv
<1> QED
  BY <1>1, <1>2, <1>3 DEF TableInv, IsBadgeOnlyWindow, Unannounced

LEMMA AfterDayDeathTable ==
  ASSUME Inv, NEW n \in Nights, AfterDayDeath(n), n.deaths \cap alive' = {},
         TwoStep => BadgeSafe'
  PROVE  TableInv'
  BY GameOverTable, BeginNightTable DEF AfterDayDeath

LEMMA EnterPhaseTable ==
  ASSUME Inv, NEW n \in Nights, NEW p, NEW token, NEW queue,
         EnterPhase(p, token, queue), SameRound(n), n.deaths \cap alive' = {},
         p \notin Unannounced,
         TwoStep /\ p \in SettledPhases => BadgeSafe',
         TwoStep /\ p = "LAST_WORDS" /\ token \in BadgeWindowTokens => queue.who = {badge'.seat}
  PROVE  TableInv'
  BY DEF Inv, TableInv, EnterPhase, SameRound, IsBadgeOnlyWindow, Unannounced

LEMMA EnterDaySpeechTable ==
  ASSUME Inv, NEW n \in Nights, EnterDaySpeech(n), n.deaths \cap alive' = {},
         TwoStep => BadgeSafe'
  PROVE  TableInv'
<1>1. CASE n.skip_day
  BY <1>1, AfterDayDeathTable DEF EnterDaySpeech
<1>2. CASE ~n.skip_day
  <2>1. PICK queue \in SpeechOrder(n) : EnterPhase("DAY_SPEECH", "none", queue)
    BY <1>2 DEF EnterDaySpeech
  <2>2. SameRound(n)
    BY <1>2 DEF EnterDaySpeech
  <2> QED
    BY <2>1, <2>2, EnterPhaseTable DEF Unannounced, NightPhases, ElectionPhases
<1> QED
  BY <1>1, <1>2

LEMMA OpenBadgeWindowTable ==
  ASSUME Inv, NEW n \in Nights, NEW token, OpenBadgeWindow(token), SameRound(n),
         n.deaths \cap alive' = {}
  PROVE  TableInv'
<1>1. Ascending({badge'.seat}).who = {badge'.seat}
  BY DEF Ascending, Queue
<1>2. "LAST_WORDS" \notin SettledPhases
  BY DEF SettledPhases, Unannounced, NightPhases, ElectionPhases
<1> QED
  BY <1>1, <1>2, EnterPhaseTable DEF OpenBadgeWindow, SettledPhases

LEMMA LastWordsTable ==
  ASSUME Inv, NEW n \in Nights, NEW token, NEW queue, token \notin BadgeWindowTokens,
         EnterPhase("LAST_WORDS", token, queue), SameRound(n), n.deaths \cap alive' = {}
  PROVE  TableInv'
<1>1. "LAST_WORDS" \notin SettledPhases
  BY DEF SettledPhases, Unannounced, NightPhases, ElectionPhases
<1> QED
  BY <1>1, EnterPhaseTable DEF SettledPhases

LEMMA FinishNightTable ==
  ASSUME Inv, NEW n \in Nights, NEW b \in Badges, Single(b), FinishNightDeaths(b, n),
         n.deaths \cap alive' = {}
  PROVE  TableInv' /\ BadgeConsistent'
<1> DEFINE recipients == NightLastWords(n.deaths)
<1>1. BadgeConsistent'
  BY SingleBadge DEF FinishNightDeaths, LastWordsOf, BadgeConsistent, Single
<1>2. CASE OpenBadgeWindow("badge_only:day_speech") /\ SameRound(n)
  BY <1>1, <1>2, OpenBadgeWindowTable
<1>3. CASE EnterPhase("LAST_WORDS", "day_speech", Ascending(recipients)) /\ SameRound(n)
  BY <1>1, <1>3, LastWordsTable DEF BadgeWindowTokens
<1>4. CASE EnterDaySpeech(n) /\ recipients = {} /\ (TwoStep => badge' = b /\ ~Orphaned(b, alive'))
  <2>1. TwoStep => BadgeSafe'
    BY <1>4 DEF Orphaned, BadgeSafe
  <2> QED
    BY <1>1, <1>4, <2>1, EnterDaySpeechTable
<1> QED
  BY <1>2, <1>3, <1>4 DEF FinishNightDeaths, LastWordsOf, TwoStep

LEMMA DayLastWordsTable ==
  ASSUME Inv, EnterDayLastWords, UNCHANGED alive, night.deaths \cap alive = {}
  PROVE  TableInv' /\ BadgeConsistent'
<1> DEFINE recipients == {day_exiled} \ {None}
<1>1. badge \in Badges /\ Single(badge) /\ night \in Nights
  BY DEF Inv, TypeInv, TypeOK, BadgeConsistent, Single
<1>2. BadgeConsistent'
  BY <1>1, SingleBadge DEF EnterDayLastWords, BadgeConsistent, Single
<1>3. CASE OpenBadgeWindow("badge_only:after_day") /\ SameRound(night)
  BY <1>1, <1>2, <1>3, OpenBadgeWindowTable
<1>4. CASE EnterPhase("LAST_WORDS", "after_day", Ascending(recipients)) /\ SameRound(night)
  BY <1>1, <1>2, <1>4, LastWordsTable DEF BadgeWindowTokens
<1>5. CASE AfterDayDeath(night) /\ (TwoStep => badge' = badge /\ ~Orphaned(badge, alive))
  <2>1. TwoStep => BadgeSafe'
    BY <1>5 DEF Orphaned, BadgeSafe
  <2> QED
    BY <1>1, <1>2, <1>5, <2>1, AfterDayDeathTable
<1> QED
  BY <1>3, <1>4, <1>5 DEF EnterDayLastWords, TwoStep

LEMMA AnnounceTable ==
  ASSUME Inv, NEW n \in Nights, NEW b \in Badges, Single(b), NEW living,
         AnnounceAndContinueNight(living, b, n)
  PROVE  TableInv' /\ BadgeConsistent'
<1>1. n.deaths \cap alive' = {}
  BY DEF AnnounceAndContinueNight, Announced
<1>2. CASE GameOver(CheckWin(alive'), n) /\ badge' = b
  BY <1>1, <1>2, GameOverTable DEF BadgeConsistent, Single
<1>3. CASE /\ EnterPhase("HUNTER_SHOOT", "night_after_hunter", speech)
           /\ SameRound(n)
           /\ badge' = b
  <2>1. "HUNTER_SHOOT" \notin SettledPhases
    BY DEF SettledPhases, Unannounced, NightPhases, ElectionPhases
  <2> QED
    BY <1>1, <1>3, <2>1, EnterPhaseTable DEF SettledPhases, BadgeConsistent, Single
<1>4. CASE FinishNightDeaths(b, n)
  BY <1>1, <1>4, FinishNightTable
<1> QED
  BY <1>2, <1>3, <1>4 DEF AnnounceAndContinueNight

-----------------------------------------------------------------------------
(* Every step keeps the invariant *)

LEMMA FrameTable ==
  ASSUME Inv, UNCHANGED <<phase, resume_token, round, alive, badge>>,
         phase \in Unannounced \/ UNCHANGED night,
         phase = "LAST_WORDS" => UNCHANGED speech
  PROVE  TableInv' /\ BadgeConsistent'
  BY DEF Inv, TableInv, BadgeConsistent, BadgeSafe, IsBadgeOnlyWindow, Unannounced,
         NightPhases, ElectionPhases

LEMMA NightActionTable ==
  ASSUME Inv, NightAction
  PROVE  TableInv' /\ BadgeConsistent'
<1>1. NightActionFrame
  BY DEF NightAction, Skip, Guard, Propose, Save, Poison, Check
<1>2. phase \in NightPhases
  BY DEF NightAction, Skip, Guard, Propose, Save, Poison, Check, CanSkip, CanGuard, CanPropose,
         CanSave, CanPoison, CanCheck, NightPhases
<1> QED
  BY <1>1, <1>2, FrameTable
     DEF NightActionFrame, controlVars, Unannounced, NightPhases

LEMMA ResolveNightTable ==
  ASSUME Inv, phase \in NightPhases, NEW n \in Nights, ResolveNightAndContinue(n)
  PROVE  TableInv' /\ BadgeConsistent'
<1> DEFINE resolved == [n EXCEPT !.deaths = ResolveNight(n)]
<1>1. resolved \in Nights /\ resolved.deaths = ResolveNight(n)
  BY ResolveNightType DEF Nights
<1>2. CASE /\ alive' = alive \ ResolveNight(n)
           /\ GameOver(CheckWin(alive'), resolved)
           /\ UNCHANGED badge
  <2>1. resolved.deaths \cap alive' = {}
    BY <1>1, <1>2
  <2> QED
    BY <1>1, <1>2, <2>1, GameOverTable DEF Inv, BadgeConsistent
<1>3. CASE /\ round = 1
           /\ EnterPhase("SHERIFF_ELECTION", "none", speech)
           /\ SameRound(resolved)
           /\ UNCHANGED <<alive, badge>>
  <2>1. alive' = Seats /\ (TwoStep => BadgeSafe')
    BY <1>3 DEF Inv, TableInv, SettledPhases, Unannounced, BadgeSafe
  <2> QED
    BY <1>3, <2>1 DEF Inv, TableInv, BadgeConsistent, EnterPhase, SameRound, IsBadgeOnlyWindow,
       Unannounced, NightPhases, ElectionPhases
<1>4. CASE AnnounceAndContinueNight(alive, badge, resolved)
  BY <1>1, <1>4, AnnounceTable DEF Inv, TypeInv, TypeOK, BadgeConsistent, Single
<1> QED
  BY <1>2, <1>3, <1>4 DEF ResolveNightAndContinue

LEMMA LeaveNightPhaseTable ==
  ASSUME Inv, phase \in NightPhases, NEW n \in Nights, LeaveNightPhase(n)
  PROVE  TableInv' /\ BadgeConsistent'
<1> DEFINE order == config.night_order
           i == CHOOSE j \in DOMAIN order : order[j] = phase
<1>1. i \in DOMAIN order
  BY DEF Inv, TypeInv, Scheduled
<1>2. CASE i < Len(order)
  <2>1. order[i + 1] \in NightPhases
    <3>1. i + 1 \in DOMAIN order
      BY <1>1, <1>2, RulesAssumption
    <3> QED
      BY <3>1, NightOrderType
  <2>2. phase' \in NightPhases /\ UNCHANGED <<round, alive, badge>>
    BY <1>2, <2>1 DEF LeaveNightPhase, EnterPhase, SameRound
  <2> QED
    BY <2>2 DEF Inv, TableInv, BadgeConsistent, BadgeSafe, IsBadgeOnlyWindow, Unannounced,
       SettledPhases, NightPhases, ElectionPhases
<1>3. CASE ~(i < Len(order))
  BY <1>3, ResolveNightTable DEF LeaveNightPhase
<1> QED
  BY <1>2, <1>3

LEMMA NightStepTable ==
  ASSUME Inv, WolfRevote \/ WolfKillDecided \/ NightPhaseOver
  PROVE  TableInv' /\ BadgeConsistent'
<1>1. CASE WolfRevote
  BY <1>1, FrameTable DEF WolfRevote, controlVars
<1>2. CASE WolfKillDecided
  <2>1. PICK t \in WolfConsensus(wolf_proposals) :
          LeaveNightPhase([night EXCEPT !.wolf_target = t])
    BY <1>2 DEF WolfKillDecided
  <2>2. [night EXCEPT !.wolf_target = t] \in Nights
    BY <2>1, ConsensusType DEF Inv, TypeInv, TypeOK, Nights
  <2>3. phase \in NightPhases
    BY <1>2 DEF WolfKillDecided, NightPhases
  <2> QED
    BY <2>1, <2>2, <2>3, LeaveNightPhaseTable
<1>3. CASE NightPhaseOver
  BY <1>3, LeaveNightPhaseTable DEF NightPhaseOver, Inv, TypeInv, TypeOK
<1> QED
  BY <1>1, <1>2, <1>3

LEMMA SelfDestructTable ==
  ASSUME Inv, NEW s \in Seats, SelfDestruct(s)
  PROVE  TableInv' /\ BadgeConsistent'
<1> DEFINE living == alive \ {s}
           eaten == IF phase \in ElectionPhases /\ config.wolf_selfdestruct_eats_badge
                    THEN BadgeLost(badge) ELSE badge
           b == AutoBadge(eaten, living, {})
<1>1. b \in Badges /\ Single(b)
  <2>1. badge \in Badges /\ Single(badge) /\ badge.seat \in SeatOrNone
    BY DEF Inv, TypeInv, TypeOK, Badges, BadgeConsistent, Single
  <2>2. eaten \in Badges /\ Single(eaten)
    BY <2>1, BadgeTypes, SingleBadge
  <2>3. eaten.seat \in SeatOrNone
    BY <2>2 DEF Badges
  <2> QED
    BY <2>2, <2>3, BadgeTypes, SingleBadge
<1>2. b.seat \in living \cup {None}
  BY DEF AutoBadge, Orphaned, PassBadgeTo
<1>3. CASE phase = "DAY_SPEECH" /\ alive' = living /\ badge' = b /\ AfterDayDeath(night)
  <2>1. night.deaths \cap alive' = {}
    BY <1>3 DEF Inv, TableInv, Unannounced, NightPhases, ElectionPhases
  <2>2. BadgeSafe'
    BY <1>2, <1>3 DEF BadgeSafe
  <2> QED
    BY <1>1, <1>3, <2>1, <2>2, AfterDayDeathTable
       DEF Inv, TypeInv, TypeOK, BadgeConsistent, Single
<1>4. CASE AnnounceAndContinueNight(living, b, [night EXCEPT !.skip_day = TRUE])
  <2>1. [night EXCEPT !.skip_day = TRUE] \in Nights
    BY DEF Inv, TypeInv, TypeOK, Nights
  <2> QED
    BY <1>1, <1>4, <2>1, AnnounceTable
<1> QED
  BY <1>3, <1>4 DEF SelfDestruct

LEMMA DayActionTable ==
  ASSUME Inv, DayAction
  PROVE  TableInv' /\ BadgeConsistent'
<1>1. PICK s \in Seats :
        \/ Speak(s)
        \/ SelfDestruct(s)
        \/ \E t \in Aim["vote"] \cup {None} : CastVote(s, t)
        \/ \E t \in Aim["shoot"] \cup {None} : Shoot(s, t)
        \/ \E t \in Aim["badge"] \cup {None} : PassBadge(s, t)
  BY DEF DayAction
<1>2. CASE Speak(s)
  BY <1>2 DEF Speak, CanSpeak, Inv, TableInv, BadgeConsistent, BadgeSafe, IsBadgeOnlyWindow
<1>3. CASE SelfDestruct(s)
  BY <1>3, SelfDestructTable
<1>4. ASSUME NEW t, CastVote(s, t)
      PROVE  TableInv' /\ BadgeConsistent'
  BY <1>4, FrameTable DEF CastVote, controlVars
<1>5. ASSUME NEW t, Shoot(s, t)
      PROVE  TableInv' /\ BadgeConsistent'
  <2>1. "HUNTER_SHOOT" \notin SettledPhases
    BY DEF SettledPhases, Unannounced, NightPhases, ElectionPhases
  <2> QED
    BY <1>5, <2>1 DEF Shoot, CanShoot, controlVars, Inv, TableInv, BadgeConsistent,
       IsBadgeOnlyWindow, SettledPhases, Unannounced
<1>6. ASSUME NEW t \in Aim["badge"] \cup {None}, PassBadge(s, t)
      PROVE  TableInv' /\ BadgeConsistent'
  <2>1. badge \in Badges /\ Single(badge) /\ s = badge.seat /\ s \in SeatOrNone
    BY <1>6, SeatFacts DEF PassBadge, CanPassBadge, Inv, TypeInv, TypeOK, BadgeConsistent, Single
  <2>2. t \in alive \cup {None} /\ t \in SeatOrNone
    BY <1>6 DEF PassBadge, CanPassBadge, Inv, TypeInv, TypeOK, SeatOrNone
  <2>3. BadgeConsistent' /\ BadgeSafe'
    BY <1>6, <2>1, <2>2, SingleBadge
       DEF PassBadge, BadgeConsistent, BadgeSafe, Single, PassBadgeTo
  <2>4. phase \notin SettledPhases
    BY <1>6 DEF PassBadge, CanPassBadge, SettledPhases, Unannounced, NightPhases, ElectionPhases
  <2> QED
    BY <1>6, <2>3, <2>4 DEF PassBadge, Inv, TableInv, SettledPhases, Unannounced
<1> QED
  BY <1>1, <1>2, <1>3, <1>4, <1>5, <1>6

LEMMA DayStepTable ==
  ASSUME Inv, DayStep
  PROVE  TableInv' /\ BadgeConsistent'
<1> USE DEF Unannounced, NightPhases, ElectionPhases
<1>1. badge \in Badges /\ Single(badge) /\ night \in Nights
  BY DEF Inv, TypeInv, TypeOK, BadgeConsistent, Single
<1>2. UNCHANGED badge => BadgeConsistent'
  BY DEF Inv, BadgeConsistent
<1>3. phase \in {"DAY_SPEECH", "VOTE", "VOTE_PK", "EXILE", "HUNTER_SHOOT", "LAST_WORDS"}
        => night.deaths \cap alive = {}
  BY DEF Inv, TableInv
<1>4. TwoStep /\ phase \in {"DAY_SPEECH", "VOTE", "VOTE_PK"} => BadgeSafe
  BY DEF Inv, TableInv, SettledPhases
<1>5. CASE OpenVote
  BY <1>1, <1>2, <1>3, <1>4, <1>5, EnterPhaseTable DEF OpenVote, VoteStarted, Inv, TableInv,
     EnterPhase, BadgeSafe, IsBadgeOnlyWindow
<1>6. CASE StartRunoff
  BY <1>1, <1>2, <1>3, <1>4, <1>6 DEF StartRunoff, VoteOver, Inv, TableInv, EnterPhase, BadgeSafe,
     IsBadgeOnlyWindow
<1>7. CASE NobodyExiled
  BY <1>1, <1>2, <1>3, <1>4, <1>7, AfterDayDeathTable DEF NobodyExiled, VoteOver, BadgeSafe
<1>8. ASSUME NEW s \in Seats, FlipIdiot(s)
      PROVE  TableInv' /\ BadgeConsistent'
  BY <1>1, <1>2, <1>3, <1>4, <1>8, AfterDayDeathTable DEF FlipIdiot, VoteOver, BadgeSafe
<1>9. ASSUME NEW s \in Seats, Exile(s)
      PROVE  TableInv' /\ BadgeConsistent'
  BY <1>1, <1>2, <1>3, <1>9 DEF Exile, VoteOver, Inv, TableInv, EnterPhase, SameRound,
     IsBadgeOnlyWindow, SettledPhases
<1>10. CASE AfterExile
  <2>1. CASE EnterPhase("HUNTER_SHOOT", "day_after_hunter", speech) /\ SameRound(night)
             /\ UNCHANGED badge
    BY <1>1, <1>2, <1>3, <1>10, <2>1 DEF AfterExile, Inv, TableInv, EnterPhase, SameRound,
       IsBadgeOnlyWindow, SettledPhases
  <2>2. CASE EnterDayLastWords
    BY <1>3, <1>10, <2>2, DayLastWordsTable DEF AfterExile
  <2> QED
    BY <1>10, <2>1, <2>2 DEF AfterExile
<1>11. CASE AfterHunterShot
  <2>1. night.deaths \cap alive' = {} /\ UNCHANGED alive
    BY <1>3, <1>11 DEF AfterHunterShot
  <2>2. CASE GameOver(CheckWin(alive), night) /\ UNCHANGED badge
    BY <1>1, <1>2, <2>1, <2>2, GameOverTable
  <2>3. CASE FinishNightDeaths(badge, night)
    BY <1>1, <2>1, <2>3, FinishNightTable
  <2>4. CASE EnterDayLastWords
    BY <1>3, <1>11, <2>1, <2>4, DayLastWordsTable DEF AfterHunterShot
  <2> QED
    BY <1>11, <2>2, <2>3, <2>4 DEF AfterHunterShot
<1>12. CASE AfterLastWords
  <2>1. /\ night.deaths \cap alive' = {}
        /\ UNCHANGED <<alive, badge>>
    BY <1>3, <1>12 DEF AfterLastWords
  <2>2. CASE \E token \in BadgeWindowTokens : OpenBadgeWindow(token) /\ SameRound(night)
    BY <1>1, <1>2, <2>1, <2>2, OpenBadgeWindowTable
  <2>3. CASE (EnterDaySpeech(night) \/ AfterDayDeath(night))
             /\ (TwoStep => IsBadgeOnlyWindow \/ ~Orphaned(badge, alive))
    <3>1. speech.who # {badge.seat} \/ badge.seat = None
      <4>1. speech \in Queues /\ (badge.seat # None => badge.seat \in Seats)
        BY DEF Inv, TypeInv, TypeOK, ControlTypeOK, Badges, SeatOrNone
      <4>2. NextSpeaker(speech) = {}
        BY <1>12 DEF AfterLastWords, SystemTurn, ExpectedActors
      <4> QED
        BY <4>1, <4>2, LoneSpeaker
    <3>2. TwoStep => BadgeSafe'
      BY <2>1, <2>3, <3>1 DEF Inv, TableInv, BadgeSafe, Orphaned
    <3> QED
      BY <1>1, <1>2, <2>1, <2>3, <3>2, EnterDaySpeechTable, AfterDayDeathTable
  <2> QED
    BY <1>12, <2>2, <2>3 DEF AfterLastWords, TwoStep, BadgeWindowTokens
<1> QED
  BY <1>5, <1>6, <1>7, <1>8, <1>9, <1>10, <1>11, <1>12 DEF DayStep

LEMMA ElectionActionTable ==
  ASSUME Inv, ElectionAction
  PROVE  TableInv' /\ BadgeConsistent'
<1>1. ElectionFrame
  BY DEF ElectionAction, Declare, Confirm, VoteSheriff, SetDirection
<1> QED
  BY <1>1, FrameTable DEF ElectionFrame, controlVars

LEMMA StillElectingTable ==
  ASSUME Inv, StillElecting, phase \in ElectionPhases, phase' \in ElectionPhases
  PROVE  TableInv' /\ BadgeConsistent'
  BY DEF Inv, TableInv, BadgeConsistent, BadgeSafe, StillElecting, SameRound, IsBadgeOnlyWindow,
         SettledPhases, Unannounced, NightPhases, ElectionPhases

LEMMA ElectionStepTable ==
  ASSUME Inv, ElectionStep
  PROVE  TableInv' /\ BadgeConsistent'
<1>1. badge \in Badges /\ Single(badge) /\ night \in Nights
  BY DEF Inv, TypeInv, TypeOK, BadgeConsistent, Single
<1>2. ASSUME NEW b \in Badges, Single(b), EndElection(b)
      PROVE  TableInv' /\ BadgeConsistent'
  BY <1>1, <1>2, AnnounceTable DEF EndElection
<1>3. BadgeLost(badge) \in Badges /\ Single(BadgeLost(badge))
  BY <1>1 DEF Badges, Single, BadgeLost, SeatOrNone
<1>4. ASSUME EnterWithdraw, phase \in ElectionPhases
      PROVE  TableInv' /\ BadgeConsistent'
  BY <1>4, StillElectingTable DEF EnterWithdraw, controlVars
<1>5. CASE AllDeclared
  <2>1. phase \in ElectionPhases
    BY <1>5 DEF AllDeclared, InElection, ElectionPhases
  <2>2. CASE StillElecting /\ UNCHANGED phase
    BY <2>1, <2>2, StillElectingTable
  <2> QED
    BY <1>2, <1>3, <1>4, <1>5, <2>1, <2>2 DEF AllDeclared
<1>6. CASE CampaignOver
  BY <1>4, <1>6 DEF CampaignOver, InElection, ElectionPhases
<1>7. CASE AllConfirmed
  <2>1. phase \in ElectionPhases
    BY <1>7 DEF AllConfirmed, InElection, ElectionPhases
  <2>2. CASE StillElecting /\ UNCHANGED controlVars
    BY <2>1, <2>2, StillElectingTable DEF controlVars
  <2> QED
    BY <1>2, <1>3, <1>7, <2>2 DEF AllConfirmed
<1>8. ASSUME NEW s \in Seats, Elect(s)
      PROVE  TableInv' /\ BadgeConsistent'
  <2> DEFINE b == [seat |-> s, flags |-> (badge.flags \ {badge.seat}) \cup {s}]
  <2>1. b \in Badges /\ Single(b) /\ b.seat = s
    BY <1>1, SeatFacts DEF Badges, Single, SeatOrNone
  <2>2. phase \in ElectionPhases /\ alive = Seats
    BY <1>8 DEF Elect, SheriffVoteOver, InElection, ElectionPhases, Inv, TableInv
  <2>3. CASE EndElection(b)
    BY <1>2, <2>1, <2>3
  <2>4. CASE /\ EnterPhase("SHERIFF_ELECTION", "none", speech)
             /\ badge' = b
             /\ SameRound(night)
             /\ UNCHANGED alive
    <3>1. BadgeConsistent' /\ BadgeSafe'
      BY <2>1, <2>2, <2>4 DEF BadgeConsistent, Single, BadgeSafe
    <3>2. phase' = "SHERIFF_ELECTION" /\ UNCHANGED <<round, alive, night>>
      BY <2>4 DEF EnterPhase, SameRound
    <3> QED
      BY <2>2, <3>1, <3>2 DEF Inv, TableInv, IsBadgeOnlyWindow, Unannounced, ElectionPhases
  <2> QED
    BY <1>8, <2>3, <2>4 DEF Elect
<1>9. CASE StartSheriffRunoff
  <2>1. StillElecting /\ phase \in ElectionPhases /\ phase' \in ElectionPhases
    BY <1>9 DEF StartSheriffRunoff, EnterPhase, ElectionPhases
  <2> QED
    BY <2>1, StillElectingTable
<1>10. CASE NobodyElected
  BY <1>2, <1>3, <1>10 DEF NobodyElected
<1>11. CASE DirectionSet
  BY <1>1, <1>2, <1>11 DEF DirectionSet
<1> QED
  BY <1>5, <1>6, <1>7, <1>8, <1>9, <1>10, <1>11 DEF ElectionStep

-----------------------------------------------------------------------------
(* The invariant *)

LEMMA InitInv == Init => Inv
<1>1. SUFFICES ASSUME Init PROVE TableInv /\ BadgeConsistent
  BY InitType DEF Inv
<1>2. phase \in NightPhases
  BY <1>1, NightOrderType DEF Init
<1> QED
  BY <1>1, <1>2 DEF Init, TableInv, BadgeConsistent, BadgeSafe, IsBadgeOnlyWindow, Unannounced,
     NightPhases, ElectionPhases

LEMMA NextInv == Inv /\ [Next]_vars => Inv'
<1> SUFFICES ASSUME Inv, [Next]_vars PROVE Inv'
  OBVIOUS
<1>1. TypeInv'
  BY NextType DEF Inv
<1>2. CASE PlayerAction
  BY <1>1, <1>2, NightActionTable, DayActionTable, ElectionActionTable DEF PlayerAction, Inv
<1>3. CASE SystemStep
  BY <1>1, <1>3, NightStepTable, DayStepTable, ElectionStepTable DEF SystemStep, Inv
<1>4. CASE UNCHANGED vars
  <2>1. UNCHANGED <<phase, resume_token, round, alive, badge, night, speech>>
    BY <1>4 DEF vars, controlVars
  <2> QED
    BY <1>1, <2>1, FrameTable DEF Inv
<1> QED
  BY <1>2, <1>3, <1>4 DEF Next, Finished

THEOREM InvHolds == Spec => []Inv
  BY InitInv, NextInv, PTL DEF Spec

\* On every board and under every combination of rules, the seat recorded as
\* the sheriff's and the is_sheriff flags of the players agree in every state:
\* an election, a badge passed or torn up, a self-destruction that eats the
\* badge and the automatic loss of an orphaned badge all write both.
THEOREM BadgeAgreed == Spec => []BadgeConsistent
<1>1. Inv => BadgeConsistent
  BY DEF Inv
<1> QED
  BY <1>1, InvHolds, PTL

\* Under the two-step rule the badge is on a living seat, or on none, in every
\* night, election, speech and vote, however its holder died.
THEOREM BadgeNeverOrphaned == Spec => []NoOrphanBadge
<1>1. Inv => NoOrphanBadge
  BY DEF Inv, TableInv, NoOrphanBadge, TwoStep, BadgeSafe, SettledPhases, Unannounced,
         NightPhases, ElectionPhases
<1> QED
  BY <1>1, InvHolds, PTL

\* The election is held with everybody at the table, and no dead of the night
\* is at the table in any later phase: the announcement that the election puts
\* off is never lost, whether the election ends by a vote, by nobody standing
\* or by a wolf that blows itself up.
THEOREM NightDeathsAnnounced == Spec => []NightDeathsSettled
<1>1. Inv => NightDeathsSettled
  BY DEF Inv, TableInv, NightDeathsSettled, Unannounced
<1> QED
  BY <1>1, InvHolds, PTL

=============================================================================
