---------------------------- MODULE PlayerProofs ----------------------------
(***************************************************************************)
(* Whoever the game waits for can go on with it: theorems about the seats  *)
(* that are asked, the actions played for them if they are silent, and the *)
(* answers of language models and bots.                                    *)
(***************************************************************************)
EXTENDS GameProofs, Players

-----------------------------------------------------------------------------
(* The invariant *)

\* Who waits for his turn by day lives; who has his last words does not, and
\* in the window for the badge it is its holder.
QueueInv ==
  /\ phase = "DAY_SPEECH" => speech.who \subseteq alive
  /\ phase = "LAST_WORDS" => speech.who \cap alive = {}
  /\ IsBadgeOnlyWindow => speech.who \subseteq badge.flags
  /\ phase = "VOTE_PK" => speech.who \cup vote_candidates \subseteq alive

\* An exiled seat is dead while the game has still to come to its last words,
\* and so is the hunter that is asked for its shot.
DyingInv ==
  /\ phase = "HUNTER_SHOOT" => pending_hunter \notin alive
  /\ phase = "EXILE" \/ (phase = "HUNTER_SHOOT" /\ resume_token = "day_after_hunter") =>
        day_exiled \notin alive

\* Night falls on both sides, and whom the wolves have named they may kill.
Knifed(ballots) ==
  \A w \in Seats : ballots[w] \in Seats =>
      ballots[w] \in alive /\ (ballots[w] \in Wolves => config.allow_wolf_self_knife)
HuntInv ==
  phase \in NightPhases =>
      /\ alive \cap Wolves # {} /\ alive \cap Goods # {}
      /\ Knifed(wolf_proposals) /\ Knifed(last_proposals)

\* Somebody stands for election, and nobody is barred from the first ballot.
CampaignInv ==
  /\ \/ phase \in NightPhases /\ round = 1
     \/ phase = "SHERIFF_ELECTION" /\ election_stage \notin {"direction", "announce"}
     => sheriff_pk_bystanders = {}
  /\ InElection("vote") \/ phase = "SHERIFF_PK" => sheriff_candidates # {}

TurnInv == QueueInv /\ DyingInv /\ HuntInv /\ CampaignInv

SeatInv == GameInv /\ TurnInv

-----------------------------------------------------------------------------
(* Where the end of a step leaves it *)

\* Where nobody is asked, or nobody but those in the queue.
LEMMA QuietTurn ==
  ASSUME phase' \in {"GAME_OVER", "DAY_SPEECH", "LAST_WORDS"}, QueueInv'
  PROVE  TurnInv'
<1>1. phase' \notin NightPhases \cup ElectionPhases
  BY PlainPhases
<1> QED
  BY <1>1 DEF TurnInv, DyingInv, HuntInv, CampaignInv, InElection, ElectionPhases

LEMMA GameOverTurn ==
  ASSUME NEW w, NEW n, GameOver(w, n)
  PROVE  TurnInv'
<1>1. phase' = "GAME_OVER"
  BY DEF GameOver
<1> QED
  BY <1>1, QuietTurn DEF QueueInv, IsBadgeOnlyWindow

LEMMA UndecidedSides ==
  \A living : CheckWin(living) = "none" => living \cap Wolves # {} /\ living \cap Goods # {}
  BY DEF CheckWin, WolvesWin

LEMMA BeginNightTurn ==
  ASSUME Inv, BeginNight, CheckWin(alive') = "none"
  PROVE  TurnInv'
<1>1. phase' \in NightPhases
  BY NightOrderType DEF BeginNight, EnterPhase
<1>2. phase' \notin ElectionPhases
        \cup {"DAY_SPEECH", "LAST_WORDS", "VOTE_PK", "HUNTER_SHOOT", "EXILE"}
  BY <1>1, PlainPhases
<1>3. round' # 1
  BY DEF BeginNight, Inv, TableInv
<1>4. Knifed(wolf_proposals)' /\ Knifed(last_proposals)'
  BY BoardAssumption DEF BeginNight, FreshHunt, Knifed, NoBallots, SeatOrNone
<1> QED
  BY <1>1, <1>2, <1>3, <1>4, UndecidedSides
     DEF TurnInv, QueueInv, IsBadgeOnlyWindow, DyingInv, HuntInv, CampaignInv, InElection,
         ElectionPhases

LEMMA AfterDayDeathTurn ==
  ASSUME Inv, NEW n, AfterDayDeath(n)
  PROVE  TurnInv'
  BY GameOverTurn, BeginNightTurn DEF AfterDayDeath

LEMMA EnterDaySpeechTurn ==
  ASSUME Inv, NEW n, EnterDaySpeech(n)
  PROVE  TurnInv'
<1>1. CASE n.skip_day
  BY <1>1, AfterDayDeathTurn DEF EnterDaySpeech
<1>2. CASE ~n.skip_day
  <2>1. PICK queue \in SpeechOrder(n) : EnterPhase("DAY_SPEECH", "none", queue)
    BY <1>2 DEF EnterDaySpeech
  <2>2. phase' = "DAY_SPEECH" /\ speech'.who = alive'
    BY <2>1, SpeechOrderWho DEF EnterPhase
  <2> QED
    BY <2>2, QuietTurn DEF QueueInv, IsBadgeOnlyWindow
<1> QED
  BY <1>1, <1>2

LEMMA BadgeWindowTurn ==
  ASSUME NEW token, OpenBadgeWindow(token), BadgeConsistent', Orphaned(badge', alive')
  PROVE  TurnInv'
<1>1. phase' = "LAST_WORDS" /\ speech'.who = {badge'.seat}
  BY DEF OpenBadgeWindow, EnterPhase, Ascending, Queue
<1> QED
  BY <1>1, QuietTurn DEF QueueInv, BadgeConsistent, Orphaned

LEMMA LastWordsTurn ==
  ASSUME NEW token, token \notin BadgeWindowTokens, NEW who, who \cap alive' = {},
         EnterPhase("LAST_WORDS", token, Ascending(who))
  PROVE  TurnInv'
<1>1. phase' = "LAST_WORDS" /\ resume_token' = token /\ speech'.who = who
  BY DEF EnterPhase, Ascending, Queue
<1> QED
  BY <1>1, QuietTurn DEF QueueInv, IsBadgeOnlyWindow

LEMMA FinishNightTurn ==
  ASSUME Inv, NEW b, NEW n, FinishNightDeaths(b, n), n.deaths \cap alive' = {}, BadgeConsistent'
  PROVE  TurnInv'
<1> DEFINE recipients == NightLastWords(n.deaths)
<1>1. recipients \cap alive' = {}
  BY DEF NightLastWords
<1>2. CASE OpenBadgeWindow("badge_only:day_speech") /\ badge' = b /\ Orphaned(b, alive')
  BY <1>2, BadgeWindowTurn
<1>3. CASE EnterPhase("LAST_WORDS", "day_speech", Ascending(recipients))
  BY <1>1, <1>3, LastWordsTurn DEF BadgeWindowTokens
<1>4. CASE EnterDaySpeech(n)
  BY <1>4, EnterDaySpeechTurn
<1> QED
  BY <1>2, <1>3, <1>4 DEF FinishNightDeaths, LastWordsOf

LEMMA DayLastWordsTurn ==
  ASSUME Inv, EnterDayLastWords, UNCHANGED alive, day_exiled \notin alive, BadgeConsistent'
  PROVE  TurnInv'
<1> DEFINE recipients == {day_exiled} \ {None}
<1>1. CASE OpenBadgeWindow("badge_only:after_day") /\ badge' = badge /\ Orphaned(badge, alive)
  BY <1>1, BadgeWindowTurn
<1>2. CASE EnterPhase("LAST_WORDS", "after_day", Ascending(recipients))
  BY <1>2, LastWordsTurn DEF BadgeWindowTokens
<1>3. CASE AfterDayDeath(night)
  BY <1>3, AfterDayDeathTurn
<1> QED
  BY <1>1, <1>2, <1>3 DEF EnterDayLastWords

LEMMA AnnounceTurn ==
  ASSUME Inv, NEW living, NEW b, NEW n, AnnounceAndContinueNight(living, b, n), BadgeConsistent'
  PROVE  TurnInv'
<1>1. n.deaths \cap alive' = {}
  BY DEF AnnounceAndContinueNight, Announced
<1>2. CASE GameOver(CheckWin(alive'), n)
  BY <1>2, GameOverTurn
<1>3. CASE /\ pending_hunter' \in DeadHunters(n)
           /\ EnterPhase("HUNTER_SHOOT", "night_after_hunter", speech)
  <2>1. pending_hunter' \notin alive'
    BY <1>1, <1>3 DEF DeadHunters, Lowest
  <2>2. phase' = "HUNTER_SHOOT" /\ resume_token' = "night_after_hunter"
    BY <1>3 DEF EnterPhase
  <2> QED
    BY <2>1, <2>2, PlainPhases
       DEF TurnInv, QueueInv, IsBadgeOnlyWindow, DyingInv, HuntInv, CampaignInv, InElection
<1>4. CASE FinishNightDeaths(b, n)
  BY <1>1, <1>4, FinishNightTurn
<1> QED
  BY <1>2, <1>3, <1>4 DEF AnnounceAndContinueNight

-----------------------------------------------------------------------------
(* What is left alone *)

LEMMA QueueFrame ==
  ASSUME QueueInv, UNCHANGED <<phase, resume_token, alive, badge, vote_candidates>>,
         speech'.who \subseteq speech.who
  PROVE  QueueInv'
  BY DEF QueueInv, IsBadgeOnlyWindow

LEMMA DyingFrame ==
  ASSUME DyingInv, UNCHANGED <<phase, resume_token, alive, pending_hunter, day_exiled>>
  PROVE  DyingInv'
  BY DEF DyingInv

LEMMA HuntFrame ==
  ASSUME HuntInv, UNCHANGED <<phase, alive, wolf_proposals, last_proposals>>
  PROVE  HuntInv'
  BY DEF HuntInv, Knifed

LEMMA CampaignFrame ==
  ASSUME CampaignInv,
         UNCHANGED <<phase, round, election_stage, sheriff_pk_bystanders, sheriff_candidates>>
  PROVE  CampaignInv'
  BY DEF CampaignInv, InElection

LEMMA ElectingTurn ==
  ASSUME phase' \in ElectionPhases, CampaignInv'
  PROVE  TurnInv'
<1>1. phase' \notin NightPhases
        \cup {"DAY_SPEECH", "LAST_WORDS", "VOTE_PK", "HUNTER_SHOOT", "EXILE"}
  BY PlainPhases
<1> QED
  BY <1>1 DEF TurnInv, QueueInv, IsBadgeOnlyWindow, DyingInv, HuntInv

LEMMA NightTurn ==
  ASSUME phase' \in NightPhases, HuntInv', round' = 1 => sheriff_pk_bystanders' = {}
  PROVE  TurnInv'
<1>1. phase' \notin ElectionPhases
        \cup {"DAY_SPEECH", "LAST_WORDS", "VOTE_PK", "HUNTER_SHOOT", "EXILE"}
  BY PlainPhases
<1> QED
  BY <1>1 DEF TurnInv, QueueInv, IsBadgeOnlyWindow, DyingInv, CampaignInv, InElection,
     ElectionPhases

-----------------------------------------------------------------------------
(* The night *)

LEMMA NightActionTurn ==
  ASSUME SeatInv, NightAction
  PROVE  TurnInv'
<1>1. NightActionFrame
  BY DEF NightAction, Skip, Guard, Propose, Save, Poison, Check
<1>2. phase \in NightPhases
  BY DEF NightAction, Skip, Guard, Propose, Save, Poison, Check, CanSkip, CanGuard, CanPropose,
         CanSave, CanPoison, CanCheck, NightPhases
<1>3. UNCHANGED <<phase, round, alive, last_proposals, sheriff_pk_bystanders>>
  BY <1>1 DEF NightActionFrame, controlVars, campaignVars
<1>4. wolf_proposals \in Ballots /\ Knifed(wolf_proposals) /\ Knifed(last_proposals)
  BY <1>2 DEF SeatInv, TurnInv, HuntInv, GameInv, Inv, TypeInv, TypeOK, HuntTypeOK
<1>5. Knifed(wolf_proposals')
  <2>1. ASSUME NEW s \in Seats, NEW t \in Aim["kill"] \cup {None}, Propose(s, t)
        PROVE  Knifed(wolf_proposals')
    <3>1. t \in Seats => t \in alive /\ (t \in Wolves => config.allow_wolf_self_knife)
      BY <2>1, BoardAssumption DEF Propose, CanPropose
    <3>2. wolf_proposals' = [wolf_proposals EXCEPT ![s] = t]
      BY <2>1 DEF Propose
    <3> QED
      BY <1>3, <1>4, <3>1, <3>2 DEF Knifed, Ballots
  <2> QED
    BY <1>3, <1>4, <2>1
       DEF NightAction, Skip, Guard, Save, Poison, Check
<1>6. HuntInv'
  BY <1>2, <1>3, <1>4, <1>5 DEF SeatInv, TurnInv, HuntInv, Knifed
<1> QED
  BY <1>2, <1>3, <1>6, NightTurn DEF SeatInv, TurnInv, CampaignInv

LEMMA ResolveNightTurn ==
  ASSUME SeatInv, phase \in NightPhases, NEW n, ResolveNightAndContinue(n), BadgeConsistent'
  PROVE  TurnInv'
<1> DEFINE resolved == [n EXCEPT !.deaths = ResolveNight(n)]
<1>1. Inv
  BY DEF SeatInv, GameInv
<1>2. CASE GameOver(CheckWin(alive'), resolved)
  BY <1>2, GameOverTurn
<1>3. CASE /\ round = 1
           /\ EnterPhase("SHERIFF_ELECTION", "none", speech)
           /\ election_stage' = "candidacy"
           /\ UNCHANGED campaignVars
  <2>1. phase' = "SHERIFF_ELECTION" /\ election_stage' = "candidacy"
    BY <1>3 DEF EnterPhase
  <2>2. sheriff_pk_bystanders' = {}
    BY <1>3 DEF campaignVars, SeatInv, TurnInv, CampaignInv
  <2>3. phase' \in ElectionPhases
    BY <2>1 DEF ElectionPhases
  <2> QED
    BY <2>1, <2>2, <2>3, ElectingTurn DEF CampaignInv, InElection
<1>4. CASE AnnounceAndContinueNight(alive, badge, resolved)
  BY <1>1, <1>4, AnnounceTurn
<1> QED
  BY <1>2, <1>3, <1>4 DEF ResolveNightAndContinue

LEMMA LeaveNightPhaseTurn ==
  ASSUME SeatInv, phase \in NightPhases, NEW n, LeaveNightPhase(n), BadgeConsistent'
  PROVE  TurnInv'
<1> DEFINE order == config.night_order
           i == CHOOSE j \in DOMAIN order : order[j] = phase
<1>1. i \in DOMAIN order
  BY DEF SeatInv, GameInv, Inv, TypeInv, Scheduled
<1>2. CASE i < Len(order)
  <2>1. order[i + 1] \in NightPhases
    <3>1. i + 1 \in DOMAIN order
      BY <1>1, <1>2, RulesAssumption
    <3> QED
      BY <3>1, NightOrderType
  <2>2. /\ phase' \in NightPhases
        /\ UNCHANGED <<round, alive, wolf_proposals, last_proposals, sheriff_pk_bystanders>>
    BY <1>2, <2>1 DEF LeaveNightPhase, EnterPhase, SameRound, huntVars, campaignVars
  <2>3. HuntInv'
    BY <2>2 DEF SeatInv, TurnInv, HuntInv, Knifed
  <2> QED
    BY <2>2, <2>3, NightTurn DEF SeatInv, TurnInv, CampaignInv
<1>3. CASE ~(i < Len(order))
  BY <1>3, ResolveNightTurn DEF LeaveNightPhase
<1> QED
  BY <1>2, <1>3

LEMMA NightStepTurn ==
  ASSUME SeatInv, WolfRevote \/ WolfKillDecided \/ NightPhaseOver, BadgeConsistent'
  PROVE  TurnInv'
<1>1. phase \in NightPhases
  BY DEF WolfRevote, WolfKillDecided, NightPhaseOver, NightPhases
<1>2. CASE WolfRevote
  <2>1. /\ UNCHANGED <<phase, round, alive, sheriff_pk_bystanders>>
        /\ wolf_proposals' = NoBallots /\ last_proposals' = wolf_proposals
    BY <1>2 DEF WolfRevote, controlVars, campaignVars
  <2>2. Knifed(NoBallots)
    BY BoardAssumption DEF Knifed, NoBallots, SeatOrNone
  <2>3. HuntInv'
    BY <1>1, <2>1, <2>2 DEF SeatInv, TurnInv, HuntInv, Knifed
  <2> QED
    BY <1>1, <2>1, <2>3, NightTurn DEF SeatInv, TurnInv, CampaignInv
<1>3. CASE WolfKillDecided
  BY <1>1, <1>3, LeaveNightPhaseTurn DEF WolfKillDecided
<1>4. CASE NightPhaseOver
  BY <1>1, <1>4, LeaveNightPhaseTurn DEF NightPhaseOver
<1> QED
  BY <1>2, <1>3, <1>4

-----------------------------------------------------------------------------
(* The day *)

LEMMA SelfDestructTurn ==
  ASSUME SeatInv, NEW s \in Seats, SelfDestruct(s), BadgeConsistent'
  PROVE  TurnInv'
<1>1. Inv
  BY DEF SeatInv, GameInv
<1>2. CASE phase = "DAY_SPEECH"
  BY <1>1, <1>2, AfterDayDeathTurn DEF SelfDestruct
<1>3. CASE phase # "DAY_SPEECH"
  BY <1>1, <1>3, AnnounceTurn DEF SelfDestruct
<1> QED
  BY <1>2, <1>3

LEMMA PassBadgeTurn ==
  ASSUME SeatInv, NEW s \in Seats, NEW t, PassBadge(s, t)
  PROVE  TurnInv'
<1>1. UNCHANGED <<phase, resume_token, round, alive, pending_hunter, day_exiled, wolf_proposals,
                  last_proposals, vote_candidates, election_stage, sheriff_pk_bystanders,
                  sheriff_candidates>>
  BY DEF PassBadge, huntVars, voteVars, campaignVars
<1>2. phase = "LAST_WORDS" /\ s \in badge.flags
  BY DEF PassBadge, CanPassBadge
<1>3. speech'.who = speech.who \ {s}
  BY DEF PassBadge, SpeechDone, SeatInv, GameInv, Inv, TypeInv, TypeOK, ControlTypeOK, Queues
<1>4. IsBadgeOnlyWindow => speech'.who = {}
  BY <1>2, <1>3 DEF SeatInv, GameInv, Inv, BadgeConsistent, TurnInv, QueueInv
<1>5. QueueInv'
  BY <1>1, <1>2, <1>3, <1>4 DEF SeatInv, TurnInv, QueueInv, IsBadgeOnlyWindow
<1> QED
  BY <1>1, <1>5, DyingFrame, HuntFrame, CampaignFrame DEF SeatInv, TurnInv

LEMMA DayActionTurn ==
  ASSUME SeatInv, DayAction, BadgeConsistent'
  PROVE  TurnInv'
<1>1. PICK s \in Seats :
        \/ Speak(s)
        \/ SelfDestruct(s)
        \/ \E t \in Aim["vote"] \cup {None} : CastVote(s, t)
        \/ \E t \in Aim["shoot"] \cup {None} : Shoot(s, t)
        \/ \E t \in Aim["badge"] \cup {None} : PassBadge(s, t)
  BY DEF DayAction
<1>2. speech \in Queues
  BY DEF SeatInv, GameInv, Inv, TypeInv, TypeOK, ControlTypeOK
<1>3. ASSUME Speak(s) \/ \E t : CastVote(s, t)
      PROVE  TurnInv'
  <2>1. UNCHANGED <<phase, resume_token, round, alive, badge, pending_hunter, day_exiled,
                    wolf_proposals, last_proposals, vote_candidates, election_stage,
                    sheriff_pk_bystanders, sheriff_candidates>>
    BY <1>3 DEF Speak, CastVote, controlVars, huntVars, voteVars, campaignVars
  <2>2. speech'.who \subseteq speech.who
    BY <1>2, <1>3 DEF Speak, SpeechDone, CastVote, controlVars, Queues
  <2> QED
    BY <2>1, <2>2, QueueFrame, DyingFrame, HuntFrame, CampaignFrame DEF SeatInv, TurnInv
<1>4. ASSUME NEW t, Shoot(s, t)
      PROVE  TurnInv'
  <2>1. /\ phase' = "HUNTER_SHOOT" /\ UNCHANGED <<phase, resume_token, day_exiled>>
        /\ alive' \subseteq alive /\ pending_hunter' = None
    BY <1>4 DEF Shoot, CanShoot, controlVars
  <2>2. pending_hunter' \notin alive'
    BY <2>1, BoardAssumption DEF SeatInv, GameInv, Inv, TypeInv, TypeOK
  <2>3. DyingInv'
    BY <2>1, <2>2 DEF DyingInv, SeatInv, TurnInv
  <2> QED
    BY <2>1, <2>3, PlainPhases
       DEF TurnInv, QueueInv, IsBadgeOnlyWindow, HuntInv, CampaignInv, InElection
<1> QED
  BY <1>1, <1>3, <1>4, SelfDestructTurn, PassBadgeTurn

LEMMA VoteStepTurn ==
  ASSUME SeatInv, \/ OpenVote \/ StartRunoff \/ NobodyExiled
                  \/ \E s \in Seats : FlipIdiot(s) \/ Exile(s)
  PROVE  TurnInv'
<1>1. Inv /\ GameInv
  BY DEF SeatInv, GameInv
<1>2. CASE OpenVote
  <2>1. phase' = "VOTE"
    BY <1>2 DEF OpenVote, EnterPhase
  <2> QED
    BY <2>1, PlainPhases
       DEF TurnInv, QueueInv, IsBadgeOnlyWindow, DyingInv, HuntInv, CampaignInv, InElection
<1>3. CASE StartRunoff
  <2>1. /\ phase' = "VOTE_PK" /\ speech'.who = Tied /\ vote_candidates' = Tied
        /\ alive' = alive /\ VoteOver
    BY <1>3 DEF StartRunoff, EnterPhase, VoteStarted, Ascending, Queue
  <2>2. Tied \subseteq alive
    BY <1>1, <2>1, TiedAlive
  <2> QED
    BY <2>1, <2>2, PlainPhases
       DEF TurnInv, QueueInv, IsBadgeOnlyWindow, DyingInv, HuntInv, CampaignInv, InElection
<1>4. CASE NobodyExiled
  BY <1>1, <1>4, AfterDayDeathTurn DEF NobodyExiled
<1>5. ASSUME NEW s \in Seats, FlipIdiot(s)
      PROVE  TurnInv'
  BY <1>1, <1>5, AfterDayDeathTurn DEF FlipIdiot
<1>6. ASSUME NEW s \in Seats, Exile(s)
      PROVE  TurnInv'
  <2>1. phase' = "EXILE" /\ day_exiled' \notin alive'
    BY <1>6 DEF Exile, EnterPhase
  <2> QED
    BY <2>1, PlainPhases
       DEF TurnInv, QueueInv, IsBadgeOnlyWindow, DyingInv, HuntInv, CampaignInv, InElection
<1> QED
  BY <1>2, <1>3, <1>4, <1>5, <1>6

LEMMA AfterDeathTurn ==
  ASSUME SeatInv, AfterExile \/ AfterHunterShot \/ AfterLastWords, BadgeConsistent'
  PROVE  TurnInv'
<1>1. Inv /\ DyingInv
  BY DEF SeatInv, GameInv, TurnInv
<1>2. CASE AfterExile
  <2>1. phase = "EXILE" /\ day_exiled \notin alive /\ UNCHANGED <<alive, day_exiled>>
    BY <1>1, <1>2 DEF AfterExile, DyingInv
  <2>2. CASE EnterPhase("HUNTER_SHOOT", "day_after_hunter", speech) /\ pending_hunter' = day_exiled
    <3>1. phase' = "HUNTER_SHOOT"
      BY <2>2 DEF EnterPhase
    <3> QED
      BY <2>1, <2>2, <3>1, PlainPhases
         DEF TurnInv, QueueInv, IsBadgeOnlyWindow, DyingInv, HuntInv, CampaignInv, InElection
  <2>3. CASE EnterDayLastWords
    BY <1>1, <2>1, <2>3, DayLastWordsTurn
  <2> QED
    BY <1>2, <2>2, <2>3 DEF AfterExile
<1>3. CASE AfterHunterShot
  <2>1. phase = "HUNTER_SHOOT" /\ UNCHANGED alive
    BY <1>3 DEF AfterHunterShot
  <2>2. CASE GameOver(CheckWin(alive), night)
    BY <2>2, GameOverTurn
  <2>3. CASE FinishNightDeaths(badge, night)
    <3>1. night.deaths \cap alive' = {}
      BY <1>1, <2>1, PlainPhases DEF Inv, TableInv, Unannounced
    <3> QED
      BY <1>1, <2>3, <3>1, FinishNightTurn
  <2>4. CASE EnterDayLastWords /\ resume_token # "night_after_hunter"
    <3>1. day_exiled \notin alive
      BY <1>1, <2>1, <2>4 DEF SeatInv, GameInv, PlayInv, PathInv, DyingInv
    <3> QED
      BY <1>1, <2>1, <2>4, <3>1, DayLastWordsTurn
  <2> QED
    BY <1>3, <2>2, <2>3, <2>4 DEF AfterHunterShot
<1>4. CASE AfterLastWords
  <2>1. CASE \E token : OpenBadgeWindow(token) /\ Orphaned(badge, alive) /\ UNCHANGED <<badge, alive>>
    BY <2>1, BadgeWindowTurn
  <2>2. CASE EnterDaySpeech(night) \/ AfterDayDeath(night)
    BY <1>1, <2>2, EnterDaySpeechTurn, AfterDayDeathTurn
  <2> QED
    BY <1>4, <2>1, <2>2 DEF AfterLastWords
<1> QED
  BY <1>2, <1>3, <1>4

-----------------------------------------------------------------------------
(* The election *)

LEMMA ElectionActionTurn ==
  ASSUME SeatInv, ElectionAction
  PROVE  TurnInv'
<1>1. /\ UNCHANGED <<phase, round, alive, wolf_proposals, last_proposals, sheriff_pk_bystanders>>
      /\ phase \in ElectionPhases
  BY DEF ElectionAction, Declare, Confirm, VoteSheriff, SetDirection, ElectionFrame, controlVars,
     huntVars, CanDeclare, CanConfirm, CanVoteSheriff, CanSetDirection, InElection, ElectionPhases
<1>2. \/ UNCHANGED <<election_stage, sheriff_candidates>>
      \/ InElection("candidacy") /\ UNCHANGED election_stage
      \/ InElection("withdraw") /\ UNCHANGED election_stage
      \/ phase = "SHERIFF_ELECTION" /\ election_stage' = "announce"
  BY DEF ElectionAction, Declare, Confirm, VoteSheriff, SetDirection, CanDeclare, CanConfirm,
     CanSetDirection, InElection
<1>3. CampaignInv'
  BY <1>1, <1>2, PlainPhases DEF SeatInv, TurnInv, CampaignInv, InElection
<1> QED
  BY <1>1, <1>3, ElectingTurn

LEMMA EnterWithdrawTurn ==
  ASSUME SeatInv, EnterWithdraw, phase = "SHERIFF_ELECTION",
         election_stage \notin {"direction", "announce"}
  PROVE  TurnInv'
<1>1. /\ phase' = phase /\ election_stage' = "withdraw"
      /\ UNCHANGED <<sheriff_pk_bystanders, sheriff_candidates>>
  BY DEF EnterWithdraw, controlVars
<1> QED
  BY <1>1, ElectingTurn DEF ElectionPhases, CampaignInv, InElection, SeatInv, TurnInv

LEMMA ElectionStepTurn ==
  ASSUME SeatInv, ElectionStep, BadgeConsistent'
  PROVE  TurnInv'
<1>1. Inv
  BY DEF SeatInv, GameInv
<1>2. ASSUME NEW b, EndElection(b)
      PROVE  TurnInv'
  BY <1>1, <1>2, AnnounceTurn DEF EndElection
<1>3. CASE AllDeclared
  <2>1. phase = "SHERIFF_ELECTION" /\ election_stage = "candidacy"
    BY <1>3 DEF AllDeclared, InElection
  <2>2. CASE election_stage' = "speech" /\ UNCHANGED <<phase, campaignVars>>
    BY <2>1, <2>2, ElectingTurn
       DEF campaignVars, ElectionPhases, CampaignInv, InElection, SeatInv, TurnInv
  <2> QED
    BY <1>2, <1>3, <2>1, <2>2, EnterWithdrawTurn DEF AllDeclared
<1>4. CASE CampaignOver
  BY <1>4, EnterWithdrawTurn DEF CampaignOver, InElection
<1>5. CASE AllConfirmed
  <2>1. phase = "SHERIFF_ELECTION" /\ sheriff_pk_bystanders = {}
    BY <1>5 DEF AllConfirmed, InElection, SeatInv, TurnInv, CampaignInv
  <2>2. CASE /\ sheriff_candidates # {} /\ SheriffVoteStarted(sheriff_candidates)
             /\ election_stage' = "vote" /\ UNCHANGED phase
    BY <2>1, <2>2, ElectingTurn
       DEF SheriffVoteStarted, ElectionPhases, CampaignInv, InElection
  <2> QED
    BY <1>2, <1>5, <2>2 DEF AllConfirmed, controlVars
<1>6. ASSUME NEW s \in Seats, Elect(s)
      PROVE  TurnInv'
  <2>1. CASE phase' = "SHERIFF_ELECTION" /\ election_stage' = "direction"
    BY <2>1, ElectingTurn DEF ElectionPhases, NightPhases, CampaignInv, InElection
  <2> QED
    BY <1>2, <1>6, <2>1 DEF Elect, EnterPhase
<1>7. CASE StartSheriffRunoff
  <2>1. phase' = "SHERIFF_PK" /\ sheriff_candidates' = SheriffTied
    BY <1>7 DEF StartSheriffRunoff, EnterPhase, SheriffVoteStarted
  <2>2. SheriffTied # {}
    <3>1. Cardinality(SheriffTied) > 1 /\ Cardinality({}) = 0
      BY <1>7, FS_EmptySet DEF StartSheriffRunoff
    <3> QED
      BY <3>1
  <2> QED
    BY <2>1, <2>2, ElectingTurn DEF ElectionPhases, NightPhases, CampaignInv, InElection
<1>8. CASE NobodyElected \/ DirectionSet
  BY <1>2, <1>8 DEF NobodyElected, DirectionSet
<1> QED
  BY <1>3, <1>4, <1>5, <1>6, <1>7, <1>8 DEF ElectionStep

-----------------------------------------------------------------------------
(* Every step keeps the invariant *)

LEMMA InitSeats == Init => SeatInv
<1> SUFFICES ASSUME Init PROVE SeatInv
  OBVIOUS
<1>1. GameInv
  BY InitPlay
<1>2. phase \in NightPhases
  BY NightOrderType DEF Init
<1>3. phase \notin ElectionPhases
        \cup {"DAY_SPEECH", "LAST_WORDS", "VOTE_PK", "HUNTER_SHOOT", "EXILE"}
  BY <1>2, PlainPhases
<1>4. Seats \cap Wolves # {} /\ Seats \cap Goods # {}
  BY BoardAssumption DEF Wolves, Holders, Goods
<1>5. Knifed(NoBallots)
  BY BoardAssumption DEF Knifed, NoBallots, SeatOrNone
<1>6. HuntInv
  BY <1>4, <1>5 DEF Init, HuntInv
<1>7. CampaignInv
  BY <1>3 DEF Init, CampaignInv, InElection, ElectionPhases
<1> QED
  BY <1>1, <1>3, <1>6, <1>7 DEF SeatInv, TurnInv, QueueInv, IsBadgeOnlyWindow, DyingInv

LEMMA NextSeats == SeatInv /\ [Next]_vars => SeatInv'
<1> SUFFICES ASSUME SeatInv, [Next]_vars PROVE SeatInv'
  OBVIOUS
<1>1. GameInv' /\ BadgeConsistent'
  BY NextPlay DEF SeatInv, GameInv, Inv
<1>2. CASE PlayerAction
  BY <1>1, <1>2, NightActionTurn, DayActionTurn, ElectionActionTurn DEF PlayerAction, SeatInv
<1>3. CASE SystemStep
  BY <1>1, <1>3, NightStepTurn, VoteStepTurn, AfterDeathTurn, ElectionStepTurn
     DEF SystemStep, DayStep, SeatInv
<1>4. CASE UNCHANGED vars
  <2>1. UNCHANGED <<phase, resume_token, speech, round, alive, badge, pending_hunter, day_exiled,
                    wolf_proposals, last_proposals, vote_candidates, election_stage,
                    sheriff_pk_bystanders, sheriff_candidates>>
    BY <1>4 DEF vars, controlVars, huntVars, voteVars, campaignVars
  <2> QED
    BY <1>1, <2>1, QueueFrame, DyingFrame, HuntFrame, CampaignFrame DEF SeatInv, TurnInv
<1> QED
  BY <1>2, <1>3, <1>4 DEF Next, Finished

\* The invariant holds in every game.
THEOREM SeatInvHolds == Spec => []SeatInv
<1> QED
  BY InitSeats, NextSeats, PTL DEF Spec

-----------------------------------------------------------------------------
(* Who is asked *)

\* The switch under which the engine rejects every speech.
Spoken == config.speech_order_rule # "BIDDING"

LEMMA SpeakersInQueue == \A queue : NextSpeaker(queue) \subseteq queue.who
  BY DEF NextSpeaker

\* Those whom the engine asks in an election, or in a runoff, sit at the table.
LEMMA ElectionActorsSeated ==
  ASSUME SeatInv, phase \in ElectionPhases
  PROVE  ExpectedActors \subseteq Seats
<1>1. alive = Seats /\ phase \notin NightPhases
  BY ElectionFacts, PlainPhases DEF SeatInv
<1>2. /\ sheriff_candidates \subseteq Seats /\ speech.who \subseteq Seats
      /\ badge.seat \in SeatOrNone
  BY DEF SeatInv, GameInv, Inv, TypeInv, TypeOK, CampaignTypeOK, ControlTypeOK, Queues, Badges
<1>3. SheriffElectorate \subseteq Seats /\ SheriffPkElectorate \subseteq Seats
  BY <1>1 DEF SheriffElectorate, SheriffPkElectorate, CanVote
<1>4. CASE phase = "SHERIFF_PK"
  <2>1. ExpectedActors \subseteq SheriffPkElectorate \cup speech.who
    BY <1>1, <1>4, SpeakersInQueue DEF ExpectedActors
  <2> QED
    BY <1>2, <1>3, <2>1
<1>5. CASE phase = "SHERIFF_ELECTION"
  <2>1. ExpectedActors = ElectionActors
    BY <1>1, <1>5 DEF ExpectedActors
  <2>2. ElectionActors \subseteq alive \cup speech.who \cup sheriff_candidates
                                  \cup SheriffElectorate \cup ({badge.seat} \ {None})
    BY SpeakersInQueue DEF ElectionActors
  <2> QED
    BY <1>1, <1>2, <1>3, <2>1, <2>2 DEF SeatOrNone
<1> QED
  BY <1>4, <1>5 DEF ElectionPhases

LEMMA ActorsLive == SeatInv => ActorsAreLive
<1> SUFFICES ASSUME SeatInv PROVE ActorsAreLive
  OBVIOUS
<1>1. QueueInv /\ DyingInv
  BY DEF SeatInv, TurnInv
<1>2. CASE phase \in NightPhases
  <2>1. phase \notin {"LAST_WORDS", "HUNTER_SHOOT"} /\ ExpectedActors = NightActors
    BY <1>2, PlainPhases DEF ExpectedActors, ElectionPhases
  <2>2. NightActors \subseteq alive
    BY DEF NightActors
  <2> QED
    BY <2>1, <2>2 DEF ActorsAreLive
<1>3. CASE phase \in {"DAY_SPEECH", "LAST_WORDS"}
  <2>1. ExpectedActors = NextSpeaker(speech)
    BY <1>3, PlainPhases DEF ExpectedActors
  <2> QED
    BY <1>1, <1>3, <2>1, SpeakersInQueue DEF ActorsAreLive, QueueInv
<1>4. CASE phase \in {"VOTE", "VOTE_PK"}
  <2>1. ExpectedActors \subseteq CanVote \cup NextSpeaker(speech)
    BY <1>4, PlainPhases DEF ExpectedActors
  <2>2. phase = "VOTE" => ExpectedActors \subseteq CanVote
    BY PlainPhases DEF ExpectedActors
  <2> QED
    BY <1>1, <1>4, <2>1, <2>2, SpeakersInQueue DEF ActorsAreLive, CanVote, QueueInv
<1>5. CASE phase = "HUNTER_SHOOT"
  <2>1. ExpectedActors = {pending_hunter} \ {None}
    BY <1>5, PlainPhases DEF ExpectedActors
  <2> QED
    BY <1>1, <1>5, <2>1 DEF ActorsAreLive, DyingInv
<1>6. CASE phase \in ElectionPhases
  <2>1. phase \notin {"LAST_WORDS", "HUNTER_SHOOT"}
    BY <1>6, PlainPhases
  <2> QED
    BY <1>6, <2>1, ElectionActorsSeated, ElectionFacts DEF ActorsAreLive, SeatInv
<1>7. CASE phase \in {"EXILE", "GAME_OVER"}
  <2>1. ExpectedActors = {}
    BY <1>7, PlainPhases DEF ExpectedActors
  <2> QED
    BY <2>1 DEF ActorsAreLive
<1> QED
  BY <1>2, <1>3, <1>4, <1>5, <1>6, <1>7
     DEF SeatInv, GameInv, Inv, TypeInv, TypeOK, ControlTypeOK, Phases

\* Whom the game waits for, the first checks of _validate let through.
LEMMA OnTheirTurn ==
  ASSUME SeatInv, NEW s \in ExpectedActors
  PROVE  /\ OnTurn(s) /\ s \in Seats
         /\ phase \notin {"LAST_WORDS", "HUNTER_SHOOT"} => s \in alive
<1>1. phase \notin {"LAST_WORDS", "HUNTER_SHOOT"} => s \in alive
  BY ActorsLive DEF ActorsAreLive
<1>2. alive \subseteq Seats /\ speech.who \subseteq Seats /\ pending_hunter \in SeatOrNone
  BY DEF SeatInv, GameInv, Inv, TypeInv, TypeOK, ControlTypeOK, Queues
<1>3. phase = "LAST_WORDS" => s \in speech.who
  BY SpeakersInQueue, PlainPhases DEF ExpectedActors
<1>4. phase = "HUNTER_SHOOT" => s \in {pending_hunter} \ {None}
  BY PlainPhases DEF ExpectedActors
<1> QED
  BY <1>1, <1>2, <1>3, <1>4 DEF OnTurn, SeatOrNone

LEMMA MaySpeak ==
  ASSUME SeatInv, Spoken, NEW s \in ExpectedActors, ~IsBadgeOnlyWindow,
         phase \in {"DAY_SPEECH", "LAST_WORDS"} \/ SpeechQueuePending
  PROVE  CanSpeak(s)
  BY OnTheirTurn DEF CanSpeak, Spoken

\* The window for the badge is its holder's.
LEMMA HolderInWindow ==
  ASSUME SeatInv, NEW s \in ExpectedActors, IsBadgeOnlyWindow
  PROVE  s \in badge.flags
<1>1. s \in speech.who
  BY SpeakersInQueue, PlainPhases DEF ExpectedActors, IsBadgeOnlyWindow
<1> QED
  BY <1>1 DEF SeatInv, TurnInv, QueueInv

\* Those who are asked for a ballot by day.
LEMMA DayVoters ==
  ASSUME SeatInv, phase \in {"VOTE", "VOTE_PK"}, ~SpeechQueuePending, NEW s \in ExpectedActors
  PROVE  /\ s \notin revealed
         /\ \A t : \/ t = None \/ t \in vote_candidates
                   \/ vote_candidates = {} /\ t \in alive
               => CanCastVote(s, t)
<1>1. s \in CanVote /\ ~PkSpeaking
  BY PlainPhases DEF ExpectedActors, SpeechQueuePending, PkSpeaking
<1>2. phase = "VOTE" => vote_candidates = {}
  BY DEF SeatInv, GameInv, PlayInv, BallotInv
<1>3. vote_candidates \subseteq alive
  BY <1>2 DEF SeatInv, TurnInv, QueueInv
<1> QED
  BY <1>1, <1>3, OnTheirTurn DEF CanVote, CanCastVote

\* What is asked of whom in the stages of the election.
LEMMA ElectionTurns ==
  ASSUME SeatInv, phase \in ElectionPhases, ~SpeechQueuePending, NEW s \in ExpectedActors
  PROVE  \/ InElection("candidacy") /\ CanDeclare(s)
         \/ InElection("withdraw") /\ CanConfirm(s)
         \/ InElection("direction") /\ CanSetDirection(s)
         \/ InElection("vote") \/ phase = "SHERIFF_PK"
<1> SUFFICES ASSUME phase = "SHERIFF_ELECTION", election_stage # "vote"
             PROVE  \/ InElection("candidacy") /\ CanDeclare(s)
                    \/ InElection("withdraw") /\ CanConfirm(s)
                    \/ InElection("direction") /\ CanSetDirection(s)
  BY DEF ElectionPhases, InElection
<1>1. s \in ElectionActors
  BY PlainPhases DEF ExpectedActors
<1>2. election_stage = "speech" => speech.who # {}
  BY <1>1, SpeakersInQueue DEF ElectionActors
<1>3. election_stage \in {"candidacy", "withdraw", "direction"}
  BY <1>1, <1>2 DEF ElectionActors, InElection, SpeechQueuePending, CampaignSpeaking
<1>4. election_stage = "withdraw" => s \in sheriff_candidates
  BY <1>1 DEF ElectionActors
<1>5. election_stage = "direction" => s = badge.seat
  BY <1>1 DEF ElectionActors
<1> QED
  BY <1>3, <1>4, <1>5, OnTheirTurn DEF CanDeclare, CanConfirm, CanSetDirection, InElection

\* Those who are asked for a ballot in the election may vote for any candidate.
LEMMA SheriffVoters ==
  ASSUME SeatInv, InElection("vote") \/ phase = "SHERIFF_PK", ~SpeechQueuePending,
         NEW s \in ExpectedActors
  PROVE  /\ sheriff_candidates # {}
         /\ \A t \in sheriff_candidates : CanVoteSheriff(s, t)
<1>1. sheriff_candidates # {}
  BY DEF SeatInv, TurnInv, CampaignInv
<1>2. s \notin sheriff_withdrawn \cup SheriffPkBarred
  <2>1. CASE InElection("vote")
    <3>1. s \in SheriffElectorate
      BY <2>1, PlainPhases DEF ExpectedActors, ElectionActors, InElection, ElectionPhases
    <3>2. SheriffPkBarred = {}
      BY <2>1 DEF SheriffPkBarred, InElection, SeatInv, TurnInv, CampaignInv
    <3> QED
      BY <3>1, <3>2 DEF SheriffElectorate
  <2>2. CASE phase = "SHERIFF_PK"
    <3>1. s \in SheriffPkElectorate
      BY <2>2, PlainPhases DEF ExpectedActors, ElectionPhases, SpeechQueuePending, PkSpeaking
    <3> QED
      BY <3>1 DEF SheriffPkElectorate, SheriffElectorate
  <2> QED
    BY <2>1, <2>2
<1> QED
  BY <1>1, <1>2, OnTheirTurn DEF CanVoteSheriff

-----------------------------------------------------------------------------
(* What is played for a seat that is silent *)

LEMMA FollowedMayDie ==
  ASSUME SeatInv, phase = "NIGHT_WEREWOLF", NEW t \in Followed
  PROVE  t \in alive /\ (t \in Wolves => config.allow_wolf_self_knife)
<1>1. Knifed(wolf_proposals) /\ Knifed(last_proposals)
  BY DEF SeatInv, TurnInv, HuntInv, NightPhases
<1>2. ASSUME NEW pool, Knifed(pool), t \in Leaders(pool, {})
      PROVE  t \in alive /\ (t \in Wolves => config.allow_wolf_self_knife)
  <2>1. t \in Seats /\ VotersFor(pool, t) # {}
    BY <1>2 DEF Leaders
  <2>2. PICK w \in Seats : pool[w] = t
    BY <2>1 DEF VotersFor
  <2> QED
    BY <1>2, <2>1, <2>2 DEF Knifed
<1>3. \E pool \in {wolf_proposals, last_proposals} : t \in Leaders(pool, {})
  BY DEF Followed, Lowest
<1> QED
  BY <1>1, <1>2, <1>3

LEMMA DefaultOfNight ==
  ASSUME SeatInv, phase \in NightPhases, NEW s \in ExpectedActors
  PROVE  DefaultAccepted(s)
<1>1. OnTurn(s) /\ s \in NightActors /\ ~SpeechQueuePending
  BY OnTheirTurn, PlainPhases
     DEF ExpectedActors, ElectionPhases, SpeechQueuePending, CampaignSpeaking, PkSpeaking
<1>2. CASE phase \in {"NIGHT_GUARD", "NIGHT_WITCH"}
  BY <1>1, <1>2 DEF DefaultAccepted, InElection, CanSkip
<1>3. CASE phase = "NIGHT_WEREWOLF"
  <2>1. DefaultKillAccepted(s)
    <3>1. \A t \in Followed : CanPropose(s, t)
      BY <1>1, <1>3, FollowedMayDie, BoardAssumption
         DEF CanPropose, SeatInv, GameInv, Inv, TypeInv, TypeOK
    <3>2. \A t \in alive \ Wolves : CanPropose(s, t)
      BY <1>1, <1>3, BoardAssumption DEF CanPropose, SeatInv, GameInv, Inv, TypeInv, TypeOK
    <3> QED
      BY <1>1, <1>3, <3>1, <3>2 DEF DefaultKillAccepted, CanPropose
  <2> QED
    BY <1>1, <1>3, <2>1 DEF DefaultAccepted, InElection
<1>4. CASE phase = "NIGHT_SEER"
  BY <1>1, <1>4 DEF DefaultAccepted, InElection, DefaultCheckAccepted, CanSkip, CanCheck
<1>5. phase # "NIGHT_HUNTER_CONFIRM"
  BY <1>1 DEF NightActors
<1> QED
  BY <1>2, <1>3, <1>4, <1>5 DEF NightPhases

LEMMA DefaultOfElection ==
  ASSUME SeatInv, Spoken, phase \in ElectionPhases, NEW s \in ExpectedActors
  PROVE  DefaultAccepted(s)
<1>1. /\ phase \notin NightPhases \cup {"HUNTER_SHOOT", "LAST_WORDS", "VOTE", "VOTE_PK"}
      /\ ~IsBadgeOnlyWindow
  BY PlainPhases DEF IsBadgeOnlyWindow
<1>2. CASE SpeechQueuePending
  BY <1>1, <1>2, MaySpeak
     DEF DefaultAccepted, InElection, SpeechQueuePending, CampaignSpeaking, PkSpeaking
<1>3. CASE ~SpeechQueuePending /\ (phase = "SHERIFF_PK" \/ InElection("vote"))
  <2>1. \A t \in Lowest(sheriff_candidates) : CanVoteSheriff(s, t)
    BY <1>3, SheriffVoters DEF Lowest
  <2> QED
    BY <1>1, <1>3, <2>1, SheriffVoters DEF DefaultAccepted, NightPhases, InElection
<1>4. CASE ~SpeechQueuePending /\ ~(phase = "SHERIFF_PK" \/ InElection("vote"))
  BY <1>1, <1>4, ElectionTurns DEF DefaultAccepted, NightPhases, InElection
<1> QED
  BY <1>2, <1>3, <1>4 DEF ElectionPhases

LEMMA DefaultOfDay ==
  ASSUME SeatInv, Spoken, phase \notin NightPhases \cup ElectionPhases, NEW s \in ExpectedActors
  PROVE  DefaultAccepted(s)
<1>1. OnTurn(s) /\ ~CampaignSpeaking
  BY OnTheirTurn DEF CampaignSpeaking, ElectionPhases
<1>2. CASE phase = "DAY_SPEECH"
  <2>1. ~SpeechQueuePending /\ ~IsBadgeOnlyWindow /\ CanSpeak(s)
    BY <1>2, MaySpeak DEF SpeechQueuePending, CampaignSpeaking, PkSpeaking, IsBadgeOnlyWindow
  <2> QED
    BY <1>2, <2>1 DEF DefaultAccepted, InElection
<1>3. CASE phase = "LAST_WORDS"
  <2>1. ~SpeechQueuePending
    BY <1>3 DEF SpeechQueuePending, CampaignSpeaking, PkSpeaking
  <2>2. IsBadgeOnlyWindow => s \in badge.flags
    BY HolderInWindow
  <2>3. ~IsBadgeOnlyWindow => CanSpeak(s)
    BY <1>3, MaySpeak
  <2> QED
    BY <1>1, <1>3, <2>1, <2>2, <2>3 DEF DefaultAccepted, InElection, CanPassBadge
<1>4. CASE phase \in {"VOTE", "VOTE_PK"}
  <2>1. CASE SpeechQueuePending
    BY <1>4, <2>1, MaySpeak
       DEF DefaultAccepted, InElection, SpeechQueuePending, CampaignSpeaking, PkSpeaking,
           IsBadgeOnlyWindow
  <2>2. CASE ~SpeechQueuePending
    BY <1>4, <2>2, DayVoters DEF DefaultAccepted, InElection
  <2> QED
    BY <2>1, <2>2
<1>5. CASE phase = "HUNTER_SHOOT"
  BY <1>1, <1>5
     DEF DefaultAccepted, InElection, CanShoot, SpeechQueuePending, CampaignSpeaking, PkSpeaking
<1>6. phase \notin {"EXILE", "GAME_OVER"}
  BY PlainPhases DEF ExpectedActors
<1> QED
  BY <1>2, <1>3, <1>4, <1>5, <1>6
     DEF SeatInv, GameInv, Inv, TypeInv, TypeOK, ControlTypeOK, Phases

LEMMA DefaultsLegal == SeatInv /\ Spoken => DefaultsAccepted
  BY DefaultOfNight, DefaultOfElection, DefaultOfDay DEF DefaultsAccepted

-----------------------------------------------------------------------------
(* What can be said at the terminal *)

LEMMA TypedBy ==
  ASSUME NEW line \in Lines, NEW call \in ParseLine(line), NEW a \in ParseToolCall(call)
  PROVE  a \in Typed
  BY DEF Typed

\* A line that is typed, and a tool call.
Line(command, word, seat, side) ==
  [command |-> command, word |-> word, seat |-> seat, side |-> side]
Call(tool, type, t, d, abstain) ==
  [tool |-> tool, action_type |-> type, target_seat |-> t, direction |-> d, abstain |-> abstain]

LEMMA LinesTyped ==
  ASSUME NEW command \in {"speak", "vote", "night", "sheriff", "self_destruct"},
         NEW word \in NightTypes \cup SheriffTypes \cup {"abstain", "none"},
         NEW seat \in SeatOrNone, NEW side \in {"left", "right", "none"}
  PROVE  Line(command, word, seat, side) \in Lines
  BY DEF Lines, Line

LEMMA TypedSpeech == Speech(<<>>) \in Typed /\ SelfDestruction \in Typed
<1>1. None \in SeatOrNone
  BY DEF SeatOrNone
<1>2. ASSUME NEW tool \in {"speak", "self_destruct"}
      PROVE  /\ Line(tool, "none", None, "none") \in Lines
             /\ Call(tool, "none", None, "none", FALSE)
                    \in ParseLine(Line(tool, "none", None, "none"))
  BY <1>1, LinesTyped DEF ParseLine, Line, Call
<1>3. Speech(<<>>) \in ParseToolCall(Call("speak", "none", None, "none", FALSE))
  BY DEF ParseToolCall, Call
<1>4. SelfDestruction \in ParseToolCall(Call("self_destruct", "none", None, "none", FALSE))
  BY DEF ParseToolCall, Call
<1> QED
  BY <1>2, <1>3, <1>4, TypedBy

LEMMA TypedBallot ==
  ASSUME NEW t \in SeatOrNone
  PROVE  Ballot(t) \in Typed
<1> DEFINE word == IF t = None THEN "abstain" ELSE "none"
           call == Call("vote", "none", t, "none", t = None)
<1>1. Line("vote", word, t, "none") \in Lines
  BY LinesTyped
<1>2. call \in ParseLine(Line("vote", word, t, "none"))
  BY DEF ParseLine, Line, Call
<1>3. Ballot(t) \in ParseToolCall(call)
  BY DEF ParseToolCall, Call
<1> QED
  BY <1>1, <1>2, <1>3, TypedBy

LEMMA TypedNight ==
  ASSUME NEW type \in NightTypes, NEW t \in SeatOrNone
  PROVE  NightMove(type, t) \in Typed
<1> DEFINE call == Call("night_action", type, t, "none", FALSE)
<1>1. Line("night", type, t, "none") \in Lines
  BY LinesTyped
<1>2. call \in ParseLine(Line("night", type, t, "none"))
  BY DEF ParseLine, Line, Call, NightTypes
<1>3. NightMove(type, t) \in ParseToolCall(call)
  BY DEF ParseToolCall, Call
<1> QED
  BY <1>1, <1>2, <1>3, TypedBy

LEMMA TypedSheriff ==
  ASSUME NEW type \in SheriffTypes, NEW t \in SeatOrNone, NEW d \in Directions \cup {"none"},
         t = None \/ d = "none"
  PROVE  SheriffMove(type, t, d) \in Typed
<1> DEFINE side == IF d = "LEFT" THEN "left" ELSE IF d = "RIGHT" THEN "right" ELSE "none"
           call == Call("sheriff_action", type, t, d, FALSE)
<1>1. Line("sheriff", type, t, side) \in Lines
  BY LinesTyped
<1>2. call \in ParseLine(Line("sheriff", type, t, side))
  BY DEF ParseLine, Line, Call, SheriffTypes, Directions
<1>3. SheriffMove(type, t, d) \in ParseToolCall(call)
  BY DEF ParseToolCall, Call
<1> QED
  BY <1>1, <1>2, <1>3, TypedBy
-----------------------------------------------------------------------------
(* What a seat is shown, and which answers are taken *)

LEMMA Shown ==
  ASSUME NEW s
  PROVE  LET o == Observation(s)
         IN  /\ o.my_seat = s /\ o.my_role = Role[s] /\ o.phase = phase /\ o.round = round
             /\ o.living = alive /\ o.election_stage = election_stage
             /\ o.sheriff_candidates = sheriff_candidates /\ o.vote_candidates = vote_candidates
             /\ o.pk_speech_pending = (~IsBadgeOnlyWindow /\ speech.who # {})
             /\ o.badge_only = IsBadgeOnlyWindow
             /\ o.sheriff_options = SheriffOptions(s)
  BY DEF Observation

LEMMA ToolsShown ==
  ASSUME NEW s
  PROVE  LET tools == AvailableTools(Observation(s))
         IN  /\ phase \in NightPhases \cup {"HUNTER_SHOOT"} => "night_action" \in tools
             /\ phase \in {"DAY_SPEECH"} \cup ElectionPhases => {"speak", "self_destruct"} \subseteq tools
             /\ phase \in ElectionPhases /\ ~InElection("speech") => "sheriff_action" \in tools
             /\ phase = "VOTE_PK" /\ PkSpeaking => "speak" \in tools
             /\ phase \in {"VOTE", "VOTE_PK"} /\ ~PkSpeaking => "vote" \in tools
             /\ phase = "LAST_WORDS" => "sheriff_action" \in tools
             /\ phase = "LAST_WORDS" /\ ~IsBadgeOnlyWindow => "speak" \in tools
<1>1. Observation(s).pk_speech_pending = (~IsBadgeOnlyWindow /\ speech.who # {})
  BY Shown
<1>2. phase = "VOTE_PK" => ~IsBadgeOnlyWindow /\ (PkSpeaking <=> speech.who # {})
  BY DEF IsBadgeOnlyWindow, PkSpeaking
<1> DEFINE o == Observation(s)
<1>3. /\ o.phase = phase /\ o.election_stage = election_stage
      /\ o.badge_only = IsBadgeOnlyWindow
  BY Shown
<1>4. o.pk_speech_pending = (~IsBadgeOnlyWindow /\ speech.who # {})
  BY <1>1
<1> HIDE DEF o
<1>5. phase \in NightPhases \cup {"HUNTER_SHOOT"} => "night_action" \in AvailableTools(o)
  BY <1>3 DEF AvailableTools
<1>6. phase \in {"DAY_SPEECH"} \cup ElectionPhases => {"speak", "self_destruct"} \subseteq AvailableTools(o)
  BY <1>3, PlainPhases DEF AvailableTools, ElectionPhases, NightPhases
<1>7. phase \in ElectionPhases /\ ~InElection("speech") => "sheriff_action" \in AvailableTools(o)
  BY <1>3, PlainPhases DEF AvailableTools, ElectionPhases, NightPhases, InElection
<1>8. /\ phase = "VOTE_PK" /\ PkSpeaking => "speak" \in AvailableTools(o)
      /\ phase \in {"VOTE", "VOTE_PK"} /\ ~PkSpeaking => "vote" \in AvailableTools(o)
  BY <1>2, <1>3, <1>4, PlainPhases DEF AvailableTools, NightPhases
<1>9. /\ phase = "LAST_WORDS" => "sheriff_action" \in AvailableTools(o)
      /\ phase = "LAST_WORDS" /\ ~IsBadgeOnlyWindow => "speak" \in AvailableTools(o)
  BY <1>3, PlainPhases DEF AvailableTools, ElectionPhases, NightPhases
<1> QED
  BY <1>5, <1>6, <1>7, <1>8, <1>9 DEF o

LEMMA SpeechTaken ==
  ASSUME NEW s, NEW flow, CanSpeak(s), "speak" \in AvailableTools(Observation(s)),
         flow = <<>> \/ FlowAccepted(flow)
  PROVE  Playable(s, Observation(s), Speech(flow))
  BY TypedSpeech DEF Playable, Accepted, Speech, Resubmitted

LEMMA BlastTaken ==
  ASSUME NEW s \in ExpectedActors, CanSelfDestruct(s),
         "self_destruct" \in AvailableTools(Observation(s))
  PROVE  Playable(s, Observation(s), SelfDestruction)
  BY TypedSpeech DEF Playable, Accepted, SelfDestruction, Resubmitted

LEMMA BallotTaken ==
  ASSUME NEW s, NEW t \in SeatOrNone, CanCastVote(s, t), "vote" \in AvailableTools(Observation(s))
  PROVE  Playable(s, Observation(s), Ballot(t))
  BY TypedBallot DEF Playable, Accepted, Ballot, Resubmitted

LEMMA NightMoveTaken ==
  ASSUME NEW s, NEW type \in NightTypes, NEW t \in SeatOrNone, NightMoveAccepted(s, type, t),
         "night_action" \in AvailableTools(Observation(s))
  PROVE  Playable(s, Observation(s), NightMove(type, t))
  BY TypedNight DEF Playable, Accepted, NightMove, Resubmitted

LEMMA SheriffMoveTaken ==
  ASSUME NEW s, NEW type \in SheriffTypes, NEW t \in SeatOrNone, NEW d \in Directions \cup {"none"},
         t = None \/ d = "none", SheriffMoveAccepted(s, type, t, d),
         type \in SheriffOptions(s), "sheriff_action" \in AvailableTools(Observation(s))
  PROVE  Playable(s, Observation(s), SheriffMove(type, t, d))
  BY TypedSheriff, Shown DEF Playable, Accepted, SheriffMove, Resubmitted

\* What is tried on one target is offered on all.
LEMMA OptionShown ==
  ASSUME NEW s, NEW p \in SheriffProbes(s), Accepted(s, p)
  PROVE  p.type \in SheriffOptions(s)
  BY DEF SheriffOptions

LEMMA OptionsShown ==
  ASSUME SeatInv, NEW s \in ExpectedActors
  PROVE  /\ CanDeclare(s) \/ CanConfirm(s) => {"run_for_sheriff", "withdraw"} \subseteq SheriffOptions(s)
         /\ CanSetDirection(s) => "set_speech_direction" \in SheriffOptions(s)
         /\ (\A t \in sheriff_candidates : CanVoteSheriff(s, t)) /\ sheriff_candidates # {} =>
               "vote_sheriff" \in SheriffOptions(s)
         /\ CanPassBadge(s, None) => "tear_badge" \in SheriffOptions(s)
         /\ (\A t \in alive \ {s} : CanPassBadge(s, t)) /\ alive \ {s} # {} =>
               "pass_badge" \in SheriffOptions(s)
<1>1. \A seats : seats \subseteq Seats /\ seats # {} => \E t : t \in Lowest(seats) /\ t \in seats
  <2>1. Seats \subseteq Nat
    BY BoardAssumption DEF Seats
  <2> QED
    BY <2>1, LeastNumber DEF Lowest
<1>2. alive \subseteq Seats /\ sheriff_candidates \subseteq Seats /\ None \notin Seats
  BY BoardAssumption DEF SeatInv, GameInv, Inv, TypeInv, TypeOK, CampaignTypeOK
<1>3. ASSUME NEW type \in {"run_for_sheriff", "withdraw"}, CanDeclare(s) \/ CanConfirm(s)
      PROVE  type \in SheriffOptions(s)
  <2> DEFINE p == SheriffMove(type, None, "none")
  <2>1. p \in SheriffProbes(s) /\ p.type = type
    BY DEF SheriffProbes, SheriffMove
  <2>2. Accepted(s, p)
    BY <1>3 DEF Accepted, SheriffMove, SheriffMoveAccepted
  <2> QED
    BY <2>1, <2>2, OptionShown
<1>4. ASSUME CanSetDirection(s)
      PROVE  "set_speech_direction" \in SheriffOptions(s)
  <2> DEFINE p == SheriffMove("set_speech_direction", None, "LEFT")
  <2>1. p \in SheriffProbes(s) /\ p.type = "set_speech_direction"
    BY DEF SheriffProbes, SheriffMove
  <2>2. Accepted(s, p)
    BY <1>4 DEF Accepted, SheriffMove, SheriffMoveAccepted, Directions
  <2> QED
    BY <2>1, <2>2, OptionShown
<1>5. ASSUME \A t \in sheriff_candidates : CanVoteSheriff(s, t), sheriff_candidates # {}
      PROVE  "vote_sheriff" \in SheriffOptions(s)
  <2>1. PICK t \in sheriff_candidates : t \in Lowest(sheriff_candidates)
    BY <1>1, <1>2, <1>5
  <2> DEFINE p == SheriffMove("vote_sheriff", t, "none")
  <2>2. p \in SheriffProbes(s) /\ p.type = "vote_sheriff"
    BY <2>1 DEF SheriffProbes, SheriffMove
  <2>3. Accepted(s, p)
    BY <1>5 DEF Accepted, SheriffMove, SheriffMoveAccepted
  <2> QED
    BY <2>2, <2>3, OptionShown
<1>6. ASSUME CanPassBadge(s, None)
      PROVE  "tear_badge" \in SheriffOptions(s)
  <2> DEFINE p == SheriffMove("tear_badge", None, "none")
  <2>1. p \in SheriffProbes(s) /\ p.type = "tear_badge"
    BY DEF SheriffProbes, SheriffMove
  <2>2. Accepted(s, p)
    BY <1>6 DEF Accepted, SheriffMove, SheriffMoveAccepted
  <2> QED
    BY <2>1, <2>2, OptionShown
<1>7. ASSUME \A t \in alive \ {s} : CanPassBadge(s, t), alive \ {s} # {}
      PROVE  "pass_badge" \in SheriffOptions(s)
  <2>1. PICK t \in alive \ {s} : t \in Lowest(alive \ {s})
    BY <1>1, <1>2, <1>7
  <2> DEFINE p == SheriffMove("pass_badge", t, "none")
  <2>2. p \in SheriffProbes(s) /\ p.type = "pass_badge"
    BY <2>1 DEF SheriffProbes, SheriffMove
  <2>3. Accepted(s, p)
    BY <1>2, <1>7, <2>1 DEF Accepted, SheriffMove, SheriffMoveAccepted
  <2> QED
    BY <2>2, <2>3, OptionShown
<1> QED
  BY <1>3, <1>4, <1>5, <1>6, <1>7

-----------------------------------------------------------------------------
(* What a language model answers *)

AgentAnswers(s) ==
  LET o == Observation(s)
  IN  AgentChoices(o) # {} /\ \A a \in AgentChoices(o) : AgentHeard(s, o, a)

LEMMA KindShown ==
  ASSUME NEW s
  PROVE  LET kind == DecisionKind(Observation(s))
         IN  /\ phase = "NIGHT_WEREWOLF" => kind = "wolf_night"
             /\ phase \in {"NIGHT_SEER", "NIGHT_WITCH", "NIGHT_GUARD", "HUNTER_SHOOT"} => kind = "night"
             /\ phase \in {"VOTE", "VOTE_PK"} /\ ~PkSpeaking => kind = "vote"
             /\ phase \in ElectionPhases /\ ~SpeechQueuePending /\ ~InElection("speech") => kind = "sheriff"
             /\ IsBadgeOnlyWindow => kind = "sheriff"
             /\ \/ phase = "DAY_SPEECH"
                \/ phase = "LAST_WORDS" /\ ~IsBadgeOnlyWindow
                \/ SpeechQueuePending
                => kind = "speech"
<1>1. Observation(s).pk_speech_pending = (~IsBadgeOnlyWindow /\ speech.who # {})
  BY Shown
<1>2. phase \in {"VOTE_PK", "SHERIFF_PK"} =>
          ~IsBadgeOnlyWindow /\ (PkSpeaking <=> speech.who # {})
  BY DEF IsBadgeOnlyWindow, PkSpeaking
<1>3. phase = "SHERIFF_PK" => (SpeechQueuePending <=> PkSpeaking)
  BY DEF SpeechQueuePending, CampaignSpeaking
<1>4. IsBadgeOnlyWindow => phase = "LAST_WORDS"
  BY DEF IsBadgeOnlyWindow
<1>5. SpeechQueuePending => \/ phase = "SHERIFF_ELECTION" /\ election_stage = "speech"
                            \/ phase \in {"VOTE_PK", "SHERIFF_PK"} /\ PkSpeaking
  BY DEF SpeechQueuePending, CampaignSpeaking, PkSpeaking
<1> DEFINE o == Observation(s)
<1>6. /\ o.phase = phase /\ o.election_stage = election_stage /\ o.badge_only = IsBadgeOnlyWindow
      /\ o.pk_speech_pending = (~IsBadgeOnlyWindow /\ speech.who # {})
  BY <1>1, Shown
<1> HIDE DEF o
<1>7. /\ phase = "NIGHT_WEREWOLF" => DecisionKind(o) = "wolf_night"
      /\ phase \in {"NIGHT_SEER", "NIGHT_WITCH", "NIGHT_GUARD", "HUNTER_SHOOT"} => DecisionKind(o) = "night"
  BY <1>6 DEF DecisionKind
<1>8. phase \in {"VOTE", "VOTE_PK"} /\ ~PkSpeaking => DecisionKind(o) = "vote"
  BY <1>2, <1>6 DEF DecisionKind
<1>9. /\ phase \in ElectionPhases /\ ~SpeechQueuePending /\ ~InElection("speech") => DecisionKind(o) = "sheriff"
      /\ IsBadgeOnlyWindow => DecisionKind(o) = "sheriff"
  BY <1>2, <1>3, <1>4, <1>6 DEF DecisionKind, ElectionPhases, InElection
<1>10. /\ phase = "DAY_SPEECH" => DecisionKind(o) = "speech"
       /\ phase = "LAST_WORDS" /\ ~IsBadgeOnlyWindow => DecisionKind(o) = "speech"
  BY <1>6 DEF DecisionKind
<1>11. SpeechQueuePending => DecisionKind(o) = "speech"
  BY <1>2, <1>5, <1>6 DEF DecisionKind
<1> QED
  BY <1>7, <1>8, <1>9, <1>10, <1>11 DEF o

LEMMA WolfAnswers ==
  ASSUME SeatInv, phase = "NIGHT_WEREWOLF", NEW s \in ExpectedActors
  PROVE  AgentAnswers(s)
<1> DEFINE o == Observation(s)
<1>1. OnTurn(s) /\ s \in alive /\ s \in Wolves /\ alive \subseteq Seats /\ None \notin Seats
  BY OnTheirTurn, PlainPhases, BoardAssumption
     DEF ExpectedActors, NightActors, NightPhases, SeatInv, GameInv, Inv, TypeInv, TypeOK
<1>2. DecisionKind(o) = "wolf_night"
  BY KindShown
<1>3. AgentChoices(o) = WolfChoices(o)
  BY <1>2 DEF AgentChoices
<1>4. Candidates(o) = alive \ {s}
  BY <1>2, Shown DEF Candidates, Others
<1>5. o.teammates = (alive \cap Wolves) \ {s}
  BY <1>1 DEF Observation, Wolves, Holders
<1>6. ASSUME NEW t \in Candidates(o) \ (IF config.allow_wolf_self_knife THEN {} ELSE o.teammates)
      PROVE  Playable(s, o, NightMove("kill", t))
  <2>1. t \in alive /\ (t \in Wolves => config.allow_wolf_self_knife)
    BY <1>4, <1>5
  <2>2. NightMoveAccepted(s, "kill", t)
    BY <1>1, <2>1 DEF NightMoveAccepted, CanPropose
  <2>3. "night_action" \in AvailableTools(o)
    BY ToolsShown DEF NightPhases
  <2> QED
    BY <1>1, <2>1, <2>2, <2>3, NightMoveTaken DEF NightTypes, SeatOrNone
<1>7. WolfChoices(o) # {}
  <2>1. PICK g \in alive : g \in Goods
    BY DEF SeatInv, TurnInv, HuntInv, NightPhases
  <2>2. g \in Candidates(o) \ (IF config.allow_wolf_self_knife THEN {} ELSE o.teammates)
    BY <1>1, <1>4, <1>5, <2>1 DEF Goods
  <2> QED
    BY <2>2 DEF WolfChoices
<1> QED
  BY <1>3, <1>6, <1>7 DEF AgentAnswers, AgentHeard, WolfChoices

\* Guard, witch, seer and hunter may always decline.
LEMMA SkipTaken ==
  ASSUME SeatInv, phase \in {"NIGHT_GUARD", "NIGHT_WITCH", "NIGHT_SEER", "HUNTER_SHOOT"},
         NEW s \in ExpectedActors
  PROVE  Playable(s, Observation(s), NightMove("skip", None))
<1>1. NightMoveAccepted(s, "skip", None)
  BY OnTheirTurn DEF NightMoveAccepted, CanSkip, CanShoot
<1>2. "night_action" \in AvailableTools(Observation(s))
  BY ToolsShown DEF NightPhases
<1> QED
  BY <1>1, <1>2, NightMoveTaken DEF NightTypes, SeatOrNone

LEMMA NightTaken ==
  ASSUME SeatInv, phase \in {"NIGHT_GUARD", "NIGHT_WITCH", "NIGHT_SEER", "HUNTER_SHOOT"},
         NEW s \in ExpectedActors, NEW a \in NightChoices(Observation(s))
  PROVE  Playable(s, Observation(s), a)
<1> DEFINE o == Observation(s)
<1>1. OnTurn(s) /\ alive \subseteq Seats /\ None \notin Seats
  BY OnTheirTurn, BoardAssumption DEF SeatInv, GameInv, Inv, TypeInv, TypeOK
<1>2. "night_action" \in AvailableTools(o) /\ DecisionKind(o) = "night"
  BY ToolsShown, KindShown DEF NightPhases
<1>3. ASSUME NEW type \in NightTypes, NEW t \in alive, NightMoveAccepted(s, type, t)
      PROVE  Playable(s, o, NightMove(type, t))
  BY <1>1, <1>2, <1>3, NightMoveTaken DEF SeatOrNone
<1>4. phase # "NIGHT_GUARD" => Candidates(o) = alive \ {s}
  BY <1>2, Shown DEF Candidates, Others
<1>5. CASE a = NightMove("skip", None)
  BY <1>5, SkipTaken
<1>6. CASE phase = "NIGHT_GUARD" /\ a # NightMove("skip", None)
  <2>1. s \in alive /\ Role[s] = "GUARD"
    BY <1>6, PlainPhases DEF ExpectedActors, NightActors, NightPhases, Holders
  <2>2. /\ o.can_guard_self <=> config.can_guard_self
        /\ o.can_repeat_guard <=> config.can_guard_same_target_consecutively
        /\ o.last_guard_target = last_guard_target[s]
    BY <2>1 DEF Observation
  <2>3. Candidates(o) = GuardCandidates(o)
    BY <1>2, <1>6, <2>1, Shown DEF Candidates
  <2>4. PICK t \in GuardCandidates(o) : a = NightMove("guard", t)
    BY <1>6, <2>3, Shown DEF NightChoices
  <2>5. t \in alive /\ CanGuard(s, t)
    BY <1>1, <1>6, <2>1, <2>2, Shown DEF GuardCandidates, Others, CanGuard
  <2> QED
    BY <1>1, <1>3, <2>4, <2>5 DEF NightMoveAccepted, NightTypes
<1>7. CASE phase = "NIGHT_WITCH" /\ a # NightMove("skip", None)
  <2>1. a \in WitchChoices(o) /\ s \in alive /\ Role[s] = "WITCH"
    BY <1>7, Shown, PlainPhases DEF NightChoices, ExpectedActors, NightActors, NightPhases, Holders
  <2>2. /\ o.antidote_available => s \in antidote /\ o.tonight_killed_seat = night.wolf_target
        /\ o.poison_available => s \in poison
    BY <2>1 DEF Observation
  <2>3. CASE a = NightMove("save", None) /\ o.antidote_available
             /\ o.tonight_killed_seat # None /\ Rescues(o)
    <3>1. CanSave(s)
      BY <1>1, <1>7, <2>2, <2>3, Shown DEF CanSave, Rescues
    <3> QED
      BY <1>2, <2>3, <3>1, NightMoveTaken DEF NightMoveAccepted, NightTypes, SeatOrNone
  <2>4. CASE o.poison_available /\ \E t \in Candidates(o) : a = NightMove("poison", t)
    <3>1. PICK t \in alive : a = NightMove("poison", t)
      BY <1>4, <1>7, <2>4
    <3>2. CanPoison(s, t)
      BY <1>1, <1>7, <2>2, <2>4, <3>1 DEF CanPoison
    <3> QED
      BY <1>1, <1>3, <3>1, <3>2 DEF NightMoveAccepted, NightTypes
  <2> QED
    BY <2>1, <2>3, <2>4 DEF WitchChoices
<1>8. CASE phase = "NIGHT_SEER" /\ a # NightMove("skip", None)
  <2>1. PICK t \in alive : a = NightMove("check", t)
    BY <1>4, <1>8, Shown DEF NightChoices
  <2>2. CanCheck(s, t)
    BY <1>1, <1>8 DEF CanCheck
  <2> QED
    BY <1>1, <1>3, <2>1, <2>2 DEF NightMoveAccepted, NightTypes
<1>9. CASE phase = "HUNTER_SHOOT" /\ a # NightMove("skip", None)
  <2>1. PICK t \in alive : a = NightMove("shoot", t)
    BY <1>4, <1>9, Shown DEF NightChoices
  <2>2. CanShoot(s, t)
    BY <1>1, <1>9 DEF CanShoot
  <2> QED
    BY <1>1, <1>3, <2>1, <2>2 DEF NightMoveAccepted, NightTypes
<1> QED
  BY <1>5, <1>6, <1>7, <1>8, <1>9

LEMMA NightAnswers ==
  ASSUME SeatInv, phase \in {"NIGHT_GUARD", "NIGHT_WITCH", "NIGHT_SEER", "HUNTER_SHOOT"},
         NEW s \in ExpectedActors
  PROVE  AgentAnswers(s)
<1>1. DecisionKind(Observation(s)) = "night"
  BY KindShown
<1>2. AgentChoices(Observation(s)) = NightChoices(Observation(s))
  BY <1>1 DEF AgentChoices
<1>3. NightMove("skip", None) \in NightChoices(Observation(s))
  BY DEF NightChoices
<1> QED
  BY <1>2, <1>3, NightTaken DEF AgentAnswers, AgentHeard

LEMMA VoteAnswers ==
  ASSUME SeatInv, phase \in {"VOTE", "VOTE_PK"}, ~SpeechQueuePending, NEW s \in ExpectedActors
  PROVE  AgentAnswers(s)
<1> DEFINE o == Observation(s)
<1>1. DecisionKind(o) = "vote" /\ "vote" \in AvailableTools(o)
  BY ToolsShown, KindShown DEF SpeechQueuePending, PkSpeaking
<1>2. AgentChoices(o) = {Ballot(t) : t \in Candidates(o) \cup {None}}
  BY <1>1 DEF AgentChoices
<1>3. vote_candidates # {} => Candidates(o) = vote_candidates
  BY <1>1, Shown DEF Candidates
<1>4. vote_candidates = {} => Candidates(o) = alive \ {s}
  BY <1>1, PlainPhases, Shown DEF Candidates, Others
<1>5. alive \subseteq Seats /\ vote_candidates \subseteq Seats
  BY DEF SeatInv, GameInv, Inv, TypeInv, TypeOK, VoteTypeOK
<1>6. ASSUME NEW t \in Candidates(o) \cup {None}
      PROVE  Playable(s, o, Ballot(t))
  BY <1>1, <1>3, <1>4, <1>5, DayVoters, BallotTaken DEF SeatOrNone
<1>7. Ballot(None) \in AgentChoices(o)
  BY <1>2
<1> QED
  BY <1>2, <1>6, <1>7 DEF AgentAnswers, AgentHeard

\* A wolf may blow itself up wherever it is told that it may.
LEMMA BlastAnswered ==
  ASSUME SeatInv, NEW s \in ExpectedActors, NEW a \in MayBlowUp(Observation(s))
  PROVE  Playable(s, Observation(s), a)
<1>1. a = SelfDestruction /\ Role[s] = "WEREWOLF" /\ phase \in {"DAY_SPEECH"} \cup ElectionPhases
  BY Shown DEF MayBlowUp
<1>2. CanSelfDestruct(s)
  BY <1>1, OnTheirTurn, PlainPhases DEF CanSelfDestruct, Wolves, Holders
<1>3. "self_destruct" \in AvailableTools(Observation(s))
  BY <1>1, ToolsShown
<1> QED
  BY <1>1, <1>2, <1>3, BlastTaken

\* Who campaigns may announce a flow of the form the prompt asks for.
LEMMA FlowTaken ==
  ASSUME SeatInv, CampaignSpeaking \/ (phase = "SHERIFF_PK" /\ PkSpeaking),
         config.badge_flow_enabled,
         NEW s, NEW longest, NEW flow \in FlowsOf(alive \ {s}, longest),
         config.badge_flow_max_length \in Nat, longest \in Nat,
         longest <= config.badge_flow_max_length
  PROVE  FlowAccepted(flow)
<1>1. PICK n \in 0 .. longest : flow \in [1 .. n -> alive \ {s}]
  BY DEF FlowsOf
<1>2. \A i, j \in DOMAIN flow : flow[i] = flow[j] => i = j
  BY DEF FlowsOf
<1>3. flow \in Seq(alive \ {s}) /\ Len(flow) = n
  BY <1>1
<1>4. \A i \in DOMAIN flow : flow[i] \in alive
  BY <1>1
<1> QED
  BY <1>2, <1>3, <1>4 DEF FlowAccepted

LEMMA EmptyFlow ==
  ASSUME NEW seats, NEW longest \in Nat
  PROVE  <<>> \in FlowsOf(seats, longest)
<1>1. 0 \in 0 .. longest /\ <<>> \in [1 .. 0 -> seats]
  OBVIOUS
<1>2. DOMAIN <<>> = {}
  OBVIOUS
<1> QED
  BY <1>1, <1>2 DEF FlowsOf

LEMMA SpeechAnswers ==
  ASSUME SeatInv, Spoken, config.badge_flow_max_length \in Nat, NEW s \in ExpectedActors,
         ~IsBadgeOnlyWindow, phase \in {"DAY_SPEECH", "LAST_WORDS"} \/ SpeechQueuePending
  PROVE  AgentAnswers(s)
<1> DEFINE o == Observation(s)
<1>1. CanSpeak(s)
  BY MaySpeak
<1>2. "speak" \in AvailableTools(o) /\ DecisionKind(o) = "speech"
  BY ToolsShown, KindShown, PlainPhases
     DEF SpeechQueuePending, CampaignSpeaking, PkSpeaking, InElection, ElectionPhases
<1>3. AgentChoices(o) = SpeechChoices(o)
  BY <1>2 DEF AgentChoices
<1>4. BadgeFlowAllowed(o) => CampaignSpeaking \/ (phase = "SHERIFF_PK" /\ PkSpeaking)
  BY Shown, PlainPhases
     DEF BadgeFlowAllowed, SpeechQueuePending, CampaignSpeaking, PkSpeaking, InElection, IsBadgeOnlyWindow
<1>5. SanitizedFlows(o) = FlowsOf(alive \ {s}, config.badge_flow_max_length)
  BY Shown DEF SanitizedFlows, Others
<1>6. Playable(s, o, Speech(<<>>))
  BY <1>1, <1>2, SpeechTaken
<1>7. ASSUME NEW flow \in IF BadgeFlowAllowed(o) THEN SanitizedFlows(o) ELSE {<<>>}
      PROVE  AgentHeard(s, o, Speech(flow))
  <2>1. CASE flow = <<>>
    BY <1>6, <2>1 DEF AgentHeard
  <2>2. CASE flow # <<>> /\ config.badge_flow_enabled
    <3>1. BadgeFlowAllowed(o) /\ flow \in FlowsOf(alive \ {s}, config.badge_flow_max_length)
      BY <1>5, <1>7, <2>2
    <3>2. CampaignSpeaking \/ (phase = "SHERIFF_PK" /\ PkSpeaking)
      BY <1>4, <3>1
    <3>3. config.badge_flow_max_length <= config.badge_flow_max_length
      OBVIOUS
    <3>4. FlowAccepted(flow)
      BY <2>2, <3>1, <3>2, <3>3, FlowTaken
    <3> QED
      BY <1>1, <1>2, <3>4, SpeechTaken DEF AgentHeard
  <2>3. CASE ~config.badge_flow_enabled
    BY <1>6, <2>3 DEF AgentHeard, Resubmitted, Speech
  <2> QED
    BY <2>1, <2>2, <2>3
<1>8. Speech(<<>>) \in SpeechChoices(o)
  BY <1>5, EmptyFlow DEF SpeechChoices
<1> QED
  BY <1>3, <1>7, <1>8, BlastAnswered DEF AgentAnswers, AgentHeard, SpeechChoices

\* The sheriff's moves that the stages of the election allow are all taken.
LEMMA CampaignTaken ==
  ASSUME SeatInv, phase \in ElectionPhases, ~SpeechQueuePending, NEW s \in ExpectedActors
  PROVE  /\ InElection("candidacy") \/ InElection("withdraw") =>
               \A type \in {"run_for_sheriff", "withdraw"} :
                   Playable(s, Observation(s), SheriffMove(type, None, "none"))
         /\ InElection("direction") =>
               \A d \in Directions :
                   Playable(s, Observation(s), SheriffMove("set_speech_direction", None, d))
         /\ InElection("vote") \/ phase = "SHERIFF_PK" =>
               \A t \in sheriff_candidates :
                   Playable(s, Observation(s), SheriffMove("vote_sheriff", t, "none"))
<1> DEFINE o == Observation(s)
<1>1. ~InElection("speech") /\ "sheriff_action" \in AvailableTools(o)
  BY ElectionTurns, ToolsShown DEF InElection, ElectionPhases
<1>2. ASSUME NEW type \in {"run_for_sheriff", "withdraw"},
             InElection("candidacy") \/ InElection("withdraw")
      PROVE  Playable(s, o, SheriffMove(type, None, "none"))
  <2>1. CanDeclare(s) \/ CanConfirm(s)
    BY <1>2, ElectionTurns DEF InElection
  <2>2. SheriffMoveAccepted(s, type, None, "none")
    BY <2>1 DEF SheriffMoveAccepted
  <2> QED
    BY <1>1, <2>1, <2>2, OptionsShown, SheriffMoveTaken DEF SheriffTypes, SeatOrNone
<1>3. ASSUME NEW d \in Directions, InElection("direction")
      PROVE  Playable(s, o, SheriffMove("set_speech_direction", None, d))
  <2>1. CanSetDirection(s)
    BY <1>3, ElectionTurns DEF InElection
  <2>2. SheriffMoveAccepted(s, "set_speech_direction", None, d)
    BY <2>1 DEF SheriffMoveAccepted
  <2> QED
    BY <1>1, <2>1, <2>2, OptionsShown, SheriffMoveTaken DEF SheriffTypes, SeatOrNone
<1>4. ASSUME NEW t \in sheriff_candidates, InElection("vote") \/ phase = "SHERIFF_PK"
      PROVE  Playable(s, o, SheriffMove("vote_sheriff", t, "none"))
  <2>1. sheriff_candidates # {} /\ \A u \in sheriff_candidates : CanVoteSheriff(s, u)
    BY <1>4, SheriffVoters
  <2>2. SheriffMoveAccepted(s, "vote_sheriff", t, "none")
    BY <2>1 DEF SheriffMoveAccepted
  <2>3. "vote_sheriff" \in SheriffOptions(s)
    BY <2>1, OptionsShown
  <2>4. t \in SeatOrNone
    BY DEF SeatOrNone, SeatInv, GameInv, Inv, TypeInv, TypeOK, CampaignTypeOK
  <2> QED
    BY <1>1, <2>2, <2>3, <2>4, SheriffMoveTaken DEF SheriffTypes
<1> QED
  BY <1>2, <1>3, <1>4

\* Who still holds the badge when it dies may tear it or pass it on.
LEMMA BadgeTaken ==
  ASSUME SeatInv, phase = "LAST_WORDS", NEW s \in ExpectedActors, s \in badge.flags,
         config.night_death_badge_window => IsBadgeOnlyWindow
  PROVE  /\ Playable(s, Observation(s), SheriffMove("tear_badge", None, "none"))
         /\ \A t \in alive \ {s} : Playable(s, Observation(s), SheriffMove("pass_badge", t, "none"))
<1> DEFINE o == Observation(s)
<1>1. "sheriff_action" \in AvailableTools(o)
  BY ToolsShown
<1>2. CanPassBadge(s, None) /\ \A t \in alive : CanPassBadge(s, t)
  BY OnTheirTurn DEF CanPassBadge
<1>3. alive \subseteq Seats /\ None \notin Seats
  BY BoardAssumption DEF SeatInv, GameInv, Inv, TypeInv, TypeOK
<1>4. Playable(s, o, SheriffMove("tear_badge", None, "none"))
  <2>1. SheriffMoveAccepted(s, "tear_badge", None, "none")
    BY <1>2 DEF SheriffMoveAccepted
  <2> QED
    BY <1>1, <1>2, <2>1, OptionsShown, SheriffMoveTaken DEF SheriffTypes, SeatOrNone
<1>5. ASSUME NEW t \in alive \ {s}
      PROVE  Playable(s, o, SheriffMove("pass_badge", t, "none"))
  <2>1. SheriffMoveAccepted(s, "pass_badge", t, "none")
    BY <1>2, <1>3 DEF SheriffMoveAccepted
  <2>2. "pass_badge" \in SheriffOptions(s)
    BY <1>2, OptionsShown
  <2> QED
    BY <1>1, <1>3, <2>1, <2>2, SheriffMoveTaken DEF SheriffTypes, SeatOrNone
<1> QED
  BY <1>4, <1>5

LEMMA CampaignAnswers ==
  ASSUME SeatInv, phase \in ElectionPhases, ~SpeechQueuePending, NEW s \in ExpectedActors
  PROVE  AgentAnswers(s)
<1> DEFINE o == Observation(s)
           moves == SheriffChoices(o)
<1>1. DecisionKind(o) = "sheriff"
  BY ElectionTurns, KindShown DEF InElection, ElectionPhases
<1>2. AgentChoices(o) = moves /\ o.phase = phase /\ o.election_stage = election_stage
  BY <1>1, Shown DEF AgentChoices
<1>3. CASE InElection("candidacy") \/ InElection("withdraw")
  <2>1. moves = MayBlowUp(o) \cup
                   {SheriffMove(type, None, "none") : type \in {"run_for_sheriff", "withdraw"}}
    BY <1>2, <1>3 DEF SheriffChoices, InElection
  <2>2. SheriffMove("withdraw", None, "none") \in moves
    BY <2>1
  <2> QED
    BY <1>2, <1>3, <2>1, <2>2, CampaignTaken, BlastAnswered DEF AgentAnswers, AgentHeard
<1>4. CASE InElection("direction")
  <2>1. moves = MayBlowUp(o) \cup
                   {SheriffMove("set_speech_direction", None, d) : d \in Directions}
    BY <1>2, <1>4 DEF SheriffChoices, InElection
  <2>2. SheriffMove("set_speech_direction", None, "LEFT") \in moves
    BY <2>1 DEF Directions
  <2> QED
    BY <1>2, <1>4, <2>1, <2>2, CampaignTaken, BlastAnswered DEF AgentAnswers, AgentHeard
<1>5. CASE InElection("vote") \/ phase = "SHERIFF_PK"
  <2>1. Candidates(o) = sheriff_candidates
    BY <1>1, <1>5, Shown DEF Candidates, InElection, ElectionPhases
  <2>2. moves = MayBlowUp(o) \cup
                   {SheriffMove("vote_sheriff", t, "none") : t \in sheriff_candidates}
    BY <1>2, <1>5, <2>1 DEF SheriffChoices, InElection
  <2>3. PICK t \in sheriff_candidates : SheriffMove("vote_sheriff", t, "none") \in moves
    BY <1>5, <2>2, SheriffVoters
  <2> QED
    BY <1>2, <1>5, <2>2, <2>3, CampaignTaken, BlastAnswered DEF AgentAnswers, AgentHeard
<1> QED
  BY <1>3, <1>4, <1>5, ElectionTurns

LEMMA BadgeAnswers ==
  ASSUME SeatInv, IsBadgeOnlyWindow, NEW s \in ExpectedActors
  PROVE  AgentAnswers(s)
<1> DEFINE o == Observation(s)
           moves == SheriffChoices(o)
<1>1. phase = "LAST_WORDS" /\ phase \notin ElectionPhases
  BY PlainPhases DEF IsBadgeOnlyWindow
<1>2. DecisionKind(o) = "sheriff"
  BY KindShown
<1>3. AgentChoices(o) = moves /\ o.phase = phase
  BY <1>2, Shown DEF AgentChoices
<1>4. Candidates(o) = alive \ {s}
  <2>1. /\ o.phase = "LAST_WORDS" /\ o.my_seat = s /\ o.living = alive
    BY <1>1, Shown
  <2> HIDE DEF o
  <2> QED
    BY <1>1, <1>2, <2>1 DEF Candidates, Others
<1>5. moves = MayBlowUp(o) \cup {SheriffMove("tear_badge", None, "none")}
                 \cup {SheriffMove("pass_badge", t, "none") : t \in alive \ {s}}
  BY <1>1, <1>3, <1>4 DEF SheriffChoices
<1> QED
  BY <1>1, <1>3, <1>5, HolderInWindow, BadgeTaken, BlastAnswered DEF AgentAnswers, AgentHeard

LEMMA AgentsAnswer ==
  ASSUME SeatInv, Spoken, config.badge_flow_max_length \in Nat, NEW s \in ExpectedActors
  PROVE  AgentAnswers(s)
<1>1. phase \in Phases
  BY DEF SeatInv, GameInv, Inv, TypeInv, TypeOK, ControlTypeOK
<1>2. phase \notin {"EXILE", "GAME_OVER", "NIGHT_HUNTER_CONFIRM"}
  BY PlainPhases DEF ExpectedActors, NightActors, NightPhases
<1>3. CASE phase \in NightPhases \cup {"HUNTER_SHOOT"}
  BY <1>2, <1>3, WolfAnswers, NightAnswers DEF NightPhases
<1>4. CASE IsBadgeOnlyWindow
  BY <1>4, BadgeAnswers
<1>5. CASE ~IsBadgeOnlyWindow /\ (phase \in {"DAY_SPEECH", "LAST_WORDS"} \/ SpeechQueuePending)
  BY <1>5, SpeechAnswers
<1>6. CASE phase \in {"VOTE", "VOTE_PK"} /\ ~SpeechQueuePending
  BY <1>6, VoteAnswers
<1>7. CASE phase \in ElectionPhases /\ ~SpeechQueuePending
  BY <1>7, CampaignAnswers
<1>8. phase \in {"VOTE", "VOTE_PK"} \cup ElectionPhases => ~IsBadgeOnlyWindow
  BY PlainPhases DEF IsBadgeOnlyWindow
<1> QED
  BY <1>1, <1>2, <1>3, <1>4, <1>5, <1>6, <1>7, <1>8 DEF Phases, ElectionPhases

-----------------------------------------------------------------------------
(* What a bot answers, on a board of the kind it was written for *)

BotAnswers(s) ==
  BotChoices(s) # {} /\ \A a \in BotChoices(s) : Playable(s, Observation(s), a)

\* Whether a bot may blow itself up.
BotBlast(s) ==
  IF s \in alive \cap Wolves /\ phase \in {"DAY_SPEECH"} \cup ElectionPhases
  THEN {SelfDestruction} ELSE {}

LEMMA BotBlastTaken ==
  ASSUME SeatInv, NEW s \in ExpectedActors, NEW a \in BotBlast(s)
  PROVE  Playable(s, Observation(s), a)
<1>1. a = SelfDestruction /\ CanSelfDestruct(s)
  BY DEF BotBlast, CanSelfDestruct
<1>2. "self_destruct" \in AvailableTools(Observation(s))
  BY <1>1, ToolsShown DEF CanSelfDestruct
<1> QED
  BY <1>1, <1>2, BlastTaken

LEMMA BotOfNight ==
  ASSUME SeatInv, BotRules, phase \in NightPhases \cup {"HUNTER_SHOOT"}, NEW s \in ExpectedActors
  PROVE  BotAnswers(s)
<1> DEFINE o == Observation(s)
           others == alive \ {s}
<1>1. OnTurn(s) /\ alive \subseteq Seats /\ None \notin Seats /\ "night_action" \in AvailableTools(o)
  BY OnTheirTurn, ToolsShown, BoardAssumption DEF SeatInv, GameInv, Inv, TypeInv, TypeOK
<1>2. phase # "NIGHT_HUNTER_CONFIRM"
  BY PlainPhases DEF ExpectedActors, NightActors, NightPhases
<1>3. BotChoices(s) = BotNightChoices(s)
  <2>1. BotBlast(s) = {}
    BY PlainPhases DEF BotBlast
  <2>2. /\ ~CampaignSpeaking /\ ~PkSpeaking
        /\ phase \notin {"LAST_WORDS", "VOTE", "VOTE_PK"} \cup ElectionPhases
    BY PlainPhases DEF CampaignSpeaking, PkSpeaking, ElectionPhases
  <2>3. phase \in (NightPhases \ {"NIGHT_HUNTER_CONFIRM"}) \cup {"HUNTER_SHOOT"}
    BY <1>2
  <2>4. BotChoices(s) = BotBlast(s) \cup BotNightChoices(s)
    BY <2>2, <2>3 DEF BotChoices, BotBlast
  <2> QED
    BY <2>1, <2>4
<1>4. \A x : phase \in NightPhases => alive \ {x} # {}
  BY DEF SeatInv, TurnInv, HuntInv, Goods
<1>5. ASSUME NEW type \in NightTypes, NEW t \in alive, NightMoveAccepted(s, type, t)
      PROVE  Playable(s, o, NightMove(type, t))
  BY <1>1, <1>5, NightMoveTaken DEF SeatOrNone
<1>6. CASE phase = "NIGHT_GUARD"
  <2> DEFINE targets == alive \ {last_guard_target[s]}
  <2>1. BotChoices(s) = {NightMove("guard", t) : t \in targets}
    BY <1>3, <1>6 DEF BotNightChoices
  <2>2. PICK t \in targets : TRUE
    BY <1>4, <1>6 DEF NightPhases
  <2>3. ASSUME NEW u \in targets
        PROVE  Playable(s, o, NightMove("guard", u))
    <3>1. CanGuard(s, u)
      BY <1>1, <1>6 DEF CanGuard, BotRules
    <3> QED
      BY <1>1, <1>5, <3>1 DEF NightMoveAccepted, NightTypes
  <2> QED
    BY <2>1, <2>2, <2>3 DEF BotAnswers
<1>7. CASE phase = "NIGHT_WEREWOLF"
  <2>1. BotChoices(s) = {NightMove("kill", t) : t \in others} /\ others # {}
    BY <1>3, <1>4, <1>7 DEF BotNightChoices, NightPhases
  <2>2. ASSUME NEW u \in others
        PROVE  Playable(s, o, NightMove("kill", u))
    <3>1. CanPropose(s, u)
      BY <1>1, <1>7 DEF CanPropose, BotRules
    <3> QED
      BY <1>1, <1>5, <3>1 DEF NightMoveAccepted, NightTypes
  <2> QED
    BY <2>1, <2>2 DEF BotAnswers
<1>8. CASE phase = "NIGHT_WITCH"
  <2>1. BotChoices(s) = {NightMove("skip", None)}
    BY <1>3, <1>8 DEF BotNightChoices
  <2> QED
    BY <1>8, <2>1, SkipTaken DEF BotAnswers
<1>9. CASE phase = "NIGHT_SEER"
  <2>1. BotChoices(s) = {NightMove("check", t) : t \in others} /\ others # {}
    BY <1>3, <1>4, <1>9 DEF BotNightChoices, NightPhases
  <2>2. ASSUME NEW u \in others
        PROVE  Playable(s, o, NightMove("check", u))
    <3>1. CanCheck(s, u)
      BY <1>1, <1>9 DEF CanCheck
    <3> QED
      BY <1>1, <1>5, <3>1 DEF NightMoveAccepted, NightTypes
  <2> QED
    BY <2>1, <2>2 DEF BotAnswers
<1>10. CASE phase = "HUNTER_SHOOT" /\ others = {}
  <2>1. BotChoices(s) = {NightMove("skip", None)}
    BY <1>3, <1>10 DEF BotNightChoices
  <2> QED
    BY <1>10, <2>1, SkipTaken DEF BotAnswers
<1>11. CASE phase = "HUNTER_SHOOT" /\ others # {}
  <2>1. BotChoices(s) = {NightMove("shoot", t) : t \in others}
    BY <1>3, <1>11 DEF BotNightChoices
  <2>2. ASSUME NEW u \in others
        PROVE  Playable(s, o, NightMove("shoot", u))
    <3>1. CanShoot(s, u)
      BY <1>1, <1>11 DEF CanShoot
    <3> QED
      BY <1>1, <1>5, <3>1 DEF NightMoveAccepted, NightTypes
  <2> QED
    BY <1>11, <2>1, <2>2 DEF BotAnswers
<1> QED
  BY <1>2, <1>6, <1>7, <1>8, <1>9, <1>10, <1>11 DEF NightPhases

LEMMA BotOfLastWords ==
  ASSUME SeatInv, Spoken, phase = "LAST_WORDS", NEW s \in ExpectedActors
  PROVE  BotAnswers(s)
<1> DEFINE parting == s \in badge.flags /\ (IsBadgeOnlyWindow \/ ~config.night_death_badge_window)
<1>1. phase \notin NightPhases \cup ElectionPhases
  BY PlainPhases
<1>2. ~CampaignSpeaking /\ ~PkSpeaking /\ BotBlast(s) = {}
  BY <1>1 DEF CampaignSpeaking, PkSpeaking, BotBlast
<1>3. CASE parting
  <2>1. BotChoices(s) = {SheriffMove("tear_badge", None, "none")}
    <3>1. BotChoices(s) = BotBlast(s) \cup BotSheriffChoices(s)
      BY <1>1, <1>2, <1>3 DEF BotChoices, BotBlast
    <3>2. BotSheriffChoices(s) = {SheriffMove("tear_badge", None, "none")}
      BY DEF BotSheriffChoices, InElection
    <3> QED
      BY <1>2, <3>1, <3>2
  <2> QED
    BY <1>3, <2>1, BadgeTaken DEF BotAnswers
<1>4. CASE ~parting
  <2>1. BotChoices(s) = {Speech(<<>>)}
    BY <1>1, <1>2, <1>4 DEF BotChoices, BotBlast
  <2>2. ~IsBadgeOnlyWindow
    BY <1>4, HolderInWindow
  <2> QED
    BY <2>1, <2>2, MaySpeak, ToolsShown, SpeechTaken DEF BotAnswers
<1> QED
  BY <1>3, <1>4

LEMMA BotOfVote ==
  ASSUME SeatInv, Spoken, phase \in {"VOTE", "VOTE_PK"}, NEW s \in ExpectedActors
  PROVE  BotAnswers(s)
<1> DEFINE o == Observation(s)
<1>1. phase \notin NightPhases \cup ElectionPhases /\ ~IsBadgeOnlyWindow
  BY PlainPhases DEF IsBadgeOnlyWindow
<1>2. ~CampaignSpeaking /\ BotBlast(s) = {} /\ (SpeechQueuePending <=> PkSpeaking)
  BY <1>1 DEF CampaignSpeaking, BotBlast, SpeechQueuePending
<1>3. CASE PkSpeaking
  <2>1. phase = "VOTE_PK" /\ "speak" \in AvailableTools(o)
    BY <1>1, <1>3, ToolsShown DEF PkSpeaking, ElectionPhases
  <2>2. BotChoices(s) = {Speech(<<>>)}
    BY <1>1, <1>2, <1>3, <2>1 DEF BotChoices, BotBlast
  <2> QED
    BY <1>1, <1>2, <1>3, <2>1, <2>2, MaySpeak, SpeechTaken DEF BotAnswers
<1>4. CASE ~PkSpeaking
  <2>1. BotChoices(s) = BotBallots(s)
    BY <1>1, <1>2, <1>4 DEF BotChoices, BotBlast
  <2> DEFINE named == IF vote_candidates # {} THEN vote_candidates
                      ELSE IF alive \ {s} # {} THEN alive \ {s} ELSE alive
  <2>2. s \in alive /\ alive \subseteq Seats /\ vote_candidates \subseteq Seats
    BY OnTheirTurn DEF SeatInv, GameInv, Inv, TypeInv, TypeOK, VoteTypeOK
  <2>3. BotBallots(s) = {Ballot(t) : t \in named} /\ named # {}
    BY <2>2 DEF BotBallots
  <2>4. \A t \in named : t \in SeatOrNone /\ CanCastVote(s, t)
    BY <1>2, <1>4, <2>2, DayVoters DEF SeatOrNone
  <2>5. "vote" \in AvailableTools(o)
    BY <1>4, ToolsShown
  <2> QED
    BY <2>1, <2>3, <2>4, <2>5, BallotTaken DEF BotAnswers
<1> QED
  BY <1>3, <1>4

LEMMA BotOfCampaign ==
  ASSUME SeatInv, phase \in ElectionPhases, ~SpeechQueuePending, NEW s \in ExpectedActors
  PROVE  BotAnswers(s)
<1> DEFINE moves == BotSheriffChoices(s)
<1>1. /\ phase \notin NightPhases \cup {"HUNTER_SHOOT", "LAST_WORDS", "VOTE", "VOTE_PK"}
      /\ ~CampaignSpeaking /\ ~PkSpeaking
  BY PlainPhases DEF SpeechQueuePending
<1>2. BotChoices(s) = BotBlast(s) \cup moves
  BY <1>1 DEF BotChoices, BotBlast
<1>3. CASE InElection("candidacy") \/ InElection("withdraw")
  <2>1. moves = {SheriffMove(type, None, "none") : type \in {"run_for_sheriff", "withdraw"}}
    BY <1>1, <1>3 DEF BotSheriffChoices, InElection
  <2>2. SheriffMove("withdraw", None, "none") \in moves
    BY <2>1
  <2> QED
    BY <1>2, <1>3, <2>1, <2>2, CampaignTaken, BotBlastTaken DEF BotAnswers
<1>4. CASE InElection("direction")
  <2>1. moves = {SheriffMove("set_speech_direction", None, d) : d \in Directions}
    BY <1>1, <1>4 DEF BotSheriffChoices, InElection
  <2>2. SheriffMove("set_speech_direction", None, "LEFT") \in moves
    BY <2>1 DEF Directions
  <2> QED
    BY <1>2, <1>4, <2>1, <2>2, CampaignTaken, BotBlastTaken DEF BotAnswers
<1>5. CASE InElection("vote") \/ phase = "SHERIFF_PK"
  <2>1. sheriff_candidates # {}
    BY <1>5, SheriffVoters
  <2>2. moves = {SheriffMove("vote_sheriff", t, "none") : t \in sheriff_candidates}
    BY <1>1, <1>5, <2>1 DEF BotSheriffChoices, InElection
  <2>3. PICK t \in sheriff_candidates : SheriffMove("vote_sheriff", t, "none") \in moves
    BY <2>1, <2>2
  <2> QED
    BY <1>2, <1>5, <2>2, <2>3, CampaignTaken, BotBlastTaken DEF BotAnswers
<1> QED
  BY <1>3, <1>4, <1>5, ElectionTurns

LEMMA BotOfSpeech ==
  ASSUME SeatInv, Spoken, BotRules, config.badge_flow_max_length \in Nat,
         NEW s \in ExpectedActors,
         phase = "DAY_SPEECH" \/ (phase \in ElectionPhases /\ SpeechQueuePending)
  PROVE  BotAnswers(s)
<1> DEFINE o == Observation(s)
<1>1. /\ phase \notin NightPhases \cup {"HUNTER_SHOOT", "LAST_WORDS", "VOTE", "VOTE_PK"}
      /\ ~IsBadgeOnlyWindow
  BY PlainPhases DEF IsBadgeOnlyWindow
<1>2. "speak" \in AvailableTools(o) /\ CanSpeak(s)
  BY <1>1, ToolsShown, MaySpeak
<1>3. Playable(s, o, Speech(<<>>))
  BY <1>2, SpeechTaken
<1>4. CASE phase = "DAY_SPEECH"
  <2>1. phase \notin ElectionPhases /\ ~CampaignSpeaking /\ ~PkSpeaking
    BY <1>4, PlainPhases DEF CampaignSpeaking, PkSpeaking
  <2>2. BotChoices(s) = BotBlast(s) \cup {Speech(<<>>)}
    BY <1>1, <1>4, <2>1 DEF BotChoices, BotBlast
  <2> QED
    BY <1>3, <2>2, BotBlastTaken DEF BotAnswers
<1>5. CASE phase \in ElectionPhases /\ SpeechQueuePending
  <2>1. CampaignSpeaking \/ (phase = "SHERIFF_PK" /\ PkSpeaking)
    BY <1>1, <1>5 DEF SpeechQueuePending, PkSpeaking
  <2>2. BotChoices(s) = BotBlast(s) \cup {Speech(flow) : flow \in BotFlows(s)}
    BY <1>1, <1>5, <2>1 DEF BotChoices, BotBlast
  <2>3. ASSUME NEW flow \in BotFlows(s)
        PROVE  Playable(s, o, Speech(flow))
    <3>1. CASE config.badge_flow_enabled
      <4>1. flow \in FlowsOf(alive \ {s}, 2)
        BY <2>3, <3>1 DEF BotFlows
      <4>2. 2 <= config.badge_flow_max_length
        BY <3>1 DEF BotRules
      <4>3. FlowAccepted(flow)
        BY <2>1, <3>1, <4>1, <4>2, FlowTaken
      <4> QED
        BY <1>2, <4>3, SpeechTaken
    <3>2. CASE ~config.badge_flow_enabled
      <4>1. flow = <<>>
        BY <2>3, <3>2 DEF BotFlows
      <4> QED
        BY <1>3, <4>1
    <3> QED
      BY <3>1, <3>2
  <2>4. Speech(<<>>) \in BotChoices(s)
    <3>1. <<>> \in BotFlows(s)
      BY EmptyFlow DEF BotFlows
    <3> QED
      BY <2>2, <3>1
  <2> QED
    BY <2>2, <2>3, <2>4, BotBlastTaken DEF BotAnswers
<1> QED
  BY <1>4, <1>5

LEMMA BotsAnswer ==
  ASSUME SeatInv, Spoken, BotRules, config.badge_flow_max_length \in Nat,
         NEW s \in ExpectedActors
  PROVE  BotAnswers(s)
<1>1. phase \in Phases
  BY DEF SeatInv, GameInv, Inv, TypeInv, TypeOK, ControlTypeOK
<1>2. phase \notin {"EXILE", "GAME_OVER"}
  BY PlainPhases DEF ExpectedActors
<1> QED
  BY <1>1, <1>2, BotOfNight, BotOfLastWords, BotOfVote, BotOfCampaign, BotOfSpeech
     DEF Phases, ElectionPhases

-----------------------------------------------------------------------------
(* The theorem *)

LEMMA PlayersAnswer ==
  ASSUME SeatInv, Spoken, config.badge_flow_max_length \in Nat
  PROVE  SeatsCanPlay
<1>1. ASSUME NEW s \in ExpectedActors
      PROVE  /\ AgentChoices(Observation(s)) # {}
             /\ \A a \in AgentChoices(Observation(s)) : AgentHeard(s, Observation(s), a)
  BY <1>1, AgentsAnswer DEF AgentAnswers
<1>2. ASSUME NEW s \in ExpectedActors, BotRules
      PROVE  BotChoices(s) # {} /\ \A a \in BotChoices(s) : Playable(s, Observation(s), a)
  BY <1>2, BotsAnswer DEF BotAnswers
<1> QED
  BY <1>1, <1>2, ActorsLive, DefaultsLegal DEF SeatsCanPlay

\* On every board on which speeches are not bid for, whoever the game waits
\* for can go on with it, until the end: the default action that the engine
\* plays for a silent seat (_apply_default) is legal, a language model is
\* shown enough to answer and whatever it answers within its form is taken, at
\* worst without its badge flow, and so is whatever a bot draws (RandomBot).
\* Boards with "BIDDING" are left out because step rejects every speech there.
THEOREM NobodyIsStuck ==
  Spoken /\ config.badge_flow_max_length \in Nat /\ Spec => []SeatsCanPlay
<1> DEFINE Board == Spoken /\ config.badge_flow_max_length \in Nat
<1>1. Board /\ SeatInv => SeatsCanPlay
  BY PlayersAnswer
<1>2. Board /\ SeatInv /\ [Next]_vars => Board' /\ SeatInv'
  BY NextSeats DEF Spoken
<1> QED
  BY <1>1, <1>2, InitSeats, PTL DEF Spec

=============================================================================
