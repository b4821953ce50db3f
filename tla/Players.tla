------------------------------- MODULE Players -------------------------------
(***************************************************************************)
(* Those who sit at the table: what a seat is shown (engine/observation.py *)
(* and schemas/actions.py), and what may come back from it: from the       *)
(* language model of agent/, from the scripted bot of cli/bot.py and from  *)
(* a human at the terminal.                                                *)
(*                                                                         *)
(* A language model is taken at its word: it answers within the form and   *)
(* the instructions of its prompt, and knows only the observation and the  *)
(* rules of the board that the prompt states.  Texts and role claims are   *)
(* left out; of a speech only its badge flow is kept.                      *)
(***************************************************************************)
EXTENDS EngineProps

-----------------------------------------------------------------------------
(* Actions (engine/actions.py): the tool an action is submitted with and    *)
(* its arguments.                                                           *)

NightMove(type, t) == [tool |-> "night_action", type |-> type, target |-> t]
Ballot(t) == [tool |-> "vote", target |-> t]    \* None abstains
Speech(flow) == [tool |-> "speak", flow |-> flow]
SheriffMove(type, t, d) ==
    [tool |-> "sheriff_action", type |-> type, target |-> t, direction |-> d]
SelfDestruction == [tool |-> "self_destruct"]

NightTypes == {"kill", "check", "save", "poison", "guard", "shoot", "skip"}
SheriffTypes == {"run_for_sheriff", "withdraw", "vote_sheriff", "pass_badge", "tear_badge",
                 "set_speech_direction"}
Directions == {"LEFT", "RIGHT"}

-----------------------------------------------------------------------------
(* _validate: whether step takes the action a of seat s.                    *)

\* The structure of a badge flow; its truth is nobody's business.
FlowAccepted(flow) ==
    /\ CampaignSpeaking \/ (phase = "SHERIFF_PK" /\ PkSpeaking)
    /\ config.badge_flow_enabled
    /\ Len(flow) <= config.badge_flow_max_length
    /\ \A i, j \in DOMAIN flow : flow[i] = flow[j] => i = j
    /\ \A i \in DOMAIN flow : flow[i] \in alive

NightMoveAccepted(s, type, t) ==
    \/ type = "skip" /\ (CanSkip(s) \/ CanPropose(s, None) \/ CanShoot(s, None))
    \/ type = "save" /\ CanSave(s)
    \/ /\ t # None
       /\ \/ type = "guard" /\ CanGuard(s, t)
          \/ type = "kill" /\ CanPropose(s, t)
          \/ type = "poison" /\ CanPoison(s, t)
          \/ type = "check" /\ CanCheck(s, t)
          \/ type = "shoot" /\ CanShoot(s, t)

SheriffMoveAccepted(s, type, t, d) ==
    \/ type \in {"run_for_sheriff", "withdraw"} /\ (CanDeclare(s) \/ CanConfirm(s))
    \/ type = "set_speech_direction" /\ d \in Directions /\ CanSetDirection(s)
    \/ type = "vote_sheriff" /\ CanVoteSheriff(s, t)
    \/ type = "pass_badge" /\ t # None /\ CanPassBadge(s, t)
    \/ type = "tear_badge" /\ CanPassBadge(s, None)

Accepted(s, a) ==
    CASE a.tool = "night_action" -> NightMoveAccepted(s, a.type, a.target)
      [] a.tool = "vote" -> CanCastVote(s, a.target)
      [] a.tool = "speak" -> CanSpeak(s) /\ (a.flow # <<>> => FlowAccepted(a.flow))
      [] a.tool = "sheriff_action" -> SheriffMoveAccepted(s, a.type, a.target, a.direction)
      [] a.tool = "self_destruct" -> ExpectedActors # {} /\ CanSelfDestruct(s)

-----------------------------------------------------------------------------
(* What a seat is shown *)

\* sheriff_options: each type of action is tried on one target that stands
\* for all: the first candidate, the first other seat that is alive.
SheriffProbes(s) ==
    {SheriffMove(type, None, "none") : type \in {"run_for_sheriff", "withdraw", "tear_badge"}}
        \cup {SheriffMove("set_speech_direction", None, "LEFT")}
        \cup {SheriffMove("vote_sheriff", t, "none") : t \in Lowest(sheriff_candidates)}
        \cup {SheriffMove("pass_badge", t, "none") : t \in Lowest(alive \ {s})}

SheriffOptions(s) == {p.type : p \in {q \in SheriffProbes(s) : Accepted(s, q)}}

\* build_observation.  A private entry that the seat is not given is None, or
\* empty: only the living have their role's.
Observation(s) ==
    LET plays(role) == s \in alive /\ Role[s] = role
        knows == s \in antidote \/ config.knows_kill_after_antidote_used
    IN  [my_seat |-> s, my_role |-> Role[s], phase |-> phase, round |-> round,
         living |-> alive,
         election_stage |-> election_stage,
         sheriff_candidates |-> sheriff_candidates,
         vote_candidates |-> vote_candidates,
         pk_speech_pending |-> ~IsBadgeOnlyWindow /\ speech.who # {},
         badge_only |-> IsBadgeOnlyWindow,
         sheriff_options |-> SheriffOptions(s),
         teammates |-> IF plays("WEREWOLF") THEN (alive \cap Wolves) \ {s} ELSE {},
         antidote_available |-> plays("WITCH") /\ s \in antidote,
         poison_available |-> plays("WITCH") /\ s \in poison,
         tonight_killed_seat |-> IF plays("WITCH") /\ knows THEN night.wolf_target ELSE None,
         last_guard_target |-> IF plays("GUARD") THEN last_guard_target[s] ELSE None,
         can_guard_self |-> plays("GUARD") /\ config.can_guard_self,
         can_repeat_guard |->
            plays("GUARD") => config.can_guard_same_target_consecutively]

\* available_tools_for: the tools the seat is told of.
AvailableTools(o) ==
    IF o.phase \in NightPhases \cup {"HUNTER_SHOOT"} THEN {"night_action"}
    ELSE IF o.phase = "DAY_SPEECH" THEN {"speak", "self_destruct"}
    ELSE IF o.phase = "VOTE_PK" /\ o.pk_speech_pending THEN {"speak"}
    ELSE IF o.phase \in {"VOTE", "VOTE_PK"} THEN {"vote", "speak"}
    ELSE IF o.phase = "SHERIFF_ELECTION" /\ o.election_stage = "speech"
    THEN {"speak", "self_destruct"}
    ELSE IF o.phase \in ElectionPhases THEN {"sheriff_action", "speak", "self_destruct"}
    ELSE IF o.phase = "LAST_WORDS" /\ o.badge_only THEN {"sheriff_action"}
    ELSE IF o.phase = "LAST_WORDS" THEN {"speak", "sheriff_action"}
    ELSE {}

-----------------------------------------------------------------------------
(* The language model (agent/decisions.py, prompts.py, agent_player.py) *)

MutantVoteInPk(o) ==
    CASE o.phase = "NIGHT_WEREWOLF" -> "wolf_night"
      [] o.phase \in {"NIGHT_SEER", "NIGHT_WITCH", "NIGHT_GUARD", "HUNTER_SHOOT"} -> "night"
      [] o.phase \in {"VOTE", "VOTE_PK"} -> "vote"
      [] o.phase = "LAST_WORDS" /\ o.badge_only -> "sheriff"
      [] o.phase = "SHERIFF_PK" /\ ~o.pk_speech_pending -> "sheriff"
      [] o.phase = "SHERIFF_ELECTION" /\ o.election_stage # "speech" -> "sheriff"
      [] OTHER -> "speech"
\* decision_kind_for: which form the model has to fill in.
DecisionKind(o) ==
    CASE o.phase = "NIGHT_WEREWOLF" -> "wolf_night"
      [] o.phase \in {"NIGHT_SEER", "NIGHT_WITCH", "NIGHT_GUARD", "HUNTER_SHOOT"} -> "night"
      [] o.phase = "VOTE" -> "vote"
      [] o.phase = "VOTE_PK" /\ ~o.pk_speech_pending -> "vote"
      [] o.phase = "LAST_WORDS" /\ o.badge_only -> "sheriff"
      [] o.phase = "SHERIFF_PK" /\ ~o.pk_speech_pending -> "sheriff"
      [] o.phase = "SHERIFF_ELECTION" /\ o.election_stage # "speech" -> "sheriff"
      [] OTHER -> "speech"

Others(o) == o.living \ {o.my_seat}

\* candidates_for: the seats the prompt offers as targets.
GuardCandidates(o) ==
    (Others(o) \cup (IF o.can_guard_self THEN {o.my_seat} ELSE {}))
        \ (IF o.can_repeat_guard THEN {} ELSE {o.last_guard_target})

MutantNaiveGuard(o) == Others(o) \cup (IF o.can_guard_self THEN {o.my_seat} ELSE {})
Candidates(o) ==
    CASE DecisionKind(o) = "vote" /\ o.vote_candidates # {} -> o.vote_candidates
      [] DecisionKind(o) = "sheriff" /\ o.phase \in ElectionPhases ->
            IF o.phase = "SHERIFF_PK" \/ o.election_stage = "vote"
            THEN o.sheriff_candidates ELSE {}
      [] DecisionKind(o) = "speech" -> {}
      [] DecisionKind(o) = "night" /\ o.phase = "NIGHT_GUARD" /\ o.my_role = "GUARD" ->
            GuardCandidates(o)
      [] OTHER -> Others(o)

MutantFlowAnywhere(o) == TRUE
\* badge_flow_allowed: only who campaigns announces whom it will check.
BadgeFlowAllowed(o) ==
    \/ o.phase = "SHERIFF_ELECTION" /\ o.election_stage = "speech"
    \/ o.phase = "SHERIFF_PK" /\ o.pk_speech_pending

\* _sanitize_badge_flow: whatever flow the model names, one of these comes out
\* of it, and each of them comes out of itself.
FlowsOf(seats, longest) ==
    {f \in UNION {[1 .. n -> seats] : n \in 0 .. longest} :
        \A i, j \in DOMAIN f : f[i] = f[j] => i = j}

SanitizedFlows(o) == FlowsOf(Others(o), config.badge_flow_max_length)

\* What the prompt asks for (_night_instruction, _speech_instruction,
\* _sheriff_instruction) and what the model is told of the rules of its role
\* (role_rule_brief).
MayBlowUp(o) ==
    IF o.my_role = "WEREWOLF" /\ o.phase \in {"DAY_SPEECH"} \cup ElectionPhases
    THEN {SelfDestruction} ELSE {}

WolfChoices(o) ==
    {NightMove("kill", t) :
        t \in Candidates(o) \ (IF config.allow_wolf_self_knife THEN {} ELSE o.teammates)}

\* "Self-rescue always, on the first night, or never."
Rescues(o) ==
    o.tonight_killed_seat = o.my_seat =>
        \/ config.self_rescue_always
        \/ config.self_rescue_first_night /\ o.round = 1

WitchChoices(o) ==
    (IF o.antidote_available /\ o.tonight_killed_seat # None /\ Rescues(o)
     THEN {NightMove("save", None)} ELSE {})
        \cup (IF o.poison_available THEN {NightMove("poison", t) : t \in Candidates(o)} ELSE {})

NightChoices(o) ==
    {NightMove("skip", None)} \cup
        CASE o.phase = "NIGHT_GUARD" -> {NightMove("guard", t) : t \in Candidates(o)}
          [] o.phase = "NIGHT_WITCH" -> WitchChoices(o)
          [] o.phase = "NIGHT_SEER" -> {NightMove("check", t) : t \in Candidates(o)}
          [] OTHER -> {NightMove("shoot", t) : t \in Candidates(o)}

SpeechChoices(o) ==
    {Speech(flow) : flow \in IF BadgeFlowAllowed(o) THEN SanitizedFlows(o) ELSE {<<>>}}
        \cup MayBlowUp(o)

SheriffChoices(o) ==
    MayBlowUp(o) \cup
        CASE o.phase = "SHERIFF_ELECTION" /\ o.election_stage \in {"candidacy", "withdraw"} ->
                {SheriffMove(type, None, "none") : type \in {"run_for_sheriff", "withdraw"}}
          [] o.phase = "SHERIFF_ELECTION" /\ o.election_stage = "direction" ->
                {SheriffMove("set_speech_direction", None, d) : d \in Directions}
          [] o.phase = "LAST_WORDS" ->
                {SheriffMove("tear_badge", None, "none")}
                    \cup {SheriffMove("pass_badge", t, "none") : t \in Candidates(o)}
          [] OTHER -> {SheriffMove("vote_sheriff", t, "none") : t \in Candidates(o)}

\* AgentPlayerPort.act and to_action: a function of the observation alone.
AgentChoices(o) ==
    CASE DecisionKind(o) = "wolf_night" -> WolfChoices(o)
      [] DecisionKind(o) = "night" -> NightChoices(o)
      [] DecisionKind(o) = "vote" -> {Ballot(t) : t \in Candidates(o) \cup {None}}
      [] DecisionKind(o) = "sheriff" -> SheriffChoices(o)
      [] DecisionKind(o) = "speech" -> SpeechChoices(o)

\* A speech whose badge flow is rejected is submitted again without it.
Resubmitted(a) == IF a.tool = "speak" THEN Speech(<<>>) ELSE a

-----------------------------------------------------------------------------
(* The scripted bot (cli/bot.py): it reads the state of the game itself.    *)

\* _bot_badge_flow: none, or one or two of the other living seats.
BotFlows(s) == IF config.badge_flow_enabled THEN FlowsOf(alive \ {s}, 2) ELSE {<<>>}

BotNightChoices(s) ==
    LET others == alive \ {s}
        targets == IF others # {} THEN others ELSE alive
    IN  CASE phase = "NIGHT_GUARD" ->
                {NightMove("guard", t) : t \in alive \ {last_guard_target[s]}}
          [] phase = "NIGHT_WEREWOLF" -> {NightMove("kill", t) : t \in targets}
          [] phase = "NIGHT_WITCH" -> {NightMove("skip", None)}
          [] phase = "NIGHT_SEER" -> {NightMove("check", t) : t \in targets}
          [] phase = "HUNTER_SHOOT" ->
                IF others = {} THEN {NightMove("skip", None)}
                ELSE {NightMove("shoot", t) : t \in others}

BotSheriffChoices(s) ==
    CASE phase = "LAST_WORDS" -> {SheriffMove("tear_badge", None, "none")}
      [] InElection("direction") ->
            {SheriffMove("set_speech_direction", None, d) : d \in Directions}
      [] InElection("candidacy") \/ InElection("withdraw") ->
            {SheriffMove(type, None, "none") : type \in {"run_for_sheriff", "withdraw"}}
      [] OTHER -> {SheriffMove("vote_sheriff", t, "none") :
                      t \in IF sheriff_candidates # {} THEN sheriff_candidates ELSE alive}

BotBallots(s) ==
    {Ballot(t) : t \in IF vote_candidates # {} THEN vote_candidates
                       ELSE IF alive \ {s} # {} THEN alive \ {s} ELSE alive}

\* RandomBot.choose_action: every outcome of its draws.
BotChoices(s) ==
    (IF s \in alive \cap Wolves /\ phase \in {"DAY_SPEECH"} \cup ElectionPhases
     THEN {SelfDestruction} ELSE {})
    \cup
    CASE CampaignSpeaking \/ (phase = "SHERIFF_PK" /\ PkSpeaking) ->
            {Speech(flow) : flow \in BotFlows(s)}
      [] phase = "VOTE_PK" /\ PkSpeaking -> {Speech(<<>>)}
      [] phase \in (NightPhases \ {"NIGHT_HUNTER_CONFIRM"}) \cup {"HUNTER_SHOOT"} ->
            BotNightChoices(s)
      [] phase = "LAST_WORDS" /\ s \in badge.flags
            /\ (IsBadgeOnlyWindow \/ ~config.night_death_badge_window) -> BotSheriffChoices(s)
      [] phase \in {"VOTE", "VOTE_PK"} /\ ~PkSpeaking -> BotBallots(s)
      [] phase \in ElectionPhases /\ ~SpeechQueuePending -> BotSheriffChoices(s)
      [] OTHER -> {Speech(<<>>)}

\* The rules the bot was written for: on other boards it may be refused.
BotRules ==
    /\ config.can_guard_self
    /\ config.allow_wolf_self_knife
    /\ config.badge_flow_enabled => config.badge_flow_max_length >= 2

-----------------------------------------------------------------------------
(* The human at the terminal (cli/play_human.py) *)

\* A line typed by the player: a command, a word after it, and a seat or a
\* side; "none" and None stand for what is left out.
Lines == [command : {"speak", "vote", "night", "sheriff", "self_destruct"},
          word : NightTypes \cup SheriffTypes \cup {"abstain", "none"},
          seat : SeatOrNone, side : {"left", "right", "none"}]

\* parse_line: the tool call of a line, as a set; empty for CliInputError.
ParseLine(line) ==
    LET call(tool, type, t, d) ==
            {[tool |-> tool, action_type |-> type, target_seat |-> t, direction |-> d,
              abstain |-> tool = "vote" /\ line.word = "abstain"]}
        side == [left |-> "LEFT", right |-> "RIGHT", none |-> "none"][line.side]
    IN  CASE line.command \in {"speak", "self_destruct"} -> call(line.command, "none", None, "none")
          [] line.command = "vote" ->
                IF line.word = "abstain" THEN call("vote", "none", None, "none")
                ELSE IF line.seat = None THEN {}
                ELSE call("vote", "none", line.seat, "none")
          [] line.command = "night" ->
                IF line.word = "none" THEN {} ELSE call("night_action", line.word, line.seat, "none")
          [] line.command = "sheriff" ->
                IF line.word = "none" THEN {}
                ELSE IF side # "none" THEN call("sheriff_action", line.word, None, side)
                ELSE call("sheriff_action", line.word, line.seat, "none")

\* parse_tool_call: the action of a tool call; empty for ToolCallError.
ParseToolCall(call) ==
    CASE call.tool = "speak" -> {Speech(<<>>)}
      [] call.tool = "vote" ->
            IF call.target_seat = None /\ ~call.abstain THEN {}
            ELSE {Ballot(IF call.abstain THEN None ELSE call.target_seat)}
      [] call.tool = "night_action" ->
            IF call.action_type \notin NightTypes THEN {}
            ELSE {NightMove(call.action_type, call.target_seat)}
      [] call.tool = "sheriff_action" ->
            IF call.action_type \notin SheriffTypes THEN {}
            ELSE {SheriffMove(call.action_type, call.target_seat, call.direction)}
      [] call.tool = "self_destruct" -> {SelfDestruction}

\* All that can be said at the terminal.
Typed == UNION {ParseToolCall(call) : call \in UNION {ParseLine(line) : line \in Lines}}

-----------------------------------------------------------------------------
\* An answer that step takes, of a type that the seat is shown as open to it,
\* and that a human could have typed.
Playable(s, o, a) ==
    /\ Accepted(s, a)
    /\ a.tool \in AvailableTools(o)
    /\ a.tool = "sheriff_action" => a.type \in o.sheriff_options
    /\ Resubmitted(a) \in Typed

\* An agent's answer is taken, or is taken without its badge flow.
AgentHeard(s, o, a) ==
    Playable(s, o, a) \/ (~config.badge_flow_enabled /\ Playable(s, o, Resubmitted(a)))

\* Whoever the game waits for can go on with it: the seat is alive, or has
\* just died and speaks, shoots or disposes of the badge; its default action
\* is legal (_apply_default raises if it is rejected); what it is shown is
\* enough for an obedient language model to answer, and for every answer it
\* may give to be legal; so is every answer of a bot, on a board of the kind
\* it was written for (run_game raises if one is rejected).
SeatsCanPlay ==
    /\ ActorsAreLive
    /\ DefaultsAccepted
    /\ \A s \in ExpectedActors :
          LET o == Observation(s)
          IN  /\ AgentChoices(o) # {} /\ \A a \in AgentChoices(o) : AgentHeard(s, o, a)
              /\ BotRules => BotChoices(s) # {} /\ \A a \in BotChoices(s) : Playable(s, o, a)

=============================================================================
