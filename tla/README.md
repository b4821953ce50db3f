# AgentHowl in TLA+

AgentHowl is a werewolf ("mafia") server: a deterministic rule engine plays one game for a table of seats, a runner asks
the seats - people, LLM agents or bots - what they do, an append-only file keeps the events, and REST and WebSocket
endpoints show them. This directory holds TLA+ modules translated from the sources, the TLC configurations that check them
on small instances, and theorems that TLAPS proves for all of them. Paths below are relative to `src/backend/app` unless
they begin with `frontend/`, which stands for `src/frontend/src`. `PROJECT.json` lists components, runs, hazards and
theorems, and names the lines that each definition stands for.

## 1. The system

| component | state | operations | talks to |
|---|---|---|---|
| rule engine `engine/engine.py` | none: `GameState` in, `GameState` out | `create_game`, `step` (validate, apply, then `advance` until somebody has to act) | called by the runner |
| rules `engine/config.py`, `engine/resolver.py`, `engine/phases.py` | the configuration of a game | night deaths, ballots, winner, who is expected to act | used by every step |
| state and reducer `engine/state.py`, `engine/events.py` | about thirty fields of `GameState` | `reduce(state, event)`, one branch per event | every event the engine emits goes through it |
| players: `engine/observation.py`, `runtime/defaults.py`, `agent/decisions.py`, `cli/bot.py`, `cli/play_human.py` | none | what a seat is shown, and what may come back from an LLM, a bot, a human, or nobody | engine on one side, ports on the other |
| game runner `runtime/game_runner.py` | the current `GameState`, deadline, rejections | `run`, `_drive_window` (all seats at once), `_drive_seat` (in turn), `_apply_default`, `_commit` | ports, engine, store, connections |
| ports `runtime/player_port.py` | prompt, pending action, outcome of a submission | `act` (called by the runner), `submit` (called by an endpoint), `notify_result` | runner on one side, endpoints on the other, through futures of one event loop |
| event store `store/event_store.py` | one JSONL file per game, a write-through cache, a lock | `create_game`, `append`, `load_*`, `delete_game`, repair and quarantine | runner on the event loop, endpoints in a thread pool |
| connections `runtime/connection.py`, `api/ws.py`, speech `runtime/speech_audio.py` | subscribers, queues of frames | `broadcast`, backfill, phase frames, sound, the notice of a crash | runner, browsers, LLM agents |
| page `frontend/store/turn.ts`, `frontend/api/ws.ts` | cursor, phase, the form of the turn | one transition per frame | the WebSocket endpoint |
| agent memory `agent/memory.py` | entries with scores | `ingest`, the context of a decision | the agent's subscription |
| accounts `api/auth.py`, `api/admin.py`, `runtime/users.py` | users, sessions, mail codes in SQLite, one lock | register, verify, resend, log in and out, patch and verify by an admin | endpoints in the pool and on the loop |
| registry, lobby `runtime/registry.py`, `api/rest.py`, `api/deps.py` | games, seats, tasks, tokens | create, join, start, delete; whose eyes a reader has | pool threads, event loop, store |
| post-game review `runtime/postgame.py`, `runtime/experience_store.py` | one file of experiences per memory | a task per finished game; a start waits for it | registry |
| statistics `eval/metrics.py` | counters per seat | `analyze_game` over the events of a game | reads the store |
| ratings, history list, providers, voices, avatars, CLI drivers, pages | their own files | input and output | see section 9 |

A step: the runner computes `expected_actors(state)`, asks the ports of these seats, waits for an action or the deadline,
calls `step`, appends the events to the store and broadcasts them. Only the runner changes a game. The endpoints reach it
through two doors: futures of a port (same event loop) and the store (other threads). Accounts and the registry are reached
by handlers of both kinds, `def` in the threads of a pool and `async def` on the loop.

What is hard here:

* **Protocol.** The engine has fourteen phases, and jumps between them with `resume_token`, `pending_hunter`,
  `night_deaths` and `skip_day` as its memory of where to go on. A death may happen at night, by exile, by a hunter's shot
  or by a wolf that blows itself up, in the election too; each path has to announce the dead, ask a hunter, hear last
  words, move the badge and test for the end, in this order, and none may forget one of them.
* **Ballots.** Four kinds of ballot, each with an electorate of its own, runoffs, lots, and electorates that change
  between ballots.
* **Loops.** Proposals of the wolves, runoffs and elections repeat; every one has to end.
* **Tasks and futures.** A submission, a deadline and a verdict are three tasks; the results of one window are applied
  one after another although the first of them may have ended the window; the page learns of all that by frames that cross
  with its own messages.
* **Threads and crashes.** The store is read and deleted from a pool while the runner appends; a process may die within a
  write.
* **Checks without locks.** A handler in the pool reads a row or a game, decides, and writes later; hardly any of them
  holds a lock. Whether a promise survives depends on which handlers overlap where.
* **Streams that are joined late.** A viewer who comes in the middle is given the history and then live batches; sound and
  phases are derived from the events and must fit them whenever he came.

## 2. Modules

| module | models | built on |
|---|---|---|
| `GameConfig` | board and rules (constants and their assumptions), night deaths, ballot counts, `CheckWin`, wolf consensus, speaking queues | - |
| `GameState` | the variables, one for each field of `GameState` that a rule reads; `expected_actors`, electorates, `TypeOK` | `GameConfig` |
| `EngineFlow` | what a step chains at its end: announcing the dead, last words, badge window, day speech, nightfall, game over | `GameState` |
| `Night`, `Day`, `Election` | the actions of players and the system transitions of these phases | `EngineFlow` |
| `Engine` | `Init`, `PlayerAction`, `SystemStep`, `Next`, `Spec`, `FairSpec` | the three above |
| `WerewolfGame` | the abstract game: stages, who may die when, the hunter's gun, the end | `GameConfig` |
| `EngineProps` | properties of the engine, default actions, the mapping onto `WerewolfGame` | `Engine`, `INSTANCE WerewolfGame` |
| `EngineHistory` | the engine with history variables, and the properties that need them | `EngineProps` |
| `EngineClaims` | a sentence of the documents that the engine does not honour | `EngineProps` |
| `Players` | what a seat is shown, and what an LLM, a bot or a human may answer | `EngineProps` |
| `GameAnalysis` | the statistics of a game, replayed beside the engine | `EngineProps` |
| `MCEngine`, `MCHistory`, `MCAnalysis` | small boards for TLC | `EngineClaims`, `Players`, `EngineHistory`, `GameAnalysis` |
| `EventLog` | the abstract log of one game: grows by the next event, is read as it is, is lost only by deletion or, from its end, by a restart | - |
| `EventStore` | one game of `JsonFileEventStore`: file, cache, lock, threads, failures | - |
| `EventStoreProps`, `MCEventStore` | its properties, the mapping onto `EventLog`, an instance | `EventStore`, `INSTANCE EventLog` |
| `PlayerWindow` | the windows of the runner and the ports of outside players | - |
| `PlayerWindowProps`, `MCPlayerWindow` | its properties, an instance | `PlayerWindow` |
| `PlayerTabs` | the page of a player, its connection and the endpoint between page and port | `PlayerWindow` |
| `PlayerTabsProps`, `MCPlayerTabs` | its properties, an instance | `PlayerTabs`, `PlayerWindowProps` |
| `Requests` | requests as sequences of steps | - |
| `Accounts` | users, sessions, mail codes | `Requests` |
| `Registry` | games, tokens, the task of a game, its review, the memories | `Accounts` |
| `Server` | whose eyes a reader has, streams and reads; the specification | `Registry` |
| `ServerProps`, `MCServer` | properties of accounts, games and readers; groups of requests | `Server` |
| `Feed` | the abstract stream: each reader reads on in what he may see of one growing record | - |
| `Broadcast` | batches, phases, sound and the crash on their way to browsers and LLM agents | - |
| `AgentMemory` | what an LLM seat remembers of what it received | `Broadcast` |
| `BroadcastProps`, `MCBroadcast` | properties, the mapping onto `Feed`, a short game | `AgentMemory`, `INSTANCE Feed` |
| `EngineProofs`, `GameProofs`, `HistoryProofs` | theorems about the engine, each module built on the one before | `EngineProps`, `EngineHistory`, TLAPS |
| `PlayerProofs` | the theorem about those who play | `GameProofs`, `Players` |
| `StoreProofs`, `ServerProofs`, `FeedProofs` | theorems about the store, the server and the feed | their `Props` modules, TLAPS |
| `WindowProofs` | the theorems about windows and pages | `PlayerWindowProps`, `PlayerTabsProps`, TLAPS |

### How the engine corresponds to the code

* Variables keep the names of the fields of `GameState`. Some fields are grouped: `badge` is `sheriff_seat` and the
  `is_sheriff` flags of the players (kept apart, because the code can disagree with itself about them); `night` is
  `NightActions` with `night_deaths` and `skip_day`; `speech` is a queue of seats, as the set still to speak, the seat to
  start from and the direction, instead of a tuple.
* `step` is a validation, an application and the loop `advance`. A validation is an operator `Can...` and the guard of
  its action; a rejected action changes nothing and is no step. An iteration of `advance` is an action of its own
  (`WolfKillDecided`, `AllDeclared`, `AfterLastWords`...). Players act only where the loop has ended, since their guards
  need `ExpectedActors`, so nothing comes between iterations.
* Helpers that the code chains within one transition (`_announce_and_continue_night`, `_finish_night_deaths`,
  `_enter_day_speech`, `_after_day_death`...) are operators on the primed state in `EngineFlow`, never actions.
* The seeded random source decides draws (lots, a kill by majority, directions, the default seer check). Every outcome
  of a draw is allowed.
* Texts, timestamps and payloads that no rule reads are left out. A step's events are not kept: what `reduce` makes of
  them is in the primed variables. The deal of the roles is a constant.
* `Aim` bounds the seats that kills, guards, poison, shots, votes and the badge may be aimed at. It is a subset of all
  seats for TLC and arbitrary in the theorems; abstaining, skipping and proposing nobody are always possible.

### How players and statistics correspond to the code

`Players` has no variables. `Observation(s)` is `build_observation` as far as somebody decides by it, `Accepted` is
`_validate` for an action in the form in which it is submitted, `AvailableTools` what the seat is told it may call.
`AgentChoices` is what a language model may answer that keeps to its form and its instructions (`decision_kind_for`,
`candidates_for`, the instructions of the prompt, `to_action`), `BotChoices` every draw of `RandomBot`, and `Typed` all
that a human at the terminal can say (`parse_line`, `parse_tool_call`). `SeatsCanPlay` ties them together: whoever the
game waits for is alive or has just died; the default action for it is legal; it is offered at least one choice; and each
choice an LLM, a bot or a human is offered is one that `step` takes.

`GameAnalysis` runs `analyze_game` beside the engine: the events of a step are read off the change it makes, and the
counters of the `Watched` seats follow. It never influences a step.

### How the store corresponds to the code

A record is its number: 0 is the meta line, k the event whose seq is k, `Bad` a line that does not parse. A file is its
complete lines and whether bytes follow the last newline. Between two accesses of memory or disk a step ends, so that a
crash or another thread may come in: `append` is `Open`, `LoadLines`, `Fill`, `CheckAppend`, `WriteLine`, `CacheLine`,
under the lock as in the code. Failures are a write that is cut short, a repair, rename or removal that the system
refuses, a process that dies at any point, and a power failure that takes bytes from the end of the file (nothing is
fsynced). A restart is a new store over the same directory. No runner of today resumes a game after a restart - after a
crash its file can only be read or deleted - but the tests of the store do (`tests/test_event_store.py:222-235`), and
`Learn` is that caller.

### How windows and pages correspond to the code

`RunnerStep` is what `run`, `_drive_window` and `_drive_seat` do between two awaits, `ActResumes` a port's `act` that
wakes up with an action or is cancelled by its deadline, `Submit` an endpoint that calls `submit`. The engine is
reduced to a version, the seats it expects and whether they act together; any of `Enders` may end a window for
everybody, as a wolf does that blows itself up. `calls` lists the submissions that a port accepted with the verdict their
future got. A verdict is set in the same step as `notify_result` runs.

`PlayerTabs` puts a page and its connection around it. `up` and `down` are the messages and frames under way, in order.
A prompt and the end of a window are sent in the step in which they happen (`Watched`). The endpoint reads one message,
waits for its verdict up to `ACCEPT_WAIT_SEC`, then acknowledges and delivers the verdict late (`Receive`, `Report`,
`Acknowledge`, `DeliverLate`). A verdict that is due is queued before a message that was sent after it can be read: the one
is a task that is ready on the event loop, the other a round trip on the network. `form` is the turn store of the page,
with one branch of `After` for each frame. Submissions from elsewhere - a second page, a program over REST - name no version
(`OtherClient`). `stale` and `wiped` are history.

### How the server corresponds to the code

A request is a record of what is asked; `call` holds, for each, the step its handler is at and what the handler has read
(`at`, `got`). Between two steps of a `def` handler, which runs in a thread of the pool, anything may happen; an
`async def` handler holds the event loop until an await, and no other request of the loop and no task of a game moves
meanwhile (`LoopFree`) - but the threads do. Every call of the user store is a transaction of its own, so that a handler
that reads a row and writes it back takes two steps.

Most handlers take no lock, and some promises do break when two of them meet (section 6). Three history variables say
when: `stale`, that a row or a code was overwritten by an old copy; `deposed`, that a registration took over the account of
an admin; and `raced`, the games on which a handler acted on a check that no longer held. The properties are stated for all
other overlaps: they show that nothing else can break the promise.

`Workload` is a set of groups of requests; a behaviour serves one group, each request at most once. `UserId`, `Users0` are
the ids and the accounts at the start, `MailOn` says whether mail is configured, `MaxAttempts` is
`EMAIL_CODE_MAX_ATTEMPTS`, `N` the seats of a table, `MemoryId` the ids under which an agent may remember.

### How the feed corresponds to the code

All of it runs on the event loop; an action is what happens between two awaits that really wait. `Commit` writes a batch
and calls every subscriber in the same step, since nothing gives way in between; the queue of a connection is drained by
`Send`, frame by frame. `Script` is the game: the batches that the runner gets from the engine. `Connect` is the synchronous
block of `ws_endpoint` - subscribe, queue the history from `from_seq`, and the last word if the runner is dead; a browser
asks for what follows the last event it has, and after a reload for all. An LLM agent takes the events of a batch into its
memory one by one, may fail after any number of them (`MaxTaken` bounds it) and is then dropped for ever. Speech is
`VoiceBegin`, `VoicePart`, `VoiceEnd`, or breaks off without an end (`VoiceFails`); `CommitFails` is a store that cannot
write, after which `CrashNotice` tells everybody. The memory of an agent is a function of the events it received
(`AgentMemory`).

## 3. Runs

| run | instance | what it shows |
|---|---|---|
| `election` | 5 seats (wolf, witch, two villagers, hunter), one day, one-step badge rule | the election over the bodies of the first night: deaths stay parked and are announced on every exit (`NightDeathsSettled`), only those who may vote do (`BallotsLegal`), nobody votes before those who may speak were heard (`HeardBeforeVote`), the runoff has exactly the voters of the first ballot (`RunoffElectorate`), everybody asked can go on (`SeatsCanPlay`), the game is a game of `WerewolfGame` (`GameImplemented`) and it ends (`GameEnds`) |
| `night` | 4 seats (two wolves, hunter, witch), two nights, unanimous wolves, a runoff | each potion once per game though the antidote is marked used only at the end of the night (`OneBottleEach`), last words are not lost to a hunter's shot (`LastWordsHeard`), the statistics of a wolf are true (`StatisticsTrue`), `SeatsCanPlay` |
| `vote` | 5 seats (two wolves, idiot, guard, witch), two days, runoff then lots, speech order by the clock | `SeatsCanPlay` with a guard who may not guard the same seat twice and an idiot who turns over; termination even if wolves disagree for ever (`GameEnds`) |
| `badge` | 4 seats (two wolves, hunter, seer), two days, two-step badge rule | on every way its holder can die the badge is handed on, drawn or torn up before the next night, speech or vote (`NoOrphanBadge`), its two records agree (`BadgeConsistent`), `TypeOK` |
| `store` | runner and two threads, 4 events, 3 failures | the store is `EventLog` (`LogImplemented`), no failure makes a file it then refuses (`FileReadable`), a cached game is what the file says (`CacheIsFile`), readers never break an append (`NoSeqConflict`) |
| `window` | 3 seats, one may end a window, 2 windows, 2 submissions, 2 rejections | "ok" exactly if the action was applied (`VerdictTrue`), a late submission is never an action of the next window (`LateNeverLands`), a verdict reaches every accepted submission unless the window was ended by another seat (`VerdictArrives`), nobody can stop the game (`GameGoesOn`), `TypeOK` |
| `server` | eight groups of up to six requests | an active admin is left (`AdminKept`), nobody loses an account that is verified or has a live code (`AccountKept`), guesses stay counted (`AttemptsKept`), one seat per account, a port behind every token and every seat of a running game (`SeatsKept`), no unfiltered view for a player or a seated owner, by session, token or link (`NoGodsView`), a running game is not deleted (`RunningKept`), no lesson of a review is lost (`ReviewsKept`), a game starts with the lessons it waited for (`StartsInformed`), every request is answered (`AllAnswered`) |
| `feed` | a browser, the agent of the seer, nine batches, one break or reload, 2 sentences | every reader gets his view of the log in order, without gap or repetition (`FeedImplemented`), outsiders see the right phase and round (`PhaseShown`), sound comes after its event and is closed (`AudioBracketed`), an LLM seat is told the newest and the most telling (`RecallTrue`), what is committed and a crash reach everyone connected (`Told`) |
| `tabs` | two seats, a page, two windows and a third where an action of the first is without a verdict, 2 submissions, at most 1 of them from elsewhere, one break | a player whose window is open has its form, unless a refusal took it or a late acknowledgement hides it, and a form that is over stays only on a page that submitted to it or was cut off (`FormsTrue`) |
| `claimKnife`, `claimReflects`, `claimLockedOut` | as above; one agent alone; as `tabs` with two windows | the code disagrees with a document or a comment, section 6 |

Every property of a passing run has a mutant in `PROJECT.json`: a plausible bug in one definition, with which TLC finds
the property violated. The mutated forms stand before the definitions they replace, named `Mutant...`.

### Bounds, and why they are enough

* Boards of 4 or 5 seats hold every role at least once across the runs. The rules treat seats alike but for their order
  and role, and the rules that count (majority, half a day's votes, a side wiped out) have their boundary cases on these
  boards. What a bigger board adds are larger queues and electorates, not new transitions. The theorems hold for all.
* `max_rounds` 1 or 2. Nothing but `last_guard_target`, the potions, the badge, the revealed idiots and the dead
  survives from one round to the next; two rounds let each of them be carried over and read.
* A rule switch takes one value per run. The values differ between runs so that the branches of both kinds occur
  (`tie_rule`, `pk_voters`, `wolf_kill_rule`, `speech_order_rule`, `last_words`, `night_death_badge_window`...). The
  combinations that no run has are covered by the theorems only.
* `Watched` is one wolf: nothing is exchanged between the counters of two seats, and a wolf has all of them.
* The store: four events and three failures allow a torn tail, its repair, another crash and a second repair, with a
  deletion and re-creation in between. The two readers reach every interleaving of check, load and fill with an append.
* The windows: three seats allow a seat that ends the window, one that has already submitted and one that is late. Two
  windows are needed for anything to be carried over; two submissions for a late one after an early one. `MAX_REJECTIONS`
  is 3 in the code and 2 here. A page needs no third seat: what matters to it is its own and one that ends a window. It
  needs a third window where the first has left an action without a verdict (`ThirdWindow`): what is late from the first
  may then meet the second or the third.
* The server: a promise is broken by two or three handlers that meet, and by a fourth that made the state they meet in. A
  group holds those whose reads and writes touch: admins, codes of one account, names, the table of one game three times
  (its owner, guests, deletions), readers of a game, and two games with one memory. Two seats per table are needed for an
  account at two of them. One attempt is enough to be at the limit. What the groups leave out is what the theorems add:
  all but `AllAnswered` are proved for any requests.
* The feed: the script is a night, an election, a day and a second night that ends the game, so that phases hidden from
  outsiders follow each other, a round begins within a batch, and one event is spoken. A break may lose any suffix of what is
  queued. `FRESHNESS_K` and `TOP_N` are 30 and 12 in the code; 3 and 2 let an agent forget within the script.

## 4. Fairness

* Engine: `WF(PlayerAction \/ SystemStep)`. A player may be silent, but the runner then plays a default action
  (`SeatsCanPlay`: the engine accepts it; `GameGoesOn`: the runner comes to it), so a game that waits for somebody
  always goes on. Nothing is assumed about which action is taken, so that wolves may disagree and voters may tie as long
  as the rules let them.
* Windows and pages: weak fairness of the runner's steps, of a woken `act`, and of the deadline. The event loop runs every
  ready task and every timer that is due. Nothing is assumed of clients, connections and pages.
* Server: `WF(CarryOn)`: the loop and the pool carry on with a handler that has begun. No client has to ask, no game has to
  end, no code has to run out, no stream has to be left.
* Feed: `WF(CrashNotice \/ Send(c))`: the notice of a crash is a task that is ready, and a connection that is open sends
  what is queued. No game has to go on, no speech has to end, and nobody has to come.
* Store: only safety is stated, and no fairness. Deadlock is checked: no thread waits for a lock nobody will release.

`CHECK_DEADLOCK FALSE` is set where everything may be done: a finished game in the windows and on a page, all requests
answered, and the end of the script with nobody connected. In the engine a finished game stutters explicitly (`Finished`),
so that TLC finds any other state in which nobody could act.

## 5. What is proved

Assumptions: `BoardAssumption` (some wolf, some other seat, roles for all seats, the two special values are no seats) and
`RulesAssumption` (what `validate_config` enforces: every night phase has a role on the board, no phase twice, the wolves'
phase is there, bounds of the numbers) for the engine; `StoreAssumption` (the runner's thread is none of the readers, the
bounds are numbers); `WindowAssumption` (seats are finitely many numbers, at least one rejection is allowed) and
`TabsAssumption` (each page is for a seat); `RequestsAssumption` (`None`, by which nobody holds the lock, is no request),
`AccountsAssumption` (the rows at the start are rows, each under its id) and `RegistryAssumption` (some seats; profiles are
for seats of the board, which `registry.create` checks; `None` is neither the name of a phase nor a review) for the server;
`BroadcastAssumption` (browsers are no agents, a speech has a sentence, an agent has a seat), `FrameAssumption` (`None` is
no frame and no note) and `ScriptAssumption` for the feed. The last is what the engine emits in every game: the phases of
the night, the deal and the starts of rounds are for the GM, a check for the seer, the rest of what a page or a memory
follows is public; a round begins in a step that also enters a phase and does not end the game (`_begin_night`; the wolves
are in every night order, and the night waits for them); nothing follows the end; a speech is made in a phase that
everybody sees, and in the election at the stage of speeches (`_advance_election`). TLC evaluates all of these, and those
of the modules without theorems, on every board and instance. The bounds on events, failures, windows and
submissions are arbitrary numbers in the theorems, and the workload of the server is any set of sets of requests.

* `EngineProofs!TypeCorrect`: `Spec => []TypeOK`. `TypeOK` alone is not inductive: the phase after a night phase is
  looked up in the night order, so that a state in a night phase that is not in the order would step out of the type.
  `TypeInv` adds `Scheduled(phase)`: a night phase the game is in stands in the order. There is one lemma for each helper of
  `EngineFlow` and one for each action.
* `EngineProofs` goes on with one invariant `Inv == TypeInv /\ BadgeConsistent /\ TableInv` from which follow
  `BadgeAgreed` (`BadgeConsistent`), `BadgeNeverOrphaned` (`NoOrphanBadge`) and `NightDeathsAnnounced`
  (`NightDeathsSettled`). The argument follows the badge through a step. Somebody who is put out leaves the phases in
  which the badge must be on a living seat, or the badge is torn up at once; the way back leads through `EnterDaySpeech` and
  `AfterDayDeath`, which are reached only with the badge in order, if need be after a window in which nothing can be done
  but to hand it on. That window needs its own conjunct: its queue is exactly the holder of the badge, so that it
  closes only when the holder has acted. `TableInv` also says that nobody has died before the end of the first night and
  of the election, and that the dead of the night are gone in all later phases.
* `GameProofs`: `GameInv == Inv /\ PathInv /\ AimInv /\ BallotInv`. `PathInv` is the engine's memory of where to go on:
  which `resume_token` each interruption may carry, that a hunter waits for its shot in one phase only, that the last words
  at dawn are heard only while the game is undecided, that a day is cut short only between a self-destruction and
  nightfall. `AimInv`: knife, poison and proposals are aimed at the living, and the dead that an election keeps waiting are
  those of the night. `BallotInv` is `BallotsLegal` with the fact that a first vote has no list of candidates. From it:
  - `OnlyLegalBallots` (`BallotsLegal`) and `RunoffDecided` (`RunoffElectorate`). A tie has at least two leaders, hence
    voters; and those who voted are, one by one, those who may vote in the runoff.
  - `EnginePlaysTheGame` (`GameImplemented`): every step of the engine is a step of `WerewolfGame` or a stutter. There is a
    lemma for each place at which a step ends (`DawnMaps`, `AnnounceMaps`, `DayEndsMaps`...) and one for each action. The
    refinement needs `BallotsLegal`: an exile is a step of the game only if the exiled was alive, and that is known by
    whose name stood on the ballots.
  - `LeastNumber`: a queue in which somebody waits has a next speaker. The library's theorem of well-founded minima
    without an operator parameter takes the place of induction.
* `HistoryProofs`: theorems of `HistorySpec`, the engine with its history.
  - `EverybodyHeard` (`HeardBeforeVote`): whoever has yet to be heard is still in the queue, and a queue from which nobody
    is next is empty.
  - `LastWordsGiven` (`LastWordsHeard`): `OwedInv`. Between a death and its last words only the shot of a hunter comes;
    for each phase it says whose words are still owed.
  - `OneBottle` (`OneBottleEach`), on every board with at most one witch. The knife is known only once the wolves' turn has
    passed in this night (`KnifePast`), so that an antidote in use is pending until the night is resolved, and used up
    afterwards (`SavedOnce`). With two witches it is false: the antidote is charged to the first living one, whoever used
    it (section 6); hence the hypothesis.
  - `ReportIsTrue` (`StatisticsTrue`), theorem of `AnalysisSpec`, the engine with the replay beside it, from `StatInv`. The
    counts are sums over the rounds of a game, so each conjunct says how much of the present round is in them. `DeadInv`:
    the dead of the replay are those of the engine, with the ones an election keeps waiting. `HuntInv` and `WolfInv`: this
    night counts for a wolf once the wolves have proposed, and they have when their turn is over (`WolvesAhead`, whatever the
    order of the night). `RateInv`: a revote or an agreed idle night that is still to be counted has room in the night that
    was. `RunoffInv`: a runoff of today is counted with a seat's ballot, or when the vote is over; that the game does
    not go back from dusk to a vote is read off the abstract game, as a corollary of the refinement. `RoundStep` reduces
    the actions to what matters here: a step begins a night, stays in it, goes on to its next phase, or ends it.
* `PlayerProofs`: `NobodyIsStuck` (`SeatsCanPlay`). Who may play depends on how the game came to its phase, so the
  invariant is `SeatInv == GameInv /\ TurnInv`, and `TurnInv` says what is behind the questions the engine asks. `QueueInv`:
  the queue of a day's speeches holds the living, the one of last words the dead, and the window for the badge its holder.
  `DyingInv`: the hunter that is asked for its shot is dead, and so is the exiled whose last words are still to come.
  `HuntInv`: at night both sides have somebody left - hence a wolf has somebody to kill and a guard somebody to guard -
  and whom the wolves have named they may kill, which the default kill follows. `CampaignInv`: a ballot for sheriff has a
  candidate, and nobody is barred from the first one. From it follow `ActorsLive` and `DefaultsLegal`; then each form of an
  LLM (`WolfAnswers`, `NightAnswers`, `VoteAnswers`, `SpeechAnswers`, `CampaignAnswers`, `BadgeAnswers`) and each branch of
  the bot (`BotOfNight`, ...) is met with what `_validate` asks in the same phase, with lemmas on what a seat is shown
  (`ToolsShown`, `OptionsShown`) and what can be typed (`TypedNight`, ...). The theorem has two hypotheses about the board.
  `Spoken`: speeches are not bid for; with `BIDDING` the engine rejects every speech and the property is false (section 6).
  `badge_flow_max_length` is a natural number: `validate_config` does not look at it, and there is no flow of negative length.
* `StoreProofs`: one invariant `StoreInv`, from which follow `FilesReadable` (`FileReadable`), `CacheCoherent` (`CacheIsFile`)
  and `AppendsInSeq` (`NoSeqConflict`). A file is never anything but the meta record and the events 1, 2, ... up to some
  number, so that its contents are that number (`Records`). The rest says what the holder of the lock knows at each of its
  steps (`Knows`): a loader that has read the file may fill the cache because nobody could append in between, a writer that
  has written is one line ahead of its cache, and nobody without the lock knows anything.
  `StoreIsLog` (`LogImplemented`) is the refinement. The log is the complete lines of the file (`log <- file.lines`): each
  action of the store is shown to be a step of `EventLog` or a stutter, with `StoreInv` at hand - a reader that answers from
  the cache, for one, reads the log because the cache is what the file says.
* `WindowProofs`: one invariant `WindowInv`, from which follow `WindowTypes` (`TypeOK`), `VerdictsAreTrue` (`VerdictTrue`) and
  `LateActionsStayOut` (`LateNeverLands`). A submission travels from the future of its port (`pending`) through the list that
  gather fills (`results`) into the runner's hand (`given`). `VerdictTrue` alone is not inductive: that "ok" goes to the
  submission whose action was taken needs that the future to be answered, `outcome`, is still its own, on each of the
  three legs and although other seats are answered, late or asked again meanwhile (`Unanswered`). That no second submission
  takes the place of the first needs that a seat with a prompt has nothing in `results` (`PromptsInv`).
* `WindowProofs`, about pages: `FormsAreTrue` (`FormsTrue`), from `TabsInv == WindowInv /\ OverdueInv /\ FormsInv`. A page and the port of its
  seat agree only when nothing is under way; the invariant says what they have to do with each other at all other times,
  which is a statement about the whole queue of frames between them:
  - prompts stand in the queue in the order of their versions, and what the page has submitted to is older than all of them
    unless it shows it (`InOrder`); each prompt is followed by its end, unless it is the open one (`InTurn`);
  - the open window is the last to arrive, or is shown, was taken by a refusal, or its submission has not been read yet
    (`Shown`); a verdict "ok" or a refusal that would take it away has another prompt behind it (`TakenInv`, `Untaken`) -
    here it matters that a result is queued before the next message is read;
  - what was acknowledged is late or its result is on the way (`Acked`), and a page that waits has something to wait for
    (`Awaited`).
  `OverdueInv` is about the runner: a submission without a verdict is in its port, in the list of gather or in the runner's
  hand, or its window is over. Hence the exception `Hidden`, which the proof asked for: with two windows it does not
  occur. The lemmas go by the head of the queue (a frame that is read) and its end (one that is pushed), which is what
  replaces induction over it.
* `ServerProofs`, about accounts: `PasswordsSafe` (`AccountKept`) and `AttemptsCounted` (`AttemptsKept`). These speak of steps, and whether
  a step keeps them depends on what its handler has read: `KnownInv` says, for each step of each handler, what it knows - a
  handler that is about to write a row over another's has read that row unverified and without a live code, one that stores
  a new code carries the attempts of the one it read. `HandlersKnow` is the invariant; what has changed since is `stale`.
  `AnAdminIsLeft` (`AdminKept`) adds what the lock of `patch_user` is worth. `LockInv`: between lock and end a patch holds the
  lock, and nobody else does. `SparesInv`: a patch that is about to take an admin's role has counted another one under the
  lock, who is still there - nobody but the holder of the lock takes a role away, unless `stale` or `deposed`.
* `ServerProofs`, about games: `SeatsSafe` (`SeatsKept`), `RunningSafe` (`RunningKept`), `NoGodsViewSafe` (`NoGodsView`) and
  `ReviewsSafe` (`ReviewsKept`) from one invariant. `GamesInv` says what the tables of the registry have to do with each
  other; `CallsInv` what each request knows of its game at its step (`Joins`, `Starts`, `Deleting`, `Viewing`), unless the
  game is raced (a read by the owner: that he had no seat when he was granted the view of all, so that sitting down since
  is what `raced` records, and nothing else excuses what he is shown); `LoopInv` that at most one request holds the event loop. What a request knows must survive the steps of all
  the others: `Steady` lists what a step may never take back (a seat that is taken, a task that has begun, a game that is
  over...), `OthersInformed` shows once that knowledge survives every such step, and each action is shown to be one.
  `StartsLearned` (`StartsInformed`) needs two more. `ReviewedInv`: only a game that was started is reviewed, seat by seat; `Onward` that a review
  only goes on, that a started game keeps its memories and that seats without a port only become fewer. `AwaitsInv`: of
  the reviews that were under way when a start was asked for, those that still go on are not about its memories, except
  the ones it still waits for, or unless it gave up waiting.
* `FeedProofs`, the refinement: `FeedIsImplemented` (`FeedImplemented`) from `FeedInv`. What a reader has is, in order, what he
  may see of the file up to some event (`InOrder`). What he lacks up to the last batch that was broadcast (`Owed`) is on his
  connection, each event once and in order, whatever phases and sound stand between (`Carries`); a runner that is alive
  has broadcast all of the file (`Fed`). Views and frames are made by `FlattenSeq` from one piece per event. It is a fold,
  and what a fold returns is known only by an induction that these provers cannot do. The way round it: `LeastNumber`, the
  theorem of well-founded minima for sets of numbers, gives the least length at which a statement about all prefixes
  fails, and one step of the fold contradicts it. So each element of the result is placed (`Placed`), and the view is
  the ascending sequence of the numbers of what is visible, of which there is one (`AscendingPrefix`). The model has no
  `SelectSeq`, which the prover does not expand.
* `FeedProofs`, the sound: `SoundIsBracketed` (`AudioBracketed`) from `SoundInv`. A speech is queued over many steps, and what
  has been heard is gone, so the invariant speaks of the frame heard last and of the queue as one sequence (`Heard`). A
  frame behind which more has to come has it next, or is the last and its event is being spoken (`Loud`, `Continues`);
  frames of one event come in order (`Later`) and not after it was spoken (`Spent`); a begin has its event before it
  (`Announced`). It holds because a batch is committed only when the one before has been spoken (`voice` is empty); a
  connection that closes takes queue and sound with it.
* `FeedProofs`, the memory: `RecallIsTrue` (`RecallTrue`) from `FeedInv` and `StoryInv`. The file is the beginning of the story, and
  between two steps just what the steps so far gave it, so that `ScriptAssumption` speaks of it. An agent does not see the
  phases of the night; that it still knows a speech of the campaign follows from what it does see, since a speech comes
  after a public phase with no hidden one between. Which of the older entries are kept is decided by how many tell more,
  so `Ranks` counts: of a finite set ranked without ties exactly the first `TopN` have fewer than `TopN` before them.
* `FeedProofs`, the phase: `PhaseIsShown` (`PhaseShown`) from `FeedInv` and `PhaseInv`. What a page shows stands before its queue;
  of the frames of both that tell a phase, the last one tells the present one (`Going`), and what put_phase takes for the last
  one that was queued is it (`cn.last`), so that a repetition may be left out. After the end the page is past phases, and
  it is the round that has to be right (`Gone`). Whoever is away knows what was so when he left, unless a phase has come
  since - which he will be told when he is back (`Waits`). A phase frame may be lost with a connection although the event
  behind it was read, or hidden; `lost` marks such a page until it is told a phase again. The frames of history, of a
  batch and of what `put_phase` leaves of them meet in `Spells` and `Ends`. Round and phase are those of the last phase
  (`PublicPhase`): a page is told the round together with a phase.

Only model-checked: liveness - `GameEnds`, `GameGoesOn`, `VerdictArrives`, `AllAnswered`, `Told` - which is beyond this prover.
Every other property of the passing runs is stated by a theorem.

The leaves are small enough for all proofs to be found with a quarter of the default time (`tlapm --stretch 0.25`), so
that a slower or busy machine does not fail on one of them.

## 6. Where code and documents disagree

With a run of its own:

1. `KnifeWinsFirst`: `requirements.md:84` lets the wolves win at once if their kill wipes out the other side, even if the
   witch poisons the last wolf in the same night. The engine adds up the deaths and asks for living wolves first.
2. `NeverLockedOut`: the head of `frontend/store/turn.ts` says that only the prompt which a result answers is cleared. A late
   submission that is refused with `STALE_PROMPT` after the next window has opened clears the new prompt (`turn.ts:72`):
   its player cannot act in a window that is open.
3. `RoundsReflected`: `agent/memory.py:3` and `requirements.md:483` let an LLM seat reflect on each round. The round is taken
   from `ROUND_STARTED`, which is sent to the GM alone, so that no seat ever has a round behind it. The tests send it
   publicly.

Met while reading, without a run:

* In the engine:
  - `requirements.md:89` gives last words to everybody who is put out by day, by vote or by a skill. `engine.py:1009` gives
    none to the victim of an exiled hunter's shot.
  - `requirements.md:281` turns over an idiot that is voted out and keeps it in the game. Where lots are drawn after a tied
    runoff, the engine exiles it. `requirements.md:83` says that a turned idiot can be put out only by knife, poison or
    gun; `engine.py:1456` exiles it when it is voted out a second time.
  - The comment at `engine/state.py:84` says that the end of the game clears `skip_day`; the reducer
    (`engine/events.py:576`) does not. Nothing reads it afterwards.
  - `runtime/defaults.py:1` promises that a silent player never stops a game. Under `speech_order_rule = BIDDING`, which
    `validate_config` lets pass, the engine rejects every speech of the day (`engine.py:281`), the default one too, and
    the runner raises. The rule is marked as not implemented, and the boards leave it out.
  - `agent/prompts.py:21` gives a witch one potion of each kind for the game. With several witches `engine.py:1063` charges
    the antidote to the first living one, whoever used it. `two_potions_same_night` appears in the prompt only
    (`prompts.py:116`).
* In the players:
  - Under `can_guard_self = False` or `allow_wolf_self_knife = False` the bot offers choices that the engine rejects, and so
    does its flow of two seats where `badge_flow_max_length` is 1: hence `BotRules`. An LLM is told of both rules.
  - Under the one-step badge rule an LLM seat is asked for a speech and never passes the badge. The terminal cannot express
    a badge flow.
  - A seat's observation holds the phase of the night (`observation.py:107`) that `public_phase` hides, and a living wolf's
    observation by day still its proposal of the night (`observation.py:77-78`).
  - `agent_player.py:173-188` may submit an old speech again in a later window where badge flows are disabled, and the text
    of a rejection stands in the prompt of the next window.
* In the windows and on the page:
  - `api/ws.py:309-310` says a submission always gets a verdict or `WINDOW_CLOSED`. If another seat ends a simultaneous
    window, the remaining submissions of it get neither (`PassedOver`, the exception in `VerdictArrives`). If the seat is asked again before
    `ACCEPT_WAIT_SEC` is over, the acknowledgement of the old submission comes after the new prompt and hides its form, for
    as long as that window is open (`Hidden`, the exception in `FormsTrue`).
  - `requirements.md:466-469` prompts a seat before it can be late. A seat that was late in a window another seat ended, and
    that is expected in the next, gets the default there unasked (`game_runner.py:243`).
  - An action carried over from a window that another seat ended is judged in the next window with the deadline of the old.
  - The form of a closed window stays on a page that had submitted to it - its submission was overtaken by the deadline or
    finally rejected, or was lost with the connection - or was cut off when it closed (`stale`). `setPrompt` keeps
    `submittedVersion`, so that the `window_closed` of that version is ignored; `requirements.md:746-747` lets it clear the
    form.
* In the store: `create_game` calls a file that holds nothing but a torn line an existing game, `load_events` calls it not
  found and moves it away; the order of the two calls decides.
* On the server, the overlaps that `stale`, `deposed` and `raced` stand for:
  - `admin.py` never lets the number of active admins fall to zero. `verify_user` writes a row back without the lock, and a
    promoted account that is not verified loses its role to a new registration (`auth.py:201-220`).
  - A verification that has passed its checks and a new registration of the same name overwrite each other.
  - `registry.py:283`: one seat per account. Two joins that overlap take two.
  - A start that waits for a review (`rest.py:188`) may start a game that was deleted meanwhile, and a deletion that has
    passed its check (`rest.py:371`) may delete one that has started.
  - A read by the owner who has the view of all is still answered with it if he sits down and the game is started between
    the choice of his eyes (`rest.py:287`, `rest.py:312`) and the answer: a seated owner is then shown everything once.
  - A wrong guess that overlaps the making of a new code (`auth.py:130-136`, `auth.py:236-241`), or another guess, is
    written on an old copy, and one of the counts is lost.
  - A start that fails leaves a filled lobby and some ports: a second attempt fails the check of `num_ai`, or plays without
    the memories that were loaded (`registry.py:339`).
  - The review of a finished game that was deleted is not waited for.
  - An admin who sits at a table that somebody else owns has the GM's view (`rest.py:280`).
  - Between a start and the first step of the runner the questions for the phase of a game fail.
  - `ws.py:224-230` leaves a subscription behind if the history cannot be read.
* In the feed:
  - A connection that breaks between the events of a batch and its phase frames loses these; the browser asks for what
    follows the last event it has, and sees the phase only with the next change (`lost`).
  - Live phase frames carry the round after the batch, frames of the history the round of their event.
  - The comment on issue 193 wants an `end` for every `begin`; a sound file that cannot be written leaves it out
    (`speech_audio.py:179-181`, `torn`).
* In the statistics: `eval/metrics.py` counts a candidacy when it is declared and again when it is confirmed
  (`engine.py:630-641`), so that the rate of candidacies, a share of games by `README.md:587`, may exceed 100 %.

## 7. Reading order

`GameConfig`, `GameState`, `EngineFlow`, `Night`, `Day`, `Election`, `Engine`; then `WerewolfGame` and `EngineProps`,
`EngineHistory`, `Players`. The other components stand by themselves: `EventLog` and `EventStore`; `PlayerWindow`, then
`PlayerTabs`; `Requests`, `Accounts`, `Registry`, `Server`, `ServerProps`; `Feed`, `Broadcast`, `AgentMemory`,
`BroadcastProps`. Of the proofs, `StoreProofs` is the shortest with a refinement; those of the engine build on each other
in the order `EngineProofs`, `GameProofs`, `HistoryProofs`, and `PlayerProofs` beside the last.
`FeedProofs` is the longest; its parts begin with the invariant that each is about.

    tlc -workers 2 -config MCVote.cfg MCEngine
    tlc -workers 2 -config MCNight.cfg MCAnalysis
    tlapm GameProofs.tla

## 8. Plan

Done, in this order: the rule engine with its abstract game; type correctness, the badge and the dead of the night; the
event store; the windows; the proofs of both; accounts, registry and readers; the feed; players, statistics and pages; the
proofs of accounts and registry, of the ballots, of the refinement of the game, of the three properties with history, of
what pages show, of the turns of the players, of the feed with its sound, memory and phases, and of the statistics.

Left, the most important first:

1. That `ScriptAssumption` holds of the engine. The engine is modelled as transitions, without the list of events that a
   step emits; with it, the feed could be composed with the engine instead of assuming what the engine hands it.
2. A board with `speech_order_rule = BIDDING` (section 6).

## 9. Not modelled, and why

* In the engine: the texts and the order of events within a step, the seeded stream itself.
* In the players: what an LLM that breaks the form of its prompt answers (its port retries and then plays a default
  action), texts, role claims, fields of the observation that only a page or a prompt shows.
* In the statistics: counts of one event each, token counts, latencies, fingerprints of profiles.
* In the store: the in-memory implementation, contents of records, several games (their files and cache entries are
  disjoint), `list_games`, a power failure that brings deleted or truncated bytes back, or loses a directory entry.
* In the windows: a slow sender that delays `act`, the long poll, bots and LLM agents (their ports answer or
  fail; a failure has the same consequence as a deadline), a store that fails within `_commit` - the runner then
  ends, the outcome of the submission stays open and only the first events of the step are in the log. On the page:
  malformed tool calls (it cannot produce one), and connections that only one end believes open.
* On the server: hashing, cookies, the mail itself, rate limits per address, links for sharing being made or withdrawn, the
  bodies of requests and answers, what a review says (a marker of its game stands for it).
* In the feed: the service that synthesises speech, its cache and the splitting of texts; the origin check and malformed
  messages; what the page draws, its queue of sounds and the replay player.
* Ratings are floating-point numbers over finished games. Providers, probes, voices, avatars, the list of past games and
  the pages read and write files and call services without a protocol between them. The command line drivers run the
  same engine.
