------------------------------ MODULE PlayerWindow ------------------------------
\* The runner's windows (backend/app/runtime/game_runner.py) and the ports of the
\* outside players (HumanPlayerPort, runtime/player_port.py).  The runner asks the
\* seats the engine waits for, together in a simultaneous window and otherwise in
\* turn; a port turns the question into a prompt and waits for a submission;
\* deadlines, rejections and default actions are the runner's.  All of it runs on
\* one event loop, whose tasks change over at each await: the actions below are
\* what happens between two of them.
\* The engine is what the runner sees of it: a version, and whom it waits for.
EXTENDS Naturals, Sequences, FiniteSetsExt

CONSTANTS
    Seats,             \* seats of outside players
    Enders,            \* seats whose action may end a window for everybody
    MAX_REJECTIONS,    \* rejected actions before the default is taken
    MaxWindows,        \* bound: windows of a game
    MaxCalls           \* bound: submissions that a port accepts

ASSUME WindowAssumption ==
    /\ Seats \subseteq Nat /\ IsFiniteSet(Seats) /\ Enders \subseteq Seats
    /\ MAX_REJECTIONS \in Nat \ {0}
    /\ MaxWindows \in Nat /\ MaxCalls \in Nat

VARIABLES
    \* the engine
    version,         \* state_version
    expected,        \* expected_actors(state)
    simultaneous,    \* _simultaneous_window(state)
    opened,          \* the version this window began with
    windows,         \* windows so far
    \* the runner
    pc,              \* where run, _drive_window or _drive_seat stands
    together,        \* whether it is in _drive_window
    todo,            \* seats of the window it has yet to come to
    results,         \* what gather has collected
    given,           \* the action in hand
    rejections,
    expired,         \* the deadline of the window has passed
    \* the ports
    prompt,          \* the version a port's prompt shows, None when it has none
    pending,         \* the submission that resolved _pending, None while it is open
    outcome,         \* the submission whose future is in _outcome
    \* the submissions, in the order they came: the seat, the prompt it names, what
    \* its future was resolved with, and, as history, the window it came in and
    \* whether the engine took its action
    calls

engine == <<version, expected, simultaneous, opened, windows>>
runner == <<pc, together, todo, results, given, rejections, expired>>
ports == <<prompt, pending, outcome>>
vars == <<engine, runner, ports, calls>>

None == 0                       \* versions and submissions count from 1
Late == MaxCalls + 1            \* a result that is a TimeoutError
Seat == Min(todo)               \* the seat the runner is driving
Nothing == [s \in Seats |-> None]

TypeOK ==
    /\ version \in Nat \ {0} /\ opened \in 1..version /\ windows \in Nat
    /\ expected \subseteq Seats /\ todo \subseteq Seats
    /\ simultaneous \in BOOLEAN /\ together \in BOOLEAN /\ expired \in BOOLEAN
    /\ pc \in {"top", "next", "gather", "drive", "ask", "judge", "default", "over"}
    /\ results \in [Seats -> Nat] /\ given \in 0..Len(calls)
    /\ rejections \in 0..MAX_REJECTIONS
    /\ prompt \in [Seats -> 0..version]
    /\ pending \in [Seats -> 0..Len(calls)] /\ outcome \in [Seats -> 0..Len(calls)]
    /\ calls \in Seq([seat : Seats, tag : Nat, window : 1..version, applied : BOOLEAN,
                      verdict : {"none", "ok", "rejected", "closed"}])

Init ==
    /\ version = 1 /\ opened = 1 /\ windows = 1
    /\ expected \in (SUBSET Seats) \ {{}}
    /\ simultaneous \in BOOLEAN
    /\ pc = "top" /\ together = FALSE /\ todo = {}
    /\ results = Nothing /\ given = None /\ rejections = 0 /\ expired = FALSE
    /\ prompt = Nothing /\ pending = Nothing /\ outcome = Nothing
    /\ calls = <<>>

\* ---- the engine's step, for an action it accepts ----

NextWindow ==
    /\ opened' = version + 1
    /\ \/ /\ windows < MaxWindows /\ windows' = windows + 1
          /\ expected' \in (SUBSET Seats) \ {{}}
          /\ simultaneous' \in BOOLEAN
       \/ expected' = {} /\ UNCHANGED <<windows, simultaneous>>

Step(s, ends) ==
    /\ version' = version + 1
    /\ IF ends \/ expected = {s}
         THEN NextWindow
         ELSE expected' = expected \ {s} /\ UNCHANGED <<opened, windows, simultaneous>>

\* ---- HumanPlayerPort ----

Arm(seats) ==
    /\ prompt' = [s \in Seats |-> IF s \in seats THEN version ELSE prompt[s]]
    /\ pending' = [s \in Seats |-> IF s \in seats THEN None ELSE pending[s]]
    /\ UNCHANGED outcome

\* The finally of act.
Disarm(s) ==
    /\ prompt' = [prompt EXCEPT ![s] = None]
    /\ pending' = [pending EXCEPT ![s] = None]

Open(s) == prompt[s] # None /\ pending[s] = None

\* Mutant: submit does not look at state_version.
MutantAnyVersion(s, tag) == TRUE
\* A submission that names a prompt must name the one that is open.
Accepts(s, tag) == tag \in {None, prompt[s]}

Submit(s, tag) ==
    /\ Len(calls) < MaxCalls
    /\ Open(s) /\ Accepts(s, tag)
    /\ calls' = Append(calls, [seat |-> s, tag |-> tag, window |-> opened,
                               verdict |-> "none", applied |-> FALSE])
    /\ pending' = [pending EXCEPT ![s] = Len(calls')]
    /\ outcome' = [outcome EXCEPT ![s] = Len(calls')]
    /\ UNCHANGED <<engine, runner, prompt>>

\* The future of outcome[s], if there is one that nobody has resolved.
Told(s, how) ==
    [c \in DOMAIN calls |->
        IF c = outcome[s] /\ calls[c].verdict = "none"
        THEN [calls[c] EXCEPT !.verdict = how] ELSE calls[c]]

\* notify_result
Notify(s, how) == calls' = Told(s, how) /\ outcome' = [outcome EXCEPT ![s] = None]

\* ---- GameRunner.run ----

OpenTogether ==
    /\ pc = "top" /\ Cardinality(expected) > 1 /\ simultaneous
    /\ pc' = "gather" /\ together' = TRUE /\ todo' = expected
    /\ Arm(expected)
    /\ UNCHANGED <<engine, results, given, rejections, expired, calls>>

OpenInTurn ==
    /\ pc = "top" /\ expected # {}
    /\ ~(Cardinality(expected) > 1 /\ simultaneous)
    /\ pc' = "next" /\ todo' = expected
    /\ UNCHANGED <<engine, together, results, given, rejections, expired, ports, calls>>

WindowOver ==
    /\ pc = "next" /\ todo = {}
    /\ pc' = "top" /\ together' = FALSE /\ results' = Nothing
    /\ rejections' = 0 /\ expired' = FALSE
    /\ UNCHANGED <<engine, todo, given, ports, calls>>

\* expected_actors is asked again before each seat: an earlier action may have
\* ended the window.
StillExpected(s) == s \in expected

Skip ==
    /\ pc = "next" /\ todo # {} /\ ~StillExpected(Seat)
    /\ todo' = todo \ {Seat}
    /\ UNCHANGED <<engine, pc, together, results, given, rejections, expired, ports, calls>>

\* ---- _drive_window ----

Waiting(s) == prompt[s] # None /\ (pc = "gather" \/ (pc = "ask" /\ s = Seat))

\* The waiting act resumes: with the submission, ...
Answered(s) ==
    /\ Waiting(s) /\ pending[s] # None
    /\ Disarm(s)
    /\ IF pc = "gather"
         THEN results' = [results EXCEPT ![s] = pending[s]] /\ UNCHANGED <<pc, given>>
         ELSE pc' = "judge" /\ given' = pending[s] /\ UNCHANGED results
    /\ UNCHANGED <<engine, together, todo, rejections, expired, outcome, calls>>

\* Mutant: gather without wait_for.
MutantWaitsForAll(s) == pc = "ask" /\ Waiting(s) /\ expired
\* ... or cancelled by its timeout, which also wins over a submission of the same
\* tick; that submission is told WINDOW_CLOSED.
Overdue(s) == Waiting(s) /\ expired
\* Mutant: the action of a submission that the timeout overtook is used all the same.
MutantLateAction(s) == IF pending[s] # None THEN pending[s] ELSE Late
Cancelled(s) == Late
\* Mutant: act leaves the future of the overtaken submission alone.
MutantForgotten(s) == UNCHANGED <<calls, outcome>>
CloseOutcome(s) == Notify(s, "closed")

TimesOut(s) ==
    /\ Overdue(s)
    /\ Disarm(s)
    /\ CloseOutcome(s)
    /\ IF pc = "gather"
         THEN results' = [results EXCEPT ![s] = Cancelled(s)] /\ UNCHANGED pc
         ELSE pc' = "default" /\ UNCHANGED results
    /\ UNCHANGED <<engine, together, todo, given, rejections, expired>>

Gathered ==
    /\ pc = "gather" /\ \A s \in todo : results[s] # None
    /\ pc' = "next"
    /\ UNCHANGED <<engine, together, todo, results, given, rejections, expired, ports, calls>>

\* Mutant: gather's exceptions are taken for actions.
MutantTrustsResults(s) == FALSE
Failed(s) == results[s] = Late
\* The gathered results are applied in the order of the seats.
TakeResult ==
    /\ pc = "next" /\ together /\ todo # {} /\ StillExpected(Seat)
    /\ rejections' = 0
    /\ IF Failed(Seat)
         THEN pc' = "default" /\ UNCHANGED given
         ELSE pc' = "judge" /\ given' = results[Seat]
    /\ UNCHANGED <<engine, together, todo, results, expired, ports, calls>>

\* ---- _drive_seat ----

DriveNext ==
    /\ pc = "next" /\ ~together /\ todo # {} /\ StillExpected(Seat)
    /\ pc' = "ask" /\ rejections' = 0 /\ expired' = FALSE
    /\ Arm({Seat})
    /\ UNCHANGED <<engine, together, todo, results, given, calls>>

OutOfTries == expired \/ rejections >= MAX_REJECTIONS

AskAgain ==
    /\ pc = "drive" /\ ~OutOfTries
    /\ pc' = "ask"
    /\ Arm({Seat})
    /\ UNCHANGED <<engine, together, todo, results, given, rejections, expired, calls>>

GiveUp ==
    /\ pc = "drive" /\ OutOfTries
    /\ pc' = "default"
    /\ UNCHANGED <<engine, together, todo, results, given, rejections, expired, ports, calls>>

Reject ==
    /\ pc = "judge"
    /\ Notify(Seat, "rejected")
    /\ pc' = "drive" /\ given' = None /\ rejections' = rejections + 1
    /\ UNCHANGED <<engine, together, todo, results, expired, prompt, pending>>

Accept ==
    /\ pc = "judge"
    /\ \E ends \in BOOLEAN : (ends => Seat \in Enders) /\ Step(Seat, ends)
    /\ calls' = [Told(Seat, "ok") EXCEPT ![given].applied = TRUE]
    /\ outcome' = [outcome EXCEPT ![Seat] = None]
    /\ pc' = "next" /\ given' = None /\ todo' = todo \ {Seat}
    /\ UNCHANGED <<together, results, rejections, expired, prompt, pending>>

\* _apply_default: the engine accepts it (DefaultsAccepted of EngineProps).
ApplyDefault ==
    /\ pc = "default"
    /\ Step(Seat, FALSE)
    /\ pc' = "next" /\ todo' = todo \ {Seat}
    /\ UNCHANGED <<together, results, given, rejections, expired, prompt, pending, outcome, calls>>

\* ---- the clock, and the whole ----

Expire ==
    /\ pc \in {"gather", "ask", "judge", "drive"} \/ (pc = "next" /\ together)
    /\ ~expired
    /\ expired' = TRUE
    /\ UNCHANGED <<engine, pc, together, todo, results, given, rejections, ports, calls>>

GameOver ==
    /\ pc = "top" /\ expected = {}
    /\ pc' = "over"
    /\ UNCHANGED <<engine, together, todo, results, given, rejections, expired, ports, calls>>

RunnerStep ==
    \/ OpenTogether \/ OpenInTurn \/ WindowOver \/ Skip
    \/ Gathered \/ TakeResult \/ DriveNext \/ AskAgain \/ GiveUp
    \/ Reject \/ Accept \/ ApplyDefault \/ GameOver

ActResumes == \E s \in Seats : Answered(s) \/ TimesOut(s)

ClientStep ==
    \E s \in Seats, tag \in {None} \cup 1..version : Submit(s, tag)

Next == RunnerStep \/ ActResumes \/ ClientStep \/ Expire

Spec == Init /\ [][Next]_vars

\* The event loop runs every task that is ready and every timer that is due; a
\* client may stay silent for ever.
FairSpec == Spec /\ WF_vars(RunnerStep) /\ WF_vars(ActResumes) /\ WF_vars(Expire)

=============================================================================
