------------------------------ MODULE PlayerTabs ------------------------------
(***************************************************************************)
(* The connections of the outside players and what their pages show: the   *)
(* player's half of the WebSocket endpoint (backend/app/api/ws.py) over    *)
(* the ports of PlayerWindow, and the turn store of the page               *)
(* (frontend/src/store/turn.ts) that its frames drive (api/ws.ts).         *)
(*                                                                         *)
(* Frames and messages of a connection arrive in order, late, or with a    *)
(* break of the connection not at all; the page survives the break and     *)
(* connects again.  Whatever else submits for a seat - another page of the *)
(* account, a program over REST (actions_endpoint) - names no version.     *)
(***************************************************************************)
EXTENDS PlayerWindow

CONSTANTS
    Tabs, SeatOf,   \* the pages that are looked at, and the seat of each
    MaxBreaks,      \* bound: connections that break
    MaxOthers       \* bound: submissions that come from elsewhere

ASSUME TabsAssumption == SeatOf \in [Tabs -> Seats] /\ {MaxBreaks, MaxOthers} \subseteq Nat

VARIABLES
    link,       \* whether the page has a connection
    up, down,   \* what is under way on it: versions submitted, and frames
    serving,    \* the submission the endpoint waits for before it reads on
    late,       \* those whose result it will deliver when it comes
    form,       \* the turn store
    stale,      \* history: the page submitted to the prompt that it shows, or was
                \* cut off while it showed it
    wiped,      \* history: the prompt that the refusal of an earlier submission took
    breaks

tabVars == <<link, up, down, serving, late, form, stale, wiped, breaks>>
allVars == <<vars, tabVars>>

NoForm == [prompt |-> None, submitted |-> None, pending |-> FALSE, accepted |-> FALSE]

TabsInit ==
    /\ Init
    /\ link = [t \in Tabs |-> TRUE]
    /\ up = [t \in Tabs |-> <<>>] /\ down = [t \in Tabs |-> <<>>]
    /\ serving = [t \in Tabs |-> None] /\ late = [t \in Tabs |-> {}]
    /\ form = [t \in Tabs |-> NoForm]
    /\ stale = [t \in Tabs |-> FALSE] /\ wiped = [t \in Tabs |-> None]
    /\ breaks = 0

Frame(type, v) == [type |-> type, v |-> v]
Push(t, frame) == down' = [down EXCEPT ![t] = Append(@, frame)]

\* ---- what the port tells its connections ----

YourTurn(v) == Frame("your_turn", v)
WindowClosed(v) == Frame("window_closed", v)

\* A prompt that opens, the end of a window and the end of the game reach every
\* connection of the seat in the step in which they happen.
News(t) ==
    LET old == prompt[SeatOf[t]]
        new == prompt'[SeatOf[t]]
    IN  (IF old # None /\ new = None THEN <<WindowClosed(old)>> ELSE <<>>)
        \o (IF old = None /\ new # None THEN <<YourTurn(new)>> ELSE <<>>)
        \o (IF pc # "over" /\ pc' = "over" THEN <<Frame("game_over", None)>> ELSE <<>>)

Watched(act) ==
    /\ act
    /\ down' = [t \in Tabs |-> IF link[t] THEN down[t] \o News(t) ELSE down[t]]
    /\ UNCHANGED <<link, up, serving, late, form, stale, wiped, breaks>>

\* ---- the endpoint ----

Verdict(c) == calls[c].verdict

\* It reads one message after the other, and the next one only when it is done
\* with the last; a result that has come in is queued before a message that was
\* sent after it can be read, the one waiting on the event loop and the other on
\* the network.
Receive(t) ==
    /\ link[t] /\ up[t] # <<>> /\ serving[t] = None
    /\ \A c \in late[t] : Verdict(c) = "none"
    /\ up' = [up EXCEPT ![t] = Tail(@)]
    /\ LET s == SeatOf[t]
           v == Head(up[t])
       IN  IF Open(s) /\ Accepts(s, v)
           THEN /\ Submit(s, v)
                /\ serving' = [serving EXCEPT ![t] = Len(calls')]
                /\ UNCHANGED down
           ELSE /\ Push(t, Frame("not_your_turn", None))
                /\ UNCHANGED <<vars, serving>>
    /\ UNCHANGED <<link, late, form, stale, wiped, breaks>>

ActionResult(c) == Frame("action_result", IF Verdict(c) = "ok" THEN 1 ELSE 0)

Report(t) ==
    /\ serving[t] # None /\ Verdict(serving[t]) # "none"
    /\ Push(t, ActionResult(serving[t]))
    /\ serving' = [serving EXCEPT ![t] = None]
    /\ UNCHANGED <<vars, link, up, late, form, stale, wiped, breaks>>

\* ACCEPT_WAIT_SEC is over.
Acknowledge(t) ==
    /\ serving[t] # None /\ Verdict(serving[t]) = "none"
    /\ Push(t, Frame("action_accepted", None))
    /\ late' = [late EXCEPT ![t] = @ \cup {serving[t]}]
    /\ serving' = [serving EXCEPT ![t] = None]
    /\ UNCHANGED <<vars, link, up, form, stale, wiped, breaks>>

DeliverLate(t) ==
    \E c \in late[t] :
      /\ Verdict(c) # "none"
      /\ Push(t, ActionResult(c))
      /\ late' = [late EXCEPT ![t] = @ \ {c}]
      /\ UNCHANGED <<vars, link, up, serving, form, stale, wiped, breaks>>

\* A connection that is made in the middle of a window is given its prompt.
Connect(t) ==
    /\ ~link[t]
    /\ link' = [link EXCEPT ![t] = TRUE]
    /\ LET v == prompt[SeatOf[t]]
       IN  down' = [down EXCEPT ![t] =
                      (IF v # None THEN <<YourTurn(v)>> ELSE <<>>)
                      \o (IF pc = "over" THEN <<Frame("game_over", None)>> ELSE <<>>)]
    /\ UNCHANGED <<vars, up, serving, late, form, stale, wiped, breaks>>

\* disconnected() in the page; the endpoint gives up what it has not delivered.
Break(t) ==
    /\ link[t] /\ breaks < MaxBreaks
    /\ link' = [link EXCEPT ![t] = FALSE]
    /\ up' = [up EXCEPT ![t] = <<>>] /\ down' = [down EXCEPT ![t] = <<>>]
    /\ serving' = [serving EXCEPT ![t] = None] /\ late' = [late EXCEPT ![t] = {}]
    /\ form' = [form EXCEPT ![t].pending = FALSE]
    /\ stale' = [stale EXCEPT ![t] = form[t].prompt # None]
    /\ breaks' = breaks + 1
    /\ UNCHANGED <<vars, wiped>>

\* ---- the page ----

SetPrompt(f, v) == [NoForm EXCEPT !.prompt = v, !.submitted = f.submitted]

\* Mutant: the result of the last action clears whatever prompt is shown.
MutantResolve(f, ok) ==
    [NoForm EXCEPT !.prompt = IF ok THEN None ELSE f.prompt]
\* A result clears the prompt that it answers and leaves a newer one alone.
Resolve(f, ok) ==
    [NoForm EXCEPT !.prompt = IF ok /\ f.prompt = f.submitted THEN None ELSE f.prompt]

\* The window of the prompt was closed; a page that has submitted waits for its result.
Cleared(f, v) == IF f.prompt # v \/ f.submitted = v THEN f ELSE [NoForm EXCEPT !.submitted = f.submitted]

After(f, frame) ==
    CASE frame.type = "your_turn" -> SetPrompt(f, frame.v)
      [] frame.type = "window_closed" -> Cleared(f, frame.v)
      [] frame.type = "action_accepted" -> [f EXCEPT !.pending = FALSE, !.accepted = TRUE]
      [] frame.type = "action_result" -> Resolve(f, frame.v = 1)
      [] frame.type \in {"not_your_turn", "game_over"} -> NoForm

ReadFrame(t) ==
    /\ link[t] /\ down[t] # <<>>
    /\ LET f == form[t]
           frame == Head(down[t])
       IN  /\ form' = [form EXCEPT ![t] = After(f, frame)]
           /\ stale' = [stale EXCEPT ![t] = @ /\ form'[t].prompt = f.prompt]
           /\ wiped' = [wiped EXCEPT ![t] =
                          IF frame.type \in {"your_turn", "window_closed"} THEN None
                          ELSE IF frame.type = "not_your_turn" /\ f.prompt # f.submitted
                          THEN f.prompt ELSE @]
    /\ down' = [down EXCEPT ![t] = Tail(@)]
    /\ UNCHANGED <<vars, link, up, serving, late, breaks>>

\* The page offers the player a form to fill in.
Offered(f) == f.prompt # None /\ ~f.pending /\ ~f.accepted

SendForm(t) ==
    /\ link[t] /\ Offered(form[t])
    /\ up' = [up EXCEPT ![t] = Append(@, form[t].prompt)]
    /\ form' = [form EXCEPT ![t].pending = TRUE, ![t].submitted = form[t].prompt]
    /\ stale' = [stale EXCEPT ![t] = TRUE]
    /\ UNCHANGED <<vars, link, down, serving, late, wiped, breaks>>

\* ---- the whole ----

OtherClient ==
    /\ Cardinality({c \in DOMAIN calls : calls[c].tag = None}) < MaxOthers
    /\ \E s \in Seats : Submit(s, None)

TabStep(t) ==
    \/ Receive(t) \/ Report(t) \/ Acknowledge(t) \/ DeliverLate(t)
    \/ Connect(t) \/ Break(t) \/ ReadFrame(t) \/ SendForm(t)

TabsNext ==
    \/ Watched(RunnerStep) \/ Watched(ActResumes) \/ Watched(Expire) \/ Watched(OtherClient)
    \/ \E t \in Tabs : TabStep(t)

\* The fairness of the runner is that of PlayerWindow; pages and players may stop.
TabsSpec ==
    /\ TabsInit /\ [][TabsNext]_allVars
    /\ WF_allVars(Watched(RunnerStep)) /\ WF_allVars(Watched(ActResumes))
    /\ WF_allVars(Watched(Expire))

=============================================================================
