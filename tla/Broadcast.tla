----------------------------- MODULE Broadcast ------------------------------
(***************************************************************************)
(* How the events of a game reach those who watch it: the runner commits   *)
(* a batch and has it spoken (runtime/game_runner.py, speech_audio.py),    *)
(* the ConnectionManager hands it to its subscribers (connection.py), and  *)
(* a WebSocket connection queues frames for its client (api/ws.py), who    *)
(* comes back from the last event he has (frontend api/ws.ts).             *)
(*                                                                         *)
(* All of it runs on the event loop.  An action is what happens between    *)
(* two awaits that really wait: the file is written, the subscribers are   *)
(* called and the frames are queued without giving way.                    *)
(***************************************************************************)
EXTENDS Naturals, Sequences, SequencesExt, FiniteSetsExt

CONSTANTS
    Clients,        \* browsers, one connection each
    Agents,         \* LLM seats, whose port subscribes before the game begins
    Eyes,           \* the viewers a client may be
    SeatOf,         \* of each agent: its seat
    WolfSeats,
    Script,         \* the batches of events the engine hands to the runner, one per step
    MaxParts,       \* bound on the sentences of a speech
    MaxTaken,       \* bound on the events of a batch that a subscriber takes before it fails
    MaxBreaks,      \* bound on the connections that break and the pages that are reloaded
    None

VARIABLES
    viewer,     \* of each reader: with whose eyes it looks
    task,       \* "playing", "crashed"
    done,       \* the number of batches committed
    log,        \* the event file
    voice,      \* the numbers of the events of the batch that are still to be spoken
    part,       \* of the one that is being spoken: the next sentence; None between two
    torn,       \* the events whose speech was broken off by an error
    noticed,    \* the crash has been sent to all connections
    conn,       \* of each reader: its connection, with the frames queued on it
    got,        \* of each reader: the numbers of the events it has received
    shown,      \* of each client: the phase and the round it displays
    hearing,    \* of each client: the last frame of speech that came on its connection
    lost,       \* the clients that lost a phase frame with a connection
    breaks

vars == <<viewer, task, done, log, voice, part, torn, noticed, conn, got, shown, hearing, lost, breaks>>
runnerVars == <<task, done, log, torn>>
voiceVars == <<voice, part>>
clientVars == <<got, shown, hearing, lost, breaks>>

Readers == Clients \cup Agents
Events == UNION {Range(Script[n]) : n \in DOMAIN Script}
ASSUME BroadcastAssumption ==
    /\ Clients \cap Agents = {} /\ MaxParts \in Nat \ {0} /\ {MaxTaken, MaxBreaks} \subseteq Nat
    /\ None \notin Nat /\ Script \in Seq(Seq(Events))
    /\ \A a \in Agents : SeatOf[a] # "GM"

-----------------------------------------------------------------------------
\* visible_events: the wolves and the holder of a role see what is theirs.
Visible(e, eyes) ==
    \/ eyes = "GM" \/ e.sees = "PUBLIC"
    \/ e.sees = "WOLVES" /\ eyes \in WolfSeats
    \/ e.sees = "ROLE_SELF" /\ eyes = e.seat

\* public_phase: that it is night is public, which of its phases is on is not.
Public(phase) == IF phase \in {"NIGHT_WEREWOLF", "NIGHT_SEER"} THEN "NIGHT" ELSE phase

IsPhase(e) == e.type = "PHASE_CHANGED"

\* _seq_round_map: the round an event of the file belongs to.
RoundAt(file, i) ==
    LET starts == {j \in 1 .. i : file[j].type = "ROUND_STARTED"}
    IN  IF starts = {} THEN 0 ELSE file[Max(starts)].round

\* What the engine makes of a game (engine.py): whom it tells what; a round begins with a
\* phase, and not in the step that ends the game; nothing comes after the end; speeches
\* are made in phases that everybody sees, in an election only at its stage for them.
ASSUME ScriptAssumption ==
    /\ \A e \in Events :
          /\ IsPhase(e) => e.sees = IF Public(e.to) = e.to THEN "PUBLIC" ELSE "GM_ONLY"
          /\ e.type \in {"ELECTION_STAGE_CHANGED", "GAME_OVER"} => e.sees = "PUBLIC"
          /\ e.type \in {"ROLES_ASSIGNED", "ROUND_STARTED"} => e.sees = "GM_ONLY"
          /\ e.type = "SEER_CHECKED" => e.sees = "ROLE_SELF"
    /\ \A n \in DOMAIN Script : \A i \in DOMAIN Script[n] :
          /\ Script[n][i].type = "GAME_OVER" => n = Len(Script) /\ i = Len(Script[n])
          /\ Script[n][i].type = "ROUND_STARTED" =>
                /\ \E j \in DOMAIN Script[n] : i < j /\ IsPhase(Script[n][j])
                /\ \A j \in DOMAIN Script[n] : Script[n][j].type # "GAME_OVER"
    /\ LET file == FlattenSeq(Script)
       IN  \A i \in DOMAIN file :
              LET phases == {j \in 1 .. i : IsPhase(file[j])}
                  stages == {j \in 1 .. i : j > Max(phases) /\ file[j].type = "ELECTION_STAGE_CHANGED"}
              IN  file[i].type = "PLAYER_SPOKE" =>
                    /\ phases # {} /\ file[Max(phases)].sees = "PUBLIC"
                    /\ IF file[Max(phases)].to = "SHERIFF_ELECTION"
                       THEN stages # {} /\ file[Max(stages)].to = "speech"
                       ELSE stages = {}

EventFrame(i) == [type |-> "game_event", seq |-> i]
PhaseFrame(to, round) == [type |-> "phase_change", to |-> to, round |-> round]
AudioFrame(kind, i, k) == [type |-> kind, seq |-> i, part |-> k]
CrashFrame == [type |-> "error"]
ASSUME FrameAssumption ==
    /\ None # "claims a role"
    /\ \A e \in Events : \A r \in {0} \cup {f.round : f \in Events} : None # PhaseFrame(Public(e.to), r)
Silence == AudioFrame("end", 0, 0)

\* The frames of the events first .. of a file, each phase with the round Rounds[i] of
\* its event; `kinds`: which of them are built.
FramesOf(file, first, eyes, kinds, Rounds) ==
    LET Frames(i) ==
            (IF "event" \in kinds /\ Visible(file[i], eyes) THEN <<EventFrame(i)>> ELSE <<>>)
            \o IF "phase" \in kinds /\ IsPhase(file[i])
               THEN <<PhaseFrame(IF eyes = "GM" THEN file[i].to ELSE Public(file[i].to), Rounds[i])>>
               ELSE <<>>
    IN  FlattenSeq([n \in 1 .. Len(file) - first + 1 |-> Frames(first + n - 1)])

\* put_phase: a viewer who is not the GM is not told the same phase twice in a row.
Queue(cn, eyes, frames) ==
    LET phases == {n \in DOMAIN frames : frames[n].type = "phase_change"}
        LastPhase(n) == LET earlier == {m \in phases : m < n}
                        IN  IF earlier = {} THEN cn.last ELSE frames[Max(earlier)]
        Repeats(n) == n \in phases /\ eyes # "GM" /\ frames[n] = LastPhase(n)
    IN  [cn EXCEPT !.out = @ \o FlattenSeq([n \in DOMAIN frames |->
                                   IF Repeats(n) THEN <<>> ELSE <<frames[n]>>]),
                   !.last = LastPhase(Len(frames) + 1)]

Closed(at) == [at |-> at, out |-> <<>>, last |-> None]
Open(r) == conn[r].at = "open"

-----------------------------------------------------------------------------
(***************************************************************************)
(* The runner and the ConnectionManager.                                   *)
(***************************************************************************)

\* What a connection queues of a batch: the events it may see, then the phases, or for
\* the GM each where it is; the round is the one after the batch.
MutantLiveRound(file, first, eyes, round) ==
    IF eyes = "GM"
    THEN FramesOf(file, first, eyes, {"event", "phase"}, [i \in DOMAIN file |-> round])
    ELSE FramesOf(file, first, eyes, {"event"}, [i \in DOMAIN file |-> round])
         \o FramesOf(file, first, eyes, {"phase"}, [i \in DOMAIN file |-> RoundAt(file, first - 1)])
Live(file, first, eyes, round) ==
    LET Rounds == [i \in DOMAIN file |-> round]
    IN  IF eyes = "GM" THEN FramesOf(file, first, eyes, {"event", "phase"}, Rounds)
        ELSE FramesOf(file, first, eyes, {"event"}, Rounds) \o FramesOf(file, first, eyes, {"phase"}, Rounds)

\* Those of the numbers first .. last that are in a set, in their order.
Numbers(S, first, last) ==
    FlattenSeq([n \in 1 .. last - first + 1 |->
                  IF first + n - 1 \in S THEN <<first + n - 1>> ELSE <<>>])

\* The numbers of the events first .. that a reader may see.
News(r, file, first) ==
    Numbers({i \in DOMAIN file : Visible(file[i], viewer[r])}, first, Len(file))

\* broadcast: each subscriber in turn. A client queues frames. An agent takes the events
\* into its memory, kept[r] of them: if it fails on the way it is dropped for ever.
Kept(file, first) == [Agents -> (0 .. MaxTaken) \cup {Len(file) - first + 1}]

MutantStays(file, first) ==
    \E kept \in Kept(file, first) :
        /\ conn' = [r \in Readers |->
                      IF r \in Clients /\ Open(r)
                      THEN Queue(conn[r], viewer[r], Live(file, first, viewer[r], RoundAt(file, Len(file))))
                      ELSE conn[r]]
        /\ got' = [r \in Readers |->
                     IF r \in Agents /\ Open(r)
                     THEN LET news == News(r, file, first)
                          IN  got[r] \o SubSeq(news, 1, Min({kept[r], Len(news)}))
                     ELSE got[r]]
BroadcastBatch(file, first) ==
    \E kept \in Kept(file, first) :
        LET news(r) == News(r, file, first)
            Fails(r) == kept[r] < Len(news(r))
        IN  /\ conn' = [r \in Readers |->
                  IF ~Open(r) THEN conn[r]
                  ELSE IF r \in Agents THEN IF Fails(r) THEN Closed("dropped") ELSE conn[r]
                  ELSE Queue(conn[r], viewer[r], Live(file, first, viewer[r], RoundAt(file, Len(file))))]
            /\ got' = [r \in Readers |->
                  IF r \in Agents /\ Open(r)
                  THEN got[r] \o IF Fails(r) THEN SubSeq(news(r), 1, kept[r]) ELSE news(r)
                  ELSE got[r]]

\* broadcast_frame, broadcast_frame_all: to the connections of who may hear it.
QueueFor(listeners, frame) ==
    conn' = [r \in Readers |->
               IF r \in listeners /\ Open(r) THEN Queue(conn[r], viewer[r], <<frame>>) ELSE conn[r]]

Idle == task = "playing" /\ voice = <<>> /\ done < Len(Script)

\* _commit, then _voice: the events are written, then broadcast, then spoken.
Commit ==
    /\ Idle
    /\ done' = done + 1
    /\ log' = log \o Script[done + 1]
    /\ BroadcastBatch(log', Len(log) + 1)
    /\ voice' = Numbers({i \in DOMAIN log' : log'[i].voiced}, Len(log) + 1, Len(log'))
    /\ UNCHANGED <<viewer, task, part, torn, noticed, shown, hearing, lost, breaks>>

\* The file cannot be written: part of the batch is in it, nothing is broadcast, the runner is dead.
CommitFails ==
    /\ Idle
    /\ \E n \in 0 .. Len(Script[done + 1]) - 1 : log' = log \o SubSeq(Script[done + 1], 1, n)
    /\ task' = "crashed"
    /\ UNCHANGED <<viewer, done, voice, part, torn, noticed, conn, clientVars>>

\* _notify_runner_crash: a task of its own tells everyone.
CrashNotice ==
    /\ task = "crashed" /\ ~noticed /\ noticed' = TRUE
    /\ QueueFor(Clients, CrashFrame)
    /\ UNCHANGED <<viewer, runnerVars, voiceVars, clientVars>>

-----------------------------------------------------------------------------
(***************************************************************************)
(* speech_audio.py: one event is spoken after the other, sentence by       *)
(* sentence, while the game waits.                                         *)
(***************************************************************************)
Spoken == voice[1]
Speak(kind, k) ==
    QueueFor({c \in Clients : Visible(log[Spoken], viewer[c])}, AudioFrame(kind, Spoken, k))

VoiceBegin ==
    /\ voice # <<>> /\ part = None /\ part' = 0
    /\ Speak("begin", 0)
    /\ UNCHANGED <<viewer, runnerVars, voice, noticed, clientVars>>

\* A sentence that cannot be synthesised is left out; its number is not used again.
VoicePart ==
    /\ part # None
    /\ \E k \in part .. MaxParts - 1 : Speak("part", k) /\ part' = k + 1
    /\ UNCHANGED <<viewer, runnerVars, voice, noticed, clientVars>>

NextSpoken == voice' = Tail(voice) /\ part' = None

\* All sentences are done, or the speech service failed for good.
MutantEnd ==
    /\ part # None /\ NextSpoken
    /\ IF part = 0 THEN conn' = conn ELSE Speak("end", 0)
    /\ UNCHANGED <<viewer, runnerVars, noticed, clientVars>>
VoiceEnd ==
    /\ part # None /\ NextSpoken
    /\ Speak("end", 0)
    /\ UNCHANGED <<viewer, runnerVars, noticed, clientVars>>

\* Any other error, a wave file that cannot be written: no end is sent.
VoiceFails ==
    /\ part # None /\ NextSpoken
    /\ torn' = torn \cup {Spoken}
    /\ UNCHANGED <<viewer, task, done, log, noticed, conn, clientVars>>

-----------------------------------------------------------------------------
(***************************************************************************)
(* The WebSocket endpoint and the browser at its other end.                *)
(***************************************************************************)
IsOver(c) == \E i \in Range(got[c]) : log[i].type = "GAME_OVER"
LastSeq(c) == IF got[c] = <<>> THEN 0 ELSE Last(got[c])

\* The synchronous block of ws_endpoint: subscribed, then the history from from_seq is
\* queued, and the last word if the runner is dead. The browser asks for what follows
\* the last event it has.
MutantSilent(eyes, from) ==
    Queue(Closed("open"), eyes,
          FramesOf(log, from, eyes, {"event", "phase"}, [i \in DOMAIN log |-> RoundAt(log, i)]))
Backfill(eyes, from) ==
    Queue(Closed("open"), eyes,
          FramesOf(log, from, eyes, {"event", "phase"}, [i \in DOMAIN log |-> RoundAt(log, i)])
          \o IF task = "crashed" THEN <<CrashFrame>> ELSE <<>>)
Connect(c) ==
    /\ conn[c].at \in {"away", "broken"}
    /\ log # <<>>
    /\ conn' = [conn EXCEPT ![c] = Backfill(viewer[c], LastSeq(c) + 1)]
    /\ UNCHANGED <<viewer, runnerVars, voiceVars, noticed, clientVars>>

\* What the page shows after a frame: an event it can see has its effect, a phase frame
\* is for those who do not see the phases, and the end of the game is the end.
Displayed(c, frame) ==
    IF frame.type = "game_event"
    THEN LET e == log[frame.seq]
         IN  CASE IsPhase(e) -> [shown[c] EXCEPT !.to = e.to]
               [] e.type = "ROUND_STARTED" -> [shown[c] EXCEPT !.round = e.round]
               [] e.type = "GAME_OVER" -> [shown[c] EXCEPT !.to = "GAME_OVER"]
               [] OTHER -> shown[c]
    ELSE IF frame.type = "phase_change" /\ viewer[c] # "GM" /\ ~IsOver(c)
    THEN [to |-> frame.to, round |-> frame.round]
    ELSE shown[c]

IsAudio(frame) == frame.type \in {"begin", "part", "end"}

\* sender_loop: one frame at a time; the connection is closed for good behind the last word.
Send(c) ==
    /\ Open(c) /\ conn[c].out # <<>>
    /\ LET frame == Head(conn[c].out)
       IN  /\ conn' = [conn EXCEPT ![c] = IF frame = CrashFrame THEN Closed("ended")
                                          ELSE [conn[c] EXCEPT !.out = Tail(@)]]
           /\ got' = IF frame.type = "game_event" THEN [got EXCEPT ![c] = Append(@, frame.seq)] ELSE got
           /\ shown' = [shown EXCEPT ![c] = Displayed(c, frame)]
           /\ hearing' = IF IsAudio(frame) THEN [hearing EXCEPT ![c] = frame] ELSE hearing
           /\ lost' = IF frame.type = "phase_change" /\ ~IsOver(c) THEN lost \ {c} ELSE lost
    /\ UNCHANGED <<viewer, runnerVars, voiceVars, noticed, breaks>>

\* The connection breaks with what is queued on it; the page tries again, unless the game is over.
Breaks(c) ==
    /\ Open(c) /\ breaks < MaxBreaks /\ breaks' = breaks + 1
    /\ conn' = [conn EXCEPT ![c] = Closed(IF IsOver(c) THEN "ended" ELSE "broken")]
    /\ hearing' = [hearing EXCEPT ![c] = Silence]
    /\ lost' = IF \E n \in DOMAIN conn[c].out : conn[c].out[n].type = "phase_change"
               THEN lost \cup {c} ELSE lost
    /\ UNCHANGED <<viewer, runnerVars, voiceVars, noticed, got, shown>>

\* The page is closed; whoever comes back begins with nothing.
Leaves(c) ==
    /\ conn[c].at # "away" /\ breaks < MaxBreaks /\ breaks' = breaks + 1
    /\ conn' = [conn EXCEPT ![c] = Closed("away")]
    /\ got' = [got EXCEPT ![c] = <<>>]
    /\ shown' = [shown EXCEPT ![c] = [to |-> "LOBBY", round |-> 0]]
    /\ hearing' = [hearing EXCEPT ![c] = Silence]
    /\ lost' = lost \ {c}
    /\ UNCHANGED <<viewer, runnerVars, voiceVars, noticed>>

-----------------------------------------------------------------------------
Init ==
    /\ viewer \in {v \in [Readers -> Eyes \cup {SeatOf[a] : a \in Agents}] :
                      /\ \A a \in Agents : v[a] = SeatOf[a]
                      /\ \A c \in Clients : v[c] \in Eyes}
    /\ task = "playing" /\ done = 0 /\ log = <<>> /\ noticed = FALSE
    /\ voice = <<>> /\ part = None /\ torn = {}
    /\ conn = [r \in Readers |-> Closed(IF r \in Agents THEN "open" ELSE "away")]
    /\ got = [r \in Readers |-> <<>>]
    /\ shown = [c \in Clients |-> [to |-> "LOBBY", round |-> 0]]
    /\ hearing = [c \in Clients |-> Silence]
    /\ lost = {} /\ breaks = 0

Next ==
    \/ Commit \/ CommitFails \/ CrashNotice
    \/ VoiceBegin \/ VoicePart \/ VoiceEnd \/ VoiceFails
    \/ \E c \in Clients : Connect(c) \/ Send(c) \/ Breaks(c) \/ Leaves(c)

\* The event loop runs what is ready; the game makes only so much of it.
Fairness == WF_vars(CrashNotice \/ \E c \in Clients : Send(c))

Spec == Init /\ [][Next]_vars /\ Fairness

=============================================================================
