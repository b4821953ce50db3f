--------------------------- MODULE BroadcastProps ---------------------------
(***************************************************************************)
(* What those who watch a game may rely on, whenever they come and go.     *)
(***************************************************************************)
EXTENDS AgentMemory

\* A client that comes back and an agent that is never dropped read, in order, exactly
\* what they may see of the file, from wherever they left off: the history queued by
\* ws_endpoint and the batches broadcast to it meet without a gap or a repetition, and
\* a subscriber that failed on a batch is not given the next one.
Feed == INSTANCE Feed WITH read <- got
FeedImplemented == Feed!FeedSpec

\* The phase and the round that an outsider should see.
PublicPhase ==
    LET ended == \E i \in DOMAIN log : log[i].type = "GAME_OVER"
        phases == {i \in DOMAIN log : IsPhase(log[i])}
    IN  [to |-> IF ended THEN "GAME_OVER" ELSE IF phases = {} THEN "LOBBY" ELSE Public(log[Max(phases)].to),
         round |-> IF phases = {} THEN 0 ELSE RoundAt(log, Max(phases))]

\* Someone who is not told the phases of the night nonetheless sees which phase and
\* which round it is, once all that was sent has arrived: live frames, those derived
\* from history and the suppressed repetitions add up (ws.py, connection.py). Not so
\* while he has lost a phase frame with a connection, or if the runner died half way
\* through a batch.
PhaseShown ==
    \A c \in Clients :
        (/\ Open(c) /\ conn[c].out = <<>>
         /\ viewer[c] # "GM" /\ c \notin lost /\ task = "playing") =>
            shown[c] = PublicPhase

\* On one connection the sound of an event comes after the event; its begin comes before
\* its sentences, these in their order, and then an end before anything else of the game
\* - unless the speech was broken off by an error, or the connection came in the middle.
\* And no one waits for an end when the runner has gone on.
Follows(c, frame) ==
    LET before == hearing[c]
        same == frame.seq = before.seq
    IN  CASE frame.type = "begin" -> frame.seq \in Range(got[c]) /\ ~same
          [] frame.type = "part" -> same => \/ before.type = "begin"
                                               \/ (before.type = "part" /\ before.part < frame.part)
          [] frame.type = "end" -> same => before.type # "end"
Ended(c) == hearing[c].type = "end" \/ hearing[c].seq \in torn
AudioBracketed ==
    \A c \in Clients :
        IF conn[c].out = <<>>
        THEN Ended(c) \/ (part # None /\ hearing[c].seq = Spoken)
        ELSE LET frame == Head(conn[c].out)
             IN  /\ IsAudio(frame) => Follows(c, frame)
                 /\ Ended(c) \/ (IsAudio(frame) /\ frame.type # "begin" /\ frame.seq = hearing[c].seq)

\* Whatever was committed reaches everyone who may see it and is connected, and when the
\* runner dies, everyone who is connected is told so and does not come back
\* (registry.py _notify_runner_crash, ws.py).
Committed == [n \in 0 .. Len(Script) |-> Len(FlattenSeq(SubSeq(Script, 1, n)))]
CaughtUp(c) ==
    \A i \in 1 .. Committed[done] :
        Visible(log[i], viewer[c]) => i \in Range(got[c])
Told ==
    \A c \in Clients :
        []<>(\/ conn[c].at \in {"away", "broken"}
             \/ CaughtUp(c) /\ (task = "crashed" => conn[c].at = "ended"))

\* What an LLM seat is told before it decides is in the order of the game, leaves out
\* nothing while it fits, holds the newest entries, and forgets no entry for an older
\* one that tells less; a seer keeps his own checks. A speech counts as one of the
\* campaign exactly if it was made in the election, although the memory only sees the
\* changes of phase that its seat may see (memory.py).
InElection(i) ==
    LET phases == {j \in 1 .. i : IsPhase(log[j])}
    IN  phases # {} /\ log[Max(phases)].to \in {"SHERIFF_ELECTION", "SHERIFF_PK"}
RecallTrue ==
    \A a \in Agents :
        LET entries == Memory(a)
            context == Context(entries)
            told == Range(context)
            Event(k) == log[got[a][k]]
            checks == {k \in DOMAIN entries : Event(k).type = "SEER_CHECKED"}
        IN  /\ \A m, n \in DOMAIN context : m < n => context[m] < context[n]
            /\ Len(context) = Min({Len(entries), FreshnessK + TopN})
            /\ \A k \in DOMAIN entries \ told :
                  /\ k + FreshnessK <= Len(entries)
                  /\ \A j \in told : j < k => entries[j].score >= entries[k].score
            /\ Cardinality(checks) <= TopN => checks \subseteq told
            /\ \A k \in DOMAIN entries :
                  Event(k).type = "PLAYER_SPOKE" /\ Event(k).note = None =>
                    entries[k].score = IF InElection(got[a][k]) THEN 2 ELSE 1

\* "每轮反思（惰性触发…）" (memory.py:3), "每轮结束时 Agent 对当天辩论做摘要"
\* (requirements.md:483): once a round of the game is over, an agent that has seen all
\* of it has it on its list. It has not: the start of a round is never sent to a seat.
RoundsReflected ==
    \A a \in Agents :
        Open(a) /\ log # <<>> =>
            \A r \in 1 .. RoundAt(log, Len(log)) - 1 : r \in RoundsNeedingReflection(Memory(a))

=============================================================================
