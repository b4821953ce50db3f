------------------------------- MODULE EventStore -------------------------------
\* One game of JsonFileEventStore (backend/app/store/event_store.py): its JSONL
\* file, the write-through cache and the lock between the event loop, where the
\* runner appends, and the thread pool, where the endpoints read and delete.
\* A line of the file is 0 for the meta record, k for the event whose seq is k
\* and Bad for a line that does not parse. A cache or an answer holds the lines
\* it was made of, so that <<>> is "not cached" and "game not found".
\* The steps between two accesses of memory or disk are actions of their own: a
\* crash may come between any two of them, a thread only where the lock lets it.
EXTENDS Integers, Sequences

CONSTANTS
    Readers,     \* threads of the pool
    MaxEvents,   \* bound: events of a game
    MaxFaults    \* bound: failed writes, crashes and power failures

VARIABLES
    file,       \* exists, its complete lines, and whether bytes follow the last newline
    cache,      \* _cache[game_id]
    lock,       \* the thread that holds _lock
    step,       \* where each thread is inside its call
    raw,        \* the lines each thread has read from the disk
    next,       \* the seq the runner's next event will have; 0 before it knows
    stopped,    \* the exception that ended the runner
    answer,     \* what each reader was last given
    faults      \* failures so far
vars == <<file, cache, lock, step, raw, next, stopped, answer, faults>>

Runner == "runner"
Threads == Readers \cup {Runner}
NoOne == "nobody"

ASSUME StoreAssumption ==
    /\ Runner \notin Readers /\ NoOne \notin Threads
    /\ MaxEvents \in Nat /\ MaxFaults \in Nat

Bad == -1
NoFile == [exists |-> FALSE, lines |-> <<>>, torn |-> FALSE]
EmptyFile == [NoFile EXCEPT !.exists = TRUE]
Records(n) == [i \in 1..n |-> i - 1]
Goto(t, s) == step' = [step EXCEPT ![t] = s]

Init ==
    /\ file \in {NoFile, EmptyFile}      \* EmptyFile: left by an older version
    /\ cache = <<>> /\ lock = NoOne
    /\ step = [t \in Threads |-> "idle"]
    /\ raw = [t \in Threads |-> <<>>]
    /\ next = 0 /\ stopped = "no"
    /\ answer = [r \in Readers |-> <<>>]
    /\ faults = 0

\* Mutant: readers that check and fill the cache without the lock.
MutantReadersDontLock(t) ==
    /\ step[t] = "idle"
    /\ IF t = Runner THEN lock = NoOne /\ lock' = t ELSE UNCHANGED lock
\* with self._lock
Enter(t) == lock = NoOne /\ lock' = t /\ step[t] = "idle"
Leave(t) == lock' = (IF lock = t THEN NoOne ELSE lock) /\ Goto(t, "idle")

\* ---- _ensure_loaded ----

\* load_meta, load_events, and the first line of append; the runner that does
\* not know its next seq loads the game first.
Open(t) ==
    /\ Enter(t)
    /\ t = Runner => stopped = "no" /\ next <= MaxEvents
    /\ Goto(t, IF cache = <<>> THEN "load" ELSE "loaded")
    /\ UNCHANGED <<file, cache, raw, next, stopped, answer, faults>>

\* An exception leaves the lock and ends the runner, unless all it wanted was to
\* know whether the game exists.
Raise(t, why) ==
    /\ Leave(t)
    /\ stopped' = IF t = Runner /\ next > 0 THEN why ELSE stopped

\* _load_from_disk finds no file, or a file without a complete line, which
\* _quarantine moves out of the way.
LoadNothing(t) ==
    /\ step[t] = "load" /\ file.lines = <<>>
    /\ file' = NoFile
    /\ answer' = [r \in Readers |-> IF r = t THEN <<>> ELSE answer[r]]
    /\ Raise(t, "not found")
    /\ UNCHANGED <<cache, raw, next, faults>>

Readable(lines) == lines = Records(Len(lines))

\* Mutant: only memory forgets the bytes of an interrupted write, the disk keeps them.
MutantKeepsTornTail(f) == f
\* _read_records drops what follows the last newline, on the disk too.
Repaired(f) == [f EXCEPT !.torn = FALSE]

LoadLines(t) ==
    /\ step[t] = "load" /\ file.lines # <<>>
    /\ IF Readable(file.lines)
         THEN /\ file' = Repaired(file)
              /\ raw' = [raw EXCEPT ![t] = file.lines]
              /\ Goto(t, "fill")
              /\ UNCHANGED <<lock, stopped>>
         ELSE Raise(t, "corrupt") /\ UNCHANGED <<file, raw>>
    /\ UNCHANGED <<cache, next, answer, faults>>

Fill(t) ==
    /\ step[t] = "fill"
    /\ cache' = raw[t]
    /\ raw' = [raw EXCEPT ![t] = <<>>]
    /\ Goto(t, "loaded")
    /\ UNCHANGED <<file, lock, next, stopped, answer, faults>>

Return(r) ==
    /\ step[r] = "loaded"
    /\ answer' = [answer EXCEPT ![r] = cache]
    /\ Leave(r)
    /\ UNCHANGED <<file, cache, raw, next, stopped, faults>>

\* ---- create_game and append ----

\* Mutant: create_game removes whatever file it finds.
MutantOverwrites(f) == FALSE
\* A file of no bytes is removed; any other file is a game that exists.
Blocking(f) == f.exists /\ f # EmptyFile

CreateGame ==
    /\ Enter(Runner) /\ next = 0 /\ stopped = "no"
    /\ IF Blocking(file)
         THEN stopped' = "exists" /\ lock' = NoOne /\ UNCHANGED <<file, step>>
         ELSE file' = NoFile /\ Goto(Runner, "write") /\ UNCHANGED stopped
    /\ UNCHANGED <<cache, raw, next, answer, faults>>

\* A runner that opened the game to know its next seq. No runner resumes a game
\* yet, but the store is written, and tested, for one that does
\* (backend/tests/test_event_store.py:222-235).
Learn ==
    /\ step[Runner] = "loaded" /\ next = 0
    /\ next' = Len(cache)
    /\ Leave(Runner)
    /\ UNCHANGED <<file, cache, raw, stopped, answer, faults>>

\* _check_append: the event must be the next one.
CheckAppend ==
    /\ step[Runner] = "loaded" /\ next > 0
    /\ IF next = Len(cache)
         THEN Goto(Runner, "write") /\ UNCHANGED <<lock, stopped>>
         ELSE Raise(Runner, "conflict")
    /\ UNCHANGED <<file, cache, raw, next, answer, faults>>

\* A line written after bytes without a newline becomes one with them.
WithLine(f, record) ==
    [exists |-> TRUE, lines |-> Append(f.lines, IF f.torn THEN Bad ELSE record), torn |-> FALSE]

\* What a write that was cut short may leave: nothing, an empty file, some bytes.
CutShort(f) == {f, [f EXCEPT !.exists = TRUE], [f EXCEPT !.exists = TRUE, !.torn = TRUE]}

WriteLine ==
    /\ step[Runner] = "write"
    /\ file' = WithLine(file, next)
    /\ Goto(Runner, "written")
    /\ UNCHANGED <<cache, lock, raw, next, stopped, answer, faults>>

WriteFails ==
    /\ step[Runner] = "write" /\ faults < MaxFaults
    /\ file' \in CutShort(file)
    /\ Leave(Runner)
    /\ stopped' = "disk"
    /\ faults' = faults + 1
    /\ UNCHANGED <<cache, raw, next, answer>>

\* create_game starts the cached list, append adds to it.
CacheLine ==
    /\ step[Runner] = "written"
    /\ cache' = IF next = 0 THEN <<0>> ELSE Append(cache, next)
    /\ next' = next + 1
    /\ Leave(Runner)
    /\ UNCHANGED <<file, raw, stopped, answer, faults>>

\* ---- delete_game ----

\* Mutant: delete_game removes the file only.
MutantKeepsCache == UNCHANGED cache
DropCache == cache' = <<>>

DeleteGame(r) ==
    /\ Enter(r)
    /\ DropCache
    /\ Goto(r, "unlink")
    /\ UNCHANGED <<file, raw, next, stopped, answer, faults>>

Unlink(r) ==
    /\ step[r] = "unlink"
    /\ file' = NoFile
    /\ Leave(r)
    /\ UNCHANGED <<cache, raw, next, stopped, answer, faults>>

\* ---- failures ----

\* The disk refuses to truncate, rename or remove the file: StoreError.
DiskFails(t) ==
    /\ faults < MaxFaults
    /\ \/ step[t] = "unlink" /\ file.exists
       \/ step[t] = "load" /\ file.exists /\ (file.torn \/ file.lines = <<>>)
    /\ Raise(t, "disk")
    /\ faults' = faults + 1
    /\ UNCHANGED <<file, cache, raw, next, answer>>

\* The files a process that dies now may leave behind.
Remains == IF step[Runner] = "write" THEN CutShort(file) \cup {WithLine(file, next)} ELSE {file}

\* Nothing is fsynced: a power failure takes bytes from the end as well.
Truncations(f) ==
    {f} \cup {[exists |-> TRUE, lines |-> SubSeq(f.lines, 1, n), torn |-> bytes] :
             n \in 0..(Len(f.lines) - 1), bytes \in BOOLEAN}

\* A new process: a new JsonFileEventStore over the same directory.
Restart(files) ==
    /\ faults < MaxFaults /\ faults' = faults + 1
    /\ file' \in files
    /\ cache' = <<>> /\ lock' = NoOne
    /\ step' = [t \in Threads |-> "idle"]
    /\ raw' = [t \in Threads |-> <<>>]
    /\ next' = 0 /\ stopped' = "no"
    /\ answer' = [r \in Readers |-> <<>>]

Crash == Restart(Remains)
PowerFailure == Restart(UNION {Truncations(f) : f \in Remains})

Load(t) == LoadNothing(t) \/ LoadLines(t) \/ Fill(t)

Next ==
    \/ \E t \in Threads : Open(t) \/ Load(t) \/ DiskFails(t)
    \/ \E r \in Readers : Return(r) \/ DeleteGame(r) \/ Unlink(r)
    \/ CreateGame \/ Learn \/ CheckAppend
    \/ WriteLine \/ WriteFails \/ CacheLine
    \/ Crash \/ PowerFailure

Spec == Init /\ [][Next]_vars

=============================================================================
