------------------------------ MODULE StoreProofs ------------------------------
(***************************************************************************)
(* The event store is one atomic log, for any number of threads, events    *)
(* and failures.                                                           *)
(*                                                                         *)
(* A file never holds anything but the meta record and the events 1, 2,... *)
(* so that its contents are a number, Len(file.lines).  The invariant says *)
(* what the thread that holds the lock knows at each of its steps, and     *)
(* that nobody else knows anything.                                        *)
(***************************************************************************)
EXTENDS EventStoreProps, SequenceTheorems, TLAPS

Lines == Seq(Int)
Files == [exists : BOOLEAN, lines : Lines, torn : BOOLEAN]
Steps == {"idle", "load", "fill", "loaded", "write", "written", "unlink"}

StoreTypeOK ==
  /\ file \in Files
  /\ cache \in Lines
  /\ lock \in Threads \cup {NoOne}
  /\ step \in [Threads -> Steps]
  /\ raw \in [Threads -> Lines]
  /\ next \in Nat
  /\ stopped \in {"no", "exists", "not found", "corrupt", "conflict", "disk"}
  /\ answer \in [Readers -> Lines]
  /\ faults \in Nat

\* Only the holder of the lock is inside a call; a call of the runner is either
\* an append or a load, and only a runner that goes on makes one.
OneInside ==
  /\ \A t \in Threads : step[t] # "idle" => lock = t
  /\ \A r \in Readers : step[r] \notin {"write", "written"}
  /\ step[Runner] # "unlink"
  /\ step[Runner] # "idle" => stopped = "no"

\* The file holds the events up to some number.
Sound(f) == f.lines = Records(Len(f.lines)) /\ (f.exists \/ f = NoFile)

\* What a thread knows of file and cache.
Knows(t) ==
  /\ step[t] = "fill" => raw[t] = file.lines /\ raw[t] # <<>> /\ ~file.torn /\ cache = <<>>
  /\ step[t] = "load" => cache = <<>>
  /\ step[t] = "loaded" => cache # <<>>
  /\ step[t] = "unlink" => cache = <<>>
  /\ step[t] = "write" => cache = file.lines /\ ~file.torn /\ next = Len(cache)
  /\ step[t] = "written" => file.lines = Append(cache, next) /\ ~file.torn /\ next = Len(cache)

Coherent ==
  /\ cache # <<>> /\ step[Runner] # "written" => cache = file.lines
  /\ cache # <<>> /\ stopped = "no" => ~file.torn
  /\ next > 0 /\ stopped = "no" /\ file.lines # <<>> =>
        Len(file.lines) = IF step[Runner] = "written" THEN next + 1 ELSE next

StoreInv ==
  /\ StoreTypeOK
  /\ OneInside
  /\ Sound(file)
  /\ \A t \in Threads : Knows(t)
  /\ Coherent
  /\ NoSeqConflict

-----------------------------------------------------------------------------
(* Records *)

LEMMA RecordsFacts ==
  /\ Records(0) = <<>>
  /\ \A n \in Nat : /\ Records(n) \in Lines
                    /\ Len(Records(n)) = n
                    /\ Append(Records(n), n) = Records(n + 1)
                    /\ \A k \in 0..n : SubSeq(Records(n), 1, k) = Records(k)
<1>1. Records(0) = <<>>
  BY DEF Records
<1>2. ASSUME NEW n \in Nat
      PROVE  Records(n) \in Lines /\ Len(Records(n)) = n
  BY DEF Records, Lines
<1>3. ASSUME NEW n \in Nat
      PROVE  Append(Records(n), n) = Records(n + 1)
  <2>1. Append(Records(n), n) \in Lines /\ Records(n + 1) \in Lines
    BY <1>2 DEF Lines
  <2>2. Len(Append(Records(n), n)) = n + 1 /\ Len(Records(n + 1)) = n + 1
    BY <1>2 DEF Lines
  <2>3. \A i \in 1..(n + 1) : Append(Records(n), n)[i] = Records(n + 1)[i]
    BY <1>2 DEF Lines, Records
  <2> QED
    BY <2>1, <2>2, <2>3, SeqEqual DEF Lines
<1>4. ASSUME NEW n \in Nat, NEW k \in 0..n
      PROVE  SubSeq(Records(n), 1, k) = Records(k)
  <2>1. /\ Len(SubSeq(Records(n), 1, k)) = k
        /\ \A i \in 1..k : SubSeq(Records(n), 1, k)[i] = i - 1
        /\ SubSeq(Records(n), 1, k) \in Lines
    BY <1>2 DEF Lines, Records
  <2>2. Len(Records(k)) = k /\ Records(k) \in Lines /\ \A i \in 1..k : Records(k)[i] = i - 1
    BY <1>2 DEF Records
  <2> QED
    BY <2>1, <2>2, SeqEqual DEF Lines
<1> QED
  BY <1>1, <1>2, <1>3, <1>4

LEMMA LinesFacts ==
  /\ <<>> \in Lines /\ Len(<<>>) = 0
  /\ \A s \in Lines : Len(s) \in Nat /\ (Len(s) = 0 <=> s = <<>>)
  /\ \A s \in Lines, k \in Int : /\ Append(s, k) \in Lines
                              /\ Append(s, k) # <<>>
                              /\ Len(Append(s, k)) = Len(s) + 1
  BY EmptySeq, LenProperties, AppendProperties DEF Lines

\* The next record makes a sound file longer.
LEMMA NextRecord ==
  ASSUME NEW s \in Lines, s = Records(Len(s))
  PROVE  /\ Append(s, Len(s)) = Records(Len(s) + 1)
         /\ Append(s, Len(s)) = Records(Len(Append(s, Len(s))))
<1>1. PICK n \in Nat : n = Len(s)
  BY LinesFacts
<1>2. s = Records(n) /\ Len(Append(s, n)) = n + 1
  BY <1>1, LinesFacts
<1>3. Append(s, n) = Records(n + 1)
  BY <1>2, RecordsFacts
<1> QED
  BY <1>1, <1>2, <1>3

LEMMA ThreadFacts ==
  /\ Runner \in Threads /\ Readers \subseteq Threads
  /\ Runner \notin Readers
  /\ NoOne \notin Threads
  BY StoreAssumption DEF Threads

LEMMA EmptyIsSound ==
  /\ NoFile \in Files /\ Sound(NoFile) /\ NoFile.lines = <<>> /\ ~NoFile.torn
  /\ EmptyFile \in Files /\ Sound(EmptyFile) /\ EmptyFile.lines = <<>>
  BY LinesFacts, RecordsFacts DEF NoFile, EmptyFile, Files, Sound

LEMMA Types ==
  ASSUME StoreInv
  PROVE  /\ file.lines \in Lines /\ cache \in Lines /\ next \in Nat /\ faults \in Nat
         /\ Len(file.lines) \in Nat /\ Len(cache) \in Nat
         /\ file.lines = Records(Len(file.lines))
  BY LinesFacts DEF StoreInv, StoreTypeOK, Files, Sound

LEMMA RunnerKnows ==
  ASSUME StoreInv
  PROVE  /\ Knows(Runner)
         /\ step[Runner] \in {"write", "written"} => next \in Int
  BY ThreadFacts, Types DEF StoreInv

-----------------------------------------------------------------------------
(* One lemma for each action *)

LEMMA InitStore == Init => StoreInv
<1> SUFFICES ASSUME Init PROVE StoreInv
  OBVIOUS
<1>1. StoreTypeOK
  BY EmptyIsSound, LinesFacts DEF Init, StoreTypeOK, Steps, Threads, NoOne
<1>2. OneInside /\ NoSeqConflict
  BY DEF Init, OneInside, NoSeqConflict, Threads
<1>3. Sound(file) /\ Coherent /\ \A t \in Threads : Knows(t)
  BY EmptyIsSound DEF Init, Coherent, Knows
<1> QED
  BY <1>1, <1>2, <1>3 DEF StoreInv

LEMMA OpenStore ==
  ASSUME StoreInv, NEW t \in Threads, Open(t)
  PROVE  StoreInv'
<1> USE DEF StoreInv, Open, Enter, Goto
<1>1. StoreTypeOK'
  BY DEF StoreTypeOK, Steps
<1>2. OneInside' /\ NoSeqConflict'
  BY StoreAssumption DEF StoreTypeOK, OneInside, NoSeqConflict, Threads
<1>3. Sound(file)' /\ Coherent' /\ \A u \in Threads : Knows(u)'
  BY StoreAssumption DEF StoreTypeOK, OneInside, Sound, Coherent, Knows, Threads
<1> QED
  BY <1>1, <1>2, <1>3

LEMMA LoadNothingStore ==
  ASSUME StoreInv, NEW t \in Threads, LoadNothing(t)
  PROVE  StoreInv'
<1> USE DEF StoreInv, LoadNothing, Raise, Leave, Goto
<1>1. StoreTypeOK'
  BY EmptyIsSound, LinesFacts DEF StoreTypeOK, Steps
<1>2. OneInside' /\ NoSeqConflict'
  BY StoreAssumption DEF StoreTypeOK, OneInside, NoSeqConflict, Threads
<1>3. Sound(file)' /\ Coherent' /\ \A u \in Threads : Knows(u)'
  BY StoreAssumption, EmptyIsSound DEF StoreTypeOK, OneInside, Coherent, Knows, Threads
<1> QED
  BY <1>1, <1>2, <1>3

LEMMA LoadLinesStore ==
  ASSUME StoreInv, NEW t \in Threads, LoadLines(t)
  PROVE  StoreInv'
<1> USE DEF StoreInv, LoadLines, Raise, Leave, Goto
<1>0. Readable(file.lines)
  BY DEF Sound, Readable
<1>1. StoreTypeOK'
  <2>0. file \in Files /\ file' = [file EXCEPT !.torn = FALSE]
    BY <1>0 DEF StoreTypeOK, Repaired
  <2>1. file.lines \in Lines /\ file' \in Files
    BY ONLY <2>0 DEF Files
  <2>2. raw' = [raw EXCEPT ![t] = file.lines] /\ step' = [step EXCEPT ![t] = "fill"]
        /\ UNCHANGED <<cache, lock, next, stopped, answer, faults>>
    BY <1>0
  <2>3. raw' \in [Threads -> Lines] /\ step' \in [Threads -> Steps]
    BY <2>1, <2>2 DEF StoreTypeOK, Steps
  <2> QED
    BY <2>1, <2>2, <2>3 DEF StoreTypeOK
<1>2. OneInside' /\ NoSeqConflict'
  BY <1>0, StoreAssumption DEF StoreTypeOK, OneInside, NoSeqConflict, Threads
<1>3. Sound(file)' /\ file'.lines = file.lines /\ ~file'.torn
  <2>1. file.exists
    BY EmptyIsSound DEF Sound
  <2>2. file' = [file EXCEPT !.torn = FALSE]
    BY <1>0 DEF Repaired
  <2>3. file'.exists /\ file'.lines = file.lines /\ ~file'.torn
    BY <2>1, <2>2 DEF StoreTypeOK, Files
  <2> QED
    BY <2>3 DEF Sound
<1>4. Coherent' /\ \A u \in Threads : Knows(u)'
  BY <1>0, <1>3, StoreAssumption DEF StoreTypeOK, OneInside, Coherent, Knows, Threads
<1> QED
  BY <1>1, <1>2, <1>3, <1>4

LEMMA FillStore ==
  ASSUME StoreInv, NEW t \in Threads, Fill(t)
  PROVE  StoreInv'
<1> USE DEF StoreInv, Fill, Goto
<1>1. StoreTypeOK'
  BY LinesFacts DEF StoreTypeOK, Steps
<1>2. OneInside' /\ NoSeqConflict'
  BY StoreAssumption DEF StoreTypeOK, OneInside, NoSeqConflict, Threads
<1>3. Sound(file)' /\ Coherent' /\ \A u \in Threads : Knows(u)'
  BY StoreAssumption DEF StoreTypeOK, OneInside, Sound, Coherent, Knows, Threads
<1> QED
  BY <1>1, <1>2, <1>3

LEMMA ReturnStore ==
  ASSUME StoreInv, NEW r \in Readers, Return(r)
  PROVE  StoreInv'
<1> USE DEF StoreInv, Return, Leave, Goto
<1>1. StoreTypeOK'
  BY ThreadFacts DEF StoreTypeOK, Steps
<1>2. OneInside' /\ NoSeqConflict'
  BY ThreadFacts DEF StoreTypeOK, OneInside, NoSeqConflict
<1>3. Sound(file)' /\ Coherent' /\ \A u \in Threads : Knows(u)'
  BY ThreadFacts DEF StoreTypeOK, OneInside, Sound, Coherent, Knows
<1> QED
  BY <1>1, <1>2, <1>3

LEMMA CreateGameStore ==
  ASSUME StoreInv, CreateGame
  PROVE  StoreInv'
<1> USE DEF StoreInv, CreateGame, Enter, Goto
<1>a. ~Blocking(file) => file.lines = <<>> /\ cache = <<>>
  BY EmptyIsSound, ThreadFacts DEF StoreTypeOK, Sound, Coherent, Blocking
<1>1. StoreTypeOK'
  BY ThreadFacts, EmptyIsSound DEF StoreTypeOK, Steps
<1>2. OneInside' /\ NoSeqConflict'
  BY ThreadFacts DEF StoreTypeOK, OneInside, NoSeqConflict
<1>3. Sound(file)' /\ Coherent' /\ \A u \in Threads : Knows(u)'
  BY ThreadFacts, EmptyIsSound, LinesFacts, <1>a DEF StoreTypeOK, OneInside, Sound, Coherent, Knows
<1> QED
  BY <1>1, <1>2, <1>3

LEMMA LearnStore ==
  ASSUME StoreInv, Learn
  PROVE  StoreInv'
<1> USE DEF StoreInv, Learn, Leave, Goto
<1>1. StoreTypeOK'
  BY ThreadFacts, LinesFacts DEF StoreTypeOK, Steps
<1>2. OneInside' /\ NoSeqConflict'
  BY ThreadFacts DEF StoreTypeOK, OneInside, NoSeqConflict
<1>3. Sound(file)' /\ Coherent' /\ \A u \in Threads : Knows(u)'
  BY ThreadFacts DEF StoreTypeOK, OneInside, Sound, Coherent, Knows
<1> QED
  BY <1>1, <1>2, <1>3

LEMMA CheckAppendStore ==
  ASSUME StoreInv, CheckAppend
  PROVE  StoreInv'
<1> USE DEF StoreInv, CheckAppend, Raise, Leave, Goto
<1>a. next = Len(cache) /\ cache = file.lines /\ ~file.torn
  BY ThreadFacts DEF StoreTypeOK, OneInside, Coherent, Knows
<1>1. StoreTypeOK'
  BY ThreadFacts DEF StoreTypeOK, Steps
<1>2. OneInside' /\ NoSeqConflict'
  BY ThreadFacts, <1>a DEF StoreTypeOK, OneInside, NoSeqConflict
<1>3. Sound(file)' /\ Coherent' /\ \A u \in Threads : Knows(u)'
  BY ThreadFacts, <1>a DEF StoreTypeOK, OneInside, Sound, Coherent, Knows
<1> QED
  BY <1>1, <1>2, <1>3

LEMMA WriteLineStore ==
  ASSUME StoreInv, WriteLine
  PROVE  StoreInv'
<1> USE DEF StoreInv, WriteLine, Goto
<1>a. /\ file' \in Files /\ file'.exists /\ ~file'.torn
      /\ file'.lines = Append(file.lines, next)
  <2>1. ~file.torn /\ next \in Int /\ file.lines \in Lines
    BY RunnerKnows, Types DEF Knows
  <2>2. file' = [exists |-> TRUE, lines |-> Append(file.lines, next), torn |-> FALSE]
    BY <2>1 DEF WithLine
  <2>3. Append(file.lines, next) \in Lines
    BY <2>1, LinesFacts
  <2> QED
    BY <2>2, <2>3 DEF Files
<1>b. /\ file'.lines = Records(Len(file'.lines))
       /\ Len(file'.lines) = next + 1
  <2>1. next = Len(file.lines) /\ file.lines \in Lines /\ file.lines = Records(Len(file.lines))
    BY RunnerKnows, Types DEF Knows
  <2>2. /\ Append(file.lines, next) = Records(Len(Append(file.lines, next)))
        /\ Len(Append(file.lines, next)) = next + 1
    <3>1. next \in Int /\ Len(Append(file.lines, next)) = Len(file.lines) + 1
      BY <2>1, Types, LinesFacts
    <3>2. Append(file.lines, Len(file.lines)) = Records(Len(Append(file.lines, Len(file.lines))))
      BY <2>1, NextRecord
    <3> QED
      BY <2>1, <3>1, <3>2
  <2> QED
    BY <1>a, <2>2
<1>1. StoreTypeOK'
  BY ThreadFacts, Types, <1>a DEF StoreTypeOK, Steps
<1>2. OneInside' /\ NoSeqConflict'
  BY ThreadFacts DEF StoreTypeOK, OneInside, NoSeqConflict
<1>3. Sound(file)' /\ Coherent' /\ \A u \in Threads : Knows(u)'
  BY ThreadFacts, <1>a, <1>b, LinesFacts DEF StoreTypeOK, OneInside, Sound, Coherent, Knows
<1> QED
  BY <1>1, <1>2, <1>3

LEMMA WriteFailsStore ==
  ASSUME StoreInv, WriteFails
  PROVE  StoreInv'
<1> USE DEF StoreInv, WriteFails, Leave, Goto
<1>a. file' \in Files /\ file'.lines = file.lines /\ (file'.exists \/ file' = file)
  BY DEF StoreTypeOK, CutShort, Files
<1>b. faults' \in Nat
  BY Types
<1>1. StoreTypeOK'
  BY ThreadFacts, <1>b, <1>a DEF StoreTypeOK, Steps
<1>2. OneInside' /\ NoSeqConflict'
  BY ThreadFacts DEF StoreTypeOK, OneInside, NoSeqConflict
<1>3. Sound(file)' /\ Coherent' /\ \A u \in Threads : Knows(u)'
  BY ThreadFacts, <1>a DEF StoreTypeOK, OneInside, Sound, Coherent, Knows
<1> QED
  BY <1>1, <1>2, <1>3

LEMMA CacheLineStore ==
  ASSUME StoreInv, CacheLine
  PROVE  StoreInv'
<1> USE DEF StoreInv, CacheLine, Leave, Goto
<1>a. /\ cache' = file.lines /\ cache' \in Lines /\ ~file.torn
      /\ next' = Len(file.lines) /\ next' \in Nat
  <2>1. file.lines = Append(cache, next) /\ next = Len(cache) /\ ~file.torn
    BY ThreadFacts DEF Knows
  <2>2. next = 0 => file.lines = <<0>>
    <3>1. next = 0 => cache = <<>>
      BY <2>1, LinesFacts DEF StoreTypeOK
    <3> QED
      BY <2>1, <3>1
  <2>3. /\ cache' = file.lines
        /\ cache' \in Lines /\ next \in Nat
        /\ next' = next + 1
    BY <2>1, <2>2 DEF StoreTypeOK, Files
  <2>4. Len(file.lines) = next + 1
    BY <2>1, Types, LinesFacts
  <2> QED
    BY <2>1, <2>3, <2>4
<1>1. StoreTypeOK'
  BY ThreadFacts, <1>a, LinesFacts DEF StoreTypeOK, Steps
<1>2. OneInside' /\ NoSeqConflict'
  BY ThreadFacts DEF StoreTypeOK, OneInside, NoSeqConflict
<1>3. Sound(file)' /\ Coherent' /\ \A u \in Threads : Knows(u)'
  BY ThreadFacts, <1>a, LinesFacts DEF StoreTypeOK, OneInside, Sound, Coherent, Knows
<1> QED
  BY <1>1, <1>2, <1>3

LEMMA DeleteGameStore ==
  ASSUME StoreInv, NEW r \in Readers, DeleteGame(r)
  PROVE  StoreInv'
<1> USE DEF StoreInv, DeleteGame, DropCache, Enter, Goto
<1>1. StoreTypeOK'
  BY ThreadFacts, LinesFacts DEF StoreTypeOK, Steps
<1>2. OneInside' /\ NoSeqConflict'
  BY ThreadFacts DEF StoreTypeOK, OneInside, NoSeqConflict
<1>3. Sound(file)' /\ Coherent' /\ \A u \in Threads : Knows(u)'
  BY ThreadFacts DEF StoreTypeOK, OneInside, Sound, Coherent, Knows
<1> QED
  BY <1>1, <1>2, <1>3

LEMMA UnlinkStore ==
  ASSUME StoreInv, NEW r \in Readers, Unlink(r)
  PROVE  StoreInv'
<1> USE DEF StoreInv, Unlink, Leave, Goto
<1>1. StoreTypeOK'
  BY ThreadFacts, EmptyIsSound DEF StoreTypeOK, Steps
<1>2. OneInside' /\ NoSeqConflict'
  BY ThreadFacts DEF StoreTypeOK, OneInside, NoSeqConflict
<1>3. Sound(file)' /\ Coherent' /\ \A u \in Threads : Knows(u)'
  BY ThreadFacts, EmptyIsSound DEF StoreTypeOK, OneInside, Sound, Coherent, Knows
<1> QED
  BY <1>1, <1>2, <1>3

LEMMA DiskFailsStore ==
  ASSUME StoreInv, NEW t \in Threads, DiskFails(t)
  PROVE  StoreInv'
<1> USE DEF StoreInv, DiskFails, Raise, Leave, Goto
<1>b. faults' \in Nat
  BY Types
<1>1. StoreTypeOK'
  BY ThreadFacts, <1>b DEF StoreTypeOK, Steps
<1>2. OneInside' /\ NoSeqConflict'
  BY ThreadFacts DEF StoreTypeOK, OneInside, NoSeqConflict
<1>3. Sound(file)' /\ Coherent' /\ \A u \in Threads : Knows(u)'
  BY ThreadFacts DEF StoreTypeOK, OneInside, Sound, Coherent, Knows
<1> QED
  BY <1>1, <1>2, <1>3

\* Whatever a failure leaves is sound, and at most one record longer.
Left(f) == f \in Files /\ Sound(f) /\ Len(f.lines) <= Len(file.lines) + 1

LEMMA RemainsLeft ==
  ASSUME StoreInv, NEW f \in Remains
  PROVE  Left(f)
<1>1. Left(file)
  <2>1. Len(file.lines) <= Len(file.lines) + 1
    BY Types
  <2> QED
    BY <2>1 DEF StoreInv, StoreTypeOK, Left
<1>2. ASSUME f \in CutShort(file)
      PROVE  Left(f)
  <2>1. f \in Files /\ f.lines = file.lines /\ (f = file \/ f.exists)
    BY <1>2 DEF CutShort, StoreInv, StoreTypeOK, Files
  <2> QED
    BY <1>1, <2>1 DEF Left, Sound
<1>3. ASSUME step[Runner] = "write", f = WithLine(file, next)
      PROVE  Left(f)
  <2>1. ~file.torn /\ next = Len(file.lines)
    BY <1>3, RunnerKnows DEF Knows
  <2>2. f = [exists |-> TRUE, lines |-> Append(file.lines, Len(file.lines)), torn |-> FALSE]
    BY <1>3, <2>1 DEF WithLine
  <2>3. /\ Append(file.lines, Len(file.lines)) \in Lines
        /\ Len(Append(file.lines, Len(file.lines))) = Len(file.lines) + 1
        /\ Append(file.lines, Len(file.lines)) = Records(Len(Append(file.lines, Len(file.lines))))
    <3>1. /\ file.lines \in Lines /\ Len(file.lines) \in Int
          /\ file.lines = Records(Len(file.lines))
      BY Types
    <3>2. /\ Append(file.lines, Len(file.lines)) \in Lines
          /\ Len(Append(file.lines, Len(file.lines))) = Len(file.lines) + 1
      BY <3>1, LinesFacts
    <3> QED
      BY <3>1, <3>2, NextRecord
  <2> QED
    BY <2>2, <2>3, Types DEF Left, Sound, Files
<1> QED
  BY <1>1, <1>2, <1>3 DEF Remains

LEMMA TruncationsLeft ==
  ASSUME StoreInv, NEW f, Left(f), NEW g \in Truncations(f)
  PROVE  Left(g)
<1>1. CASE g = f
  BY <1>1
<1>2. ASSUME NEW n \in 0..(Len(f.lines) - 1), NEW bytes \in BOOLEAN,
             g = [exists |-> TRUE, lines |-> SubSeq(f.lines, 1, n), torn |-> bytes]
      PROVE  Left(g)
  <2>1. Len(f.lines) \in Nat /\ f.lines = Records(Len(f.lines))
    BY LinesFacts DEF Left, Files, Sound
  <2>2. n \in Nat /\ n \in 0..Len(f.lines) /\ n <= Len(file.lines) + 1
    BY <2>1, Types DEF Left
  <2>3. SubSeq(Records(Len(f.lines)), 1, n) = Records(n)
    BY <2>1, <2>2, RecordsFacts
  <2>4. g.lines = Records(n) /\ g.exists
    BY <1>2, <2>1, <2>3
  <2>5. Records(n) \in Lines /\ Len(Records(n)) = n
    BY <2>2, RecordsFacts
  <2>6. g \in Files
    BY <1>2, <2>1, <2>3, <2>5 DEF Files
  <2> QED
    BY <2>2, <2>4, <2>5, <2>6 DEF Left, Sound
<1> QED
  BY <1>1, <1>2 DEF Truncations

\* The files a crash or a power failure may leave.
LEMMA FailureLeaves ==
  ASSUME StoreInv, Crash \/ PowerFailure
  PROVE  /\ Left(file')
         /\ \E files : Restart(files)
<1>1. CASE Crash
  <2>1. file' \in Remains
    BY <1>1 DEF Crash, Restart
  <2> QED
    BY <1>1, <2>1, RemainsLeft DEF Crash
<1>2. CASE PowerFailure
  <2>1. PICK f \in Remains : file' \in Truncations(f)
    BY <1>2 DEF PowerFailure, Restart
  <2> QED
    BY <1>2, <2>1, RemainsLeft, TruncationsLeft DEF PowerFailure
<1> QED
  BY <1>1, <1>2

LEMMA RestartStore ==
  ASSUME StoreInv, Crash \/ PowerFailure
  PROVE  StoreInv'
<1>1. PICK files : Restart(files)
  BY FailureLeaves
<1> USE <1>1 DEF Restart
<1>2. file' \in Files /\ Sound(file)'
  BY FailureLeaves DEF Left, Sound
<1>3. faults' \in Nat
  BY Types
<1>4. StoreTypeOK'
  BY <1>2, <1>3, LinesFacts, ThreadFacts DEF StoreTypeOK, Steps
<1>5. OneInside' /\ NoSeqConflict'
  BY ThreadFacts DEF OneInside, NoSeqConflict
<1>6. Coherent' /\ \A u \in Threads : Knows(u)'
  BY ThreadFacts DEF Coherent, Knows
<1> QED
  BY <1>2, <1>4, <1>5, <1>6 DEF StoreInv

-----------------------------------------------------------------------------
(* The invariant, and what follows from it *)

LEMMA StutterStore ==
  ASSUME StoreInv, UNCHANGED vars
  PROVE  StoreInv'
<1> USE DEF vars
<1>1. StoreTypeOK' /\ OneInside' /\ NoSeqConflict'
  BY DEF StoreInv, StoreTypeOK, OneInside, NoSeqConflict
<1>2. Sound(file)' /\ Coherent' /\ \A u \in Threads : Knows(u)'
  BY DEF StoreInv, Sound, Coherent, Knows
<1> QED
  BY <1>1, <1>2 DEF StoreInv

LEMMA StepStore ==
  ASSUME StoreInv, [Next]_vars
  PROVE  StoreInv'
<1>1. ASSUME NEW t \in Threads, Open(t) \/ Load(t) \/ DiskFails(t)
      PROVE  StoreInv'
  BY <1>1, OpenStore, LoadNothingStore, LoadLinesStore, FillStore, DiskFailsStore DEF Load
<1>2. ASSUME NEW r \in Readers, Return(r) \/ DeleteGame(r) \/ Unlink(r)
      PROVE  StoreInv'
  BY <1>2, ReturnStore, DeleteGameStore, UnlinkStore
<1>3. CASE CreateGame \/ Learn \/ CheckAppend
  BY <1>3, CreateGameStore, LearnStore, CheckAppendStore
<1>4. CASE WriteLine \/ WriteFails \/ CacheLine
  BY <1>4, WriteLineStore, WriteFailsStore, CacheLineStore
<1>5. CASE Crash \/ PowerFailure
  BY <1>5, RestartStore
<1>6. CASE UNCHANGED vars
  BY <1>6, StutterStore
<1> QED
  BY <1>1, <1>2, <1>3, <1>4, <1>5, <1>6 DEF Next

\* Every state that the store reaches satisfies the invariant.
THEOREM StoreInvHolds == Spec => []StoreInv
<1>1. Init => StoreInv
  BY InitStore
<1>2. StoreInv /\ [Next]_vars => StoreInv'
  BY StepStore
<1> QED
  BY <1>1, <1>2, PTL DEF Spec

\* _load_from_disk never finds a file corrupt that the store itself has written,
\* after any number of crashes, failed writes and power failures.
THEOREM FilesReadable == Spec => []FileReadable
<1>1. StoreInv => FileReadable
  BY DEF StoreInv, Sound, FileReadable, Readable
<1> QED
  BY <1>1, StoreInvHolds, PTL

\* Between two calls a cached game is what its file says, for any number of
\* threads that read and delete it.
THEOREM CacheCoherent == Spec => []CacheIsFile
<1>1. StoreInv => CacheIsFile
  BY ThreadFacts DEF StoreInv, OneInside, Coherent, CacheIsFile
<1> QED
  BY <1>1, StoreInvHolds, PTL

\* No reader makes the runner's append fail the check of its seq (issue #138).
THEOREM AppendsInSeq == Spec => []NoSeqConflict
<1>1. StoreInv => NoSeqConflict
  BY DEF StoreInv
<1> QED
  BY <1>1, StoreInvHolds, PTL

-----------------------------------------------------------------------------
(* The store is a log *)

LEMMA PrefixOfNext ==
  ASSUME StoreInv, Left(file')
  PROVE  file'.lines \in Log!Prefixes(Log!WithNext)
<1> DEFINE n == Len(file.lines)
           k == Len(file'.lines)
<1>1. n \in Nat /\ file.lines \in Lines /\ file.lines = Records(n)
  BY Types
<1>2. k \in Nat /\ k <= n + 1 /\ file'.lines = Records(k)
  BY LinesFacts DEF Left, Sound, Files
<1>3. Append(file.lines, n) = Records(n + 1)
  BY <1>1, NextRecord
<1>4. Len(Records(n + 1)) = n + 1 /\ SubSeq(Records(n + 1), 1, k) = Records(k)
  <2>1. n + 1 \in Nat /\ k \in 0..(n + 1)
    BY <1>1, <1>2
  <2> QED
    BY <2>1, RecordsFacts
<1> QED
  <2>1. Log!WithNext = Records(n + 1) /\ k \in 0..Len(Log!WithNext)
    BY <1>1, <1>2, <1>3, <1>4 DEF Log!WithNext
  <2>2. file'.lines = SubSeq(Log!WithNext, 1, k)
    BY <1>2, <1>4, <2>1
  <2> HIDE DEF k
  <2> QED
    BY <2>1, <2>2 DEF Log!Prefixes

LEMMA LogInit == Init => Log!Init
  BY EmptyIsSound DEF Init, Log!Init, Log!NotFound

\* Every step of the store extends, reads, deletes or cuts the log, or leaves it
\* as it is.
LEMMA LogStep ==
  ASSUME StoreInv, [Next]_vars
  PROVE  [Log!Next]_Log!vars
<1> USE DEF Log!vars
<1>1. ASSUME NEW t \in Threads, Open(t) \/ Fill(t) \/ DiskFails(t)
      PROVE  UNCHANGED Log!vars
  BY <1>1 DEF Open, Fill, DiskFails
<1>2. ASSUME NEW t \in Threads, LoadNothing(t)
      PROVE  [Log!Next]_Log!vars
  <2>1. file'.lines = file.lines /\ file.lines = <<>>
    BY <1>2, EmptyIsSound DEF LoadNothing
  <2>2. CASE t \in Readers
    <3>1. answer' = [answer EXCEPT ![t] = file.lines]
      BY <1>2, <2>1, <2>2 DEF LoadNothing, StoreInv, StoreTypeOK
    <3> QED
      BY <2>1, <2>2, <3>1 DEF Log!Next, Log!Read
  <2>3. CASE t = Runner
    <3>1. answer' = answer
      BY <1>2, <2>3, ThreadFacts DEF LoadNothing, StoreInv, StoreTypeOK
    <3> QED
      BY <2>1, <3>1
  <2> QED
    BY <2>2, <2>3 DEF Threads
<1>3. ASSUME NEW t \in Threads, LoadLines(t)
      PROVE  UNCHANGED Log!vars
  BY <1>3 DEF LoadLines, Repaired, StoreInv, StoreTypeOK, Files
<1>4. ASSUME NEW r \in Readers, Return(r)
      PROVE  Log!Next
  <2>1. cache = file.lines
    BY <1>4, ThreadFacts DEF Return, StoreInv, OneInside, Coherent, Knows
  <2> QED
    BY <1>4, <2>1 DEF Return, Log!Next, Log!Read
<1>5. ASSUME NEW r \in Readers, DeleteGame(r)
      PROVE  UNCHANGED Log!vars
  BY <1>5 DEF DeleteGame
<1>6. ASSUME NEW r \in Readers, Unlink(r)
      PROVE  Log!Next
  BY <1>6, EmptyIsSound DEF Unlink, Log!Next, Log!Delete, Log!NotFound
<1>7. CASE CreateGame
  <2>1. ~Blocking(file) => file.lines = <<>>
    BY EmptyIsSound DEF Blocking, StoreInv, Sound
  <2> QED
    BY <1>7, <2>1, EmptyIsSound DEF CreateGame
<1>8. CASE Learn \/ CheckAppend \/ CacheLine
  BY <1>8 DEF Learn, CheckAppend, CacheLine
<1>9. CASE WriteLine
  <2>1. ~file.torn /\ next = Len(file.lines)
    BY <1>9, RunnerKnows DEF WriteLine, Knows
  <2>2. file' = [exists |-> TRUE, lines |-> Append(file.lines, Len(file.lines)), torn |-> FALSE]
    BY <1>9, <2>1 DEF WriteLine, WithLine
  <2> QED
    BY <1>9, <2>2 DEF WriteLine, Log!Next, Log!Extend, Log!WithNext
<1>10. CASE WriteFails
  BY <1>10 DEF WriteFails, CutShort, StoreInv, StoreTypeOK, Files
<1>11. CASE Crash \/ PowerFailure
  <2>1. Left(file') /\ \E files : Restart(files)
    BY <1>11, FailureLeaves
  <2> QED
    BY <2>1, PrefixOfNext DEF Restart, Log!Next, Log!Restart, Log!NotFound
<1>12. CASE UNCHANGED vars
  BY <1>12 DEF vars
<1> QED
  BY <1>1, <1>2, <1>3, <1>4, <1>5, <1>6, <1>7, <1>8, <1>9, <1>10, <1>11, <1>12 DEF Next, Load

\* The store, with its threads, cache, lock, repairs and failures, implements the
\* atomic log that EventLog describes.
THEOREM StoreIsLog == Spec => LogImplemented
<1>1. Init => Log!Init
  BY LogInit
<1>2. StoreInv /\ [Next]_vars => [Log!Next]_Log!vars
  BY LogStep
<1> QED
  BY <1>1, <1>2, StoreInvHolds, PTL DEF Spec, LogImplemented, Log!Spec

=============================================================================
