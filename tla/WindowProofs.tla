------------------------------ MODULE WindowProofs ------------------------------
(***************************************************************************)
(* Theorems about the windows in which players act, for any number of      *)
(* seats, pages, windows, submissions, rejections and broken connections:  *)
(* what the runner tells a player about its submission is true, and then   *)
(* what a page shows of the windows of its seat.                           *)
(***************************************************************************)
EXTENDS PlayerTabsProps, PlayerWindowProps, SequenceTheorems, WellFoundedInduction, TLAPS

-----------------------------------------------------------------------------
(***************************************************************************)
(* The runner and the ports.  A submission travels through three places:   *)
(* the future of its port (pending), the list that gather fills (results), *)
(* and the runner's hand (given).  The invariant says that until the       *)
(* runner has answered it, the future that is waiting for the answer       *)
(* (outcome) is its own.                                                   *)
(***************************************************************************)

Verdicts == {"none", "ok", "rejected", "closed"}
Submissions(v) ==
  [seat : Seats, tag : Nat, window : 1..v, applied : BOOLEAN, verdict : Verdicts]

\* A submission that waits for its answer, and the seat that waits with it.
Unanswered(s, c) ==
  c \in DOMAIN calls /\ outcome[s] = c /\ calls[c].verdict = "none"

Driving == {"ask", "judge", "drive", "default"}

\* Seats whose gathered result the runner has yet to look at.
Unseen(s) == s \in todo /\ (pc \in {"gather", "next"} \/ (pc \in Driving /\ s # Seat))

OutcomesInv == \A s \in Seats : outcome[s] # None => calls[outcome[s]].seat = s

PromptsInv == \A s \in Seats : prompt[s] # None =>
  /\ prompt[s] = version
  /\ \/ pc = "gather" /\ s \in todo /\ results[s] = None
     \/ pc = "ask" /\ s = Seat

PendingInv == \A s \in Seats : pending[s] # None =>
  prompt[s] # None /\ Unanswered(s, pending[s])

ResultsInv ==
  /\ \A s \in Seats : results[s] \in DOMAIN calls \cup {None, Late}
  /\ \A s \in Seats : Unseen(s) /\ results[s] \notin {None, Late} => Unanswered(s, results[s])
  /\ together /\ pc # "gather" => \A s \in todo : results[s] # None
  /\ ~together => results = Nothing

RunnerInv ==
  /\ pc = "top" => ~together
  /\ pc = "gather" => together
  /\ pc \in Driving => todo # {}
  /\ pc \in {"ask", "judge"} => rejections < MAX_REJECTIONS
  /\ pc = "judge" => Unanswered(Seat, given)

CallsInv ==
  /\ Len(calls) <= MaxCalls
  /\ \A c \in DOMAIN calls : calls[c].tag # None => calls[c].tag >= calls[c].window

WindowInv ==
  /\ TypeOK /\ OutcomesInv /\ PromptsInv /\ PendingInv /\ ResultsInv
  /\ RunnerInv /\ CallsInv /\ VerdictTrue

-----------------------------------------------------------------------------
(* Facts about the state *)

\* The runner's seat is one of those it has yet to come to.
LEMMA SeatFacts ==
  ASSUME todo \subseteq Seats, todo # {}
  PROVE  Seat \in todo /\ Seat \in Seats
<1> DEFINE less == {p \in Nat \X Nat : p[1] < p[2]}
<1>1. IsWellFoundedOn(less, Nat)
  BY NatLessThanWellFounded, Zenon DEF OpToRel
<1>2. todo \subseteq Nat
  BY WindowAssumption
<1>3. PICK x \in todo : \A y \in todo : ~(<<y, x>> \in less)
  BY <1>1, <1>2, WFMin, Zenon
<1>4. ASSUME NEW y \in todo PROVE x =< y
  <2>1. x \in Nat /\ y \in Nat
    BY <1>2
  <2>2. y < x => <<y, x>> \in less
    BY <2>1
  <2> QED
    BY <1>3, <2>1, <2>2
<1> QED
  BY <1>4 DEF Seat, Min

LEMMA Limits ==
  /\ MAX_REJECTIONS \in Nat /\ 0 < MAX_REJECTIONS /\ 0 \in 0..MAX_REJECTIONS
  /\ MaxCalls \in Nat
  BY WindowAssumption

LEMMA SubmissionsGrow ==
  ASSUME NEW v \in Nat, NEW w \in Nat, v =< w, NEW q \in Seq(Submissions(v))
  PROVE  q \in Seq(Submissions(w))
<1>1. Submissions(v) \subseteq Submissions(w)
  BY DEF Submissions
<1> QED
  BY <1>1

LEMMA Types ==
  ASSUME TypeOK
  PROVE  /\ version \in Nat \ {0} /\ opened \in 1..version /\ windows \in Nat
         /\ calls \in Seq(Submissions(version))
         /\ Len(calls) \in Nat /\ DOMAIN calls = 1..Len(calls)
         /\ \A c \in DOMAIN calls : calls[c] \in Submissions(version)
         /\ None \notin DOMAIN calls
<1>1. calls \in Seq(Submissions(version))
  BY DEF TypeOK, Submissions, Verdicts
<1> QED
  BY <1>1, LenProperties, ElementOfSeq DEF TypeOK, None

\* To answer a future changes one verdict, of a submission without one.
LEMMA ToldFacts ==
  ASSUME TypeOK, NEW s \in Seats, NEW how \in Verdicts \ {"none"}
  PROVE  /\ Told(s, how) \in Seq(Submissions(version))
         /\ DOMAIN Told(s, how) = DOMAIN calls
         /\ Len(Told(s, how)) = Len(calls)
         /\ \A c \in DOMAIN calls :
              /\ Told(s, how)[c] \in Submissions(version)
              /\ Told(s, how)[c].seat = calls[c].seat
              /\ Told(s, how)[c].tag = calls[c].tag
              /\ Told(s, how)[c].window = calls[c].window
              /\ Told(s, how)[c].applied = calls[c].applied
              /\ Told(s, how)[c].verdict = IF c = outcome[s] /\ calls[c].verdict = "none"
                                             THEN how ELSE calls[c].verdict
<1> DEFINE t == Told(s, how)
<1>1. DOMAIN calls = 1..Len(calls) /\ Len(calls) \in Nat
  BY Types
<1>2. DOMAIN t = 1..Len(calls)
  BY <1>1 DEF Told
<1>3. ASSUME NEW c \in DOMAIN calls
      PROVE  /\ t[c] \in Submissions(version)
             /\ t[c].seat = calls[c].seat /\ t[c].tag = calls[c].tag
             /\ t[c].window = calls[c].window /\ t[c].applied = calls[c].applied
             /\ t[c].verdict = IF c = outcome[s] /\ calls[c].verdict = "none"
                                 THEN how ELSE calls[c].verdict
  <2>1. calls[c] \in Submissions(version)
    BY Types
  <2>2. t[c] = IF c = outcome[s] /\ calls[c].verdict = "none"
                 THEN [calls[c] EXCEPT !.verdict = how] ELSE calls[c]
    BY DEF Told
  <2> QED
    BY <2>1, <2>2 DEF Submissions
<1>4. t \in [1..Len(calls) -> Submissions(version)]
  BY <1>1, <1>2, <1>3 DEF Told
<1>5. t \in Seq(Submissions(version))
  BY <1>1, <1>4, SeqDef
<1>6. Len(t) = Len(calls)
  BY <1>1, <1>2, <1>5, LenProperties
<1> QED
  BY <1>1, <1>2, <1>3, <1>5, <1>6


\* The runner drives one of the seats it has yet to come to.
LEMMA DrivenSeat ==
  ASSUME TypeOK, RunnerInv, pc \in Driving
  PROVE  Seat \in todo /\ Seat \in Seats
  BY SeatFacts DEF TypeOK, RunnerInv

\* Nobody has a prompt while the runner is not waiting.
LEMMA NoPrompts ==
  ASSUME TypeOK, PromptsInv, PendingInv, pc \notin {"gather", "ask"}
  PROVE  \A s \in Seats : prompt[s] = None /\ pending[s] = None
  BY DEF PromptsInv, PendingInv

-----------------------------------------------------------------------------
(* One lemma for each action *)

LEMMA InitWindow == Init => WindowInv
<1> SUFFICES ASSUME Init PROVE WindowInv
  OBVIOUS
<1>1. calls = <<>> /\ calls \in Seq(Submissions(1)) /\ Len(calls) = 0 /\ DOMAIN calls = {}
  BY EmptySeq DEF Init
<1>2. TypeOK
  <2>1. Nothing \in [Seats -> 0..0] /\ 0 \in 0..MAX_REJECTIONS
    BY Limits DEF Nothing, None
  <2>2. /\ results \in [Seats -> Nat] /\ prompt \in [Seats -> 0..version]
        /\ pending \in [Seats -> 0..Len(calls)] /\ outcome \in [Seats -> 0..Len(calls)]
        /\ rejections \in 0..MAX_REJECTIONS /\ given \in 0..Len(calls)
    BY <1>1, <2>1 DEF Init, None
  <2>3. version \in Nat \ {0} /\ opened \in 1..version /\ windows \in Nat
    BY DEF Init
  <2>4. /\ expected \subseteq Seats /\ todo \subseteq Seats
        /\ simultaneous \in BOOLEAN /\ together \in BOOLEAN /\ expired \in BOOLEAN
        /\ pc = "top"
    BY DEF Init
  <2>5. calls \in Seq([seat : Seats, tag : Nat, window : 1..version, applied : BOOLEAN,
                      verdict : {"none", "ok", "rejected", "closed"}])
    BY <1>1 DEF Init, Submissions, Verdicts
  <2> QED
    BY <2>2, <2>3, <2>4, <2>5 DEF TypeOK
<1>3. OutcomesInv /\ PromptsInv /\ PendingInv /\ RunnerInv /\ CallsInv /\ VerdictTrue
  BY <1>1, Limits
  DEF Init, Nothing, OutcomesInv, PromptsInv, PendingInv, RunnerInv, CallsInv, VerdictTrue, Driving
<1>4. ResultsInv
  BY <1>1 DEF Init, Nothing, ResultsInv
<1> QED
  BY <1>2, <1>3, <1>4 DEF WindowInv

LEMMA OpenTogetherWindow == WindowInv /\ OpenTogether => WindowInv'
<1> SUFFICES ASSUME WindowInv, OpenTogether PROVE WindowInv'
  OBVIOUS
<1> USE DEF WindowInv, OpenTogether, Arm, engine
<1>1. TypeOK'
  BY DEF TypeOK, None
<1>2. OutcomesInv' /\ CallsInv' /\ VerdictTrue'
  BY DEF OutcomesInv, CallsInv, VerdictTrue
<1>3. results = Nothing
  BY DEF ResultsInv, RunnerInv
<1>4. PromptsInv' /\ PendingInv'
  BY <1>3, NoPrompts DEF TypeOK, PromptsInv, PendingInv, Nothing
<1>5. ResultsInv'
  BY <1>3 DEF ResultsInv, Nothing
<1>6. RunnerInv'
  BY DEF RunnerInv, Driving
<1> QED
  BY <1>1, <1>2, <1>4, <1>5, <1>6

LEMMA OpenInTurnWindow == WindowInv /\ OpenInTurn => WindowInv'
<1> SUFFICES ASSUME WindowInv, OpenInTurn PROVE WindowInv'
  OBVIOUS
<1> USE DEF WindowInv, OpenInTurn, engine, ports
<1>1. TypeOK'
  BY DEF TypeOK
<1>2. OutcomesInv' /\ CallsInv' /\ VerdictTrue'
  BY DEF OutcomesInv, CallsInv, VerdictTrue
<1>3. ~together /\ results = Nothing
  BY DEF ResultsInv, RunnerInv
<1>4. PromptsInv' /\ PendingInv'
  BY NoPrompts DEF TypeOK, PromptsInv, PendingInv
<1>5. ResultsInv'
  BY <1>3 DEF ResultsInv, Nothing
<1>6. RunnerInv'
  BY <1>3 DEF RunnerInv, Driving
<1> QED
  BY <1>1, <1>2, <1>4, <1>5, <1>6

LEMMA WindowOverWindow == WindowInv /\ WindowOver => WindowInv'
<1> SUFFICES ASSUME WindowInv, WindowOver PROVE WindowInv'
  OBVIOUS
<1> USE DEF WindowInv, WindowOver, engine, ports
<1>1. TypeOK'
  <2>1. results' \in [Seats -> Nat] /\ rejections' \in 0..MAX_REJECTIONS
    BY Limits DEF Nothing, None
  <2> QED
    BY <2>1 DEF TypeOK
<1>2. OutcomesInv' /\ CallsInv' /\ VerdictTrue'
  BY DEF OutcomesInv, CallsInv, VerdictTrue
<1>3. PromptsInv' /\ PendingInv'
  BY NoPrompts DEF TypeOK, PromptsInv, PendingInv
<1>4. ResultsInv' /\ RunnerInv'
  BY DEF ResultsInv, RunnerInv, Nothing, Driving
<1> QED
  BY <1>1, <1>2, <1>3, <1>4

LEMMA SkipWindow == WindowInv /\ Skip => WindowInv'
<1> SUFFICES ASSUME WindowInv, Skip PROVE WindowInv'
  OBVIOUS
<1> USE DEF WindowInv, Skip, engine, ports
<1>1. TypeOK'
  BY DEF TypeOK
<1>2. OutcomesInv' /\ CallsInv' /\ VerdictTrue'
  BY DEF OutcomesInv, CallsInv, VerdictTrue
<1>3. PromptsInv' /\ PendingInv'
  BY NoPrompts DEF TypeOK, PromptsInv, PendingInv
<1>4. \A s \in Seats : Unseen(s)' => Unseen(s)
  BY DEF Unseen, Driving
<1>5. ResultsInv' /\ RunnerInv'
  BY <1>4 DEF ResultsInv, RunnerInv, Driving, Unanswered
<1> QED
  BY <1>1, <1>2, <1>3, <1>5

LEMMA GatheredWindow == WindowInv /\ Gathered => WindowInv'
<1> SUFFICES ASSUME WindowInv, Gathered PROVE WindowInv'
  OBVIOUS
<1> USE DEF WindowInv, Gathered, engine, ports
<1>1. TypeOK'
  BY DEF TypeOK
<1>2. OutcomesInv' /\ CallsInv' /\ VerdictTrue'
  BY DEF OutcomesInv, CallsInv, VerdictTrue
<1>3. PromptsInv' /\ PendingInv'
  BY DEF TypeOK, PromptsInv, PendingInv
<1>4. \A s \in Seats : Unseen(s)' => Unseen(s)
  BY DEF Unseen, Driving
<1>5. ResultsInv' /\ RunnerInv'
  BY <1>4 DEF ResultsInv, RunnerInv, Driving, Unanswered
<1> QED
  BY <1>1, <1>2, <1>3, <1>5

LEMMA TakeResultWindow == WindowInv /\ TakeResult => WindowInv'
<1> SUFFICES ASSUME WindowInv, TakeResult PROVE WindowInv'
  OBVIOUS
<1> USE DEF WindowInv, TakeResult, engine, ports
<1>0. Seat \in todo /\ Seat \in Seats /\ Seat' = Seat
  BY SeatFacts DEF TypeOK, Seat
<1>1. ~Failed(Seat) => results[Seat] \in DOMAIN calls /\ Unanswered(Seat, results[Seat])
  BY <1>0 DEF ResultsInv, Unseen, Failed
<1>2. TypeOK'
  <2>1. given \in 0..Len(calls)
    BY DEF TypeOK
  <2>2. DOMAIN calls \subseteq 0..Len(calls)
    BY Types
  <2>3. given' \in 0..Len(calls)
    BY <1>1, <2>1, <2>2
  <2>4. rejections' \in 0..MAX_REJECTIONS
    BY Limits
  <2> QED
    BY <2>3, <2>4 DEF TypeOK
<1>3. OutcomesInv' /\ CallsInv' /\ VerdictTrue'
  BY DEF OutcomesInv, CallsInv, VerdictTrue
<1>4. PromptsInv' /\ PendingInv'
  BY NoPrompts DEF TypeOK, PromptsInv, PendingInv
<1>5. \A s \in Seats : Unseen(s)' => Unseen(s)
  BY <1>0 DEF Unseen, Driving
<1>6. ResultsInv'
  BY <1>5 DEF ResultsInv, Unanswered
<1>7. RunnerInv'
  BY <1>0, <1>1, Limits DEF RunnerInv, Driving, Unanswered
<1> QED
  BY <1>2, <1>3, <1>4, <1>6, <1>7

LEMMA DriveNextWindow == WindowInv /\ DriveNext => WindowInv'
<1> SUFFICES ASSUME WindowInv, DriveNext PROVE WindowInv'
  OBVIOUS
<1> USE DEF WindowInv, DriveNext, Arm, engine
<1>0. Seat \in todo /\ Seat \in Seats /\ Seat' = Seat
  BY SeatFacts DEF TypeOK, Seat
<1>1. TypeOK'
  <2>1. rejections' \in 0..MAX_REJECTIONS
    BY Limits
  <2>2. /\ prompt \in [Seats -> 0..version] /\ pending \in [Seats -> 0..Len(calls)]
        /\ version \in 0..version /\ None \in 0..Len(calls)
    BY Types DEF TypeOK, None
  <2>3. prompt' \in [Seats -> 0..version]
    <3>1. prompt' = [s \in Seats |-> IF s \in {Seat} THEN version ELSE prompt[s]]
      OBVIOUS
    <3> QED
      BY ONLY <2>2, <3>1
  <2>4. pending' \in [Seats -> 0..Len(calls)]
    <3>1. pending' = [s \in Seats |-> IF s \in {Seat} THEN None ELSE pending[s]]
      OBVIOUS
    <3> QED
      BY ONLY <2>2, <3>1
  <2> QED
    BY <1>0, <2>1, <2>3, <2>4 DEF TypeOK
<1>2. OutcomesInv' /\ CallsInv' /\ VerdictTrue'
  BY DEF OutcomesInv, CallsInv, VerdictTrue
<1>3. results = Nothing
  BY DEF ResultsInv
<1>4. PromptsInv' /\ PendingInv'
  BY <1>0, NoPrompts DEF TypeOK, PromptsInv, PendingInv
<1>5. ResultsInv'
  BY <1>3 DEF ResultsInv, Nothing
<1>6. RunnerInv'
  BY Limits DEF RunnerInv, Driving
<1> QED
  BY <1>1, <1>2, <1>4, <1>5, <1>6

LEMMA AskAgainWindow == WindowInv /\ AskAgain => WindowInv'
<1> SUFFICES ASSUME WindowInv, AskAgain PROVE WindowInv'
  OBVIOUS
<1> USE DEF WindowInv, AskAgain, Arm, engine
<1>0. Seat \in todo /\ Seat \in Seats /\ Seat' = Seat
  BY DrivenSeat DEF Driving, Seat
<1>1. TypeOK'
  BY <1>0 DEF TypeOK, None
<1>2. OutcomesInv' /\ CallsInv' /\ VerdictTrue'
  BY DEF OutcomesInv, CallsInv, VerdictTrue
<1>3. PromptsInv' /\ PendingInv'
  BY <1>0, NoPrompts DEF TypeOK, PromptsInv, PendingInv
<1>4. \A s \in Seats : Unseen(s)' => Unseen(s)
  BY <1>0 DEF Unseen, Driving
<1>5. ResultsInv'
  BY <1>4 DEF ResultsInv, Unanswered
<1>6. RunnerInv'
  BY Limits DEF TypeOK, RunnerInv, Driving, OutOfTries
<1> QED
  BY <1>1, <1>2, <1>3, <1>5, <1>6

LEMMA GiveUpWindow == WindowInv /\ GiveUp => WindowInv'
<1> SUFFICES ASSUME WindowInv, GiveUp PROVE WindowInv'
  OBVIOUS
<1> USE DEF WindowInv, GiveUp, engine, ports
<1>0. Seat' = Seat
  BY DEF Seat
<1>1. TypeOK'
  BY DEF TypeOK
<1>2. OutcomesInv' /\ CallsInv' /\ VerdictTrue'
  BY DEF OutcomesInv, CallsInv, VerdictTrue
<1>3. PromptsInv' /\ PendingInv'
  BY NoPrompts DEF TypeOK, PromptsInv, PendingInv
<1>4. \A s \in Seats : Unseen(s)' => Unseen(s)
  BY <1>0 DEF Unseen, Driving
<1>5. ResultsInv' /\ RunnerInv'
  BY <1>4 DEF ResultsInv, Unanswered, RunnerInv, Driving
<1> QED
  BY <1>1, <1>2, <1>3, <1>5

LEMMA GameOverWindow == WindowInv /\ GameOver => WindowInv'
<1> SUFFICES ASSUME WindowInv, GameOver PROVE WindowInv'
  OBVIOUS
<1> USE DEF WindowInv, GameOver, engine, ports
<1>1. TypeOK'
  BY DEF TypeOK
<1>2. OutcomesInv' /\ CallsInv' /\ VerdictTrue'
  BY DEF OutcomesInv, CallsInv, VerdictTrue
<1>3. PromptsInv' /\ PendingInv'
  BY NoPrompts DEF TypeOK, PromptsInv, PendingInv
<1>4. \A s \in Seats : ~Unseen(s)'
  BY DEF Unseen, Driving
<1>5. ResultsInv' /\ RunnerInv'
  BY <1>4 DEF ResultsInv, RunnerInv, Driving, Nothing
<1> QED
  BY <1>1, <1>2, <1>3, <1>5

LEMMA ExpireWindow == WindowInv /\ Expire => WindowInv'
<1> SUFFICES ASSUME WindowInv, Expire PROVE WindowInv'
  OBVIOUS
<1> USE DEF WindowInv, Expire, engine, ports
<1>0. Seat' = Seat
  BY DEF Seat
<1>1. TypeOK'
  BY DEF TypeOK
<1>2. OutcomesInv' /\ CallsInv' /\ VerdictTrue'
  BY DEF OutcomesInv, CallsInv, VerdictTrue
<1>3. PromptsInv' /\ PendingInv'
  BY <1>0 DEF PromptsInv, PendingInv, Unanswered
<1>4. \A s \in Seats : Unseen(s)' => Unseen(s)
  BY <1>0 DEF Unseen
<1>5. ResultsInv' /\ RunnerInv'
  BY <1>0, <1>4 DEF ResultsInv, RunnerInv, Unanswered
<1> QED
  BY <1>1, <1>2, <1>3, <1>5

LEMMA AnsweredWindow ==
  ASSUME WindowInv, NEW s \in Seats, Answered(s)
  PROVE  WindowInv'
<1> USE DEF WindowInv, Answered, Disarm, engine
<1>0. Seat' = Seat
  BY DEF Seat
<1>1. /\ prompt[s] # None /\ Unanswered(s, pending[s])
      /\ pending[s] \in DOMAIN calls /\ pending[s] \in 0..Len(calls)
      /\ pc = "gather" \/ (pc = "ask" /\ s = Seat)
  <2>1. pending[s] \in 0..Len(calls)
    BY DEF TypeOK
  <2>2. prompt[s] # None /\ (pc = "gather" \/ (pc = "ask" /\ s = Seat))
    BY DEF Waiting
  <2> QED
    BY <2>1, <2>2 DEF PendingInv, Unanswered
<1>2. TypeOK'
  <2>1. prompt' \in [Seats -> 0..version] /\ pending' \in [Seats -> 0..Len(calls)]
    BY DEF TypeOK, None
  <2>2. results' \in [Seats -> Nat]
    <3>1. pending[s] \in Nat
      BY <1>1, Types
    <3> QED
      BY <3>1 DEF TypeOK
  <2>3. given' \in 0..Len(calls)
    BY <1>1 DEF TypeOK
  <2> QED
    BY <2>1, <2>2, <2>3 DEF TypeOK
<1>3. OutcomesInv' /\ CallsInv' /\ VerdictTrue'
  BY DEF OutcomesInv, CallsInv, VerdictTrue
<1>4. CASE pc = "gather"
  <2>1. PromptsInv' /\ PendingInv'
    BY <1>4 DEF TypeOK, PromptsInv, PendingInv, Unanswered
  <2>2. \A u \in Seats : Unseen(u)' => Unseen(u)
    BY <1>4 DEF Unseen
  <2>3. ResultsInv'
    BY <1>1, <1>4, <2>2 DEF TypeOK, ResultsInv, RunnerInv, Unanswered
  <2>4. RunnerInv'
    BY <1>4 DEF RunnerInv, Driving
  <2> QED
    BY <1>2, <1>3, <2>1, <2>3, <2>4
<1>5. CASE pc # "gather"
  <2>0. pc = "ask" /\ s = Seat /\ pc' = "judge" /\ given' = pending[s] /\ results' = results
    BY <1>1, <1>5
  <2>1. PromptsInv' /\ PendingInv'
    BY <2>0 DEF TypeOK, PromptsInv, PendingInv
  <2>2. \A u \in Seats : Unseen(u)' => Unseen(u)
    BY <1>0, <2>0 DEF Unseen, Driving
  <2>3. ResultsInv'
    BY <2>0, <2>2 DEF ResultsInv, Unanswered
  <2>4. RunnerInv'
    BY <1>0, <1>1, <2>0 DEF RunnerInv, Driving, Unanswered
  <2> QED
    BY <1>2, <1>3, <2>1, <2>3, <2>4
<1> QED
  BY <1>4, <1>5

-----------------------------------------------------------------------------
(* The steps that answer a submission, or take one *)

\* To answer one seat's future leaves those of the others open.
LEMMA OthersUnanswered ==
  ASSUME TypeOK, OutcomesInv, NEW s \in Seats, NEW how \in Verdicts \ {"none"},
         NEW u \in Seats, u # s, NEW c, Unanswered(u, c)
  PROVE  c \in DOMAIN Told(s, how) /\ Told(s, how)[c].verdict = "none" /\ c # outcome[s]
<1>1. c \in DOMAIN calls /\ outcome[u] = c /\ c # None /\ calls[c].verdict = "none"
  BY Types DEF Unanswered
<1>2. c # outcome[s]
  BY <1>1 DEF OutcomesInv
<1> QED
  BY <1>1, <1>2, ToldFacts

\* What is left of the invariant when the verdict is one that refuses the action.
LEMMA RefusedFacts ==
  ASSUME WindowInv, NEW s \in Seats, NEW how \in {"rejected", "closed"},
         Notify(s, how)
  PROVE  /\ calls' \in Seq(Submissions(version)) /\ Len(calls') = Len(calls)
         /\ DOMAIN calls' = DOMAIN calls
         /\ outcome' \in [Seats -> 0..Len(calls)]
         /\ OutcomesInv' /\ CallsInv' /\ VerdictTrue'
         /\ \A u \in Seats \ {s}, c \in DOMAIN calls : Unanswered(u, c) => Unanswered(u, c)'
<1> USE DEF WindowInv, Notify
<1>1. how \in Verdicts \ {"none"}
  BY DEF Verdicts
<1>2. /\ calls' = Told(s, how) /\ calls' \in Seq(Submissions(version))
      /\ Len(calls') = Len(calls) /\ DOMAIN calls' = DOMAIN calls
      /\ \A c \in DOMAIN calls :
           /\ calls'[c].seat = calls[c].seat /\ calls'[c].tag = calls[c].tag
           /\ calls'[c].window = calls[c].window /\ calls'[c].applied = calls[c].applied
           /\ calls'[c].verdict = IF c = outcome[s] /\ calls[c].verdict = "none"
                                    THEN how ELSE calls[c].verdict
  BY <1>1, ToldFacts
<1>3. outcome' \in [Seats -> 0..Len(calls)] /\ outcome'[s] = None
      /\ \A u \in Seats \ {s} : outcome'[u] = outcome[u]
  BY DEF TypeOK, None
<1>4. OutcomesInv'
  <2> SUFFICES ASSUME NEW u \in Seats, outcome'[u] # None PROVE calls'[outcome'[u]].seat = u
    BY DEF OutcomesInv
  <2>1. u # s /\ outcome'[u] = outcome[u] /\ outcome[u] \in DOMAIN calls
    BY <1>3, Types DEF TypeOK, None
  <2> QED
    BY <1>2, <2>1 DEF OutcomesInv
<1>5. CallsInv'
  BY <1>2 DEF CallsInv
<1>6. VerdictTrue'
  BY <1>2 DEF VerdictTrue
<1>7. ASSUME NEW u \in Seats \ {s}, NEW c \in DOMAIN calls, Unanswered(u, c)
      PROVE  Unanswered(u, c)'
  BY <1>1, <1>2, <1>3, <1>7, OthersUnanswered DEF Unanswered
<1> QED
  BY <1>2, <1>3, <1>4, <1>5, <1>6, <1>7

LEMMA RejectWindow == WindowInv /\ Reject => WindowInv'
<1> SUFFICES ASSUME WindowInv, Reject PROVE WindowInv'
  OBVIOUS
<1> USE DEF WindowInv, Reject, engine
<1>0. Seat \in todo /\ Seat \in Seats /\ Seat' = Seat
  BY DrivenSeat DEF Driving, Seat
<1>1. /\ calls' \in Seq(Submissions(version)) /\ Len(calls') = Len(calls)
      /\ DOMAIN calls' = DOMAIN calls
      /\ outcome' \in [Seats -> 0..Len(calls)]
      /\ OutcomesInv' /\ CallsInv' /\ VerdictTrue'
      /\ \A u \in Seats \ {Seat}, c \in DOMAIN calls : Unanswered(u, c) => Unanswered(u, c)'
  BY <1>0, RefusedFacts
<1>2. TypeOK'
  <2>1. rejections' \in 0..MAX_REJECTIONS
    BY Limits DEF TypeOK, RunnerInv
  <2>2. given' \in 0..Len(calls')
    BY <1>1, Types DEF None
  <2> QED
    BY <1>1, <2>1, <2>2 DEF TypeOK, Submissions, Verdicts
<1>3. PromptsInv' /\ PendingInv'
  BY NoPrompts DEF PromptsInv, PendingInv
<1>4. ResultsInv'
  <2>1. \A s \in Seats : Unseen(s)' => Unseen(s) /\ s # Seat
    BY <1>0 DEF Unseen, Driving
  <2>2. \A s \in Seats : results[s] \in DOMAIN calls \cup {None, Late}
    BY DEF ResultsInv
  <2> QED
    BY <1>1, <2>1, <2>2 DEF ResultsInv
<1>5. RunnerInv'
  BY <1>0 DEF RunnerInv, Driving
<1> QED
  BY <1>1, <1>2, <1>3, <1>4, <1>5

LEMMA TimesOutWindow ==
  ASSUME WindowInv, NEW s \in Seats, TimesOut(s)
  PROVE  WindowInv'
<1> USE DEF WindowInv, TimesOut, CloseOutcome, Cancelled, engine
<1>0. Seat' = Seat
  BY DEF Seat
<1>1. /\ calls' \in Seq(Submissions(version)) /\ Len(calls') = Len(calls)
      /\ DOMAIN calls' = DOMAIN calls
      /\ outcome' \in [Seats -> 0..Len(calls)]
      /\ OutcomesInv' /\ CallsInv' /\ VerdictTrue'
      /\ \A u \in Seats \ {s}, c \in DOMAIN calls : Unanswered(u, c) => Unanswered(u, c)'
  BY RefusedFacts
<1>2. prompt[s] # None /\ (pc = "gather" \/ (pc = "ask" /\ s = Seat))
  BY DEF Overdue, Waiting
<1>3. TypeOK'
  <2>1. prompt' \in [Seats -> 0..version] /\ pending' \in [Seats -> 0..Len(calls)]
    BY DEF TypeOK, Disarm, None
  <2>2. results' \in [Seats -> Nat]
    <3>1. Late \in Nat
      BY Limits DEF Late
    <3> QED
      BY <3>1 DEF TypeOK
  <2>3. pc' \in {"gather", "default"}
    BY <1>2
  <2> QED
    BY <1>1, <2>1, <2>2, <2>3 DEF TypeOK, Submissions, Verdicts
<1>4. \A u \in Seats \ {s} : prompt'[u] = prompt[u] /\ pending'[u] = pending[u]
  BY DEF TypeOK, Disarm
<1>5. prompt'[s] = None /\ pending'[s] = None
  BY DEF TypeOK, Disarm
<1>6. CASE pc = "gather"
  <2>1. results'[s] = Late /\ \A u \in Seats \ {s} : results'[u] = results[u]
    BY <1>6 DEF TypeOK
  <2>2. PromptsInv'
    BY <1>4, <1>5, <1>6, <2>1 DEF PromptsInv
  <2>3. PendingInv'
    BY <1>1, <1>4, <1>5, <1>6 DEF PendingInv, Unanswered
  <2>4. \A u \in Seats : Unseen(u)' => Unseen(u)
    BY <1>6 DEF Unseen
  <2>5. ResultsInv'
    BY <1>1, <1>6, <2>1, <2>4 DEF ResultsInv, RunnerInv
  <2>6. RunnerInv'
    BY <1>6 DEF RunnerInv, Driving
  <2> QED
    BY <1>1, <1>3, <2>2, <2>3, <2>5, <2>6
<1>7. CASE pc # "gather"
  <2>0. pc = "ask" /\ s = Seat /\ pc' = "default" /\ results' = results
    BY <1>2, <1>7
  <2>1. \A u \in Seats : prompt'[u] = None /\ pending'[u] = None
    BY <1>4, <1>5, <2>0 DEF PromptsInv, PendingInv
  <2>2. PromptsInv' /\ PendingInv'
    BY <2>1 DEF PromptsInv, PendingInv
  <2>3. \A u \in Seats : Unseen(u)' => Unseen(u) /\ u # s
    BY <1>0, <2>0 DEF Unseen, Driving
  <2>4. ResultsInv'
    <3>1. \A u \in Seats : results[u] \in DOMAIN calls \cup {None, Late}
      BY DEF ResultsInv
    <3> QED
      BY <1>1, <2>0, <2>3, <3>1 DEF ResultsInv
  <2>5. RunnerInv'
    BY <2>0 DEF RunnerInv, Driving
  <2> QED
    BY <1>1, <1>3, <2>2, <2>4, <2>5
<1> QED
  BY <1>6, <1>7

LEMMA SubmitWindow ==
  ASSUME WindowInv, NEW s \in Seats, NEW tag \in {None} \cup 1..version, Submit(s, tag)
  PROVE  WindowInv'
<1> USE DEF WindowInv
<1> DEFINE sub == [seat |-> s, tag |-> tag, window |-> opened, verdict |-> "none", applied |-> FALSE]
           n == Len(calls) + 1
<1>0. /\ calls' = Append(calls, sub)
      /\ prompt[s] # None /\ pending[s] = None /\ tag \in {None, prompt[s]}
      /\ pending' = [pending EXCEPT ![s] = Len(calls')]
      /\ outcome' = [outcome EXCEPT ![s] = Len(calls')]
      /\ Len(calls) < MaxCalls
      /\ UNCHANGED <<version, expected, simultaneous, opened, windows, pc, together, todo,
                     results, given, rejections, expired, prompt>>
  BY DEF Submit, Open, Accepts, engine, runner
<1>1. sub \in Submissions(version)
  <2>1. tag \in Nat /\ opened \in 1..version
    BY Types DEF None
  <2> QED
    BY <2>1 DEF Submissions, Verdicts
<1>2. /\ calls' \in Seq(Submissions(version)) /\ Len(calls') = n /\ n \in Nat
      /\ DOMAIN calls' = 1..n /\ calls'[n] = sub /\ n # None /\ n \notin DOMAIN calls
      /\ \A c \in DOMAIN calls : c \in DOMAIN calls' /\ calls'[c] = calls[c]
      /\ \A c \in DOMAIN calls' : c \in DOMAIN calls \/ c = n
  <2>1. calls \in Seq(Submissions(version)) /\ DOMAIN calls = 1..Len(calls) /\ Len(calls) \in Nat
    BY Types
  <2>2. /\ calls' \in Seq(Submissions(version)) /\ Len(calls') = n
        /\ \A c \in 1..Len(calls) : calls'[c] = calls[c]
        /\ calls'[n] = sub
    BY <1>0, <1>1, <2>1, AppendProperties
  <2>3. DOMAIN calls' = 1..n
    BY <2>2, LenProperties
  <2> QED
    BY <2>1, <2>2, <2>3 DEF None
<1>3. /\ outcome'[s] = n /\ pending'[s] = n
      /\ \A u \in Seats \ {s} : outcome'[u] = outcome[u] /\ pending'[u] = pending[u]
  BY <1>0, <1>2 DEF TypeOK
<1>4. TypeOK'
  <2>1. n \in 0..n /\ 0..Len(calls) \subseteq 0..n
    BY <1>2, Types
  <2>2. given' \in 0..n /\ outcome' \in [Seats -> 0..n] /\ pending' \in [Seats -> 0..n]
    BY <1>0, <1>2, <2>1 DEF TypeOK
  <2> QED
    BY <1>0, <1>2, <2>2 DEF TypeOK, Submissions, Verdicts
<1>5. OutcomesInv'
  <2> SUFFICES ASSUME NEW u \in Seats, outcome'[u] # None PROVE calls'[outcome'[u]].seat = u
    BY DEF OutcomesInv
  <2>1. CASE u = s
    BY <1>2, <1>3, <2>1
  <2>2. CASE u # s
    <3>1. outcome'[u] = outcome[u] /\ outcome[u] \in DOMAIN calls
      BY <1>3, <2>2, Types DEF TypeOK, None
    <3> QED
      BY <1>2, <3>1 DEF OutcomesInv
  <2> QED
    BY <2>1, <2>2
<1>6. CallsInv'
  <2>1. tag # None => tag >= opened
    BY <1>0, Types DEF PromptsInv, TypeOK
  <2>2. n =< MaxCalls
    BY <1>0, Types, Limits
  <2> QED
    BY <1>2, <2>1, <2>2 DEF CallsInv
<1>7. VerdictTrue'
  BY <1>2 DEF VerdictTrue
<1>8. \A u \in Seats \ {s}, c \in DOMAIN calls : Unanswered(u, c) => Unanswered(u, c)'
  BY <1>2, <1>3 DEF Unanswered
<1>9. PromptsInv'
  BY <1>0 DEF PromptsInv, Seat
<1>10. PendingInv'
  BY <1>0, <1>2, <1>3, <1>8 DEF PendingInv, Unanswered
<1>11. \A u \in Seats : Unseen(u)' => Unseen(u) /\ (u # s \/ results[u] = None)
  BY <1>0 DEF PromptsInv, Unseen, Seat, Driving
<1>12. ResultsInv'
  <2>1. \A u \in Seats : results[u] \in DOMAIN calls \cup {None, Late}
    BY DEF ResultsInv
  <2> QED
    BY <1>0, <1>2, <1>8, <1>11, <2>1 DEF ResultsInv
<1>13. RunnerInv'
  BY <1>0, <1>2 DEF RunnerInv, PromptsInv, Driving, Seat
<1> QED
  BY <1>4, <1>5, <1>6, <1>7, <1>9, <1>10, <1>12, <1>13

\* The step of the engine: the version grows.
LEMMA StepFacts ==
  ASSUME TypeOK, NEW s \in Seats, NEW ends, Step(s, ends)
  PROVE  /\ version' = version + 1 /\ version' \in Nat \ {0}
         /\ opened' \in 1..version' /\ windows' \in Nat
         /\ expected' \subseteq Seats /\ simultaneous' \in BOOLEAN
<1>1. version' = version + 1 /\ version \in Nat \ {0} /\ opened \in 1..version /\ windows \in Nat
  BY Types DEF Step
<1>2. CASE NextWindow
  <2>1. opened' = version + 1 /\ expected' \subseteq Seats
    BY <1>2 DEF NextWindow
  <2>2. windows' = windows \/ windows' = windows + 1
    BY <1>2 DEF NextWindow
  <2>3. simultaneous' \in BOOLEAN
    BY <1>2 DEF NextWindow, TypeOK
  <2> QED
    BY <1>1, <2>1, <2>2, <2>3
<1>3. CASE ~NextWindow
  BY <1>1, <1>3 DEF Step, TypeOK
<1> QED
  BY <1>2, <1>3

LEMMA ApplyDefaultWindow == WindowInv /\ ApplyDefault => WindowInv'
<1> SUFFICES ASSUME WindowInv, ApplyDefault PROVE WindowInv'
  OBVIOUS
<1> USE DEF WindowInv, ApplyDefault
<1>0. Seat \in todo /\ Seat \in Seats
  BY DrivenSeat DEF Driving
<1>1. /\ version' = version + 1 /\ version' \in Nat \ {0}
      /\ opened' \in 1..version' /\ windows' \in Nat
      /\ expected' \subseteq Seats /\ simultaneous' \in BOOLEAN
  BY <1>0, StepFacts
<1>2. TypeOK'
  <2>1. calls' \in Seq(Submissions(version'))
    BY <1>1, Types, SubmissionsGrow
  <2>2. prompt' \in [Seats -> 0..version']
    BY <1>1, Types DEF TypeOK
  <2> QED
    BY <1>1, <2>1, <2>2 DEF TypeOK, Submissions, Verdicts
<1>3. OutcomesInv' /\ CallsInv' /\ VerdictTrue'
  BY DEF OutcomesInv, CallsInv, VerdictTrue
<1>4. PromptsInv' /\ PendingInv'
  BY NoPrompts DEF PromptsInv, PendingInv
<1>5. \A s \in Seats : Unseen(s)' => Unseen(s)
  BY DEF Unseen, Driving
<1>6. ResultsInv' /\ RunnerInv'
  BY <1>5 DEF ResultsInv, RunnerInv, Unanswered, Driving
<1> QED
  BY <1>2, <1>3, <1>4, <1>6

\* The action in hand is the open submission of its seat, and it alone changes.
LEMMA AcceptFacts ==
  ASSUME WindowInv, Accept
  PROVE  /\ Seat \in todo /\ Seat \in Seats
         /\ given \in DOMAIN calls /\ outcome[Seat] = given
         /\ calls[given].seat = Seat /\ calls[given].verdict = "none"
         /\ calls' \in Seq(Submissions(version)) /\ Len(calls') = Len(calls)
         /\ DOMAIN calls' = DOMAIN calls
         /\ \A c \in DOMAIN calls :
              /\ calls'[c].seat = calls[c].seat /\ calls'[c].tag = calls[c].tag
              /\ calls'[c].window = calls[c].window
              /\ c # given => calls'[c].applied = calls[c].applied
                                /\ calls'[c].verdict = calls[c].verdict
         /\ calls'[given].applied = TRUE /\ calls'[given].verdict = "ok"
<1> DEFINE t == Told(Seat, "ok")
           e == [t[given] EXCEPT !.applied = TRUE]
<1>1. Seat \in todo /\ Seat \in Seats
  BY DrivenSeat DEF Driving, WindowInv, Accept
<1>2. /\ given \in DOMAIN calls /\ outcome[Seat] = given
      /\ calls[given].seat = Seat /\ calls[given].verdict = "none"
  BY <1>1, Types DEF RunnerInv, Unanswered, OutcomesInv, WindowInv, Accept
<1>3. /\ t \in Seq(Submissions(version)) /\ Len(t) = Len(calls) /\ DOMAIN t = DOMAIN calls
      /\ \A c \in DOMAIN calls :
           /\ t[c] \in Submissions(version)
           /\ t[c].seat = calls[c].seat /\ t[c].tag = calls[c].tag
           /\ t[c].window = calls[c].window /\ t[c].applied = calls[c].applied
           /\ t[c].verdict = IF c = given THEN "ok" ELSE calls[c].verdict
  <2>1. "ok" \in Verdicts \ {"none"}
    BY DEF Verdicts
  <2> HIDE DEF t
  <2> QED
    BY <1>1, <1>2, <2>1, ToldFacts DEF t, WindowInv
<1> HIDE DEF t
<1>4. /\ e \in Submissions(version)
      /\ e.seat = t[given].seat /\ e.tag = t[given].tag /\ e.window = t[given].window
      /\ e.applied = TRUE /\ e.verdict = "ok"
  <2>1. PICK m \in Submissions(version) : m = t[given] /\ m.verdict = "ok"
    BY <1>2, <1>3
  <2>2. e = [m EXCEPT !.applied = TRUE]
    BY <2>1
  <2> HIDE DEF e
  <2>3. /\ e \in Submissions(version)
        /\ e.seat = m.seat /\ e.tag = m.tag /\ e.window = m.window
        /\ e.applied = TRUE /\ e.verdict = m.verdict
    BY ONLY <2>2, m \in Submissions(version) DEF Submissions
  <2> QED
    BY <2>1, <2>3
<1>5. calls' = [t EXCEPT ![given] = e]
  BY DEF t, Accept
<1> HIDE DEF e
<1>6. DOMAIN calls = 1..Len(calls)
  BY Types DEF WindowInv
<1>7. /\ calls' \in Seq(Submissions(version)) /\ Len(calls') = Len(calls)
      /\ DOMAIN calls' = DOMAIN calls
      /\ \A c \in DOMAIN calls : calls'[c] = IF c = given THEN e ELSE t[c]
  <2>1. given \in 1..Len(t) /\ t \in Seq(Submissions(version)) /\ e \in Submissions(version)
    BY <1>2, <1>3, <1>4, <1>6
  <2>2. /\ calls' \in Seq(Submissions(version)) /\ Len(calls') = Len(t)
        /\ \A c \in 1..Len(t) : calls'[c] = IF c = given THEN e ELSE t[c]
    BY <1>5, <2>1, ExceptSeq
  <2>3. DOMAIN calls' = 1..Len(t)
    BY <2>2, LenProperties
  <2> QED
    BY <1>3, <1>6, <2>2, <2>3
<1>8. ASSUME NEW c \in DOMAIN calls
      PROVE  /\ calls'[c].seat = calls[c].seat /\ calls'[c].tag = calls[c].tag
             /\ calls'[c].window = calls[c].window
             /\ c # given => calls'[c].applied = calls[c].applied
                               /\ calls'[c].verdict = calls[c].verdict
  <2>1. CASE c = given
    BY <1>2, <1>3, <1>4, <1>7, <2>1
  <2>2. CASE c # given
    BY <1>3, <1>7, <2>2
  <2> QED
    BY <2>1, <2>2
<1> QED
  BY <1>1, <1>2, <1>4, <1>7, <1>8

LEMMA AcceptWindow == WindowInv /\ Accept => WindowInv'
<1> SUFFICES ASSUME WindowInv, Accept PROVE WindowInv'
  OBVIOUS
<1>0. /\ Seat \in todo /\ Seat \in Seats
      /\ given \in DOMAIN calls /\ outcome[Seat] = given
      /\ calls[given].seat = Seat /\ calls[given].verdict = "none"
      /\ calls' \in Seq(Submissions(version)) /\ Len(calls') = Len(calls)
      /\ DOMAIN calls' = DOMAIN calls
      /\ \A c \in DOMAIN calls :
           /\ calls'[c].seat = calls[c].seat /\ calls'[c].tag = calls[c].tag
           /\ calls'[c].window = calls[c].window
           /\ c # given => calls'[c].applied = calls[c].applied
                             /\ calls'[c].verdict = calls[c].verdict
      /\ calls'[given].applied = TRUE /\ calls'[given].verdict = "ok"
  BY AcceptFacts
<1>1. /\ pc = "judge" /\ pc' = "next" /\ given' = None /\ todo' = todo \ {Seat}
      /\ outcome' = [outcome EXCEPT ![Seat] = None]
      /\ UNCHANGED <<together, results, rejections, expired, prompt, pending>>
  BY DEF Accept
<1>2. /\ version' = version + 1 /\ version' \in Nat \ {0}
      /\ opened' \in 1..version' /\ windows' \in Nat
      /\ expected' \subseteq Seats /\ simultaneous' \in BOOLEAN
  <2>1. PICK ends \in BOOLEAN : Step(Seat, ends)
    BY DEF Accept
  <2> QED
    BY <1>0, <2>1, StepFacts DEF WindowInv
<1> USE DEF WindowInv
<1>3. /\ outcome'[Seat] = None
      /\ \A s \in Seats \ {Seat} : outcome'[s] = outcome[s]
      /\ outcome' \in [Seats -> 0..Len(calls)]
  BY <1>0, <1>1 DEF TypeOK, None
<1>4. TypeOK'
  <2>1. calls' \in Seq(Submissions(version'))
    BY <1>0, <1>2, Types, SubmissionsGrow
  <2>2. prompt' \in [Seats -> 0..version'] /\ given' \in 0..Len(calls')
    <3>1. prompt \in [Seats -> 0..version] /\ version \in Nat
      BY Types DEF TypeOK
    <3>2. \A i \in 0..version : i \in 0..version'
      BY <1>2, <3>1
    <3>3. prompt' \in [Seats -> 0..version']
      BY <1>1, <3>1, <3>2
    <3>4. given' = 0 /\ Len(calls') \in Nat
      BY <1>1, <2>1 DEF None
    <3> QED
      BY <3>3, <3>4
  <2> QED
    BY <1>0, <1>1, <1>2, <1>3, <2>1, <2>2 DEF TypeOK, Submissions, Verdicts
<1>5. OutcomesInv'
  <2> SUFFICES ASSUME NEW s \in Seats, outcome'[s] # None PROVE calls'[outcome'[s]].seat = s
    BY DEF OutcomesInv
  <2>1. s # Seat /\ outcome'[s] = outcome[s] /\ outcome[s] \in DOMAIN calls
    BY <1>3, Types DEF TypeOK, None
  <2> QED
    BY <1>0, <2>1 DEF OutcomesInv
<1>6. CallsInv'
  BY <1>0 DEF CallsInv
<1>7. VerdictTrue'
  BY <1>0 DEF VerdictTrue
<1>8. PromptsInv' /\ PendingInv'
  BY <1>1, NoPrompts DEF PromptsInv, PendingInv
<1>9. \A s \in Seats : Unseen(s)' => Unseen(s) /\ s # Seat
  BY <1>1 DEF Unseen, Driving
<1>10. ASSUME NEW s \in Seats \ {Seat}, NEW c, Unanswered(s, c)
       PROVE  Unanswered(s, c)'
  <2>1. c \in DOMAIN calls /\ outcome[s] = c /\ calls[c].verdict = "none"
    BY <1>10 DEF Unanswered
  <2>2. c # given
    BY <1>0, <2>1, Types DEF OutcomesInv
  <2> QED
    BY <1>0, <1>3, <2>1, <2>2 DEF Unanswered
<1>11. ResultsInv'
  <2>1. \A s \in Seats : results[s] \in DOMAIN calls \cup {None, Late}
    BY DEF ResultsInv
  <2> QED
    BY <1>0, <1>1, <1>9, <1>10, <2>1 DEF ResultsInv
<1>12. RunnerInv'
  BY <1>1 DEF RunnerInv, Driving
<1> QED
  BY <1>4, <1>5, <1>6, <1>7, <1>8, <1>11, <1>12

-----------------------------------------------------------------------------
(* The theorems *)

LEMMA StutterWindow == WindowInv /\ UNCHANGED vars => WindowInv'
<1> SUFFICES ASSUME WindowInv, UNCHANGED vars PROVE WindowInv'
  OBVIOUS
<1> USE DEF WindowInv, vars, engine, runner, ports
<1>0. Seat' = Seat
  BY DEF Seat
<1>1. TypeOK'
  BY DEF TypeOK
<1>2. OutcomesInv' /\ CallsInv' /\ VerdictTrue' /\ PromptsInv' /\ PendingInv'
  BY <1>0 DEF OutcomesInv, CallsInv, VerdictTrue, PromptsInv, PendingInv, Unanswered
<1>3. \A s \in Seats : Unseen(s)' => Unseen(s)
  BY <1>0 DEF Unseen
<1>4. ResultsInv' /\ RunnerInv'
  BY <1>0, <1>3 DEF ResultsInv, RunnerInv, Unanswered
<1> QED
  BY <1>1, <1>2, <1>4

LEMMA NextWindowInv == WindowInv /\ [Next]_vars => WindowInv'
<1> SUFFICES ASSUME WindowInv, [Next]_vars PROVE WindowInv'
  OBVIOUS
<1>1. CASE RunnerStep
  BY <1>1, OpenTogetherWindow, OpenInTurnWindow, WindowOverWindow, SkipWindow, GatheredWindow,
     TakeResultWindow, DriveNextWindow, AskAgainWindow, GiveUpWindow, RejectWindow,
     AcceptWindow, ApplyDefaultWindow, GameOverWindow DEF RunnerStep
<1>2. CASE ActResumes
  BY <1>2, AnsweredWindow, TimesOutWindow DEF ActResumes
<1>3. CASE ClientStep
  BY <1>3, SubmitWindow DEF ClientStep
<1>4. CASE Expire
  BY <1>4, ExpireWindow
<1>5. CASE UNCHANGED vars
  BY <1>5, StutterWindow
<1> QED
  BY <1>1, <1>2, <1>3, <1>4, <1>5 DEF Next

\* The inductive invariant of the runner and its ports: where each submission is.
THEOREM WindowInvHolds == Spec => []WindowInv
  BY InitWindow, NextWindowInv, PTL DEF Spec

\* Every variable keeps its type: no verdict, result or prompt goes astray.
THEOREM WindowTypes == Spec => []TypeOK
<1>1. WindowInv => TypeOK
  BY DEF WindowInv
<1> QED
  BY <1>1, WindowInvHolds, PTL

\* What notify_result and the finally of act tell a player is what became of its
\* action: "ok" when apply_action took it, and only then.
THEOREM VerdictsAreTrue == Spec => []VerdictTrue
<1>1. WindowInv => VerdictTrue
  BY DEF WindowInv
<1> QED
  BY <1>1, WindowInvHolds, PTL

\* A submission that names its prompt is never applied in a window that began after
\* that prompt (issue #125).
THEOREM LateActionsStayOut == Spec => LateNeverLands
<1> DEFINE Lands == \A c \in DOMAIN calls :
              calls'[c].applied /\ ~calls[c].applied /\ calls[c].tag # None
                => calls[c].tag >= calls[c].window
<1>1. WindowInv => [Lands]_vars
  BY DEF WindowInv, CallsInv
<1> QED
  BY <1>1, WindowInvHolds, PTL DEF LateNeverLands

-----------------------------------------------------------------------------
(***************************************************************************)
(* The pages.  A page and the port of its seat are apart by the frames     *)
(* that are on their way (down), and the invariant speaks of that queue as *)
(* a whole: prompts stand in it in the order of their versions, each       *)
(* followed by its end (InOrder, InTurn); the window that is open is       *)
(* shown, is the last thing that arrives, was taken by a refusal or is     *)
(* being submitted to (Shown); nothing in it takes that prompt away        *)
(* (Untaken); and what the page waits for is on its way (Acked, Awaited).  *)
(* First come lemmas about a frame that is read (the head of the queue)    *)
(* and one that is pushed (its end), then what a step of the runner means  *)
(* to a page (Moves), then one lemma for each step.                        *)
(***************************************************************************)

(* The parts of the invariant *)

FrameTypes ==
  {"your_turn", "window_closed", "action_accepted", "action_result", "not_your_turn", "game_over"}
Frames == [type : FrameTypes, v : Nat]
Forms == [prompt : Nat, submitted : Nat, pending : BOOLEAN, accepted : BOOLEAN]

\* Frames that open and close a window on the page.
Turning(frame) == frame.type \in {"your_turn", "window_closed"}
Asks(frame) == frame.type = "your_turn"
\* Frames that take a prompt away from the page that has submitted to it.
Takes(frame) == frame = Frame("action_result", 1) \/ frame.type = "not_your_turn"

Still(q) == \A i \in DOMAIN q : ~Turning(q[i])

\* After place i of the frames q, the window v is closed next or is open for good.
Ends(q, i, v, p) ==
  \/ p = v /\ \A j \in DOMAIN q : i < j => ~Turning(q[j])
  \/ \E j \in DOMAIN q :
       /\ i < j /\ q[j] = WindowClosed(v)
       /\ \A k \in DOMAIN q : i < k /\ k < j => ~Turning(q[k])

Arrives(q, p) ==
  \E i \in DOMAIN q : q[i] = YourTurn(p) /\ \A j \in DOMAIN q : i < j => ~Turning(q[j])

\* Prompts come in the order of their versions; a page that has submitted to one that
\* it does not show will not see it again.
InOrder(f, q, st, n) ==
  /\ f.prompt <= n
  /\ \A i \in DOMAIN q : Asks(q[i]) =>
       /\ q[i].v # None /\ f.prompt <= q[i].v /\ q[i].v <= n
       /\ \A j \in DOMAIN q : j < i /\ Asks(q[j]) => q[j].v <= q[i].v
  /\ f.submitted # None =>
       IF f.submitted = f.prompt THEN st
       ELSE f.submitted < n /\ \A i \in DOMAIN q : Asks(q[i]) => f.submitted < q[i].v

\* Each prompt is followed by its end.
InTurn(f, q, st, p) ==
  /\ f.prompt # None /\ ~st => Ends(q, 0, f.prompt, p)
  /\ \A i \in DOMAIN q : Asks(q[i]) => Ends(q, i, q[i].v, p)

\* The prompt p comes, is shown, was taken by a refusal, or its submission is under way.
Shown(f, q, w, u, p) ==
  \/ Arrives(q, p)
  \/ Still(q) /\ (p \in {f.prompt, w} \/ \E i \in DOMAIN u : u[i] = p)

Untaken(q) == \A i \in DOMAIN q : Takes(q[i]) => \E j \in DOMAIN q : i < j /\ Asks(q[j])

\* What was acknowledged is late, or its result is on its way.
Acked(f, q, l, p) ==
  /\ f.accepted => \/ l # {} \/ p = None
                   \/ \E i \in DOMAIN q : q[i].type \in {"your_turn", "action_result"}
  /\ \A i \in DOMAIN q : q[i].type = "action_accepted" =>
       l # {} \/ \E j \in DOMAIN q : i < j /\ q[j].type = "action_result"

Awaited(f, q, u, c) ==
  f.pending => u # <<>> \/ c # None \/ \E i \in DOMAIN q : ~Turning(q[i])

-----------------------------------------------------------------------------
(* Queues of frames *)

LEMMA Pushed ==
  ASSUME NEW S, NEW q \in Seq(S), NEW x \in S
  PROVE  /\ Append(q, x) \in Seq(S) /\ Len(q) \in Nat /\ DOMAIN q = 1..Len(q)
         /\ DOMAIN Append(q, x) = 1..(Len(q) + 1)
         /\ Append(q, x)[Len(q) + 1] = x
         /\ \A i \in DOMAIN q : i \in DOMAIN Append(q, x) /\ Append(q, x)[i] = q[i]
<1>1. Len(q) \in Nat /\ DOMAIN q = 1..Len(q)
  BY LenProperties
<1>2. /\ Append(q, x) \in Seq(S) /\ Len(Append(q, x)) = Len(q) + 1
      /\ \A i \in 1..Len(q) : Append(q, x)[i] = q[i]
      /\ Append(q, x)[Len(q) + 1] = x
  BY AppendProperties
<1>3. DOMAIN Append(q, x) = 1..(Len(q) + 1)
  BY <1>2, LenProperties
<1> QED
  BY <1>1, <1>2, <1>3

LEMMA Popped ==
  ASSUME NEW S, NEW q \in Seq(S), q # <<>>
  PROVE  /\ Tail(q) \in Seq(S) /\ Len(q) \in Nat /\ 1 <= Len(q) /\ DOMAIN q = 1..Len(q)
         /\ DOMAIN Tail(q) = 1..(Len(q) - 1)
         /\ Head(q) = q[1] /\ Head(q) \in S
         /\ \A i \in DOMAIN Tail(q) : i + 1 \in DOMAIN q /\ Tail(q)[i] = q[i + 1]
<1>1. Len(q) \in Nat /\ DOMAIN q = 1..Len(q) /\ 1 <= Len(q)
  BY LenProperties, EmptySeq
<1>2. /\ Head(q) \in S /\ Head(q) = q[1] /\ Tail(q) \in Seq(S) /\ Len(Tail(q)) = Len(q) - 1
      /\ \A i \in 1..Len(Tail(q)) : Tail(q)[i] = q[i + 1]
  BY HeadTailProperties
<1>3. DOMAIN Tail(q) = 1..(Len(q) - 1)
  BY <1>2, LenProperties
<1> QED
  BY <1>1, <1>2, <1>3

LEMMA EndsPush ==
  ASSUME NEW q \in Seq(Frames), NEW x \in Frames, ~Turning(x), NEW i \in Nat, NEW v, NEW p,
         Ends(q, i, v, p)
  PROVE  Ends(Append(q, x), i, v, p)
<1> DEFINE r == Append(q, x)
<1>1. /\ Len(q) \in Nat /\ DOMAIN q = 1..Len(q) /\ DOMAIN r = 1..(Len(q) + 1)
      /\ r[Len(q) + 1] = x /\ \A j \in DOMAIN q : j \in DOMAIN r /\ r[j] = q[j]
  BY Pushed
<1>2. \A j \in DOMAIN r : j \in DOMAIN q \/ j = Len(q) + 1
  BY <1>1
<1> HIDE DEF r
<1>3. CASE p = v /\ \A j \in DOMAIN q : i < j => ~Turning(q[j])
  BY <1>1, <1>2, <1>3 DEF Ends
<1>4. CASE \E j \in DOMAIN q : /\ i < j /\ q[j] = WindowClosed(v)
                               /\ \A k \in DOMAIN q : i < k /\ k < j => ~Turning(q[k])
  <2>1. PICK j \in DOMAIN q : /\ i < j /\ q[j] = WindowClosed(v)
                              /\ \A k \in DOMAIN q : i < k /\ k < j => ~Turning(q[k])
    BY <1>4
  <2>2. j \in DOMAIN r /\ r[j] = WindowClosed(v)
    BY <1>1, <2>1
  <2>3. \A k \in DOMAIN r : i < k /\ k < j => ~Turning(r[k])
    BY <1>1, <1>2, <2>1
  <2> QED
    BY <2>1, <2>2, <2>3 DEF Ends
<1> QED
  BY <1>3, <1>4 DEF Ends, r

LEMMA EndsClosed ==
  ASSUME NEW q \in Seq(Frames), NEW i \in Nat, NEW v, NEW p \in Nat, i < Len(q) + 1,
         Ends(q, i, v, p)
  PROVE  Ends(Append(q, WindowClosed(p)), i, v, None)
<1> DEFINE r == Append(q, WindowClosed(p))
<1>0. WindowClosed(p) \in Frames
  BY DEF WindowClosed, Frame, Frames, FrameTypes
<1>1. /\ Len(q) \in Nat /\ DOMAIN q = 1..Len(q) /\ DOMAIN r = 1..(Len(q) + 1)
      /\ r[Len(q) + 1] = WindowClosed(p) /\ \A j \in DOMAIN q : j \in DOMAIN r /\ r[j] = q[j]
  BY <1>0, Pushed
<1>2. \A j \in DOMAIN r : j \in DOMAIN q \/ j = Len(q) + 1
  BY <1>1
<1> HIDE DEF r
<1>3. CASE p = v /\ \A j \in DOMAIN q : i < j => ~Turning(q[j])
  <2>1. Len(q) + 1 \in DOMAIN r /\ r[Len(q) + 1] = WindowClosed(v)
    BY <1>1, <1>3
  <2>2. \A k \in DOMAIN r : i < k /\ k < Len(q) + 1 => ~Turning(r[k])
    BY <1>1, <1>2, <1>3
  <2> QED
    BY <2>1, <2>2 DEF Ends
<1>4. CASE \E j \in DOMAIN q : /\ i < j /\ q[j] = WindowClosed(v)
                               /\ \A k \in DOMAIN q : i < k /\ k < j => ~Turning(q[k])
  <2>1. PICK j \in DOMAIN q : /\ i < j /\ q[j] = WindowClosed(v)
                              /\ \A k \in DOMAIN q : i < k /\ k < j => ~Turning(q[k])
    BY <1>4
  <2>2. j \in DOMAIN r /\ r[j] = WindowClosed(v)
    BY <1>1, <2>1
  <2>3. \A k \in DOMAIN r : i < k /\ k < j => ~Turning(r[k])
    BY <1>1, <1>2, <2>1
  <2> QED
    BY <2>1, <2>2, <2>3 DEF Ends
<1> QED
  BY <1>3, <1>4 DEF Ends, r

LEMMA EndsOpened ==
  ASSUME NEW q \in Seq(Frames), NEW i \in Nat, NEW v, v # None, Ends(q, i, v, None),
         NEW n \in Nat
  PROVE  Ends(Append(q, YourTurn(n)), i, v, n)
<1> DEFINE r == Append(q, YourTurn(n))
<1>0. YourTurn(n) \in Frames
  BY DEF YourTurn, Frame, Frames, FrameTypes
<1>1. /\ Len(q) \in Nat /\ DOMAIN q = 1..Len(q) /\ DOMAIN r = 1..(Len(q) + 1)
      /\ \A j \in DOMAIN q : j \in DOMAIN r /\ r[j] = q[j]
  BY <1>0, Pushed
<1>2. \A j \in DOMAIN r : j \in DOMAIN q \/ j = Len(q) + 1
  BY <1>1
<1> HIDE DEF r
<1>3. PICK j \in DOMAIN q : /\ i < j /\ q[j] = WindowClosed(v)
                            /\ \A k \in DOMAIN q : i < k /\ k < j => ~Turning(q[k])
  BY DEF Ends
<1>4. j \in DOMAIN r /\ r[j] = WindowClosed(v)
  BY <1>1, <1>3
<1>5. \A k \in DOMAIN r : i < k /\ k < j => ~Turning(r[k])
  BY <1>1, <1>2, <1>3
<1> QED
  BY <1>3, <1>4, <1>5 DEF Ends, r

LEMMA EndsPopped ==
  ASSUME NEW q \in Seq(Frames), q # <<>>, NEW i \in DOMAIN Tail(q), NEW v, NEW p,
         Ends(q, i + 1, v, p)
  PROVE  Ends(Tail(q), i, v, p)
<1> DEFINE r == Tail(q)
<1>1. /\ Len(q) \in Nat /\ DOMAIN q = 1..Len(q) /\ DOMAIN r = 1..(Len(q) - 1)
      /\ \A j \in DOMAIN r : j + 1 \in DOMAIN q /\ r[j] = q[j + 1]
  BY Popped
<1> HIDE DEF r
<1>2. i \in DOMAIN r
  BY DEF r
<1>3. CASE p = v /\ \A j \in DOMAIN q : i + 1 < j => ~Turning(q[j])
  <2>1. ASSUME NEW j \in DOMAIN r, i < j PROVE ~Turning(r[j])
    <3>1. j + 1 \in DOMAIN q /\ i + 1 < j + 1 /\ r[j] = q[j + 1]
      BY <1>1, <1>2, <2>1
    <3> QED
      BY <1>3, <3>1
  <2> QED
    BY <1>3, <2>1 DEF Ends, r
<1>4. CASE \E j \in DOMAIN q : /\ i + 1 < j /\ q[j] = WindowClosed(v)
                               /\ \A k \in DOMAIN q : i + 1 < k /\ k < j => ~Turning(q[k])
  <2>1. PICK j \in DOMAIN q : /\ i + 1 < j /\ q[j] = WindowClosed(v)
                              /\ \A k \in DOMAIN q : i + 1 < k /\ k < j => ~Turning(q[k])
    BY <1>4
  <2>2. j - 1 \in DOMAIN r /\ i < j - 1 /\ (j - 1) + 1 = j
    BY <1>1, <1>2, <2>1
  <2>3. r[j - 1] = WindowClosed(v)
    BY <1>1, <2>1, <2>2
  <2>4. ASSUME NEW k \in DOMAIN r, i < k, k < j - 1 PROVE ~Turning(r[k])
    <3>1. k + 1 \in DOMAIN q /\ i + 1 < k + 1 /\ k + 1 < j /\ r[k] = q[k + 1]
      BY <1>1, <1>2, <2>2, <2>4
    <3> QED
      BY <2>1, <3>1
  <2> QED
    BY <2>2, <2>3, <2>4 DEF Ends, r
<1> QED
  BY <1>3, <1>4 DEF Ends

\* What follows the frame that is read is what the page will read next.
LEMMA EndsNext ==
  ASSUME NEW q \in Seq(Frames), q # <<>>, NEW v, NEW p,
         Ends(q, 1, v, p) \/ (Ends(q, 0, v, p) /\ ~Turning(Head(q)))
  PROVE  Ends(Tail(q), 0, v, p)
<1> DEFINE r == Tail(q)
<1>1. /\ Len(q) \in Nat /\ DOMAIN q = 1..Len(q) /\ DOMAIN r = 1..(Len(q) - 1) /\ Head(q) = q[1]
      /\ \A j \in DOMAIN r : j + 1 \in DOMAIN q /\ r[j] = q[j + 1]
  BY Popped
<1> HIDE DEF r
<1>2. PICK m \in {0, 1} : Ends(q, m, v, p) /\ (m = 0 => ~Turning(q[1]))
  BY <1>1
<1>3. CASE p = v /\ \A j \in DOMAIN q : m < j => ~Turning(q[j])
  <2>1. ASSUME NEW j \in DOMAIN r PROVE ~Turning(r[j])
    <3>1. j + 1 \in DOMAIN q /\ m < j + 1 /\ r[j] = q[j + 1]
      BY <1>1
    <3> QED
      BY <1>3, <3>1
  <2> QED
    BY <1>3, <2>1 DEF Ends, r
<1>4. CASE \E j \in DOMAIN q : /\ m < j /\ q[j] = WindowClosed(v)
                               /\ \A k \in DOMAIN q : m < k /\ k < j => ~Turning(q[k])
  <2>1. PICK j \in DOMAIN q : /\ m < j /\ q[j] = WindowClosed(v)
                              /\ \A k \in DOMAIN q : m < k /\ k < j => ~Turning(q[k])
    BY <1>4
  <2>2. Turning(q[j])
    BY <2>1 DEF Turning, WindowClosed, Frame
  <2>3. 1 < j
    BY <1>1, <1>2, <2>1, <2>2
  <2>4. j - 1 \in DOMAIN r /\ 0 < j - 1 /\ (j - 1) + 1 = j
    BY <1>1, <2>1, <2>3
  <2>5. r[j - 1] = WindowClosed(v)
    BY <1>1, <2>1, <2>4
  <2>6. ASSUME NEW k \in DOMAIN r, k < j - 1 PROVE ~Turning(r[k])
    <3>1. k + 1 \in DOMAIN q /\ m < k + 1 /\ k + 1 < j /\ r[k] = q[k + 1]
      BY <1>1, <2>4, <2>6
    <3> QED
      BY <2>1, <3>1
  <2> QED
    BY <2>4, <2>5, <2>6 DEF Ends, r
<1> QED
  BY <1>2, <1>3, <1>4 DEF Ends

-----------------------------------------------------------------------------
(* What the page makes of a frame *)

\* A form that waits for nothing.
Becomes(g, p, s) == g \in Forms /\ g.prompt = p /\ g.submitted = s /\ ~g.pending

LEMMA AfterFacts ==
  ASSUME NEW f \in Forms, NEW x \in Frames
  PROVE  LET g == After(f, x)
         IN  /\ g \in Forms
             /\ x.type = "your_turn" => Becomes(g, x.v, f.submitted) /\ ~g.accepted
             /\ x.type = "window_closed" =>
                  IF f.prompt # x.v \/ f.submitted = x.v THEN g = f
                  ELSE Becomes(g, None, f.submitted) /\ ~g.accepted
             /\ x.type = "action_accepted" => Becomes(g, f.prompt, f.submitted) /\ g.accepted
             /\ x.type = "action_result" =>
                  /\ Becomes(g, IF x.v = 1 /\ f.prompt = f.submitted THEN None ELSE f.prompt, None)
                  /\ ~g.accepted
             /\ x.type \in {"not_your_turn", "game_over"} =>
                  Becomes(g, None, None) /\ ~g.accepted
<1>1. x.type \in FrameTypes /\ x.v \in Nat
  BY DEF Frames
<1>2. ASSUME x.type = "your_turn" PROVE After(f, x) = SetPrompt(f, x.v)
  <2>1. x.type # "window_closed" /\ x.type # "action_accepted" /\ x.type # "action_result"
        /\ x.type \notin {"not_your_turn", "game_over"}
    BY <1>2
  <2> QED
    BY <1>2, <2>1, Zenon DEF After
<1>3. ASSUME x.type = "window_closed" PROVE After(f, x) = Cleared(f, x.v)
  <2>1. x.type # "your_turn" /\ x.type # "action_accepted" /\ x.type # "action_result"
        /\ x.type \notin {"not_your_turn", "game_over"}
    BY <1>3
  <2> QED
    BY <1>3, <2>1, Zenon DEF After
<1>4. ASSUME x.type = "action_accepted" PROVE After(f, x) = [f EXCEPT !.pending = FALSE, !.accepted = TRUE]
  <2>1. x.type # "your_turn" /\ x.type # "window_closed" /\ x.type # "action_result"
        /\ x.type \notin {"not_your_turn", "game_over"}
    BY <1>4
  <2> QED
    BY <1>4, <2>1, Zenon DEF After
<1>5. ASSUME x.type = "action_result" PROVE After(f, x) = Resolve(f, x.v = 1)
  <2>1. x.type # "your_turn" /\ x.type # "window_closed" /\ x.type # "action_accepted"
        /\ x.type \notin {"not_your_turn", "game_over"}
    BY <1>5
  <2> QED
    BY <1>5, <2>1, Zenon DEF After
<1>6. ASSUME x.type \in {"not_your_turn", "game_over"} PROVE After(f, x) = NoForm
  <2>1. x.type # "your_turn" /\ x.type # "window_closed"
        /\ x.type # "action_accepted" /\ x.type # "action_result"
    BY <1>6
  <2> QED
    BY <1>6, <2>1, Zenon DEF After
<1>7. Becomes(SetPrompt(f, x.v), x.v, f.submitted) /\ ~SetPrompt(f, x.v).accepted
  BY <1>1 DEF Becomes, SetPrompt, Forms, NoForm, None
<1>8. IF f.prompt # x.v \/ f.submitted = x.v THEN Cleared(f, x.v) = f
      ELSE Becomes(Cleared(f, x.v), None, f.submitted) /\ ~Cleared(f, x.v).accepted
  <2>1. CASE f.prompt # x.v \/ f.submitted = x.v
    BY <2>1 DEF Cleared
  <2>2. CASE ~(f.prompt # x.v \/ f.submitted = x.v)
    BY <1>1, <2>2 DEF Becomes, Cleared, Forms, NoForm, None
  <2> QED
    BY <2>1, <2>2
<1>9. LET g == [f EXCEPT !.pending = FALSE, !.accepted = TRUE]
      IN  Becomes(g, f.prompt, f.submitted) /\ g.accepted
  BY DEF Becomes, Forms
<1>10. /\ Becomes(Resolve(f, x.v = 1), IF x.v = 1 /\ f.prompt = f.submitted THEN None ELSE f.prompt, None)
       /\ ~Resolve(f, x.v = 1).accepted
  <2>1. CASE x.v = 1
    BY <2>1 DEF Becomes, Resolve, Forms, NoForm, None
  <2>2. CASE x.v # 1
    BY <2>2 DEF Becomes, Resolve, Forms, NoForm, None
  <2> QED
    BY <2>1, <2>2
<1>11. Becomes(NoForm, None, None) /\ ~NoForm.accepted
  BY DEF Becomes, Forms, NoForm, None
<1>12. f \in Forms
  OBVIOUS
<1>13. \A g, p, s : Becomes(g, p, s) => g \in Forms
  BY DEF Becomes
<1> DEFINE g == After(f, x)
<1>14. g \in Forms
  BY <1>1, <1>2, <1>3, <1>4, <1>5, <1>6, <1>7, <1>8, <1>9, <1>10, <1>11, <1>12, <1>13, Zenon
     DEF FrameTypes
<1> QED
  BY <1>2, <1>3, <1>4, <1>5, <1>6, <1>7, <1>8, <1>9, <1>10, <1>11, <1>14, Zenon

LEMMA OrderRead ==
  ASSUME NEW f \in Forms, NEW q \in Seq(Frames), q # <<>>, NEW st \in BOOLEAN, NEW n \in Nat,
         InOrder(f, q, st, n),
         NEW now \in BOOLEAN, now <=> st /\ After(f, Head(q)).prompt = f.prompt
  PROVE  InOrder(After(f, Head(q)), Tail(q), now, n)
<1> DEFINE g == After(f, Head(q))
           r == Tail(q)
           x == Head(q)
<1>1. /\ Len(q) \in Nat /\ 1 <= Len(q) /\ DOMAIN q = 1..Len(q) /\ DOMAIN r = 1..(Len(q) - 1)
      /\ x = q[1] /\ x \in Frames
      /\ \A j \in DOMAIN r : j + 1 \in DOMAIN q /\ r[j] = q[j + 1]
      /\ \A j \in DOMAIN q : q[j] \in Frames
  BY Popped, ElementOfSeq, LenProperties
<1>2. g \in Forms
  BY <1>1, AfterFacts
<1>3. 1 \in DOMAIN q
  BY <1>1
<1>4. ASSUME NEW i \in DOMAIN r, Asks(r[i])
      PROVE  /\ r[i].v \in Nat /\ r[i].v # None /\ f.prompt <= r[i].v /\ r[i].v <= n
             /\ Asks(x) => x.v <= r[i].v
             /\ \A j \in DOMAIN r : j < i /\ Asks(r[j]) => r[j].v <= r[i].v
             /\ f.submitted # None /\ f.submitted # f.prompt => f.submitted < r[i].v
  <2>1. i + 1 \in DOMAIN q /\ r[i] = q[i + 1] /\ 1 < i + 1 /\ q[i + 1] \in Frames /\ i \in Nat
    BY <1>1
  <2>2. \A j \in DOMAIN r : j < i => j + 1 \in DOMAIN q /\ j + 1 < i + 1 /\ r[j] = q[j + 1]
    BY <1>1
  <2> QED
    BY <1>1, <1>3, <1>4, <2>1, <2>2 DEF InOrder, Frames
<1>5. Asks(x) => x.v \in Nat /\ x.v # None /\ f.prompt <= x.v /\ x.v <= n
                 /\ (f.submitted # None /\ f.submitted # f.prompt => f.submitted < x.v)
  BY <1>1, <1>3 DEF InOrder, Frames
<1>6. f.prompt <= n /\ f.prompt \in Nat /\ f.submitted \in Nat
      /\ (f.submitted # None => IF f.submitted = f.prompt THEN st ELSE f.submitted < n)
  BY DEF InOrder, Forms
<1> HIDE DEF g, r, x
<1>7. CASE Asks(x)
  <2>2. g.prompt = x.v /\ g.submitted = f.submitted
    BY <1>1, <1>7, AfterFacts DEF Asks, Becomes, g, x
  <2>3. g.prompt <= n /\ \A i \in DOMAIN r : Asks(r[i]) =>
            /\ r[i].v # None /\ g.prompt <= r[i].v /\ r[i].v <= n
            /\ \A j \in DOMAIN r : j < i /\ Asks(r[j]) => r[j].v <= r[i].v
    BY <1>4, <1>5, <1>7, <2>2
  <2>4. ASSUME f.submitted # None
        PROVE  IF f.submitted = x.v THEN now
               ELSE f.submitted < n /\ \A i \in DOMAIN r : Asks(r[i]) => f.submitted < r[i].v
    <3>1. CASE f.submitted = x.v
      <4>1. f.submitted = f.prompt
        BY <1>5, <1>6, <1>7, <2>4, <3>1
      <4> QED
        BY <1>6, <2>2, <2>4, <3>1, <4>1 DEF g, x
    <3>2. CASE f.submitted # x.v
      <4>1. f.submitted < x.v
        BY <1>5, <1>6, <1>7, <2>4, <3>2
      <4> QED
        BY <1>4, <1>5, <1>6, <1>7, <3>2, <4>1
    <3> QED
      BY <3>1, <3>2
  <2> QED
    BY <2>2, <2>3, <2>4 DEF InOrder, g, r, x
<1>8. CASE ~Asks(x)
  <2>1. /\ g.prompt \in {f.prompt, None} /\ g.submitted \in {f.submitted, None}
        /\ g.submitted # None => g.prompt = f.prompt \/ f.prompt # f.submitted
    <3>1. x.type \in FrameTypes \ {"your_turn"}
      BY <1>1, <1>8 DEF Frames, Asks
    <3>2. /\ x.type = "window_closed" =>
              IF f.prompt # x.v \/ f.submitted = x.v THEN g = f
              ELSE g.prompt = None /\ g.submitted = f.submitted
          /\ x.type = "action_accepted" => g.prompt = f.prompt /\ g.submitted = f.submitted
          /\ x.type = "action_result" =>
               g.prompt = (IF x.v = 1 /\ f.prompt = f.submitted THEN None ELSE f.prompt)
               /\ g.submitted = None
          /\ x.type \in {"not_your_turn", "game_over"} => g.prompt = None /\ g.submitted = None
      BY <1>1, AfterFacts DEF Becomes, g, x
    <3>3. CASE x.type = "window_closed"
      BY <3>2, <3>3
    <3>4. CASE x.type = "action_accepted"
      BY <3>2, <3>4
    <3>5. CASE x.type = "action_result"
      BY <3>2, <3>5
    <3>6. CASE x.type \in {"not_your_turn", "game_over"}
      BY <3>2, <3>6
    <3> QED
      BY <3>1, <3>3, <3>4, <3>5, <3>6 DEF FrameTypes
  <2>2. g.prompt <= n /\ \A i \in DOMAIN r : Asks(r[i]) =>
            /\ r[i].v # None /\ g.prompt <= r[i].v /\ r[i].v <= n
            /\ \A j \in DOMAIN r : j < i /\ Asks(r[j]) => r[j].v <= r[i].v
    BY <1>4, <1>6, <2>1 DEF None
  <2>3. ASSUME g.submitted # None
        PROVE  IF g.submitted = g.prompt THEN now
               ELSE g.submitted < n /\ \A i \in DOMAIN r : Asks(r[i]) => g.submitted < r[i].v
    <3>1. g.submitted = f.submitted
      BY <2>1, <2>3
    <3>2. CASE f.submitted = f.prompt
      BY <1>6, <2>1, <2>3, <3>1, <3>2 DEF g, x
    <3>3. CASE f.submitted # f.prompt
      BY <1>4, <1>6, <2>1, <2>3, <3>1, <3>3
    <3> QED
      BY <3>2, <3>3
  <2> QED
    BY <2>2, <2>3 DEF InOrder, g, r, x
<1> QED
  BY <1>7, <1>8

LEMMA TurnRead ==
  ASSUME NEW f \in Forms, NEW q \in Seq(Frames), q # <<>>, NEW st \in BOOLEAN, NEW n \in Nat,
         NEW p, InOrder(f, q, st, n), InTurn(f, q, st, p),
         NEW now \in BOOLEAN, now <=> st /\ After(f, Head(q)).prompt = f.prompt
  PROVE  InTurn(After(f, Head(q)), Tail(q), now, p)
<1> DEFINE g == After(f, Head(q))
           r == Tail(q)
           x == Head(q)
<1>1. /\ Len(q) \in Nat /\ 1 <= Len(q) /\ DOMAIN q = 1..Len(q) /\ DOMAIN r = 1..(Len(q) - 1)
      /\ x = q[1] /\ x \in Frames
      /\ \A j \in DOMAIN r : j + 1 \in DOMAIN q /\ r[j] = q[j + 1]
  BY Popped
<1>2. \A i \in DOMAIN r : Asks(r[i]) => Ends(r, i, r[i].v, p)
  <2> SUFFICES ASSUME NEW i \in DOMAIN r, Asks(r[i]) PROVE Ends(r, i, r[i].v, p)
    OBVIOUS
  <2>1. i + 1 \in DOMAIN q /\ r[i] = q[i + 1]
    BY <1>1
  <2>2. Ends(q, i + 1, q[i + 1].v, p)
    BY <2>1 DEF InTurn
  <2> QED
    BY <2>1, <2>2, EndsPopped
<1>3. ASSUME g.prompt # None, ~now PROVE Ends(r, 0, g.prompt, p)
  <2>1. CASE Asks(x)
    <3>1. g.prompt = x.v
      BY <1>1, <2>1, AfterFacts DEF Asks, Becomes
    <3>2. Ends(q, 1, x.v, p)
      BY <1>1, <2>1 DEF InTurn
    <3> QED
      BY <3>1, <3>2, EndsNext
  <2>2. CASE x.type = "window_closed"
    <3>1. g.prompt = f.prompt /\ (f.prompt # x.v \/ f.submitted = x.v)
      BY <1>1, <1>3, <2>2, AfterFacts DEF Becomes
    <3>2. ~st /\ f.prompt # None
      BY <1>3, <3>1
    <3>3. Ends(q, 0, f.prompt, p)
      BY <3>2 DEF InTurn
    <3>4. Turning(q[1]) /\ 1 \in DOMAIN q
      BY <1>1, <2>2 DEF Turning
    <3>5. PICK j \in DOMAIN q : /\ 0 < j /\ q[j] = WindowClosed(f.prompt)
                                /\ \A k \in DOMAIN q : 0 < k /\ k < j => ~Turning(q[k])
      BY <3>3, <3>4 DEF Ends
    <3>6. j = 1
      BY <1>1, <3>4, <3>5
    <3>7. x.v = f.prompt
      BY <1>1, <3>5, <3>6 DEF WindowClosed, Frame
    <3> QED
      BY <3>1, <3>2, <3>7 DEF InOrder
  <2>3. CASE ~Turning(x)
    <3>1. g.prompt = f.prompt
      <4>1. x.type \in {"action_accepted", "action_result", "not_your_turn", "game_over"}
        BY <1>1, <2>3 DEF Turning, Frames, FrameTypes
      <4>2. g.prompt \in {f.prompt, None}
        BY <1>1, <4>1, AfterFacts DEF Becomes
      <4> QED
        BY <1>3, <4>2
    <3>2. Ends(q, 0, f.prompt, p)
      BY <1>3, <3>1 DEF InTurn
    <3> QED
      BY <2>3, <3>1, <3>2, EndsNext
  <2> QED
    BY <2>1, <2>2, <2>3 DEF Turning, Asks
<1> QED
  BY <1>2, <1>3 DEF InTurn

LEMMA UntakenRead ==
  ASSUME NEW q \in Seq(Frames), q # <<>>, Untaken(q)
  PROVE  Untaken(Tail(q))
<1> DEFINE r == Tail(q)
<1>1. /\ Len(q) \in Nat /\ DOMAIN q = 1..Len(q) /\ DOMAIN r = 1..(Len(q) - 1)
      /\ \A j \in DOMAIN r : j + 1 \in DOMAIN q /\ r[j] = q[j + 1]
  BY Popped
<1> HIDE DEF r
<1> SUFFICES ASSUME NEW i \in DOMAIN r, Takes(r[i]) PROVE \E j \in DOMAIN r : i < j /\ Asks(r[j])
  BY DEF Untaken, r
<1>2. PICK j \in DOMAIN q : i + 1 < j /\ Asks(q[j])
  BY <1>1 DEF Untaken
<1>3. j - 1 \in DOMAIN r /\ i < j - 1 /\ r[j - 1] = q[j]
  BY <1>1, <1>2
<1> QED
  BY <1>2, <1>3

LEMMA ShownRead ==
  ASSUME NEW f \in Forms, NEW q \in Seq(Frames), q # <<>>, NEW w \in Nat, NEW u \in Seq(Nat),
         NEW p \in Nat, p # None, Shown(f, q, w, u, p), Head(q).type # "game_over",
         w # None => f.prompt = None /\ f.submitted = None,
         f.submitted = p /\ u = <<>> => Untaken(q),
         f.submitted # None /\ u # <<>> => u[Len(u)] = f.submitted,
         NEW w2, w2 = IF Turning(Head(q)) THEN None
                      ELSE IF Head(q).type = "not_your_turn" /\ f.prompt # f.submitted
                      THEN f.prompt ELSE w
  PROVE  Shown(After(f, Head(q)), Tail(q), w2, u, p)
<1> DEFINE g == After(f, Head(q))
           r == Tail(q)
           x == Head(q)
<1>1. /\ Len(q) \in Nat /\ 1 <= Len(q) /\ DOMAIN q = 1..Len(q) /\ DOMAIN r = 1..(Len(q) - 1)
      /\ x = q[1] /\ x \in Frames
      /\ \A j \in DOMAIN r : j + 1 \in DOMAIN q /\ r[j] = q[j + 1]
  BY Popped
<1>2. CASE Arrives(q, p)
  <2>1. PICK i \in DOMAIN q : q[i] = YourTurn(p) /\ \A j \in DOMAIN q : i < j => ~Turning(q[j])
    BY <1>2 DEF Arrives
  <2>2. CASE i = 1
    <3>1. x.type = "your_turn" /\ x.v = p
      BY <1>1, <2>1, <2>2 DEF YourTurn, Frame
    <3>2. g.prompt = p
      BY <1>1, <3>1, AfterFacts DEF Becomes
    <3>3. ASSUME NEW j \in DOMAIN r PROVE ~Turning(r[j])
      <4>1. j + 1 \in DOMAIN q /\ 1 < j + 1 /\ r[j] = q[j + 1]
        BY <1>1
      <4> QED
        BY <2>1, <2>2, <4>1
    <3> QED
      BY <3>2, <3>3 DEF Shown, Still
  <2>3. CASE i # 1
    <3>1. i - 1 \in DOMAIN r /\ (i - 1) + 1 = i /\ i \in Nat
      BY <1>1, <2>1, <2>3
    <3>2. r[i - 1] = YourTurn(p)
      BY <1>1, <2>1, <3>1
    <3>3. ASSUME NEW j \in DOMAIN r, i - 1 < j PROVE ~Turning(r[j])
      <4>1. j + 1 \in DOMAIN q /\ i < j + 1 /\ r[j] = q[j + 1]
        BY <1>1, <3>1, <3>3
      <4> QED
        BY <2>1, <4>1
    <3> QED
      BY <3>1, <3>2, <3>3 DEF Shown, Arrives
  <2> QED
    BY <2>2, <2>3
<1>3. CASE Still(q) /\ (p \in {f.prompt, w} \/ \E i \in DOMAIN u : u[i] = p)
  <2>1. ~Turning(x) /\ Still(r)
    BY <1>1, <1>3 DEF Still
  <2>2. x.type \in {"action_accepted", "action_result", "not_your_turn"}
    BY <1>1, <2>1 DEF Turning, Frames, FrameTypes
  <2>3. CASE \E i \in DOMAIN u : u[i] = p
    BY <2>1, <2>3 DEF Shown
  <2>4. CASE p = w
    <3>1. w2 = w
      BY <2>1, <2>4
    <3> QED
      BY <2>1, <2>4, <3>1 DEF Shown
  <2>5. CASE p = f.prompt /\ p # f.submitted
    <3>1. CASE x.type = "not_your_turn"
      <4>1. w2 = p
        BY <2>1, <2>5, <3>1
      <4> QED
        BY <2>1, <4>1 DEF Shown
    <3>2. CASE x.type # "not_your_turn"
      <4>1. g.prompt = f.prompt
        BY <1>1, <2>2, <2>5, <3>2, AfterFacts DEF Becomes
      <4> QED
        BY <2>1, <2>5, <4>1 DEF Shown
    <3> QED
      BY <3>1, <3>2
  <2>6. CASE p = f.prompt /\ p = f.submitted
    <3>1. CASE u # <<>>
      <4>1. Len(u) \in DOMAIN u
        BY <3>1, LenProperties, EmptySeq
      <4> QED
        BY <2>1, <2>6, <3>1, <4>1 DEF Shown
    <3>2. CASE u = <<>>
      <4>1. ~Takes(x)
        <5>1. Untaken(q) /\ 1 \in DOMAIN q
          BY <1>1, <2>6, <3>2
        <5>2. \A j \in DOMAIN q : ~Asks(q[j])
          BY <1>3 DEF Still, Turning, Asks
        <5> QED
          BY <1>1, <5>1, <5>2 DEF Untaken
      <4>2. x.type # "not_your_turn" /\ ~(x.type = "action_result" /\ x.v = 1)
        BY <1>1, <4>1 DEF Takes, Frame, Frames
      <4>3. g.prompt = f.prompt
        BY <1>1, <2>2, <4>2, AfterFacts DEF Becomes
      <4> QED
        BY <2>1, <2>6, <4>3 DEF Shown
    <3> QED
      BY <3>1, <3>2
  <2> QED
    BY <1>3, <2>3, <2>4, <2>5, <2>6
<1> QED
  BY <1>2, <1>3 DEF Shown

LEMMA AckedRead ==
  ASSUME NEW f \in Forms, NEW q \in Seq(Frames), q # <<>>, NEW l, NEW p, Acked(f, q, l, p)
  PROVE  Acked(After(f, Head(q)), Tail(q), l, p)
<1> DEFINE g == After(f, Head(q))
           r == Tail(q)
           x == Head(q)
<1>1. /\ Len(q) \in Nat /\ 1 <= Len(q) /\ DOMAIN q = 1..Len(q) /\ DOMAIN r = 1..(Len(q) - 1)
      /\ x = q[1] /\ x \in Frames /\ 1 \in DOMAIN q
      /\ \A j \in DOMAIN r : j + 1 \in DOMAIN q /\ r[j] = q[j + 1]
      /\ \A j \in DOMAIN q \ {1} : j - 1 \in DOMAIN r /\ r[j - 1] = q[j] /\ 1 < j
  BY Popped
<1>2. ASSUME NEW i \in DOMAIN r, r[i].type = "action_accepted", l = {}
      PROVE  \E j \in DOMAIN r : i < j /\ r[j].type = "action_result"
  <2>1. i + 1 \in DOMAIN q /\ r[i] = q[i + 1] /\ i \in Nat
    BY <1>1
  <2>2. PICK j \in DOMAIN q : i + 1 < j /\ q[j].type = "action_result"
    BY <1>2, <2>1 DEF Acked
  <2>3. j - 1 \in DOMAIN r /\ i < j - 1 /\ r[j - 1] = q[j]
    BY <1>1, <2>1, <2>2
  <2> QED
    BY <2>2, <2>3
<1>3. ASSUME g.accepted, l # {} => FALSE, p # None
      PROVE  \E i \in DOMAIN r : r[i].type \in {"your_turn", "action_result"}
  <2>1. CASE x.type = "action_accepted"
    <3>1. PICK j \in DOMAIN q : 1 < j /\ q[j].type = "action_result"
      BY <1>1, <1>3, <2>1 DEF Acked
    <3> QED
      BY <1>1, <3>1
  <2>2. CASE x.type # "action_accepted"
    <3>1. x.type = "window_closed" /\ g = f
      <4>1. x.type \in FrameTypes
        BY <1>1 DEF Frames
      <4> QED
        BY <1>1, <1>3, <2>2, <4>1, AfterFacts DEF FrameTypes
    <3>2. PICK i \in DOMAIN q : q[i].type \in {"your_turn", "action_result"}
      BY <1>3, <3>1 DEF Acked
    <3>3. i # 1
      BY <1>1, <3>1, <3>2
    <3> QED
      BY <1>1, <3>2, <3>3
  <2> QED
    BY <2>1, <2>2
<1> QED
  BY <1>2, <1>3 DEF Acked

LEMMA AwaitedRead ==
  ASSUME NEW f \in Forms, NEW q \in Seq(Frames), q # <<>>, NEW u, NEW c, Awaited(f, q, u, c)
  PROVE  Awaited(After(f, Head(q)), Tail(q), u, c)
<1> DEFINE g == After(f, Head(q))
           r == Tail(q)
           x == Head(q)
<1>1. /\ Len(q) \in Nat /\ 1 <= Len(q) /\ DOMAIN q = 1..Len(q) /\ DOMAIN r = 1..(Len(q) - 1)
      /\ x = q[1] /\ x \in Frames
      /\ \A j \in DOMAIN q \ {1} : j - 1 \in DOMAIN r /\ r[j - 1] = q[j]
  <2>1. /\ Len(q) \in Nat /\ 1 <= Len(q) /\ DOMAIN q = 1..Len(q) /\ DOMAIN r = 1..(Len(q) - 1)
        /\ x = q[1] /\ x \in Frames /\ \A j \in DOMAIN r : r[j] = q[j + 1]
    BY Popped
  <2> QED
    BY <2>1
<1> SUFFICES ASSUME g.pending, u = <<>>, c = None PROVE \E i \in DOMAIN r : ~Turning(r[i])
  BY DEF Awaited
<1>2. x.type = "window_closed" /\ g = f
  <2>1. x.type \in FrameTypes
    BY <1>1 DEF Frames
  <2> QED
    BY <1>1, <2>1, AfterFacts DEF FrameTypes, Becomes
<1>3. PICK i \in DOMAIN q : ~Turning(q[i])
  BY <1>2 DEF Awaited
<1>4. i # 1
  BY <1>1, <1>2, <1>3 DEF Turning
<1> QED
  BY <1>1, <1>3, <1>4

-----------------------------------------------------------------------------
(* A frame is added *)

LEMMA OrderPush ==
  ASSUME NEW f \in Forms, NEW q \in Seq(Frames), NEW st \in BOOLEAN, NEW n \in Nat, NEW m \in Nat,
         InOrder(f, q, st, n), n <= m, NEW x \in Frames, Asks(x) => x.v = m /\ m # None
  PROVE  InOrder(f, Append(q, x), st, m)
<1> DEFINE r == Append(q, x)
<1>1. /\ Len(q) \in Nat /\ DOMAIN q = 1..Len(q) /\ DOMAIN r = 1..(Len(q) + 1)
      /\ r[Len(q) + 1] = x /\ \A j \in DOMAIN q : r[j] = q[j] /\ q[j] \in Frames
  BY Pushed, ElementOfSeq, LenProperties
<1>2. \A j \in DOMAIN r : (j \in DOMAIN q /\ r[j] = q[j]) \/ (j = Len(q) + 1 /\ r[j] = x)
  BY <1>1
<1>3. f.prompt \in Nat /\ f.submitted \in Nat /\ f.prompt <= m
  BY DEF InOrder, Forms
<1> HIDE DEF r
<1>4. ASSUME NEW i \in DOMAIN r, Asks(r[i])
      PROVE  /\ r[i].v # None /\ f.prompt <= r[i].v /\ r[i].v <= m
             /\ \A j \in DOMAIN r : j < i /\ Asks(r[j]) => r[j].v <= r[i].v
  <2>1. CASE i \in DOMAIN q /\ r[i] = q[i]
    <3>1. r[i].v \in Nat /\ r[i].v <= n /\ f.prompt <= r[i].v /\ r[i].v # None
      BY <1>1, <1>4, <2>1 DEF InOrder, Frames
    <3>2. \A j \in DOMAIN r : j < i => j \in DOMAIN q /\ r[j] = q[j]
      BY <1>1, <2>1
    <3> QED
      BY <1>4, <2>1, <3>1, <3>2 DEF InOrder
  <2>2. CASE i = Len(q) + 1 /\ r[i] = x
    <3>1. r[i].v = m /\ m # None
      BY <1>4, <2>2
    <3>2. \A j \in DOMAIN r : j < i /\ Asks(r[j]) => j \in DOMAIN q /\ r[j] = q[j] /\ r[j].v \in Nat /\ r[j].v <= n
      BY <1>1, <2>2 DEF InOrder, Frames
    <3> QED
      BY <1>3, <3>1, <3>2
  <2> QED
    BY <1>2, <2>1, <2>2
<1>5. ASSUME f.submitted # None, f.submitted # f.prompt
      PROVE  f.submitted < m /\ \A i \in DOMAIN r : Asks(r[i]) => f.submitted < r[i].v
  <2>1. f.submitted < m
    BY <1>3, <1>5 DEF InOrder
  <2> QED
    BY <1>2, <1>5, <2>1 DEF InOrder
<1>6. f.submitted # None /\ f.submitted = f.prompt => st
  BY DEF InOrder
<1> QED
  BY <1>3, <1>4, <1>5, <1>6 DEF InOrder, r

\* f has the prompt that is shown, and r the frames, after a frame was added.
LEMMA TurnPush ==
  ASSUME NEW f, NEW q \in Seq(Frames), NEW st, NEW p \in Nat, NEW n \in Nat, NEW x \in Frames,
         InTurn(f, q, st, p), \A i \in DOMAIN q : Asks(q[i]) => q[i].v # None,
         \/ ~Turning(x) /\ n = p
         \/ x = WindowClosed(p) /\ n = None
         \/ p = None /\ x = YourTurn(n)
  PROVE  InTurn(f, Append(q, x), st, n)
<1> DEFINE r == Append(q, x)
<1>1. /\ Len(q) \in Nat /\ DOMAIN q = 1..Len(q) /\ DOMAIN r = 1..(Len(q) + 1)
      /\ r[Len(q) + 1] = x /\ \A j \in DOMAIN q : r[j] = q[j]
  BY Pushed
<1>2. ASSUME NEW i \in Nat, NEW v, v # None, i < Len(q) + 1, Ends(q, i, v, p)
      PROVE  Ends(r, i, v, n)
  BY <1>2, EndsPush, EndsClosed, EndsOpened
<1>3. f.prompt # None /\ ~st => Ends(r, 0, f.prompt, n)
  BY <1>1, <1>2 DEF InTurn
<1>4. ASSUME NEW i \in DOMAIN r, Asks(r[i]) PROVE Ends(r, i, r[i].v, n)
  <2>1. CASE i \in DOMAIN q
    <3>1. Ends(q, i, r[i].v, p) /\ r[i].v # None
      BY <1>1, <1>4, <2>1 DEF InTurn
    <3> QED
      BY <1>1, <1>2, <2>1, <3>1
  <2>2. CASE i = Len(q) + 1
    <3>1. Asks(x) /\ r[i] = x
      BY <1>1, <1>4, <2>2
    <3>2. x = YourTurn(n)
      BY <3>1 DEF Asks, Turning, WindowClosed, Frame
    <3>3. r[i].v = n
      BY <3>1, <3>2 DEF YourTurn, Frame
    <3>4. \A j \in DOMAIN r : ~(i < j)
      BY <1>1, <2>2
    <3> QED
      BY <3>3, <3>4 DEF Ends
  <2> QED
    BY <1>1, <2>1, <2>2
<1> QED
  BY <1>3, <1>4 DEF InTurn

LEMMA ShownPush ==
  ASSUME NEW f, NEW q \in Seq(Frames), NEW w, NEW u, NEW p, NEW x \in Frames,
         x = YourTurn(p) \/ (~Turning(x) /\ Shown(f, q, w, u, p))
  PROVE  Shown(f, Append(q, x), w, u, p)
<1> DEFINE r == Append(q, x)
<1>1. /\ Len(q) \in Nat /\ DOMAIN q = 1..Len(q) /\ DOMAIN r = 1..(Len(q) + 1)
      /\ r[Len(q) + 1] = x /\ \A j \in DOMAIN q : j \in DOMAIN r /\ r[j] = q[j]
  BY Pushed
<1>2. \A j \in DOMAIN r : (j \in DOMAIN q /\ r[j] = q[j]) \/ (j = Len(q) + 1 /\ r[j] = x)
  BY <1>1
<1> HIDE DEF r
<1>3. CASE x = YourTurn(p)
  <2>1. Len(q) + 1 \in DOMAIN r /\ \A j \in DOMAIN r : ~(Len(q) + 1 < j)
    BY <1>1
  <2> QED
    BY <1>1, <1>3, <2>1 DEF Shown, Arrives, r
<1>4. CASE ~Turning(x) /\ Arrives(q, p)
  <2>1. PICK i \in DOMAIN q : q[i] = YourTurn(p) /\ \A j \in DOMAIN q : i < j => ~Turning(q[j])
    BY <1>4 DEF Arrives
  <2>2. i \in DOMAIN r /\ r[i] = YourTurn(p) /\ \A j \in DOMAIN r : i < j => ~Turning(r[j])
    BY <1>1, <1>2, <1>4, <2>1
  <2> QED
    BY <2>2 DEF Shown, Arrives, r
<1>5. CASE ~Turning(x) /\ ~Arrives(q, p)
  <2>1. Still(q) /\ (p \in {f.prompt, w} \/ \E i \in DOMAIN u : u[i] = p)
    BY <1>3, <1>5 DEF Shown, YourTurn, Frame, Turning
  <2>2. Still(r)
    BY <1>2, <1>5, <2>1 DEF Still
  <2> QED
    BY <2>1, <2>2 DEF Shown, r
<1> QED
  BY <1>3, <1>4, <1>5

LEMMA UntakenPush ==
  ASSUME NEW q \in Seq(Frames), NEW x \in Frames, Asks(x) \/ (Untaken(q) /\ ~Takes(x))
  PROVE  Untaken(Append(q, x))
<1> DEFINE r == Append(q, x)
<1>1. /\ Len(q) \in Nat /\ DOMAIN q = 1..Len(q) /\ DOMAIN r = 1..(Len(q) + 1)
      /\ r[Len(q) + 1] = x /\ \A j \in DOMAIN q : j \in DOMAIN r /\ r[j] = q[j]
  BY Pushed
<1> HIDE DEF r
<1> SUFFICES ASSUME NEW i \in DOMAIN r, Takes(r[i]) PROVE \E j \in DOMAIN r : i < j /\ Asks(r[j])
  BY DEF Untaken, r
<1>2. ~Takes(x)
  BY DEF Takes, Asks, Frame
<1>3. i \in DOMAIN q /\ r[i] = q[i] /\ i < Len(q) + 1 /\ Len(q) + 1 \in DOMAIN r
  BY <1>1, <1>2
<1>4. CASE Asks(x)
  BY <1>1, <1>3, <1>4
<1>5. CASE Untaken(q)
  <2>1. PICK j \in DOMAIN q : i < j /\ Asks(q[j])
    BY <1>3, <1>5 DEF Untaken
  <2> QED
    BY <1>1, <2>1
<1> QED
  BY <1>4, <1>5

LEMMA AckedPush ==
  ASSUME NEW f, NEW q \in Seq(Frames), NEW l, NEW m, NEW p, NEW n, NEW x \in Frames,
         Acked(f, q, l, p),
         l # {} => m # {} \/ x.type = "action_result",
         x.type = "action_accepted" => m # {},
         p = None => n = None \/ Asks(x)
  PROVE  Acked(f, Append(q, x), m, n)
<1> DEFINE r == Append(q, x)
<1>1. /\ Len(q) \in Nat /\ DOMAIN q = 1..Len(q) /\ DOMAIN r = 1..(Len(q) + 1)
      /\ Len(q) + 1 \in DOMAIN r /\ r[Len(q) + 1] = x
      /\ \A j \in DOMAIN q : j \in DOMAIN r /\ r[j] = q[j] /\ j < Len(q) + 1
      /\ \A j \in DOMAIN r : j \in DOMAIN q \/ j = Len(q) + 1
  <2>1. /\ Len(q) \in Nat /\ DOMAIN q = 1..Len(q) /\ DOMAIN r = 1..(Len(q) + 1)
        /\ r[Len(q) + 1] = x /\ \A j \in DOMAIN q : j \in DOMAIN r /\ r[j] = q[j]
    BY Pushed
  <2> QED
    BY <2>1
<1> HIDE DEF r
<1>2. ASSUME f.accepted, m = {}, n # None
      PROVE  \E i \in DOMAIN r : r[i].type \in {"your_turn", "action_result"}
  <2>1. CASE x.type \in {"your_turn", "action_result"}
    BY <1>1, <2>1
  <2>2. CASE x.type \notin {"your_turn", "action_result"}
    <3>1. l = {} /\ p # None
      BY <1>2, <2>2 DEF Asks
    <3>2. PICK i \in DOMAIN q : q[i].type \in {"your_turn", "action_result"}
      BY <1>2, <3>1 DEF Acked
    <3> QED
      BY <1>1, <3>2
  <2> QED
    BY <2>1, <2>2
<1>3. ASSUME NEW i \in DOMAIN r, r[i].type = "action_accepted", m = {}
      PROVE  \E j \in DOMAIN r : i < j /\ r[j].type = "action_result"
  <2>1. i \in DOMAIN q /\ r[i] = q[i]
    BY <1>1, <1>3
  <2>2. CASE x.type = "action_result"
    BY <1>1, <2>1, <2>2
  <2>3. CASE x.type # "action_result"
    <3>1. PICK j \in DOMAIN q : i < j /\ q[j].type = "action_result"
      BY <1>3, <2>1, <2>3 DEF Acked
    <3> QED
      BY <1>1, <3>1
  <2> QED
    BY <2>2, <2>3
<1> QED
  BY <1>2, <1>3 DEF Acked, r

LEMMA AwaitedPush ==
  ASSUME NEW f, NEW q \in Seq(Frames), NEW u, NEW c, NEW x \in Frames,
         ~Turning(x) \/ Awaited(f, q, u, c)
  PROVE  Awaited(f, Append(q, x), u, c)
<1> DEFINE r == Append(q, x)
<1>1. /\ Len(q) \in Nat /\ DOMAIN q = 1..Len(q) /\ DOMAIN r = 1..(Len(q) + 1)
      /\ r[Len(q) + 1] = x /\ \A j \in DOMAIN q : j \in DOMAIN r /\ r[j] = q[j]
  BY Pushed
<1>2. Len(q) + 1 \in DOMAIN r
  BY <1>1
<1> HIDE DEF r
<1> QED
  BY <1>1, <1>2 DEF Awaited, r

-----------------------------------------------------------------------------
(* What a step of the runner, the ports and their clients means to a page *)

SeatMoves(s) ==
  \/ prompt'[s] = prompt[s] /\ (prompt[s] # None /\ pending'[s] = None => pending[s] = None)
  \/ prompt[s] # None /\ prompt'[s] = None
  \/ prompt[s] = None /\ prompt'[s] = version' /\ pc' # "over"

Moves ==
  /\ version <= version'
  /\ \A s \in Seats : SeatMoves(s)
  /\ DOMAIN calls \subseteq DOMAIN calls'
  /\ \A c \in DOMAIN calls :
       /\ calls'[c].seat = calls[c].seat
       /\ calls'[c].verdict = "ok" => calls[c].verdict = "ok" \/ version < version'
  /\ pc = "over" => pc' = "over"
  /\ pc # "over" /\ pc' = "over" => prompt' = prompt

\* Prompts are opened where there are none.
LEMMA ArmMoves ==
  ASSUME WindowInv, NEW seats \in SUBSET Seats, Arm(seats), UNCHANGED engine,
         pc \notin {"gather", "ask", "over"}, pc' # "over"
  PROVE  version <= version' /\ \A s \in Seats : SeatMoves(s)
<1>1. \A s \in Seats : prompt[s] = None
  BY NoPrompts DEF WindowInv
<1>2. version' = version /\ version \in Nat
  BY Types DEF engine, WindowInv
<1>3. ASSUME NEW s \in Seats PROVE SeatMoves(s)
  <2>1. prompt'[s] = IF s \in seats THEN version ELSE prompt[s]
    BY DEF Arm
  <2> QED
    BY <1>1, <1>2, <2>1 DEF SeatMoves
<1> QED
  BY <1>2, <1>3

LEMMA DisarmMoves ==
  ASSUME WindowInv, NEW s \in Seats, Disarm(s), prompt[s] # None, UNCHANGED engine
  PROVE  version <= version' /\ \A u \in Seats : SeatMoves(u)
<1>1. prompt'[s] = None /\ \A u \in Seats \ {s} : prompt'[u] = prompt[u] /\ pending'[u] = pending[u]
  BY DEF Disarm, WindowInv, TypeOK
<1>2. version' = version /\ version \in Nat
  BY Types DEF engine, WindowInv
<1> QED
  BY <1>1, <1>2 DEF SeatMoves

LEMMA RunnerMoves == WindowInv /\ RunnerStep => Moves
<1> SUFFICES ASSUME WindowInv, RunnerStep PROVE Moves
  OBVIOUS
<1>0. version \in Nat
  BY Types DEF WindowInv
<1>1. ASSUME UNCHANGED <<version, prompt, pending, calls>>, pc # "over" PROVE Moves
  BY <1>0, <1>1 DEF Moves, SeatMoves
<1>2. CASE OpenTogether
  <2>1. version <= version' /\ \A s \in Seats : SeatMoves(s)
    BY <1>2, ArmMoves DEF OpenTogether, WindowInv, TypeOK
  <2> QED
    BY <1>2, <2>1 DEF OpenTogether, Moves
<1>3. CASE DriveNext
  <2>1. Seat \in Seats
    BY <1>3, SeatFacts DEF DriveNext, WindowInv, TypeOK
  <2>2. version <= version' /\ \A s \in Seats : SeatMoves(s)
    BY <1>3, <2>1, ArmMoves DEF DriveNext
  <2> QED
    BY <1>3, <2>2 DEF DriveNext, Moves
<1>4. CASE AskAgain
  <2>1. Seat \in Seats
    BY <1>4, DrivenSeat DEF AskAgain, WindowInv, Driving
  <2>2. version <= version' /\ \A s \in Seats : SeatMoves(s)
    BY <1>4, <2>1, ArmMoves DEF AskAgain
  <2> QED
    BY <1>4, <2>2 DEF AskAgain, Moves
<1>5. CASE Reject
  <2>1. Seat \in Seats /\ "rejected" \in Verdicts \ {"none"}
    BY <1>5, DrivenSeat DEF Reject, WindowInv, Driving, Verdicts
  <2>2. /\ DOMAIN calls' = DOMAIN calls
        /\ \A c \in DOMAIN calls :
             /\ calls'[c].seat = calls[c].seat
             /\ calls'[c].verdict = IF c = outcome[Seat] /\ calls[c].verdict = "none"
                                      THEN "rejected" ELSE calls[c].verdict
    BY <1>5, <2>1, ToldFacts DEF Reject, Notify, WindowInv
  <2> QED
    BY <1>0, <1>5, <2>2 DEF Reject, engine, Moves, SeatMoves
<1>6. CASE Accept
  <2>1. version' = version + 1
    <3>1. PICK ends \in BOOLEAN : Step(Seat, ends)
      BY <1>6 DEF Accept
    <3> QED
      BY <3>1 DEF Step
  <2>2. DOMAIN calls' = DOMAIN calls /\ \A c \in DOMAIN calls : calls'[c].seat = calls[c].seat
    BY <1>6, AcceptFacts
  <2> QED
    BY <1>0, <1>6, <2>1, <2>2 DEF Accept, Moves, SeatMoves
<1>7. CASE ApplyDefault
  <2>1. version' = version + 1
    BY <1>7 DEF ApplyDefault, Step
  <2> QED
    BY <1>0, <1>7, <2>1 DEF ApplyDefault, Moves, SeatMoves
<1>8. CASE OpenInTurn \/ WindowOver \/ Skip \/ Gathered \/ TakeResult \/ GiveUp \/ GameOver
  BY <1>1, <1>8 DEF OpenInTurn, WindowOver, Skip, Gathered, TakeResult, GiveUp, GameOver, ports, engine
<1> QED
  BY <1>2, <1>3, <1>4, <1>5, <1>6, <1>7, <1>8 DEF RunnerStep

LEMMA ResumesMoves == WindowInv /\ ActResumes => Moves
<1> SUFFICES ASSUME WindowInv, NEW s \in Seats, Answered(s) \/ TimesOut(s) PROVE Moves
  BY DEF ActResumes
<1>1. CASE Answered(s)
  <2>1. version <= version' /\ \A u \in Seats : SeatMoves(u)
    BY <1>1, DisarmMoves DEF Answered, Waiting
  <2> QED
    BY <1>1, <2>1 DEF Answered, Waiting, Moves
<1>2. CASE TimesOut(s)
  <2>1. version <= version' /\ \A u \in Seats : SeatMoves(u)
    BY <1>2, DisarmMoves DEF TimesOut, Overdue, Waiting
  <2>2. "closed" \in Verdicts \ {"none"}
    BY DEF Verdicts
  <2>3. /\ DOMAIN calls' = DOMAIN calls
        /\ \A c \in DOMAIN calls :
             /\ calls'[c].seat = calls[c].seat
             /\ calls'[c].verdict = IF c = outcome[s] /\ calls[c].verdict = "none"
                                      THEN "closed" ELSE calls[c].verdict
    BY <1>2, <2>2, ToldFacts DEF TimesOut, CloseOutcome, Notify, WindowInv
  <2> QED
    BY <1>2, <2>1, <2>3 DEF TimesOut, Overdue, Waiting, Moves
<1> QED
  BY <1>1, <1>2

\* What a submission changes.
LEMMA SubmitFacts ==
  ASSUME WindowInv, NEW s \in Seats, NEW tag \in {None} \cup 1..version, Submit(s, tag)
  PROVE  LET n == Len(calls) + 1
         IN  /\ Len(calls') = n /\ n \in Nat /\ n # None /\ n \notin DOMAIN calls
             /\ DOMAIN calls' = DOMAIN calls \cup {n}
             /\ calls'[n].seat = s /\ calls'[n].verdict = "none"
             /\ \A c \in DOMAIN calls : calls'[c] = calls[c]
             /\ pending' = [pending EXCEPT ![s] = n] /\ pending'[s] = n /\ prompt' = prompt
             /\ pending[s] = None /\ UNCHANGED <<engine, runner>>
<1> DEFINE sub == [seat |-> s, tag |-> tag, window |-> opened, verdict |-> "none", applied |-> FALSE]
           n == Len(calls) + 1
<1>1. sub \in Submissions(version)
  <2>1. tag \in Nat /\ opened \in 1..version
    BY Types DEF None, WindowInv
  <2> QED
    BY <2>1 DEF Submissions, Verdicts
<1>2. calls \in Seq(Submissions(version)) /\ DOMAIN calls = 1..Len(calls) /\ Len(calls) \in Nat
  BY Types DEF WindowInv
<1>3. calls' = Append(calls, sub)
  BY DEF Submit
<1>4. /\ Len(calls') = n /\ DOMAIN calls' = 1..n /\ calls'[n] = sub
      /\ \A c \in 1..Len(calls) : calls'[c] = calls[c]
  <2> HIDE DEF sub
  <2>1. /\ calls' \in Seq(Submissions(version)) /\ Len(calls') = n
        /\ \A c \in 1..Len(calls) : calls'[c] = calls[c]
        /\ calls'[n] = sub
    BY <1>1, <1>2, <1>3, AppendProperties
  <2> QED
    BY <2>1, LenProperties
<1>5. pending' = [pending EXCEPT ![s] = n] /\ pending \in [Seats -> 0..Len(calls)]
  BY <1>4 DEF Submit, WindowInv, TypeOK
<1> QED
  BY <1>2, <1>4, <1>5 DEF Submit, Open, None

LEMMA SubmitMoves ==
  ASSUME WindowInv, NEW s \in Seats, NEW tag \in {None} \cup 1..version, Submit(s, tag)
  PROVE  Moves
<1>1. /\ \A c \in DOMAIN calls : c \in DOMAIN calls' /\ calls'[c] = calls[c]
      /\ prompt' = prompt /\ pending' = [pending EXCEPT ![s] = Len(calls) + 1]
      /\ pending[s] = None /\ UNCHANGED <<engine, runner>>
  BY SubmitFacts
<1>2. \A u \in Seats : u # s => pending'[u] = pending[u]
  BY <1>1 DEF WindowInv, TypeOK
<1>3. version \in Nat
  BY Types DEF WindowInv
<1> QED
  BY <1>1, <1>2, <1>3 DEF Moves, SeatMoves, engine, runner

LEMMA WindowMoves == WindowInv /\ [Next]_vars => Moves
<1> SUFFICES ASSUME WindowInv, [Next]_vars PROVE Moves
  OBVIOUS
<1>1. CASE ClientStep
  BY <1>1, SubmitMoves DEF ClientStep
<1>2. version \in Nat
  BY Types DEF WindowInv
<1>3. CASE Expire
  BY <1>2, <1>3 DEF Expire, Moves, SeatMoves, engine, ports
<1>4. CASE UNCHANGED vars
  BY <1>2, <1>4 DEF Moves, SeatMoves, vars, engine, runner, ports
<1> QED
  BY <1>1, <1>3, <1>4, RunnerMoves, ResumesMoves DEF Next

-----------------------------------------------------------------------------
(* Verdicts that are overdue *)

\* The submission c waits in its port, in the list of gather or in the runner's hand.
Held(c) ==
  LET s == calls[c].seat
  IN  \/ pending[s] = c
      \/ Unseen(s) /\ results[s] = c /\ s \in expected
      \/ pc = "judge" /\ s = Seat /\ given = c

\* Only the verdict on an action of a window that is over can be missing for good.
OverdueInv ==
  /\ pc = "gather" => todo \subseteq expected
  /\ \A c \in DOMAIN calls : calls[c].verdict = "none" => Held(c) \/ calls[c].window < opened

LEMMA SubmissionTypes ==
  ASSUME TypeOK, NEW c \in DOMAIN calls
  PROVE  /\ calls[c].seat \in Seats /\ calls[c].window \in 1..version /\ c \in Nat /\ c # None
         /\ opened \in Nat /\ version \in Nat
<1>1. calls[c] \in Submissions(version) /\ c \in 1..Len(calls) /\ Len(calls) \in Nat
  BY Types
<1> QED
  BY <1>1, Types DEF Submissions, None

\* Between two windows, and while the runner is not waiting, ports hold nothing.
LEMMA IdlePorts ==
  ASSUME WindowInv, pc \notin {"gather", "ask"}
  PROVE  \A c \in DOMAIN calls : pending[calls[c].seat] # c
<1> SUFFICES ASSUME NEW c \in DOMAIN calls PROVE pending[calls[c].seat] # c
  OBVIOUS
<1> QED
  BY NoPrompts, SubmissionTypes DEF WindowInv

LEMMA OpenOverdue ==
  ASSUME WindowInv, OverdueInv,
         OpenTogether \/ OpenInTurn \/ WindowOver \/ DriveNext \/ GameOver
  PROVE  OverdueInv'
<1>1. calls' = calls /\ opened' = opened
  BY DEF OpenTogether, OpenInTurn, WindowOver, DriveNext, GameOver, engine
<1>2. pc' = "gather" => todo' \subseteq expected'
  BY DEF OpenTogether, OpenInTurn, WindowOver, DriveNext, GameOver, engine
<1>3. ASSUME NEW c \in DOMAIN calls, calls[c].verdict = "none" PROVE calls[c].window < opened
  <2>1. pc \in {"top", "next"}
    BY DEF OpenTogether, OpenInTurn, WindowOver, DriveNext, GameOver
  <2>2. pending[calls[c].seat] # c
    BY <2>1, IdlePorts
  <2>3. ~(Unseen(calls[c].seat) /\ results[calls[c].seat] = c)
    <3>1. CASE pc = "top"
      BY <3>1 DEF Unseen, Driving
    <3>2. CASE pc = "next" /\ todo = {}
      BY <3>2 DEF Unseen
    <3>3. CASE ~together
      <4>1. results = Nothing
        BY <3>3 DEF WindowInv, ResultsInv
      <4> QED
        BY <4>1, SubmissionTypes DEF Nothing, WindowInv
    <3> QED
      BY <2>1, <3>1, <3>2, <3>3 DEF OpenTogether, OpenInTurn, WindowOver, DriveNext, GameOver
  <2> QED
    BY <1>3, <2>1, <2>2, <2>3 DEF OverdueInv, Held
<1> QED
  BY <1>1, <1>2, <1>3 DEF OverdueInv

\* While nobody answers, what is held stays where it is.
LEMMA StillHeld ==
  ASSUME WindowInv, OverdueInv, pc \notin {"gather", "ask", "judge"}, calls' = calls,
         opened' = opened, pc' # "gather",
         \A c \in DOMAIN calls : LET s == calls[c].seat IN
            Unseen(s) /\ results[s] = c /\ s \in expected => Held(c)'
  PROVE  OverdueInv'
<1>1. ASSUME NEW c \in DOMAIN calls, calls[c].verdict = "none"
      PROVE  Held(c)' \/ calls[c].window < opened
  <2>1. pending[calls[c].seat] # c
    BY IdlePorts
  <2>2. CASE calls[c].window < opened
    BY <2>2
  <2>3. CASE Held(c)
    BY <2>1, <2>3 DEF Held
  <2> QED
    BY <1>1, <2>2, <2>3 DEF OverdueInv
<1> QED
  BY <1>1 DEF OverdueInv

LEMMA SkipOverdue == WindowInv /\ OverdueInv /\ Skip => OverdueInv'
<1> SUFFICES ASSUME WindowInv, OverdueInv, Skip PROVE OverdueInv'
  OBVIOUS
<1>1. pc = "next" /\ pc' = "next" /\ Seat \notin expected /\ todo' = todo \ {Seat}
      /\ UNCHANGED <<results, expected, calls, opened>>
  BY DEF Skip, StillExpected, engine
<1>2. ASSUME NEW c \in DOMAIN calls,
             Unseen(calls[c].seat), results[calls[c].seat] = c, calls[c].seat \in expected
      PROVE  Held(c)'
  BY <1>1, <1>2 DEF Held, Unseen
<1> QED
  BY <1>1, <1>2, StillHeld

LEMMA GiveUpOverdue == WindowInv /\ OverdueInv /\ (GiveUp \/ AskAgain) => OverdueInv'
<1> SUFFICES ASSUME WindowInv, OverdueInv, GiveUp \/ AskAgain PROVE OverdueInv'
  OBVIOUS
<1>1. pc = "drive" /\ pc' \in {"default", "ask"}
      /\ UNCHANGED <<results, expected, calls, opened, todo>>
  BY DEF GiveUp, AskAgain, engine
<1>2. Seat' = Seat
  BY <1>1 DEF Seat
<1>3. ASSUME NEW c \in DOMAIN calls,
             Unseen(calls[c].seat), results[calls[c].seat] = c, calls[c].seat \in expected
      PROVE  Held(c)'
  BY <1>1, <1>2, <1>3 DEF Held, Unseen, Driving
<1> QED
  BY <1>1, <1>3, StillHeld

LEMMA TakeResultOverdue == WindowInv /\ OverdueInv /\ TakeResult => OverdueInv'
<1> SUFFICES ASSUME WindowInv, OverdueInv, TakeResult PROVE OverdueInv'
  OBVIOUS
<1>1. pc = "next" /\ UNCHANGED <<results, expected, calls, opened, todo>>
      /\ IF Failed(Seat) THEN pc' = "default" ELSE pc' = "judge" /\ given' = results[Seat]
  BY DEF TakeResult, engine
<1>2. Seat' = Seat
  BY <1>1 DEF Seat
<1>3. ASSUME NEW c \in DOMAIN calls,
             Unseen(calls[c].seat), results[calls[c].seat] = c, calls[c].seat \in expected
      PROVE  Held(c)'
  <2>1. CASE calls[c].seat = Seat
    <3>1. c <= MaxCalls /\ MaxCalls \in Nat /\ c \in Nat
      BY Types, Limits DEF WindowInv, CallsInv
    <3>2. ~Failed(Seat)
      BY <1>3, <2>1, <3>1 DEF Failed, Late
    <3> QED
      BY <1>1, <1>2, <1>3, <2>1, <3>2 DEF Held
  <2>2. CASE calls[c].seat # Seat
    BY <1>1, <1>2, <1>3, <2>2 DEF Held, Unseen, Driving
  <2> QED
    BY <2>1, <2>2
<1>4. pc' # "gather"
  BY <1>1
<1> QED
  BY <1>1, <1>3, <1>4, StillHeld

LEMMA GatheredOverdue == WindowInv /\ OverdueInv /\ Gathered => OverdueInv'
<1> SUFFICES ASSUME WindowInv, OverdueInv, Gathered PROVE OverdueInv'
  OBVIOUS
<1>1. pc = "gather" /\ pc' = "next" /\ UNCHANGED <<results, expected, calls, opened, todo, pending>>
  BY DEF Gathered, engine, ports
<1>2. \A s \in Seats : Unseen(s) => Unseen(s)'
  BY <1>1 DEF Unseen
<1>3. ASSUME NEW c \in DOMAIN calls, Held(c) PROVE Held(c)'
  BY <1>1, <1>2, <1>3, SubmissionTypes DEF Held, WindowInv
<1> QED
  BY <1>1, <1>3 DEF OverdueInv

LEMMA RejectOverdue == WindowInv /\ OverdueInv /\ Reject => OverdueInv'
<1> SUFFICES ASSUME WindowInv, OverdueInv, Reject PROVE OverdueInv'
  OBVIOUS
<1>0. Seat \in Seats /\ "rejected" \in Verdicts \ {"none"}
  BY DrivenSeat DEF Reject, WindowInv, Driving, Verdicts
<1>1. pc = "judge" /\ pc' = "drive" /\ UNCHANGED <<results, expected, opened, todo>>
  BY DEF Reject, engine
<1>2. /\ DOMAIN calls' = DOMAIN calls
      /\ \A c \in DOMAIN calls :
           /\ calls'[c].seat = calls[c].seat /\ calls'[c].window = calls[c].window
           /\ calls'[c].verdict = IF c = outcome[Seat] /\ calls[c].verdict = "none"
                                    THEN "rejected" ELSE calls[c].verdict
  BY <1>0, ToldFacts DEF Reject, Notify, WindowInv
<1>3. Seat' = Seat
  BY <1>1 DEF Seat
<1>4. ASSUME NEW c \in DOMAIN calls, calls'[c].verdict = "none"
      PROVE  Held(c)' \/ calls'[c].window < opened
  <2>1. calls[c].verdict = "none" /\ c # outcome[Seat]
    BY <1>2, <1>4
  <2>2. pending[calls[c].seat] # c
    BY <1>1, IdlePorts
  <2>3. given # c
    BY <1>1, <2>1 DEF WindowInv, RunnerInv, Unanswered
  <2>4. CASE calls[c].window < opened
    BY <1>2, <2>4
  <2>5. CASE Held(c)
    BY <1>1, <1>2, <1>3, <2>2, <2>3, <2>5 DEF Held, Unseen, Driving
  <2> QED
    BY <2>1, <2>4, <2>5 DEF OverdueInv
<1> QED
  BY <1>1, <1>2, <1>4 DEF OverdueInv

\* The engine's step ends the window or leaves the other seats expected.
LEMMA StepOverdue ==
  ASSUME WindowInv, OverdueInv, NEW ends, Step(Seat, ends), pc \in {"judge", "default"}, pc' = "next",
         todo' = todo \ {Seat}, results' = results, DOMAIN calls' = DOMAIN calls,
         \A c \in DOMAIN calls :
            /\ calls'[c].seat = calls[c].seat /\ calls'[c].window = calls[c].window
            /\ calls'[c].verdict = "none" => calls[c].verdict = "none" /\ (pc = "judge" => given # c)
  PROVE  OverdueInv'
<1> SUFFICES ASSUME NEW c \in DOMAIN calls, calls'[c].verdict = "none"
             PROVE  Held(c)' \/ calls[c].window < opened'
  BY DEF OverdueInv
<1>1. calls[c].window \in 1..version /\ version \in Nat
  BY SubmissionTypes DEF WindowInv
<1>2. CASE opened' = version + 1
  BY <1>1, <1>2
<1>3. CASE opened' = opened /\ expected' = expected \ {Seat}
  <2>1. pending[calls[c].seat] # c
    BY IdlePorts
  <2>2. CASE calls[c].window < opened
    BY <1>3, <2>2
  <2>3. CASE Held(c)
    BY <1>3, <2>1, <2>3 DEF Held, Unseen, Driving
  <2> QED
    BY <2>2, <2>3 DEF OverdueInv
<1> QED
  BY <1>2, <1>3 DEF Step, NextWindow

LEMMA AcceptOverdue == WindowInv /\ OverdueInv /\ Accept => OverdueInv'
<1> SUFFICES ASSUME WindowInv, OverdueInv, Accept PROVE OverdueInv'
  OBVIOUS
<1>1. PICK ends \in BOOLEAN : Step(Seat, ends)
  BY DEF Accept
<1>2. /\ DOMAIN calls' = DOMAIN calls /\ calls'[given].verdict = "ok"
      /\ \A c \in DOMAIN calls :
           /\ calls'[c].seat = calls[c].seat /\ calls'[c].window = calls[c].window
           /\ c # given => calls'[c].verdict = calls[c].verdict
  BY AcceptFacts
<1>3. \A c \in DOMAIN calls : calls'[c].verdict = "none" => calls[c].verdict = "none" /\ given # c
  BY <1>2
<1> QED
  BY <1>1, <1>2, <1>3, StepOverdue DEF Accept

LEMMA ApplyDefaultOverdue == WindowInv /\ OverdueInv /\ ApplyDefault => OverdueInv'
  BY StepOverdue DEF ApplyDefault

LEMMA AnsweredOverdue ==
  ASSUME WindowInv, OverdueInv, NEW s \in Seats, Answered(s)
  PROVE  OverdueInv'
<1>1. prompt[s] # None /\ pending[s] # None /\ (pc = "gather" \/ (pc = "ask" /\ s = Seat))
      /\ UNCHANGED <<expected, opened, todo, calls>>
  BY DEF Answered, Waiting, engine
<1>2. calls[pending[s]].seat = s /\ pending[s] \in DOMAIN calls
  BY <1>1 DEF WindowInv, PendingInv, Unanswered, OutcomesInv
<1>3. Seat' = Seat
  BY <1>1 DEF Seat
<1>4. pending'[s] = None /\ \A u \in Seats \ {s} : pending'[u] = pending[u]
  BY DEF Answered, Disarm, WindowInv, TypeOK
<1>5. ASSUME NEW c \in DOMAIN calls, Held(c) PROVE Held(c)'
  <2>0. calls[c].seat \in Seats /\ c # None
    BY SubmissionTypes DEF WindowInv
  <2>1. CASE pc = "gather"
    <3>1. pc' = "gather" /\ results' = [results EXCEPT ![s] = pending[s]]
      BY <2>1 DEF Answered
    <3>2. results'[s] = pending[s] /\ \A u \in Seats \ {s} : results'[u] = results[u]
      BY <3>1 DEF WindowInv, TypeOK
    <3>3. results[s] = None /\ s \in todo /\ s \in expected
      BY <1>1, <2>1 DEF WindowInv, PromptsInv, OverdueInv
    <3>4. CASE calls[c].seat = s
      <4>1. pending[s] = c
        BY <1>5, <2>0, <2>1, <3>3, <3>4 DEF Held
      <4> QED
        BY <1>1, <3>1, <3>2, <3>3, <3>4, <4>1 DEF Held, Unseen
    <3>5. CASE calls[c].seat # s
      BY <1>1, <1>4, <1>5, <2>0, <2>1, <3>1, <3>2, <3>5 DEF Held, Unseen
    <3> QED
      BY <3>4, <3>5
  <2>2. CASE pc = "ask"
    <3>1. pc' = "judge" /\ given' = pending[s] /\ results' = results /\ s = Seat
      BY <1>1, <2>2 DEF Answered
    <3>2. CASE pending[calls[c].seat] = c
      <4>1. prompt[calls[c].seat] # None
        BY <2>0, <3>2 DEF WindowInv, PendingInv
      <4>2. calls[c].seat = Seat
        BY <2>0, <2>2, <4>1 DEF WindowInv, PromptsInv
      <4> QED
        BY <1>1, <1>3, <3>1, <3>2, <4>2 DEF Held
    <3>3. CASE Unseen(calls[c].seat) /\ results[calls[c].seat] = c /\ calls[c].seat \in expected
      BY <1>1, <1>3, <2>2, <3>1, <3>3 DEF Held, Unseen, Driving
    <3> QED
      BY <1>5, <2>2, <3>2, <3>3 DEF Held
  <2> QED
    BY <1>1, <2>1, <2>2
<1>6. pc' = "gather" => pc = "gather"
  BY DEF Answered
<1> QED
  BY <1>1, <1>5, <1>6 DEF OverdueInv

LEMMA TimesOutOverdue ==
  ASSUME WindowInv, OverdueInv, NEW s \in Seats, TimesOut(s)
  PROVE  OverdueInv'
<1>1. prompt[s] # None /\ (pc = "gather" \/ (pc = "ask" /\ s = Seat))
      /\ UNCHANGED <<expected, opened, todo>>
  BY DEF TimesOut, Overdue, Waiting, engine
<1>0. "closed" \in Verdicts \ {"none"}
  BY DEF Verdicts
<1>2. /\ DOMAIN calls' = DOMAIN calls
      /\ \A c \in DOMAIN calls :
           /\ calls'[c].seat = calls[c].seat /\ calls'[c].window = calls[c].window
           /\ calls'[c].verdict = IF c = outcome[s] /\ calls[c].verdict = "none"
                                    THEN "closed" ELSE calls[c].verdict
  BY <1>0, ToldFacts DEF TimesOut, CloseOutcome, Notify, WindowInv
<1>3. Seat' = Seat
  BY <1>1 DEF Seat
<1>4. pending'[s] = None /\ \A u \in Seats \ {s} : pending'[u] = pending[u]
  BY DEF TimesOut, Disarm, WindowInv, TypeOK
<1>5. ASSUME NEW c \in DOMAIN calls, calls'[c].verdict = "none", Held(c) PROVE Held(c)'
  <2>0. calls[c].seat \in Seats /\ c # None
    BY SubmissionTypes DEF WindowInv
  <2>1. pending[s] # c
    <3>1. c # outcome[s]
      BY <1>2, <1>5
    <3> QED
      BY <2>0, <3>1 DEF WindowInv, PendingInv, Unanswered
  <2>2. CASE pc = "gather"
    <3>1. pc' = "gather" /\ results' = [results EXCEPT ![s] = Cancelled(s)]
      BY <2>2 DEF TimesOut
    <3>2. \A u \in Seats \ {s} : results'[u] = results[u]
      BY <3>1 DEF WindowInv, TypeOK
    <3>3. results[s] = None
      BY <1>1, <2>2 DEF WindowInv, PromptsInv
    <3>4. calls[c].seat # s
      BY <1>5, <2>0, <2>1, <2>2, <3>3 DEF Held
    <3> QED
      BY <1>1, <1>2, <1>4, <1>5, <2>0, <2>2, <3>1, <3>2, <3>4 DEF Held, Unseen
  <2>3. CASE pc = "ask"
    <3>1. pc' = "default" /\ results' = results /\ s = Seat
      BY <1>1, <2>3 DEF TimesOut
    <3>2. pending[calls[c].seat] # c
      <4> SUFFICES ASSUME pending[calls[c].seat] = c PROVE FALSE
        OBVIOUS
      <4>1. prompt[calls[c].seat] # None
        BY <2>0 DEF WindowInv, PendingInv
      <4>2. calls[c].seat = s
        BY <2>0, <2>3, <3>1, <4>1 DEF WindowInv, PromptsInv
      <4> QED
        BY <2>1, <4>2
    <3> QED
      BY <1>1, <1>2, <1>3, <1>5, <2>3, <3>1, <3>2 DEF Held, Unseen, Driving
  <2> QED
    BY <1>1, <2>2, <2>3
<1>6. pc' = "gather" => pc = "gather"
  BY <1>1 DEF TimesOut
<1> QED
  BY <1>1, <1>2, <1>5, <1>6 DEF OverdueInv

LEMMA SubmitOverdue ==
  ASSUME WindowInv, OverdueInv, NEW s \in Seats, NEW tag \in {None} \cup 1..version, Submit(s, tag)
  PROVE  OverdueInv'
<1>1. PICK n \in Nat :
        /\ n # None /\ n \notin DOMAIN calls
        /\ DOMAIN calls' = DOMAIN calls \cup {n}
        /\ calls'[n].seat = s /\ calls'[n].verdict = "none"
        /\ \A c \in DOMAIN calls : calls'[c] = calls[c]
        /\ pending' = [pending EXCEPT ![s] = n] /\ pending'[s] = n
        /\ pending[s] = None /\ UNCHANGED <<engine, runner>>
  BY SubmitFacts
<1>2. \A u \in Seats : u # s => pending'[u] = pending[u]
  BY <1>1 DEF WindowInv, TypeOK
<1>3. UNCHANGED <<pc, todo, expected, results, given, opened, Seat>>
  BY <1>1 DEF engine, runner, Seat
<1>4. ASSUME NEW c \in DOMAIN calls, Held(c) PROVE Held(c)'
  <2>1. calls[c].seat \in Seats /\ c # None
    BY SubmissionTypes DEF WindowInv
  <2>2. pending[calls[c].seat] = c => calls[c].seat # s
    BY <1>1, <2>1
  <2> QED
    BY <1>1, <1>2, <1>3, <1>4, <2>1, <2>2 DEF Held, Unseen
<1>5. Held(n)'
  BY <1>1 DEF Held
<1> QED
  BY <1>1, <1>3, <1>4, <1>5 DEF OverdueInv

LEMMA NextOverdue == WindowInv /\ OverdueInv /\ [Next]_vars => OverdueInv'
<1> SUFFICES ASSUME WindowInv, OverdueInv, [Next]_vars PROVE OverdueInv'
  OBVIOUS
<1>1. CASE RunnerStep
  BY <1>1, OpenOverdue, SkipOverdue, GiveUpOverdue, TakeResultOverdue, GatheredOverdue,
     RejectOverdue, AcceptOverdue, ApplyDefaultOverdue DEF RunnerStep
<1>2. CASE ActResumes
  BY <1>2, AnsweredOverdue, TimesOutOverdue DEF ActResumes
<1>3. CASE ClientStep
  BY <1>3, SubmitOverdue DEF ClientStep
<1>4. CASE Expire \/ UNCHANGED vars
  <2>1. UNCHANGED <<pc, todo, expected, results, given, opened, pending, calls, Seat>>
    BY <1>4 DEF Expire, vars, engine, runner, ports, Seat
  <2> QED
    BY <2>1 DEF OverdueInv, Held, Unseen
<1> QED
  BY <1>1, <1>2, <1>3, <1>4 DEF Next

-----------------------------------------------------------------------------
(* The invariant of a page and its connection *)

PageTypes ==
  /\ link \in [Tabs -> BOOLEAN] /\ up \in [Tabs -> Seq(Nat)] /\ down \in [Tabs -> Seq(Frames)]
  /\ serving \in [Tabs -> Nat] /\ late \in [Tabs -> SUBSET Nat]
  /\ form \in [Tabs -> Forms] /\ stale \in [Tabs -> BOOLEAN] /\ wiped \in [Tabs -> Nat]

\* Nothing is left of a connection that broke, and what the page shows is stale.
CutInv(t) ==
  ~link[t] => /\ up[t] = <<>> /\ down[t] = <<>> /\ serving[t] = None /\ late[t] = {}
              /\ ~form[t].pending /\ (form[t].prompt # None => stale[t])

\* The endpoint waits for submissions of the page's seat.
OwnInv(t) ==
  /\ \A c \in late[t] : c \in DOMAIN calls /\ calls[c].seat = SeatOf[t]
  /\ serving[t] # None => serving[t] \in DOMAIN calls /\ calls[serving[t]].seat = SeatOf[t]

\* What was sent last is what the page has submitted, unless it has its result.
SentInv(t) ==
  form[t].submitted # None /\ up[t] # <<>> => up[t][Len(up[t])] = form[t].submitted

WipedInv(t) == wiped[t] # None => form[t].prompt = None /\ form[t].submitted = None

\* The submission to the open window is not mistaken for an earlier one that was taken.
TakenInv(t) ==
  link[t] /\ form[t].submitted = version /\ up[t] = <<>> =>
    /\ \A c \in late[t] : Verdict(c) # "ok"
    /\ serving[t] # None => Verdict(serving[t]) # "ok"
    /\ Open(SeatOf[t]) => Untaken(down[t])

OverInv(t) == \A i \in DOMAIN down[t] : down[t][i].type = "game_over" => pc = "over"

OrderedInv(t) == InOrder(form[t], down[t], stale[t], version)
TurnsInv(t) == InTurn(form[t], down[t], stale[t], prompt[SeatOf[t]])
ShownInv(t) ==
  link[t] /\ Open(SeatOf[t]) => Shown(form[t], down[t], wiped[t], up[t], prompt[SeatOf[t]])
AckedInv(t) == link[t] => Acked(form[t], down[t], late[t], prompt[SeatOf[t]])
AwaitedInv(t) == Awaited(form[t], down[t], up[t], serving[t])

FormInv(t) ==
  /\ CutInv(t) /\ OwnInv(t) /\ SentInv(t) /\ WipedInv(t) /\ TakenInv(t) /\ OverInv(t)
  /\ OrderedInv(t) /\ TurnsInv(t) /\ ShownInv(t) /\ AckedInv(t) /\ AwaitedInv(t)

FormsInv == PageTypes /\ \A t \in Tabs : FormInv(t)

TabsInv == WindowInv /\ OverdueInv /\ FormsInv

LEMMA PageFacts ==
  ASSUME PageTypes, NEW t \in Tabs
  PROVE  /\ SeatOf[t] \in Seats /\ link[t] \in BOOLEAN /\ up[t] \in Seq(Nat)
         /\ down[t] \in Seq(Frames) /\ serving[t] \in Nat /\ late[t] \in SUBSET Nat
         /\ form[t] \in Forms /\ stale[t] \in BOOLEAN /\ wiped[t] \in Nat
  BY TabsAssumption DEF PageTypes

LEMMA OpenPrompt ==
  ASSUME WindowInv, NEW s \in Seats, prompt[s] # None
  PROVE  prompt[s] = version /\ version \in Nat /\ pc # "over"
  BY Types DEF WindowInv, PromptsInv

\* What the page has submitted to is no newer than the game.
LEMMA SubmittedPast ==
  ASSUME NEW f \in Forms, NEW q, NEW st, NEW n \in Nat, InOrder(f, q, st, n)
  PROVE  f.submitted <= n /\ f.prompt <= n
  BY DEF InOrder, Forms, None

LEMMA OrderStay ==
  ASSUME NEW f \in Forms, NEW q \in Seq(Frames), NEW st, NEW n \in Nat, NEW m \in Nat, n <= m,
         InOrder(f, q, st, n)
  PROVE  InOrder(f, q, st, m)
<1>1. ASSUME NEW i \in DOMAIN q PROVE q[i].v \in Nat
  <2>1. q[i] \in Frames
    BY ElementOfSeq, LenProperties
  <2> QED
    BY <2>1 DEF Frames
<1>2. f.prompt \in Nat /\ f.submitted \in Nat
  BY DEF Forms
<1> QED
  BY <1>1, <1>2 DEF InOrder

TabSame(t) ==
  /\ link'[t] = link[t] /\ up'[t] = up[t] /\ serving'[t] = serving[t] /\ late'[t] = late[t]
  /\ form'[t] = form[t] /\ stale'[t] = stale[t] /\ wiped'[t] = wiped[t]

\* What does not depend on frames.
LEMMA SameTab ==
  ASSUME WindowInv, Moves, PageTypes, NEW t \in Tabs, FormInv(t), TabSame(t),
         link[t] \/ down'[t] = down[t]
  PROVE  /\ CutInv(t)' /\ OwnInv(t)' /\ SentInv(t)' /\ WipedInv(t)'
         /\ link[t] /\ form[t].submitted = version' =>
              /\ version' = version
              /\ \A c \in DOMAIN calls : calls'[c].verdict = "ok" => calls[c].verdict = "ok"
<1>1. CutInv(t)' /\ SentInv(t)' /\ WipedInv(t)'
  BY DEF FormInv, TabSame, CutInv, SentInv, WipedInv
<1>2. OwnInv(t)'
  BY DEF FormInv, TabSame, OwnInv, Moves
<1>3. ASSUME form[t].submitted = version'
      PROVE  version' = version
  <2>1. form[t].submitted <= version /\ version \in Nat
    BY PageFacts, SubmittedPast, Types DEF FormInv, OrderedInv, WindowInv
  <2> QED
    BY <1>3, <2>1, PageFacts DEF Moves, Forms
<1>4. version \in Nat
  BY Types DEF WindowInv
<1> QED
  BY <1>1, <1>2, <1>3, <1>4 DEF Moves

LEMMA Unmoved ==
  ASSUME WindowInv, Moves, WindowInv', PageTypes, NEW t \in Tabs, FormInv(t), TabSame(t),
         down'[t] = down[t], ~link[t] \/ prompt'[SeatOf[t]] = prompt[SeatOf[t]]
  PROVE  FormInv(t)'
<1> DEFINE s == SeatOf[t]
<1>0. version \in Nat /\ version' \in Nat /\ version <= version' /\ s \in Seats
  BY Types, PageFacts DEF WindowInv, Moves, TypeOK
<1>1. /\ CutInv(t)' /\ OwnInv(t)' /\ SentInv(t)' /\ WipedInv(t)'
      /\ link[t] /\ form[t].submitted = version' =>
           /\ version' = version
           /\ \A c \in DOMAIN calls : calls'[c].verdict = "ok" => calls[c].verdict = "ok"
  BY SameTab
<1>2. OrderedInv(t)'
  BY <1>0, PageFacts, OrderStay DEF OrderedInv, FormInv, TabSame
<1>3. OverInv(t)'
  BY DEF OverInv, FormInv, Moves
<1>4. AwaitedInv(t)'
  BY DEF AwaitedInv, FormInv, TabSame
<1>5. CASE ~link[t]
  <2>1. ~link'[t]
    BY <1>5 DEF TabSame
  <2>2. TakenInv(t)' /\ ShownInv(t)' /\ AckedInv(t)'
    BY <2>1 DEF TakenInv, ShownInv, AckedInv
  <2>3. form'[t].prompt # None => stale'[t]
    BY <1>5 DEF FormInv, CutInv, TabSame
  <2>4. down'[t] = <<>>
    BY <1>5 DEF FormInv, CutInv
  <2>5. DOMAIN down'[t] = {}
    BY <2>4
  <2>6. TurnsInv(t)'
    BY <2>3, <2>5 DEF TurnsInv, InTurn
  <2> QED
    BY <1>1, <1>2, <1>3, <1>4, <2>2, <2>6 DEF FormInv
<1>6. CASE link[t]
  <2>1. prompt'[s] = prompt[s] /\ (Open(s)' => Open(s))
    BY <1>0, <1>6 DEF Moves, SeatMoves, Open
  <2>2. TurnsInv(t)' /\ AckedInv(t)'
    BY <1>6, <2>1 DEF TurnsInv, AckedInv, FormInv, TabSame
  <2>3. ShownInv(t)'
    BY <1>6, <2>1 DEF ShownInv, FormInv, TabSame
  <2>4. TakenInv(t)'
    BY <1>1, <1>6, <2>1 DEF TakenInv, Verdict, FormInv, OwnInv, TabSame
  <2> QED
    BY <1>1, <1>2, <1>3, <1>4, <2>2, <2>3, <2>4 DEF FormInv
<1> QED
  BY <1>5, <1>6

\* What the page will see when a frame x is on its way to it.
LEMMA Added ==
  ASSUME WindowInv, WindowInv', PageTypes, NEW t \in Tabs, FormInv(t), NEW x \in Frames,
         version <= version', down'[t] = Append(down[t], x), link'[t] = link[t],
         form'[t] = form[t], stale'[t] = stale[t], wiped'[t] = wiped[t],
         Asks(x) => x.v = version',
         LET p == prompt[SeatOf[t]]  n == prompt'[SeatOf[t]]
         IN  \/ ~Turning(x) /\ n = p
             \/ x = WindowClosed(p) /\ n = None
             \/ p = None /\ x = YourTurn(n),
         link[t] /\ Open(SeatOf[t])' =>
           \/ x = YourTurn(prompt'[SeatOf[t]])
           \/ ~Turning(x) /\ Shown(form[t], down[t], wiped[t], up'[t], prompt'[SeatOf[t]])
  PROVE  OrderedInv(t)' /\ TurnsInv(t)' /\ ShownInv(t)'
<1> DEFINE s == SeatOf[t]
<1>0. version \in Nat /\ version' \in Nat /\ version' # None /\ s \in Seats
      /\ prompt[s] \in Nat /\ prompt'[s] \in Nat
  BY Types, PageFacts DEF WindowInv, TypeOK, None
<1>1. form[t] \in Forms /\ down[t] \in Seq(Frames) /\ stale[t] \in BOOLEAN
  BY PageFacts
<1>2. OrderedInv(t)'
  BY <1>0, <1>1, OrderPush DEF OrderedInv, FormInv
<1>3. \A i \in DOMAIN down[t] : Asks(down[t][i]) => down[t][i].v # None
  BY DEF FormInv, OrderedInv, InOrder
<1>4. TurnsInv(t)'
  BY <1>0, <1>1, <1>3, TurnPush DEF TurnsInv, FormInv
<1>5. ShownInv(t)'
  BY <1>0, <1>1, ShownPush DEF ShownInv
<1> QED
  BY <1>2, <1>4, <1>5

LEMMA PromptFacts ==
  ASSUME WindowInv, NEW s \in Seats
  PROVE  /\ version \in Nat \ {0} /\ prompt[s] \in Nat /\ pending[s] \in Nat
         /\ prompt[s] # None => prompt[s] = version /\ pc # "over"
<1>1. version \in Nat \ {0} /\ Len(calls) \in Nat
  BY Types DEF WindowInv
<1>2. prompt[s] \in 0..version /\ pending[s] \in 0..Len(calls)
  BY DEF WindowInv, TypeOK
<1> QED
  BY <1>1, <1>2 DEF WindowInv, PromptsInv

LEMMA PromptFactsNext ==
  ASSUME WindowInv', NEW s \in Seats
  PROVE  /\ version' \in Nat \ {0} /\ prompt'[s] \in Nat /\ pending'[s] \in Nat
         /\ prompt'[s] # None => prompt'[s] = version' /\ pc' # "over"
<1>1. TypeOK' /\ PromptsInv'
  BY DEF WindowInv
<1>2. version' \in Nat \ {0} /\ Len(calls') \in Nat
  BY <1>1, LenProperties DEF TypeOK
<1>3. prompt'[s] \in 0..version' /\ pending'[s] \in 0..Len(calls')
  BY <1>1 DEF TypeOK
<1> QED
  BY <1>1, <1>2, <1>3 DEF PromptsInv

LEMMA OverPush ==
  ASSUME NEW q \in Seq(Frames), NEW x \in Frames, NEW P, NEW Q,
         \A i \in DOMAIN q : q[i].type = "game_over" => P,
         P => Q, x.type = "game_over" => Q
  PROVE  \A i \in DOMAIN Append(q, x) : Append(q, x)[i].type = "game_over" => Q
<1>1. /\ Len(q) \in Nat /\ DOMAIN q = 1..Len(q) /\ DOMAIN Append(q, x) = 1..(Len(q) + 1)
      /\ Append(q, x)[Len(q) + 1] = x /\ \A j \in DOMAIN q : Append(q, x)[j] = q[j]
  BY Pushed
<1>2. \A j \in DOMAIN Append(q, x) : j \in DOMAIN q \/ j = Len(q) + 1
  BY <1>1
<1> QED
  BY <1>1, <1>2

\* The port tells the connection of what happened to the window of its seat.
Tells(t, x) ==
  LET s == SeatOf[t]
  IN  \/ /\ prompt'[s] = prompt[s] /\ pc' = "over"
         /\ x = Frame("game_over", None)
      \/ prompt[s] # None /\ prompt'[s] = None /\ x = WindowClosed(prompt[s])
      \/ /\ prompt[s] = None /\ prompt'[s] = version' /\ pc' # "over"
         /\ x = YourTurn(prompt'[s])

\* News holds one frame, or none: prompts are closed before the game is over, and
\* one is closed in a step of its own before the next one opens.
LEMMA NewsFacts ==
  ASSUME NEW t \in Tabs, Moves, SeatOf[t] \in Seats,
         prompt[SeatOf[t]] \in Nat, prompt'[SeatOf[t]] \in Nat, version' \in Nat \ {0}
  PROVE  \/ News(t) = <<>> /\ prompt'[SeatOf[t]] = prompt[SeatOf[t]]
         \/ \E x : Tells(t, x) /\ News(t) = <<x>>
<1> DEFINE s == SeatOf[t]
           old == prompt[s]
           new == prompt'[s]
           a == IF old # None /\ new = None THEN <<WindowClosed(old)>> ELSE <<>>
           b == IF old = None /\ new # None THEN <<YourTurn(new)>> ELSE <<>>
           c == IF pc # "over" /\ pc' = "over" THEN <<Frame("game_over", None)>> ELSE <<>>
           over == Frame("game_over", None)
<1>1. News(t) = (a \o b) \o c
  BY DEF News
<1>2. WindowClosed(old) \in Frames /\ YourTurn(new) \in Frames /\ over \in Frames
  BY DEF WindowClosed, YourTurn, Frame, Frames, FrameTypes, None
<1>3. /\ \A x \in Frames : <<x>> \in Seq(Frames) /\ <<x>> \o <<>> = <<x>> /\ <<>> \o <<x>> = <<x>>
      /\ <<>> \in Seq(Frames) /\ <<>> \o <<>> = <<>>
  <2>1. <<>> \in Seq(Frames)
    OBVIOUS
  <2>2. ASSUME NEW x \in Frames PROVE <<x>> \in Seq(Frames)
    OBVIOUS
  <2> QED
    BY <2>1, <2>2, ConcatEmptySeq
<1>4. SeatMoves(s) /\ (pc # "over" /\ pc' = "over" => new = old)
  BY DEF Moves
<1>5. CASE new = old
  <2>1. a = <<>> /\ b = <<>>
    BY <1>5
  <2>2. News(t) = c
    BY <1>1, <1>2, <1>3, <2>1
  <2>3. c = <<>> \/ (c = <<over>> /\ pc' = "over")
    OBVIOUS
  <2>4. pc' = "over" => Tells(t, over)
    BY <1>5 DEF Tells
  <2> QED
    BY <1>5, <2>2, <2>3, <2>4
<1>6. CASE old # None /\ new = None
  <2>1. a = <<WindowClosed(old)>> /\ b = <<>> /\ c = <<>>
    BY <1>4, <1>6
  <2>2. News(t) = <<WindowClosed(old)>>
    BY <1>1, <1>2, <1>3, <2>1
  <2>3. Tells(t, WindowClosed(old))
    BY <1>6 DEF Tells
  <2> QED
    BY <2>2, <2>3
<1>7. CASE old = None /\ new = version' /\ pc' # "over"
  <2>1. a = <<>> /\ b = <<YourTurn(new)>> /\ c = <<>>
    BY <1>7 DEF None
  <2>2. News(t) = <<YourTurn(new)>>
    BY <1>1, <1>2, <1>3, <2>1
  <2>3. Tells(t, YourTurn(new))
    BY <1>7 DEF Tells
  <2> QED
    BY <2>2, <2>3
<1> QED
  BY <1>4, <1>5, <1>6, <1>7 DEF SeatMoves

LEMMA TellingKeeps ==
  ASSUME WindowInv, Moves, WindowInv', PageTypes, NEW t \in Tabs, FormInv(t), TabSame(t), link[t],
         NEW x, Tells(t, x), down'[t] = Append(down[t], x)
  PROVE  FormInv(t)' /\ down'[t] \in Seq(Frames)
<1> DEFINE s == SeatOf[t]
<1>0. /\ version \in Nat /\ version' \in Nat /\ version <= version' /\ s \in Seats
      /\ prompt[s] \in Nat /\ prompt'[s] \in Nat
  BY PromptFacts, PromptFactsNext, PageFacts DEF Moves
<1>1. /\ down[t] \in Seq(Frames) /\ form[t] \in Forms /\ stale[t] \in BOOLEAN
      /\ late[t] \in SUBSET Nat /\ link'[t]
  BY PageFacts DEF TabSame
<1>2. x \in Frames /\ ~Takes(x) /\ x.type \notin {"action_accepted", "action_result"}
  BY <1>0 DEF Tells, Frames, FrameTypes, Frame, WindowClosed, YourTurn, Takes, None
<1>3. prompt'[s] # None => pc' # "over"
  BY <1>0, PromptFactsNext
<1>4. Open(s)' => x = YourTurn(prompt'[s])
  BY <1>3 DEF Open, Tells
<1>5. /\ CutInv(t)' /\ OwnInv(t)' /\ SentInv(t)' /\ WipedInv(t)'
      /\ link[t] /\ form[t].submitted = version' =>
           /\ version' = version
           /\ \A c \in DOMAIN calls : calls'[c].verdict = "ok" => calls[c].verdict = "ok"
  BY SameTab
<1>6. Asks(x) => x.v = version' /\ prompt'[s] = version'
  BY DEF Tells, Asks, YourTurn, WindowClosed, Frame
<1>7. LET p == prompt[s]  n == prompt'[s]
      IN  \/ ~Turning(x) /\ n = p
          \/ x = WindowClosed(p) /\ n = None
          \/ p = None /\ x = YourTurn(n)
  BY DEF Tells, Turning, Frame
<1>8. OrderedInv(t)' /\ TurnsInv(t)' /\ ShownInv(t)'
  BY <1>0, <1>1, <1>2, <1>4, <1>6, <1>7, Added DEF TabSame
<1>9. TakenInv(t)'
  <2> SUFFICES ASSUME link'[t], form'[t].submitted = version', up'[t] = <<>>
               PROVE  /\ \A c \in late'[t] : calls'[c].verdict # "ok"
                      /\ serving'[t] # None => calls'[serving'[t]].verdict # "ok"
                      /\ Open(s)' => Untaken(down'[t])
    BY DEF TakenInv, Verdict
  <2>1. /\ \A c \in late[t] : calls[c].verdict # "ok"
        /\ serving[t] # None => calls[serving[t]].verdict # "ok"
    BY <1>5 DEF FormInv, TakenInv, Verdict, TabSame
  <2>2. /\ \A c \in late'[t] : calls'[c].verdict # "ok"
        /\ serving'[t] # None => calls'[serving'[t]].verdict # "ok"
    BY <1>5, <2>1 DEF FormInv, OwnInv, TabSame
  <2>3. Open(s)' => Asks(x)
    BY <1>4 DEF Asks, YourTurn, Frame
  <2> QED
    BY <1>1, <1>2, <2>2, <2>3, UntakenPush
<1>10. OverInv(t)'
  <2>1. x.type = "game_over" => pc' = "over"
    BY DEF Tells, YourTurn, WindowClosed, Frame
  <2> QED
    BY <1>1, <1>2, <2>1, OverPush DEF FormInv, OverInv, Moves
<1>11. AckedInv(t)'
  <2>1. Acked(form[t], down[t], late[t], prompt[s])
    BY DEF FormInv, AckedInv
  <2>2. prompt[s] = None => prompt'[s] = None \/ Asks(x)
    BY DEF Tells, Asks, YourTurn, Frame
  <2>3. Acked(form[t], Append(down[t], x), late[t], prompt'[s])
    BY <1>1, <1>2, <2>1, <2>2, AckedPush
  <2> QED
    BY <2>3 DEF AckedInv, TabSame
<1>12. AwaitedInv(t)'
  BY <1>1, <1>2, AwaitedPush DEF FormInv, AwaitedInv, TabSame
<1>13. down'[t] \in Seq(Frames)
  BY <1>1, <1>2, Pushed
<1> QED
  BY <1>5, <1>8, <1>9, <1>10, <1>11, <1>12, <1>13 DEF FormInv

LEMMA Informed ==
  ASSUME WindowInv, Moves, WindowInv', PageTypes, NEW t \in Tabs, FormInv(t), TabSame(t),
         down'[t] = IF link[t] THEN down[t] \o News(t) ELSE down[t]
  PROVE  FormInv(t)' /\ down'[t] \in Seq(Frames)
<1> DEFINE s == SeatOf[t]
<1>0. s \in Seats /\ down[t] \in Seq(Frames)
  BY PageFacts
<1>1. CASE ~link[t]
  BY <1>0, <1>1, Unmoved
<1>2. \/ News(t) = <<>> /\ prompt'[s] = prompt[s]
      \/ \E x : Tells(t, x) /\ News(t) = <<x>>
  <2>1. prompt[s] \in Nat /\ prompt'[s] \in Nat /\ version' \in Nat \ {0}
    BY <1>0, PromptFacts, PromptFactsNext
  <2> QED
    BY <1>0, <2>1, NewsFacts
<1>3. CASE link[t] /\ News(t) = <<>> /\ prompt'[s] = prompt[s]
  <2>1. down'[t] = down[t]
    BY <1>0, <1>3, ConcatEmptySeq
  <2> QED
    BY <1>0, <1>3, <2>1, Unmoved
<1>4. ASSUME link[t], NEW x, Tells(t, x), News(t) = <<x>> PROVE FormInv(t)' /\ down'[t] \in Seq(Frames)
  <2>1. prompt[s] \in Nat /\ prompt'[s] \in Nat
    BY <1>0, PromptFacts, PromptFactsNext
  <2>2. x \in Frames
    BY <1>4, <2>1 DEF Tells, Frames, FrameTypes, Frame, WindowClosed, YourTurn, None
  <2>3. down'[t] = Append(down[t], x)
    BY <1>0, <1>4, <2>2, AppendIsConcat
  <2> QED
    BY <1>4, <2>3, TellingKeeps
<1> QED
  BY <1>1, <1>2, <1>3, <1>4

-----------------------------------------------------------------------------
(* The steps of a page and of its connection *)

\* The endpoint sends a frame of its own.
LEMMA Replied ==
  ASSUME WindowInv, WindowInv', PageTypes, NEW t \in Tabs, FormInv(t), UNCHANGED vars,
         link[t], link'[t] = link[t], form'[t] = form[t], stale'[t] = stale[t],
         wiped'[t] = wiped[t], NEW x \in Frames, down'[t] = Append(down[t], x),
         ~Turning(x), x.type # "game_over",
         OwnInv(t)', SentInv(t)', TakenInv(t)',
         Open(SeatOf[t]) => Shown(form[t], down[t], wiped[t], up'[t], prompt[SeatOf[t]]),
         late[t] # {} => late'[t] # {} \/ x.type = "action_result",
         x.type = "action_accepted" => late'[t] # {}
  PROVE  FormInv(t)'
<1> DEFINE s == SeatOf[t]
<1>0. /\ version' = version /\ prompt' = prompt /\ pending' = pending /\ pc' = pc
      /\ version \in Nat \ {0} /\ s \in Seats
  BY PageFacts, PromptFacts DEF vars, engine, runner, ports
<1>1. down[t] \in Seq(Frames) /\ late[t] \in SUBSET Nat
  BY PageFacts
<1>2. CutInv(t)' /\ WipedInv(t)'
  BY DEF FormInv, CutInv, WipedInv
<1>3. OverInv(t)'
  BY <1>0, <1>1, OverPush DEF FormInv, OverInv
<1>4. Open(s)' => Open(s)
  BY <1>0 DEF Open
<1>5. OrderedInv(t)' /\ TurnsInv(t)' /\ ShownInv(t)'
  <2>1. version <= version' /\ ~Asks(x)
    BY <1>0 DEF Asks, Turning
  <2> QED
    BY <1>0, <1>4, <2>1, Added
<1>6. AckedInv(t)'
  <2>1. Acked(form[t], down[t], late[t], prompt[s])
    BY DEF FormInv, AckedInv
  <2>2. Acked(form[t], Append(down[t], x), late'[t], prompt[s])
    BY <1>1, <2>1, AckedPush
  <2> QED
    BY <1>0, <2>2 DEF AckedInv
<1>7. AwaitedInv(t)'
  BY <1>1, AwaitedPush DEF AwaitedInv
<1> QED
  BY <1>2, <1>3, <1>5, <1>6, <1>7 DEF FormInv

LEMMA Linked ==
  ASSUME NEW t \in Tabs, FormInv(t), up[t] # <<>> \/ serving[t] # None \/ late[t] # {}
  PROVE  link[t]
  BY DEF FormInv, CutInv

LEMMA ResultFrame ==
  ASSUME NEW c
  PROVE  /\ ActionResult(c) \in Frames /\ ActionResult(c).type = "action_result"
         /\ ~Turning(ActionResult(c)) /\ (Takes(ActionResult(c)) => Verdict(c) = "ok")
  BY DEF ActionResult, Frame, Frames, FrameTypes, Turning, Takes

LEMMA ReportKeeps ==
  ASSUME WindowInv, WindowInv', PageTypes, NEW t \in Tabs, FormInv(t), Report(t)
  PROVE  FormInv(t)' /\ PageTypes'
<1> DEFINE x == ActionResult(serving[t])
<1>1. /\ down' = [down EXCEPT ![t] = Append(@, x)] /\ serving' = [serving EXCEPT ![t] = None]
      /\ UNCHANGED <<link, up, late, form, stale, wiped>> /\ UNCHANGED vars
  BY DEF Report, Push
<1>2. link[t]
  BY Linked DEF Report
<1>3. x \in Frames /\ x.type = "action_result" /\ ~Turning(x) /\ (Takes(x) => Verdict(serving[t]) = "ok")
  BY ResultFrame
<1>4. down[t] \in Seq(Frames)
  BY PageFacts
<1>5. down'[t] = Append(down[t], x) /\ serving'[t] = None /\ Append(down[t], x) \in Seq(Frames)
  BY <1>1, <1>3, <1>4, Pushed DEF PageTypes
<1>6. PageTypes'
  BY <1>1, <1>5 DEF PageTypes, None
<1>7. calls' = calls /\ version' = version /\ prompt' = prompt /\ pending' = pending
  BY <1>1 DEF vars, engine, ports
<1>8. OwnInv(t)' /\ SentInv(t)'
  BY <1>1, <1>5, <1>7 DEF FormInv, OwnInv, SentInv
<1>9. TakenInv(t)'
  <2> SUFFICES ASSUME form[t].submitted = version, up[t] = <<>>
               PROVE  /\ \A c \in late[t] : Verdict(c) # "ok"
                      /\ Open(SeatOf[t]) => Untaken(down'[t])
    BY <1>1, <1>5, <1>7 DEF TakenInv, Verdict, Open
  <2>1. /\ \A c \in late[t] : Verdict(c) # "ok"
        /\ Verdict(serving[t]) # "ok" /\ (Open(SeatOf[t]) => Untaken(down[t]))
    BY <1>2 DEF FormInv, TakenInv, Report
  <2> QED
    BY <1>3, <1>4, <1>5, <2>1, UntakenPush
<1>10. Open(SeatOf[t]) => Shown(form[t], down[t], wiped[t], up[t], prompt[SeatOf[t]])
  BY <1>2 DEF FormInv, ShownInv
<1>11. FormInv(t)'
  BY <1>1, <1>2, <1>3, <1>5, <1>8, <1>9, <1>10, Replied
<1> QED
  BY <1>6, <1>11

LEMMA AcknowledgeKeeps ==
  ASSUME WindowInv, WindowInv', PageTypes, NEW t \in Tabs, FormInv(t), Acknowledge(t)
  PROVE  FormInv(t)' /\ PageTypes'
<1> DEFINE x == Frame("action_accepted", None)
<1>1. /\ down' = [down EXCEPT ![t] = Append(@, x)] /\ serving' = [serving EXCEPT ![t] = None]
      /\ late' = [late EXCEPT ![t] = @ \cup {serving[t]}]
      /\ UNCHANGED <<link, up, form, stale, wiped>> /\ UNCHANGED vars
  BY DEF Acknowledge, Push
<1>2. link[t]
  BY Linked DEF Acknowledge
<1>3. x \in Frames /\ x.type = "action_accepted" /\ ~Turning(x) /\ ~Takes(x)
  BY DEF Frame, Frames, FrameTypes, Turning, Takes, None
<1>4. down[t] \in Seq(Frames) /\ serving[t] \in Nat /\ late[t] \in SUBSET Nat
  BY PageFacts
<1>5. /\ down'[t] = Append(down[t], x) /\ serving'[t] = None /\ Append(down[t], x) \in Seq(Frames)
      /\ late'[t] = late[t] \cup {serving[t]}
  BY <1>1, <1>3, <1>4, Pushed DEF PageTypes
<1>6. PageTypes'
  BY <1>1, <1>4, <1>5 DEF PageTypes, None
<1>7. calls' = calls /\ version' = version /\ prompt' = prompt /\ pending' = pending
  BY <1>1 DEF vars, engine, ports
<1>8. OwnInv(t)' /\ SentInv(t)'
  BY <1>1, <1>5, <1>7 DEF FormInv, OwnInv, SentInv, Acknowledge
<1>9. TakenInv(t)'
  <2> SUFFICES ASSUME form[t].submitted = version, up[t] = <<>>
               PROVE  /\ \A c \in late'[t] : Verdict(c) # "ok"
                      /\ Open(SeatOf[t]) => Untaken(down'[t])
    BY <1>1, <1>5, <1>7 DEF TakenInv, Verdict, Open
  <2>1. /\ \A c \in late[t] : Verdict(c) # "ok"
        /\ Verdict(serving[t]) # "ok" /\ (Open(SeatOf[t]) => Untaken(down[t]))
    BY <1>2 DEF FormInv, TakenInv, Acknowledge
  <2> QED
    BY <1>3, <1>4, <1>5, <2>1, UntakenPush
<1>10. Open(SeatOf[t]) => Shown(form[t], down[t], wiped[t], up[t], prompt[SeatOf[t]])
  BY <1>2 DEF FormInv, ShownInv
<1>11. FormInv(t)'
  BY <1>1, <1>2, <1>3, <1>5, <1>8, <1>9, <1>10, Replied
<1> QED
  BY <1>6, <1>11

LEMMA DeliverLateKeeps ==
  ASSUME WindowInv, WindowInv', PageTypes, NEW t \in Tabs, FormInv(t), DeliverLate(t)
  PROVE  FormInv(t)' /\ PageTypes'
<1>0. PICK c \in late[t] :
        /\ down' = [down EXCEPT ![t] = Append(@, ActionResult(c))]
        /\ late' = [late EXCEPT ![t] = @ \ {c}]
        /\ UNCHANGED <<link, up, serving, form, stale, wiped>> /\ UNCHANGED vars
  BY DEF DeliverLate, Push
<1> DEFINE x == ActionResult(c)
<1>2. link[t]
  BY <1>0, Linked
<1>3. x \in Frames /\ x.type = "action_result" /\ ~Turning(x) /\ (Takes(x) => Verdict(c) = "ok")
  BY ResultFrame
<1>4. down[t] \in Seq(Frames) /\ late[t] \in SUBSET Nat
  BY PageFacts
<1>5. /\ down'[t] = Append(down[t], x) /\ Append(down[t], x) \in Seq(Frames)
      /\ late'[t] = late[t] \ {c}
  BY <1>0, <1>3, <1>4, Pushed DEF PageTypes
<1>6. PageTypes'
  BY <1>0, <1>4, <1>5 DEF PageTypes
<1>7. calls' = calls /\ version' = version /\ prompt' = prompt /\ pending' = pending
  BY <1>0 DEF vars, engine, ports
<1>8. OwnInv(t)' /\ SentInv(t)'
  BY <1>0, <1>5, <1>7 DEF FormInv, OwnInv, SentInv
<1>9. TakenInv(t)'
  <2> SUFFICES ASSUME form[t].submitted = version, up[t] = <<>>
               PROVE  /\ \A d \in late'[t] : Verdict(d) # "ok"
                      /\ serving[t] # None => Verdict(serving[t]) # "ok"
                      /\ Open(SeatOf[t]) => Untaken(down'[t])
    BY <1>0, <1>5, <1>7 DEF TakenInv, Verdict, Open
  <2>1. /\ \A d \in late[t] : Verdict(d) # "ok"
        /\ serving[t] # None => Verdict(serving[t]) # "ok"
        /\ Open(SeatOf[t]) => Untaken(down[t])
    BY <1>2 DEF FormInv, TakenInv
  <2> QED
    BY <1>0, <1>3, <1>4, <1>5, <2>1, UntakenPush
<1>10. Open(SeatOf[t]) => Shown(form[t], down[t], wiped[t], up[t], prompt[SeatOf[t]])
  BY <1>2 DEF FormInv, ShownInv
<1>11. FormInv(t)'
  BY <1>0, <1>2, <1>3, <1>5, <1>8, <1>9, <1>10, Replied
<1> QED
  BY <1>6, <1>11

\* What is sent last stays last when the endpoint reads the first.
LEMMA LastStays ==
  ASSUME NEW u \in Seq(Nat), u # <<>>, NEW v, u[Len(u)] = v
  PROVE  /\ Tail(u) # <<>> => Tail(u)[Len(Tail(u))] = v
         /\ Tail(u) = <<>> => Head(u) = v
<1> DEFINE r == Tail(u)
<1>1. /\ Len(u) \in Nat /\ 1 <= Len(u) /\ Head(u) = u[1] /\ r \in Seq(Nat)
      /\ DOMAIN r = 1..(Len(u) - 1) /\ \A i \in DOMAIN r : r[i] = u[i + 1]
  BY Popped
<1>2. Len(r) = Len(u) - 1
  BY HeadTailProperties
<1> HIDE DEF r
<1>3. ASSUME r # <<>> PROVE r[Len(r)] = v
  <2>1. Len(r) # 0
    BY <1>1, <1>3, EmptySeq
  <2>2. Len(u) - 1 \in DOMAIN r /\ (Len(u) - 1) + 1 = Len(u)
    BY <1>1, <1>2, <2>1
  <2> QED
    BY <1>1, <1>2, <2>2
<1>4. ASSUME r = <<>> PROVE Head(u) = v
  <2>1. Len(r) = 0
    BY <1>4
  <2>2. Len(u) = 1
    BY <1>1, <1>2, <2>1
  <2> QED
    BY <1>1, <2>2
<1> QED
  BY <1>3, <1>4 DEF r

LEMMA ReceiveKeeps ==
  ASSUME WindowInv, WindowInv', PageTypes, NEW t \in Tabs, FormInv(t), Receive(t)
  PROVE  FormInv(t)' /\ PageTypes'
<1> DEFINE s == SeatOf[t]
           v == Head(up[t])
           x == Frame("not_your_turn", None)
           taken == Open(s) /\ Accepts(s, v)
<1>1. /\ link[t] /\ up[t] # <<>> /\ serving[t] = None /\ \A c \in late[t] : Verdict(c) = "none"
      /\ up' = [up EXCEPT ![t] = Tail(@)] /\ UNCHANGED <<link, late, form, stale, wiped>>
  BY DEF Receive
<1>2. /\ s \in Seats /\ up[t] \in Seq(Nat) /\ down[t] \in Seq(Frames) /\ form[t] \in Forms
  BY PageFacts
<1>3. /\ up'[t] = Tail(up[t]) /\ Tail(up[t]) \in Seq(Nat) /\ Head(up[t]) = up[t][1]
      /\ DOMAIN Tail(up[t]) = 1..(Len(up[t]) - 1) /\ Len(up[t]) \in Nat
      /\ DOMAIN up[t] = 1..Len(up[t])
      /\ \A i \in DOMAIN Tail(up[t]) : Tail(up[t])[i] = up[t][i + 1]
  BY <1>1, <1>2, Popped DEF PageTypes
<1>4. SentInv(t)' /\ (form[t].submitted # None /\ up'[t] = <<>> => v = form[t].submitted)
  BY <1>1, <1>2, <1>3, LastStays DEF FormInv, SentInv
<1>5. CASE ~taken
  <2>1. /\ down' = [down EXCEPT ![t] = Append(@, x)] /\ UNCHANGED vars /\ serving' = serving
    BY <1>5 DEF Receive, Push
  <2>2. x \in Frames /\ x.type = "not_your_turn" /\ ~Turning(x)
    BY DEF Frame, Frames, FrameTypes, Turning, None
  <2>3. down'[t] = Append(down[t], x) /\ Append(down[t], x) \in Seq(Frames)
    BY <1>2, <2>1, <2>2, Pushed DEF PageTypes
  <2>4. PageTypes'
    BY <1>1, <1>3, <2>1, <2>3 DEF PageTypes
  <2>5. /\ calls' = calls /\ version' = version /\ prompt' = prompt /\ pending' = pending
        /\ version \in Nat \ {0} /\ (prompt[s] # None => prompt[s] = version)
    BY <1>2, <2>1, PromptFacts DEF vars, engine, ports
  <2>6. OwnInv(t)'
    BY <1>1, <2>1, <2>5 DEF FormInv, OwnInv
  <2>7. Open(s) => v # prompt[s]
    BY <1>5 DEF Accepts
  <2>8. TakenInv(t)'
    <3> SUFFICES ASSUME form[t].submitted = version, up'[t] = <<>> PROVE ~Open(s)
      BY <1>1, <2>1, <2>5 DEF TakenInv, Verdict, Open
    <3>1. v = version
      BY <1>4, <2>5 DEF None
    <3> QED
      BY <2>5, <2>7, <3>1 DEF Open
  <2>9. ASSUME Open(s) PROVE Shown(form[t], down[t], wiped[t], up'[t], prompt[s])
    <3>1. Shown(form[t], down[t], wiped[t], up[t], prompt[s])
      BY <1>1, <2>9 DEF FormInv, ShownInv
    <3>2. ASSUME NEW i \in DOMAIN up[t], up[t][i] = prompt[s]
          PROVE  \E j \in DOMAIN up'[t] : up'[t][j] = prompt[s]
      <4>1. i # 1
        BY <1>3, <2>7, <2>9, <3>2
      <4>2. i - 1 \in DOMAIN Tail(up[t]) /\ (i - 1) + 1 = i
        BY <1>3, <4>1
      <4>3. Tail(up[t])[i - 1] = prompt[s]
        BY <1>3, <3>2, <4>2
      <4> QED
        BY <1>3, <4>2, <4>3
    <3> QED
      BY <3>1, <3>2 DEF Shown
  <2>10. FormInv(t)'
    BY <1>1, <1>4, <2>1, <2>2, <2>3, <2>6, <2>8, <2>9, Replied
  <2> QED
    BY <2>4, <2>10
<1>6. CASE taken
  <2>1. Submit(s, v) /\ serving' = [serving EXCEPT ![t] = Len(calls')] /\ down' = down
    BY <1>6 DEF Receive
  <2>2. v \in {None} \cup 1..version
    <3>1. v = None \/ (v = prompt[s] /\ prompt[s] # None)
      BY <1>6 DEF Accepts, Open
    <3> QED
      BY <1>2, <3>1, PromptFacts
  <2>3. PICK n \in Nat :
          /\ Len(calls') = n /\ n # None
          /\ DOMAIN calls' = DOMAIN calls \cup {n}
          /\ calls'[n].seat = s /\ calls'[n].verdict = "none"
          /\ \A c \in DOMAIN calls : calls'[c] = calls[c]
          /\ pending'[s] = n /\ prompt' = prompt /\ UNCHANGED <<engine, runner>>
    BY <1>2, <2>1, <2>2, SubmitFacts
  <2>4. serving'[t] = n
    BY <2>1, <2>3 DEF PageTypes
  <2>5. PageTypes'
    BY <1>1, <1>3, <2>1, <2>3, <2>4 DEF PageTypes
  <2>6. version' = version /\ pc' = pc /\ ~Open(s)'
    BY <2>3 DEF engine, runner, Open
  <2>7. CutInv(t)' /\ WipedInv(t)'
    BY <1>1 DEF FormInv, CutInv, WipedInv
  <2>8. OwnInv(t)'
    BY <1>1, <2>3, <2>4 DEF FormInv, OwnInv
  <2>9. TakenInv(t)'
    <3>1. \A c \in late'[t] : calls'[c].verdict # "ok"
      BY <1>1, <2>3 DEF FormInv, OwnInv, Verdict
    <3>2. calls'[serving'[t]].verdict # "ok"
      BY <2>3, <2>4
    <3> QED
      BY <2>6, <3>1, <3>2 DEF TakenInv, Verdict
  <2>10. OverInv(t)' /\ OrderedInv(t)' /\ TurnsInv(t)' /\ AckedInv(t)'
    BY <1>1, <2>1, <2>3, <2>6 DEF FormInv, OverInv, OrderedInv, TurnsInv, AckedInv
  <2>11. ShownInv(t)'
    BY <2>6 DEF ShownInv
  <2>12. AwaitedInv(t)'
    BY <2>3, <2>4 DEF AwaitedInv, Awaited
  <2> QED
    BY <1>4, <2>5, <2>7, <2>8, <2>9, <2>10, <2>11, <2>12 DEF FormInv
<1> QED
  BY <1>5, <1>6

LEMMA BreakKeeps ==
  ASSUME WindowInv, WindowInv', PageTypes, NEW t \in Tabs, FormInv(t), Break(t)
  PROVE  FormInv(t)' /\ PageTypes'
<1>0. form[t] \in Forms /\ version \in Nat \ {0}
  BY PageFacts, PromptFacts, Types DEF WindowInv
<1>1. /\ ~link'[t] /\ up'[t] = <<>> /\ down'[t] = <<>> /\ serving'[t] = None /\ late'[t] = {}
      /\ form'[t] = [form[t] EXCEPT !.pending = FALSE]
      /\ stale'[t] = (form[t].prompt # None) /\ wiped'[t] = wiped[t]
      /\ version' = version
  BY DEF Break, PageTypes, vars, engine
<1>2. /\ form'[t] \in Forms /\ form'[t].prompt = form[t].prompt
      /\ form'[t].submitted = form[t].submitted /\ ~form'[t].pending
  BY <1>0, <1>1 DEF Forms
<1>3. PageTypes'
  BY <1>1, <1>2 DEF PageTypes, Break, None
<1>4. CutInv(t)' /\ OwnInv(t)' /\ SentInv(t)'
  BY <1>1, <1>2 DEF CutInv, OwnInv, SentInv
<1>5. WipedInv(t)'
  BY <1>1, <1>2 DEF FormInv, WipedInv
<1>6. TakenInv(t)' /\ ShownInv(t)' /\ AckedInv(t)'
  BY <1>1 DEF TakenInv, ShownInv, AckedInv
<1>7. DOMAIN down'[t] = {}
  BY <1>1
<1>8. OverInv(t)'
  BY <1>7 DEF OverInv
<1>9. OrderedInv(t)' /\ TurnsInv(t)'
  <2>1. InOrder(form[t], down[t], stale[t], version)
    BY DEF FormInv, OrderedInv
  <2>2. form'[t].prompt # None => stale'[t]
    BY <1>1, <1>2
  <2> QED
    BY <1>1, <1>2, <1>7, <2>1, <2>2 DEF InOrder, InTurn, OrderedInv, TurnsInv
<1>10. AwaitedInv(t)'
  BY <1>2 DEF AwaitedInv, Awaited
<1> QED
  BY <1>3, <1>4, <1>5, <1>6, <1>8, <1>9, <1>10 DEF FormInv

LEMMA ConnectKeeps ==
  ASSUME WindowInv, WindowInv', PageTypes, NEW t \in Tabs, FormInv(t), Connect(t)
  PROVE  FormInv(t)' /\ PageTypes'
<1> DEFINE s == SeatOf[t]
           p == prompt[s]
           q == down'[t]
<1>0. /\ form[t] \in Forms /\ s \in Seats /\ version \in Nat \ {0}
      /\ p \in Nat /\ (p # None => p = version /\ pc # "over")
  BY PageFacts, PromptFacts
<1>1. /\ ~link[t] /\ link' = [link EXCEPT ![t] = TRUE]
      /\ UNCHANGED <<up, serving, late, form, stale, wiped>>
      /\ UNCHANGED <<version, prompt, pending, pc, calls>>
  BY DEF Connect, vars, engine, runner, ports
<1>2. /\ up[t] = <<>> /\ serving[t] = None /\ late[t] = {} /\ ~form[t].pending
      /\ form[t].prompt # None => stale[t]
  BY <1>1 DEF FormInv, CutInv
<1>3. YourTurn(p) \in Frames /\ Frame("game_over", None) \in Frames
  BY <1>0 DEF YourTurn, Frame, Frames, FrameTypes, None
<1>4. \/ p = None /\ (q = <<>> \/ (pc = "over" /\ q = <<Frame("game_over", None)>>))
      \/ p # None /\ q = <<YourTurn(p)>>
  <2>1. q = (IF p # None THEN <<YourTurn(p)>> ELSE <<>>)
            \o (IF pc = "over" THEN <<Frame("game_over", None)>> ELSE <<>>)
    BY DEF Connect, PageTypes
  <2>2. \A x \in Frames : <<x>> \in Seq(Frames)
    OBVIOUS
  <2>3. <<>> \in Seq(Frames)
    OBVIOUS
  <2>4. /\ \A x \in Frames : <<x>> \o <<>> = <<x>> /\ <<>> \o <<x>> = <<x>>
        /\ <<>> \o <<>> = <<>>
    BY <2>2, <2>3, ConcatEmptySeq
  <2> QED
    BY <1>0, <1>3, <2>1, <2>4
<1> HIDE DEF q
<1>5. /\ q \in Seq(Frames) /\ DOMAIN q \subseteq {1}
      /\ \A i \in DOMAIN q : ~Takes(q[i]) /\ q[i].type # "action_accepted"
      /\ \A i \in DOMAIN q : q[i].type = "game_over" => pc = "over"
      /\ \A i \in DOMAIN q : Asks(q[i]) => p # None /\ q[i].v = p
      /\ p # None => 1 \in DOMAIN q /\ q[1] = YourTurn(p)
  <2>1. CASE q = <<>>
    BY <1>4, <2>1
  <2>2. CASE pc = "over" /\ p = None /\ q = <<Frame("game_over", None)>>
    <3>1. q \in Seq(Frames) /\ DOMAIN q = {1} /\ q[1] = Frame("game_over", None)
      BY <1>3, <2>2
    <3> QED
      BY <2>2, <3>1 DEF Takes, Asks, Frame
  <2>3. CASE p # None /\ q = <<YourTurn(p)>>
    <3>1. q \in Seq(Frames) /\ DOMAIN q = {1} /\ q[1] = YourTurn(p)
      BY <1>3, <2>3
    <3> QED
      BY <2>3, <3>1 DEF Takes, Asks, Frame, YourTurn
  <2> QED
    BY <1>4, <2>1, <2>2, <2>3
<1>6. down' = [down EXCEPT ![t] = q]
  BY DEF Connect, PageTypes, q
<1>7. PageTypes'
  BY <1>1, <1>5, <1>6 DEF PageTypes
<1>8. link'[t]
  BY <1>1 DEF PageTypes
<1>9. CutInv(t)' /\ OwnInv(t)' /\ SentInv(t)' /\ WipedInv(t)'
  BY <1>1, <1>2, <1>8 DEF FormInv, CutInv, OwnInv, SentInv, WipedInv
<1>10. Untaken(q)
  BY <1>5 DEF Untaken
<1>11. TakenInv(t)'
  BY <1>1, <1>2, <1>10 DEF TakenInv, q
<1>12. OverInv(t)'
  BY <1>1, <1>5 DEF OverInv, q
<1>13. InOrder(form[t], q, stale[t], version)
  <2>1. InOrder(form[t], down[t], stale[t], version)
    BY DEF FormInv, OrderedInv
  <2>2. /\ form[t].prompt <= version /\ form[t].prompt \in Nat /\ form[t].submitted \in Nat
        /\ form[t].submitted # None =>
             IF form[t].submitted = form[t].prompt THEN stale[t] ELSE form[t].submitted < version
    BY <1>0, <2>1 DEF InOrder, Forms
  <2>3. \A i \in DOMAIN q : i = 1
    BY <1>5
  <2> QED
    BY <1>0, <1>5, <2>2, <2>3 DEF InOrder
<1>14. InTurn(form[t], q, stale[t], p)
  <2>1. ASSUME NEW i \in DOMAIN q, Asks(q[i]) PROVE Ends(q, i, q[i].v, p)
    <3>1. \A j \in DOMAIN q : ~(i < j)
      BY <1>5
    <3> QED
      BY <1>5, <2>1, <3>1 DEF Ends
  <2> QED
    BY <1>2, <2>1 DEF InTurn
<1>15. ASSUME p # None PROVE Shown(form[t], q, wiped[t], up[t], p)
  <2>1. \A j \in DOMAIN q : ~(1 < j)
    BY <1>5
  <2> QED
    BY <1>5, <1>15, <2>1 DEF Shown, Arrives
<1>16. Acked(form[t], q, late[t], p)
  <2>1. p = None \/ \E i \in DOMAIN q : q[i].type \in {"your_turn", "action_result"}
    BY <1>5 DEF YourTurn, Frame
  <2> QED
    BY <1>5, <2>1 DEF Acked
<1>17. OrderedInv(t)' /\ TurnsInv(t)' /\ AckedInv(t)'
  BY <1>1, <1>13, <1>14, <1>16 DEF OrderedInv, TurnsInv, AckedInv, q
<1>18. ShownInv(t)'
  BY <1>1, <1>15 DEF ShownInv, Open, q
<1>19. AwaitedInv(t)'
  BY <1>1, <1>2 DEF AwaitedInv, Awaited
<1> QED
  BY <1>7, <1>9, <1>11, <1>12, <1>17, <1>18, <1>19 DEF FormInv

LEMMA ReadFrameKeeps ==
  ASSUME WindowInv, WindowInv', PageTypes, NEW t \in Tabs, FormInv(t), ReadFrame(t)
  PROVE  FormInv(t)' /\ PageTypes'
<1> DEFINE s == SeatOf[t]
           p == prompt[s]
           f == form[t]
           q == down[t]
           x == Head(q)
           g == After(f, x)
           w == IF x.type \in {"your_turn", "window_closed"} THEN None
                ELSE IF x.type = "not_your_turn" /\ f.prompt # f.submitted
                THEN f.prompt ELSE wiped[t]
<1>0. /\ f \in Forms /\ s \in Seats /\ version \in Nat \ {0} /\ q \in Seq(Frames)
      /\ stale[t] \in BOOLEAN /\ wiped[t] \in Nat /\ up[t] \in Seq(Nat)
      /\ p \in Nat /\ (p # None => p = version /\ pc # "over")
  BY PageFacts, PromptFacts
<1>1. /\ link[t] /\ q # <<>>
      /\ form' = [form EXCEPT ![t] = g]
      /\ stale' = [stale EXCEPT ![t] = @ /\ form'[t].prompt = f.prompt]
      /\ wiped' = [wiped EXCEPT ![t] = w]
      /\ down' = [down EXCEPT ![t] = Tail(@)]
      /\ UNCHANGED <<link, up, serving, late>>
      /\ UNCHANGED <<version, prompt, pending, pc, calls>>
  BY DEF ReadFrame, vars, engine, runner, ports
<1>2. /\ x \in Frames /\ x = q[1] /\ 1 \in DOMAIN q /\ Tail(q) \in Seq(Frames)
      /\ \A i \in DOMAIN Tail(q) : i + 1 \in DOMAIN q /\ Tail(q)[i] = q[i + 1]
  <2>1. /\ Tail(q) \in Seq(Frames) /\ Len(q) \in Nat /\ 1 <= Len(q) /\ DOMAIN q = 1..Len(q)
        /\ Head(q) = q[1] /\ Head(q) \in Frames
        /\ \A i \in DOMAIN Tail(q) : i + 1 \in DOMAIN q /\ Tail(q)[i] = q[i + 1]
    BY <1>0, <1>1, Popped
  <2> QED
    BY <2>1
<1>3. /\ g \in Forms /\ w \in Nat
      /\ x.type = "your_turn" => g.submitted = f.submitted
      /\ x.type = "window_closed" => g.submitted = f.submitted
      /\ x.type = "action_accepted" => g.prompt = f.prompt /\ g.submitted = f.submitted
      /\ x.type = "action_result" =>
           /\ g.prompt = IF x.v = 1 /\ f.prompt = f.submitted THEN None ELSE f.prompt
           /\ g.submitted = None
      /\ x.type \in {"not_your_turn", "game_over"} => g.prompt = None /\ g.submitted = None
  <2>1. w \in Nat
    BY <1>0 DEF Forms, None
  <2> QED
    BY <1>0, <1>2, <2>1, AfterFacts DEF Becomes
<1>4. x.type \in FrameTypes
  BY <1>2 DEF Frames
<1>5. g.submitted \in {f.submitted, None}
  BY <1>3, <1>4 DEF FrameTypes
<1>6. /\ form'[t] = g /\ down'[t] = Tail(q) /\ wiped'[t] = w
      /\ stale'[t] \in BOOLEAN /\ (stale'[t] <=> stale[t] /\ g.prompt = f.prompt)
  BY <1>0, <1>1 DEF PageTypes
<1> HIDE DEF g, w
<1>7. PageTypes'
  BY <1>1, <1>2, <1>3, <1>6 DEF PageTypes
<1>8. CutInv(t)' /\ OwnInv(t)'
  BY <1>1 DEF FormInv, CutInv, OwnInv
<1>9. SentInv(t)'
  BY <1>1, <1>5, <1>6 DEF FormInv, SentInv
<1>10. WipedInv(t)'
  <2> SUFFICES ASSUME w # None PROVE g.prompt = None /\ g.submitted = None
    BY <1>6 DEF WipedInv
  <2>1. wiped[t] # None => f.prompt = None /\ f.submitted = None
    BY DEF FormInv, WipedInv
  <2> QED
    BY <1>3, <1>4, <2>1 DEF FrameTypes, w
<1>11. link[t] /\ f.submitted = version /\ up[t] = <<>> =>
         /\ \A c \in late[t] : Verdict(c) # "ok"
         /\ serving[t] # None => Verdict(serving[t]) # "ok"
         /\ Open(s) => Untaken(q)
  BY DEF FormInv, TakenInv
<1>12. TakenInv(t)'
  <2>1. g.submitted = version => f.submitted = version
    BY <1>0, <1>5 DEF None
  <2>2. Untaken(q) => Untaken(Tail(q))
    BY <1>0, <1>1, UntakenRead
  <2> QED
    BY <1>1, <1>6, <1>11, <2>1, <2>2 DEF TakenInv, Verdict, Open
<1>13. OverInv(t)'
  BY <1>1, <1>2, <1>6 DEF FormInv, OverInv
<1>14. OrderedInv(t)' /\ TurnsInv(t)'
  <2>1. InOrder(f, q, stale[t], version) /\ InTurn(f, q, stale[t], p)
    BY DEF FormInv, OrderedInv, TurnsInv
  <2>2. InOrder(g, Tail(q), stale'[t], version)
    BY <1>0, <1>1, <1>6, <2>1, OrderRead DEF g
  <2>3. InTurn(g, Tail(q), stale'[t], p)
    BY <1>0, <1>1, <1>6, <2>1, TurnRead DEF g
  <2> QED
    BY <1>1, <1>6, <2>2, <2>3 DEF OrderedInv, TurnsInv
<1>15. ShownInv(t)'
  <2> SUFFICES ASSUME Open(s) PROVE Shown(g, Tail(q), w, up[t], p)
    BY <1>1, <1>6 DEF ShownInv, Open
  <2>1. p # None /\ p = version /\ pc # "over"
    BY <1>0 DEF Open
  <2>2. Shown(f, q, wiped[t], up[t], p)
    BY <1>1 DEF FormInv, ShownInv
  <2>3. x.type # "game_over"
    BY <1>2, <2>1 DEF FormInv, OverInv
  <2>4. wiped[t] # None => f.prompt = None /\ f.submitted = None
    BY DEF FormInv, WipedInv
  <2>5. f.submitted = p /\ up[t] = <<>> => Untaken(q)
    BY <1>1, <1>11, <2>1
  <2>6. f.submitted # None /\ up[t] # <<>> => up[t][Len(up[t])] = f.submitted
    BY DEF FormInv, SentInv
  <2>7. w = IF Turning(x) THEN None
            ELSE IF x.type = "not_your_turn" /\ f.prompt # f.submitted THEN f.prompt ELSE wiped[t]
    BY DEF w, Turning
  <2> QED
    BY <1>0, <1>1, <2>1, <2>2, <2>3, <2>4, <2>5, <2>6, <2>7, ShownRead DEF g
<1>16. AckedInv(t)'
  <2>1. Acked(f, q, late[t], p)
    BY <1>1 DEF FormInv, AckedInv
  <2>2. Acked(g, Tail(q), late[t], p)
    BY <1>0, <1>1, <2>1, AckedRead DEF g
  <2> QED
    BY <1>1, <1>6, <2>2 DEF AckedInv
<1>17. AwaitedInv(t)'
  <2>1. Awaited(f, q, up[t], serving[t])
    BY DEF FormInv, AwaitedInv
  <2>2. Awaited(g, Tail(q), up[t], serving[t])
    BY <1>0, <1>1, <2>1, AwaitedRead DEF g
  <2> QED
    BY <1>1, <1>6, <2>2 DEF AwaitedInv
<1> QED
  BY <1>7, <1>8, <1>9, <1>10, <1>12, <1>13, <1>14, <1>15, <1>16, <1>17 DEF FormInv

LEMMA SendFormKeeps ==
  ASSUME WindowInv, WindowInv', PageTypes, NEW t \in Tabs, FormInv(t), SendForm(t)
  PROVE  FormInv(t)' /\ PageTypes'
<1> DEFINE s == SeatOf[t]
           p == prompt[s]
           f == form[t]
           q == down[t]
<1>0. f \in Forms /\ f.prompt \in Nat /\ up[t] \in Seq(Nat) /\ f.prompt # None /\ version \in Nat \ {0}
  BY PageFacts, Types DEF WindowInv, Forms, SendForm, Offered
<1>1. /\ link[t] /\ link' = link /\ down' = down /\ UNCHANGED <<serving, late, wiped>>
      /\ UNCHANGED <<version, prompt, pending, pc, calls>>
      /\ up' = [up EXCEPT ![t] = Append(@, f.prompt)]
      /\ form' = [form EXCEPT ![t].pending = TRUE, ![t].submitted = f.prompt]
      /\ stale' = [stale EXCEPT ![t] = TRUE]
  BY DEF SendForm, vars, engine, runner, ports
<1>2. /\ up'[t] = Append(up[t], f.prompt) /\ Append(up[t], f.prompt) \in Seq(Nat)
      /\ Len(Append(up[t], f.prompt)) = Len(up[t]) + 1
      /\ Append(up[t], f.prompt)[Len(up[t]) + 1] = f.prompt
      /\ Len(up[t]) \in Nat /\ DOMAIN up[t] = 1..Len(up[t])
      /\ DOMAIN Append(up[t], f.prompt) = 1..(Len(up[t]) + 1)
      /\ \A i \in DOMAIN up[t] : Append(up[t], f.prompt)[i] = up[t][i]
  BY <1>0, <1>1, Pushed, AppendProperties DEF PageTypes
<1>3. up'[t] # <<>>
  <2>1. 1 \in DOMAIN up'[t]
    BY <1>2
  <2> QED
    BY <2>1
<1>4. /\ form'[t] \in Forms /\ form'[t].prompt = f.prompt /\ form'[t].submitted = f.prompt
      /\ form'[t].accepted = f.accepted /\ stale'[t]
  BY <1>0, <1>1 DEF PageTypes, Forms
<1>5. PageTypes'
  <2>1. form' = [form EXCEPT ![t] = form'[t]]
    BY <1>1 DEF PageTypes
  <2> QED
    BY <1>1, <1>2, <1>4, <2>1 DEF PageTypes
<1>6. CutInv(t)' /\ OwnInv(t)' /\ OverInv(t)'
  BY <1>1 DEF FormInv, CutInv, OwnInv, OverInv
<1>7. SentInv(t)'
  BY <1>2, <1>4 DEF SentInv
<1>8. wiped[t] = None
  BY <1>0 DEF FormInv, WipedInv
<1>9. WipedInv(t)' /\ TakenInv(t)'
  BY <1>1, <1>3, <1>8 DEF WipedInv, TakenInv
<1>10. OrderedInv(t)' /\ TurnsInv(t)'
  <2>1. InOrder(f, q, stale[t], version) /\ InTurn(f, q, stale[t], p)
    BY DEF FormInv, OrderedInv, TurnsInv
  <2> QED
    BY <1>1, <1>4, <2>1 DEF InOrder, InTurn, OrderedInv, TurnsInv
<1>11. ShownInv(t)'
  <2> SUFFICES ASSUME Open(s) PROVE Shown(form'[t], q, wiped[t], up'[t], p)
    BY <1>1 DEF ShownInv, Open
  <2>1. Shown(f, q, wiped[t], up[t], p)
    BY <1>1 DEF FormInv, ShownInv
  <2>2. ASSUME NEW i \in DOMAIN up[t], up[t][i] = p PROVE \E j \in DOMAIN up'[t] : up'[t][j] = p
    BY <1>2, <2>2
  <2> QED
    BY <1>4, <2>1, <2>2 DEF Shown
<1>12. AckedInv(t)'
  <2>1. Acked(f, q, late[t], p)
    BY <1>1 DEF FormInv, AckedInv
  <2> QED
    BY <1>1, <1>4, <2>1 DEF AckedInv, Acked
<1>13. AwaitedInv(t)'
  BY <1>3 DEF AwaitedInv, Awaited
<1> QED
  BY <1>5, <1>6, <1>7, <1>9, <1>10, <1>11, <1>12, <1>13 DEF FormInv

-----------------------------------------------------------------------------
(* The whole *)

LEMMA InitTabs == TabsInit => TabsInv
<1> SUFFICES ASSUME TabsInit PROVE TabsInv
  OBVIOUS
<1>1. WindowInv /\ version = 1 /\ pc = "top" /\ calls = <<>> /\ prompt = Nothing
  BY InitWindow DEF TabsInit, Init
<1>2. OverdueInv
  <2>1. DOMAIN calls = {}
    BY <1>1
  <2> QED
    BY <1>1, <2>1 DEF OverdueInv
<1>3. NoForm \in Forms
  BY DEF NoForm, Forms, None
<1>4. /\ link = [t \in Tabs |-> TRUE] /\ up = [t \in Tabs |-> <<>>] /\ down = [t \in Tabs |-> <<>>]
      /\ serving = [t \in Tabs |-> None] /\ late = [t \in Tabs |-> {}]
      /\ form = [t \in Tabs |-> NoForm]
      /\ stale = [t \in Tabs |-> FALSE] /\ wiped = [t \in Tabs |-> None]
  BY DEF TabsInit
<1>5. PageTypes
  BY <1>3, <1>4 DEF PageTypes, None
<1>6. ASSUME NEW t \in Tabs PROVE FormInv(t)
  <2>1. /\ link[t] /\ up[t] = <<>> /\ down[t] = <<>> /\ serving[t] = None /\ late[t] = {}
        /\ form[t].prompt = None /\ form[t].submitted = None /\ ~form[t].pending
        /\ ~form[t].accepted /\ wiped[t] = None
    BY <1>4 DEF NoForm
  <2>2. DOMAIN down[t] = {}
    BY <2>1
  <2>3. prompt[SeatOf[t]] = None
    BY <1>1, TabsAssumption DEF Nothing
  <2>4. CutInv(t) /\ OwnInv(t) /\ SentInv(t) /\ WipedInv(t)
    BY <2>1 DEF CutInv, OwnInv, SentInv, WipedInv
  <2>5. TakenInv(t) /\ OverInv(t) /\ ShownInv(t)
    BY <1>1, <2>1, <2>2, <2>3 DEF TakenInv, OverInv, ShownInv, Open, None
  <2>6. OrderedInv(t) /\ TurnsInv(t)
    BY <1>1, <2>1, <2>2 DEF OrderedInv, TurnsInv, InOrder, InTurn, None
  <2>7. AckedInv(t) /\ AwaitedInv(t)
    BY <2>1, <2>2 DEF AckedInv, AwaitedInv, Acked, Awaited
  <2> QED
    BY <2>4, <2>5, <2>6, <2>7 DEF FormInv
<1> QED
  BY <1>1, <1>2, <1>5, <1>6 DEF TabsInv, FormsInv

\* A page touches the window only when its submission is accepted.
LEMMA PageSteps ==
  ASSUME WindowInv, PageTypes, NEW t \in Tabs, TabStep(t)
  PROVE  [Next]_vars /\ prompt' = prompt
<1>1. ASSUME UNCHANGED vars PROVE [Next]_vars /\ prompt' = prompt
  BY <1>1 DEF vars, ports
<1>2. CASE Receive(t)
  <2> DEFINE s == SeatOf[t]
             v == Head(up[t])
  <2>1. CASE Open(s) /\ Accepts(s, v)
    <3>1. s \in Seats
      BY PageFacts
    <3>2. Submit(s, v)
      BY <1>2, <2>1 DEF Receive
    <3>3. v = None \/ (v = prompt[s] /\ prompt[s] # None)
      BY <2>1 DEF Accepts, Open
    <3>4. v \in {None} \cup 1..version
      BY <3>1, <3>3, PromptFacts
    <3> QED
      BY <3>1, <3>2, <3>4 DEF Next, ClientStep, Submit
  <2>2. CASE ~(Open(s) /\ Accepts(s, v))
    BY <1>1, <1>2, <2>2 DEF Receive
  <2> QED
    BY <2>1, <2>2
<1>3. CASE ~Receive(t)
  BY <1>1, <1>3 DEF TabStep, Report, Acknowledge, DeliverLate, Connect, Break, ReadFrame, SendForm
<1> QED
  BY <1>2, <1>3

\* Pages do not touch each other.
LEMMA OtherPages ==
  ASSUME PageTypes, NEW t \in Tabs, TabStep(t), NEW u \in Tabs, u # t
  PROVE  TabSame(u) /\ down'[u] = down[u]
<1>1. CASE Receive(t)
  BY <1>1 DEF Receive, Push, PageTypes, TabSame
<1>2. CASE Report(t) \/ Acknowledge(t) \/ DeliverLate(t)
  BY <1>2 DEF Report, Acknowledge, DeliverLate, Push, PageTypes, TabSame
<1>3. CASE Connect(t) \/ Break(t)
  BY <1>3 DEF Connect, Break, PageTypes, TabSame
<1>4. CASE ReadFrame(t) \/ SendForm(t)
  BY <1>4 DEF ReadFrame, SendForm, PageTypes, TabSame
<1> QED
  BY <1>1, <1>2, <1>3, <1>4 DEF TabStep

LEMMA PageStepKeeps ==
  ASSUME WindowInv, WindowInv', Moves, FormsInv, NEW t \in Tabs, TabStep(t)
  PROVE  FormsInv'
<1>1. PageTypes /\ \A u \in Tabs : FormInv(u)
  BY DEF FormsInv
<1>2. FormInv(t)' /\ PageTypes'
  BY <1>1, ReceiveKeeps, ReportKeeps, AcknowledgeKeeps, DeliverLateKeeps, ConnectKeeps,
     BreakKeeps, ReadFrameKeeps, SendFormKeeps DEF TabStep
<1>3. ASSUME NEW u \in Tabs, u # t PROVE FormInv(u)'
  <2>1. TabSame(u) /\ down'[u] = down[u] /\ prompt' = prompt
    BY <1>1, <1>3, OtherPages, PageSteps
  <2> QED
    BY <1>1, <2>1, Unmoved
<1> QED
  BY <1>2, <1>3 DEF FormsInv

LEMMA WatchedKeeps ==
  ASSUME WindowInv, WindowInv', Moves, FormsInv,
         down' = [t \in Tabs |-> IF link[t] THEN down[t] \o News(t) ELSE down[t]],
         UNCHANGED <<link, up, serving, late, form, stale, wiped>>
  PROVE  FormsInv'
<1>1. PageTypes /\ \A t \in Tabs : FormInv(t)
  BY DEF FormsInv
<1>2. ASSUME NEW t \in Tabs PROVE FormInv(t)' /\ down'[t] \in Seq(Frames)
  <2>1. TabSame(t)
    BY DEF TabSame
  <2>2. down'[t] = IF link[t] THEN down[t] \o News(t) ELSE down[t]
    OBVIOUS
  <2> QED
    BY <1>1, <2>1, <2>2, Informed
<1>3. PageTypes'
  BY <1>1, <1>2 DEF PageTypes
<1> QED
  BY <1>2, <1>3 DEF FormsInv

LEMMA NextTabs == TabsInv /\ [TabsNext]_allVars => TabsInv'
<1> SUFFICES ASSUME TabsInv, [TabsNext]_allVars PROVE TabsInv'
  OBVIOUS
<1>0. WindowInv /\ OverdueInv /\ FormsInv /\ PageTypes
  BY DEF TabsInv, FormsInv
<1>1. CASE Watched(RunnerStep) \/ Watched(ActResumes) \/ Watched(Expire) \/ Watched(OtherClient)
  <2>1. /\ down' = [t \in Tabs |-> IF link[t] THEN down[t] \o News(t) ELSE down[t]]
        /\ UNCHANGED <<link, up, serving, late, form, stale, wiped>>
    BY <1>1 DEF Watched
  <2>2. [Next]_vars
    BY <1>1 DEF Watched, Next, OtherClient, ClientStep
  <2>3. WindowInv' /\ OverdueInv' /\ Moves
    BY <1>0, <2>2, NextWindowInv, NextOverdue, WindowMoves
  <2> QED
    BY <1>0, <2>1, <2>3, WatchedKeeps DEF TabsInv
<1>2. ASSUME NEW t \in Tabs, TabStep(t) PROVE TabsInv'
  <2>1. [Next]_vars
    BY <1>0, <1>2, PageSteps
  <2>2. WindowInv' /\ OverdueInv' /\ Moves
    BY <1>0, <2>1, NextWindowInv, NextOverdue, WindowMoves
  <2> QED
    BY <1>0, <1>2, <2>2, PageStepKeeps DEF TabsInv
<1>3. CASE UNCHANGED allVars
  <2>1. UNCHANGED vars /\ UNCHANGED <<link, up, down, serving, late, form, stale, wiped>>
    BY <1>3 DEF allVars, tabVars
  <2>2. WindowInv' /\ OverdueInv' /\ Moves /\ prompt' = prompt
    BY <1>0, <2>1, NextWindowInv, NextOverdue, WindowMoves DEF vars, ports
  <2>3. PageTypes'
    BY <1>0, <2>1 DEF PageTypes
  <2>4. ASSUME NEW t \in Tabs PROVE FormInv(t)'
    <3>1. FormInv(t) /\ TabSame(t) /\ down'[t] = down[t]
      BY <1>0, <2>1 DEF FormsInv, TabSame
    <3> QED
      BY <1>0, <2>2, <3>1, Unmoved
  <2> QED
    BY <2>2, <2>3, <2>4 DEF TabsInv, FormsInv
<1> QED
  BY <1>1, <1>2, <1>3 DEF TabsNext

\* An acknowledged submission whose verdict is out is of an earlier window, when the
\* window of its seat is open.
LEMMA OverdueWhenOpen ==
  ASSUME WindowInv, OverdueInv, NEW c \in DOMAIN calls, calls[c].verdict = "none",
         Open(calls[c].seat)
  PROVE  calls[c].window < opened
<1> DEFINE s == calls[c].seat
<1>1. s \in Seats /\ c # None
  BY Types DEF WindowInv, Submissions
<1>2. /\ pending[s] = None /\ prompt[s] # None
      /\ \/ pc = "gather" /\ results[s] = None
         \/ pc = "ask" /\ s = Seat
  BY <1>1 DEF Open, WindowInv, PromptsInv
<1>3. ~Held(c)
  BY <1>1, <1>2 DEF Held, Unseen
<1> QED
  BY <1>3 DEF OverdueInv

LEMMA SettledForm ==
  ASSUME WindowInv, OverdueInv, FormsInv, NEW t \in Tabs, Settled(t)
  PROVE  /\ Open(SeatOf[t]) => Shows(t) \/ prompt[SeatOf[t]] = wiped[t] \/ Hidden(t)
         /\ Offered(form[t]) => form[t].prompt = prompt[SeatOf[t]] \/ stale[t]
<1> DEFINE s == SeatOf[t]
           p == prompt[s]
<1>0. /\ s \in Seats /\ form[t] \in Forms /\ FormInv(t)
  BY PageFacts DEF FormsInv
<1>1. /\ link[t] /\ up[t] = <<>> /\ down[t] = <<>> /\ serving[t] = None
      /\ \A c \in late[t] : calls[c].verdict = "none"
  BY DEF Settled, Verdict
<1>2. DOMAIN down[t] = {} /\ DOMAIN up[t] = {}
  BY <1>1
<1>3. ASSUME Open(s), p # wiped[t], ~Hidden(t) PROVE Shows(t)
  <2>1. Shown(form[t], down[t], wiped[t], up[t], p)
    BY <1>0, <1>1, <1>3 DEF FormInv, ShownInv
  <2>2. form[t].prompt = p
    BY <1>2, <1>3, <2>1 DEF Shown, Arrives
  <2>3. ~form[t].pending
    BY <1>0, <1>1, <1>2 DEF FormInv, AwaitedInv, Awaited
  <2>4. ~form[t].accepted
    <3> SUFFICES ASSUME form[t].accepted PROVE FALSE
      OBVIOUS
    <3>1. late[t] # {}
      BY <1>0, <1>1, <1>2, <1>3 DEF FormInv, AckedInv, Acked, Open
    <3>2. PICK c \in late[t] : c \in DOMAIN calls /\ calls[c].seat = s /\ calls[c].verdict = "none"
      BY <1>0, <1>1, <3>1 DEF FormInv, OwnInv
    <3>3. calls[c].window < opened
      BY <1>3, <3>2, OverdueWhenOpen
    <3> QED
      BY <1>3, <3>2, <3>3 DEF Hidden, Verdict
  <2> QED
    BY <1>3, <2>2, <2>3, <2>4 DEF Shows, Offered, Open
<1>4. ASSUME Offered(form[t]), ~stale[t] PROVE form[t].prompt = p
  <2>1. Ends(down[t], 0, form[t].prompt, p)
    BY <1>0, <1>4 DEF FormInv, TurnsInv, InTurn, Offered
  <2> QED
    BY <1>2, <2>1 DEF Ends
<1> QED
  BY <1>3, <1>4

LEMMA TabsInvTrue == TabsInv => FormsTrue
  BY SettledForm DEF TabsInv, FormsTrue

\* The pages, their connections and the windows of their seats fit together.
THEOREM TabsInvHolds == TabsSpec => []TabsInv
  BY InitTabs, NextTabs, PTL DEF TabsSpec

\* When nothing is under way, a page offers the form of the window that is open - unless
\* a refusal took it or an acknowledged action of an ended window hides it - and a form
\* of another window only where the page submitted to it or was cut off.
THEOREM FormsAreTrue == TabsSpec => []FormsTrue
  BY TabsInvHolds, TabsInvTrue, PTL

=============================================================================
