----------------------------- MODULE FeedProofs -----------------------------
(***************************************************************************)
(* What is promised to those who watch a game, for every script of events, *)
(* any number of browsers and agents, and whoever comes, goes and fails.   *)
(*                                                                         *)
(* A reader and the event file are apart by the frames on his connection,  *)
(* and the invariant speaks of that queue as a whole (Fed): of the events  *)
(* that he may see and does not have it holds each once and in order, up   *)
(* to the last batch that was broadcast (Carries, Owed).  First come       *)
(* lemmas about FlattenSeq, of which the frames of a batch, the view of a  *)
(* file and the queue with its repetitions left out are made; then what    *)
(* these carry; then one lemma for each step.  The second invariant        *)
(* (SoundInv) says the same of the frames of speech, and goes by the one   *)
(* that was heard last and the queue behind it (Heard).                    *)
(* The third (StoryInv) ties the file to the script, so that what the      *)
(* engine emits can be used of it: for what an agent remembers.            *)
(* The fourth (PhaseInv) says that what a page shows stands before what is *)
(* queued for it, and that the last frame to name the round and the phase  *)
(* names those of the game, unless he who was to be told is on his way out.*)
(***************************************************************************)
EXTENDS BroadcastProps, FunctionTheorems, SequenceTheorems, WellFoundedInduction,
        FiniteSetTheorems, TLAPS

-----------------------------------------------------------------------------
(* Least elements, and what FlattenSeq makes of a sequence of pieces *)

LEMMA LeastNumber ==
  ASSUME NEW T, T \subseteq Nat, T # {}
  PROVE  \E x \in T : \A y \in T : x <= y
<1> DEFINE R == {ss \in Nat \X Nat : ss[1] < ss[2]}
<1>1. IsWellFoundedOn(R, Nat)
  BY NatLessThanWellFounded DEF OpToRel
<1>2. PICK x \in T : \A y \in T : ~(<<y, x>> \in R)
  BY <1>1, WFMin
<1>3. ASSUME NEW y \in T
      PROVE  x <= y
  <2>1. x \in Nat /\ y \in Nat
    OBVIOUS
  <2>2. ~(y < x)
    BY <1>2, <2>1
  <2> QED
    BY <2>1, <2>2
<1> QED
  BY <1>3

Flattens(f, p, n) ==
    f = [i \in 1 .. n |-> IF i = 1 THEN p[i] ELSE f[i - 1] \o p[i]]

LEMMA FlattenExists ==
  ASSUME NEW p, NEW n \in Nat
  PROVE  \E f : Flattens(f, p, n)
<1> DEFINE Bad == {m \in Nat : ~ \E f : Flattens(f, p, m)}
<1> SUFFICES ASSUME Bad # {}
             PROVE  FALSE
  OBVIOUS
<1>1. PICK m \in Bad : \A y \in Bad : m <= y
  BY LeastNumber
<1>2. m # 0
  <2> DEFINE g == [i \in 1 .. 0 |-> p]
  <2>1. Flattens(g, p, 0)
    BY DEF Flattens
  <2> QED
    BY <2>1
<1>3. m \in Nat /\ m - 1 \in Nat /\ m - 1 \notin Bad
  BY <1>1, <1>2
<1>4. PICK f : Flattens(f, p, m - 1)
  BY <1>3
<1> DEFINE g == [i \in 1 .. m |-> IF i < m THEN f[i] ELSE IF m = 1 THEN p[1] ELSE f[m - 1] \o p[m]]
<1>5. \A i \in 1 .. m : g[i] = IF i = 1 THEN p[i] ELSE g[i - 1] \o p[i]
  <2> SUFFICES ASSUME NEW i \in 1 .. m
               PROVE  g[i] = IF i = 1 THEN p[i] ELSE g[i - 1] \o p[i]
    OBVIOUS
  <2>1. CASE i = m
    BY <2>1, <1>3
  <2>2. CASE i < m
    <3>1. i \in 1 .. m - 1 /\ i - 1 \in 0 .. m - 1
      BY <2>2, <1>3
    <3>2. f[i] = IF i = 1 THEN p[i] ELSE f[i - 1] \o p[i]
      BY <1>4, <3>1 DEF Flattens
    <3>3. i # 1 => g[i - 1] = f[i - 1]
      BY <3>1, <2>2, <1>3
    <3> QED
      BY <2>2, <3>2, <3>3, <1>3
  <2> QED
    BY <2>1, <2>2, <1>3
<1>6. Flattens(g, p, m)
  <2> DEFINE h == [i \in 1 .. m |-> IF i = 1 THEN p[i] ELSE g[i - 1] \o p[i]]
  <2>1. g = h
    BY <1>5
  <2> QED
    BY <2>1 DEF Flattens
<1> QED
  BY <1>6, <1>1

LEMMA FlattenUnfolds ==
  ASSUME NEW T, NEW p \in Seq(T), p # <<>>
  PROVE  \E f : Flattens(f, p, Len(p)) /\ FlattenSeq(p) = f[Len(p)]
<1> DEFINE f == CHOOSE f : Flattens(f, p, Len(p))
<1>1. Len(p) \in Nat /\ Len(p) # 0
  OBVIOUS
<1>2. Flattens(f, p, Len(p))
  BY <1>1, FlattenExists
<1>3. FlattenSeq(p) = f[Len(p)]
  BY <1>1 DEF FlattenSeq, Flattens
<1> QED
  BY <1>2, <1>3

\* F holds the first m pieces of p one after the other: its k-th element is element b[k]
\* of piece a[k].
Placed(F, p, m, a, b) ==
    /\ a \in [1 .. Len(F) -> 1 .. m] /\ b \in [1 .. Len(F) -> Nat]
    /\ \A k \in 1 .. Len(F) : b[k] \in 1 .. Len(p[a[k]]) /\ F[k] = p[a[k]][b[k]]
    /\ \A j, k \in 1 .. Len(F) : j < k => a[j] < a[k] \/ (a[j] = a[k] /\ b[j] < b[k])
    /\ \A n \in 1 .. m : \A j \in 1 .. Len(p[n]) : \E k \in 1 .. Len(F) : a[k] = n /\ b[k] = j

LEMMA PlacedOne ==
  ASSUME NEW T, NEW p \in Seq(Seq(T)), p # <<>>
  PROVE  \E a, b : Placed(p[1], p, 1, a, b)
<1>1. p[1] \in Seq(T) /\ Len(p[1]) \in Nat
  OBVIOUS
<1> DEFINE a == [k \in 1 .. Len(p[1]) |-> 1]
           b == [k \in 1 .. Len(p[1]) |-> k]
<1>2. Placed(p[1], p, 1, a, b)
  BY <1>1 DEF Placed
<1> QED
  BY <1>2

LEMMA PlacedNext ==
  ASSUME NEW T, NEW p \in Seq(Seq(T)), NEW m \in 2 .. Len(p),
         NEW F \in Seq(T), NEW a, NEW b, Placed(F, p, m - 1, a, b)
  PROVE  \E a2, b2 : Placed(F \o p[m], p, m, a2, b2)
<1> DEFINE G == F \o p[m]
           L == Len(F)
           a2 == [k \in 1 .. Len(G) |-> IF k <= L THEN a[k] ELSE m]
           b2 == [k \in 1 .. Len(G) |-> IF k <= L THEN b[k] ELSE k - L]
<1>1. /\ p[m] \in Seq(T) /\ L \in Nat /\ Len(p[m]) \in Nat /\ m \in Nat
      /\ Len(G) = L + Len(p[m])
      /\ \A k \in 1 .. L : G[k] = F[k]
      /\ \A k \in 1 .. Len(G) : k > L => k - L \in 1 .. Len(p[m]) /\ G[k] = p[m][k - L]
  OBVIOUS
<1> HIDE DEF G, L
<1>2. a2 \in [1 .. Len(G) -> 1 .. m] /\ b2 \in [1 .. Len(G) -> Nat]
  BY <1>1 DEF Placed, L
<1>3. \A k \in 1 .. Len(G) : b2[k] \in 1 .. Len(p[a2[k]]) /\ G[k] = p[a2[k]][b2[k]]
  BY <1>1 DEF Placed, L
<1>4. \A j, k \in 1 .. Len(G) : j < k => a2[j] < a2[k] \/ (a2[j] = a2[k] /\ b2[j] < b2[k])
  <2> SUFFICES ASSUME NEW j \in 1 .. Len(G), NEW k \in 1 .. Len(G), j < k
               PROVE  a2[j] < a2[k] \/ (a2[j] = a2[k] /\ b2[j] < b2[k])
    OBVIOUS
  <2>1. CASE k <= L
    BY <2>1, <1>1 DEF Placed, L
  <2>2. CASE j <= L /\ k > L
    <3>1. j \in 1 .. L
      BY <2>2, <1>1
    <3>2. a[j] \in 1 .. m - 1
      BY <3>1 DEF Placed, L
    <3> QED
      BY <3>1, <3>2, <2>2, <1>1
  <2>3. CASE j > L
    BY <2>3, <1>1
  <2> QED
    BY <2>1, <2>2, <2>3, <1>1
<1>5. \A n \in 1 .. m : \A j \in 1 .. Len(p[n]) : \E k \in 1 .. Len(G) : a2[k] = n /\ b2[k] = j
  <2> SUFFICES ASSUME NEW n \in 1 .. m, NEW j \in 1 .. Len(p[n])
               PROVE  \E k \in 1 .. Len(G) : a2[k] = n /\ b2[k] = j
    OBVIOUS
  <2>1. CASE n = m
    <3>1. L + j \in 1 .. Len(G) /\ L + j > L /\ (L + j) - L = j
      BY <2>1, <1>1
    <3>2. a2[L + j] = m /\ b2[L + j] = j
      BY <3>1, <1>1
    <3> HIDE DEF a2, b2
    <3> QED
      BY <3>1, <3>2, <2>1
  <2>2. CASE n < m
    <3>1. PICK k \in 1 .. L : a[k] = n /\ b[k] = j
      BY <2>2, <1>1 DEF Placed, L
    <3>2. k \in 1 .. Len(G) /\ k <= L
      BY <1>1
    <3>3. a2[k] = n /\ b2[k] = j
      BY <3>1, <3>2
    <3> HIDE DEF a2, b2
    <3> QED
      BY <3>2, <3>3
  <2>3. n = m \/ n < m
    BY <1>1
  <2> QED
    BY <2>1, <2>2, <2>3
<1>6. Placed(G, p, m, a2, b2)
  BY <1>2, <1>3, <1>4, <1>5 DEF Placed
<1> QED
  BY <1>6 DEF G

\* FlattenSeq puts the pieces one after the other.
LEMMA FlattenPlaces ==
  ASSUME NEW T, NEW p \in Seq(Seq(T))
  PROVE  /\ FlattenSeq(p) \in Seq(T)
         /\ \E a, b : Placed(FlattenSeq(p), p, Len(p), a, b)
<1>1. CASE p = <<>>
  <2>1. FlattenSeq(p) = <<>>
    BY <1>1 DEF FlattenSeq
  <2> DEFINE e == [k \in 1 .. 0 |-> 1]
  <2>2. Placed(<<>>, p, Len(p), e, e)
    BY <1>1 DEF Placed
  <2> QED
    BY <2>1, <2>2
<1>2. CASE p # <<>>
  <2>1. PICK f : Flattens(f, p, Len(p)) /\ FlattenSeq(p) = f[Len(p)]
    BY <1>2, FlattenUnfolds
  <2> DEFINE Bad == {m \in 1 .. Len(p) : ~(f[m] \in Seq(T) /\ \E a, b : Placed(f[m], p, m, a, b))}
  <2>2. Len(p) \in Nat /\ Len(p) \in 1 .. Len(p) /\ Bad \subseteq Nat
    BY <1>2
  <2>3. Bad = {}
    <3> SUFFICES ASSUME Bad # {}
                 PROVE  FALSE
      OBVIOUS
    <3>1. PICK m \in Bad : \A y \in Bad : m <= y
      BY <2>2, LeastNumber
    <3>2. m \in 1 .. Len(p)
      OBVIOUS
    <3>3. f[m] = IF m = 1 THEN p[m] ELSE f[m - 1] \o p[m]
      BY <2>1, <3>2 DEF Flattens
    <3>4. CASE m = 1
      <4>1. p[1] \in Seq(T)
        BY <3>2, <3>4
      <4>2. \E a, b : Placed(f[1], p, 1, a, b)
        BY <1>2, PlacedOne, <3>3, <3>4
      <4> QED
        BY <4>1, <4>2, <3>3, <3>4
    <3>5. CASE m # 1
      <4>1. m \in 2 .. Len(p) /\ m - 1 \in 1 .. Len(p) /\ ~(m <= m - 1)
        BY <3>2, <3>5, <2>2
      <4> m - 1 \notin Bad
        BY <3>1, <4>1
      <4>2. f[m - 1] \in Seq(T)
        BY <4>1
      <4>3. PICK a, b : Placed(f[m - 1], p, m - 1, a, b)
        BY <4>1
      <4>4. p[m] \in Seq(T)
        BY <3>2
      <4>5. f[m] \in Seq(T)
        BY <4>2, <4>4, <3>3, <3>5
      <4>6. \E a2, b2 : Placed(f[m - 1] \o p[m], p, m, a2, b2)
        BY <4>1, <4>2, <4>3, PlacedNext
      <4>7. \E a2, b2 : Placed(f[m], p, m, a2, b2)
        BY <4>6, <3>3, <3>5
      <4> QED
        BY <4>5, <4>7
    <3> QED
      BY <3>4, <3>5
  <2> QED
    BY <2>1, <2>2, <2>3
<1> QED
  BY <1>1, <1>2

-----------------------------------------------------------------------------
(* Numbers in ascending order *)

LEMMA SeqElements ==
  ASSUME NEW T, NEW s \in Seq(T)
  PROVE  Len(s) \in Nat /\ \A i \in 1 .. Len(s) : s[i] \in T
OBVIOUS

Ascending(s) == \A j, k \in 1 .. Len(s) : j < k => s[j] < s[k]

\* What Numbers and View are made of.
LEMMA PickFacts ==
  ASSUME NEW p \in Seq(Seq(Nat)), \A i \in 1 .. Len(p) : Len(p[i]) = 0 \/ Len(p[i]) = 1,
         \A i, j \in 1 .. Len(p) :
            i < j /\ Len(p[i]) = 1 /\ Len(p[j]) = 1 => p[i][1] < p[j][1]
  PROVE  /\ FlattenSeq(p) \in Seq(Nat) /\ Ascending(FlattenSeq(p))
         /\ \A x : x \in Range(FlattenSeq(p)) <=>
                      \E i \in 1 .. Len(p) : Len(p[i]) = 1 /\ x = p[i][1]
<1> DEFINE F == FlattenSeq(p)
<1>1. F \in Seq(Nat)
  BY FlattenPlaces
<1>2. PICK a, b : Placed(F, p, Len(p), a, b)
  BY FlattenPlaces
<1> HIDE DEF F
<1>3. Len(F) \in Nat /\ Len(p) \in Nat
  BY <1>1
<1>4. \A k \in 1 .. Len(F) : /\ a[k] \in 1 .. Len(p) /\ Len(p[a[k]]) = 1
                            /\ b[k] = 1 /\ F[k] = p[a[k]][1]
  <2> SUFFICES ASSUME NEW k \in 1 .. Len(F)
               PROVE  /\ a[k] \in 1 .. Len(p) /\ Len(p[a[k]]) = 1
                      /\ b[k] = 1 /\ F[k] = p[a[k]][1]
    OBVIOUS
  <2>1. a[k] \in 1 .. Len(p) /\ b[k] \in 1 .. Len(p[a[k]]) /\ F[k] = p[a[k]][b[k]]
    BY <1>2 DEF Placed
  <2>2. Len(p[a[k]]) = 0 \/ Len(p[a[k]]) = 1
    BY <2>1
  <2>3. Len(p[a[k]]) = 1 /\ b[k] = 1
    BY ONLY <2>1, <2>2
  <2> QED
    BY ONLY <2>1, <2>3
<1>5. Ascending(F)
  <2> SUFFICES ASSUME NEW j \in 1 .. Len(F), NEW k \in 1 .. Len(F), j < k
               PROVE  F[j] < F[k]
    BY DEF Ascending
  <2>1. a[j] < a[k] \/ (a[j] = a[k] /\ b[j] < b[k])
    BY <1>2 DEF Placed
  <2>2. b[j] = 1 /\ b[k] = 1
    BY <1>4
  <2>3. a[j] < a[k]
    BY <2>1, <2>2
  <2> QED
    BY <2>3, <1>4
<1>6. Range(F) = {F[k] : k \in 1 .. Len(F)}
  BY <1>1, RangeEquality
<1>7. ASSUME NEW i \in 1 .. Len(p), Len(p[i]) = 1
      PROVE  \E k \in 1 .. Len(F) : F[k] = p[i][1]
  <2>1. 1 \in 1 .. Len(p[i])
    BY <1>7
  <2>2. PICK k \in 1 .. Len(F) : a[k] = i
    BY <2>1, <1>2 DEF Placed
  <2> QED
    BY <2>2, <1>4
<1>8. ASSUME NEW x
      PROVE  x \in Range(F) <=> \E i \in 1 .. Len(p) : Len(p[i]) = 1 /\ x = p[i][1]
  <2>1. ASSUME x \in Range(F)
        PROVE  \E i \in 1 .. Len(p) : Len(p[i]) = 1 /\ x = p[i][1]
    <3>1. PICK k \in 1 .. Len(F) : x = F[k]
      BY <1>6, <2>1
    <3> QED
      BY <1>4, <3>1
  <2>2. ASSUME NEW i \in 1 .. Len(p), Len(p[i]) = 1, x = p[i][1]
        PROVE  x \in Range(F)
    <3>1. PICK k \in 1 .. Len(F) : F[k] = p[i][1]
      BY <1>7, <2>2
    <3> QED
      BY <1>6, <2>2, <3>1
  <2> QED
    BY <2>1, <2>2
<1> QED
  BY <1>1, <1>5, <1>8 DEF F

LEMMA RangeSeq ==
  ASSUME NEW T, NEW s \in Seq(T)
  PROVE  Range(s) = {s[k] : k \in 1 .. Len(s)}
BY RangeEquality

\* Of two ascending sequences, the one without gaps in the other is a prefix of it.
LEMMA AscendingPrefix ==
  ASSUME NEW s \in Seq(Nat), NEW t \in Seq(Nat), Ascending(s), Ascending(t),
         Range(s) \subseteq Range(t),
         \A x \in Range(t), y \in Range(s) : x < y => x \in Range(s)
  PROVE  IsPrefix(s, t)
<1>1. Len(s) \in Nat /\ Len(t) \in Nat
  BY SeqElements
<1>0. (\A k \in 1 .. Len(s) : s[k] \in Nat) /\ \A k \in 1 .. Len(t) : t[k] \in Nat
  BY SeqElements
<1>2. Range(s) = {s[k] : k \in 1 .. Len(s)} /\ Range(t) = {t[k] : k \in 1 .. Len(t)}
  BY RangeSeq
<1> DEFINE Bad == {k \in 1 .. Len(s) : ~(k <= Len(t) /\ s[k] = t[k])}
<1>3. Bad \subseteq Nat
  BY <1>1
<1>4. Bad = {}
  <2> SUFFICES ASSUME Bad # {}
               PROVE  FALSE
    OBVIOUS
  <2>1. PICK k \in Bad : \A y \in Bad : k <= y
    BY <1>3, LeastNumber
  <2>2. k \in 1 .. Len(s) /\ s[k] \in Nat /\ s[k] \in Range(s)
    <3>1. k \in 1 .. Len(s)
      OBVIOUS
    <3> QED
      BY <1>0, <1>2, <3>1
  <2>3. \A j \in 1 .. Len(s) : j < k => j <= Len(t) /\ s[j] = t[j]
    <3> SUFFICES ASSUME NEW j \in 1 .. Len(s), j < k
                 PROVE  j \notin Bad
      OBVIOUS
    <3> QED
      BY <2>1, <2>2, <1>1
  <2>4. PICK j \in 1 .. Len(t) : t[j] = s[k]
    BY <2>2, <1>2
  <2>5. ~(j < k)
    <3> SUFFICES ASSUME j < k
                 PROVE  FALSE
      OBVIOUS
    <3>1. j \in 1 .. Len(s)
      BY <2>2, <1>1
    <3>2. s[j] < s[k] /\ s[j] = t[j]
      BY <3>1, <2>2, <2>3 DEF Ascending
    <3> QED
      BY <3>1, <3>2, <2>2, <2>4
  <2>6. k \in 1 .. Len(t) /\ t[k] \in Range(t) /\ t[k] \in Nat /\ t[j] \in Nat
    <3>1. j \in Nat /\ k \in Nat /\ k <= j /\ j <= Len(t) /\ 1 <= k
      BY <2>5, <2>2, <1>1
    <3>2. k \in 1 .. Len(t)
      BY <3>1, <1>1
    <3> HIDE DEF Bad
    <3> QED
      BY <1>0, <1>2, <3>2
  <2>7. CASE j = k
    BY <2>7, <2>4, <2>6
  <2>8. CASE k < j
    <3>1. t[k] < s[k]
      BY <2>8, <2>6, <2>4 DEF Ascending
    <3>2. t[k] \in Range(s)
      BY <3>1, <2>6, <2>2
    <3>3. PICK i \in 1 .. Len(s) : s[i] = t[k]
      BY <3>2, <1>2
    <3>4. i < k
      <4> HIDE DEF Bad
      <4>1. i = k \/ i > k \/ i < k
        BY <2>2
      <4>2. i > k => s[k] < s[i]
        BY <2>2 DEF Ascending
      <4>3. s[i] < s[k] /\ s[i] \in Nat /\ s[k] \in Nat
        BY <1>0, <3>1, <3>3, <2>2
      <4>4. ~(s[k] < s[i]) /\ ~(s[i] = s[k])
        BY ONLY <4>3
      <4>5. i # k
        BY <4>4
      <4> QED
        BY <4>1, <4>2, <4>4, <4>5
    <3>5. t[i] = t[k] /\ i \in 1 .. Len(t)
      BY <3>3, <3>4, <2>3, <2>2, <1>1
    <3>6. t[i] < t[k]
      BY <3>4, <3>5, <2>6 DEF Ascending
    <3>7. t[k] < t[k]
      BY <3>5, <3>6
    <3> HIDE DEF Bad
    <3>8. t[k] \in Nat
      BY <2>6
    <3> QED
      BY ONLY <3>7, <3>8
  <2> QED
    BY <2>5, <2>7, <2>8, <2>2, <2>6, <1>1
<1>5. Len(s) <= Len(t)
  <2>1. CASE Len(s) = 0
    BY <2>1, <1>1
  <2>2. CASE Len(s) # 0
    <3>1. Len(s) \in 1 .. Len(s) /\ Len(s) \notin Bad
      BY <2>2, <1>1, <1>4
    <3> QED
      BY <3>1
  <2> QED
    BY <2>1, <2>2
<1>6. \A k \in 1 .. Len(s) : s[k] = t[k]
  BY <1>4
<1>7. SubSeq(s, 1, Len(s)) = SubSeq(t, 1, Len(s))
  BY <1>1, <1>5, <1>6
<1> QED
  BY <1>5, <1>7 DEF IsPrefix

\* A set of numbers that is bounded has a largest one.
LEMMA LargestNumber ==
  ASSUME NEW S, NEW n \in Nat, S \subseteq 0 .. n, S # {}
  PROVE  Max(S) \in S /\ \A x \in S : x <= Max(S)
<1> DEFINE T == {n - x : x \in S}
<1>1. T \subseteq Nat /\ T # {}
  <2>1. \A x \in S : x \in 0 .. n
    OBVIOUS
  <2>2. \A x \in S : n - x \in Nat
    BY <2>1
  <2> QED
    BY <2>2
<1>2. PICK y \in T : \A z \in T : y <= z
  BY <1>1, LeastNumber
<1>3. PICK x \in S : y = n - x
  OBVIOUS
<1>4. \A z \in S : z <= x
  <2> SUFFICES ASSUME NEW z \in S
               PROVE  z <= x
    OBVIOUS
  <2>1. y <= n - z /\ z \in Nat /\ x \in Nat
    BY <1>2
  <2> QED
    BY <2>1, <1>3
<1>5. \E w \in S : \A z \in S : w >= z
  <2>1. x \in Nat /\ \A z \in S : z \in Nat
    OBVIOUS
  <2> QED
    BY <1>4, <2>1
<1>6. Max(S) \in S /\ \A z \in S : Max(S) >= z
  BY <1>5 DEF Max
<1>7. \A z \in S : z \in Nat
  OBVIOUS
<1> QED
  BY <1>6, <1>7

-----------------------------------------------------------------------------
(* Frames, and the events they carry *)

Tos == {e.to : e \in Events} \cup {Public(e.to) : e \in Events}
RoundNumbers == {0} \cup {e.round : e \in Events}
EventFrames == {EventFrame(i) : i \in Nat}
PhaseFrames == {PhaseFrame(to, round) : to \in Tos, round \in RoundNumbers}
AudioFrames == {AudioFrame(kind, i, k) : kind \in {"begin", "part", "end"}, i \in Nat, k \in Nat}
GameFrames == EventFrames \cup PhaseFrames
Frames == GameFrames \cup AudioFrames \cup {CrashFrame}
Conns == [at : {"open", "away", "broken", "ended", "dropped"}, out : Seq(Frames), last : Frames \cup {None}]

LEMMA FrameFacts ==
  ASSUME NEW f \in Frames
  PROVE  /\ f.type = "game_event" => f.seq \in Nat /\ f = EventFrame(f.seq)
         /\ f.type = "phase_change" => f \in PhaseFrames
         /\ f.type = "error" => f = CrashFrame
         /\ IsAudio(f) => f \in AudioFrames /\ f.seq \in Nat /\ f.part \in Nat
                          /\ f = AudioFrame(f.type, f.seq, f.part)
         /\ f.type = "game_event" \/ f.type = "phase_change" \/ f.type = "error" \/ IsAudio(f)
<1>1. CASE f \in EventFrames
  BY <1>1 DEF EventFrames, EventFrame, IsAudio
<1>2. CASE f \in PhaseFrames
  <2>1. f.type = "phase_change"
    BY <1>2 DEF PhaseFrames, PhaseFrame
  <2> QED
    BY <1>2, <2>1 DEF IsAudio
<1>3. CASE f \in AudioFrames
  <2>1. PICK kind \in {"begin", "part", "end"}, i \in Nat, k \in Nat : f = AudioFrame(kind, i, k)
    BY <1>3 DEF AudioFrames
  <2>2. f.type = kind /\ f.seq = i /\ f.part = k
    BY <2>1 DEF AudioFrame
  <2> QED
    BY <1>3, <2>1, <2>2 DEF IsAudio
<1>4. CASE f = CrashFrame
  BY <1>4 DEF CrashFrame, IsAudio
<1> QED
  BY <1>1, <1>2, <1>3, <1>4 DEF Frames, GameFrames

LEMMA FrameTypes ==
  /\ \A i : EventFrame(i).type = "game_event" /\ EventFrame(i).seq = i
  /\ \A to, round : PhaseFrame(to, round).type = "phase_change"
  /\ \A kind, i, k : AudioFrame(kind, i, k).type = kind /\ AudioFrame(kind, i, k).seq = i
                     /\ AudioFrame(kind, i, k).part = k
  /\ CrashFrame.type = "error"
  /\ GameFrames \subseteq Frames /\ CrashFrame \in Frames /\ AudioFrames \subseteq Frames
  /\ \A f \in GameFrames : f.type \in {"game_event", "phase_change"}
  /\ \A f \in AudioFrames : f.type \in {"begin", "part", "end"}
<1>1. \A f \in GameFrames : f.type \in {"game_event", "phase_change"}
  BY DEF GameFrames, EventFrames, EventFrame, PhaseFrames, PhaseFrame
<1>2. \A f \in AudioFrames : f.type \in {"begin", "part", "end"}
  BY DEF AudioFrames, AudioFrame
<1>3. GameFrames \subseteq Frames /\ CrashFrame \in Frames /\ AudioFrames \subseteq Frames
  BY DEF Frames
<1> QED
  BY <1>1, <1>2, <1>3 DEF EventFrame, PhaseFrame, AudioFrame, CrashFrame

\* The event frames of F are those of the events in S, in ascending order.
Carries(F, S) ==
    /\ \A k \in 1 .. Len(F) : F[k].type = "game_event" => F[k].seq \in S
    /\ \A i \in S : \E k \in 1 .. Len(F) : F[k] = EventFrame(i)
    /\ \A j, k \in 1 .. Len(F) :
          j < k /\ F[j].type = "game_event" /\ F[k].type = "game_event" => F[j].seq < F[k].seq

LEMMA CarriesConcat ==
  ASSUME NEW F \in Seq(Frames), NEW G \in Seq(Frames), NEW S, NEW T,
         Carries(F, S), Carries(G, T), \A x \in S, y \in T : x < y
  PROVE  Carries(F \o G, S \cup T)
<1> DEFINE H == F \o G
<1>1. /\ Len(F) \in Nat /\ Len(G) \in Nat /\ Len(H) = Len(F) + Len(G)
      /\ \A k \in 1 .. Len(F) : k \in 1 .. Len(H) /\ H[k] = F[k]
      /\ \A k \in 1 .. Len(H) : k > Len(F) => k - Len(F) \in 1 .. Len(G) /\ H[k] = G[k - Len(F)]
      /\ \A k \in 1 .. Len(G) : k + Len(F) \in 1 .. Len(H) /\ H[k + Len(F)] = G[k]
  OBVIOUS
<1> HIDE DEF H
<1>2. \A k \in 1 .. Len(H) : H[k].type = "game_event" => H[k].seq \in S \cup T
  BY <1>1 DEF Carries
<1>3. \A i \in S \cup T : \E k \in 1 .. Len(H) : H[k] = EventFrame(i)
  BY <1>1 DEF Carries
<1>4. \A j, k \in 1 .. Len(H) :
        j < k /\ H[j].type = "game_event" /\ H[k].type = "game_event" => H[j].seq < H[k].seq
  <2> SUFFICES ASSUME NEW j \in 1 .. Len(H), NEW k \in 1 .. Len(H), j < k,
                      H[j].type = "game_event", H[k].type = "game_event"
               PROVE  H[j].seq < H[k].seq
    OBVIOUS
  <2>1. CASE k <= Len(F)
    <3>1. j \in 1 .. Len(F) /\ k \in 1 .. Len(F) /\ H[j] = F[j] /\ H[k] = F[k]
      BY <2>1, <1>1
    <3> QED
      BY <3>1 DEF Carries
  <2>2. CASE j > Len(F)
    <3>1. /\ j - Len(F) \in 1 .. Len(G) /\ H[j] = G[j - Len(F)]
          /\ k - Len(F) \in 1 .. Len(G) /\ H[k] = G[k - Len(F)] /\ j - Len(F) < k - Len(F)
      BY <2>2, <1>1
    <3> QED
      BY <3>1 DEF Carries
  <2>3. CASE j <= Len(F) /\ k > Len(F)
    <3>1. j \in 1 .. Len(F) /\ H[j] = F[j] /\ k - Len(F) \in 1 .. Len(G) /\ H[k] = G[k - Len(F)]
      BY <2>3, <1>1
    <3>2. H[j].seq \in S /\ H[k].seq \in T
      BY <3>1 DEF Carries
    <3> QED
      BY <3>2
  <2> QED
    BY <2>1, <2>2, <2>3, <1>1
<1> QED
  BY <1>2, <1>3, <1>4 DEF Carries, H

LEMMA CarriesNothing ==
  ASSUME NEW F \in Seq(Frames), \A k \in 1 .. Len(F) : F[k].type # "game_event"
  PROVE  Carries(F, {})
BY DEF Carries

\* If each piece carries its events and those of one piece come before those of the next.
LEMMA FlattenCarries ==
  ASSUME NEW p \in Seq(Seq(Frames)), NEW S,
         \A n \in 1 .. Len(p) : Carries(p[n], S[n]),
         \A m, n \in 1 .. Len(p) : m < n => \A x \in S[m], y \in S[n] : x < y
  PROVE  Carries(FlattenSeq(p), UNION {S[n] : n \in 1 .. Len(p)})
<1> DEFINE F == FlattenSeq(p)
           U == UNION {S[n] : n \in 1 .. Len(p)}
<1>1. PICK a, b : Placed(F, p, Len(p), a, b)
  BY FlattenPlaces
<1>2. F \in Seq(Frames)
  BY FlattenPlaces
<1> HIDE DEF F
<1>3. \A k \in 1 .. Len(F) : /\ a[k] \in 1 .. Len(p) /\ b[k] \in 1 .. Len(p[a[k]])
                             /\ F[k] = p[a[k]][b[k]]
  BY <1>1 DEF Placed
<1>4. \A k \in 1 .. Len(F) : F[k].type = "game_event" => F[k].seq \in S[a[k]]
  <2> SUFFICES ASSUME NEW k \in 1 .. Len(F), F[k].type = "game_event"
               PROVE  F[k].seq \in S[a[k]]
    OBVIOUS
  <2>1. Carries(p[a[k]], S[a[k]]) /\ b[k] \in 1 .. Len(p[a[k]]) /\ F[k] = p[a[k]][b[k]]
    BY <1>3
  <2> QED
    BY <2>1 DEF Carries
<1>5. \A k \in 1 .. Len(F) : F[k].type = "game_event" => F[k].seq \in U
  BY <1>3, <1>4
<1>6. \A i \in U : \E k \in 1 .. Len(F) : F[k] = EventFrame(i)
  <2> SUFFICES ASSUME NEW n \in 1 .. Len(p), NEW i \in S[n]
               PROVE  \E k \in 1 .. Len(F) : F[k] = EventFrame(i)
    OBVIOUS
  <2>1. PICK j \in 1 .. Len(p[n]) : p[n][j] = EventFrame(i)
    BY DEF Carries
  <2>2. PICK k \in 1 .. Len(F) : a[k] = n /\ b[k] = j
    BY <1>1 DEF Placed
  <2> QED
    BY <2>1, <2>2, <1>3
<1>7. \A j, k \in 1 .. Len(F) :
        j < k /\ F[j].type = "game_event" /\ F[k].type = "game_event" => F[j].seq < F[k].seq
  <2> SUFFICES ASSUME NEW j \in 1 .. Len(F), NEW k \in 1 .. Len(F), j < k,
                      F[j].type = "game_event", F[k].type = "game_event"
               PROVE  F[j].seq < F[k].seq
    OBVIOUS
  <2>1. CASE a[j] < a[k]
    BY <2>1, <1>3, <1>4
  <2>2. CASE a[j] = a[k] /\ b[j] < b[k]
    <3>1. Carries(p[a[j]], S[a[j]]) /\ b[j] \in 1 .. Len(p[a[j]]) /\ b[k] \in 1 .. Len(p[a[j]])
      BY <1>3, <2>2
    <3>2. F[j] = p[a[j]][b[j]] /\ F[k] = p[a[j]][b[k]]
      BY <1>3, <2>2
    <3> QED
      BY <3>1, <3>2, <2>2 DEF Carries
  <2> QED
    BY <1>1, <2>1, <2>2 DEF Placed
<1> QED
  BY <1>5, <1>6, <1>7 DEF Carries, F

\* g is what is left of a sequence of frames when phase frames are taken out.
Thins(g, frames) ==
    \E a \in [1 .. Len(g) -> 1 .. Len(frames)] :
        /\ Ascending([k \in 1 .. Len(g) |-> a[k]])
        /\ \A k \in 1 .. Len(g) : g[k] = frames[a[k]]
        /\ \A n \in 1 .. Len(frames) :
              frames[n].type # "phase_change" => \E k \in 1 .. Len(g) : a[k] = n

LEMMA ThinCarries ==
  ASSUME NEW g \in Seq(Frames), NEW frames \in Seq(Frames), NEW S,
         Thins(g, frames), Carries(frames, S)
  PROVE  Carries(g, S)
<1>1. PICK a \in [1 .. Len(g) -> 1 .. Len(frames)] :
        /\ Ascending([k \in 1 .. Len(g) |-> a[k]])
        /\ \A k \in 1 .. Len(g) : g[k] = frames[a[k]]
        /\ \A n \in 1 .. Len(frames) :
              frames[n].type # "phase_change" => \E k \in 1 .. Len(g) : a[k] = n
  BY DEF Thins
<1>2. Len(g) \in Nat /\ Len(frames) \in Nat
  OBVIOUS
<1>3. \A j, k \in 1 .. Len(g) : j < k => a[j] < a[k]
  BY <1>1, <1>2 DEF Ascending
<1>4. \A k \in 1 .. Len(g) : g[k].type = "game_event" => g[k].seq \in S
  <2>1. \A n \in 1 .. Len(frames) : frames[n].type = "game_event" => frames[n].seq \in S
    BY DEF Carries
  <2>2. \A k \in 1 .. Len(g) : a[k] \in 1 .. Len(frames) /\ g[k] = frames[a[k]]
    BY <1>1
  <2> QED
    BY <2>1, <2>2
<1>5. \A i \in S : \E k \in 1 .. Len(g) : g[k] = EventFrame(i)
  <2> SUFFICES ASSUME NEW i \in S
               PROVE  \E k \in 1 .. Len(g) : g[k] = EventFrame(i)
    OBVIOUS
  <2>1. PICK n \in 1 .. Len(frames) : frames[n] = EventFrame(i)
    BY DEF Carries
  <2>2. frames[n].type # "phase_change"
    BY <2>1, FrameTypes
  <2>3. PICK k \in 1 .. Len(g) : a[k] = n
    BY <2>2, <1>1
  <2>4. g[k] = frames[a[k]]
    BY <1>1
  <2> QED
    BY <2>1, <2>3, <2>4
<1>6. \A j, k \in 1 .. Len(g) :
        j < k /\ g[j].type = "game_event" /\ g[k].type = "game_event" => g[j].seq < g[k].seq
  <2> SUFFICES ASSUME NEW j \in 1 .. Len(g), NEW k \in 1 .. Len(g), j < k,
                      g[j].type = "game_event", g[k].type = "game_event"
               PROVE  g[j].seq < g[k].seq
    OBVIOUS
  <2>1. a[j] < a[k] /\ a[j] \in 1 .. Len(frames) /\ a[k] \in 1 .. Len(frames)
    BY <1>3
  <2>2. g[j] = frames[a[j]] /\ g[k] = frames[a[k]]
    BY <1>1
  <2> QED
    BY <2>1, <2>2 DEF Carries
<1> QED
  BY <1>4, <1>5, <1>6 DEF Carries

\* put_phase leaves out phase frames only, and what it leaves out changes nothing else.
LEMMA QueueThins ==
  ASSUME NEW cn \in Conns, NEW eyes, NEW frames \in Seq(Frames)
  PROVE  \E g \in Seq(Frames), l \in Frames \cup {None} :
            /\ Queue(cn, eyes, frames) = [cn EXCEPT !.out = @ \o g, !.last = l]
            /\ Thins(g, frames)
<1> DEFINE phases == {n \in DOMAIN frames : frames[n].type = "phase_change"}
           LastPhase(n) == LET earlier == {m \in phases : m < n}
                           IN  IF earlier = {} THEN cn.last ELSE frames[Max(earlier)]
           Repeats(n) == n \in phases /\ eyes # "GM" /\ frames[n] = LastPhase(n)
           p == [n \in DOMAIN frames |-> IF Repeats(n) THEN <<>> ELSE <<frames[n]>>]
           l == LastPhase(Len(frames) + 1)
           g == FlattenSeq(p)
<1>1. Queue(cn, eyes, frames) = [cn EXCEPT !.out = @ \o g, !.last = l]
  BY DEF Queue
<1>2. Len(frames) \in Nat /\ DOMAIN frames = 1 .. Len(frames)
  OBVIOUS
<1>3. l \in Frames \cup {None}
  <2> DEFINE earlier == {m \in phases : m < Len(frames) + 1}
  <2>1. CASE earlier = {}
    BY <2>1 DEF Conns
  <2>2. CASE earlier # {}
    <3>1. earlier \subseteq 0 .. Len(frames)
      BY <1>2
    <3>2. Max(earlier) \in earlier
      BY <1>2, <2>2, <3>1, LargestNumber
    <3> QED
      BY <2>2, <3>2
  <2> QED
    BY <2>1, <2>2
<1> HIDE DEF l
<1>4. \A n \in 1 .. Len(frames) :
        /\ Repeats(n) => frames[n].type = "phase_change" /\ p[n] = <<>>
        /\ ~Repeats(n) => p[n] = <<frames[n]>>
  BY <1>2
<1> HIDE DEF Repeats
<1>5. p \in Seq(Seq(Frames)) /\ Len(p) = Len(frames)
  <2>1. \A n \in 1 .. Len(frames) : p[n] \in Seq(Frames)
    BY <1>4
  <2>2. DOMAIN p = 1 .. Len(frames)
    BY <1>2
  <2> QED
    BY <1>2, <2>1, <2>2
<1> HIDE DEF p
<1>6. g \in Seq(Frames)
  BY <1>5, FlattenPlaces
<1>7. PICK a, b : Placed(g, p, Len(frames), a, b)
  BY <1>5, FlattenPlaces
<1> HIDE DEF g
<1>8. Len(g) \in Nat
  BY <1>6
<1>9. \A k \in 1 .. Len(g) : a[k] \in 1 .. Len(frames) /\ b[k] = 1 /\ g[k] = frames[a[k]]
  <2> SUFFICES ASSUME NEW k \in 1 .. Len(g)
               PROVE  a[k] \in 1 .. Len(frames) /\ b[k] = 1 /\ g[k] = frames[a[k]]
    OBVIOUS
  <2>1. a[k] \in 1 .. Len(frames) /\ b[k] \in 1 .. Len(p[a[k]]) /\ g[k] = p[a[k]][b[k]]
    BY <1>7 DEF Placed
  <2>2. ~Repeats(a[k])
    BY <2>1, <1>4
  <2> QED
    BY <2>1, <2>2, <1>4
<1>10. ASSUME NEW j \in 1 .. Len(g), NEW k \in 1 .. Len(g), j < k
       PROVE  a[j] < a[k]
  <2>1. a[j] < a[k] \/ (a[j] = a[k] /\ b[j] < b[k])
    BY <1>7, <1>10 DEF Placed
  <2>2. b[j] = 1 /\ b[k] = 1
    BY <1>9
  <2>3. ~(b[j] < b[k])
    BY <2>2
  <2> QED
    BY <2>1, <2>3
<1>11. \A n \in 1 .. Len(frames) :
         frames[n].type # "phase_change" => \E k \in 1 .. Len(g) : a[k] = n
  <2> SUFFICES ASSUME NEW n \in 1 .. Len(frames), frames[n].type # "phase_change"
               PROVE  \E k \in 1 .. Len(g) : a[k] = n
    OBVIOUS
  <2>1. p[n] = <<frames[n]>>
    BY <1>4
  <2>2. 1 \in 1 .. Len(p[n])
    BY <2>1
  <2> QED
    BY <2>2, <1>7 DEF Placed
<1>12. Thins(g, frames)
  <2>1. a \in [1 .. Len(g) -> 1 .. Len(frames)]
    BY <1>7 DEF Placed
  <2>2. Ascending([k \in 1 .. Len(g) |-> a[k]])
    BY <1>8, <1>10 DEF Ascending
  <2> QED
    BY <2>1, <2>2, <1>9, <1>11 DEF Thins
<1> QED
  BY <1>1, <1>3, <1>6, <1>12

\* What is queued behind what a connection carries.
LEMMA QueueCarries ==
  ASSUME NEW cn \in Conns, NEW eyes, NEW frames \in Seq(Frames), NEW S, NEW T,
         Carries(cn.out, S), Carries(frames, T), \A x \in S, y \in T : x < y
  PROVE  /\ Queue(cn, eyes, frames) \in Conns
         /\ Queue(cn, eyes, frames).at = cn.at
         /\ Carries(Queue(cn, eyes, frames).out, S \cup T)
<1>1. PICK g \in Seq(Frames), l \in Frames \cup {None} :
            /\ Queue(cn, eyes, frames) = [cn EXCEPT !.out = @ \o g, !.last = l]
            /\ Thins(g, frames)
  BY QueueThins
<1>2. Carries(g, T)
  BY <1>1, ThinCarries
<1>3. cn.out \in Seq(Frames)
  BY DEF Conns
<1>4. cn.out \o g \in Seq(Frames) /\ Carries(cn.out \o g, S \cup T)
  BY <1>2, <1>3, CarriesConcat
<1>5. Queue(cn, eyes, frames) = [at |-> cn.at, out |-> cn.out \o g, last |-> l]
  BY <1>1 DEF Conns
<1> QED
  BY <1>4, <1>5 DEF Conns

-----------------------------------------------------------------------------
(* The frames that are built of the file *)

LEMMA RoundFacts ==
  ASSUME NEW file \in Seq(Events), NEW i \in 0 .. Len(file)
  PROVE  RoundAt(file, i) \in RoundNumbers
<1> DEFINE starts == {j \in 1 .. i : file[j].type = "ROUND_STARTED"}
<1>1. i \in Nat /\ Len(file) \in Nat
  OBVIOUS
<1>2. CASE starts = {}
  BY <1>2 DEF RoundAt, RoundNumbers
<1>3. CASE starts # {}
  <2>1. starts \subseteq 0 .. i
    BY <1>1
  <2>2. Max(starts) \in starts
    BY <1>1, <1>3, <2>1, LargestNumber
  <2>3. Max(starts) \in 1 .. Len(file)
    BY <2>2, <1>1
  <2>4. file[Max(starts)] \in Events
    BY <2>3
  <2> QED
    BY <1>3, <2>4 DEF RoundAt, RoundNumbers
<1> QED
  BY <1>2, <1>3

LEMMA FramesOfFacts ==
  ASSUME NEW file \in Seq(Events), NEW first \in 1 .. Len(file) + 1, NEW eyes,
         NEW kinds, NEW Rounds, \A i \in 1 .. Len(file) : Rounds[i] \in RoundNumbers
  PROVE  /\ FramesOf(file, first, eyes, kinds, Rounds) \in Seq(GameFrames)
         /\ Carries(FramesOf(file, first, eyes, kinds, Rounds),
                    {i \in first .. Len(file) : "event" \in kinds /\ Visible(file[i], eyes)})
<1> DEFINE Fr(i) ==
            (IF "event" \in kinds /\ Visible(file[i], eyes) THEN <<EventFrame(i)>> ELSE <<>>)
            \o IF "phase" \in kinds /\ IsPhase(file[i])
               THEN <<PhaseFrame(IF eyes = "GM" THEN file[i].to ELSE Public(file[i].to), Rounds[i])>>
               ELSE <<>>
           n == Len(file) - first + 1
           p == [k \in 1 .. n |-> Fr(first + k - 1)]
           Ev(i) == "event" \in kinds /\ Visible(file[i], eyes)
           S == [k \in 1 .. n |-> {i \in {first + k - 1} : Ev(i)}]
<1>1. FramesOf(file, first, eyes, kinds, Rounds) = FlattenSeq(p)
  BY DEF FramesOf
<1>2. Len(file) \in Nat /\ first \in Nat /\ n \in Nat
  OBVIOUS
<1>3. \A k \in 1 .. n : first + k - 1 \in 1 .. Len(file) /\ first + k - 1 \in Nat
  BY <1>2
<1>4. ASSUME NEW i \in 1 .. Len(file)
      PROVE  /\ Fr(i) \in Seq(GameFrames)
             /\ Carries(Fr(i), {j \in {i} : Ev(j)})
  <2>1. i \in Nat /\ file[i] \in Events
    BY <1>2
  <2> DEFINE e == IF Ev(i) THEN <<EventFrame(i)>> ELSE <<>>
             f == PhaseFrame(IF eyes = "GM" THEN file[i].to ELSE Public(file[i].to), Rounds[i])
             h == IF "phase" \in kinds /\ IsPhase(file[i]) THEN <<f>> ELSE <<>>
  <2>2. EventFrame(i) \in GameFrames
    BY <2>1 DEF GameFrames, EventFrames
  <2>3. f \in GameFrames
    BY <2>1 DEF GameFrames, PhaseFrames, Tos
  <2>4. f.type = "phase_change" /\ EventFrame(i).type = "game_event" /\ EventFrame(i).seq = i
    BY FrameTypes
  <2> HIDE DEF f
  <2>5. e \in Seq(GameFrames) /\ h \in Seq(GameFrames)
    BY <2>2, <2>3
  <2>6. e \in Seq(Frames) /\ h \in Seq(Frames)
    BY <2>5, SeqMonotonic, FrameTypes
  <2>7. Carries(e, {j \in {i} : Ev(j)})
    <3>1. CASE Ev(i)
      <4>1. {j \in {i} : Ev(j)} = {i} /\ e = <<EventFrame(i)>>
        BY <3>1
      <4>2. Carries(<<EventFrame(i)>>, {i})
        <5>1. Len(<<EventFrame(i)>>) = 1 /\ <<EventFrame(i)>>[1] = EventFrame(i)
          OBVIOUS
        <5> QED
          BY <2>4, <5>1 DEF Carries
      <4> QED
        BY <4>1, <4>2
    <3>2. CASE ~Ev(i)
      <4>1. {j \in {i} : Ev(j)} = {} /\ e = <<>>
        BY <3>2
      <4> QED
        BY <4>1 DEF Carries
    <3> QED
      BY <3>1, <3>2
  <2>8. Carries(h, {})
    BY <2>4 DEF Carries
  <2>9. Fr(i) = e \o h
    BY DEF f
  <2>10. Carries(e \o h, {j \in {i} : Ev(j)} \cup {})
    BY <2>6, <2>7, <2>8, CarriesConcat
  <2>11. e \o h \in Seq(GameFrames)
    BY <2>5
  <2> HIDE DEF e, h, Ev
  <2> QED
    BY <2>9, <2>10, <2>11
<1> HIDE DEF Fr, Ev
<1>5. p \in Seq(Seq(GameFrames)) /\ Len(p) = n
  <2>1. \A k \in 1 .. n : p[k] \in Seq(GameFrames)
    BY <1>3, <1>4
  <2> QED
    BY <1>2, <2>1
<1>6. FlattenSeq(p) \in Seq(GameFrames)
  BY <1>5, FlattenPlaces
<1>7. p \in Seq(Seq(Frames))
  <2>1. \A k \in 1 .. n : p[k] \in Seq(Frames)
    BY <1>3, <1>4, SeqMonotonic, FrameTypes
  <2> QED
    BY <1>2, <2>1
<1>8. \A k \in 1 .. Len(p) : Carries(p[k], S[k])
  BY <1>3, <1>4, <1>5
<1>9. \A j, k \in 1 .. Len(p) : j < k => \A x \in S[j], y \in S[k] : x < y
  BY <1>2, <1>3, <1>5
<1>10. Carries(FlattenSeq(p), UNION {S[k] : k \in 1 .. Len(p)})
  BY <1>7, <1>8, <1>9, FlattenCarries
<1>11. UNION {S[k] : k \in 1 .. Len(p)} = {i \in first .. Len(file) : Ev(i)}
  <2>1. ASSUME NEW i \in first .. Len(file), Ev(i)
        PROVE  \E k \in 1 .. Len(p) : i \in S[k]
    <3>1. i - first + 1 \in 1 .. Len(p) /\ first + (i - first + 1) - 1 = i
      BY <1>2, <1>5
    <3>2. i \in S[i - first + 1]
      BY <3>1, <2>1, <1>5
    <3> QED
      BY <3>1, <3>2
  <2>2. ASSUME NEW k \in 1 .. Len(p), NEW i \in S[k]
        PROVE  i \in first .. Len(file) /\ Ev(i)
    <3>1. i = first + k - 1 /\ Ev(i)
      BY <1>5
    <3> QED
      BY <3>1, <1>2, <1>5
  <2> HIDE DEF S
  <2> QED
    BY <2>1, <2>2
<1> HIDE DEF p, S
<1> QED
  BY <1>1, <1>6, <1>10, <1>11 DEF Ev

LEMMA LiveFacts ==
  ASSUME NEW file \in Seq(Events), NEW first \in 1 .. Len(file) + 1, NEW eyes,
         NEW round \in RoundNumbers
  PROVE  /\ Live(file, first, eyes, round) \in Seq(GameFrames)
         /\ Carries(Live(file, first, eyes, round), {i \in first .. Len(file) : Visible(file[i], eyes)})
<1> DEFINE Rounds == [i \in DOMAIN file |-> round]
           Seen == {i \in first .. Len(file) : Visible(file[i], eyes)}
           All == FramesOf(file, first, eyes, {"event", "phase"}, Rounds)
           Ev == FramesOf(file, first, eyes, {"event"}, Rounds)
           Ph == FramesOf(file, first, eyes, {"phase"}, Rounds)
<1>1. \A i \in 1 .. Len(file) : Rounds[i] \in RoundNumbers
  OBVIOUS
<1> HIDE DEF Rounds
<1>2. All \in Seq(GameFrames) /\ Carries(All, Seen)
  <2>1. {i \in first .. Len(file) : "event" \in {"event", "phase"} /\ Visible(file[i], eyes)} = Seen
    OBVIOUS
  <2> QED
    BY <1>1, <2>1, FramesOfFacts
<1>3. Ev \in Seq(GameFrames) /\ Carries(Ev, Seen)
  <2>1. {i \in first .. Len(file) : "event" \in {"event"} /\ Visible(file[i], eyes)} = Seen
    OBVIOUS
  <2> QED
    BY <1>1, <2>1, FramesOfFacts
<1>4. Ph \in Seq(GameFrames) /\ Carries(Ph, {})
  <2>1. {i \in first .. Len(file) : "event" \in {"phase"} /\ Visible(file[i], eyes)} = {}
    OBVIOUS
  <2> QED
    BY <1>1, <2>1, FramesOfFacts
<1>5. Live(file, first, eyes, round) = IF eyes = "GM" THEN All ELSE Ev \o Ph
  BY DEF Live, Rounds
<1> HIDE DEF All, Ev, Ph, Seen
<1>6. Ev \in Seq(Frames) /\ Ph \in Seq(Frames)
  BY <1>3, <1>4, SeqMonotonic, FrameTypes
<1>7. Carries(Ev \o Ph, Seen \cup {})
  BY <1>3, <1>4, <1>6, CarriesConcat
<1>8. Ev \o Ph \in Seq(GameFrames)
  BY <1>3, <1>4
<1> QED
  BY <1>2, <1>5, <1>7, <1>8 DEF Seen

LEMMA NumbersFacts ==
  ASSUME NEW S, NEW first \in Nat \ {0}, NEW last \in Nat, first <= last + 1
  PROVE  /\ Numbers(S, first, last) \in Seq(Nat) /\ Ascending(Numbers(S, first, last))
         /\ \A x : x \in Range(Numbers(S, first, last)) <=> x \in first .. last /\ x \in S
<1>1. PICK n \in Nat : n = last - first + 1
  OBVIOUS
<1>2. PICK p : p = [k \in 1 .. n |-> IF first + k - 1 \in S THEN <<first + k - 1>> ELSE <<>>]
  OBVIOUS
<1>3. Numbers(S, first, last) = FlattenSeq(p)
  BY <1>1, <1>2 DEF Numbers
<1>4. ASSUME NEW i \in 1 .. n
      PROVE  /\ p[i] \in Seq(Nat)
             /\ first + i - 1 \in S => Len(p[i]) = 1 /\ p[i][1] = first + i - 1
             /\ first + i - 1 \notin S => Len(p[i]) = 0
  <2>1. first + i - 1 \in Nat
    OBVIOUS
  <2>2. CASE first + i - 1 \in S
    <3>1. p[i] = <<first + i - 1>>
      BY <1>2, <2>2
    <3> QED
      BY <2>1, <2>2, <3>1
  <2>3. CASE first + i - 1 \notin S
    <3>1. p[i] = <<>>
      BY <1>2, <2>3
    <3> QED
      BY <2>3, <3>1
  <2> QED
    BY <2>2, <2>3
<1>5. p \in Seq(Seq(Nat)) /\ Len(p) = n
  BY <1>2, <1>4
<1>6. \A i \in 1 .. Len(p) : Len(p[i]) = 0 \/ Len(p[i]) = 1
  BY <1>4, <1>5
<1>7. \A i, j \in 1 .. Len(p) : i < j /\ Len(p[i]) = 1 /\ Len(p[j]) = 1 => p[i][1] < p[j][1]
  <2> SUFFICES ASSUME NEW i \in 1 .. n, NEW j \in 1 .. n, i < j, Len(p[i]) = 1, Len(p[j]) = 1
               PROVE  p[i][1] < p[j][1]
    BY <1>5
  <2>1. p[i][1] = first + i - 1 /\ p[j][1] = first + j - 1
    BY <1>4
  <2> QED
    BY <2>1
<1>8. /\ FlattenSeq(p) \in Seq(Nat) /\ Ascending(FlattenSeq(p))
      /\ \A x : x \in Range(FlattenSeq(p)) <=> \E i \in 1 .. Len(p) : Len(p[i]) = 1 /\ x = p[i][1]
  BY <1>5, <1>6, <1>7, PickFacts
<1>9. ASSUME NEW x
      PROVE  x \in Range(FlattenSeq(p)) <=> x \in first .. last /\ x \in S
  <2>1. ASSUME NEW i \in 1 .. n, Len(p[i]) = 1
        PROVE  p[i][1] \in first .. last /\ p[i][1] \in S
    BY <1>1, <1>4, <2>1
  <2>2. ASSUME x \in first .. last, x \in S
        PROVE  \E i \in 1 .. n : Len(p[i]) = 1 /\ x = p[i][1]
    <3>1. x - first + 1 \in 1 .. n /\ first + (x - first + 1) - 1 = x
      BY <1>1, <2>2
    <3>2. Len(p[x - first + 1]) = 1 /\ p[x - first + 1][1] = x
      BY <3>1, <1>4, <2>2
    <3> QED
      BY <3>1, <3>2
  <2> QED
    BY <1>5, <1>8, <2>1, <2>2
<1> QED
  BY <1>3, <1>8, <1>9

LEMMA NewsFacts ==
  ASSUME NEW file \in Seq(Events), NEW r, NEW first \in 1 .. Len(file) + 1
  PROVE  /\ News(r, file, first) \in Seq(Nat) /\ Ascending(News(r, file, first))
         /\ \A x : x \in Range(News(r, file, first)) <=>
                      x \in first .. Len(file) /\ Visible(file[x], viewer[r])
<1> DEFINE S == {i \in DOMAIN file : Visible(file[i], viewer[r])}
<1>1. Len(file) \in Nat /\ first \in Nat \ {0} /\ first <= Len(file) + 1 /\ DOMAIN file = 1 .. Len(file)
  OBVIOUS
<1>2. S \in SUBSET Nat /\ \A x \in first .. Len(file) : x \in S <=> Visible(file[x], viewer[r])
  BY <1>1
<1>3. News(r, file, first) = Numbers(S, first, Len(file))
  BY DEF News
<1> HIDE DEF S
<1>4. /\ Numbers(S, first, Len(file)) \in Seq(Nat) /\ Ascending(Numbers(S, first, Len(file)))
      /\ \A x : x \in Range(Numbers(S, first, Len(file))) <=> x \in first .. Len(file) /\ x \in S
  BY <1>1, <1>2, NumbersFacts
<1> QED
  BY <1>2, <1>3, <1>4

-----------------------------------------------------------------------------
(* What a reader has and what is on its way to him *)

\* He has read in order what he may see of the file, up to some event.
InOrder(file, eyes, read) ==
    /\ Ascending(read)
    /\ Range(read) \subseteq {i \in 1 .. Len(file) : Visible(file[i], eyes)}
    /\ \A i \in 1 .. Len(file), j \in Range(read) :
          i < j /\ Visible(file[i], eyes) => i \in Range(read)

\* What he may see of the first m events and has not read.
Owed(file, eyes, read, m) == {i \in 1 .. m : Visible(file[i], eyes) /\ i \notin Range(read)}

\* And the rest is on his connection, up to the last batch that was broadcast.
Fed(file, eyes, now, cn, read) ==
    /\ InOrder(file, eyes, read)
    /\ cn.at = "open" =>
          \E m \in 0 .. Len(file) :
              /\ now = "playing" => m = Len(file)
              /\ Range(read) \subseteq 1 .. m
              /\ Carries(cn.out, Owed(file, eyes, read, m))

LEMMA FedQuiet ==
  ASSUME NEW file, NEW eyes, NEW now, NEW cn \in Conns, NEW read,
         NEW frames \in Seq(Frames), \A k \in 1 .. Len(frames) : frames[k].type # "game_event",
         Fed(file, eyes, now, cn, read)
  PROVE  Queue(cn, eyes, frames) \in Conns /\ Fed(file, eyes, now, Queue(cn, eyes, frames), read)
<1>1. Carries(frames, {})
  BY CarriesNothing
<1>2. ASSUME NEW S, Carries(cn.out, S)
      PROVE  Carries(Queue(cn, eyes, frames).out, S)
  <2>1. Carries(Queue(cn, eyes, frames).out, S \cup {})
    BY <1>1, <1>2, QueueCarries
  <2> QED
    BY <2>1
<1>3. Queue(cn, eyes, frames) \in Conns /\ Queue(cn, eyes, frames).at = cn.at
  <2>1. PICK g \in Seq(Frames), l \in Frames \cup {None} :
            /\ Queue(cn, eyes, frames) = [cn EXCEPT !.out = @ \o g, !.last = l]
            /\ Thins(g, frames)
    BY QueueThins
  <2>2. Queue(cn, eyes, frames) = [at |-> cn.at, out |-> cn.out \o g, last |-> l]
    BY <2>1 DEF Conns
  <2>3. cn.out \o g \in Seq(Frames)
    BY DEF Conns
  <2> QED
    BY <2>2, <2>3 DEF Conns
<1> QED
  BY <1>2, <1>3 DEF Fed

\* The file grows behind what a reader has.
LEMMA InOrderGrows ==
  ASSUME NEW file \in Seq(Events), NEW batch \in Seq(Events), NEW eyes, NEW read,
         InOrder(file, eyes, read)
  PROVE  InOrder(file \o batch, eyes, read)
<1> DEFINE file2 == file \o batch
<1>1. /\ Len(file) \in Nat /\ Len(file2) \in Nat /\ Len(file) <= Len(file2)
      /\ \A i \in 1 .. Len(file) : i \in 1 .. Len(file2) /\ file2[i] = file[i]
  OBVIOUS
<1> HIDE DEF file2
<1>2. Range(read) \subseteq {i \in 1 .. Len(file2) : Visible(file2[i], eyes)}
  <2>1. \A i \in Range(read) : i \in 1 .. Len(file) /\ Visible(file[i], eyes)
    BY DEF InOrder
  <2> QED
    BY <1>1, <2>1
<1>3. ASSUME NEW i \in 1 .. Len(file2), NEW j \in Range(read), i < j, Visible(file2[i], eyes)
      PROVE  i \in Range(read)
  <2>1. j \in 1 .. Len(file)
    BY DEF InOrder
  <2>2. i \in 1 .. Len(file) /\ Visible(file[i], eyes)
    BY <1>1, <1>3, <2>1
  <2> QED
    BY <1>3, <2>2 DEF InOrder
<1> QED
  BY <1>2, <1>3 DEF InOrder, file2

LEMMA FedGrows ==
  ASSUME NEW file \in Seq(Events), NEW batch \in Seq(Events), NEW eyes, NEW read, NEW cn,
         NEW now, NEW then, then # "playing" \/ cn.at # "open", Fed(file, eyes, now, cn, read)
  PROVE  Fed(file \o batch, eyes, then, cn, read)
<1> DEFINE file2 == file \o batch
<1>1. /\ Len(file) \in Nat /\ Len(file2) \in Nat /\ Len(file) <= Len(file2)
      /\ \A i \in 1 .. Len(file) : i \in 1 .. Len(file2) /\ file2[i] = file[i]
  OBVIOUS
<1>2. InOrder(file2, eyes, read)
  BY InOrderGrows DEF Fed
<1> HIDE DEF file2
<1>3. ASSUME cn.at = "open"
      PROVE  \E m \in 0 .. Len(file2) :
                 /\ then = "playing" => m = Len(file2)
                 /\ Range(read) \subseteq 1 .. m
                 /\ Carries(cn.out, Owed(file2, eyes, read, m))
  <2>1. PICK m \in 0 .. Len(file) :
            /\ Range(read) \subseteq 1 .. m
            /\ Carries(cn.out, Owed(file, eyes, read, m))
    BY <1>3 DEF Fed
  <2>2. Owed(file2, eyes, read, m) = Owed(file, eyes, read, m)
    BY <1>1, <2>1 DEF Owed
  <2> QED
    BY <1>1, <1>3, <2>1, <2>2
<1> QED
  BY <1>2, <1>3 DEF Fed, file2

\* A batch is broadcast to a client.
LEMMA FedBatch ==
  ASSUME NEW file \in Seq(Events), NEW batch \in Seq(Events), NEW eyes, NEW read,
         NEW cn \in Conns, NEW round \in RoundNumbers,
         cn.at = "open", Fed(file, eyes, "playing", cn, read)
  PROVE  LET file2 == file \o batch
             cn2 == Queue(cn, eyes, Live(file2, Len(file) + 1, eyes, round))
         IN  cn2 \in Conns /\ Fed(file2, eyes, "playing", cn2, read)
<1> DEFINE file2 == file \o batch
           frames == Live(file2, Len(file) + 1, eyes, round)
           T == {i \in Len(file) + 1 .. Len(file2) : Visible(file2[i], eyes)}
           cn2 == Queue(cn, eyes, frames)
<1>1. /\ Len(file) \in Nat /\ Len(file2) \in Nat /\ Len(file) <= Len(file2) /\ file2 \in Seq(Events)
      /\ \A i \in 1 .. Len(file) : i \in 1 .. Len(file2) /\ file2[i] = file[i]
  OBVIOUS
<1>2. InOrder(file2, eyes, read)
  BY InOrderGrows DEF Fed
<1> HIDE DEF file2
<1>3. Len(file) + 1 \in 1 .. Len(file2) + 1
  BY <1>1
<1>4. frames \in Seq(GameFrames) /\ Carries(frames, T)
  BY <1>1, <1>3, LiveFacts
<1>5. frames \in Seq(Frames)
  BY <1>4, SeqMonotonic, FrameTypes
<1> HIDE DEF frames
<1>6. Range(read) \subseteq 1 .. Len(file) /\ Carries(cn.out, Owed(file, eyes, read, Len(file)))
  BY DEF Fed
<1>7. \A x \in Owed(file, eyes, read, Len(file)), y \in T : x < y
  BY <1>1 DEF Owed
<1>8. cn2 \in Conns /\ cn2.at = cn.at /\ Carries(cn2.out, Owed(file, eyes, read, Len(file)) \cup T)
  BY <1>4, <1>5, <1>6, <1>7, QueueCarries
<1>9. Owed(file, eyes, read, Len(file)) \cup T = Owed(file2, eyes, read, Len(file2))
  BY <1>1, <1>6 DEF Owed
<1>10. Len(file2) \in 0 .. Len(file2) /\ Range(read) \subseteq 1 .. Len(file2)
  BY <1>1, <1>6
<1> HIDE DEF cn2, T
<1>11. Fed(file2, eyes, "playing", cn2, read)
  BY <1>2, <1>8, <1>9, <1>10 DEF Fed
<1> QED
  BY <1>8, <1>11 DEF cn2, frames, file2

\* He reads the next of what he may see.
LEMMA InOrderMore ==
  ASSUME NEW file \in Seq(Events), NEW eyes, NEW read \in Seq(Nat), NEW next \in Seq(Nat),
         InOrder(file, eyes, read), Ascending(next),
         \A x \in Range(next) : x \in 1 .. Len(file) /\ Visible(file[x], eyes) /\ x \notin Range(read),
         \A i \in 1 .. Len(file), j \in Range(next) :
            i < j /\ Visible(file[i], eyes) => i \in Range(read) \cup Range(next)
  PROVE  /\ read \o next \in Seq(Nat) /\ Range(read \o next) = Range(read) \cup Range(next)
         /\ InOrder(file, eyes, read \o next)
<1> DEFINE both == read \o next
<1>1. both \in Seq(Nat) /\ Range(both) = Range(read) \cup Range(next)
  BY RangeConcatenation
<1>2. /\ Len(read) \in Nat /\ Len(next) \in Nat /\ Len(both) = Len(read) + Len(next)
      /\ \A k \in 1 .. Len(read) : both[k] = read[k]
      /\ \A k \in 1 .. Len(both) : k > Len(read) =>
            k - Len(read) \in 1 .. Len(next) /\ both[k] = next[k - Len(read)]
  OBVIOUS
<1> HIDE DEF both
<1>3. Range(read) = {read[k] : k \in 1 .. Len(read)} /\ Range(next) = {next[k] : k \in 1 .. Len(next)}
  BY RangeSeq
<1>4. ASSUME NEW x \in Range(read), NEW y \in Range(next)
      PROVE  x < y
  <2>1. y \in 1 .. Len(file) /\ Visible(file[y], eyes) /\ y \notin Range(read)
    OBVIOUS
  <2>2. x \in 1 .. Len(file)
    BY DEF InOrder
  <2>3. ~(y < x)
    BY <2>1 DEF InOrder
  <2> QED
    BY <2>1, <2>2, <2>3
<1>5. Ascending(both)
  <2> SUFFICES ASSUME NEW j \in 1 .. Len(both), NEW k \in 1 .. Len(both), j < k
               PROVE  both[j] < both[k]
    BY DEF Ascending
  <2>1. CASE k <= Len(read)
    <3>1. j \in 1 .. Len(read) /\ k \in 1 .. Len(read)
      BY <2>1, <1>2
    <3> QED
      BY <3>1, <1>2 DEF InOrder, Ascending
  <2>2. CASE j > Len(read)
    <3>1. /\ j - Len(read) \in 1 .. Len(next) /\ both[j] = next[j - Len(read)]
          /\ k - Len(read) \in 1 .. Len(next) /\ both[k] = next[k - Len(read)]
          /\ j - Len(read) < k - Len(read)
      BY <2>2, <1>2
    <3> QED
      BY <3>1 DEF Ascending
  <2>3. CASE j <= Len(read) /\ k > Len(read)
    <3>1. /\ j \in 1 .. Len(read) /\ both[j] = read[j]
          /\ k - Len(read) \in 1 .. Len(next) /\ both[k] = next[k - Len(read)]
      BY <2>3, <1>2
    <3>2. both[j] \in Range(read) /\ both[k] \in Range(next)
      BY <3>1, <1>3
    <3> QED
      BY <3>2, <1>4
  <2> QED
    BY <2>1, <2>2, <2>3, <1>2
<1>6. Range(both) \subseteq {i \in 1 .. Len(file) : Visible(file[i], eyes)}
  BY <1>1 DEF InOrder
<1>7. ASSUME NEW i \in 1 .. Len(file), NEW j \in Range(both), i < j, Visible(file[i], eyes)
      PROVE  i \in Range(both)
  BY <1>1, <1>7 DEF InOrder
<1> QED
  BY <1>1, <1>5, <1>6, <1>7 DEF InOrder, both

LEMMA CarriesTail ==
  ASSUME NEW F \in Seq(Frames), F # <<>>, NEW S \in SUBSET Nat, Carries(F, S)
  PROVE  /\ Head(F).type # "game_event" => Carries(Tail(F), S)
         /\ Head(F).type = "game_event" =>
              /\ Head(F).seq \in S /\ \A x \in S : Head(F).seq <= x
              /\ Carries(Tail(F), S \ {Head(F).seq})
<1> DEFINE G == Tail(F)
           x == Head(F).seq
<1>1. /\ Len(F) \in Nat /\ Len(F) # 0 /\ Len(G) = Len(F) - 1 /\ Head(F) = F[1] /\ 1 \in 1 .. Len(F)
      /\ \A k \in 1 .. Len(G) : k + 1 \in 1 .. Len(F) /\ G[k] = F[k + 1]
      /\ \A k \in 1 .. Len(F) : k # 1 => k - 1 \in 1 .. Len(G) /\ G[k - 1] = F[k]
  OBVIOUS
<1> HIDE DEF G
<1>2. \A j, k \in 1 .. Len(G) :
        j < k /\ G[j].type = "game_event" /\ G[k].type = "game_event" => G[j].seq < G[k].seq
  <2> SUFFICES ASSUME NEW j \in 1 .. Len(G), NEW k \in 1 .. Len(G), j < k,
                      G[j].type = "game_event", G[k].type = "game_event"
               PROVE  G[j].seq < G[k].seq
    OBVIOUS
  <2>1. /\ j + 1 \in 1 .. Len(F) /\ G[j] = F[j + 1] /\ k + 1 \in 1 .. Len(F) /\ G[k] = F[k + 1]
        /\ j + 1 < k + 1
    BY <1>1
  <2> QED
    BY <2>1 DEF Carries
<1>3. CASE Head(F).type # "game_event"
  <2>1. \A k \in 1 .. Len(G) : G[k].type = "game_event" => G[k].seq \in S
    BY <1>1 DEF Carries
  <2>2. ASSUME NEW i \in S
        PROVE  \E k \in 1 .. Len(G) : G[k] = EventFrame(i)
    <3>1. PICK k \in 1 .. Len(F) : F[k] = EventFrame(i)
      BY DEF Carries
    <3>2. k # 1
      BY <3>1, <1>1, <1>3, FrameTypes
    <3> QED
      BY <3>1, <3>2, <1>1
  <2> QED
    BY <1>2, <1>3, <2>1, <2>2 DEF Carries, G
<1>4. CASE Head(F).type = "game_event"
  <2>1. x \in S
    BY <1>1, <1>4 DEF Carries
  <2>2. ASSUME NEW k \in 1 .. Len(G), G[k].type = "game_event"
        PROVE  x < G[k].seq /\ G[k].seq \in S
    <3>1. k + 1 \in 1 .. Len(F) /\ G[k] = F[k + 1] /\ 1 < k + 1
      BY <1>1
    <3> QED
      BY <3>1, <2>2, <1>1, <1>4 DEF Carries
  <2>3. ASSUME NEW i \in S, i # x
        PROVE  \E k \in 1 .. Len(G) : G[k] = EventFrame(i)
    <3>1. PICK k \in 1 .. Len(F) : F[k] = EventFrame(i)
      BY DEF Carries
    <3>2. k # 1
      BY <3>1, <1>1, <2>3, FrameTypes
    <3> QED
      BY <3>1, <3>2, <1>1
  <2>4. ASSUME NEW i \in S
        PROVE  x <= i
    <3>1. CASE i = x
      BY <3>1, <2>1
    <3>2. CASE i # x
      <4>1. PICK k \in 1 .. Len(G) : G[k] = EventFrame(i)
        BY <2>3, <3>2
      <4>2. x < G[k].seq /\ G[k].seq = i
        BY <2>2, <4>1, FrameTypes
      <4>3. x < i
        BY <4>2
      <4>4. x \in Nat /\ i \in Nat
        BY <2>1
      <4> HIDE DEF x
      <4> QED
        BY <4>3, <4>4
    <3> QED
      BY <3>1, <3>2
  <2>5. ASSUME NEW k \in 1 .. Len(G), G[k].type = "game_event"
        PROVE  G[k].seq \in S \ {x}
    <3>1. x < G[k].seq /\ G[k].seq \in S
      BY <2>2, <2>5
    <3>2. x \in Nat /\ G[k].seq \in Nat
      BY <2>1, <3>1
    <3> HIDE DEF x
    <3> QED
      BY <3>1, <3>2
  <2>6. Carries(G, S \ {x})
    BY <1>2, <2>3, <2>5 DEF Carries
  <2> QED
    BY <1>4, <2>1, <2>4, <2>6 DEF G
<1> QED
  BY <1>3, <1>4

LEMMA FedSend ==
  ASSUME NEW file \in Seq(Events), NEW eyes, NEW now, NEW cn \in Conns, NEW read \in Seq(Nat),
         cn.at = "open", cn.out # <<>>, Fed(file, eyes, now, cn, read)
  PROVE  LET frame == Head(cn.out)
             cn2 == [cn EXCEPT !.out = Tail(@)]
             read2 == IF frame.type = "game_event" THEN Append(read, frame.seq) ELSE read
         IN  /\ cn2 \in Conns /\ read2 \in Seq(Nat)
             /\ Fed(file, eyes, now, cn2, read2) /\ IsPrefix(read, read2)
<1> DEFINE frame == Head(cn.out)
           cn2 == [cn EXCEPT !.out = Tail(@)]
<1>1. /\ cn.out \in Seq(Frames) /\ frame \in Frames
      /\ cn2 \in Conns /\ cn2.at = "open" /\ cn2.out = Tail(cn.out)
  <2>1. cn.out \in Seq(Frames) /\ cn.last \in Frames \cup {None}
    BY DEF Conns
  <2>2. Tail(cn.out) \in Seq(Frames) /\ Head(cn.out) \in Frames
    BY <2>1
  <2>3. PICK rest \in Seq(Frames) : rest = Tail(cn.out)
    BY <2>2
  <2>4. cn2 = [cn EXCEPT !.out = rest]
    BY <2>3
  <2>5. cn2 = [at |-> cn.at, out |-> rest, last |-> cn.last]
    BY <2>4 DEF Conns
  <2> QED
    BY <2>1, <2>2, <2>3, <2>5 DEF Conns
<1>2. PICK m \in 0 .. Len(file) :
            /\ now = "playing" => m = Len(file)
            /\ Range(read) \subseteq 1 .. m
            /\ Carries(cn.out, Owed(file, eyes, read, m))
  BY DEF Fed
<1> DEFINE S == Owed(file, eyes, read, m)
<1>3. Len(file) \in Nat /\ m \in Nat /\ m <= Len(file) /\ S \in SUBSET Nat /\ InOrder(file, eyes, read)
  BY DEF Owed, Fed
<1> HIDE DEF cn2, frame
<1>4. CASE frame.type # "game_event"
  <2>1. Carries(Tail(cn.out), S)
    BY <1>1, <1>2, <1>3, <1>4, CarriesTail DEF frame
  <2>2. Fed(file, eyes, now, cn2, read)
    BY <1>1, <1>2, <1>3, <2>1 DEF Fed
  <2>3. IsPrefix(read, read)
    BY DEF IsPrefix
  <2> QED
    BY <1>1, <1>4, <2>2, <2>3 DEF cn2, frame
<1>5. CASE frame.type = "game_event"
  <2> DEFINE x == frame.seq
  <2>1. x \in S /\ (\A y \in S : x <= y) /\ Carries(Tail(cn.out), S \ {x})
    BY <1>1, <1>2, <1>3, <1>5, CarriesTail DEF frame
  <2> HIDE DEF x
  <2>2. x \in 1 .. m /\ x \in 1 .. Len(file) /\ x \in Nat /\ Visible(file[x], eyes) /\ x \notin Range(read)
    BY <1>3, <2>1 DEF Owed
  <2>3. <<x>> \in Seq(Nat) /\ Range(<<x>>) = {x} /\ Ascending(<<x>>)
    <3>1. <<x>> \in Seq(Nat) /\ Len(<<x>>) = 1 /\ <<x>>[1] = x
      BY <2>2
    <3>2. Range(<<x>>) = {<<x>>[k] : k \in 1 .. Len(<<x>>)}
      BY <3>1, RangeSeq
    <3> QED
      BY <3>1, <3>2 DEF Ascending
  <2>4. ASSUME NEW i \in 1 .. Len(file), i < x, Visible(file[i], eyes)
        PROVE  i \in Range(read)
    <3>1. i \in 1 .. m
      BY <2>2, <2>4, <1>3
    <3>2. i \notin S
      BY <2>1, <2>2, <2>4
    <3> QED
      BY <3>1, <3>2, <2>4 DEF Owed
  <2>5. /\ read \o <<x>> \in Seq(Nat) /\ Range(read \o <<x>>) = Range(read) \cup {x}
        /\ InOrder(file, eyes, read \o <<x>>)
    <3>1. \A y \in Range(<<x>>) : y \in 1 .. Len(file) /\ Visible(file[y], eyes) /\ y \notin Range(read)
      BY <2>2, <2>3
    <3>2. \A i \in 1 .. Len(file), j \in Range(<<x>>) :
            i < j /\ Visible(file[i], eyes) => i \in Range(read) \cup Range(<<x>>)
      BY <2>3, <2>4
    <3>3. PICK next \in Seq(Nat) : next = <<x>>
      BY <2>3
    <3>4. /\ Ascending(next) /\ Range(next) = {x}
          /\ \A y \in Range(next) : y \in 1 .. Len(file) /\ Visible(file[y], eyes) /\ y \notin Range(read)
          /\ \A i \in 1 .. Len(file), j \in Range(next) :
                i < j /\ Visible(file[i], eyes) => i \in Range(read) \cup Range(next)
      BY <2>3, <3>1, <3>2, <3>3
    <3>5. /\ read \o next \in Seq(Nat) /\ Range(read \o next) = Range(read) \cup Range(next)
          /\ InOrder(file, eyes, read \o next)
      BY <1>3, <3>4, InOrderMore
    <3> QED
      BY <3>3, <3>4, <3>5
  <2>6. Append(read, x) = read \o <<x>>
    BY <2>2, AppendIsConcat
  <2>7. S \ {x} = Owed(file, eyes, Append(read, x), m)
    BY <2>5, <2>6 DEF Owed
  <2>8. Range(Append(read, x)) \subseteq 1 .. m
    BY <1>2, <2>2, <2>5, <2>6
  <2>9. Fed(file, eyes, now, cn2, Append(read, x))
    BY <1>1, <1>2, <1>3, <2>1, <2>5, <2>6, <2>7, <2>8 DEF Fed
  <2>10. IsPrefix(read, Append(read, x))
    BY <2>2 DEF IsPrefix
  <2> QED
    BY <1>1, <1>5, <2>5, <2>6, <2>9, <2>10 DEF cn2, frame, x
<1> QED
  BY <1>4, <1>5

LEMMA FedConnect ==
  ASSUME NEW file \in Seq(Events), NEW eyes, NEW now, NEW cn \in Conns, NEW read \in Seq(Nat),
         Fed(file, eyes, now, cn, read), NEW word \in Seq(Frames),
         \A k \in 1 .. Len(word) : word[k].type # "game_event"
  PROVE  LET from == (IF read = <<>> THEN 0 ELSE Last(read)) + 1
             frames == FramesOf(file, from, eyes, {"event", "phase"}, [i \in DOMAIN file |-> RoundAt(file, i)])
             cn2 == Queue(Closed("open"), eyes, frames \o word)
         IN  cn2 \in Conns /\ Fed(file, eyes, now, cn2, read)
<1> DEFINE from == (IF read = <<>> THEN 0 ELSE Last(read)) + 1
           Rounds == [i \in DOMAIN file |-> RoundAt(file, i)]
           frames == FramesOf(file, from, eyes, {"event", "phase"}, Rounds)
           cn2 == Queue(Closed("open"), eyes, frames \o word)
           T == {i \in from .. Len(file) : "event" \in {"event", "phase"} /\ Visible(file[i], eyes)}
<1>1. Len(file) \in Nat /\ Len(read) \in Nat /\ InOrder(file, eyes, read)
  BY DEF Fed
<1>2. Range(read) = {read[k] : k \in 1 .. Len(read)}
  BY RangeSeq
<1>3. /\ from \in 1 .. Len(file) + 1
      /\ \A x \in Range(read) : x < from
      /\ from # 1 => from - 1 \in Range(read)
  <2>1. CASE read = <<>>
    BY <2>1, <1>1, <1>2
  <2>2. CASE read # <<>>
    <3>1. Len(read) \in 1 .. Len(read) /\ Last(read) = read[Len(read)]
      BY <2>2, <1>1 DEF Last
    <3>2. Last(read) \in Range(read)
      BY <3>1, <1>2
    <3>3. Last(read) \in 1 .. Len(file)
      BY <3>2, <1>1 DEF InOrder
    <3>4. ASSUME NEW k \in 1 .. Len(read)
          PROVE  read[k] <= Last(read)
      <4>1. CASE k = Len(read)
        BY <4>1, <3>1, <3>3
      <4>2. CASE k < Len(read)
        BY <4>2, <3>1, <1>1 DEF InOrder, Ascending
      <4> QED
        BY <4>1, <4>2, <1>1
    <3>5. \A x \in Range(read) : x < Last(read) + 1
      <4>1. \A k \in 1 .. Len(read) : read[k] \in Nat
        OBVIOUS
      <4> QED
        BY <3>3, <3>4, <4>1, <1>2
    <3> QED
      BY <2>2, <3>2, <3>3, <3>5, <1>1
  <2> QED
    BY <2>1, <2>2
<1> HIDE DEF from
<1>4. \A i \in 1 .. Len(file) : Rounds[i] \in RoundNumbers
  <2>1. \A i \in 1 .. Len(file) : i \in 0 .. Len(file)
    BY <1>1
  <2> QED
    BY <2>1, RoundFacts
<1> HIDE DEF Rounds
<1>5. frames \in Seq(GameFrames) /\ Carries(frames, T)
  BY <1>3, <1>4, FramesOfFacts
<1>6. frames \in Seq(Frames)
  BY <1>5, SeqMonotonic, FrameTypes
<1>7. T = Owed(file, eyes, read, Len(file))
  <2>1. ASSUME NEW i \in 1 .. Len(file), Visible(file[i], eyes), i < from
        PROVE  i \in Range(read)
    <3>1. from - 1 \in Range(read)
      BY <1>3, <2>1, <1>1
    <3>2. i = from - 1 \/ i < from - 1
      BY <2>1, <1>1, <1>3
    <3> QED
      BY <3>1, <3>2, <2>1, <1>1 DEF InOrder
  <2>2. \A i \in from .. Len(file) : i \notin Range(read)
    BY <1>3
  <2> QED
    BY <2>1, <2>2, <1>1, <1>3 DEF Owed
<1> HIDE DEF frames
<1>8. Carries(frames \o word, T \cup {})
  BY <1>5, <1>6, CarriesNothing, CarriesConcat
<1>9. frames \o word \in Seq(Frames)
  BY <1>6
<1>10. Closed("open") \in Conns /\ Closed("open").at = "open" /\ Closed("open").out = <<>>
  BY DEF Closed, Conns
<1>11. Carries(Closed("open").out, {})
  BY <1>10 DEF Carries
<1>12. cn2 \in Conns /\ cn2.at = "open" /\ Carries(cn2.out, {} \cup (T \cup {}))
  <2>1. PICK all \in Seq(Frames) : all = frames \o word
    BY <1>9
  <2>2. Carries(all, T \cup {})
    BY <2>1, <1>8
  <2>3. PICK fresh \in Conns : fresh = Closed("open")
    BY <1>10
  <2>4. Carries(fresh.out, {}) /\ fresh.at = "open"
    BY <1>10, <1>11, <2>3
  <2>5. PICK none, some : none = {} /\ some = T \cup {}
    OBVIOUS
  <2>6. Carries(fresh.out, none) /\ Carries(all, some) /\ \A x \in none, y \in some : x < y
    BY <2>2, <2>4, <2>5
  <2>7. /\ Queue(fresh, eyes, all) \in Conns /\ Queue(fresh, eyes, all).at = fresh.at
        /\ Carries(Queue(fresh, eyes, all).out, none \cup some)
    BY <2>6, QueueCarries
  <2> QED
    BY <2>1, <2>3, <2>4, <2>5, <2>7
<1>13. Range(read) \subseteq 1 .. Len(file) /\ Len(file) \in 0 .. Len(file)
  BY <1>1 DEF InOrder
<1> HIDE DEF cn2, T
<1>14. Fed(file, eyes, now, cn2, read)
  BY <1>1, <1>7, <1>12, <1>13 DEF Fed
<1> QED
  BY <1>12, <1>14 DEF cn2, frames, Rounds, from

\* An agent that is connected has everything, and takes the first k of the news.
LEMMA FedNews ==
  ASSUME NEW file \in Seq(Events), NEW batch \in Seq(Events), NEW r, NEW read \in Seq(Nat),
         NEW cn, cn.at = "open", cn.out = <<>>, Fed(file, viewer[r], "playing", cn, read),
         NEW news, news = News(r, file \o batch, Len(file) + 1), NEW k \in 0 .. Len(news)
  PROVE  /\ news \in Seq(Nat)
         /\ read \o SubSeq(news, 1, k) \in Seq(Nat)
         /\ IsPrefix(read, read \o SubSeq(news, 1, k))
         /\ InOrder(file \o batch, viewer[r], read \o SubSeq(news, 1, k))
         /\ k = Len(news) => Fed(file \o batch, viewer[r], "playing", cn, read \o SubSeq(news, 1, k))
<1> DEFINE file2 == file \o batch
           eyes == viewer[r]
<1>1. /\ Len(file) \in Nat /\ Len(file2) \in Nat /\ Len(file) <= Len(file2) /\ file2 \in Seq(Events)
      /\ \A i \in 1 .. Len(file) : i \in 1 .. Len(file2) /\ file2[i] = file[i]
  OBVIOUS
<1>2. InOrder(file2, eyes, read)
  BY InOrderGrows DEF Fed
<1> HIDE DEF file2
<1>3. Len(file) + 1 \in 1 .. Len(file2) + 1
  BY <1>1
<1>4. /\ News(r, file2, Len(file) + 1) \in Seq(Nat) /\ Ascending(News(r, file2, Len(file) + 1))
      /\ \A x : x \in Range(News(r, file2, Len(file) + 1)) <=>
                   x \in Len(file) + 1 .. Len(file2) /\ Visible(file2[x], eyes)
  BY <1>1, <1>3, NewsFacts
<1>5. /\ news \in Seq(Nat) /\ Ascending(news)
      /\ \A x : x \in Range(news) <=> x \in Len(file) + 1 .. Len(file2) /\ Visible(file2[x], eyes)
  BY <1>4 DEF file2
<1>6. Len(news) \in Nat /\ k \in Nat /\ k <= Len(news)
  BY <1>5
<1>7. PICK next : next = SubSeq(news, 1, k)
  OBVIOUS
<1>8. /\ next \in Seq(Nat) /\ Len(next) = k
      /\ \A i \in 1 .. k : next[i] = news[i] /\ i \in 1 .. Len(news)
  BY <1>5, <1>6, <1>7
<1>9. Range(next) = {next[i] : i \in 1 .. k} /\ Range(news) = {news[i] : i \in 1 .. Len(news)}
  <2>1. Range(next) = {next[i] : i \in 1 .. Len(next)}
    BY <1>8, RangeSeq
  <2>2. Range(news) = {news[i] : i \in 1 .. Len(news)}
    BY <1>5, RangeSeq
  <2> QED
    BY <2>1, <2>2, <1>8
<1>10. Ascending(next)
  BY <1>5, <1>8 DEF Ascending
<1>11. \A x \in Range(next) : x \in Range(news)
  BY <1>8, <1>9
<1>12. \A x \in Range(read) : x \in 1 .. Len(file)
  BY DEF Fed, InOrder
<1>13. \A i \in 1 .. Len(file) : Visible(file[i], eyes) => i \in Range(read)
  <2>1. Carries(<<>>, Owed(file, eyes, read, Len(file)))
    BY DEF Fed
  <2>2. Owed(file, eyes, read, Len(file)) = {}
    BY <2>1 DEF Carries
  <2> QED
    BY <2>2 DEF Owed
<1>14. \A x \in Range(next) : x \in 1 .. Len(file2) /\ Visible(file2[x], eyes) /\ x \notin Range(read)
  <2> SUFFICES ASSUME NEW x \in Range(next)
               PROVE  x \in 1 .. Len(file2) /\ Visible(file2[x], eyes) /\ x \notin Range(read)
    OBVIOUS
  <2>1. x \in Len(file) + 1 .. Len(file2) /\ Visible(file2[x], eyes)
    BY <1>5, <1>11
  <2> QED
    BY <2>1, <1>1, <1>12
<1>15. ASSUME NEW i \in 1 .. Len(file2), NEW j \in Range(next), i < j, Visible(file2[i], eyes)
       PROVE  i \in Range(read) \cup Range(next)
  <2>1. CASE i <= Len(file)
    <3>1. i \in 1 .. Len(file) /\ file2[i] = file[i]
      BY <2>1, <1>1
    <3> QED
      BY <3>1, <1>13, <1>15
  <2>2. CASE i > Len(file)
    <3>1. i \in Len(file) + 1 .. Len(file2)
      BY <2>2, <1>1
    <3>2. i \in Range(news)
      BY <3>1, <1>5, <1>15
    <3>3. PICK a \in 1 .. Len(news) : news[a] = i
      BY <3>2, <1>9
    <3>4. PICK b \in 1 .. k : next[b] = j
      BY <1>9
    <3>5. b \in 1 .. Len(news) /\ news[b] = j /\ b \in Nat /\ a \in Nat
      BY <3>4, <1>8, <1>6
    <3>6. ~(b < a) /\ a # b
      <4>1. news[a] \in Nat /\ news[b] \in Nat
        <5>1. news \in Seq(Nat)
          BY <1>5
        <5> QED
          BY <5>1, <3>3, <3>5, ElementOfSeq
      <4>2. b < a => news[b] < news[a]
        BY <1>5, <3>5 DEF Ascending
      <4> QED
        BY <4>1, <4>2, <3>3, <3>5, <1>15
    <3>7. a \in 1 .. k
      BY <3>4, <3>5, <3>6, <1>6
    <3> QED
      BY <3>3, <3>7, <1>8, <1>9
  <2> QED
    BY <2>1, <2>2, <1>1
<1>16. /\ read \o next \in Seq(Nat) /\ Range(read \o next) = Range(read) \cup Range(next)
       /\ InOrder(file2, eyes, read \o next)
  BY <1>1, <1>2, <1>8, <1>10, <1>14, <1>15, InOrderMore
<1>17. IsPrefix(read, read \o next)
  BY <1>8 DEF IsPrefix
<1>18. ASSUME k = Len(news)
       PROVE  Fed(file2, eyes, "playing", cn, read \o next)
  <2>1. Range(next) = Range(news)
    <3>1. next = news
      BY <1>5, <1>7, <1>18, SubSeqFull
    <3> QED
      BY <3>1
  <2>2. ASSUME NEW i \in 1 .. Len(file2), Visible(file2[i], eyes)
        PROVE  i \in Range(read \o next)
    <3>1. CASE i <= Len(file)
      BY <3>1, <2>2, <1>1, <1>13, <1>16
    <3>2. CASE i > Len(file)
      <4>1. i \in Len(file) + 1 .. Len(file2)
        BY <3>2, <1>1
      <4> QED
        BY <4>1, <2>1, <2>2, <1>5, <1>16
    <3> QED
      BY <3>1, <3>2, <1>1
  <2>3. Owed(file2, eyes, read \o next, Len(file2)) = {}
    BY <2>2 DEF Owed
  <2>4. Carries(cn.out, Owed(file2, eyes, read \o next, Len(file2)))
    BY <2>3 DEF Carries
  <2>5. Range(read \o next) \subseteq 1 .. Len(file2) /\ Len(file2) \in 0 .. Len(file2)
    BY <1>1, <1>16 DEF InOrder
  <2> QED
    BY <2>4, <2>5, <1>16 DEF Fed
<1> QED
  BY <1>5, <1>7, <1>16, <1>17, <1>18 DEF file2

-----------------------------------------------------------------------------
(* The invariant *)

FeedTypes ==
    /\ task \in {"playing", "crashed"} /\ done \in 0 .. Len(Script) /\ log \in Seq(Events)
    /\ conn \in [Readers -> Conns] /\ got \in [Readers -> Seq(Nat)]
    /\ \A a \in Agents : conn[a].at \in {"open", "dropped"} /\ conn[a].out = <<>>
    /\ voice \in Seq(1 .. Len(log)) /\ part \in Nat \cup {None} /\ (part # None => voice # <<>>)

FeedInv == FeedTypes /\ \A r \in Readers : Fed(log, viewer[r], task, conn[r], got[r])

\* What a step does to what the readers have.
Feeds ==
    /\ FeedInv'
    /\ viewer' = viewer /\ IsPrefix(log, log')
    /\ \A r \in Readers : IsPrefix(got[r], got'[r]) \/ got'[r] = <<>>

LEMMA InitFed == Init => FeedInv
<1> SUFFICES ASSUME Init
             PROVE  FeedInv
  OBVIOUS
<1>1. Len(Script) \in Nat
  BY BroadcastAssumption
<1>2. \A at : Closed(at).at = at /\ Closed(at).out = <<>>
  BY DEF Closed
<1>3. \A at \in {"open", "away"} : Closed(at) \in Conns
  BY DEF Closed, Conns
<1>4. FeedTypes
  <2>1. conn \in [Readers -> Conns] /\ got \in [Readers -> Seq(Nat)]
    BY <1>3 DEF Init
  <2>2. \A a \in Agents : conn[a].at \in {"open", "dropped"} /\ conn[a].out = <<>>
    BY <1>2 DEF Init, Readers
  <2>3. log = <<>> /\ log \in Seq(Events) /\ voice \in Seq(1 .. Len(log))
    BY DEF Init
  <2> QED
    BY <1>1, <2>1, <2>2, <2>3 DEF Init, FeedTypes
<1>5. ASSUME NEW r \in Readers
      PROVE  Fed(log, viewer[r], task, conn[r], got[r])
  <2>1. log = <<>> /\ got[r] = <<>> /\ conn[r].out = <<>> /\ Len(log) = 0
    BY <1>2 DEF Init
  <2>2. Range(<<>>) = {}
    BY DEF Range
  <2>3. InOrder(log, viewer[r], got[r])
    BY <2>1, <2>2 DEF InOrder, Ascending
  <2>4. Owed(log, viewer[r], got[r], 0) = {} /\ 0 \in 0 .. Len(log)
    BY <2>1 DEF Owed
  <2>5. Carries(conn[r].out, {})
    BY <2>1 DEF Carries
  <2> QED
    BY <2>1, <2>2, <2>3, <2>4, <2>5 DEF Fed
<1> QED
  BY <1>4, <1>5 DEF FeedInv

\* A step that queues nothing of the game: each connection stays or is sent other frames.
LEMMA QuietFeeds ==
  ASSUME FeedInv, UNCHANGED <<viewer, task, done, log, got>>,
         conn' \in [Readers -> Conns],
         \A a \in Agents : conn'[a] = conn[a],
         \A c \in Clients :
            \/ conn'[c] = conn[c]
            \/ \E frame \in AudioFrames \cup {CrashFrame} :
                  conn'[c] = Queue(conn[c], viewer[c], <<frame>>),
         voice' \in Seq(1 .. Len(log)), part' \in Nat \cup {None}, part' # None => voice' # <<>>
  PROVE  Feeds
<1>1. ASSUME NEW r \in Readers
      PROVE  Fed(log, viewer[r], task, conn'[r], got[r])
  <2>1. Fed(log, viewer[r], task, conn[r], got[r]) /\ conn[r] \in Conns
    BY DEF FeedInv, FeedTypes
  <2>2. CASE conn'[r] = conn[r]
    BY <2>1, <2>2
  <2>3. ASSUME NEW frame \in AudioFrames \cup {CrashFrame},
               conn'[r] = Queue(conn[r], viewer[r], <<frame>>)
        PROVE  Fed(log, viewer[r], task, conn'[r], got[r])
    <3>1. frame \in Frames /\ frame.type # "game_event"
      BY FrameTypes
    <3>2. <<frame>> \in Seq(Frames) /\ \A k \in 1 .. Len(<<frame>>) : <<frame>>[k].type # "game_event"
      BY <3>1
    <3>3. PICK frames \in Seq(Frames) : frames = <<frame>>
      BY <3>2
    <3>4. \A k \in 1 .. Len(frames) : frames[k].type # "game_event"
      BY <3>2, <3>3
    <3>5. Fed(log, viewer[r], task, Queue(conn[r], viewer[r], frames), got[r])
      BY <2>1, <3>4, FedQuiet
    <3> QED
      BY <2>3, <3>3, <3>5
  <2> QED
    BY <2>2, <2>3 DEF Readers
<1>2. FeedTypes'
  BY DEF FeedInv, FeedTypes
<1>3. FeedInv'
  BY <1>1, <1>2 DEF FeedInv
<1>4. \A r \in Readers : IsPrefix(got[r], got'[r])
  BY DEF IsPrefix
<1>5. IsPrefix(log, log')
  BY DEF IsPrefix
<1> QED
  BY <1>3, <1>4, <1>5 DEF Feeds

LEMMA QueueForQuiet ==
  ASSUME FeedInv, NEW listeners \in SUBSET Clients, NEW frame \in AudioFrames \cup {CrashFrame},
         QueueFor(listeners, frame)
  PROVE  /\ conn' \in [Readers -> Conns]
         /\ \A a \in Agents : conn'[a] = conn[a]
         /\ \A c \in Clients :
               \/ conn'[c] = conn[c]
               \/ \E f \in AudioFrames \cup {CrashFrame} :
                     conn'[c] = Queue(conn[c], viewer[c], <<f>>)
<1>1. Clients \cap Agents = {}
  BY BroadcastAssumption
<1>2. ASSUME NEW r \in Readers
      PROVE  Queue(conn[r], viewer[r], <<frame>>) \in Conns
  <2>1. frame \in Frames /\ frame.type # "game_event"
    BY FrameTypes
  <2>2. <<frame>> \in Seq(Frames) /\ \A k \in 1 .. Len(<<frame>>) : <<frame>>[k].type # "game_event"
    BY <2>1
  <2>3. PICK frames \in Seq(Frames) : frames = <<frame>>
    BY <2>2
  <2>4. \A k \in 1 .. Len(frames) : frames[k].type # "game_event"
    BY <2>2, <2>3
  <2>5. Fed(log, viewer[r], task, conn[r], got[r]) /\ conn[r] \in Conns
    BY DEF FeedInv, FeedTypes
  <2>6. Queue(conn[r], viewer[r], frames) \in Conns
    BY <2>4, <2>5, FedQuiet
  <2> QED
    BY <2>3, <2>6
<1>3. conn \in [Readers -> Conns]
  BY DEF FeedInv, FeedTypes
<1>4. \A r \in Readers : conn'[r] = IF r \in listeners /\ Open(r)
                                   THEN Queue(conn[r], viewer[r], <<frame>>) ELSE conn[r]
  BY DEF QueueFor
<1>5. conn' \in [Readers -> Conns]
  BY <1>2, <1>3 DEF QueueFor
<1> QED
  BY <1>1, <1>4, <1>5 DEF Readers

LEMMA SpokenFacts ==
  ASSUME FeedInv, voice # <<>>
  PROVE  /\ Spoken \in 1 .. Len(log) /\ Spoken \in Nat /\ Tail(voice) \in Seq(1 .. Len(log))
         /\ {c \in Clients : Visible(log[Spoken], viewer[c])} \in SUBSET Clients
<1>1. voice \in Seq(1 .. Len(log))
  BY DEF FeedInv, FeedTypes
<1> QED
  BY <1>1 DEF Spoken

LEMMA AudioFrameType ==
  ASSUME NEW kind \in {"begin", "part", "end"}, NEW i \in Nat, NEW k \in Nat
  PROVE  AudioFrame(kind, i, k) \in AudioFrames
BY DEF AudioFrames

LEMMA VoiceFeeds ==
  ASSUME FeedInv, VoiceBegin \/ VoicePart \/ VoiceEnd \/ VoiceFails
  PROVE  Feeds
<1>1. voice # <<>> /\ voice \in Seq(1 .. Len(log)) /\ part \in Nat \cup {None} /\ None \notin Nat
  BY BroadcastAssumption DEF FeedInv, FeedTypes, VoiceBegin, VoicePart, VoiceEnd, VoiceFails
<1>2. /\ Spoken \in Nat /\ Tail(voice) \in Seq(1 .. Len(log))
      /\ {c \in Clients : Visible(log[Spoken], viewer[c])} \in SUBSET Clients
  BY <1>1, SpokenFacts
<1>3. ASSUME NEW kind \in {"begin", "part", "end"}, NEW k \in Nat, Speak(kind, k)
      PROVE  /\ conn' \in [Readers -> Conns]
             /\ \A a \in Agents : conn'[a] = conn[a]
             /\ \A c \in Clients :
                   \/ conn'[c] = conn[c]
                   \/ \E f \in AudioFrames \cup {CrashFrame} :
                         conn'[c] = Queue(conn[c], viewer[c], <<f>>)
  BY <1>2, <1>3, AudioFrameType, QueueForQuiet DEF Speak
<1>4. CASE VoiceBegin
  <2>1. Speak("begin", 0) /\ part' = 0 /\ UNCHANGED <<viewer, task, done, log, got, voice>>
    BY <1>4 DEF VoiceBegin, runnerVars, clientVars
  <2> QED
    BY <1>1, <1>3, <2>1, QuietFeeds
<1>5. CASE VoicePart
  <2>1. PICK k \in part .. MaxParts - 1 : Speak("part", k) /\ part' = k + 1
    BY <1>5 DEF VoicePart
  <2>2. UNCHANGED <<viewer, task, done, log, got, voice>> /\ part \in Nat
    BY <1>1, <1>5 DEF VoicePart, runnerVars, clientVars
  <2>3. k \in Nat /\ part' \in Nat
    BY <2>1, <2>2, BroadcastAssumption
  <2> QED
    BY <1>1, <1>3, <2>1, <2>2, <2>3, QuietFeeds
<1>6. CASE VoiceEnd
  <2>1. Speak("end", 0) /\ voice' = Tail(voice) /\ part' = None /\ UNCHANGED <<viewer, task, done, log, got>>
    BY <1>6 DEF VoiceEnd, NextSpoken, runnerVars, clientVars
  <2> QED
    BY <1>1, <1>2, <1>3, <2>1, QuietFeeds
<1>7. CASE VoiceFails
  <2>1. voice' = Tail(voice) /\ part' = None /\ UNCHANGED <<viewer, task, done, log, got, conn>>
    BY <1>7 DEF VoiceFails, NextSpoken, clientVars
  <2>2. conn' \in [Readers -> Conns]
    BY <2>1 DEF FeedInv, FeedTypes
  <2> QED
    BY <1>1, <1>2, <2>1, <2>2, QuietFeeds
<1> QED
  BY <1>4, <1>5, <1>6, <1>7

LEMMA CrashNoticeFeeds ==
  ASSUME FeedInv, CrashNotice
  PROVE  Feeds
<1>1. QueueFor(Clients, CrashFrame) /\ UNCHANGED <<viewer, task, done, log, got, voice, part>>
  BY DEF CrashNotice, runnerVars, voiceVars, clientVars
<1>2. Clients \in SUBSET Clients /\ CrashFrame \in AudioFrames \cup {CrashFrame}
  OBVIOUS
<1>3. /\ conn' \in [Readers -> Conns]
      /\ \A a \in Agents : conn'[a] = conn[a]
      /\ \A c \in Clients :
            \/ conn'[c] = conn[c]
            \/ \E f \in AudioFrames \cup {CrashFrame} :
                  conn'[c] = Queue(conn[c], viewer[c], <<f>>)
  BY <1>1, <1>2, QueueForQuiet
<1>4. voice' \in Seq(1 .. Len(log)) /\ part' \in Nat \cup {None} /\ (part' # None => voice' # <<>>)
  BY <1>1 DEF FeedInv, FeedTypes
<1> QED
  BY <1>1, <1>3, <1>4, QuietFeeds

LEMMA ScriptFacts ==
  ASSUME FeedInv, Idle
  PROVE  /\ task = "playing" /\ Script[done + 1] \in Seq(Events)
         /\ done + 1 \in 1 .. Len(Script) /\ done \in Nat /\ Len(Script) \in Nat
<1>1. Script \in Seq(Seq(Events)) /\ Len(Script) \in Nat
  BY BroadcastAssumption
<1>2. done \in 0 .. Len(Script) /\ done < Len(Script) /\ task = "playing"
  BY DEF FeedInv, FeedTypes, Idle
<1>3. done + 1 \in 1 .. Len(Script)
  BY <1>1, <1>2
<1> QED
  BY <1>1, <1>2, <1>3

LEMMA GrowsFacts ==
  ASSUME NEW file \in Seq(Events), NEW batch \in Seq(Events)
  PROVE  /\ file \o batch \in Seq(Events) /\ IsPrefix(file, file \o batch)
         /\ Len(file \o batch) \in Nat /\ Len(file) \in Nat /\ Len(file \o batch) = Len(file) + Len(batch)
         /\ Seq(1 .. Len(file)) \subseteq Seq(1 .. Len(file \o batch))
<1>1. file \o batch \in Seq(Events) /\ Len(file) \in Nat /\ Len(batch) \in Nat
      /\ Len(file \o batch) = Len(file) + Len(batch)
  OBVIOUS
<1>2. IsPrefix(file, file \o batch)
  BY <1>1 DEF IsPrefix
<1>3. 1 .. Len(file) \subseteq 1 .. Len(file \o batch)
  BY <1>1
<1>4. Seq(1 .. Len(file)) \subseteq Seq(1 .. Len(file \o batch))
  BY <1>3, SeqMonotonic
<1> QED
  BY <1>1, <1>2, <1>4

LEMMA PrefixItself ==
  ASSUME NEW s
  PROVE  IsPrefix(s, s)
BY DEF IsPrefix

LEMMA CommitFeeds ==
  ASSUME FeedInv, Commit
  PROVE  Feeds
<1> DEFINE batch == Script[done + 1]
           file == log \o batch
           first == Len(log) + 1
           round == RoundAt(file, Len(file))
<1>1. /\ task = "playing" /\ batch \in Seq(Events) /\ done + 1 \in 1 .. Len(Script) /\ done \in Nat
      /\ Len(Script) \in Nat
  BY ScriptFacts DEF Commit
<1>2. /\ log' = file /\ done' = done + 1 /\ task' = task /\ viewer' = viewer /\ part' = part
      /\ voice = <<>> /\ BroadcastBatch(file, first)
      /\ voice' = Numbers({i \in DOMAIN file : file[i].voiced}, first, Len(file))
  BY DEF Commit, Idle
<1>3. /\ log \in Seq(Events) /\ conn \in [Readers -> Conns] /\ got \in [Readers -> Seq(Nat)]
      /\ \A a \in Agents : conn[a].at \in {"open", "dropped"} /\ conn[a].out = <<>>
      /\ part = None
  BY <1>2 DEF FeedInv, FeedTypes
<1>4. /\ file \in Seq(Events) /\ IsPrefix(log, file) /\ Len(file) \in Nat /\ Len(log) \in Nat
      /\ Len(file) = Len(log) + Len(batch) /\ Len(batch) \in Nat
  BY <1>1, <1>3, GrowsFacts
<1> HIDE DEF file
<1>5. round \in RoundNumbers
  BY <1>4, RoundFacts
<1>6. PICK kept \in Kept(file, first) :
          LET news(r) == News(r, file, first)
              Fails(r) == kept[r] < Len(news(r))
          IN  /\ conn' = [r \in Readers |->
                  IF ~Open(r) THEN conn[r]
                  ELSE IF r \in Agents THEN IF Fails(r) THEN Closed("dropped") ELSE conn[r]
                  ELSE Queue(conn[r], viewer[r], Live(file, first, viewer[r], round))]
              /\ got' = [r \in Readers |->
                  IF r \in Agents /\ Open(r)
                  THEN got[r] \o IF Fails(r) THEN SubSeq(news(r), 1, kept[r]) ELSE news(r)
                  ELSE got[r]]
  BY <1>2 DEF BroadcastBatch
<1> HIDE DEF round, first
<1>7. \A a \in Agents : kept[a] \in Nat
  BY <1>1, <1>4, BroadcastAssumption DEF Kept, first
<1>8. ASSUME NEW r \in Readers
      PROVE  /\ conn'[r] \in Conns /\ got'[r] \in Seq(Nat)
             /\ r \in Agents => conn'[r].at \in {"open", "dropped"} /\ conn'[r].out = <<>>
             /\ Fed(file, viewer[r], "playing", conn'[r], got'[r])
             /\ IsPrefix(got[r], got'[r])
  <2>1. Fed(log, viewer[r], "playing", conn[r], got[r]) /\ conn[r] \in Conns /\ got[r] \in Seq(Nat)
    BY <1>1, <1>3 DEF FeedInv
  <2>2. CASE ~Open(r)
    <3>1. conn'[r] = conn[r] /\ got'[r] = got[r] /\ conn[r].at # "open"
      BY <1>6, <2>2 DEF Open
    <3>2. Fed(log \o batch, viewer[r], "playing", conn[r], got[r])
      BY <1>1, <1>3, <2>1, <3>1, FedGrows
    <3> QED
      BY <1>3, <2>1, <3>1, <3>2, PrefixItself DEF file
  <2>3. CASE Open(r) /\ r \notin Agents
    <3>1. /\ conn'[r] = Queue(conn[r], viewer[r], Live(file, first, viewer[r], round))
          /\ got'[r] = got[r] /\ conn[r].at = "open"
      BY <1>6, <2>3 DEF Open
    <3>2. conn'[r] \in Conns /\ Fed(file, viewer[r], "playing", conn'[r], got[r])
      BY <1>1, <1>3, <1>5, <2>1, <3>1, FedBatch DEF file, first
    <3> QED
      BY <2>1, <2>3, <3>1, <3>2, PrefixItself
  <2>4. CASE Open(r) /\ r \in Agents
    <3>1. PICK news : news = News(r, file, first)
      OBVIOUS
    <3>2. conn[r].at = "open" /\ conn[r].out = <<>>
      BY <1>3, <2>4 DEF Open
    <3>3. news = News(r, log \o batch, Len(log) + 1)
      BY <3>1 DEF file, first
    <3>4. ASSUME NEW k \in 0 .. Len(news)
          PROVE  /\ news \in Seq(Nat)
                 /\ got[r] \o SubSeq(news, 1, k) \in Seq(Nat)
                 /\ IsPrefix(got[r], got[r] \o SubSeq(news, 1, k))
                 /\ InOrder(file, viewer[r], got[r] \o SubSeq(news, 1, k))
                 /\ k = Len(news) => Fed(file, viewer[r], "playing", conn[r], got[r] \o SubSeq(news, 1, k))
      <4>1. /\ log \in Seq(Events) /\ batch \in Seq(Events) /\ got[r] \in Seq(Nat)
            /\ Fed(log, viewer[r], "playing", conn[r], got[r])
        BY <1>1, <1>3, <2>1
      <4> HIDE DEF file
      <4>2. /\ news \in Seq(Nat)
            /\ got[r] \o SubSeq(news, 1, k) \in Seq(Nat)
            /\ IsPrefix(got[r], got[r] \o SubSeq(news, 1, k))
            /\ InOrder(log \o batch, viewer[r], got[r] \o SubSeq(news, 1, k))
            /\ k = Len(news) => Fed(log \o batch, viewer[r], "playing", conn[r], got[r] \o SubSeq(news, 1, k))
        BY <3>2, <3>3, <4>1, FedNews
      <4> QED
        BY <4>2 DEF file
    <3>5. news \in Seq(Nat)
      <4>1. log \o batch \in Seq(Events) /\ Len(log) + 1 \in 1 .. Len(log \o batch) + 1
        BY <1>4 DEF file
      <4>2. News(r, log \o batch, Len(log) + 1) \in Seq(Nat)
        BY <4>1, NewsFacts
      <4> QED
        BY <3>3, <4>2
    <3>6. CASE kept[r] < Len(news)
      <4>1. /\ conn'[r] = Closed("dropped") /\ got'[r] = got[r] \o SubSeq(news, 1, kept[r])
        BY <1>6, <2>4, <3>1, <3>6
      <4>2. kept[r] \in 0 .. Len(news)
        BY <1>7, <2>4, <3>5, <3>6
      <4>3. Closed("dropped") \in Conns /\ Closed("dropped").at = "dropped" /\ Closed("dropped").out = <<>>
        BY DEF Closed, Conns
      <4>4. Fed(file, viewer[r], "playing", conn'[r], got'[r])
        BY <3>4, <4>1, <4>2, <4>3 DEF Fed
      <4> QED
        BY <3>4, <4>1, <4>2, <4>3, <4>4
    <3>7. CASE ~(kept[r] < Len(news))
      <4>1. conn'[r] = conn[r] /\ got'[r] = got[r] \o news
        BY <1>6, <2>4, <3>1, <3>7
      <4>2. Len(news) \in 0 .. Len(news) /\ SubSeq(news, 1, Len(news)) = news
        BY <3>5, SubSeqFull
      <4>3. /\ got[r] \o news \in Seq(Nat) /\ IsPrefix(got[r], got[r] \o news)
            /\ Fed(file, viewer[r], "playing", conn[r], got[r] \o news)
        BY <3>4, <4>2
      <4> QED
        BY <1>3, <2>1, <2>4, <4>1, <4>3
    <3> QED
      BY <3>6, <3>7
  <2> QED
    BY <2>2, <2>3, <2>4
<1>9. voice' \in Seq(1 .. Len(file))
  <2> DEFINE S == {i \in DOMAIN file : file[i].voiced}
  <2>1. first \in Nat \ {0} /\ first <= Len(file) + 1
    BY <1>4 DEF first
  <2> HIDE DEF S
  <2>2. /\ Numbers(S, first, Len(file)) \in Seq(Nat)
        /\ \A x : x \in Range(Numbers(S, first, Len(file))) <=> x \in first .. Len(file) /\ x \in S
    BY <1>4, <2>1, NumbersFacts
  <2>3. Range(Numbers(S, first, Len(file))) \subseteq 1 .. Len(file)
    BY <1>4, <2>1, <2>2
  <2>4. Numbers(S, first, Len(file)) \in Seq(1 .. Len(file))
    BY <2>2, <2>3, SeqOfRange, SeqMonotonic
  <2> QED
    BY <1>2, <2>4 DEF S
<1>10. conn' \in [Readers -> Conns] /\ got' \in [Readers -> Seq(Nat)]
  <2>1. conn' = [r \in Readers |-> conn'[r]] /\ got' = [r \in Readers |-> got'[r]]
    BY <1>6
  <2> QED
    BY <1>8, <2>1
<1>11. FeedTypes'
  <2>1. \A a \in Agents : conn'[a].at \in {"open", "dropped"} /\ conn'[a].out = <<>>
    BY <1>8 DEF Readers
  <2> QED
    BY <1>1, <1>2, <1>3, <1>4, <1>9, <1>10, <2>1 DEF FeedTypes
<1>12. FeedInv'
  BY <1>1, <1>2, <1>8, <1>11 DEF FeedInv
<1> QED
  BY <1>2, <1>4, <1>8, <1>12 DEF Feeds

LEMMA CommitFailsFeeds ==
  ASSUME FeedInv, CommitFails
  PROVE  Feeds
<1>1. PICK n \in 0 .. Len(Script[done + 1]) - 1 : log' = log \o SubSeq(Script[done + 1], 1, n)
  BY DEF CommitFails
<1>2. /\ task' = "crashed" /\ viewer' = viewer /\ done' = done /\ voice' = voice /\ part' = part
      /\ conn' = conn /\ got' = got
  BY DEF CommitFails, clientVars
<1>3. PICK batch \in Seq(Events) : batch = SubSeq(Script[done + 1], 1, n)
  <2>1. Script[done + 1] \in Seq(Events)
    BY ScriptFacts DEF CommitFails
  <2>2. PICK whole \in Seq(Events) : whole = Script[done + 1]
    BY <2>1
  <2>3. Len(whole) \in Nat /\ n \in 0 .. Len(whole) - 1
    BY <1>1, <2>2
  <2>4. 1 \in 1 .. Len(whole) + 1 /\ n \in 1 - 1 .. Len(whole)
    BY <2>3
  <2>5. SubSeq(whole, 1, n) \in Seq(Events)
    BY <2>4, SubSeqProperties
  <2> QED
    BY <2>2, <2>5
<1>4. log \in Seq(Events) /\ FeedTypes
  BY DEF FeedInv, FeedTypes
<1>5. /\ log \o batch \in Seq(Events) /\ IsPrefix(log, log \o batch)
      /\ Seq(1 .. Len(log)) \subseteq Seq(1 .. Len(log \o batch))
  BY <1>3, <1>4, GrowsFacts
<1>6. log' = log \o batch
  BY <1>1, <1>3
<1>7. ASSUME NEW r \in Readers
      PROVE  Fed(log \o batch, viewer[r], "crashed", conn[r], got[r])
  <2>1. Fed(log, viewer[r], task, conn[r], got[r])
    BY DEF FeedInv
  <2> QED
    BY <1>4, <2>1, FedGrows
<1>8. FeedTypes'
  BY <1>2, <1>4, <1>5, <1>6 DEF FeedTypes
<1>9. FeedInv'
  BY <1>2, <1>6, <1>7, <1>8 DEF FeedInv
<1> QED
  BY <1>2, <1>5, <1>6, <1>9, PrefixItself DEF Feeds

\* A step of one client: his connection and what he has read change.
LEMMA ClientFeeds ==
  ASSUME FeedInv, NEW c \in Clients, NEW cn2 \in Conns, NEW read2 \in Seq(Nat),
         UNCHANGED <<viewer, task, done, log, voice, part>>,
         conn' = [conn EXCEPT ![c] = cn2],
         got' = [got EXCEPT ![c] = read2],
         Fed(log, viewer[c], task, cn2, read2),
         IsPrefix(got[c], read2) \/ read2 = <<>>
  PROVE  Feeds
<1>1. FeedTypes /\ c \in Readers /\ c \notin Agents
  BY BroadcastAssumption DEF FeedInv, Readers
<1>2. \A r \in Readers : /\ conn'[r] = IF r = c THEN cn2 ELSE conn[r]
                         /\ got'[r] = IF r = c THEN read2 ELSE got[r]
  BY <1>1 DEF FeedTypes
<1>3. ASSUME NEW r \in Readers
      PROVE  Fed(log, viewer[r], task, conn'[r], got'[r])
  BY <1>2 DEF FeedInv
<1>4. FeedTypes'
  <2>1. conn' \in [Readers -> Conns] /\ got' \in [Readers -> Seq(Nat)]
    BY <1>1 DEF FeedTypes
  <2>2. \A a \in Agents : conn'[a] = conn[a]
    BY <1>1, <1>2 DEF Readers
  <2> QED
    BY <1>1, <2>1, <2>2 DEF FeedTypes
<1>5. FeedInv'
  BY <1>3, <1>4 DEF FeedInv
<1>6. \A r \in Readers : IsPrefix(got[r], got'[r]) \/ got'[r] = <<>>
  BY <1>2, PrefixItself
<1> QED
  BY <1>5, <1>6, PrefixItself DEF Feeds

LEMMA ConnectFeeds ==
  ASSUME FeedInv, NEW c \in Clients, Connect(c)
  PROVE  Feeds
<1>1. /\ UNCHANGED <<viewer, task, done, log, voice, part, got>>
      /\ conn' = [conn EXCEPT ![c] = Backfill(viewer[c], LastSeq(c) + 1)]
  BY DEF Connect, runnerVars, voiceVars, clientVars
<1>2. FeedTypes /\ c \in Readers /\ c \notin Agents
  BY BroadcastAssumption DEF FeedInv, Readers
<1>3. PICK word \in Seq(Frames) :
         /\ word = (IF task = "crashed" THEN <<CrashFrame>> ELSE <<>>)
         /\ \A k \in 1 .. Len(word) : word[k].type # "game_event"
  <2>1. CrashFrame \in Frames /\ CrashFrame.type # "game_event"
    BY FrameTypes
  <2>2. <<CrashFrame>> \in Seq(Frames) /\ <<>> \in Seq(Frames)
    BY <2>1
  <2>3. \A k \in 1 .. Len(<<CrashFrame>>) : <<CrashFrame>>[k].type # "game_event"
    BY <2>1
  <2>4. \A k \in 1 .. Len(<<>>) : <<>>[k].type # "game_event"
    OBVIOUS
  <2> QED
    BY <2>2, <2>3, <2>4
<1> DEFINE from == (IF got[c] = <<>> THEN 0 ELSE Last(got[c])) + 1
           frames == FramesOf(log, from, viewer[c], {"event", "phase"}, [i \in DOMAIN log |-> RoundAt(log, i)])
           cn2 == Queue(Closed("open"), viewer[c], frames \o word)
<1>4. cn2 = Backfill(viewer[c], LastSeq(c) + 1)
  BY <1>3 DEF Backfill, LastSeq
<1>5. cn2 \in Conns /\ Fed(log, viewer[c], task, cn2, got[c])
  <2>1. log \in Seq(Events) /\ conn[c] \in Conns /\ got[c] \in Seq(Nat)
    BY <1>2 DEF FeedTypes
  <2>2. Fed(log, viewer[c], task, conn[c], got[c])
    BY <1>2 DEF FeedInv
  <2> QED
    BY <1>3, <2>1, <2>2, FedConnect
<1> HIDE DEF cn2
<1>6. conn' = [conn EXCEPT ![c] = cn2]
  BY <1>1, <1>4
<1>7. got' = [got EXCEPT ![c] = got[c]] /\ got[c] \in Seq(Nat) /\ IsPrefix(got[c], got[c])
  BY <1>1, <1>2, PrefixItself DEF FeedTypes
<1> QED
  BY <1>1, <1>5, <1>6, <1>7, ClientFeeds

LEMMA SendFeeds ==
  ASSUME FeedInv, NEW c \in Clients, Send(c)
  PROVE  Feeds
<1> DEFINE frame == Head(conn[c].out)
           more == [conn[c] EXCEPT !.out = Tail(@)]
           read2 == IF frame.type = "game_event" THEN Append(got[c], frame.seq) ELSE got[c]
<1>1. /\ UNCHANGED <<viewer, task, done, log, voice, part>>
      /\ conn[c].at = "open" /\ conn[c].out # <<>>
      /\ conn' = [conn EXCEPT ![c] = IF frame = CrashFrame THEN Closed("ended") ELSE more]
      /\ got' = IF frame.type = "game_event" THEN [got EXCEPT ![c] = Append(@, frame.seq)] ELSE got
  BY DEF Send, Open, runnerVars, voiceVars
<1>2. FeedTypes /\ c \in Readers /\ Fed(log, viewer[c], task, conn[c], got[c])
  BY DEF FeedInv, Readers
<1>3. log \in Seq(Events) /\ conn[c] \in Conns /\ got[c] \in Seq(Nat)
  BY <1>2 DEF FeedTypes
<1>4. /\ more \in Conns /\ read2 \in Seq(Nat)
      /\ Fed(log, viewer[c], task, more, read2) /\ IsPrefix(got[c], read2)
  BY <1>1, <1>2, <1>3, FedSend
<1>5. got' = [got EXCEPT ![c] = read2]
  BY <1>1, <1>2 DEF FeedTypes
<1>6. CASE frame # CrashFrame
  <2>1. conn' = [conn EXCEPT ![c] = more]
    BY <1>1, <1>6
  <2> HIDE DEF more, read2
  <2> QED
    BY <1>1, <1>4, <1>5, <2>1, ClientFeeds
<1>7. CASE frame = CrashFrame
  <2>1. read2 = got[c]
    BY <1>7, FrameTypes
  <2>2. conn' = [conn EXCEPT ![c] = Closed("ended")]
    BY <1>1, <1>7
  <2> HIDE DEF more, read2
  <2>3. Closed("ended") \in Conns /\ Closed("ended").at = "ended"
    BY DEF Closed, Conns
  <2>4. Fed(log, viewer[c], task, Closed("ended"), got[c])
    BY <1>2, <2>3 DEF Fed
  <2>5. got' = [got EXCEPT ![c] = got[c]] /\ IsPrefix(got[c], got[c])
    BY <1>5, <2>1, PrefixItself
  <2> QED
    BY <1>1, <1>3, <2>2, <2>3, <2>4, <2>5, ClientFeeds
<1> QED
  BY <1>6, <1>7

LEMMA ClosedFacts ==
  ASSUME NEW at \in {"away", "broken", "ended", "dropped"}
  PROVE  Closed(at) \in Conns /\ Closed(at).at # "open" /\ Closed(at).at = at
BY DEF Closed, Conns

LEMMA BreaksFeeds ==
  ASSUME FeedInv, NEW c \in Clients, Breaks(c)
  PROVE  Feeds
<1>1. PICK at \in {"ended", "broken"} : conn' = [conn EXCEPT ![c] = Closed(at)]
  BY DEF Breaks
<1>2. UNCHANGED <<viewer, task, done, log, voice, part, got>>
  BY DEF Breaks, runnerVars, voiceVars
<1>3. FeedTypes /\ c \in Readers /\ Fed(log, viewer[c], task, conn[c], got[c])
  BY DEF FeedInv, Readers
<1>4. Closed(at) \in Conns /\ Closed(at).at # "open"
  BY ClosedFacts
<1>5. Fed(log, viewer[c], task, Closed(at), got[c])
  BY <1>3, <1>4 DEF Fed
<1>6. got' = [got EXCEPT ![c] = got[c]] /\ got[c] \in Seq(Nat) /\ IsPrefix(got[c], got[c])
  BY <1>2, <1>3, PrefixItself DEF FeedTypes
<1> QED
  BY <1>1, <1>2, <1>4, <1>5, <1>6, ClientFeeds

LEMMA LeavesFeeds ==
  ASSUME FeedInv, NEW c \in Clients, Leaves(c)
  PROVE  Feeds
<1>1. /\ conn' = [conn EXCEPT ![c] = Closed("away")]
      /\ got' = [got EXCEPT ![c] = <<>>]
      /\ UNCHANGED <<viewer, task, done, log, voice, part>>
  BY DEF Leaves, runnerVars, voiceVars
<1>2. Closed("away") \in Conns /\ Closed("away").at # "open"
  BY ClosedFacts
<1>3. InOrder(log, viewer[c], <<>>)
  <2>1. Range(<<>>) = {}
    BY DEF Range
  <2> QED
    BY <2>1 DEF InOrder, Ascending
<1>4. Fed(log, viewer[c], task, Closed("away"), <<>>)
  BY <1>2, <1>3 DEF Fed
<1>5. PICK none \in Seq(Nat) : none = <<>>
  <2>1. <<>> \in Seq(Nat)
    OBVIOUS
  <2> QED
    BY <2>1
<1> QED
  BY <1>1, <1>2, <1>4, <1>5, ClientFeeds

LEMMA StepFeeds ==
  ASSUME FeedInv, [Next]_vars
  PROVE  Feeds
<1>1. CASE Next
  BY <1>1, CommitFeeds, CommitFailsFeeds, CrashNoticeFeeds, VoiceFeeds, ConnectFeeds,
     SendFeeds, BreaksFeeds, LeavesFeeds DEF Next
<1>2. CASE UNCHANGED vars
  <2>1. UNCHANGED <<viewer, task, done, log, voice, part, conn, got>>
    BY <1>2 DEF vars
  <2>2. FeedInv'
    BY <2>1 DEF FeedInv, FeedTypes
  <2> QED
    BY <2>1, <2>2, PrefixItself DEF Feeds
<1> QED
  BY <1>1, <1>2

-----------------------------------------------------------------------------
(* The promise *)

LEMMA ViewFacts ==
  ASSUME NEW file \in Seq(Events), NEW eyes
  PROVE  /\ Feed!View(file, eyes) \in Seq(Nat) /\ Ascending(Feed!View(file, eyes))
         /\ \A x : x \in Range(Feed!View(file, eyes)) <=> x \in 1 .. Len(file) /\ Visible(file[x], eyes)
<1> DEFINE p == [i \in DOMAIN file |-> IF Visible(file[i], eyes) THEN <<i>> ELSE <<>>]
<1>1. Len(file) \in Nat /\ DOMAIN file = 1 .. Len(file)
  OBVIOUS
<1>2. \A i \in 1 .. Len(file) : <<i>> \in Seq(Nat) /\ Len(<<i>>) = 1 /\ <<i>>[1] = i
  OBVIOUS
<1>3. <<>> \in Seq(Nat) /\ Len(<<>>) = 0
  OBVIOUS
<1>4. p \in Seq(Seq(Nat)) /\ Len(p) = Len(file)
  BY <1>1, <1>2, <1>3
<1>5. \A i \in 1 .. Len(p) : p[i] = IF Visible(file[i], eyes) THEN <<i>> ELSE <<>>
  BY <1>1, <1>4
<1>6. Feed!View(file, eyes) = FlattenSeq(p)
  BY DEF Feed!View, Feed!FlattenSeq, FlattenSeq
<1> HIDE DEF p
<1>7. \A i \in 1 .. Len(p) : /\ Len(p[i]) = 0 \/ Len(p[i]) = 1
                            /\ (Len(p[i]) = 1 <=> Visible(file[i], eyes))
                            /\ (Len(p[i]) = 1 => p[i][1] = i)
  <2> SUFFICES ASSUME NEW i \in 1 .. Len(p)
               PROVE  /\ Len(p[i]) = 0 \/ Len(p[i]) = 1
                      /\ (Len(p[i]) = 1 <=> Visible(file[i], eyes))
                      /\ (Len(p[i]) = 1 => p[i][1] = i)
    OBVIOUS
  <2>1. CASE Visible(file[i], eyes)
    <3>1. p[i] = <<i>>
      BY <1>5, <2>1
    <3> QED
      BY <3>1, <2>1
  <2>2. CASE ~Visible(file[i], eyes)
    <3>1. p[i] = <<>>
      BY <1>5, <2>2
    <3> QED
      BY <3>1, <2>2
  <2> QED
    BY <2>1, <2>2
<1>8. \A i, j \in 1 .. Len(p) : i < j /\ Len(p[i]) = 1 /\ Len(p[j]) = 1 => p[i][1] < p[j][1]
  BY <1>7
<1>9. /\ FlattenSeq(p) \in Seq(Nat) /\ Ascending(FlattenSeq(p))
      /\ \A x : x \in Range(FlattenSeq(p)) <=> \E i \in 1 .. Len(p) : Len(p[i]) = 1 /\ x = p[i][1]
  BY <1>4, <1>7, <1>8, PickFacts
<1>10. ASSUME NEW x
       PROVE  x \in Range(FlattenSeq(p)) <=> x \in 1 .. Len(file) /\ Visible(file[x], eyes)
  <2>1. ASSUME x \in Range(FlattenSeq(p))
        PROVE  x \in 1 .. Len(file) /\ Visible(file[x], eyes)
    <3>1. PICK i \in 1 .. Len(p) : Len(p[i]) = 1 /\ x = p[i][1]
      BY <1>9, <2>1
    <3> QED
      BY <3>1, <1>4, <1>7
  <2>2. ASSUME x \in 1 .. Len(file), Visible(file[x], eyes)
        PROVE  x \in Range(FlattenSeq(p))
    <3>1. x \in 1 .. Len(p) /\ Len(p[x]) = 1 /\ x = p[x][1]
      BY <1>4, <1>7, <2>2
    <3> QED
      BY <1>9, <3>1
  <2> QED
    BY <2>1, <2>2
<1> QED
  BY <1>6, <1>9, <1>10

\* FeedInv is an invariant: the events are in order, and of those a reader may see and
\* does not have, his connection holds each once and in order.
THEOREM FedAlways == Spec => []FeedInv
<1>1. ASSUME FeedInv, [Next]_vars
      PROVE  FeedInv'
  BY <1>1, StepFeeds DEF Feeds
<1> QED
  BY <1>1, InitFed, PTL DEF Spec

\* Whatever batches the engine hands over, however often connections break, pages are
\* closed and subscribers fail: every reader is given a growing prefix of what he may
\* see of the file, or starts from nothing (connection.py, ws.py).
THEOREM FeedIsImplemented == Spec => FeedImplemented
<1>1. Init => Feed!FeedInit
  BY DEF Init, Feed!FeedInit
<1>2. ASSUME FeedInv, [Next]_vars
      PROVE  [Feed!FeedNext]_(Feed!feedVars)
  <2>1. Feeds
    BY <1>2, StepFeeds
  <2>2. ASSUME NEW r \in Readers
        PROVE  Feed!ReadsOn(r) \/ got'[r] = <<>>
    <3>1. CASE got'[r] = <<>>
      BY <3>1
    <3>2. CASE IsPrefix(got[r], got'[r])
      <4> DEFINE view == Feed!View(log', viewer[r])
      <4>1. /\ log' \in Seq(Events) /\ got'[r] \in Seq(Nat)
            /\ InOrder(log', viewer[r], got'[r])
        BY <2>1 DEF Feeds, FeedInv, FeedTypes, Fed
      <4>2. /\ view \in Seq(Nat) /\ Ascending(view)
            /\ \A x : x \in Range(view) <=> x \in 1 .. Len(log') /\ Visible(log'[x], viewer[r])
        BY <4>1, ViewFacts
      <4> HIDE DEF view
      <4>3. Ascending(got'[r]) /\ Range(got'[r]) \subseteq Range(view)
        BY <4>1, <4>2 DEF InOrder
      <4>4. \A x \in Range(view), y \in Range(got'[r]) : x < y => x \in Range(got'[r])
        BY <4>1, <4>2 DEF InOrder
      <4>5. IsPrefix(got'[r], view)
        BY <4>1, <4>2, <4>3, <4>4, AscendingPrefix
      <4> QED
        BY <3>2, <4>5 DEF Feed!ReadsOn, Feed!IsPrefix, IsPrefix, view
    <3> QED
      BY <2>1, <3>1, <3>2 DEF Feeds
  <2> QED
    BY <2>1, <2>2 DEF Feeds, Feed!FeedNext, Feed!IsPrefix, IsPrefix
<1> QED
  BY <1>1, <1>2, FedAlways, PTL DEF Spec, FeedImplemented, Feed!FeedSpec

-----------------------------------------------------------------------------
(* The frames of speech *)

\* What a client is given next: frame 0 is the speech he last heard, the others are queued.
Nth(h, q, k) == IF k = 0 THEN h ELSE q[k]

\* A frame behind which more of the same speech has to come, and does.
Loud(f, broken) == IsAudio(f) /\ f.type # "end" /\ f.seq \notin broken
Continues(f, g) == IsAudio(g) /\ g.type # "begin" /\ g.seq = f.seq

\* Of one event, begin is the first frame and end the last, and the sentences go up.
Later(f, g) ==
    f.seq = g.seq => /\ f.type # "end" /\ g.type # "begin"
                     /\ f.type = "part" /\ g.type = "part" => f.part < g.part

\* The event of a frame is in the file, and its client may see it.
Known(f, file, eyes) == f.seq \in 0 .. Len(file) /\ (f.seq # 0 => Visible(file[f.seq], eyes))

\* If it has yet to be spoken to the end, then it is being spoken, and p comes next.
Spent(f, words, p) ==
    f.seq \in Range(words) => /\ p # None /\ f.seq = words[1] /\ f.type # "end"
                              /\ f.type = "part" => f.part < p

\* The client has the event, or it is queued before its speech.
Announced(q, k, read) ==
    q[k].seq \in Range(read) \/ \E m \in 1 .. k - 1 : q[m] = EventFrame(q[k].seq)

Heard(file, eyes, read, h, q, words, p, broken) ==
    /\ \A k \in 0 .. Len(q) :
          IsAudio(Nth(h, q, k)) => Known(Nth(h, q, k), file, eyes) /\ Spent(Nth(h, q, k), words, p)
    /\ \A j, k \in 0 .. Len(q) :
          j < k /\ IsAudio(Nth(h, q, j)) /\ IsAudio(Nth(h, q, k)) => Later(Nth(h, q, j), Nth(h, q, k))
    /\ \A k \in 0 .. Len(q) :
          Loud(Nth(h, q, k), broken) =>
             IF k < Len(q) THEN Continues(Nth(h, q, k), Nth(h, q, k + 1))
                           ELSE p # None /\ Nth(h, q, k).seq = words[1]
    /\ \A k \in 1 .. Len(q) : q[k].type = "begin" => Announced(q, k, read)

\* The batch is spoken in its order by a runner that is alive, and no connection is left in
\* the middle of a speech.
SoundInv ==
    /\ Ascending(voice) /\ (voice # <<>> => task = "playing")
    /\ hearing \in [Clients -> AudioFrames]
    /\ \A c \in Clients :
          /\ Heard(log, viewer[c], got[c], hearing[c], conn[c].out, voice, part, torn)
          /\ conn[c].at # "open" => conn[c].out = <<>> /\ ~Loud(hearing[c], torn)

LEMMA NthType ==
  ASSUME NEW h \in AudioFrames, NEW q \in Seq(Frames), NEW k \in 0 .. Len(q)
  PROVE  /\ Nth(h, q, k) \in Frames
         /\ IsAudio(Nth(h, q, k)) => Nth(h, q, k) \in AudioFrames
<1>1. k \in Nat /\ Len(q) \in Nat
  OBVIOUS
<1>2. Nth(h, q, k) \in Frames
  <2>1. CASE k = 0
    BY <2>1, FrameTypes DEF Nth
  <2>2. CASE k # 0
    <3>1. k \in 1 .. Len(q)
      BY <2>2, <1>1
    <3>2. q[k] \in Frames
      BY <3>1, ElementOfSeq
    <3> QED
      BY <3>2, <2>2 DEF Nth
  <2> QED
    BY <2>1, <2>2
<1> QED
  BY <1>2, FrameFacts

LEMMA AudioType ==
  ASSUME NEW f \in AudioFrames
  PROVE  /\ f \in Frames /\ IsAudio(f) /\ f.type \in {"begin", "part", "end"}
         /\ f.seq \in Nat /\ f.part \in Nat
<1>1. f \in Frames /\ f.type \in {"begin", "part", "end"}
  BY FrameTypes
<1>2. IsAudio(f)
  BY <1>1 DEF IsAudio
<1> QED
  BY <1>1, <1>2, FrameFacts

\* What a connection that is sent frames queues of them.
LEMMA QueueMore ==
  ASSUME NEW cn \in Conns, NEW eyes, NEW frames \in Seq(Frames)
  PROVE  /\ Queue(cn, eyes, frames).at = cn.at
         /\ \E g \in Seq(Frames) : Queue(cn, eyes, frames).out = cn.out \o g /\ Thins(g, frames)
<1>1. PICK g \in Seq(Frames), l \in Frames \cup {None} :
            /\ Queue(cn, eyes, frames) = [cn EXCEPT !.out = @ \o g, !.last = l]
            /\ Thins(g, frames)
  BY QueueThins
<1>2. Queue(cn, eyes, frames) = [at |-> cn.at, out |-> cn.out \o g, last |-> l]
  BY <1>1 DEF Conns
<1> QED
  BY <1>1, <1>2

\* q2 is q with frames behind it that are no speech.
Silently(q, q2) ==
    /\ q2 \in Seq(Frames) /\ Len(q) <= Len(q2)
    /\ \A k \in 1 .. Len(q) : q2[k] = q[k]
    /\ \A k \in 1 .. Len(q2) : k > Len(q) => ~IsAudio(q2[k])

LEMMA QueueSilently ==
  ASSUME NEW cn \in Conns, NEW eyes, NEW frames \in Seq(Frames),
         \A n \in 1 .. Len(frames) : ~IsAudio(frames[n])
  PROVE  /\ Queue(cn, eyes, frames).at = cn.at
         /\ Silently(cn.out, Queue(cn, eyes, frames).out)
<1>1. PICK g \in Seq(Frames) : Queue(cn, eyes, frames).out = cn.out \o g /\ Thins(g, frames)
  BY QueueMore
<1>2. \A k \in 1 .. Len(g) : ~IsAudio(g[k])
  BY <1>1 DEF Thins
<1>3. PICK q \in Seq(Frames) : q = cn.out
  BY DEF Conns
<1>4. /\ q \o g \in Seq(Frames) /\ Len(q) \in Nat /\ Len(g) \in Nat /\ Len(q \o g) = Len(q) + Len(g)
      /\ \A k \in 1 .. Len(q) : (q \o g)[k] = q[k]
      /\ \A k \in 1 .. Len(q \o g) : k > Len(q) => k - Len(q) \in 1 .. Len(g) /\ (q \o g)[k] = g[k - Len(q)]
  OBVIOUS
<1>5. Silently(q, q \o g)
  <2>1. \A k \in 1 .. Len(q \o g) : k > Len(q) => ~IsAudio((q \o g)[k])
    BY <1>2, <1>4
  <2> QED
    BY <1>4, <2>1 DEF Silently
<1> QED
  BY <1>1, <1>3, <1>5, QueueMore

LEMMA QueueAudio ==
  ASSUME NEW cn \in Conns, NEW eyes, NEW f \in AudioFrames
  PROVE  /\ Queue(cn, eyes, <<f>>).at = cn.at
         /\ Queue(cn, eyes, <<f>>).out = Append(cn.out, f)
<1>1. f \in Frames /\ f.type # "phase_change"
  BY AudioType
<1>2. <<f>> \in Seq(Frames) /\ Len(<<f>>) = 1 /\ <<f>>[1] = f
  BY <1>1
<1>3. PICK frames \in Seq(Frames) : frames = <<f>>
  BY <1>2
<1>4. PICK g \in Seq(Frames) : Queue(cn, eyes, frames).out = cn.out \o g /\ Thins(g, frames)
  BY QueueMore
<1>5. Len(frames) = 1 /\ frames[1] = f /\ Len(g) \in Nat
  BY <1>2, <1>3
<1>6. PICK a \in [1 .. Len(g) -> 1 .. Len(frames)] :
        /\ Ascending([k \in 1 .. Len(g) |-> a[k]])
        /\ \A k \in 1 .. Len(g) : g[k] = frames[a[k]]
        /\ \A n \in 1 .. Len(frames) :
              frames[n].type # "phase_change" => \E k \in 1 .. Len(g) : a[k] = n
  BY <1>4 DEF Thins
<1>7. Len(g) >= 1
  <2>1. 1 \in 1 .. Len(frames) /\ frames[1].type # "phase_change"
    BY <1>1, <1>5
  <2>2. \E k \in 1 .. Len(g) : a[k] = 1
    BY <1>6, <2>1
  <2> QED
    BY <1>5, <2>2
<1>8. ~(Len(g) >= 2)
  <2> SUFFICES ASSUME Len(g) >= 2
               PROVE  FALSE
    OBVIOUS
  <2>1. 1 \in 1 .. Len(g) /\ 2 \in 1 .. Len(g) /\ a[1] = 1 /\ a[2] = 1
    BY <1>5, <1>6
  <2> DEFINE b == [k \in 1 .. Len(g) |-> a[k]]
  <2>2. Len(b) = Len(g) /\ b[1] = 1 /\ b[2] = 1
    BY <2>1, <1>5
  <2>3. Ascending(b)
    BY <1>6
  <2> HIDE DEF b
  <2>4. b[1] < b[2]
    BY <2>1, <2>2, <2>3 DEF Ascending
  <2> QED
    BY <2>2, <2>4
<1>9. Len(g) = 1 /\ g[1] = f
  <2>1. Len(g) = 1 /\ 1 \in 1 .. Len(g)
    BY <1>5, <1>7, <1>8
  <2>2. a[1] = 1
    BY <2>1, <1>5, <1>6
  <2> QED
    BY <2>1, <2>2, <1>5, <1>6
<1>10. g = <<f>>
  BY <1>9
<1>11. cn.out \o <<f>> = Append(cn.out, f)
  <2>1. cn.out \in Seq(Frames)
    BY DEF Conns
  <2> QED
    BY <1>1, <2>1, AppendIsConcat
<1> QED
  BY <1>3, <1>4, <1>10, <1>11, QueueMore

\* The file grows, the next batch is to be spoken, and frames of the game are queued.
LEMMA HeardMore ==
  ASSUME NEW file, NEW file2, Len(file) \in Nat, Len(file2) \in Nat, Len(file) <= Len(file2),
         \A i \in 1 .. Len(file) : file2[i] = file[i],
         NEW eyes, NEW read, NEW broken, NEW h \in AudioFrames,
         NEW q \in Seq(Frames), NEW q2, Silently(q, q2),
         NEW words, \A x \in Range(words) : x > Len(file),
         Heard(file, eyes, read, h, q, <<>>, None, broken)
  PROVE  Heard(file2, eyes, read, h, q2, words, None, broken)
<1>1. /\ q2 \in Seq(Frames) /\ Len(q) \in Nat /\ Len(q2) \in Nat /\ Len(q) <= Len(q2)
      /\ \A k \in 1 .. Len(q) : q2[k] = q[k]
      /\ \A k \in 1 .. Len(q2) : k > Len(q) => ~IsAudio(q2[k])
  BY DEF Silently
<1>2. ASSUME NEW k \in 0 .. Len(q2), IsAudio(Nth(h, q2, k))
      PROVE  /\ k \in 0 .. Len(q) /\ Nth(h, q2, k) = Nth(h, q, k)
             /\ Nth(h, q, k) \in AudioFrames
  <2>1. k \in 0 .. Len(q)
    BY <1>1, <1>2 DEF Nth
  <2>2. Nth(h, q2, k) = Nth(h, q, k)
    BY <1>1, <2>1 DEF Nth
  <2> QED
    BY <1>2, <2>1, <2>2, NthType
<1>3. ASSUME NEW k \in 0 .. Len(q2), IsAudio(Nth(h, q2, k))
      PROVE  Known(Nth(h, q2, k), file2, eyes) /\ Spent(Nth(h, q2, k), words, None)
  <2> DEFINE f == Nth(h, q, k)
  <2>1. k \in 0 .. Len(q) /\ Nth(h, q2, k) = f /\ IsAudio(f)
    BY <1>2, <1>3
  <2>2. Known(f, file, eyes)
    BY <2>1 DEF Heard
  <2> HIDE DEF f
  <2>3. f.seq \in 0 .. Len(file) /\ f.seq \in 0 .. Len(file2)
    BY <2>2 DEF Known
  <2>4. f.seq \notin Range(words)
    BY <2>3
  <2>5. f.seq # 0 => Visible(file2[f.seq], eyes)
    BY <2>2, <2>3 DEF Known
  <2> QED
    BY <2>1, <2>3, <2>4, <2>5 DEF Known, Spent
<1>4. ASSUME NEW j \in 0 .. Len(q2), NEW k \in 0 .. Len(q2), j < k,
             IsAudio(Nth(h, q2, j)), IsAudio(Nth(h, q2, k))
      PROVE  Later(Nth(h, q2, j), Nth(h, q2, k))
  <2>1. /\ j \in 0 .. Len(q) /\ Nth(h, q2, j) = Nth(h, q, j)
        /\ k \in 0 .. Len(q) /\ Nth(h, q2, k) = Nth(h, q, k)
    BY <1>2, <1>4
  <2> QED
    BY <1>4, <2>1 DEF Heard
<1>5. ASSUME NEW k \in 0 .. Len(q2), Loud(Nth(h, q2, k), broken)
      PROVE  k < Len(q2) /\ Continues(Nth(h, q2, k), Nth(h, q2, k + 1))
  <2>1. k \in 0 .. Len(q) /\ Nth(h, q2, k) = Nth(h, q, k)
    BY <1>2, <1>5 DEF Loud
  <2>2. Loud(Nth(h, q, k), broken)
    BY <1>5, <2>1
  <2>3. k < Len(q) /\ Continues(Nth(h, q, k), Nth(h, q, k + 1))
    BY <2>1, <2>2 DEF Heard
  <2>4. Nth(h, q2, k + 1) = Nth(h, q, k + 1) /\ k < Len(q2)
    BY <1>1, <2>1, <2>3 DEF Nth
  <2> QED
    BY <2>1, <2>3, <2>4
<1>6. ASSUME NEW k \in 1 .. Len(q2), q2[k].type = "begin"
      PROVE  Announced(q2, k, read)
  <2>1. k \in 1 .. Len(q) /\ q2[k] = q[k]
    BY <1>1, <1>6 DEF IsAudio
  <2>2. Announced(q, k, read)
    BY <1>6, <2>1 DEF Heard
  <2>3. \A m \in 1 .. k - 1 : q2[m] = q[m]
    BY <1>1, <2>1
  <2> QED
    BY <2>1, <2>2, <2>3 DEF Announced
<1> QED
  BY <1>3, <1>4, <1>5, <1>6 DEF Heard

\* The runner goes on with the speech, and this client is sent nothing.
LEMMA HeardStay ==
  ASSUME NEW file, NEW eyes, NEW read, NEW broken, NEW broken2, broken \subseteq broken2,
         NEW h \in AudioFrames, NEW q \in Seq(Frames),
         NEW words, NEW p, NEW words2, NEW p2,
         \A f \in AudioFrames : Spent(f, words, p) => Spent(f, words2, p2),
         \A f \in AudioFrames :
            Loud(f, broken2) /\ Known(f, file, eyes) /\ p # None /\ f.seq = words[1]
               => p2 # None /\ f.seq = words2[1],
         Heard(file, eyes, read, h, q, words, p, broken)
  PROVE  Heard(file, eyes, read, h, q, words2, p2, broken2)
<1>1. Len(q) \in Nat
  OBVIOUS
<1>2. \A k \in 0 .. Len(q) : IsAudio(Nth(h, q, k)) => Nth(h, q, k) \in AudioFrames
  BY NthType
<1>3. ASSUME NEW k \in 0 .. Len(q), IsAudio(Nth(h, q, k))
      PROVE  Known(Nth(h, q, k), file, eyes) /\ Spent(Nth(h, q, k), words2, p2)
  <2>1. Known(Nth(h, q, k), file, eyes) /\ Spent(Nth(h, q, k), words, p)
    BY <1>3 DEF Heard
  <2> QED
    BY <1>2, <1>3, <2>1
<1>4. ASSUME NEW k \in 0 .. Len(q), Loud(Nth(h, q, k), broken2)
      PROVE  IF k < Len(q) THEN Continues(Nth(h, q, k), Nth(h, q, k + 1))
                           ELSE p2 # None /\ Nth(h, q, k).seq = words2[1]
  <2>1. Loud(Nth(h, q, k), broken) /\ IsAudio(Nth(h, q, k))
    BY <1>4 DEF Loud
  <2>2. IF k < Len(q) THEN Continues(Nth(h, q, k), Nth(h, q, k + 1))
                      ELSE p # None /\ Nth(h, q, k).seq = words[1]
    BY <2>1 DEF Heard
  <2>3. Known(Nth(h, q, k), file, eyes) /\ Nth(h, q, k) \in AudioFrames
    BY <2>1, <1>2, <1>3
  <2>4. CASE k < Len(q)
    BY <2>2, <2>4
  <2>5. CASE ~(k < Len(q))
    BY <1>4, <2>2, <2>3, <2>5
  <2> QED
    BY <2>4, <2>5
<1> QED
  BY <1>3, <1>4 DEF Heard

\* ... or the next frame of it.
LEMMA HeardSpeak ==
  ASSUME NEW file, NEW eyes, NEW read, NEW broken,
         NEW h \in AudioFrames, NEW q \in Seq(Frames), NEW f \in AudioFrames,
         NEW words, NEW p, NEW words2, NEW p2,
         Known(f, file, eyes), Spent(f, words2, p2), f.seq = words[1], p # None => f.type # "begin",
         Loud(f, broken) => p2 # None /\ f.seq = words2[1],
         f.type = "begin" => f.seq \in Range(read) \/ \E m \in 1 .. Len(q) : q[m] = EventFrame(f.seq),
         \A e \in AudioFrames : Spent(e, words, p) => Spent(e, words2, p2) /\ Later(e, f),
         Heard(file, eyes, read, h, q, words, p, broken)
  PROVE  Heard(file, eyes, read, h, Append(q, f), words2, p2, broken)
<1> DEFINE q2 == Append(q, f)
<1>1. f \in Frames /\ IsAudio(f)
  BY AudioType
<1>2. /\ q2 \in Seq(Frames) /\ Len(q) \in Nat /\ Len(q2) = Len(q) + 1 /\ q2[Len(q) + 1] = f
      /\ \A k \in 1 .. Len(q) : q2[k] = q[k]
  BY <1>1
<1> HIDE DEF q2
<1>3. /\ \A k \in 0 .. Len(q) : Nth(h, q2, k) = Nth(h, q, k)
      /\ Nth(h, q2, Len(q) + 1) = f
      /\ \A k \in 0 .. Len(q2) : k \in 0 .. Len(q) \/ k = Len(q) + 1
  BY <1>2 DEF Nth
<1>4. \A k \in 0 .. Len(q) : IsAudio(Nth(h, q, k)) => Nth(h, q, k) \in AudioFrames
  BY NthType
<1>5. \A k \in 0 .. Len(q) :
          IsAudio(Nth(h, q, k)) => Known(Nth(h, q, k), file, eyes) /\ Spent(Nth(h, q, k), words, p)
  BY DEF Heard
<1>6. ASSUME NEW k \in 0 .. Len(q2), IsAudio(Nth(h, q2, k))
      PROVE  Known(Nth(h, q2, k), file, eyes) /\ Spent(Nth(h, q2, k), words2, p2)
  <2>1. CASE k \in 0 .. Len(q)
    <3>1. Nth(h, q2, k) = Nth(h, q, k)
      BY <2>1, <1>3
    <3> QED
      BY <2>1, <3>1, <1>4, <1>5, <1>6
  <2>2. CASE k = Len(q) + 1
    BY <2>2, <1>3
  <2> QED
    BY <2>1, <2>2, <1>3
<1>7. ASSUME NEW j \in 0 .. Len(q2), NEW k \in 0 .. Len(q2), j < k,
             IsAudio(Nth(h, q2, j)), IsAudio(Nth(h, q2, k))
      PROVE  Later(Nth(h, q2, j), Nth(h, q2, k))
  <2>1. j \in 0 .. Len(q) /\ Nth(h, q2, j) = Nth(h, q, j)
    BY <1>2, <1>3, <1>7
  <2>2. CASE k \in 0 .. Len(q)
    <3>1. Nth(h, q2, k) = Nth(h, q, k)
      BY <2>2, <1>3
    <3> QED
      BY <1>7, <2>1, <2>2, <3>1 DEF Heard
  <2>3. CASE k = Len(q) + 1
    <3>1. Nth(h, q2, k) = f
      BY <2>3, <1>3
    <3>2. Nth(h, q, j) \in AudioFrames /\ Spent(Nth(h, q, j), words, p)
      BY <1>4, <1>5, <1>7, <2>1
    <3> QED
      BY <2>1, <3>1, <3>2
  <2> QED
    BY <2>2, <2>3, <1>3
<1>8. ASSUME NEW k \in 0 .. Len(q2), Loud(Nth(h, q2, k), broken)
      PROVE  IF k < Len(q2) THEN Continues(Nth(h, q2, k), Nth(h, q2, k + 1))
                            ELSE p2 # None /\ Nth(h, q2, k).seq = words2[1]
  <2>1. CASE k = Len(q) + 1
    <3>1. Nth(h, q2, k) = f /\ ~(k < Len(q2))
      BY <2>1, <1>2, <1>3
    <3> QED
      BY <3>1, <1>8
  <2>2. CASE k \in 0 .. Len(q) /\ k < Len(q)
    <3>1. Nth(h, q2, k) = Nth(h, q, k) /\ Nth(h, q2, k + 1) = Nth(h, q, k + 1) /\ k < Len(q2)
      BY <2>2, <1>2, <1>3
    <3>2. Continues(Nth(h, q, k), Nth(h, q, k + 1))
      BY <1>8, <2>2, <3>1 DEF Heard
    <3> QED
      BY <3>1, <3>2
  <2>3. CASE k = Len(q)
    <3>1. k \in 0 .. Len(q) /\ ~(k < Len(q)) /\ k < Len(q2)
          /\ Nth(h, q2, k) = Nth(h, q, k) /\ Nth(h, q2, k + 1) = f
      BY <2>3, <1>2, <1>3
    <3>2. p # None /\ Nth(h, q, k).seq = words[1]
      BY <1>8, <3>1 DEF Heard
    <3>3. Continues(Nth(h, q, k), f)
      BY <1>1, <3>2 DEF Continues
    <3> QED
      BY <3>1, <3>3
  <2> QED
    BY <2>1, <2>2, <2>3, <1>2, <1>3
<1>9. ASSUME NEW k \in 1 .. Len(q2), q2[k].type = "begin"
      PROVE  Announced(q2, k, read)
  <2>1. CASE k \in 1 .. Len(q)
    <3>1. Announced(q, k, read) /\ q2[k] = q[k]
      BY <1>2, <1>9, <2>1 DEF Heard
    <3>2. \A m \in 1 .. k - 1 : q2[m] = q[m]
      BY <1>2, <2>1
    <3> QED
      BY <3>1, <3>2 DEF Announced
  <2>2. CASE k = Len(q) + 1
    <3>1. q2[k] = f /\ k - 1 = Len(q) /\ \A m \in 1 .. Len(q) : q2[m] = q[m]
      BY <1>2, <2>2
    <3> QED
      BY <1>9, <3>1 DEF Announced
  <2> QED
    BY <2>1, <2>2, <1>2
<1> QED
  BY <1>6, <1>7, <1>8, <1>9 DEF Heard, q2

\* The client is given the next frame.
LEMMA HeardNext ==
  ASSUME NEW file, NEW eyes, NEW read, NEW broken, NEW words, NEW p,
         NEW h \in AudioFrames, NEW q \in Seq(Frames), q # <<>>,
         NEW h2, h2 = (IF IsAudio(Head(q)) THEN Head(q) ELSE h),
         NEW read2, Range(read) \subseteq Range(read2),
         Head(q).type = "game_event" => Head(q).seq \in Range(read2),
         Heard(file, eyes, read, h, q, words, p, broken)
  PROVE  /\ h2 \in AudioFrames /\ Heard(file, eyes, read2, h2, Tail(q), words, p, broken)
         /\ ~IsAudio(Head(q)) => ~Loud(h, broken)
<1> DEFINE q2 == Tail(q)
<1>1. /\ Len(q) \in Nat /\ Len(q) # 0 /\ Len(q2) \in Nat /\ Len(q2) = Len(q) - 1 /\ Head(q) = q[1]
      /\ 1 \in 1 .. Len(q) /\ \A k \in 1 .. Len(q2) : k + 1 \in 1 .. Len(q) /\ q2[k] = q[k + 1]
  OBVIOUS
<1> HIDE DEF q2
<1>2. Nth(h, q, 0) = h /\ Nth(h, q, 1) = Head(q) /\ IsAudio(h)
  BY <1>1, AudioType DEF Nth
<1>3. h2 \in AudioFrames
  BY <1>1, <1>2, NthType
<1>4. ASSUME ~IsAudio(Head(q))
      PROVE  ~Loud(h, broken)
  <2>1. 0 \in 0 .. Len(q) /\ 0 < Len(q) /\ 0 + 1 = 1
    BY <1>1
  <2>2. Loud(h, broken) => Continues(h, Head(q))
    BY <1>2, <2>1 DEF Heard
  <2> QED
    BY <1>4, <2>2 DEF Continues
\* where a frame stood in the queue before
<1> DEFINE From(k) == IF k = 0 /\ ~IsAudio(Head(q)) THEN 0 ELSE k + 1
<1>5. ASSUME NEW k \in 0 .. Len(q2)
      PROVE  /\ From(k) \in 0 .. Len(q) /\ Nth(h2, q2, k) = Nth(h, q, From(k))
             /\ k > 0 => From(k) = k + 1
             /\ \A j \in 0 .. Len(q2) : j < k => From(j) < From(k)
  BY <1>1, <1>2 DEF Nth
<1> HIDE DEF From
<1>6. ASSUME NEW k \in 0 .. Len(q2), IsAudio(Nth(h2, q2, k))
      PROVE  Known(Nth(h2, q2, k), file, eyes) /\ Spent(Nth(h2, q2, k), words, p)
  BY <1>5, <1>6 DEF Heard
<1>7. ASSUME NEW j \in 0 .. Len(q2), NEW k \in 0 .. Len(q2), j < k,
             IsAudio(Nth(h2, q2, j)), IsAudio(Nth(h2, q2, k))
      PROVE  Later(Nth(h2, q2, j), Nth(h2, q2, k))
  <2>1. /\ From(j) \in 0 .. Len(q) /\ From(k) \in 0 .. Len(q) /\ From(j) < From(k)
        /\ Nth(h2, q2, j) = Nth(h, q, From(j)) /\ Nth(h2, q2, k) = Nth(h, q, From(k))
    BY <1>5, <1>7
  <2> QED
    BY <1>7, <2>1 DEF Heard
<1>8. ASSUME NEW k \in 0 .. Len(q2), Loud(Nth(h2, q2, k), broken)
      PROVE  IF k < Len(q2) THEN Continues(Nth(h2, q2, k), Nth(h2, q2, k + 1))
                            ELSE p # None /\ Nth(h2, q2, k).seq = words[1]
  <2>1. From(k) = k + 1
    <3>1. CASE k = 0 /\ ~IsAudio(Head(q))
      <4>1. Nth(h2, q2, k) = h
        BY <3>1 DEF Nth
      <4> QED
        BY <1>4, <1>8, <3>1, <4>1
    <3> QED
      BY <3>1 DEF From
  <2>2. k + 1 \in 0 .. Len(q) /\ Nth(h2, q2, k) = Nth(h, q, k + 1) /\ (k < Len(q2) <=> k + 1 < Len(q))
    BY <1>1, <1>5, <2>1
  <2>3. IF k + 1 < Len(q) THEN Continues(Nth(h, q, k + 1), Nth(h, q, k + 1 + 1))
                          ELSE p # None /\ Nth(h, q, k + 1).seq = words[1]
    BY <1>8, <2>2 DEF Heard
  <2>4. CASE k < Len(q2)
    <3>1. k + 1 \in 0 .. Len(q2) /\ k + 1 > 0
      BY <1>1, <2>4
    <3>2. Nth(h2, q2, k + 1) = Nth(h, q, k + 1 + 1)
      BY <1>5, <3>1
    <3> QED
      BY <2>2, <2>3, <2>4, <3>2
  <2>5. CASE ~(k < Len(q2))
    BY <2>2, <2>3, <2>5
  <2> QED
    BY <2>4, <2>5
<1>9. ASSUME NEW k \in 1 .. Len(q2), q2[k].type = "begin"
      PROVE  Announced(q2, k, read2)
  <2>1. k + 1 \in 1 .. Len(q) /\ q2[k] = q[k + 1] /\ k + 1 - 1 = k
    BY <1>1
  <2>2. Announced(q, k + 1, read)
    BY <1>9, <2>1 DEF Heard
  <2>3. CASE q2[k].seq \in Range(read)
    BY <2>3 DEF Announced
  <2>4. ASSUME NEW m \in 1 .. k, q[m] = EventFrame(q2[k].seq)
        PROVE  Announced(q2, k, read2)
    <3>1. CASE m = 1
      <4>1. Head(q).type = "game_event" /\ Head(q).seq = q2[k].seq
        BY <1>1, <2>4, <3>1, FrameTypes
      <4> QED
        BY <4>1 DEF Announced
    <3>2. CASE m # 1
      <4>1. m - 1 \in 1 .. k - 1 /\ m - 1 \in 1 .. Len(q2) /\ q2[m - 1] = q[m - 1 + 1] /\ m - 1 + 1 = m
        BY <1>1, <3>2
      <4>2. q2[m - 1] = EventFrame(q2[k].seq)
        BY <2>4, <4>1
      <4> QED
        BY <4>1, <4>2 DEF Announced
    <3> QED
      BY <3>1, <3>2
  <2> QED
    BY <2>1, <2>2, <2>3, <2>4 DEF Announced
<1>10. Heard(file, eyes, read2, h2, q2, words, p, broken)
  BY <1>6, <1>7, <1>8, <1>9 DEF Heard
<1> QED
  BY <1>3, <1>4, <1>10 DEF q2

\* Who has heard the end of all he heard is not disturbed by what follows.
LEMMA HeardQuiet ==
  ASSUME NEW file, NEW eyes, NEW read, NEW broken, NEW h \in AudioFrames, ~Loud(h, broken),
         NEW words, NEW p, NEW words2, NEW p2,
         \A f \in AudioFrames : Spent(f, words, p) => Spent(f, words2, p2),
         Heard(file, eyes, read, h, <<>>, words, p, broken)
  PROVE  Heard(file, eyes, read, h, <<>>, words2, p2, broken)
<1>1. Len(<<>>) = 0
  OBVIOUS
<1>2. \A k \in 0 .. Len(<<>>) : k = 0 /\ Nth(h, <<>>, k) = h
  BY <1>1 DEF Nth
<1>3. Known(h, file, eyes) /\ Spent(h, words, p)
  <2>1. 0 \in 0 .. Len(<<>>) /\ Nth(h, <<>>, 0) = h /\ IsAudio(h)
    BY <1>1, AudioType DEF Nth
  <2> QED
    BY <2>1 DEF Heard
<1>4. \A k \in 1 .. Len(<<>>) : FALSE
  BY <1>1
<1>5. \A j, k \in 0 .. Len(<<>>) : ~(j < k)
  BY <1>1
<1> QED
  BY <1>2, <1>3, <1>4, <1>5 DEF Heard

\* Nothing but the last frame of speech is left, or what follows it is no speech.
LEMMA HeardNothing ==
  ASSUME NEW file, NEW eyes, NEW read, NEW words, NEW p, NEW broken, NEW h \in AudioFrames,
         ~Loud(h, broken), NEW q \in Seq(Frames),
         Heard(file, eyes, read, h, q, words, p, broken)
  PROVE  Heard(file, eyes, read, h, <<>>, words, p, broken)
<1>1. Len(<<>>) = 0 /\ Len(q) \in Nat
  OBVIOUS
<1>2. \A k \in 0 .. Len(<<>>) : k = 0 /\ Nth(h, <<>>, k) = h
  BY <1>1 DEF Nth
<1>3. Known(h, file, eyes) /\ Spent(h, words, p)
  <2>1. 0 \in 0 .. Len(q) /\ Nth(h, q, 0) = h /\ IsAudio(h)
    BY <1>1, AudioType DEF Nth
  <2> QED
    BY <2>1 DEF Heard
<1>4. (\A k \in 1 .. Len(<<>>) : FALSE) /\ \A j, k \in 0 .. Len(<<>>) : ~(j < k)
  BY <1>1
<1> QED
  BY <1>2, <1>3, <1>4 DEF Heard

LEMMA HeardFresh ==
  ASSUME NEW file, NEW eyes, NEW read, NEW words, NEW p, NEW broken, NEW h \in AudioFrames,
         ~Loud(h, broken), NEW q, Silently(<<>>, q),
         Heard(file, eyes, read, h, <<>>, words, p, broken)
  PROVE  Heard(file, eyes, read, h, q, words, p, broken)
<1>1. q \in Seq(Frames) /\ Len(q) \in Nat /\ \A k \in 1 .. Len(q) : ~IsAudio(q[k])
  BY DEF Silently
<1>2. \A k \in 0 .. Len(q) : IsAudio(Nth(h, q, k)) => k = 0 /\ Nth(h, q, k) = h
  BY <1>1 DEF Nth
<1>3. Known(h, file, eyes) /\ Spent(h, words, p)
  <2>1. 0 \in 0 .. Len(<<>>) /\ Nth(h, <<>>, 0) = h /\ IsAudio(h)
    BY AudioType DEF Nth
  <2> QED
    BY <2>1 DEF Heard
<1>4. \A k \in 1 .. Len(q) : q[k].type # "begin"
  BY <1>1 DEF IsAudio
<1>5. \A k \in 0 .. Len(q) : ~Loud(Nth(h, q, k), broken)
  BY <1>2 DEF Loud
<1> QED
  BY <1>2, <1>3, <1>4, <1>5 DEF Heard

-----------------------------------------------------------------------------
(* The steps, and the speech on its way *)

LEMMA SoundFacts ==
  ASSUME FeedInv, SoundInv, NEW c \in Clients
  PROVE  /\ c \in Readers /\ c \notin Agents /\ conn[c] \in Conns /\ conn[c].out \in Seq(Frames)
         /\ hearing[c] \in AudioFrames
         /\ Heard(log, viewer[c], got[c], hearing[c], conn[c].out, voice, part, torn)
         /\ conn[c].at # "open" => conn[c].out = <<>> /\ ~Loud(hearing[c], torn)
<1>1. c \in Readers /\ c \notin Agents
  BY BroadcastAssumption DEF Readers
<1>2. conn[c] \in Conns
  BY <1>1 DEF FeedInv, FeedTypes
<1>3. conn[c].out \in Seq(Frames)
  BY <1>2 DEF Conns
<1> QED
  BY <1>1, <1>2, <1>3 DEF SoundInv

LEMMA QuietVoice ==
  ASSUME FeedInv, SoundInv, voice = <<>> \/ task = "crashed"
  PROVE  voice = <<>> /\ part = None /\ Ascending(<<>>) /\ Range(<<>>) = {}
<1>1. voice = <<>>
  BY DEF SoundInv
<1>2. part = None
  BY <1>1 DEF FeedInv, FeedTypes
<1> QED
  BY <1>1, <1>2 DEF Ascending, Range

LEMMA SilentItself ==
  ASSUME NEW q \in Seq(Frames)
  PROVE  Silently(q, q)
<1>1. Len(q) \in Nat
  OBVIOUS
<1> QED
  BY <1>1 DEF Silently

LEMMA SilenceFacts ==
  /\ Silence \in AudioFrames /\ Silence.type = "end" /\ Silence.seq = 0
  /\ \A broken : ~Loud(Silence, broken)
<1>1. Silence \in AudioFrames /\ Silence.type = "end" /\ Silence.seq = 0
  <2>1. AudioFrame("end", 0, 0) \in AudioFrames
    BY AudioFrameType
  <2> QED
    BY <2>1, FrameTypes DEF Silence
<1>2. \A broken : ~Loud(Silence, broken)
  BY <1>1 DEF Loud
<1> QED
  BY <1>1, <1>2

LEMMA SilenceHeard ==
  ASSUME NEW file \in Seq(Events), NEW eyes, NEW read, NEW words \in Seq(Nat \ {0}), NEW p, NEW broken
  PROVE  Heard(file, eyes, read, Silence, <<>>, words, p, broken)
<1>1. Len(<<>>) = 0 /\ Len(file) \in Nat
  OBVIOUS
<1>2. \A k \in 0 .. Len(<<>>) : k = 0 /\ Nth(Silence, <<>>, k) = Silence
  BY <1>1 DEF Nth
<1>3. 0 \notin Range(words)
  <2>1. Range(words) = {words[k] : k \in 1 .. Len(words)}
    BY RangeSeq
  <2>2. \A k \in 1 .. Len(words) : words[k] \in Nat \ {0}
    BY ElementOfSeq
  <2> QED
    BY <2>1, <2>2
<1>4. Known(Silence, file, eyes) /\ Spent(Silence, words, p)
  BY <1>1, <1>3, SilenceFacts DEF Known, Spent
<1>5. \A k \in 1 .. Len(<<>>) : FALSE
  BY <1>1
<1> QED
  BY <1>2, <1>4, <1>5, SilenceFacts DEF Heard

LEMMA InitSound == Init => SoundInv
<1> SUFFICES ASSUME Init
             PROVE  SoundInv
  OBVIOUS
<1>1. /\ log = <<>> /\ voice = <<>> /\ <<>> \in Seq(Events) /\ <<>> \in Seq(Nat \ {0})
      /\ Ascending(voice)
  BY DEF Init, Ascending
<1>2. hearing \in [Clients -> AudioFrames]
  BY SilenceFacts DEF Init
<1>3. ASSUME NEW c \in Clients
      PROVE  /\ Heard(log, viewer[c], got[c], hearing[c], conn[c].out, voice, part, torn)
             /\ conn[c].at # "open" => conn[c].out = <<>> /\ ~Loud(hearing[c], torn)
  <2>1. hearing[c] = Silence /\ conn[c].out = <<>>
    BY DEF Init, Closed, Readers
  <2>2. log \in Seq(Events) /\ voice \in Seq(Nat \ {0})
    BY <1>1
  <2>3. Heard(log, viewer[c], got[c], Silence, <<>>, voice, part, torn)
    BY <2>2, SilenceHeard
  <2> QED
    BY <2>1, <2>3, SilenceFacts
<1> QED
  BY <1>1, <1>2, <1>3 DEF SoundInv

LEMMA CommitSounds ==
  ASSUME FeedInv, SoundInv, Commit
  PROVE  SoundInv'
<1> DEFINE batch == Script[done + 1]
           file == log \o batch
           first == Len(log) + 1
           round == RoundAt(file, Len(file))
<1>1. task = "playing" /\ batch \in Seq(Events)
  BY ScriptFacts DEF Commit
<1>2. /\ log' = file /\ task' = task /\ viewer' = viewer /\ part' = part /\ torn' = torn /\ hearing' = hearing
      /\ voice = <<>> /\ BroadcastBatch(file, first)
      /\ voice' = Numbers({i \in DOMAIN file : file[i].voiced}, first, Len(file))
  BY DEF Commit, Idle
<1>3. log \in Seq(Events) /\ part = None /\ Range(<<>>) = {}
  BY <1>2, QuietVoice DEF FeedInv, FeedTypes
<1>4. /\ file \in Seq(Events) /\ Len(file) \in Nat /\ Len(log) \in Nat
      /\ Len(file) = Len(log) + Len(batch) /\ Len(batch) \in Nat
      /\ \A i \in 1 .. Len(log) : file[i] = log[i]
  BY <1>1, <1>3
<1> HIDE DEF file
<1>5. round \in RoundNumbers /\ first \in 1 .. Len(file) + 1 /\ first \in Nat \ {0} /\ first <= Len(file) + 1
  BY <1>4, RoundFacts
<1>6. PICK kept \in Kept(file, first) :
          LET news(r) == News(r, file, first)
              Fails(r) == kept[r] < Len(news(r))
          IN  /\ conn' = [r \in Readers |->
                  IF ~Open(r) THEN conn[r]
                  ELSE IF r \in Agents THEN IF Fails(r) THEN Closed("dropped") ELSE conn[r]
                  ELSE Queue(conn[r], viewer[r], Live(file, first, viewer[r], round))]
              /\ got' = [r \in Readers |->
                  IF r \in Agents /\ Open(r)
                  THEN got[r] \o IF Fails(r) THEN SubSeq(news(r), 1, kept[r]) ELSE news(r)
                  ELSE got[r]]
  BY <1>2 DEF BroadcastBatch
<1>7. Ascending(voice') /\ \A x \in Range(voice') : x > Len(log)
  <2> DEFINE S == {i \in DOMAIN file : file[i].voiced}
  <2> HIDE DEF S
  <2>1. /\ Ascending(Numbers(S, first, Len(file)))
        /\ \A x : x \in Range(Numbers(S, first, Len(file))) <=> x \in first .. Len(file) /\ x \in S
    BY <1>4, <1>5, NumbersFacts
  <2>2. \A x \in first .. Len(file) : x > Len(log)
    BY <1>4
  <2> QED
    BY <1>2, <2>1, <2>2 DEF S
<1> HIDE DEF round, first
<1>8. ASSUME NEW c \in Clients
      PROVE  /\ Heard(file, viewer[c], got'[c], hearing[c], conn'[c].out, voice', None, torn)
             /\ conn'[c].at # "open" => conn'[c].out = <<>> /\ ~Loud(hearing[c], torn)
  <2>1. /\ c \in Readers /\ c \notin Agents /\ conn[c] \in Conns /\ conn[c].out \in Seq(Frames)
        /\ hearing[c] \in AudioFrames
        /\ Heard(log, viewer[c], got[c], hearing[c], conn[c].out, voice, part, torn)
        /\ conn[c].at # "open" => conn[c].out = <<>> /\ ~Loud(hearing[c], torn)
    BY SoundFacts
  <2>2. /\ got'[c] = got[c]
        /\ conn'[c] = IF ~Open(c) THEN conn[c]
                      ELSE Queue(conn[c], viewer[c], Live(file, first, viewer[c], round))
    BY <1>6, <2>1
  <2>3. conn'[c].at = conn[c].at /\ Silently(conn[c].out, conn'[c].out)
        /\ (conn[c].at # "open" => conn'[c] = conn[c])
    <3>1. CASE ~Open(c)
      BY <2>1, <2>2, <3>1, SilentItself
    <3>2. CASE Open(c)
      <4>1. PICK frames \in Seq(GameFrames) : frames = Live(file, first, viewer[c], round)
        BY <1>4, <1>5, LiveFacts
      <4>2. frames \in Seq(Frames)
        BY <4>1, SeqMonotonic, FrameTypes
      <4>3. \A n \in 1 .. Len(frames) : ~IsAudio(frames[n])
        <5>1. \A n \in 1 .. Len(frames) : frames[n] \in GameFrames
          BY <4>1, ElementOfSeq
        <5> QED
          BY <5>1, FrameTypes DEF IsAudio
      <4>4. /\ Queue(conn[c], viewer[c], frames).at = conn[c].at
            /\ Silently(conn[c].out, Queue(conn[c], viewer[c], frames).out)
        BY <2>1, <4>2, <4>3, QueueSilently
      <4> QED
        BY <2>2, <3>2, <4>1, <4>4 DEF Open
    <3> QED
      BY <3>1, <3>2
  <2>4. Heard(log, viewer[c], got[c], hearing[c], conn[c].out, <<>>, None, torn)
    BY <1>2, <1>3, <2>1
  <2>5. Heard(file, viewer[c], got[c], hearing[c], conn'[c].out, voice', None, torn)
    <3>1. PICK words : words = voice'
      OBVIOUS
    <3>2. PICK q, q2 : q = conn[c].out /\ q2 = conn'[c].out
      OBVIOUS
    <3>3. /\ q \in Seq(Frames) /\ Silently(q, q2) /\ Len(log) <= Len(file)
          /\ Heard(log, viewer[c], got[c], hearing[c], q, <<>>, None, torn)
          /\ \A x \in Range(words) : x > Len(log)
      BY <1>4, <1>7, <2>1, <2>3, <2>4, <3>1, <3>2
    <3>4. Heard(file, viewer[c], got[c], hearing[c], q2, words, None, torn)
      BY <1>4, <2>1, <3>3, HeardMore
    <3> QED
      BY <3>1, <3>2, <3>4
  <2> QED
    BY <2>1, <2>2, <2>3, <2>5
<1>9. hearing' \in [Clients -> AudioFrames] /\ task' = "playing"
  BY <1>1, <1>2 DEF SoundInv
<1> QED
  BY <1>2, <1>3, <1>7, <1>8, <1>9 DEF SoundInv

\* The steps of a dead or dying runner: nothing is being spoken.
LEMMA QuietSounds ==
  ASSUME FeedInv, SoundInv, voice = <<>> \/ task = "crashed",
         UNCHANGED <<viewer, voice, part, torn, got, hearing>>,
         Len(log') \in Nat, Len(log) <= Len(log'), \A i \in 1 .. Len(log) : log'[i] = log[i],
         \A c \in Clients : \/ conn'[c] = conn[c]
                            \/ conn[c].at = "open" /\ conn'[c] = Queue(conn[c], viewer[c], <<CrashFrame>>)
  PROVE  SoundInv'
<1>1. voice = <<>> /\ part = None /\ Ascending(<<>>) /\ Range(<<>>) = {}
  BY QuietVoice
<1>2. Len(log) \in Nat
  BY DEF FeedInv, FeedTypes
<1>3. ASSUME NEW c \in Clients
      PROVE  /\ Heard(log', viewer[c], got[c], hearing[c], conn'[c].out, <<>>, None, torn)
             /\ conn'[c].at # "open" => conn'[c].out = <<>> /\ ~Loud(hearing[c], torn)
  <2>1. /\ conn[c] \in Conns /\ conn[c].out \in Seq(Frames) /\ hearing[c] \in AudioFrames
        /\ Heard(log, viewer[c], got[c], hearing[c], conn[c].out, <<>>, None, torn)
        /\ conn[c].at # "open" => conn[c].out = <<>> /\ ~Loud(hearing[c], torn)
    BY <1>1, SoundFacts
  <2>2. conn'[c].at = conn[c].at /\ Silently(conn[c].out, conn'[c].out)
        /\ (conn[c].at # "open" => conn'[c] = conn[c])
    <3>1. CASE conn'[c] = conn[c]
      BY <2>1, <3>1, SilentItself
    <3>2. CASE conn[c].at = "open" /\ conn'[c] = Queue(conn[c], viewer[c], <<CrashFrame>>)
      <4>1. <<CrashFrame>> \in Seq(Frames) /\ Len(<<CrashFrame>>) = 1 /\ <<CrashFrame>>[1] = CrashFrame
        BY FrameTypes
      <4>2. PICK frames \in Seq(Frames) : frames = <<CrashFrame>>
        BY <4>1
      <4>3. \A n \in 1 .. Len(frames) : ~IsAudio(frames[n])
        BY <4>1, <4>2, FrameTypes DEF IsAudio
      <4>4. /\ Queue(conn[c], viewer[c], frames).at = conn[c].at
            /\ Silently(conn[c].out, Queue(conn[c], viewer[c], frames).out)
        BY <2>1, <4>3, QueueSilently
      <4> QED
        BY <3>2, <4>2, <4>4
    <3> QED
      BY <3>1, <3>2
  <2>3. Heard(log', viewer[c], got[c], hearing[c], conn'[c].out, <<>>, None, torn)
    BY <1>1, <1>2, <2>1, <2>2, HeardMore
  <2> QED
    BY <2>1, <2>2, <2>3
<1>4. hearing \in [Clients -> AudioFrames]
  BY DEF SoundInv
<1> QED
  BY <1>1, <1>3, <1>4 DEF SoundInv

LEMMA CommitFailsSounds ==
  ASSUME FeedInv, SoundInv, CommitFails
  PROVE  SoundInv'
<1>1. PICK n \in 0 .. Len(Script[done + 1]) - 1 : log' = log \o SubSeq(Script[done + 1], 1, n)
  BY DEF CommitFails
<1>2. voice = <<>> /\ UNCHANGED <<viewer, voice, part, torn, conn, got, hearing>>
  BY DEF CommitFails, Idle, clientVars
<1>3. Feeds
  BY CommitFailsFeeds
<1>4. /\ log \in Seq(Events) /\ log' \in Seq(Events) /\ IsPrefix(log, log')
  BY <1>3 DEF Feeds, FeedInv, FeedTypes
<1>5. Len(log) \in Nat /\ Len(log') \in Nat /\ Len(log) <= Len(log') /\ log = SubSeq(log', 1, Len(log))
  BY <1>4 DEF IsPrefix
<1>6. \A i \in 1 .. Len(log) : log'[i] = log[i]
  <2>1. \A i \in 1 .. Len(log) : SubSeq(log', 1, Len(log))[i] = log'[i]
    BY <1>4, <1>5
  <2> QED
    BY <1>5, <2>1
<1> QED
  BY <1>2, <1>5, <1>6, QuietSounds

LEMMA CrashNoticeSounds ==
  ASSUME FeedInv, SoundInv, CrashNotice
  PROVE  SoundInv'
<1>1. /\ task = "crashed" /\ QueueFor(Clients, CrashFrame)
      /\ UNCHANGED <<viewer, log, voice, part, torn, got, hearing>>
  BY DEF CrashNotice, runnerVars, voiceVars, clientVars
<1>2. \A c \in Clients : \/ conn'[c] = conn[c]
                         \/ conn[c].at = "open" /\ conn'[c] = Queue(conn[c], viewer[c], <<CrashFrame>>)
  BY <1>1 DEF QueueFor, Readers, Open
<1>3. Len(log) \in Nat
  BY DEF FeedInv, FeedTypes
<1> QED
  BY <1>1, <1>2, <1>3, QuietSounds

\* The event that is spoken is on its way to everyone who may see it and is connected.
LEMMA SpokenAnnounced ==
  ASSUME FeedInv, SoundInv, voice # <<>>, NEW c \in Clients, Open(c), Visible(log[Spoken], viewer[c])
  PROVE  Spoken \in Range(got[c]) \/ \E m \in 1 .. Len(conn[c].out) : conn[c].out[m] = EventFrame(Spoken)
<1>1. c \in Readers /\ task = "playing" /\ Spoken \in 1 .. Len(log)
  BY SoundFacts, SpokenFacts DEF SoundInv
<1>2. PICK m \in 0 .. Len(log) :
            /\ m = Len(log)
            /\ Carries(conn[c].out, Owed(log, viewer[c], got[c], m))
  BY <1>1 DEF FeedInv, Fed, Open
<1>3. CASE Spoken \notin Range(got[c])
  <2>1. Spoken \in Owed(log, viewer[c], got[c], m)
    BY <1>1, <1>2, <1>3 DEF Owed
  <2> QED
    BY <1>2, <2>1 DEF Carries
<1> QED
  BY <1>3

LEMMA VoiceFacts ==
  ASSUME FeedInv, SoundInv, voice # <<>>
  PROVE  /\ Spoken = voice[1] /\ Spoken \in Nat /\ Spoken # 0 /\ Spoken \in 1 .. Len(log)
         /\ Spoken \in Range(voice) /\ task = "playing"
         /\ Ascending(Tail(voice)) /\ Spoken \notin Range(Tail(voice))
         /\ Range(Tail(voice)) \subseteq Range(voice)
<1>1. voice \in Seq(1 .. Len(log)) /\ Len(log) \in Nat
  BY DEF FeedInv, FeedTypes
<1>2. PICK w \in Seq(Nat) : w = voice
  <2>1. 1 .. Len(log) \subseteq Nat
    BY <1>1
  <2> QED
    BY <1>1, <2>1, SeqMonotonic
<1> DEFINE t == Tail(w)
<1>3. /\ Len(w) \in Nat /\ Len(w) # 0 /\ t \in Seq(Nat) /\ Len(t) = Len(w) - 1
      /\ 1 \in 1 .. Len(w)
      /\ \A k \in 1 .. Len(t) : k + 1 \in 1 .. Len(w) /\ t[k] = w[k + 1]
      /\ \A k \in 1 .. Len(w) : w[k] \in Nat
  BY <1>2
<1> HIDE DEF t
<1>4. Range(w) = {w[k] : k \in 1 .. Len(w)} /\ Range(t) = {t[k] : k \in 1 .. Len(t)}
  BY <1>3, RangeSeq
<1>5. Ascending(w)
  BY <1>2 DEF SoundInv
<1>6. Ascending(t)
  <2> SUFFICES ASSUME NEW j \in 1 .. Len(t), NEW k \in 1 .. Len(t), j < k
               PROVE  t[j] < t[k]
    BY DEF Ascending
  <2>1. /\ j + 1 \in 1 .. Len(w) /\ k + 1 \in 1 .. Len(w) /\ j + 1 < k + 1
        /\ t[j] = w[j + 1] /\ t[k] = w[k + 1]
    BY <1>3
  <2> QED
    BY <2>1, <1>5 DEF Ascending
<1>7. w[1] \notin Range(t)
  <2> SUFFICES ASSUME NEW k \in 1 .. Len(t), t[k] = w[1]
               PROVE  FALSE
    BY <1>4
  <2>1. k + 1 \in 1 .. Len(w) /\ 1 < k + 1 /\ t[k] = w[k + 1]
    BY <1>3
  <2>2. w[1] < w[k + 1]
    BY <1>3, <1>5, <2>1 DEF Ascending
  <2>3. w[1] \in Nat /\ w[k + 1] = w[1]
    BY <1>3, <2>1
  <2> QED
    BY <2>2, <2>3
<1>8. Range(t) \subseteq Range(w) /\ w[1] \in Range(w)
  BY <1>3, <1>4
<1>9. Spoken = w[1] /\ Spoken \in 1 .. Len(log) /\ task = "playing"
  BY <1>2, SpokenFacts DEF Spoken, SoundInv
<1> QED
  BY <1>1, <1>2, <1>6, <1>7, <1>8, <1>9 DEF t

\* A frame of speech is sent to all who may see the event.
LEMMA SpeakSounds ==
  ASSUME FeedInv, SoundInv, voice # <<>>, NEW kind \in {"begin", "part", "end"}, NEW n \in Nat,
         Speak(kind, n), UNCHANGED <<viewer, task, log, got, torn, hearing>>,
         Ascending(voice'),
         \A e \in AudioFrames : Spent(e, voice, part) =>
                /\ Spent(e, voice', part') /\ Later(e, AudioFrame(kind, Spoken, n)),
         Spent(AudioFrame(kind, Spoken, n), voice', part'),
         IF kind = "end" THEN TRUE ELSE part' # None /\ Spoken = voice'[1],
         part # None => kind # "begin"
  PROVE  SoundInv'
<1> DEFINE f == AudioFrame(kind, Spoken, n)
<1>1. /\ Spoken = voice[1] /\ Spoken \in Nat /\ Spoken # 0 /\ Spoken \in 1 .. Len(log)
      /\ Spoken \in Range(voice) /\ task = "playing"
  BY VoiceFacts
<1>2. f \in AudioFrames /\ f.type = kind /\ f.seq = Spoken /\ f.part = n
  BY <1>1, AudioFrameType, FrameTypes
<1>3. /\ Spent(f, voice', part') /\ (f.type # "end" => part' # None /\ f.seq = voice'[1])
      /\ (part # None => f.type # "begin")
      /\ \A e \in AudioFrames : Spent(e, voice, part) => Spent(e, voice', part') /\ Later(e, f)
  BY <1>2
<1>4. Speak(kind, n) => \A c \in Clients :
          conn'[c] = IF Visible(log[Spoken], viewer[c]) /\ Open(c)
                     THEN Queue(conn[c], viewer[c], <<f>>) ELSE conn[c]
  BY DEF Speak, QueueFor, Readers
<1> HIDE DEF f
<1>5. ASSUME NEW c \in Clients
      PROVE  /\ Heard(log, viewer[c], got[c], hearing[c], conn'[c].out, voice', part', torn)
             /\ conn'[c].at # "open" => conn'[c].out = <<>> /\ ~Loud(hearing[c], torn)
  <2>1. /\ conn[c] \in Conns /\ conn[c].out \in Seq(Frames) /\ hearing[c] \in AudioFrames
        /\ Heard(log, viewer[c], got[c], hearing[c], conn[c].out, voice, part, torn)
        /\ conn[c].at # "open" => conn[c].out = <<>> /\ ~Loud(hearing[c], torn)
    BY SoundFacts
  <2>2. CASE Visible(log[Spoken], viewer[c]) /\ Open(c)
    <3>1. conn'[c].at = conn[c].at /\ conn'[c].out = Append(conn[c].out, f)
      BY <1>2, <1>4, <2>1, <2>2, QueueAudio
    <3>2. Known(f, log, viewer[c])
      BY <1>1, <1>2, <2>2 DEF Known
    <3>3. f.seq \in Range(got[c]) \/ \E m \in 1 .. Len(conn[c].out) : conn[c].out[m] = EventFrame(f.seq)
      BY <1>2, <2>2, SpokenAnnounced
    <3>4. Loud(f, torn) => part' # None /\ f.seq = voice'[1]
      BY <1>3 DEF Loud
    <3>5. f.seq = voice[1]
      BY <1>1, <1>2
    <3>6. Heard(log, viewer[c], got[c], hearing[c], Append(conn[c].out, f), voice', part', torn)
      BY <1>2, <1>3, <2>1, <3>2, <3>3, <3>4, <3>5, HeardSpeak
    <3> QED
      BY <2>2, <3>1, <3>6 DEF Open
  <2>3. CASE ~(Visible(log[Spoken], viewer[c]) /\ Open(c))
    <3>1. conn'[c] = conn[c]
      BY <1>4, <2>3
    <3>2. CASE ~Visible(log[Spoken], viewer[c])
      <4>1. \A e \in AudioFrames : ~(Known(e, log, viewer[c]) /\ e.seq = voice[1])
        BY <1>1, <3>2 DEF Known
      <4>2. Heard(log, viewer[c], got[c], hearing[c], conn[c].out, voice', part', torn)
        BY <1>3, <2>1, <4>1, HeardStay
      <4> QED
        BY <2>1, <3>1, <4>2
    <3>3. CASE ~Open(c)
      <4>1. conn[c].out = <<>> /\ ~Loud(hearing[c], torn)
        BY <2>1, <3>3 DEF Open
      <4>2. Heard(log, viewer[c], got[c], hearing[c], <<>>, voice', part', torn)
        BY <1>3, <2>1, <4>1, HeardQuiet
      <4> QED
        BY <3>1, <4>1, <4>2
    <3> QED
      BY <2>3, <3>2, <3>3
  <2> QED
    BY <2>2, <2>3
<1>6. hearing \in [Clients -> AudioFrames]
  BY DEF SoundInv
<1> QED
  BY <1>1, <1>5, <1>6 DEF SoundInv

LEMMA VoiceSounds ==
  ASSUME FeedInv, SoundInv, VoiceBegin \/ VoicePart \/ VoiceEnd \/ VoiceFails
  PROVE  SoundInv'
<1>1. voice # <<>> /\ voice \in Seq(1 .. Len(log)) /\ part \in Nat \cup {None} /\ None \notin Nat
  BY BroadcastAssumption DEF FeedInv, FeedTypes, VoiceBegin, VoicePart, VoiceEnd, VoiceFails
<1>2. /\ Spoken = voice[1] /\ Spoken \in Nat /\ Spoken # 0 /\ Spoken \in 1 .. Len(log)
      /\ Spoken \in Range(voice) /\ task = "playing"
      /\ Ascending(Tail(voice)) /\ Spoken \notin Range(Tail(voice))
      /\ Range(Tail(voice)) \subseteq Range(voice)
  BY <1>1, VoiceFacts
<1>3. Ascending(voice) /\ hearing \in [Clients -> AudioFrames]
  BY DEF SoundInv
<1>4. \A kind, n : LET f == AudioFrame(kind, Spoken, n)
                   IN  f.type = kind /\ f.seq = Spoken /\ f.part = n
  BY FrameTypes
<1>5. ASSUME VoiceBegin
      PROVE  SoundInv'
  <2>1. /\ part = None /\ part' = 0 /\ Speak("begin", 0)
        /\ UNCHANGED <<viewer, task, log, got, torn, hearing, voice>>
    BY <1>5 DEF VoiceBegin, runnerVars, clientVars
  <2>2. ASSUME NEW e \in AudioFrames, Spent(e, voice, None)
        PROVE  Spent(e, voice, 0) /\ Later(e, AudioFrame("begin", Spoken, 0))
    BY <1>2, <1>4, <2>2 DEF Spent, Later
  <2>3. Spent(AudioFrame("begin", Spoken, 0), voice, 0)
    BY <1>1, <1>2, <1>4 DEF Spent
  <2> QED
    BY <1>1, <1>2, <1>3, <2>1, <2>2, <2>3, SpeakSounds
<1>6. ASSUME VoicePart
      PROVE  SoundInv'
  <2>1. PICK k \in part .. MaxParts - 1 : Speak("part", k) /\ part' = k + 1
    BY <1>6 DEF VoicePart
  <2>2. /\ UNCHANGED <<viewer, task, log, got, torn, hearing, voice>>
        /\ part \in Nat /\ k \in Nat /\ part <= k /\ k + 1 \in Nat /\ MaxParts \in Nat
    BY <1>1, <1>6, <2>1, BroadcastAssumption DEF VoicePart, runnerVars, clientVars
  <2>3. ASSUME NEW e \in AudioFrames, Spent(e, voice, part)
        PROVE  Spent(e, voice, k + 1) /\ Later(e, AudioFrame("part", Spoken, k))
    <3>1. e.part \in Nat /\ (e.type = "part" /\ e.part < part => e.part < k /\ e.part < k + 1)
      BY <2>2, AudioType
    <3>2. k + 1 # None
      BY <1>1, <2>2
    <3>3. Spent(e, voice, k + 1)
      BY <2>3, <3>1, <3>2 DEF Spent
    <3>4. Later(e, AudioFrame("part", Spoken, k))
      BY <1>2, <1>4, <2>3, <3>1 DEF Spent, Later
    <3> QED
      BY <3>3, <3>4
  <2>4. Spent(AudioFrame("part", Spoken, k), voice, k + 1)
    <3>1. k < k + 1 /\ k + 1 # None
      BY <1>1, <2>2
    <3> QED
      BY <1>2, <1>4, <3>1 DEF Spent
  <2>5. k + 1 # None
    BY <1>1, <2>2
  <2> QED
    BY <1>1, <1>2, <1>3, <2>1, <2>2, <2>3, <2>4, <2>5, SpeakSounds
<1>7. ASSUME VoiceEnd
      PROVE  SoundInv'
  <2>1. /\ Speak("end", 0) /\ voice' = Tail(voice) /\ part' = None
        /\ UNCHANGED <<viewer, task, log, got, torn, hearing>>
    BY <1>7 DEF VoiceEnd, NextSpoken, runnerVars, clientVars
  <2>2. ASSUME NEW e \in AudioFrames, Spent(e, voice, part)
        PROVE  Spent(e, Tail(voice), None) /\ Later(e, AudioFrame("end", Spoken, 0))
    <3>1. e.seq \notin Range(Tail(voice))
      BY <1>2, <2>2 DEF Spent
    <3> QED
      BY <1>2, <1>4, <2>2, <3>1 DEF Spent, Later
  <2>3. Spent(AudioFrame("end", Spoken, 0), Tail(voice), None)
    BY <1>2, <1>4 DEF Spent
  <2> QED
    BY <1>1, <1>2, <1>3, <2>1, <2>2, <2>3, SpeakSounds
<1>8. ASSUME VoiceFails
      PROVE  SoundInv'
  <2>1. /\ voice' = Tail(voice) /\ part' = None /\ torn' = torn \cup {Spoken}
        /\ UNCHANGED <<viewer, task, log, got, conn, hearing>>
    BY <1>8 DEF VoiceFails, NextSpoken, clientVars
  <2>2. \A e \in AudioFrames : Spent(e, voice, part) => Spent(e, Tail(voice), None)
    BY <1>2 DEF Spent
  <2>3. \A e \in AudioFrames : Loud(e, torn \cup {Spoken}) => e.seq # voice[1] /\ Loud(e, torn)
    BY <1>2 DEF Loud
  <2>4. ASSUME NEW c \in Clients
        PROVE  /\ Heard(log, viewer[c], got[c], hearing[c], conn[c].out, Tail(voice), None, torn \cup {Spoken})
               /\ conn[c].at # "open" => conn[c].out = <<>> /\ ~Loud(hearing[c], torn \cup {Spoken})
    <3>1. /\ conn[c].out \in Seq(Frames) /\ hearing[c] \in AudioFrames
          /\ Heard(log, viewer[c], got[c], hearing[c], conn[c].out, voice, part, torn)
          /\ conn[c].at # "open" => conn[c].out = <<>> /\ ~Loud(hearing[c], torn)
      BY SoundFacts
    <3>2. torn \subseteq torn \cup {Spoken}
      OBVIOUS
    <3>3. PICK more : more = torn \cup {Spoken}
      OBVIOUS
    <3>4. PICK rest : rest = Tail(voice)
      OBVIOUS
    <3>5. /\ torn \subseteq more
          /\ \A e \in AudioFrames : Spent(e, voice, part) => Spent(e, rest, None)
          /\ \A e \in AudioFrames : Loud(e, more) => e.seq # voice[1]
      BY <2>2, <2>3, <3>2, <3>3, <3>4
    <3>6. Heard(log, viewer[c], got[c], hearing[c], conn[c].out, rest, None, more)
      BY <3>1, <3>5, HeardStay
    <3> QED
      BY <2>3, <3>1, <3>3, <3>4, <3>6
  <2> QED
    BY <1>2, <1>3, <2>1, <2>4 DEF SoundInv
<1> QED
  BY <1>5, <1>6, <1>7, <1>8

\* A step of one client.
LEMMA ClientSounds ==
  ASSUME FeedInv, SoundInv, NEW c \in Clients, NEW cn2, NEW read2, NEW h2 \in AudioFrames,
         UNCHANGED <<viewer, task, log, voice, part, torn>>,
         conn' = [conn EXCEPT ![c] = cn2], got' = [got EXCEPT ![c] = read2],
         hearing' = [hearing EXCEPT ![c] = h2],
         Heard(log, viewer[c], read2, h2, cn2.out, voice, part, torn),
         cn2.at # "open" => cn2.out = <<>> /\ ~Loud(h2, torn)
  PROVE  SoundInv'
<1>1. hearing \in [Clients -> AudioFrames] /\ conn \in [Readers -> Conns] /\ got \in [Readers -> Seq(Nat)]
  BY DEF SoundInv, FeedInv, FeedTypes
<1>2. \A d \in Clients : /\ conn'[d] = IF d = c THEN cn2 ELSE conn[d]
                         /\ got'[d] = IF d = c THEN read2 ELSE got[d]
                         /\ hearing'[d] = IF d = c THEN h2 ELSE hearing[d]
  BY <1>1 DEF Readers
<1>3. ASSUME NEW d \in Clients
      PROVE  /\ Heard(log, viewer[d], got'[d], hearing'[d], conn'[d].out, voice, part, torn)
             /\ conn'[d].at # "open" => conn'[d].out = <<>> /\ ~Loud(hearing'[d], torn)
  BY <1>2, SoundFacts
<1>4. hearing' \in [Clients -> AudioFrames]
  BY <1>1
<1> QED
  BY <1>3, <1>4 DEF SoundInv

\* The connection is gone: the client is silent.
LEMMA CutSounds ==
  ASSUME FeedInv, SoundInv, NEW c \in Clients, NEW at, at # "open", NEW read2,
         UNCHANGED <<viewer, task, log, voice, part, torn>>,
         conn' = [conn EXCEPT ![c] = Closed(at)], got' = [got EXCEPT ![c] = read2],
         hearing' = [hearing EXCEPT ![c] = Silence]
  PROVE  SoundInv'
<1>1. Closed(at).at = at /\ Closed(at).out = <<>>
  BY DEF Closed
<1>2. log \in Seq(Events) /\ voice \in Seq(Nat \ {0})
  <2>1. log \in Seq(Events) /\ voice \in Seq(1 .. Len(log)) /\ Len(log) \in Nat
    BY DEF FeedInv, FeedTypes
  <2>2. 1 .. Len(log) \subseteq Nat \ {0}
    BY <2>1
  <2> QED
    BY <2>1, <2>2, SeqMonotonic
<1>3. Silence \in AudioFrames /\ ~Loud(Silence, torn)
  BY SilenceFacts
<1>4. Heard(log, viewer[c], read2, Silence, <<>>, voice, part, torn)
  BY <1>2, SilenceHeard
<1>5. PICK cn2 : cn2 = Closed(at)
  OBVIOUS
<1> QED
  BY <1>1, <1>3, <1>4, <1>5, ClientSounds

LEMMA LeavesSounds ==
  ASSUME FeedInv, SoundInv, NEW c \in Clients, Breaks(c) \/ Leaves(c)
  PROVE  SoundInv'
<1>1. CASE Breaks(c)
  <2>1. PICK at \in {"ended", "broken"} : conn' = [conn EXCEPT ![c] = Closed(at)]
    BY <1>1 DEF Breaks
  <2>2. /\ UNCHANGED <<viewer, task, log, voice, part, torn, got>>
        /\ hearing' = [hearing EXCEPT ![c] = Silence]
    BY <1>1 DEF Breaks, runnerVars, voiceVars
  <2>3. got' = [got EXCEPT ![c] = got[c]]
    <3>1. got \in [Readers -> Seq(Nat)]
      BY DEF FeedInv, FeedTypes
    <3> QED
      BY <2>2, <3>1
  <2> QED
    BY <2>1, <2>2, <2>3, CutSounds
<1>2. CASE Leaves(c)
  <2>1. /\ UNCHANGED <<viewer, task, log, voice, part, torn>>
        /\ conn' = [conn EXCEPT ![c] = Closed("away")] /\ got' = [got EXCEPT ![c] = <<>>]
        /\ hearing' = [hearing EXCEPT ![c] = Silence]
    BY <1>2 DEF Leaves, runnerVars, voiceVars
  <2> QED
    BY <2>1, CutSounds
<1> QED
  BY <1>1, <1>2

LEMMA ConnectSounds ==
  ASSUME FeedInv, SoundInv, NEW c \in Clients, Connect(c)
  PROVE  SoundInv'
<1> DEFINE from == LastSeq(c) + 1
           Rounds == [i \in DOMAIN log |-> RoundAt(log, i)]
           frames == FramesOf(log, from, viewer[c], {"event", "phase"}, Rounds)
           word == IF task = "crashed" THEN <<CrashFrame>> ELSE <<>>
<1>1. /\ UNCHANGED <<viewer, task, log, voice, part, torn, got, hearing>>
      /\ conn[c].at # "open"
      /\ conn' = [conn EXCEPT ![c] = Backfill(viewer[c], from)]
  BY DEF Connect, runnerVars, voiceVars, clientVars
<1>2. /\ c \in Readers /\ conn[c].out = <<>> /\ hearing[c] \in AudioFrames
      /\ Heard(log, viewer[c], got[c], hearing[c], <<>>, voice, part, torn)
      /\ ~Loud(hearing[c], torn)
  BY <1>1, SoundFacts
<1>3. log \in Seq(Events) /\ Len(log) \in Nat /\ got[c] \in Seq(Nat) /\ hearing \in [Clients -> AudioFrames]
      /\ got \in [Readers -> Seq(Nat)]
  BY <1>2 DEF FeedInv, FeedTypes, SoundInv
<1>4. from \in 1 .. Len(log) + 1
  <2>1. CASE got[c] = <<>>
    BY <1>3, <2>1 DEF LastSeq
  <2>2. CASE got[c] # <<>>
    <3>1. Len(got[c]) \in 1 .. Len(got[c]) /\ Last(got[c]) = got[c][Len(got[c])]
      BY <1>3, <2>2 DEF Last
    <3>2. Range(got[c]) = {got[c][k] : k \in 1 .. Len(got[c])}
      BY <1>3, RangeSeq
    <3>3. Last(got[c]) \in Range(got[c])
      BY <3>1, <3>2
    <3>4. Last(got[c]) \in 1 .. Len(log)
      BY <1>2, <3>3 DEF FeedInv, Fed, InOrder
    <3> QED
      BY <1>3, <2>2, <3>4 DEF LastSeq
  <2> QED
    BY <2>1, <2>2
<1>5. \A i \in 1 .. Len(log) : Rounds[i] \in RoundNumbers
  BY <1>3, RoundFacts
<1> HIDE DEF from, Rounds
<1>6. frames \in Seq(GameFrames)
  BY <1>3, <1>4, <1>5, FramesOfFacts
<1>7. Backfill(viewer[c], from) = Queue(Closed("open"), viewer[c], frames \o word)
  BY DEF Backfill, Rounds
<1>8. word \in Seq(Frames) /\ \A n \in 1 .. Len(word) : ~IsAudio(word[n])
  <2>1. <<CrashFrame>> \in Seq(Frames) /\ Len(<<CrashFrame>>) = 1 /\ <<CrashFrame>>[1] = CrashFrame
    BY FrameTypes
  <2>2. \A n \in 1 .. Len(<<CrashFrame>>) : ~IsAudio(<<CrashFrame>>[n])
    BY <2>1, FrameTypes DEF IsAudio
  <2>3. <<>> \in Seq(Frames) /\ \A n \in 1 .. Len(<<>>) : FALSE
    OBVIOUS
  <2> QED
    BY <2>1, <2>2, <2>3
<1> HIDE DEF frames, word
<1>9. PICK all \in Seq(Frames) : all = frames \o word /\ \A n \in 1 .. Len(all) : ~IsAudio(all[n])
  <2>1. frames \in Seq(Frames) /\ \A n \in 1 .. Len(frames) : ~IsAudio(frames[n])
    <3>1. \A n \in 1 .. Len(frames) : frames[n] \in GameFrames
      BY <1>6, ElementOfSeq
    <3> QED
      BY <1>6, <3>1, SeqMonotonic, FrameTypes DEF IsAudio
  <2>2. /\ frames \o word \in Seq(Frames) /\ Len(frames) \in Nat
        /\ \A n \in 1 .. Len(frames \o word) :
              \/ n \in 1 .. Len(frames) /\ (frames \o word)[n] = frames[n]
              \/ n - Len(frames) \in 1 .. Len(word) /\ (frames \o word)[n] = word[n - Len(frames)]
    BY <1>8, <2>1
  <2>3. \A n \in 1 .. Len(frames \o word) : ~IsAudio((frames \o word)[n])
    BY <1>8, <2>1, <2>2
  <2> QED
    BY <2>2, <2>3
<1>10. PICK fresh \in Conns : fresh = Closed("open") /\ fresh.at = "open" /\ fresh.out = <<>>
  <2>1. Closed("open") \in Conns /\ Closed("open").at = "open" /\ Closed("open").out = <<>>
    BY DEF Closed, Conns
  <2> QED
    BY <2>1
<1>11. PICK cn2 : cn2 = Queue(fresh, viewer[c], all)
  OBVIOUS
<1>12. cn2.at = "open" /\ Silently(<<>>, cn2.out)
  BY <1>9, <1>10, <1>11, QueueSilently
<1>13. Heard(log, viewer[c], got[c], hearing[c], cn2.out, voice, part, torn)
  BY <1>2, <1>12, HeardFresh
<1>14. /\ conn' = [conn EXCEPT ![c] = cn2] /\ got' = [got EXCEPT ![c] = got[c]]
       /\ hearing' = [hearing EXCEPT ![c] = hearing[c]]
  BY <1>1, <1>3, <1>7, <1>9, <1>10, <1>11
<1>15. PICK read2, h2 : read2 = got[c] /\ h2 = hearing[c]
  OBVIOUS
<1>16. /\ h2 \in AudioFrames /\ Heard(log, viewer[c], read2, h2, cn2.out, voice, part, torn)
       /\ conn' = [conn EXCEPT ![c] = cn2] /\ got' = [got EXCEPT ![c] = read2]
       /\ hearing' = [hearing EXCEPT ![c] = h2]
  BY <1>2, <1>13, <1>14, <1>15
<1>17. UNCHANGED <<viewer, task, log, voice, part, torn>> /\ cn2.at = "open"
  BY <1>1, <1>12
<1> QED
  BY <1>16, <1>17, ClientSounds

LEMMA SendSounds ==
  ASSUME FeedInv, SoundInv, NEW c \in Clients, Send(c)
  PROVE  SoundInv'
<1> DEFINE frame == Head(conn[c].out)
           cn2 == IF frame = CrashFrame THEN Closed("ended") ELSE [conn[c] EXCEPT !.out = Tail(@)]
           read2 == IF frame.type = "game_event" THEN Append(got[c], frame.seq) ELSE got[c]
           h2 == IF IsAudio(frame) THEN frame ELSE hearing[c]
<1>1. /\ UNCHANGED <<viewer, task, log, voice, part, torn>>
      /\ conn[c].at = "open" /\ conn[c].out # <<>>
      /\ conn' = [conn EXCEPT ![c] = cn2]
      /\ got' = IF frame.type = "game_event" THEN [got EXCEPT ![c] = Append(@, frame.seq)] ELSE got
      /\ hearing' = IF IsAudio(frame) THEN [hearing EXCEPT ![c] = frame] ELSE hearing
  BY DEF Send, Open, runnerVars, voiceVars
<1>2. /\ c \in Readers /\ conn[c] \in Conns /\ conn[c].out \in Seq(Frames) /\ hearing[c] \in AudioFrames
      /\ Heard(log, viewer[c], got[c], hearing[c], conn[c].out, voice, part, torn)
  BY SoundFacts
<1>3. got \in [Readers -> Seq(Nat)] /\ hearing \in [Clients -> AudioFrames] /\ got[c] \in Seq(Nat)
  BY <1>2 DEF FeedInv, FeedTypes, SoundInv
<1>4. got' = [got EXCEPT ![c] = read2] /\ hearing' = [hearing EXCEPT ![c] = h2]
  BY <1>1, <1>3
<1>5. frame \in Frames
  BY <1>1, <1>2
<1>6. Range(got[c]) \subseteq Range(read2) /\ (frame.type = "game_event" => frame.seq \in Range(read2))
  <2>1. CASE frame.type = "game_event"
    <3> DEFINE x == frame.seq
    <3>1. x \in Nat
      BY <1>5, <2>1, FrameFacts
    <3> HIDE DEF x
    <3>2. /\ Append(got[c], x) \in Seq(Nat) /\ Len(got[c]) \in Nat /\ Len(Append(got[c], x)) = Len(got[c]) + 1
          /\ Append(got[c], x)[Len(got[c]) + 1] = x
          /\ \A k \in 1 .. Len(got[c]) : Append(got[c], x)[k] = got[c][k]
      BY <1>3, <3>1
    <3>3. /\ Range(got[c]) = {got[c][k] : k \in 1 .. Len(got[c])}
          /\ Range(Append(got[c], x)) = {Append(got[c], x)[k] : k \in 1 .. Len(Append(got[c], x))}
      BY <1>3, <3>2, RangeSeq
    <3>4. x \in Range(Append(got[c], x))
      BY <3>2, <3>3
    <3>5. Range(got[c]) \subseteq Range(Append(got[c], x))
      BY <3>2, <3>3
    <3> QED
      BY <2>1, <3>4, <3>5 DEF x
  <2>2. CASE frame.type # "game_event"
    BY <2>2
  <2> QED
    BY <2>1, <2>2
<1> HIDE DEF read2
<1>7. /\ h2 \in AudioFrames /\ Heard(log, viewer[c], read2, h2, Tail(conn[c].out), voice, part, torn)
      /\ ~IsAudio(frame) => ~Loud(hearing[c], torn)
  <2>1. PICK q \in Seq(Frames) : q = conn[c].out
    BY <1>2
  <2>2. PICK h : h = h2
    OBVIOUS
  <2>3. /\ h = IF IsAudio(Head(q)) THEN Head(q) ELSE hearing[c]
        /\ q # <<>> /\ Range(got[c]) \subseteq Range(read2)
        /\ Head(q).type = "game_event" => Head(q).seq \in Range(read2)
        /\ Heard(log, viewer[c], got[c], hearing[c], q, voice, part, torn)
    BY <1>1, <1>2, <1>6, <2>1, <2>2
  <2>4. /\ h \in AudioFrames /\ Heard(log, viewer[c], read2, h, Tail(q), voice, part, torn)
        /\ ~IsAudio(Head(q)) => ~Loud(hearing[c], torn)
    BY <1>2, <2>3, HeardNext
  <2> QED
    BY <2>1, <2>2, <2>4
<1>8. CASE frame = CrashFrame
  <2>1. ~IsAudio(frame) /\ frame.type # "game_event"
    BY <1>8, FrameTypes DEF IsAudio
  <2>2. h2 = hearing[c] /\ ~Loud(h2, torn) /\ read2 = got[c]
    BY <1>7, <2>1 DEF read2
  <2>3. cn2 = Closed("ended") /\ cn2.out = <<>>
    BY <1>8 DEF Closed
  <2>4. PICK h : h = h2
    OBVIOUS
  <2>5. PICK rest \in Seq(Frames) : rest = Tail(conn[c].out)
    <3>1. Tail(conn[c].out) \in Seq(Frames)
      BY <1>1, <1>2
    <3> QED
      BY <3>1
  <2>6. /\ h \in AudioFrames /\ ~Loud(h, torn)
        /\ Heard(log, viewer[c], read2, h, rest, voice, part, torn)
    BY <1>7, <2>2, <2>4, <2>5
  <2>7. Heard(log, viewer[c], read2, h, <<>>, voice, part, torn)
    BY <2>6, HeardNothing
  <2>8. PICK cn : cn = cn2
    OBVIOUS
  <2>9. /\ conn' = [conn EXCEPT ![c] = cn] /\ hearing' = [hearing EXCEPT ![c] = h] /\ cn.out = <<>>
        /\ Heard(log, viewer[c], read2, h, cn.out, voice, part, torn)
    BY <1>1, <1>4, <2>3, <2>4, <2>7, <2>8
  <2>10. UNCHANGED <<viewer, task, log, voice, part, torn>> /\ got' = [got EXCEPT ![c] = read2]
    BY <1>1, <1>4
  <2> QED
    BY <2>6, <2>9, <2>10, ClientSounds
<1>9. CASE frame # CrashFrame
  <2>1. PICK rest : rest = Tail(conn[c].out)
    OBVIOUS
  <2>2. cn2 = [conn[c] EXCEPT !.out = rest]
    BY <1>9, <2>1
  <2>3. cn2 = [at |-> conn[c].at, out |-> rest, last |-> conn[c].last]
    BY <1>2, <2>2 DEF Conns
  <2>4. cn2.at = "open" /\ cn2.out = rest
    BY <1>1, <2>3
  <2> HIDE DEF cn2, h2
  <2>5. Heard(log, viewer[c], read2, h2, cn2.out, voice, part, torn)
    BY <1>7, <2>1, <2>4
  <2> QED
    BY <1>1, <1>4, <1>7, <2>4, <2>5, ClientSounds
<1> QED
  BY <1>8, <1>9

LEMMA StepSounds ==
  ASSUME FeedInv, SoundInv, [Next]_vars
  PROVE  SoundInv'
<1>1. CASE Next
  BY <1>1, CommitSounds, CommitFailsSounds, CrashNoticeSounds, VoiceSounds, ConnectSounds,
     SendSounds, LeavesSounds DEF Next
<1>2. CASE UNCHANGED vars
  BY <1>2 DEF vars, SoundInv
<1> QED
  BY <1>1, <1>2

LEMMA SoundBracketed ==
  ASSUME FeedInv, SoundInv
  PROVE  AudioBracketed
<1> SUFFICES ASSUME NEW c \in Clients
             PROVE  IF conn[c].out = <<>>
                    THEN Ended(c) \/ (part # None /\ hearing[c].seq = Spoken)
                    ELSE LET frame == Head(conn[c].out)
                         IN  /\ IsAudio(frame) => Follows(c, frame)
                             /\ Ended(c) \/ (IsAudio(frame) /\ frame.type # "begin" /\ frame.seq = hearing[c].seq)
  BY DEF AudioBracketed
<1> DEFINE q == conn[c].out
           h == hearing[c]
<1>1. q \in Seq(Frames) /\ h \in AudioFrames /\ Heard(log, viewer[c], got[c], h, q, voice, part, torn)
  BY SoundFacts
<1>2. IsAudio(h) /\ Len(q) \in Nat /\ Nth(h, q, 0) = h
  BY <1>1, AudioType DEF Nth
<1>3. Ended(c) <=> ~Loud(h, torn)
  BY <1>2 DEF Ended, Loud
<1>4. CASE q = <<>>
  <2>1. 0 \in 0 .. Len(q) /\ ~(0 < Len(q))
    BY <1>4
  <2>2. Loud(h, torn) => part # None /\ h.seq = voice[1]
    BY <1>1, <1>2, <2>1 DEF Heard
  <2> QED
    BY <1>3, <1>4, <2>2 DEF Spoken
<1>5. CASE q # <<>>
  <2> DEFINE frame == Head(q)
  <2>1. /\ 0 \in 0 .. Len(q) /\ 0 < Len(q) /\ 0 + 1 = 1 /\ 1 \in 0 .. Len(q) /\ 1 \in 1 .. Len(q)
        /\ q[1] = frame /\ Nth(h, q, 1) = frame
    BY <1>1, <1>5 DEF Nth
  <2>2. Loud(h, torn) => Continues(h, frame)
    BY <1>1, <1>2, <2>1 DEF Heard
  <2>3. IsAudio(frame) => Later(h, frame)
    BY <1>1, <1>2, <2>1 DEF Heard
  <2>4. frame.type = "begin" => frame.seq \in Range(got[c])
    <3>1. frame.type = "begin" => Announced(q, 1, got[c])
      BY <1>1, <2>1 DEF Heard
    <3>2. \A m \in 1 .. 1 - 1 : FALSE
      OBVIOUS
    <3> QED
      BY <2>1, <3>1, <3>2 DEF Announced
  <2>5. h.type \in {"begin", "part", "end"}
    BY <1>1, AudioType
  <2> HIDE DEF h, q, frame
  <2>6. ASSUME IsAudio(frame)
        PROVE  Follows(c, frame)
    <3>1. CASE frame.type = "begin"
      <4>1. frame.seq \in Range(got[c]) /\ frame.seq # h.seq
        BY <2>3, <2>4, <2>6, <3>1 DEF Later
      <4> QED
        BY <3>1, <4>1 DEF Follows, h
    <3>2. CASE frame.type = "part"
      <4>1. frame.seq = h.seq => \/ h.type = "begin"
                                 \/ (h.type = "part" /\ h.part < frame.part)
        BY <2>3, <2>5, <2>6, <3>2 DEF Later
      <4> QED
        BY <3>2, <4>1 DEF Follows, h
    <3>3. CASE frame.type = "end"
      <4>1. frame.seq = h.seq => h.type # "end"
        BY <2>3, <2>6, <3>3 DEF Later
      <4> QED
        BY <3>3, <4>1 DEF Follows, h
    <3> QED
      BY <2>6, <3>1, <3>2, <3>3 DEF IsAudio
  <2>7. Ended(c) \/ (IsAudio(frame) /\ frame.type # "begin" /\ frame.seq = h.seq)
    BY <1>3, <2>2 DEF Continues
  <2> QED
    BY <1>5, <2>6, <2>7 DEF h, q, frame
<1> QED
  BY <1>4, <1>5

THEOREM SoundInvHolds == Spec => [](FeedInv /\ SoundInv)
<1>1. Init => FeedInv /\ SoundInv
  BY InitFed, InitSound
<1>2. ASSUME FeedInv /\ SoundInv, [Next]_vars
      PROVE  (FeedInv /\ SoundInv)'
  BY <1>2, StepFeeds, StepSounds DEF Feeds
<1> QED
  BY <1>1, <1>2, PTL DEF Spec

\* On each connection the sound of an event comes after the event, begin before the
\* sentences, these in their order and then the end, before anything else of the game,
\* for every script and whoever comes in the middle (game_runner.py _voice, speech_audio.py).
THEOREM SoundIsBracketed == Spec => []AudioBracketed
<1>1. FeedInv /\ SoundInv => AudioBracketed
  BY SoundBracketed
<1> QED
  BY <1>1, SoundInvHolds, PTL

-----------------------------------------------------------------------------
(* Counting *)

LEMMA AscendingCounts ==
  ASSUME NEW s \in Seq(Nat), Ascending(s)
  PROVE  IsFiniteSet(Range(s)) /\ Cardinality(Range(s)) = Len(s)
<1> DEFINE F == [k \in 1 .. Len(s) |-> s[k]]
<1>1. Len(s) \in Nat /\ Range(s) = {s[k] : k \in 1 .. Len(s)}
  BY RangeSeq
<1>2. F \in [1 .. Len(s) -> Range(s)]
  BY <1>1
<1>3. \A a, b \in 1 .. Len(s) : F[a] = F[b] => a = b
  <2> SUFFICES ASSUME NEW a \in 1 .. Len(s), NEW b \in 1 .. Len(s), s[a] = s[b]
               PROVE  a = b
    OBVIOUS
  <2>1. s[a] \in Nat /\ s[b] \in Nat
    OBVIOUS
  <2>2. (a < b => s[a] < s[b]) /\ (b < a => s[b] < s[a])
    BY DEF Ascending
  <2> QED
    BY <2>1, <2>2, <1>1
<1>4. \A t \in Range(s) : \E k \in 1 .. Len(s) : F[k] = t
  BY <1>1
<1>5. F \in Bijection(1 .. Len(s), Range(s))
  BY <1>2, <1>3, <1>4, Fun_IsBij
<1>6. ExistsBijection(1 .. Len(s), Range(s))
  BY <1>5 DEF ExistsBijection
<1>7. IsFiniteSet(Range(s))
  BY <1>1, <1>6, FS_NatBijection
<1>8. Cardinality(Range(s)) = Len(s)
  BY <1>1, <1>6, FS_CountingElements
<1> QED
  BY <1>7, <1>8

\* In a finite set in which of two elements one is before the other, exactly n have less
\* than n before them, if there are as many.
Ranks(B, S) ==
    /\ B \in [S -> SUBSET S]
    /\ \A i \in S : i \notin B[i]
    /\ \A i, j \in S : i = j \/ i \in B[j] \/ j \in B[i]
    /\ \A i, j \in S : i \in B[j] => B[i] \subseteq B[j]

Low(B, S, n) == {i \in S : Cardinality(B[i]) < n}

LEMMA RanksCount ==
  ASSUME NEW S, IsFiniteSet(S), NEW B, Ranks(B, S), NEW n \in Nat
  PROVE  Cardinality(Low(B, S, n)) = IF Cardinality(S) <= n THEN Cardinality(S) ELSE n
<1> USE DEF Ranks
<1>1. PICK c \in Nat : c = Cardinality(S)
  BY FS_CardinalityType
<1>2. PICK r : r = [i \in S |-> Cardinality(B[i])]
  OBVIOUS
<1>3. ASSUME NEW i \in S
      PROVE  IsFiniteSet(B[i]) /\ r[i] \in Nat /\ r[i] < c
  <2>1. B[i] \in SUBSET S /\ B[i] # S
    OBVIOUS
  <2>2. IsFiniteSet(B[i]) /\ Cardinality(B[i]) <= c /\ Cardinality(B[i]) # c
    BY <1>1, <2>1, FS_Subset
  <2>3. Cardinality(B[i]) \in Nat
    BY <2>2, FS_CardinalityType
  <2> QED
    BY <1>1, <1>2, <2>2, <2>3
<1>4. ASSUME NEW i \in S, NEW j \in S, i \in B[j]
      PROVE  r[i] < r[j]
  <2>1. B[i] \in SUBSET B[j] /\ B[i] # B[j]
    BY <1>4
  <2>2. Cardinality(B[i]) <= Cardinality(B[j]) /\ Cardinality(B[j]) # Cardinality(B[i])
    BY <1>3, <2>1, FS_Subset
  <2> QED
    BY <1>2, <1>3, <2>2
<1>5. \A i, j \in S : r[i] = r[j] => i = j
  <2> SUFFICES ASSUME NEW i \in S, NEW j \in S, r[i] = r[j]
               PROVE  i = j
    OBVIOUS
  <2>1. ~(r[i] < r[j]) /\ ~(r[j] < r[i])
    BY <1>3
  <2> QED
    BY <1>4, <2>1
<1>6. r \in [S -> 0 .. c - 1]
  BY <1>1, <1>2, <1>3
<1>7. \A m \in Nat : IsFiniteSet(0 .. m - 1) /\ Cardinality(0 .. m - 1) = m
  <2> SUFFICES ASSUME NEW m \in Nat
               PROVE  IsFiniteSet(0 .. m - 1) /\ Cardinality(0 .. m - 1) = m
    OBVIOUS
  <2>1. m - 1 \in Int /\ 0 \in Int
    OBVIOUS
  <2>2. IsFiniteSet(0 .. m - 1) /\ Cardinality(0 .. m - 1) = IF 0 > m - 1 THEN 0 ELSE (m - 1) - 0 + 1
    BY <2>1, FS_Interval
  <2> QED
    BY <2>2
<1>8. r \in Injection(S, 0 .. c - 1)
  BY <1>5, <1>6, Fun_IsInj
<1>9. r \in Surjection(S, 0 .. c - 1)
  BY <1>1, <1>7, <1>8, FS_Injection
<1>10. \A t \in 0 .. c - 1 : \E i \in S : r[i] = t
  BY <1>9 DEF Surjection
<1> DEFINE P == Low(B, S, n)
           m == IF c <= n THEN c ELSE n
           g == [i \in P |-> r[i]]
<1>11. m \in Nat /\ m <= c /\ m <= n /\ (m = c \/ m = n)
  BY <1>1
<1>12. P = {i \in S : r[i] < n}
  BY <1>2 DEF Low
<1> HIDE DEF P, m
<1>13. g \in [P -> 0 .. m - 1]
  <2> SUFFICES ASSUME NEW i \in P
               PROVE  r[i] \in 0 .. m - 1
    OBVIOUS
  <2>1. i \in S /\ r[i] < n /\ r[i] < c /\ r[i] \in Nat
    BY <1>3, <1>12
  <2> QED
    BY <2>1, <1>11
<1>14. g \in Injection(P, 0 .. m - 1)
  <2>1. \A i, j \in P : g[i] = g[j] => i = j
    BY <1>5, <1>12
  <2> HIDE DEF g
  <2> QED
    BY <1>13, <2>1, Fun_IsInj
<1>15. g \in Surjection(P, 0 .. m - 1)
  <2>1. ASSUME NEW t \in 0 .. m - 1
        PROVE  \E i \in P : g[i] = t
    <3>1. t \in 0 .. c - 1 /\ t < n
      BY <1>1, <1>11
    <3>2. PICK i \in S : r[i] = t
      BY <3>1, <1>10
    <3> QED
      BY <3>1, <3>2, <1>12
  <2> HIDE DEF g
  <2> QED
    BY <1>13, <2>1, Fun_IsSurj
<1> HIDE DEF g
<1>16. Cardinality(P) = Cardinality(0 .. m - 1)
  BY <1>7, <1>11, <1>14, <1>15, FS_Injection
<1> QED
  BY <1>1, <1>7, <1>11, <1>16 DEF P, m

-----------------------------------------------------------------------------
(* The context of a decision *)

Older(entries) == 1 .. Len(entries) - FreshnessK
TellsMore(entries, j, i) ==
    \/ entries[j].score > entries[i].score
    \/ entries[j].score = entries[i].score /\ j < i
Before(entries, i) == {j \in Older(entries) : TellsMore(entries, j, i)}
Picked(entries) == {i \in Older(entries) : Cardinality(Before(entries, i)) < TopN}

LEMMA OlderFacts ==
  ASSUME NEW entries, Len(entries) \in Nat
  PROVE  /\ IsFiniteSet(Older(entries)) /\ Older(entries) \subseteq 1 .. Len(entries)
         /\ Cardinality(Older(entries))
               = IF Len(entries) < FreshnessK THEN 0 ELSE Len(entries) - FreshnessK
<1>1. FreshnessK \in Nat
  BY AgentMemoryAssumption
<1>2. PICK m \in Int : m = Len(entries) - FreshnessK
  BY <1>1
<1>3. IsFiniteSet(1 .. m) /\ Cardinality(1 .. m) = IF 1 > m THEN 0 ELSE m - 1 + 1
  <2>1. 1 \in Int
    OBVIOUS
  <2> QED
    BY <1>2, <2>1, FS_Interval
<1> QED
  BY <1>1, <1>2, <1>3 DEF Older

LEMMA PickedCount ==
  ASSUME NEW entries, Len(entries) \in Nat,
         \A i \in 1 .. Len(entries) : entries[i].score \in Nat
  PROVE  /\ Cardinality(Picked(entries)) = IF Cardinality(Older(entries)) <= TopN
                                          THEN Cardinality(Older(entries)) ELSE TopN
         /\ \A i \in Older(entries) : IsFiniteSet(Before(entries, i))
<1> PICK S : S = Older(entries)
  OBVIOUS
<1> PICK B : B = [i \in S |-> Before(entries, i)]
  OBVIOUS
<1>1. IsFiniteSet(S) /\ S \subseteq 1 .. Len(entries)
  BY OlderFacts
<1>2. TopN \in Nat
  BY AgentMemoryAssumption
<1>3. \A i \in S : i \in Nat /\ entries[i].score \in Nat
  BY <1>1
<1>4. B \in [S -> SUBSET S]
  BY DEF Before
<1>5. \A i \in S : i \notin B[i]
  BY <1>3 DEF Before, TellsMore
<1>6. \A i, j \in S : i = j \/ i \in B[j] \/ j \in B[i]
  BY <1>3 DEF Before, TellsMore
<1>7. \A i, j \in S : i \in B[j] => B[i] \subseteq B[j]
  <2> SUFFICES ASSUME NEW i \in S, NEW j \in S, TellsMore(entries, i, j),
                      NEW k \in S, TellsMore(entries, k, i)
               PROVE  TellsMore(entries, k, j)
    BY DEF Before
  <2> QED
    BY <1>3 DEF TellsMore
<1>8. Picked(entries) = Low(B, S, TopN)
  BY DEF Picked, Low
<1>9. \A i \in S : IsFiniteSet(Before(entries, i))
  <2> SUFFICES ASSUME NEW i \in S
               PROVE  IsFiniteSet(Before(entries, i))
    OBVIOUS
  <2>1. Before(entries, i) \in SUBSET S
    BY DEF Before
  <2> QED
    BY <1>1, <2>1, FS_Subset
<1>10. Ranks(B, S)
  BY <1>4, <1>5, <1>6, <1>7 DEF Ranks
<1>11. Cardinality(Low(B, S, TopN)) = IF Cardinality(S) <= TopN THEN Cardinality(S) ELSE TopN
  BY <1>1, <1>2, <1>10, RanksCount
<1> QED
  BY <1>8, <1>9, <1>11

LEMMA ContextFacts ==
  ASSUME NEW entries, Len(entries) \in Nat, DOMAIN entries = 1 .. Len(entries),
         \A i \in 1 .. Len(entries) : entries[i].score \in Nat
  PROVE  /\ Context(entries) \in Seq(Nat) /\ Ascending(Context(entries))
         /\ Range(Context(entries)) = Picked(entries) \cup (1 .. Len(entries) \ Older(entries))
         /\ Len(Context(entries)) = Min({Len(entries), FreshnessK + TopN})
<1> DEFINE old == Older(entries)
           new == 1 .. Len(entries) \ old
           told == Picked(entries) \cup new
<1>1. FreshnessK \in Nat /\ TopN \in Nat
  BY AgentMemoryAssumption
<1>2. /\ IsFiniteSet(old) /\ old \subseteq 1 .. Len(entries)
      /\ Cardinality(old) = IF Len(entries) < FreshnessK THEN 0 ELSE Len(entries) - FreshnessK
  BY OlderFacts
<1>3. Cardinality(Picked(entries)) = IF Cardinality(old) <= TopN THEN Cardinality(old) ELSE TopN
  BY PickedCount
<1>4. Picked(entries) \subseteq old
  BY DEF Picked
<1>5. Context(entries) = Numbers(told, 1, Len(entries))
  BY DEF Context, Picked, Before, TellsMore, Older
<1>6. PICK context : context = Context(entries)
  OBVIOUS
<1> HIDE DEF old
<1>7. told \subseteq 1 .. Len(entries)
  BY <1>2, <1>4
<1> HIDE DEF told
<1>8. /\ context \in Seq(Nat) /\ Ascending(context)
      /\ \A x : x \in Range(context) <=> x \in 1 .. Len(entries) /\ x \in told
  <2>1. 1 \in Nat \ {0} /\ 1 <= Len(entries) + 1
    OBVIOUS
  <2>2. PICK S : S = told
    OBVIOUS
  <2>3. context = Numbers(S, 1, Len(entries))
    BY <1>5, <1>6, <2>2
  <2>4. /\ Numbers(S, 1, Len(entries)) \in Seq(Nat) /\ Ascending(Numbers(S, 1, Len(entries)))
        /\ \A x : x \in Range(Numbers(S, 1, Len(entries))) <=> x \in 1 .. Len(entries) /\ x \in S
    BY <2>1, NumbersFacts
  <2> QED
    BY <2>2, <2>3, <2>4
<1>9. Range(context) = told
  BY <1>7, <1>8
<1>10. Len(context) = Cardinality(told)
  BY <1>8, <1>9, AscendingCounts
<1>11. IsFiniteSet(Picked(entries)) /\ Cardinality(Picked(entries)) \in Nat
  BY <1>2, <1>4, FS_Subset, FS_CardinalityType
<1>12. IsFiniteSet(new) /\ Cardinality(new) = Len(entries) - Cardinality(old)
  <2>1. IsFiniteSet(1 .. Len(entries)) /\ Cardinality(1 .. Len(entries)) = Len(entries)
    <3>1. 1 \in Int /\ Len(entries) \in Int
      OBVIOUS
    <3>2. IsFiniteSet(1 .. Len(entries))
          /\ Cardinality(1 .. Len(entries)) = IF 1 > Len(entries) THEN 0 ELSE Len(entries) - 1 + 1
      BY <3>1, FS_Interval
    <3> QED
      BY <3>2
  <2>2. (1 .. Len(entries)) \cap old = old
    BY <1>2
  <2>3. PICK all : all = 1 .. Len(entries)
    OBVIOUS
  <2>4. IsFiniteSet(all \ old) /\ Cardinality(all \ old) = Cardinality(all) - Cardinality(all \cap old)
    BY <2>1, <2>3, FS_Difference
  <2> QED
    BY <2>1, <2>2, <2>3, <2>4
<1> HIDE DEF new
<1>13. Cardinality(told) = Cardinality(Picked(entries)) + Cardinality(new)
  <2>1. Picked(entries) \cap new = {}
    BY <1>4 DEF new
  <2>2. Cardinality(Picked(entries) \cap new) = 0
    BY <2>1, FS_EmptySet
  <2>3. Cardinality(Picked(entries) \cup new)
          = Cardinality(Picked(entries)) + Cardinality(new) - Cardinality(Picked(entries) \cap new)
    BY <1>11, <1>12, FS_Union
  <2>4. Cardinality(new) \in Nat
    BY <1>12, FS_CardinalityType
  <2> QED
    BY <1>11, <2>2, <2>3, <2>4 DEF told
<1>14. Cardinality(told) = IF Len(entries) <= FreshnessK + TopN THEN Len(entries) ELSE FreshnessK + TopN
  <2>1. PICK n \in Nat : n = Len(entries)
    OBVIOUS
  <2>2. PICK K \in Nat, N \in Nat : K = FreshnessK /\ N = TopN
    BY <1>1
  <2>3. PICK a, b, c : a = Cardinality(old) /\ b = Cardinality(Picked(entries)) /\ c = Cardinality(new)
    OBVIOUS
  <2>4. /\ a = IF n < K THEN 0 ELSE n - K
        /\ b = IF a <= N THEN a ELSE N
        /\ c = n - a
    BY <1>2, <1>3, <1>12, <2>1, <2>2, <2>3
  <2>5. b + c = IF n <= K + N THEN n ELSE K + N
    BY <2>4
  <2> QED
    BY <1>13, <2>1, <2>2, <2>3, <2>5
<1>15. Min({Len(entries), FreshnessK + TopN})
          = IF Len(entries) <= FreshnessK + TopN THEN Len(entries) ELSE FreshnessK + TopN
  <2>1. PICK m \in Nat : m = FreshnessK + TopN
    BY <1>1
  <2> QED
    BY <2>1 DEF Min
<1> QED
  BY <1>6, <1>8, <1>9, <1>10, <1>14, <1>15 DEF told, new, old

-----------------------------------------------------------------------------
(* The file is the beginning of the story *)

Story == FlattenSeq(Script)
Chapters == CHOOSE f : Flattens(f, Script, Len(Script))
Filed(n) == IF n = 0 THEN <<>> ELSE Chapters[n]

LEMMA FiledFacts ==
  ASSUME NEW n \in 0 .. Len(Script)
  PROVE  /\ Filed(n) \in Seq(Events) /\ Script \in Seq(Seq(Events)) /\ Len(Script) \in Nat
         /\ n < Len(Script) => Filed(n + 1) = Filed(n) \o Script[n + 1]
         /\ n = Len(Script) => Filed(n) = Story
<1>1. Script \in Seq(Seq(Events)) /\ Len(Script) \in Nat
  BY BroadcastAssumption
<1>2. Flattens(Chapters, Script, Len(Script))
  BY <1>1, FlattenExists DEF Chapters
<1>3. \A i \in 1 .. Len(Script) :
         Chapters[i] = IF i = 1 THEN Script[i] ELSE Chapters[i - 1] \o Script[i]
  BY <1>2 DEF Flattens
<1>4. ASSUME NEW i \in 1 .. Len(Script)
      PROVE  Script[i] \in Seq(Events) /\ Filed(i) = Filed(i - 1) \o Script[i]
  <2>1. Script[i] \in Seq(Events)
    BY <1>1
  <2>2. Chapters[i] = IF i = 1 THEN Script[i] ELSE Chapters[i - 1] \o Script[i]
    BY <1>3
  <2>3. CASE i = 1
    <3>1. Filed(i) = Script[i] /\ Filed(i - 1) = <<>>
      BY <2>2, <2>3 DEF Filed
    <3>2. PICK piece \in Seq(Events) : piece = Script[i]
      BY <2>1
    <3>3. <<>> \o piece = piece
      OBVIOUS
    <3> QED
      BY <2>1, <3>1, <3>2, <3>3
  <2>4. CASE i # 1
    <3>1. i - 1 # 0 /\ i # 0
      BY <1>1, <2>4
    <3> QED
      BY <2>1, <2>2, <2>4, <3>1 DEF Filed
  <2> QED
    BY <2>3, <2>4
<1> DEFINE Bad == {i \in 0 .. Len(Script) : Filed(i) \notin Seq(Events)}
<1>5. Bad = {}
  <2> SUFFICES ASSUME Bad # {}
               PROVE  FALSE
    OBVIOUS
  <2>1. Bad \subseteq Nat
    BY <1>1
  <2>2. PICK m \in Bad : \A y \in Bad : m <= y
    BY <2>1, LeastNumber
  <2>3. m # 0
    <3>1. Filed(0) = <<>> /\ <<>> \in Seq(Events)
      BY DEF Filed
    <3> QED
      BY <3>1
  <2>4. m \in 1 .. Len(Script) /\ m - 1 \in 0 .. Len(Script) /\ ~(m <= m - 1)
    BY <1>1, <2>3
  <2>5. Filed(m - 1) \in Seq(Events)
    BY <2>2, <2>4
  <2>6. Filed(m) = Filed(m - 1) \o Script[m] /\ Script[m] \in Seq(Events)
    BY <1>4, <2>4
  <2> HIDE DEF Bad
  <2>7. Filed(m) \in Seq(Events)
    BY <2>5, <2>6
  <2> QED
    BY <2>7, <2>4 DEF Bad
<1>6. n < Len(Script) => Filed(n + 1) = Filed(n) \o Script[n + 1]
  <2> SUFFICES ASSUME n < Len(Script)
               PROVE  Filed(n + 1) = Filed(n) \o Script[n + 1]
    OBVIOUS
  <2>1. n + 1 \in 1 .. Len(Script) /\ (n + 1) - 1 = n
    BY <1>1
  <2> QED
    BY <1>4, <2>1
<1>7. Filed(Len(Script)) = Story
  <2>1. CASE Script = <<>>
    BY <2>1 DEF Filed, Story, FlattenSeq
  <2>2. CASE Script # <<>>
    <3>1. PICK f : Flattens(f, Script, Len(Script)) /\ FlattenSeq(Script) = f[Len(Script)]
      BY <1>1, <2>2, FlattenUnfolds
    <3> DEFINE Off == {i \in 1 .. Len(Script) : f[i] # Chapters[i]}
    <3>2. Off = {}
      <4> SUFFICES ASSUME Off # {}
                   PROVE  FALSE
        OBVIOUS
      <4>1. Off \subseteq Nat
        BY <1>1
      <4>2. PICK m \in Off : \A y \in Off : m <= y
        BY <4>1, LeastNumber
      <4>3. f[m] = IF m = 1 THEN Script[m] ELSE f[m - 1] \o Script[m]
        BY <3>1 DEF Flattens
      <4>4. Chapters[m] = IF m = 1 THEN Script[m] ELSE Chapters[m - 1] \o Script[m]
        BY <1>3
      <4>5. m # 1 => m - 1 \in 1 .. Len(Script) /\ ~(m <= m - 1)
        BY <1>1
      <4>6. m # 1 => f[m - 1] = Chapters[m - 1]
        BY <4>2, <4>5
      <4> QED
        BY <4>3, <4>4, <4>6
    <3>3. Len(Script) \in 1 .. Len(Script) /\ Len(Script) # 0
      BY <1>1, <2>2
    <3> QED
      BY <3>1, <3>2, <3>3 DEF Filed, Story
  <2> QED
    BY <2>1, <2>2
<1> QED
  BY <1>1, <1>5, <1>6, <1>7

LEMMA PrefixSteps ==
  ASSUME NEW s \in Seq(Events), NEW t, IsPrefix(s, t), NEW u, IsPrefix(t, u)
  PROVE  IsPrefix(s, u)
BY DEF IsPrefix

\* What has been committed is the beginning of what will be.
LEMMA FiledPrefix ==
  ASSUME NEW n \in 0 .. Len(Script)
  PROVE  IsPrefix(Filed(n), Story)
<1>1. Len(Script) \in Nat
  BY FiledFacts
<1> DEFINE T == {k \in Nat : Len(Script) - k \in 0 .. Len(Script) /\ ~IsPrefix(Filed(Len(Script) - k), Story)}
<1>2. T = {}
  <2> SUFFICES ASSUME T # {}
               PROVE  FALSE
    OBVIOUS
  <2>1. PICK k \in T : \A y \in T : k <= y
    BY LeastNumber
  <2>2. k # 0
    <3>1. Len(Script) - 0 = Len(Script) /\ Len(Script) \in 0 .. Len(Script)
      BY <1>1
    <3>2. Filed(Len(Script)) = Story
      BY <3>1, FiledFacts
    <3> QED
      BY <3>1, <3>2, PrefixItself
  <2>3. PICK m \in 0 .. Len(Script) : m = Len(Script) - k
    OBVIOUS
  <2>4. m < Len(Script) /\ m + 1 \in 0 .. Len(Script) /\ m + 1 = Len(Script) - (k - 1) /\ k - 1 \in Nat
        /\ ~(k <= k - 1) /\ m + 1 \in 1 .. Len(Script)
    BY <1>1, <2>2, <2>3
  <2>5. k - 1 \notin T
    BY <2>1, <2>4
  <2>6. IsPrefix(Filed(m + 1), Story)
    BY <2>4, <2>5
  <2>7. /\ Filed(m) \in Seq(Events) /\ Filed(m + 1) = Filed(m) \o Script[m + 1]
        /\ Script \in Seq(Seq(Events))
    BY <2>4, FiledFacts
  <2>8. Script[m + 1] \in Seq(Events)
    <3>1. \A i \in 1 .. Len(Script) : Script[i] \in Seq(Events)
      BY <2>7, SeqElements
    <3> QED
      BY <2>4, <3>1
  <2>9. IsPrefix(Filed(m), Filed(m + 1))
    BY <2>7, <2>8, GrowsFacts
  <2>10. IsPrefix(Filed(m), Story)
    BY <2>6, <2>7, <2>9, PrefixSteps
  <2> QED
    BY <2>3, <2>10
<1>3. Len(Script) - n \in Nat /\ Len(Script) - (Len(Script) - n) = n
  BY <1>1
<1> QED
  BY <1>2, <1>3

\* An agent reads with the eyes of its seat; and the event file is, between two steps of
\* the game, what the steps so far gave it, and always the beginning of the whole game:
\* this is where what the engine emits (ScriptAssumption) becomes true of the file.
StoryInv ==
    /\ \A a \in Agents : viewer[a] = SeatOf[a]
    /\ IsPrefix(log, Story)
    /\ task = "playing" => log = Filed(done)

LEMMA InitTells == Init => StoryInv
<1> SUFFICES ASSUME Init
             PROVE  StoryInv
  OBVIOUS
<1>1. log = <<>> /\ done = 0 /\ Filed(0) = <<>>
  BY DEF Init, Filed
<1>2. 0 \in 0 .. Len(Script)
  BY BroadcastAssumption
<1>3. IsPrefix(Filed(0), Story)
  BY <1>2, FiledPrefix
<1>4. \A a \in Agents : viewer[a] = SeatOf[a]
  BY DEF Init
<1> QED
  BY <1>1, <1>3, <1>4 DEF StoryInv

LEMMA StepTells ==
  ASSUME FeedInv, StoryInv, [Next]_vars
  PROVE  StoryInv'
<1>1. done \in 0 .. Len(Script) /\ log \in Seq(Events) /\ Len(Script) \in Nat
  BY BroadcastAssumption DEF FeedInv, FeedTypes
<1>2. viewer' = viewer
  BY StepFeeds DEF Feeds
<1>3. ASSUME UNCHANGED <<log, done, task>>
      PROVE  StoryInv'
  BY <1>2, <1>3 DEF StoryInv
<1>4. ASSUME Idle
      PROVE  /\ log = Filed(done) /\ Script[done + 1] \in Seq(Events)
             /\ done + 1 \in 0 .. Len(Script) /\ Filed(done + 1) = log \o Script[done + 1]
             /\ IsPrefix(log \o Script[done + 1], Story)
  <2>1. task = "playing" /\ done < Len(Script) /\ done + 1 \in 0 .. Len(Script)
    BY <1>1, <1>4 DEF Idle
  <2>2. log = Filed(done) /\ Script[done + 1] \in Seq(Events)
    BY <1>4, <2>1, ScriptFacts DEF StoryInv
  <2>3. Filed(done + 1) = log \o Script[done + 1]
    BY <1>1, <2>1, <2>2, FiledFacts
  <2>4. IsPrefix(Filed(done + 1), Story)
    BY <2>1, FiledPrefix
  <2> QED
    BY <2>1, <2>2, <2>3, <2>4
<1>5. CASE Commit
  <2>1. log' = log \o Script[done + 1] /\ done' = done + 1 /\ Idle
    BY <1>5 DEF Commit
  <2> QED
    BY <1>2, <1>4, <2>1 DEF StoryInv
<1>6. CASE CommitFails
  <2>1. PICK n \in 0 .. Len(Script[done + 1]) - 1 : log' = log \o SubSeq(Script[done + 1], 1, n)
    BY <1>6 DEF CommitFails
  <2>2. task' = "crashed" /\ Idle
    BY <1>6 DEF CommitFails
  <2>3. PICK batch \in Seq(Events) : batch = Script[done + 1]
    BY <1>4, <2>2
  <2>4. IsPrefix(log \o SubSeq(batch, 1, n), log \o batch)
    <3>1. n \in 0 .. Len(batch)
      BY <2>3
    <3>2. SubSeq(batch, 1, n) \in Seq(Events) /\ Len(SubSeq(batch, 1, n)) = n
          /\ \A i \in 1 .. n : SubSeq(batch, 1, n)[i] = batch[i]
      BY <3>1
    <3> QED
      BY <1>1, <3>1, <3>2 DEF IsPrefix
  <2>5. log \o SubSeq(batch, 1, n) \in Seq(Events)
    BY <1>1, <2>3
  <2>6. IsPrefix(log', Story)
    BY <1>4, <2>1, <2>2, <2>3, <2>4, <2>5, PrefixSteps
  <2> QED
    BY <1>2, <2>2, <2>6 DEF StoryInv
<1>7. CASE CrashNotice \/ VoiceBegin \/ VoicePart \/ VoiceEnd \/ VoiceFails
  BY <1>3, <1>7 DEF CrashNotice, VoiceBegin, VoicePart, VoiceEnd, VoiceFails, runnerVars
<1>8. CASE \E c \in Clients : Connect(c) \/ Send(c) \/ Breaks(c) \/ Leaves(c)
  BY <1>3, <1>8 DEF Connect, Send, Breaks, Leaves, runnerVars
<1>9. CASE UNCHANGED vars
  BY <1>3, <1>9 DEF vars
<1> QED
  BY <1>5, <1>6, <1>7, <1>8, <1>9 DEF Next

\* The event file is the beginning of the game's events, whoever fails and whenever.
THEOREM StoryHolds == Spec => [](FeedInv /\ StoryInv)
<1>1. Init => FeedInv /\ StoryInv
  BY InitFed, InitTells
<1>2. FeedInv /\ StoryInv /\ [Next]_vars => (FeedInv /\ StoryInv)'
  BY StepFeeds, StepTells DEF Feeds
<1> QED
  BY <1>1, <1>2, PTL DEF Spec

-----------------------------------------------------------------------------
(* What a seat remembers *)

Seen(a) == [k \in DOMAIN got[a] |-> log[got[a][k]]]
TellsCampaign(a, k) == Campaigning(SubSeq(Seen(a), 1, k))

LEMMA SeenFacts ==
  ASSUME FeedInv, StoryInv, NEW a \in Agents
  PROVE  /\ got[a] \in Seq(Nat) /\ Len(got[a]) \in Nat /\ DOMAIN got[a] = 1 .. Len(got[a])
         /\ log \in Seq(Events) /\ Len(log) \in Nat
         /\ \A k \in 1 .. Len(got[a]) :
               /\ got[a][k] \in 1 .. Len(log) /\ log[got[a][k]] \in Events
               /\ Visible(log[got[a][k]], SeatOf[a])
         /\ \A j, k \in 1 .. Len(got[a]) : j < k => got[a][j] < got[a][k]
         /\ \A i \in 1 .. Len(log), k \in 1 .. Len(got[a]) :
               i <= got[a][k] /\ Visible(log[i], SeatOf[a]) => \E m \in 1 .. k : got[a][m] = i
<1>1. /\ got[a] \in Seq(Nat) /\ log \in Seq(Events) /\ InOrder(log, viewer[a], got[a])
      /\ viewer[a] = SeatOf[a]
  BY DEF FeedInv, FeedTypes, Readers, Fed, StoryInv
<1>2. PICK read \in Seq(Nat) : read = got[a]
  BY <1>1
<1>3. Range(read) = {read[k] : k \in 1 .. Len(read)} /\ Len(read) \in Nat /\ DOMAIN read = 1 .. Len(read)
  BY RangeSeq
<1>4. \A k \in 1 .. Len(read) : read[k] \in 1 .. Len(log) /\ Visible(log[read[k]], SeatOf[a])
  BY <1>1, <1>2, <1>3 DEF InOrder
<1>5. \A j, k \in 1 .. Len(read) : j < k => read[j] < read[k]
  BY <1>1, <1>2 DEF InOrder, Ascending
<1>6. ASSUME NEW i \in 1 .. Len(log), NEW k \in 1 .. Len(read), i <= read[k], Visible(log[i], SeatOf[a])
      PROVE  \E m \in 1 .. k : read[m] = i
  <2>1. i \in Range(read)
    <3>1. CASE i = read[k]
      BY <1>3, <3>1
    <3>2. CASE i # read[k]
      <4>1. i < read[k] /\ read[k] \in Range(read)
        BY <1>3, <1>4, <1>6, <3>2
      <4> QED
        BY <1>1, <1>2, <1>6, <4>1 DEF InOrder
    <3> QED
      BY <3>1, <3>2
  <2>2. PICK m \in 1 .. Len(read) : read[m] = i
    BY <1>3, <2>1
  <2>3. ~(k < m)
    BY <1>4, <1>5, <1>6, <2>2
  <2> QED
    BY <1>3, <2>2, <2>3
<1>7. \A k \in 1 .. Len(read) : log[read[k]] \in Events
  BY <1>1, <1>4
<1>8. /\ read \in Seq(Nat) /\ Len(read) \in Nat /\ DOMAIN read = 1 .. Len(read)
      /\ log \in Seq(Events) /\ Len(log) \in Nat
  BY <1>1, <1>3
<1>9. \A k \in 1 .. Len(read) :
         /\ read[k] \in 1 .. Len(log) /\ log[read[k]] \in Events
         /\ Visible(log[read[k]], SeatOf[a])
  BY <1>4, <1>7
<1>10. \A i \in 1 .. Len(log), k \in 1 .. Len(read) :
          i <= read[k] /\ Visible(log[i], SeatOf[a]) => \E m \in 1 .. k : read[m] = i
  BY <1>6
<1> QED
  BY <1>2, <1>5, <1>8, <1>9, <1>10

LEMMA ScoreFacts ==
  ASSUME NEW e, NEW seat, NEW campaigning \in BOOLEAN
  PROVE  /\ Score(e, seat, campaigning) \in 0 .. 5
         /\ Score(e, seat, campaigning) = 5 => e.type \in {"SEER_CHECKED", "ROLES_ASSIGNED"}
         /\ e.type = "SEER_CHECKED" /\ e.seat = seat => Score(e, seat, campaigning) = 5
         /\ e.type = "PLAYER_SPOKE" /\ e.note = None =>
               Score(e, seat, campaigning) = IF campaigning THEN 2 ELSE 1
<1> DEFINE score == Score(e, seat, campaigning)
           seen == e.type = "SEER_CHECKED" /\ e.seat = seat
<1>1. None # "claims a role"
  BY FrameAssumption
<1>2. seen \/ e.type = "ROLES_ASSIGNED" => score = 5
  BY DEF Score, SCORE_2, SCORE_3, SCORE_4
<1>3. ASSUME ~seen, e.type # "ROLES_ASSIGNED"
      PROVE  /\ e.type \in SCORE_4 => score = 4
             /\ e.type \in SCORE_3 => score = 3
             /\ e.type = "PLAYER_SPOKE" => score = IF e.note = "claims a role" THEN 3
                                                 ELSE IF campaigning THEN 2 ELSE 1
             /\ e.type = "SHERIFF_CANDIDACY" => score \in {0, 1}
             /\ e.type \in SCORE_2 => score = 2
             /\ e.type \notin SCORE_4 \cup SCORE_3 \cup SCORE_2 \cup {"PLAYER_SPOKE", "SHERIFF_CANDIDACY"}
                   => score = 1
  <2>1. e.type \in SCORE_4 => score = 4
    BY <1>3 DEF Score, SCORE_3, SCORE_4
  <2>2. e.type \in SCORE_3 => score = 3
    BY <1>3 DEF Score, SCORE_3, SCORE_4
  <2>3. e.type = "PLAYER_SPOKE" => score = IF e.note = "claims a role" THEN 3
                                         ELSE IF campaigning THEN 2 ELSE 1
    BY <1>3 DEF Score, SCORE_3, SCORE_4
  <2>4. e.type = "SHERIFF_CANDIDACY" => score \in {0, 1}
    BY <1>3 DEF Score, SCORE_3, SCORE_4
  <2>5. e.type \in SCORE_2 => score = 2
    BY <1>3 DEF Score, SCORE_2, SCORE_3, SCORE_4
  <2>6. e.type \notin SCORE_4 \cup SCORE_3 \cup SCORE_2 \cup {"PLAYER_SPOKE", "SHERIFF_CANDIDACY"} => score = 1
    BY <1>3 DEF Score
  <2> QED
    BY <2>1, <2>2, <2>3, <2>4, <2>5, <2>6
<1> HIDE DEF score
<1>4. score \in 0 .. 5 /\ (score = 5 => seen \/ e.type = "ROLES_ASSIGNED")
  <2>1. CASE seen \/ e.type = "ROLES_ASSIGNED"
    BY <1>2, <2>1
  <2>2. CASE ~seen /\ e.type # "ROLES_ASSIGNED"
    <3>1. score \in {0, 1, 2, 3, 4}
      <4>1. e.type = "PLAYER_SPOKE" => score \in {1, 2, 3}
        BY <1>3, <2>2
      <4> QED
        BY <1>3, <2>2, <4>1
    <3> QED
      BY <3>1, <2>2
  <2> QED
    BY <2>1, <2>2
<1>5. e.type = "PLAYER_SPOKE" /\ e.note = None => score = IF campaigning THEN 2 ELSE 1
  BY <1>1, <1>3
<1> QED
  BY <1>2, <1>4, <1>5 DEF score

\* A speech is remembered as one of the campaign exactly if it was made in the election.
LEMMA CampaignSeen ==
  ASSUME FeedInv, StoryInv, NEW a \in Agents, NEW k \in 1 .. Len(got[a]),
         log[got[a][k]].type = "PLAYER_SPOKE"
  PROVE  TellsCampaign(a, k) <=> InElection(got[a][k])
<1> DEFINE i == got[a][k]
           seat == SeatOf[a]
           phases == {j \in 1 .. i : IsPhase(log[j])}
           p == Max(phases)
           stages == {j \in 1 .. i : j > p /\ log[j].type = "ELECTION_STAGE_CHANGED"}
           seen == SubSeq(Seen(a), 1, k)
           turns == {m \in DOMAIN seen : IsPhase(seen[m]) \/ seen[m].type = "ELECTION_STAGE_CHANGED"}
<1>1. /\ got[a] \in Seq(Nat) /\ Len(got[a]) \in Nat /\ DOMAIN got[a] = 1 .. Len(got[a])
      /\ log \in Seq(Events) /\ Len(log) \in Nat
      /\ \A m \in 1 .. Len(got[a]) : got[a][m] \in 1 .. Len(log) /\ log[got[a][m]] \in Events
      /\ \A j, m \in 1 .. Len(got[a]) : j < m => got[a][j] < got[a][m]
  BY SeenFacts
<1>2. i \in 1 .. Len(log) /\ i \in Nat /\ k \in Nat
  BY <1>1
<1>3. ASSUME NEW j \in 1 .. i, log[j].sees = "PUBLIC"
      PROVE  \E m \in 1 .. k : got[a][m] = j
  <2>1. j \in 1 .. Len(log) /\ j <= got[a][k] /\ Visible(log[j], seat)
    BY <1>2, <1>3 DEF Visible
  <2> QED
    BY <2>1, SeenFacts
<1>4. /\ phases # {} /\ log[p].sees = "PUBLIC"
      /\ IF log[p].to = "SHERIFF_ELECTION" THEN stages # {} /\ log[Max(stages)].to = "speech"
         ELSE stages = {}
  <2>1. IsPrefix(log, Story)
    BY DEF StoryInv
  <2>2. Story \in Seq(Events)
    <3>1. Len(Script) \in 0 .. Len(Script)
      BY BroadcastAssumption
    <3> QED
      BY <3>1, FiledFacts
  <2>3. /\ Len(log) <= Len(Story) /\ DOMAIN Story = 1 .. Len(Story)
        /\ \A j \in 1 .. Len(log) : Story[j] = log[j]
    BY <1>1, <2>1, <2>2 DEF IsPrefix
  <2>4. i \in DOMAIN Story /\ Story[i].type = "PLAYER_SPOKE" /\ \A j \in 1 .. i : Story[j] = log[j]
    BY <1>2, <2>2, <2>3
  <2> DEFINE phases2 == {j \in 1 .. i : IsPhase(Story[j])}
             stages2 == {j \in 1 .. i : j > Max(phases2) /\ Story[j].type = "ELECTION_STAGE_CHANGED"}
  <2>5. /\ phases2 # {} /\ Story[Max(phases2)].sees = "PUBLIC"
        /\ IF Story[Max(phases2)].to = "SHERIFF_ELECTION"
           THEN stages2 # {} /\ Story[Max(stages2)].to = "speech" ELSE stages2 = {}
    BY <2>4, ScriptAssumption DEF Story
  <2>6. phases2 = phases
    BY <2>4
  <2>7. stages2 = stages
    BY <2>4, <2>6
  <2>8. phases \subseteq 0 .. i /\ stages \subseteq 0 .. i
    BY <1>2
  <2> HIDE DEF phases2, stages2, phases
  <2>9. Max(phases) \in phases
    BY <1>2, <2>5, <2>6, <2>8, LargestNumber
  <2>10. Story[Max(phases)] = log[Max(phases)]
    BY <2>4, <2>9 DEF phases
  <2> HIDE DEF stages
  <2>11. stages # {} => Max(stages) \in stages
    BY <1>2, <2>8, LargestNumber
  <2>12. stages # {} => Story[Max(stages)] = log[Max(stages)]
    BY <2>4, <2>11 DEF stages
  <2> QED
    BY <2>5, <2>6, <2>7, <2>10, <2>12
<1>5. p \in 1 .. i /\ IsPhase(log[p]) /\ \A j \in phases : j <= p
  <2>1. phases \subseteq 0 .. i
    BY <1>2
  <2>2. p \in phases /\ \A j \in phases : j <= p
    BY <1>2, <1>4, <2>1, LargestNumber
  <2> QED
    BY <2>2
<1>6. /\ DOMAIN seen = 1 .. k /\ \A m \in 1 .. k : seen[m] = log[got[a][m]]
  <2>1. Seen(a) \in Seq(Events) /\ Len(Seen(a)) = Len(got[a])
        /\ \A m \in 1 .. Len(got[a]) : Seen(a)[m] = log[got[a][m]]
    BY <1>1 DEF Seen
  <2>2. k \in 1 .. Len(Seen(a))
    BY <2>1
  <2>3. PICK t : t = SubSeq(Seen(a), 1, k)
    OBVIOUS
  <2>4. DOMAIN t = 1 .. k /\ \A m \in 1 .. k : t[m] = Seen(a)[m] /\ m \in 1 .. Len(got[a])
    BY <1>1, <2>1, <2>2, <2>3
  <2> QED
    BY <2>1, <2>3, <2>4
<1>7. InElection(i) <=> log[p].to \in {"SHERIFF_ELECTION", "SHERIFF_PK"}
  BY <1>4 DEF InElection
<1>8. TellsCampaign(a, k) <=>
        turns # {} /\ seen[Max(turns)].to = IF IsPhase(seen[Max(turns)]) THEN "SHERIFF_PK" ELSE "speech"
  BY DEF TellsCampaign, Campaigning
<1> HIDE DEF seen, p, phases
<1>9. \A m \in 1 .. k : m \in turns <=> IsPhase(log[got[a][m]]) \/ log[got[a][m]].type = "ELECTION_STAGE_CHANGED"
  BY <1>6
<1>10. turns \subseteq 0 .. k
  BY <1>2, <1>6
<1>11. ASSUME NEW m \in 1 .. k
       PROVE  got[a][m] \in 1 .. i /\ got[a][m] \in Nat
  <2>1. m \in 1 .. Len(got[a]) /\ m \in Nat /\ (m < k \/ m = k)
    BY <1>1, <1>2
  <2>2. got[a][m] \in 1 .. Len(log) /\ got[a][m] \in Nat
    BY <1>1, <2>1
  <2>3. got[a][m] < got[a][k] \/ got[a][m] = got[a][k]
    BY <1>1, <2>1
  <2> QED
    BY <1>2, <2>2, <2>3
<1> HIDE DEF turns
<1>13. ASSUME NEW t \in 1 .. k, t \in turns, \A m \in turns : got[a][m] <= got[a][t]
       PROVE  Max(turns) = t
  <2>1. Max(turns) \in turns /\ \A x \in turns : x <= Max(turns)
    BY <1>2, <1>10, <1>13, LargestNumber
  <2>2. Max(turns) \in 1 .. k /\ t <= Max(turns)
    BY <2>1, <1>6, <1>13 DEF turns
  <2>3. got[a][Max(turns)] <= got[a][t]
    BY <1>13, <2>1
  <2>4. ~(t < Max(turns))
    <3>1. \A j, m \in 1 .. k : j < m => got[a][j] < got[a][m]
      <4>1. \A j \in 1 .. k : j \in 1 .. Len(got[a])
        BY <1>1
      <4> QED
        BY <1>1, <4>1
    <3>2. t < Max(turns) => got[a][t] < got[a][Max(turns)]
      BY <1>13, <2>2, <3>1
    <3>3. got[a][Max(turns)] \in Nat /\ got[a][t] \in Nat
      BY <1>11, <1>13, <2>2
    <3>4. ~(got[a][t] < got[a][Max(turns)])
      BY ONLY <2>3, <3>3
    <3> QED
      BY <3>2, <3>4
  <2> QED
    BY <2>2, <2>4
<1>14. \A m \in turns : got[a][m] \in phases \/ (got[a][m] \in 1 .. i /\ log[got[a][m]].type = "ELECTION_STAGE_CHANGED")
  BY <1>6, <1>11 DEF turns, phases
<1>15. CASE log[p].to = "SHERIFF_ELECTION"
  <2>1. stages # {} /\ log[Max(stages)].to = "speech" /\ stages \subseteq 0 .. i
    BY <1>2, <1>4, <1>15
  <2> DEFINE s == Max(stages)
  <2>2. s \in stages /\ \A j \in stages : j <= s
    BY <1>2, <2>1, LargestNumber
  <2>3. s \in 1 .. i /\ s > p /\ log[s].type = "ELECTION_STAGE_CHANGED"
    BY <2>2
  <2> HIDE DEF s
  <2>4. log[s].sees = "PUBLIC" /\ ~IsPhase(log[s])
    <3>1. log[s] \in Events
      BY <1>1, <1>2, <2>3
    <3> QED
      BY <2>3, <3>1, ScriptAssumption DEF IsPhase
  <2>5. PICK t \in 1 .. k : got[a][t] = s
    BY <1>3, <2>3, <2>4
  <2>6. t \in turns
    BY <1>9, <2>3, <2>5
  <2>7. \A m \in turns : got[a][m] <= got[a][t]
    <3> SUFFICES ASSUME NEW m \in turns
                 PROVE  got[a][m] <= s
      BY <2>5
    <3>1. CASE got[a][m] \in phases
      <4>1. got[a][m] <= p /\ p < s /\ got[a][m] \in Nat /\ p \in Nat /\ s \in Nat
        BY <1>2, <1>5, <1>11, <2>3, <3>1, <1>6 DEF turns
      <4> QED
        BY <4>1
    <3>2. CASE got[a][m] \in 1 .. i /\ log[got[a][m]].type = "ELECTION_STAGE_CHANGED"
      <4>1. CASE got[a][m] > p
        BY <2>2, <3>2, <4>1 DEF stages, s
      <4>2. CASE ~(got[a][m] > p)
        BY <1>2, <1>5, <2>3, <3>2, <4>2
      <4> QED
        BY <4>1, <4>2
    <3> QED
      BY <1>14, <3>1, <3>2
  <2>8. Max(turns) = t
    BY <1>13, <2>6, <2>7
  <2>9. seen[Max(turns)] = log[s]
    BY <1>6, <2>5, <2>8
  <2> QED
    BY <1>7, <1>8, <1>15, <2>1, <2>4, <2>6, <2>9 DEF s
<1>16. CASE log[p].to # "SHERIFF_ELECTION"
  <2>1. stages = {} /\ log[p].sees = "PUBLIC"
    BY <1>4, <1>16
  <2>2. PICK t \in 1 .. k : got[a][t] = p
    BY <1>3, <1>5, <2>1
  <2>3. t \in turns
    BY <1>5, <1>9, <2>2
  <2>4. \A m \in turns : got[a][m] <= got[a][t]
    <3> SUFFICES ASSUME NEW m \in turns
                 PROVE  got[a][m] <= p
      BY <2>2
    <3>1. CASE got[a][m] \in phases
      BY <1>5, <3>1
    <3>2. CASE got[a][m] \in 1 .. i /\ log[got[a][m]].type = "ELECTION_STAGE_CHANGED"
      <4>1. ~(got[a][m] > p)
        BY <2>1, <3>2
      <4> QED
        BY <1>2, <1>5, <3>2, <4>1
    <3> QED
      BY <1>14, <3>1, <3>2
  <2>5. Max(turns) = t
    BY <1>13, <2>3, <2>4
  <2>6. seen[Max(turns)] = log[p]
    BY <1>6, <2>2, <2>5
  <2> QED
    BY <1>5, <1>7, <1>8, <1>16, <2>3, <2>6
<1> QED
  BY <1>15, <1>16

LEMMA MemoryFacts ==
  ASSUME FeedInv, StoryInv, NEW a \in Agents
  PROVE  /\ Len(Memory(a)) = Len(got[a]) /\ Len(got[a]) \in Nat /\ DOMAIN Memory(a) = 1 .. Len(got[a])
         /\ \A k \in 1 .. Len(got[a]) :
               Memory(a)[k].score = Score(log[got[a][k]], SeatOf[a], TellsCampaign(a, k))
         /\ \A k \in 1 .. Len(got[a]) : Memory(a)[k].score \in 0 .. 5
<1>1. Len(got[a]) \in Nat /\ DOMAIN got[a] = 1 .. Len(got[a])
  BY SeenFacts
<1>2. PICK n \in Nat : n = Len(got[a])
  BY <1>1
<1>3. Seen(a) = [k \in 1 .. n |-> log[got[a][k]]]
  BY <1>1, <1>2 DEF Seen
<1>4. Memory(a) = [i \in 1 .. n |-> [round |-> RoundAt(Seen(a), i),
                                     score |-> Score(Seen(a)[i], SeatOf[a], TellsCampaign(a, i))]]
  BY <1>1, <1>2 DEF Memory, Entries, Seen, TellsCampaign
<1>5. Len(Memory(a)) = n /\ DOMAIN Memory(a) = 1 .. n
  BY <1>4
<1>6. \A k \in 1 .. n : Memory(a)[k].score = Score(log[got[a][k]], SeatOf[a], TellsCampaign(a, k))
  BY <1>3, <1>4
<1>7. \A k \in 1 .. n : Memory(a)[k].score \in 0 .. 5
  <2> SUFFICES ASSUME NEW k \in 1 .. n
               PROVE  Memory(a)[k].score \in 0 .. 5
    OBVIOUS
  <2>1. TellsCampaign(a, k) \in BOOLEAN
    BY DEF TellsCampaign, Campaigning
  <2>2. Score(log[got[a][k]], SeatOf[a], TellsCampaign(a, k)) \in 0 .. 5
    BY <2>1, ScoreFacts
  <2> QED
    BY <1>6, <2>2
<1> QED
  BY <1>1, <1>2, <1>5, <1>6, <1>7

\* An agent's own checks score highest: while they are at most TopN, none is left out.
LEMMA ChecksTold ==
  ASSUME FeedInv, StoryInv, NEW a \in Agents,
         NEW checks, checks = {k \in DOMAIN Memory(a) : log[got[a][k]].type = "SEER_CHECKED"},
         Cardinality(checks) <= TopN, NEW k \in checks
  PROVE  k \in Range(Context(Memory(a)))
<1> DEFINE entries == Memory(a)
           told == Range(Context(entries))
<1>1. /\ Len(entries) = Len(got[a]) /\ Len(entries) \in Nat /\ DOMAIN entries = 1 .. Len(entries)
      /\ \A i \in 1 .. Len(entries) :
            /\ entries[i].score = Score(log[got[a][i]], SeatOf[a], TellsCampaign(a, i))
            /\ entries[i].score \in 0 .. 5 /\ entries[i].score \in Nat
  BY MemoryFacts
<1>2. told = Picked(entries) \cup (1 .. Len(entries) \ Older(entries))
  BY <1>1, ContextFacts
<1>3. \A i \in 1 .. Len(entries) : TellsCampaign(a, i) \in BOOLEAN
  BY DEF TellsCampaign, Campaigning
<1>4. \A i \in 1 .. Len(entries) : /\ log[got[a][i]] \in Events
                                   /\ Visible(log[got[a][i]], SeatOf[a])
  BY <1>1, SeenFacts
<1>5. SeatOf[a] # "GM"
  BY BroadcastAssumption
<1>6. ASSUME NEW i \in checks
      PROVE  i \in 1 .. Len(entries) /\ entries[i].score = 5
  <2>1. i \in 1 .. Len(entries) /\ log[got[a][i]].type = "SEER_CHECKED"
    BY <1>1
  <2>2. log[got[a][i]].sees = "ROLE_SELF"
    BY <1>4, <2>1, ScriptAssumption
  <2>3. log[got[a][i]].seat = SeatOf[a]
    BY <1>4, <1>5, <2>1, <2>2 DEF Visible
  <2>4. Score(log[got[a][i]], SeatOf[a], TellsCampaign(a, i)) = 5
    BY <1>3, <2>1, <2>3, ScoreFacts
  <2> QED
    BY <1>1, <2>1, <2>4
<1>7. ASSUME NEW i \in 1 .. Len(entries), entries[i].score = 5
      PROVE  i \in checks
  <2>1. log[got[a][i]].type \in {"SEER_CHECKED", "ROLES_ASSIGNED"}
    BY <1>1, <1>3, <1>7, ScoreFacts
  <2>2. log[got[a][i]].type # "ROLES_ASSIGNED"
    <3>1. log[got[a][i]].type = "ROLES_ASSIGNED" => log[got[a][i]].sees = "GM_ONLY"
      BY <1>4, ScriptAssumption
    <3> QED
      BY <3>1, <1>4, <1>5 DEF Visible
  <2> QED
    BY <1>1, <2>1, <2>2
<1>8. SUFFICES ASSUME k \in Older(entries)
               PROVE  k \in Picked(entries)
  BY <1>2, <1>6
<1>9. Before(entries, k) \subseteq checks \ {k}
  <2> SUFFICES ASSUME NEW j \in Older(entries), TellsMore(entries, j, k)
               PROVE  j \in checks /\ j # k
    BY DEF Before
  <2>1. j \in 1 .. Len(entries) /\ k \in 1 .. Len(entries) /\ entries[k].score = 5
    BY <1>1, <1>6, OlderFacts
  <2>2. entries[j].score \in 0 .. 5
    BY <1>1, <2>1
  <2>3. entries[j].score = 5 /\ j < k
    BY <2>1, <2>2 DEF TellsMore
  <2> QED
    BY <1>7, <2>1, <2>3
<1>10. IsFiniteSet(checks)
  <2>1. checks \subseteq 1 .. Len(entries)
    BY <1>6
  <2>2. IsFiniteSet(1 .. Len(entries))
    <3>1. 1 \in Int /\ Len(entries) \in Int
      BY <1>1
    <3> QED
      BY <3>1, FS_Interval
  <2> QED
    BY <2>1, <2>2, FS_Subset
<1>11. /\ IsFiniteSet(checks \ {k}) /\ Cardinality(checks \ {k}) = Cardinality(checks) - 1
       /\ Cardinality(checks) \in Nat
  BY <1>10, FS_RemoveElement, FS_CardinalityType
<1>12. /\ Cardinality(Before(entries, k)) <= Cardinality(checks \ {k})
       /\ Cardinality(Before(entries, k)) \in Nat
  <2>1. Before(entries, k) \in SUBSET (checks \ {k})
    BY <1>9
  <2>2. IsFiniteSet(Before(entries, k)) /\ Cardinality(Before(entries, k)) <= Cardinality(checks \ {k})
    BY <1>11, <2>1, FS_Subset
  <2> QED
    BY <2>2, FS_CardinalityType
<1>13. Cardinality(Before(entries, k)) < TopN
  <2>1. TopN \in Nat
    BY AgentMemoryAssumption
  <2> QED
    BY <1>11, <1>12, <2>1
<1> QED
  BY <1>8, <1>13 DEF Picked

LEMMA RecallHolds ==
  ASSUME FeedInv, StoryInv
  PROVE  RecallTrue
<1> SUFFICES ASSUME NEW a \in Agents
             PROVE  LET entries == Memory(a)
                        context == Context(entries)
                        told == Range(context)
                        Event(k) == log[got[a][k]]
                        checks == {k \in DOMAIN entries : Event(k).type = "SEER_CHECKED"}
                    IN  /\ \A m, n \in DOMAIN context : m < n => context[m] < context[n]
                        /\ Len(context) = Min({Len(entries), FreshnessK + TopN})
                        /\ \A k \in DOMAIN entries \ told :
                              /\ k + FreshnessK <= Len(entries)
                              /\ \A j \in told : j < k => entries[j].score >= entries[k].score
                        /\ Cardinality(checks) <= TopN => checks \subseteq told
                        /\ \A k \in DOMAIN entries :
                              Event(k).type = "PLAYER_SPOKE" /\ Event(k).note = None =>
                                entries[k].score = IF InElection(got[a][k]) THEN 2 ELSE 1
  BY DEF RecallTrue
<1> DEFINE entries == Memory(a)
           context == Context(entries)
           told == Range(context)
           checks == {k \in DOMAIN entries : log[got[a][k]].type = "SEER_CHECKED"}
<1>1. /\ Len(entries) = Len(got[a]) /\ Len(entries) \in Nat /\ DOMAIN entries = 1 .. Len(entries)
      /\ \A i \in 1 .. Len(entries) :
            /\ entries[i].score = Score(log[got[a][i]], SeatOf[a], TellsCampaign(a, i))
            /\ entries[i].score \in Nat
  BY MemoryFacts
<1>2. /\ context \in Seq(Nat) /\ Ascending(context)
      /\ told = Picked(entries) \cup (1 .. Len(entries) \ Older(entries))
      /\ Len(context) = Min({Len(entries), FreshnessK + TopN})
  BY <1>1, ContextFacts
<1>3. FreshnessK \in Nat /\ TopN \in Nat
  BY AgentMemoryAssumption
<1>4. \A m, n \in DOMAIN context : m < n => context[m] < context[n]
  <2>1. DOMAIN context = 1 .. Len(context)
    BY <1>2
  <2> QED
    BY <1>2, <2>1 DEF Ascending
<1>5. checks = {k \in DOMAIN Memory(a) : log[got[a][k]].type = "SEER_CHECKED"}
  OBVIOUS
<1> HIDE DEF checks
<1>6. Cardinality(checks) <= TopN => checks \subseteq told
  BY <1>5, ChecksTold
<1>7. ASSUME NEW k \in DOMAIN entries, log[got[a][k]].type = "PLAYER_SPOKE", log[got[a][k]].note = None
      PROVE  entries[k].score = IF InElection(got[a][k]) THEN 2 ELSE 1
  <2>1. k \in 1 .. Len(got[a]) /\ entries[k].score = Score(log[got[a][k]], SeatOf[a], TellsCampaign(a, k))
    BY <1>1
  <2>2. TellsCampaign(a, k) <=> InElection(got[a][k])
    BY <1>7, <2>1, CampaignSeen
  <2>3. TellsCampaign(a, k) \in BOOLEAN
    BY DEF TellsCampaign, Campaigning
  <2>4. Score(log[got[a][k]], SeatOf[a], TellsCampaign(a, k)) = IF TellsCampaign(a, k) THEN 2 ELSE 1
    BY <1>7, <2>3, ScoreFacts
  <2> QED
    BY <2>1, <2>2, <2>4
<1> HIDE DEF entries, context
<1>8. ASSUME NEW k \in DOMAIN entries \ told
      PROVE  /\ k + FreshnessK <= Len(entries)
             /\ \A j \in told : j < k => entries[j].score >= entries[k].score
  <2>1. k \in 1 .. Len(entries) /\ k \in Older(entries) /\ k \notin Picked(entries)
    BY <1>1, <1>2
  <2>2. k + FreshnessK <= Len(entries)
    BY <1>1, <1>3, <2>1 DEF Older
  <2>3. ASSUME NEW j \in told, j < k
        PROVE  entries[j].score >= entries[k].score
    <3>1. j \in 1 .. Len(entries)
      BY <1>1, <1>2, OlderFacts DEF Picked
    <3>2. j \in Older(entries)
      BY <1>1, <1>3, <2>1, <2>3, <3>1 DEF Older
    <3>3. j \in Picked(entries)
      BY <1>2, <3>2
    <3>4. SUFFICES ASSUME entries[j].score < entries[k].score
                   PROVE  FALSE
      BY <1>1, <2>1, <3>1
    <3>5. Before(entries, k) \subseteq Before(entries, j)
      <4> SUFFICES ASSUME NEW i \in Older(entries), TellsMore(entries, i, k)
                   PROVE  TellsMore(entries, i, j)
        BY DEF Before
      <4>1. i \in 1 .. Len(entries)
        BY <1>1, OlderFacts
      <4> QED
        BY <1>1, <2>1, <3>1, <3>4, <4>1 DEF TellsMore
    <3>6. IsFiniteSet(Before(entries, j))
      BY <1>1, <3>2, PickedCount
    <3>7. /\ Cardinality(Before(entries, k)) <= Cardinality(Before(entries, j))
          /\ Cardinality(Before(entries, k)) \in Nat /\ Cardinality(Before(entries, j)) \in Nat
      <4>1. Before(entries, k) \in SUBSET Before(entries, j)
        BY <3>5
      <4>2. IsFiniteSet(Before(entries, k)) /\ Cardinality(Before(entries, k)) <= Cardinality(Before(entries, j))
        BY <3>6, <4>1, FS_Subset
      <4> QED
        BY <3>6, <4>2, FS_CardinalityType
    <3>8. Cardinality(Before(entries, j)) < TopN /\ ~(Cardinality(Before(entries, k)) < TopN)
      BY <2>1, <3>3 DEF Picked
    <3> QED
      BY <1>3, <3>7, <3>8
  <2> QED
    BY <2>2, <2>3
<1> QED
  BY <1>2, <1>4, <1>6, <1>7, <1>8 DEF entries, context, checks

\* What an LLM seat is told before it decides, for every script of events and every TopN
\* and FreshnessK: in order, nothing left out for an older entry that tells less, a
\* seer's checks kept, and a speech of the campaign marked as one although the memory
\* sees only some of the changes of phase (memory.py).
THEOREM RecallIsTrue == Spec => []RecallTrue
<1>1. FeedInv /\ StoryInv => RecallTrue
  BY RecallHolds
<1> QED
  BY StoryHolds, <1>1, PTL

-----------------------------------------------------------------------------
(* The phase that is shown *)

Over(file) == \E i \in 1 .. Len(file) : file[i].type = "GAME_OVER"
PhaseAfter(file, i) == \E j \in i + 1 .. Len(file) : IsPhase(file[j])

\* The phase and the round after the last event of a file.
NowOf(file) ==
    LET phases == {i \in 1 .. Len(file) : IsPhase(file[i])}
    IN  [to |-> IF phases = {} THEN "LOBBY" ELSE Public(file[Max(phases)].to),
         round |-> RoundAt(file, Len(file))]

\* What the page shows stands before the queue; each frame of it may tell a phase, or name
\* one by the event; the page shows one that nothing behind it takes back.
Says(f) == f.type = "phase_change"
Names(file, f) == f.type = "game_event" /\ IsPhase(file[f.seq])
Silent(q, k, n) == \A m \in k + 1 .. n : ~Says(q[m])
Tells(ok, q, k) == IF k = 0 THEN ok ELSE Says(q[k])
TellsOf(s, q, k) == IF k = 0 THEN s ELSE [to |-> q[k].to, round |-> q[k].round]

\* While the game goes on, the last that is told is the phase it is in.
Going(file, now, s, ok, q, l) ==
    /\ l # None => l = PhaseFrame(now.to, now.round)
    /\ \A k \in 0 .. Len(q) : Tells(ok, q, k) /\ Silent(q, k, Len(q)) => TellsOf(s, q, k) = now
    /\ \A k \in 1 .. Len(q) : Names(file, q[k]) /\ Silent(q, k, Len(q)) => file[q[k].seq].to = now.to

HasEnd(file, read) == \E i \in Range(read) : file[i].type = "GAME_OVER"

\* After its end, the last round that is told before it is the one it ended in.
Gone(file, now, s, ok, q, read) ==
    /\ \A n \in 1 .. Len(q) : \A k \in 0 .. n - 1 :
          /\ q[n].type = "game_event" /\ file[q[n].seq].type = "GAME_OVER"
          /\ Tells(ok, q, k) /\ Silent(q, k, n)
          => TellsOf(s, q, k).round = now.round
    /\ ok /\ HasEnd(file, read) => s = [to |-> "GAME_OVER", round |-> now.round]

LastRead(read) == IF read = <<>> THEN 0 ELSE Last(read)

\* Without a connection he knows where the game was when he last heard of a phase.
Waits(file, now, s, ok, read) ==
    /\ ~HasEnd(file, read)
    /\ ok /\ ~PhaseAfter(file, LastRead(read)) => IF Over(file) THEN s.round = now.round ELSE s = now

Watched(file, cn, read, s, ok) ==
    /\ cn.at = "open" => IF Over(file) THEN Gone(file, NowOf(file), s, ok, cn.out, read)
                         ELSE Going(file, NowOf(file), s, ok, cn.out, cn.last)
    /\ cn.at \in {"away", "broken"} => Waits(file, NowOf(file), s, ok, read)

\* What the files of a game have in common (engine.py).
EndsOnce(file) == \A i \in 1 .. Len(file) : file[i].type = "GAME_OVER" => i = Len(file)
RoundsTold(file) == \A i \in 1 .. Len(file) : file[i].type = "ROUND_STARTED" => PhaseAfter(file, i)

\* A phase and its round.
Stage(now) == now = [to |-> now.to, round |-> now.round]

PhaseInv ==
    /\ shown = [c \in Clients |-> shown[c]]
    /\ \A c \in Clients : Stage(shown[c])
    /\ task = "playing" =>
          /\ RoundsTold(log) /\ EndsOnce(log) /\ (Over(log) => done = Len(Script))
          /\ \A c \in Clients : viewer[c] # "GM" => Watched(log, conn[c], got[c], shown[c], c \notin lost)

LEMMA RoundStays ==
  ASSUME NEW file \in Seq(Events), NEW i \in 0 .. Len(file),
         \A j \in i + 1 .. Len(file) : file[j].type # "ROUND_STARTED"
  PROVE  RoundAt(file, i) = RoundAt(file, Len(file))
<1> DEFINE S(n) == {j \in 1 .. n : file[j].type = "ROUND_STARTED"}
<1>1. S(i) = S(Len(file))
  <2>1. Len(file) \in Nat /\ i \in Nat
    OBVIOUS
  <2>2. \A j \in 1 .. Len(file) : j \in 1 .. i \/ j \in i + 1 .. Len(file)
    BY <2>1
  <2> QED
    BY <2>1, <2>2
<1>2. \A n : RoundAt(file, n) = IF S(n) = {} THEN 0 ELSE file[Max(S(n))].round
  BY DEF RoundAt
<1> QED
  BY <1>1, <1>2

LEMMA RoundPrefix ==
  ASSUME NEW file \in Seq(Events), NEW batch \in Seq(Events)
  PROVE  RoundAt(file \o batch, Len(file)) = RoundAt(file, Len(file))
<1> DEFINE S(f) == {j \in 1 .. Len(file) : f[j].type = "ROUND_STARTED"}
<1>1. Len(file) \in Nat /\ \A j \in 1 .. Len(file) : (file \o batch)[j] = file[j]
  OBVIOUS
<1>2. S(file \o batch) = S(file)
  BY <1>1
<1>3. \A f : RoundAt(f, Len(file)) = IF S(f) = {} THEN 0 ELSE f[Max(S(f))].round
  BY DEF RoundAt
<1>4. S(file) # {} => (file \o batch)[Max(S(file))] = file[Max(S(file))]
  <2>1. S(file) \subseteq 0 .. Len(file)
    BY <1>1
  <2>2. S(file) # {} => Max(S(file)) \in S(file)
    BY <1>1, <2>1, LargestNumber
  <2> QED
    BY <1>1, <2>2
<1> HIDE DEF S
<1> QED
  BY <1>2, <1>3, <1>4

LEMMA NowFacts ==
  ASSUME NEW file \in Seq(Events)
  PROVE  /\ NowOf(file) = [to |-> NowOf(file).to, round |-> RoundAt(file, Len(file))]
         /\ (\A i \in 1 .. Len(file) : ~IsPhase(file[i])) => NowOf(file).to = "LOBBY"
         /\ \A i \in 1 .. Len(file) :
               IsPhase(file[i]) /\ ~PhaseAfter(file, i) => NowOf(file).to = Public(file[i].to)
         /\ \A k \in 0 .. Len(file) : PhaseAfter(file, k) =>
               \E i \in k + 1 .. Len(file) : IsPhase(file[i]) /\ ~PhaseAfter(file, i)
<1> DEFINE phases == {i \in 1 .. Len(file) : IsPhase(file[i])}
<1>1. Len(file) \in Nat /\ phases \subseteq 0 .. Len(file)
  OBVIOUS
<1>2. phases # {} => Max(phases) \in phases /\ \A x \in phases : x <= Max(phases)
  BY <1>1, LargestNumber
<1>3. NowOf(file) = [to |-> IF phases = {} THEN "LOBBY" ELSE Public(file[Max(phases)].to),
                     round |-> RoundAt(file, Len(file))]
  BY DEF NowOf
<1>4. NowOf(file).to = IF phases = {} THEN "LOBBY" ELSE Public(file[Max(phases)].to)
  BY <1>3
<1>5. ASSUME NEW i \in 1 .. Len(file), IsPhase(file[i]), ~PhaseAfter(file, i)
      PROVE  NowOf(file).to = Public(file[i].to)
  <2>1. i \in phases
    BY <1>5
  <2>2. Max(phases) \in phases /\ i <= Max(phases)
    BY <1>2, <2>1
  <2>3. ~(i < Max(phases))
    <3>1. Max(phases) \in 1 .. Len(file) /\ IsPhase(file[Max(phases)])
      BY <2>2
    <3> HIDE DEF phases
    <3> QED
      BY <1>1, <1>5, <3>1 DEF PhaseAfter
  <2>4. Max(phases) = i
    BY <1>1, <2>2, <2>3
  <2> QED
    BY <1>4, <2>1, <2>4
<1>6. ASSUME NEW k \in 0 .. Len(file), PhaseAfter(file, k)
      PROVE  \E i \in k + 1 .. Len(file) : IsPhase(file[i]) /\ ~PhaseAfter(file, i)
  <2>1. PICK j \in k + 1 .. Len(file) : IsPhase(file[j])
    BY <1>6 DEF PhaseAfter
  <2>2. j \in phases
    BY <1>1, <2>1
  <2>3. PICK m \in phases : m = Max(phases) /\ \A x \in phases : x <= m
    BY <1>2, <2>2
  <2>4. m \in k + 1 .. Len(file) /\ IsPhase(file[m])
    BY <1>1, <2>1, <2>2, <2>3
  <2>5. ASSUME NEW x \in m + 1 .. Len(file), IsPhase(file[x])
        PROVE  FALSE
    <3>1. x \in phases /\ ~(x <= m)
      BY <1>1, <2>4, <2>5
    <3> QED
      BY <2>3, <3>1
  <2> QED
    BY <2>4, <2>5 DEF PhaseAfter
<1>7. (\A i \in 1 .. Len(file) : ~IsPhase(file[i])) => NowOf(file).to = "LOBBY"
  BY <1>4
<1>8. NowOf(file) = [to |-> NowOf(file).to, round |-> RoundAt(file, Len(file))]
  BY <1>3, <1>4
<1> QED
  BY <1>5, <1>6, <1>7, <1>8

\* What a batch without a phase in it leaves as it is.
LEMMA NowStays ==
  ASSUME NEW file \in Seq(Events), NEW batch \in Seq(Events),
         \A j \in 1 .. Len(batch) : ~IsPhase(batch[j]),
         \A j \in 1 .. Len(batch) : batch[j].type # "ROUND_STARTED"
  PROVE  NowOf(file \o batch) = NowOf(file)
<1>1. PICK file2 \in Seq(Events) : file2 = file \o batch
  <2>1. file \o batch \in Seq(Events)
    OBVIOUS
  <2> QED
    BY <2>1
<1>2. /\ Len(file) \in Nat /\ Len(file2) \in Nat /\ Len(file) <= Len(file2)
      /\ \A i \in 1 .. Len(file) : file2[i] = file[i]
      /\ \A i \in Len(file) + 1 .. Len(file2) : i - Len(file) \in 1 .. Len(batch) /\ file2[i] = batch[i - Len(file)]
  BY <1>1
<1>3. \A i \in Len(file) + 1 .. Len(file2) : ~IsPhase(file2[i]) /\ file2[i].type # "ROUND_STARTED"
  BY <1>2
<1>4. RoundAt(file2, Len(file2)) = RoundAt(file, Len(file))
  <2>1. Len(file) \in 0 .. Len(file2)
    BY <1>2
  <2>2. RoundAt(file2, Len(file)) = RoundAt(file2, Len(file2))
    BY <1>3, <2>1, RoundStays
  <2> QED
    BY <1>1, <2>2, RoundPrefix
<1>5. NowOf(file2).to = NowOf(file).to
  <2>1. CASE PhaseAfter(file, 0)
    <3>1. PICK i \in 1 .. Len(file) : IsPhase(file[i]) /\ ~PhaseAfter(file, i)
      BY <1>2, <2>1, NowFacts
    <3>2. i \in 1 .. Len(file2) /\ file2[i] = file[i]
      BY <1>2
    <3>3. ~PhaseAfter(file2, i)
      <4>1. \A j \in i + 1 .. Len(file2) : j \in i + 1 .. Len(file) \/ j \in Len(file) + 1 .. Len(file2)
        BY <1>2
      <4>2. \A j \in i + 1 .. Len(file) : file2[j] = file[j] /\ ~IsPhase(file[j])
        BY <1>2, <3>1 DEF PhaseAfter
      <4> QED
        BY <1>3, <4>1, <4>2 DEF PhaseAfter
    <3> QED
      BY <3>1, <3>2, <3>3, NowFacts
  <2>2. CASE ~PhaseAfter(file, 0)
    <3>1. \A i \in 1 .. Len(file) : ~IsPhase(file[i])
      BY <2>2 DEF PhaseAfter
    <3>2. \A i \in 1 .. Len(file2) : i \in 1 .. Len(file) \/ i \in Len(file) + 1 .. Len(file2)
      BY <1>2
    <3>3. \A i \in 1 .. Len(file2) : ~IsPhase(file2[i])
      BY <1>2, <1>3, <3>1, <3>2
    <3> QED
      BY <3>1, <3>3, NowFacts
  <2> QED
    BY <2>1, <2>2
<1>6. /\ NowOf(file2) = [to |-> NowOf(file2).to, round |-> RoundAt(file2, Len(file2))]
      /\ NowOf(file) = [to |-> NowOf(file).to, round |-> RoundAt(file, Len(file))]
  BY NowFacts
<1>7. NowOf(file2) = NowOf(file)
  BY <1>4, <1>5, <1>6
<1> QED
  BY <1>1, <1>7

\* Frame k of F is built of event ix[k]: it is the event itself or the phase that it tells.
Built(F, file, first, kinds, eyes, Rounds, ix) ==
    /\ \A k \in 1 .. Len(F) :
          /\ ix[k] \in first .. Len(file)
          /\ \/ "event" \in kinds /\ Visible(file[ix[k]], eyes) /\ F[k] = EventFrame(ix[k])
             \/ /\ "phase" \in kinds /\ IsPhase(file[ix[k]])
                /\ F[k] = PhaseFrame(Public(file[ix[k]].to), Rounds[ix[k]])
    /\ \A j, k \in 1 .. Len(F) : j < k =>
          \/ ix[j] < ix[k]
          \/ ix[j] = ix[k] /\ F[j] = EventFrame(ix[j]) /\ Says(F[k])
    /\ \A i \in first .. Len(file) : "phase" \in kinds /\ IsPhase(file[i]) =>
          \E k \in 1 .. Len(F) : ix[k] = i /\ F[k] = PhaseFrame(Public(file[i].to), Rounds[i])

LEMMA FramesBuilt ==
  ASSUME NEW file \in Seq(Events), NEW first \in 1 .. Len(file) + 1, NEW eyes, eyes # "GM",
         NEW kinds, NEW Rounds, \A i \in 1 .. Len(file) : Rounds[i] \in RoundNumbers
  PROVE  \E ix : Built(FramesOf(file, first, eyes, kinds, Rounds), file, first, kinds, eyes, Rounds, ix)
<1> DEFINE Ev(i) == "event" \in kinds /\ Visible(file[i], eyes)
           Ph(i) == "phase" \in kinds /\ IsPhase(file[i])
           PF(i) == PhaseFrame(Public(file[i].to), Rounds[i])
           Fr(i) == (IF Ev(i) THEN <<EventFrame(i)>> ELSE <<>>) \o IF Ph(i) THEN <<PF(i)>> ELSE <<>>
           n == Len(file) - first + 1
           p == [k \in 1 .. n |-> Fr(first + k - 1)]
           F == FlattenSeq(p)
<1>1. FramesOf(file, first, eyes, kinds, Rounds) = F
  BY DEF FramesOf
<1>2. Len(file) \in Nat /\ first \in Nat /\ n \in Nat
  OBVIOUS
<1>3. \A k \in 1 .. n : first + k - 1 \in first .. Len(file) /\ first + k - 1 \in 1 .. Len(file)
  BY <1>2
<1>4. ASSUME NEW i \in 1 .. Len(file)
      PROVE  /\ Fr(i) \in Seq(Frames) /\ Says(PF(i))
             /\ \A k \in 1 .. Len(Fr(i)) : (Ev(i) /\ Fr(i)[k] = EventFrame(i)) \/ (Ph(i) /\ Fr(i)[k] = PF(i))
             /\ \A j, k \in 1 .. Len(Fr(i)) : j < k => Fr(i)[j] = EventFrame(i) /\ Fr(i)[k] = PF(i)
             /\ Ph(i) => \E k \in 1 .. Len(Fr(i)) : Fr(i)[k] = PF(i)
  <2>1. i \in Nat /\ file[i] \in Events
    BY <1>2
  <2>2. EventFrame(i) \in Frames
    BY <2>1 DEF Frames, GameFrames, EventFrames
  <2>3. PF(i) \in Frames /\ Says(PF(i))
    BY <2>1 DEF Frames, GameFrames, PhaseFrames, PhaseFrame, Tos, Says
  <2> HIDE DEF PF, Ev, Ph
  <2>4. PICK x, y \in Frames : x = EventFrame(i) /\ y = PF(i)
    BY <2>2, <2>3
  <2>5. PICK u, v \in Seq(Frames) : /\ u = <<x>> /\ Len(u) = 1 /\ u[1] = x
                                     /\ v = <<y>> /\ Len(v) = 1 /\ v[1] = y
    <3>1. /\ <<x>> \in Seq(Frames) /\ Len(<<x>>) = 1 /\ <<x>>[1] = x
          /\ <<y>> \in Seq(Frames) /\ Len(<<y>>) = 1 /\ <<y>>[1] = y
      OBVIOUS
    <3> QED
      BY <3>1
  <2> DEFINE both == u \o v
  <2>10. /\ both \in Seq(Frames) /\ Len(both) = 2 /\ both[1] = x /\ both[2] = y
         /\ u \o <<>> = u /\ <<>> \o v = v
    BY <2>5
  <2>11. <<>> \o <<>> = <<>>
    OBVIOUS
  <2>12. Fr(i) = (IF Ev(i) THEN u ELSE <<>>) \o (IF Ph(i) THEN v ELSE <<>>)
    BY <2>4, <2>5
  <2> HIDE DEF Fr
  <2>13. /\ Ev(i) /\ Ph(i) => Fr(i) = both
         /\ Ev(i) /\ ~Ph(i) => Fr(i) = u
         /\ ~Ev(i) /\ Ph(i) => Fr(i) = v
         /\ ~Ev(i) /\ ~Ph(i) => Fr(i) = <<>>
    BY <2>10, <2>11, <2>12
  <2> HIDE DEF both
  <2>6. CASE Ev(i) /\ Ph(i)
    <3>1. Fr(i) \in Seq(Frames) /\ Len(Fr(i)) = 2 /\ Fr(i)[1] = x /\ Fr(i)[2] = y
      BY <2>6, <2>10, <2>13
    <3> QED
      BY <2>3, <2>4, <2>6, <3>1
  <2>7. CASE Ev(i) /\ ~Ph(i)
    <3>1. Fr(i) \in Seq(Frames) /\ Len(Fr(i)) = 1 /\ Fr(i)[1] = x
      BY <2>5, <2>7, <2>13
    <3> QED
      BY <2>3, <2>4, <2>7, <3>1
  <2>8. CASE ~Ev(i) /\ Ph(i)
    <3>1. Fr(i) \in Seq(Frames) /\ Len(Fr(i)) = 1 /\ Fr(i)[1] = y
      BY <2>5, <2>8, <2>13
    <3> QED
      BY <2>3, <2>4, <2>8, <3>1
  <2>9. CASE ~Ev(i) /\ ~Ph(i)
    <3>1. Fr(i) = <<>> /\ <<>> \in Seq(Frames) /\ Len(<<>>) = 0
      BY <2>9, <2>13
    <3> QED
      BY <2>3, <2>9, <3>1
  <2> QED
    BY <2>6, <2>7, <2>8, <2>9
<1> HIDE DEF Fr
<1>5. p \in Seq(Seq(Frames)) /\ Len(p) = n
  <2>1. \A k \in 1 .. n : p[k] \in Seq(Frames)
    BY <1>3, <1>4
  <2> QED
    BY <1>2, <2>1
<1>6. PICK a, b : Placed(F, p, Len(p), a, b)
  BY <1>5, FlattenPlaces
<1>7. F \in Seq(Frames)
  BY <1>5, FlattenPlaces
<1>8. \A k \in 1 .. n : p[k] = Fr(first + k - 1)
  OBVIOUS
<1> DEFINE ix == [k \in 1 .. Len(F) |-> first + a[k] - 1]
<1> HIDE DEF F, p, Ev, Ph, PF
<1>9. ASSUME NEW k \in 1 .. Len(F)
      PROVE  /\ a[k] \in 1 .. n /\ ix[k] = first + a[k] - 1
             /\ ix[k] \in first .. Len(file) /\ ix[k] \in 1 .. Len(file)
             /\ b[k] \in 1 .. Len(Fr(ix[k])) /\ F[k] = Fr(ix[k])[b[k]] /\ b[k] \in Nat
  <2>1. a[k] \in 1 .. n /\ b[k] \in 1 .. Len(p[a[k]]) /\ F[k] = p[a[k]][b[k]] /\ b[k] \in Nat
    BY <1>5, <1>6 DEF Placed
  <2>2. p[a[k]] = Fr(first + a[k] - 1) /\ ix[k] = first + a[k] - 1
    BY <1>8, <2>1
  <2> HIDE DEF ix
  <2> QED
    BY <1>3, <2>1, <2>2
<1> HIDE DEF ix
<1>10. ASSUME NEW k \in 1 .. Len(F)
       PROVE  (Ev(ix[k]) /\ F[k] = EventFrame(ix[k])) \/ (Ph(ix[k]) /\ F[k] = PF(ix[k]))
  BY <1>4, <1>9
<1>11. ASSUME NEW j \in 1 .. Len(F), NEW k \in 1 .. Len(F), j < k
       PROVE  ix[j] < ix[k] \/ (ix[j] = ix[k] /\ F[j] = EventFrame(ix[j]) /\ Says(F[k]))
  <2>1. a[j] < a[k] \/ (a[j] = a[k] /\ b[j] < b[k])
    BY <1>6, <1>11 DEF Placed
  <2>2. CASE a[j] < a[k]
    BY <1>2, <1>9, <2>2
  <2>3. CASE a[j] = a[k] /\ b[j] < b[k]
    <3>1. ix[j] = ix[k]
      BY <1>9, <2>3
    <3>2. /\ b[j] \in 1 .. Len(Fr(ix[k])) /\ b[k] \in 1 .. Len(Fr(ix[k])) /\ ix[k] \in 1 .. Len(file)
          /\ F[j] = Fr(ix[k])[b[j]] /\ F[k] = Fr(ix[k])[b[k]]
      BY <1>9, <3>1
    <3>3. F[j] = EventFrame(ix[k]) /\ F[k] = PF(ix[k]) /\ Says(PF(ix[k]))
      BY <1>4, <2>3, <3>2
    <3> QED
      BY <3>1, <3>3
  <2> QED
    BY <2>1, <2>2, <2>3
<1>12. ASSUME NEW i \in first .. Len(file), Ph(i)
       PROVE  \E k \in 1 .. Len(F) : ix[k] = i /\ F[k] = PF(i)
  <2>1. i \in 1 .. Len(file) /\ i - first + 1 \in 1 .. n /\ first + (i - first + 1) - 1 = i
    BY <1>2
  <2>2. PICK m \in 1 .. n : m = i - first + 1 /\ p[m] = Fr(i)
    BY <1>8, <2>1
  <2>3. PICK y \in 1 .. Len(Fr(i)) : Fr(i)[y] = PF(i)
    BY <1>4, <1>12, <2>1
  <2>4. PICK k \in 1 .. Len(F) : a[k] = m /\ b[k] = y
    <3>1. y \in 1 .. Len(p[m]) /\ m \in 1 .. Len(p)
      BY <1>5, <2>2, <2>3
    <3> QED
      BY <1>6, <3>1 DEF Placed
  <2>5. ix[k] = i
    BY <1>9, <2>1, <2>2, <2>4
  <2> QED
    BY <1>9, <2>3, <2>4, <2>5
<1>13. Built(F, file, first, kinds, eyes, Rounds, ix)
  <2>1. \A k \in 1 .. Len(F) :
          /\ ix[k] \in first .. Len(file)
          /\ \/ "event" \in kinds /\ Visible(file[ix[k]], eyes) /\ F[k] = EventFrame(ix[k])
             \/ /\ "phase" \in kinds /\ IsPhase(file[ix[k]])
                /\ F[k] = PhaseFrame(Public(file[ix[k]].to), Rounds[ix[k]])
    BY <1>9, <1>10 DEF Ev, Ph, PF
  <2>2. \A i \in first .. Len(file) : "phase" \in kinds /\ IsPhase(file[i]) =>
          \E k \in 1 .. Len(F) : ix[k] = i /\ F[k] = PhaseFrame(Public(file[i].to), Rounds[i])
    BY <1>12 DEF Ph, PF
  <2> QED
    BY <1>11, <2>1, <2>2 DEF Built
<1> QED
  BY <1>1, <1>13

\* What a sequence of frames tells of phases: the event of a phase is followed by its
\* phase frame, and the last of these is of the last phase.
Spells(F, file, first, now) ==
    /\ ~PhaseAfter(file, first - 1) => \A k \in 1 .. Len(F) : ~Says(F[k]) /\ ~Names(file, F[k])
    /\ PhaseAfter(file, first - 1) =>
          \E x \in 1 .. Len(F) : /\ Says(F[x]) /\ Silent(F, x, Len(F))
                                 /\ F[x] = PhaseFrame(now.to, now.round) /\ F[x] # None
    /\ \A k \in 1 .. Len(F) : Names(file, F[k]) =>
          \E x \in 1 .. Len(F) : k < x /\ Says(F[x]) /\ F[x].to = file[F[k].seq].to

LEMMA PhaseSeen ==
  ASSUME NEW e \in Events, NEW eyes, eyes # "GM", Visible(e, eyes)
  PROVE  /\ IsPhase(e) => Public(e.to) = e.to
         /\ e.type # "ROUND_STARTED"
BY ScriptAssumption DEF Visible

LEMMA PhaseFrameFacts ==
  ASSUME NEW e \in Events, NEW round \in RoundNumbers
  PROVE  LET f == PhaseFrame(Public(e.to), round)
         IN  Says(f) /\ f.to = Public(e.to) /\ f.round = round /\ f # None
BY FrameAssumption DEF PhaseFrame, Says, RoundNumbers

\* The history queued for who connects.
LEMMA HistorySpells ==
  ASSUME NEW file \in Seq(Events), NEW first \in 1 .. Len(file) + 1, NEW eyes, eyes # "GM",
         NEW Rounds, \A i \in 1 .. Len(file) : Rounds[i] = RoundAt(file, i),
         \A i \in 1 .. Len(file) : file[i].type = "ROUND_STARTED" => PhaseAfter(file, i)
  PROVE  LET F == FramesOf(file, first, eyes, {"event", "phase"}, Rounds)
         IN  /\ Spells(F, file, first, NowOf(file))
             /\ \A j, k \in 1 .. Len(F) :
                   j < k /\ F[j].type = "game_event" /\ Says(F[k]) => F[j].seq < Len(file) \/ IsPhase(file[Len(file)])
<1>1. PICK F : F = FramesOf(file, first, eyes, {"event", "phase"}, Rounds)
  OBVIOUS
<1>2. \A i \in 1 .. Len(file) : Rounds[i] \in RoundNumbers
  BY RoundFacts
<1>3. PICK ix : Built(F, file, first, {"event", "phase"}, eyes, Rounds, ix)
  BY <1>1, <1>2, FramesBuilt
<1>4. Len(file) \in Nat /\ first \in Nat /\ first - 1 \in 0 .. Len(file) /\ (first - 1) + 1 = first
  OBVIOUS
<1>5. F \in Seq(GameFrames) /\ Len(F) \in Nat
  <2>1. PICK kinds : kinds = {"event", "phase"}
    OBVIOUS
  <2>2. FramesOf(file, first, eyes, kinds, Rounds) \in Seq(GameFrames)
    BY <1>2, FramesOfFacts
  <2>3. F \in Seq(GameFrames)
    BY <1>1, <2>1, <2>2
  <2> QED
    BY <2>3
<1>6. ASSUME NEW k \in 1 .. Len(F)
      PROVE  /\ ix[k] \in first .. Len(file) /\ ix[k] \in 1 .. Len(file) /\ file[ix[k]] \in Events
             /\ \/ /\ Visible(file[ix[k]], eyes) /\ F[k] = EventFrame(ix[k]) /\ ~Says(F[k])
                   /\ F[k].type = "game_event" /\ F[k].seq = ix[k]
                \/ /\ IsPhase(file[ix[k]]) /\ F[k] = PhaseFrame(Public(file[ix[k]].to), Rounds[ix[k]])
                   /\ Says(F[k]) /\ F[k].to = Public(file[ix[k]].to) /\ F[k].type # "game_event" /\ F[k] # None
  <2>1. /\ ix[k] \in first .. Len(file)
        /\ \/ Visible(file[ix[k]], eyes) /\ F[k] = EventFrame(ix[k])
           \/ IsPhase(file[ix[k]]) /\ F[k] = PhaseFrame(Public(file[ix[k]].to), Rounds[ix[k]])
    BY <1>3 DEF Built
  <2>2. ix[k] \in 1 .. Len(file) /\ file[ix[k]] \in Events /\ Rounds[ix[k]] \in RoundNumbers
    BY <1>2, <1>4, <2>1
  <2>3. EventFrame(ix[k]).type = "game_event" /\ EventFrame(ix[k]).seq = ix[k] /\ ~Says(EventFrame(ix[k]))
    BY DEF EventFrame, Says
  <2>4. PICK f : f = PhaseFrame(Public(file[ix[k]].to), Rounds[ix[k]])
    OBVIOUS
  <2>5. Says(f) /\ f.to = Public(file[ix[k]].to) /\ f # None
    BY <2>2, <2>4, PhaseFrameFacts
  <2> QED
    BY <2>1, <2>2, <2>3, <2>4, <2>5 DEF Says
<1>7. \A j, k \in 1 .. Len(F) : j < k =>
          ix[j] < ix[k] \/ (ix[j] = ix[k] /\ F[j] = EventFrame(ix[j]) /\ Says(F[k]))
  BY <1>3 DEF Built
<1>8. \A i \in first .. Len(file) : IsPhase(file[i]) =>
          \E k \in 1 .. Len(F) : ix[k] = i /\ F[k] = PhaseFrame(Public(file[i].to), Rounds[i])
  BY <1>3 DEF Built
<1>9. ~PhaseAfter(file, first - 1) => \A k \in 1 .. Len(F) : ~Says(F[k]) /\ ~Names(file, F[k])
  BY <1>4, <1>6 DEF PhaseAfter, Names
<1>10. ASSUME PhaseAfter(file, first - 1)
       PROVE  \E x \in 1 .. Len(F) : /\ Says(F[x]) /\ Silent(F, x, Len(F))
                                     /\ F[x] = PhaseFrame(NowOf(file).to, NowOf(file).round) /\ F[x] # None
  <2>1. PICK i \in first .. Len(file) : IsPhase(file[i]) /\ ~PhaseAfter(file, i)
    BY <1>4, <1>10, NowFacts
  <2>2. i \in 1 .. Len(file) /\ i \in 0 .. Len(file)
    BY <1>4, <2>1
  <2>3. NowOf(file).to = Public(file[i].to) /\ NowOf(file).round = RoundAt(file, Len(file))
    BY <2>1, <2>2, NowFacts
  <2>4. RoundAt(file, i) = RoundAt(file, Len(file))
    <3>1. ASSUME NEW j \in i + 1 .. Len(file), file[j].type = "ROUND_STARTED"
          PROVE  FALSE
      <4>1. j \in 1 .. Len(file)
        BY <2>2, <3>1
      <4>2. PICK m \in j + 1 .. Len(file) : IsPhase(file[m])
        BY <3>1, <4>1 DEF PhaseAfter
      <4>3. m \in i + 1 .. Len(file)
        BY <1>4, <2>2, <4>1, <4>2
      <4> QED
        BY <2>1, <4>2, <4>3 DEF PhaseAfter
    <3> QED
      BY <2>2, <3>1, RoundStays
  <2>5. PICK x \in 1 .. Len(F) : ix[x] = i /\ F[x] = PhaseFrame(Public(file[i].to), Rounds[i])
    BY <1>8, <2>1
  <2>6. F[x] = PhaseFrame(NowOf(file).to, NowOf(file).round)
    BY <2>2, <2>3, <2>4, <2>5
  <2>7. Says(F[x]) /\ F[x] # None
    <3>1. file[i] \in Events /\ Rounds[i] \in RoundNumbers
      BY <1>2, <2>2
    <3> QED
      BY <2>5, <3>1, PhaseFrameFacts
  <2>8. ASSUME NEW m \in x + 1 .. Len(F), Says(F[m])
        PROVE  FALSE
    <3>1. m \in 1 .. Len(F) /\ x < m
      BY <1>5, <2>8
    <3>2. ix[x] < ix[m]
      <4>1. F[x] # EventFrame(ix[x])
        BY <2>7 DEF EventFrame, Says
      <4> QED
        BY <1>7, <3>1, <4>1
    <3>3. IsPhase(file[ix[m]]) /\ ix[m] \in i + 1 .. Len(file)
      BY <1>4, <1>6, <2>2, <2>5, <2>8, <3>1, <3>2
    <3> QED
      BY <2>1, <3>3 DEF PhaseAfter
  <2> QED
    BY <2>6, <2>7, <2>8 DEF Silent
<1>11. ASSUME NEW k \in 1 .. Len(F), Names(file, F[k])
       PROVE  \E x \in 1 .. Len(F) : k < x /\ Says(F[x]) /\ F[x].to = file[F[k].seq].to
  <2>1. /\ Visible(file[ix[k]], eyes) /\ F[k].seq = ix[k] /\ ~Says(F[k])
        /\ IsPhase(file[ix[k]]) /\ ix[k] \in first .. Len(file) /\ file[ix[k]] \in Events
    BY <1>6, <1>11 DEF Names
  <2>2. PICK x \in 1 .. Len(F) : /\ ix[x] = ix[k]
                                 /\ F[x] = PhaseFrame(Public(file[ix[k]].to), Rounds[ix[k]])
    BY <1>8, <2>1
  <2>3. Says(F[x]) /\ F[x].to = Public(file[ix[k]].to)
    BY <2>2 DEF PhaseFrame, Says
  <2>4. Public(file[ix[k]].to) = file[ix[k]].to
    BY <2>1, PhaseSeen
  <2>5. x # k /\ ~(x < k)
    <3>1. ASSUME x < k
          PROVE  FALSE
      <4>1. ix[x] \in Nat /\ ix[k] \in Nat
        BY <1>4, <1>6
      <4> QED
        BY <1>7, <2>1, <2>2, <3>1, <4>1
    <3> QED
      BY <2>1, <2>3, <3>1
  <2> QED
    BY <1>5, <2>1, <2>3, <2>4, <2>5
<1>12. ASSUME NEW j \in 1 .. Len(F), NEW k \in 1 .. Len(F), j < k,
              F[j].type = "game_event", Says(F[k])
       PROVE  F[j].seq < Len(file) \/ IsPhase(file[Len(file)])
  <2>1. F[j].seq = ix[j] /\ ix[j] \in 1 .. Len(file) /\ ix[k] \in 1 .. Len(file) /\ IsPhase(file[ix[k]])
    BY <1>6, <1>12 DEF Says
  <2>2. ix[j] <= ix[k]
    BY <1>7, <1>12, <2>1
  <2>3. ix[k] = Len(file) \/ ix[k] < Len(file)
    BY <1>4, <2>1
  <2> QED
    BY <1>4, <2>1, <2>2, <2>3
<1>13. Spells(F, file, first, NowOf(file))
  BY <1>9, <1>10, <1>11 DEF Spells
<1> QED
  BY <1>1, <1>12, <1>13

\* A batch that is broadcast: its events, then its phases.
LEMMA LiveSpells ==
  ASSUME NEW file \in Seq(Events), NEW first \in 1 .. Len(file) + 1, NEW eyes, eyes # "GM"
  PROVE  LET F == Live(file, first, eyes, RoundAt(file, Len(file)))
         IN  /\ Spells(F, file, first, NowOf(file))
             /\ \A j, k \in 1 .. Len(F) : j < k /\ Says(F[j]) => F[k].type # "game_event"
<1> DEFINE round == RoundAt(file, Len(file))
           Rounds == [i \in DOMAIN file |-> round]
<1>1. PICK ke, kp : ke = {"event"} /\ kp = {"phase"}
  OBVIOUS
<1>2. PICK E, P : E = FramesOf(file, first, eyes, ke, Rounds) /\ P = FramesOf(file, first, eyes, kp, Rounds)
  OBVIOUS
<1>3. Live(file, first, eyes, round) = E \o P
  BY <1>1, <1>2 DEF Live
<1>4. Len(file) \in Nat /\ first \in Nat /\ first - 1 \in 0 .. Len(file) /\ (first - 1) + 1 = first
  OBVIOUS
<1>5. round \in RoundNumbers /\ \A i \in 1 .. Len(file) : Rounds[i] = round
  BY <1>4, RoundFacts
<1> HIDE DEF Rounds, round
<1>6. \A i \in 1 .. Len(file) : Rounds[i] \in RoundNumbers
  BY <1>5
<1>7. E \in Seq(GameFrames) /\ P \in Seq(GameFrames)
  BY <1>2, <1>6, FramesOfFacts
<1>8. PICK ie : Built(E, file, first, ke, eyes, Rounds, ie)
  BY <1>2, <1>6, FramesBuilt
<1>9. PICK ip : Built(P, file, first, kp, eyes, Rounds, ip)
  BY <1>2, <1>6, FramesBuilt
<1>10. ASSUME NEW k \in 1 .. Len(E)
       PROVE  /\ ie[k] \in first .. Len(file) /\ ie[k] \in 1 .. Len(file) /\ Visible(file[ie[k]], eyes)
              /\ E[k].seq = ie[k] /\ E[k].type = "game_event" /\ ~Says(E[k])
  <2>1. ie[k] \in first .. Len(file) /\ Visible(file[ie[k]], eyes) /\ E[k] = EventFrame(ie[k])
    BY <1>1, <1>8 DEF Built
  <2> QED
    BY <1>4, <2>1 DEF EventFrame, Says
<1>11. ASSUME NEW k \in 1 .. Len(P)
       PROVE  /\ ip[k] \in first .. Len(file) /\ IsPhase(file[ip[k]])
              /\ Says(P[k]) /\ P[k].type # "game_event"
  <2>1. ip[k] \in first .. Len(file) /\ IsPhase(file[ip[k]])
        /\ P[k] = PhaseFrame(Public(file[ip[k]].to), Rounds[ip[k]])
    BY <1>1, <1>9 DEF Built
  <2> QED
    BY <2>1 DEF PhaseFrame, Says
<1>12. ASSUME NEW i \in first .. Len(file), IsPhase(file[i])
       PROVE  \E k \in 1 .. Len(P) : /\ ip[k] = i /\ P[k] = PhaseFrame(Public(file[i].to), round)
                                     /\ P[k].to = Public(file[i].to) /\ P[k] # None
  <2>1. i \in 1 .. Len(file) /\ file[i] \in Events /\ Rounds[i] = round
    BY <1>4, <1>5
  <2>2. PICK k \in 1 .. Len(P) : ip[k] = i /\ P[k] = PhaseFrame(Public(file[i].to), Rounds[i])
    BY <1>1, <1>9, <1>12 DEF Built
  <2>3. P[k] = PhaseFrame(Public(file[i].to), round)
    BY <2>1, <2>2
  <2>4. P[k].to = Public(file[i].to) /\ P[k] # None
    BY <1>5, <2>1, <2>3, PhaseFrameFacts
  <2> QED
    BY <2>2, <2>3, <2>4
<1> DEFINE F == E \o P
<1>13. /\ Len(E) \in Nat /\ Len(P) \in Nat /\ Len(F) \in Nat /\ Len(F) = Len(E) + Len(P)
       /\ \A k \in 1 .. Len(E) : F[k] = E[k]
       /\ \A k \in 1 .. Len(F) : k \in 1 .. Len(E) \/ (k > Len(E) /\ k - Len(E) \in 1 .. Len(P) /\ F[k] = P[k - Len(E)])
       /\ \A k \in 1 .. Len(P) : k + Len(E) \in 1 .. Len(F) /\ F[k + Len(E)] = P[k]
  BY <1>7
<1> HIDE DEF F
<1>14. ~PhaseAfter(file, first - 1) => \A k \in 1 .. Len(F) : ~Says(F[k]) /\ ~Names(file, F[k])
  <2> SUFFICES ASSUME ~PhaseAfter(file, first - 1), NEW k \in 1 .. Len(F)
               PROVE  ~Says(F[k]) /\ ~Names(file, F[k])
    OBVIOUS
  <2>1. \A i \in first .. Len(file) : ~IsPhase(file[i])
    BY <1>4 DEF PhaseAfter
  <2>2. CASE k \in 1 .. Len(E)
    <3>1. F[k] = E[k]
      BY <1>13, <2>2
    <3>2. ie[k] \in first .. Len(file) /\ E[k].seq = ie[k] /\ ~Says(E[k])
      BY <1>10, <2>2
    <3>3. ~IsPhase(file[ie[k]])
      BY <2>1, <3>2
    <3> QED
      BY <3>1, <3>2, <3>3 DEF Names
  <2>3. CASE k > Len(E)
    <3>1. k \notin 1 .. Len(E)
      BY <1>13, <2>3
    <3>2. k - Len(E) \in 1 .. Len(P)
      BY <1>13, <3>1
    <3>3. ip[k - Len(E)] \in first .. Len(file) /\ IsPhase(file[ip[k - Len(E)]])
      BY <1>11, <3>2
    <3> QED
      BY <2>1, <3>3
  <2>4. k \in 1 .. Len(E) \/ k > Len(E)
    BY <1>13
  <2> QED
    BY <2>2, <2>3, <2>4
<1>15. ASSUME PhaseAfter(file, first - 1)
       PROVE  \E x \in 1 .. Len(F) : /\ Says(F[x]) /\ Silent(F, x, Len(F))
                                     /\ F[x] = PhaseFrame(NowOf(file).to, NowOf(file).round) /\ F[x] # None
  <2>1. PICK i \in first .. Len(file) : IsPhase(file[i]) /\ ~PhaseAfter(file, i)
    BY <1>4, <1>15, NowFacts
  <2>2. i \in 1 .. Len(file)
    BY <1>4, <2>1
  <2>3. NowOf(file).to = Public(file[i].to) /\ NowOf(file).round = round
    BY <2>1, <2>2, NowFacts DEF round
  <2>4. PICK y \in 1 .. Len(P) : ip[y] = i /\ P[y] = PhaseFrame(NowOf(file).to, NowOf(file).round) /\ P[y] # None
    BY <1>12, <2>1, <2>3
  <2>5. ASSUME NEW m \in y + 1 .. Len(P)
        PROVE  FALSE
    <3>1. m \in 1 .. Len(P) /\ y < m
      BY <1>13, <2>5
    <3>2. ip[y] < ip[m]
      <4>1. P[y] # EventFrame(ip[y])
        BY <1>11 DEF EventFrame
      <4> QED
        BY <1>9, <3>1, <4>1 DEF Built
    <3>3. IsPhase(file[ip[m]]) /\ ip[m] \in i + 1 .. Len(file)
      BY <1>4, <1>11, <2>2, <2>4, <3>1, <3>2
    <3> QED
      BY <2>1, <3>3 DEF PhaseAfter
  <2>6. y = Len(P)
    BY <1>13, <2>5
  <2>7. Says(F[y + Len(E)]) /\ y + Len(E) \in 1 .. Len(F) /\ F[y + Len(E)] = P[y] /\ y + Len(E) = Len(F)
    BY <1>11, <1>13, <2>6
  <2>8. Silent(F, Len(F), Len(F))
    BY <1>13 DEF Silent
  <2> QED
    BY <2>4, <2>7, <2>8
<1>16. ASSUME NEW k \in 1 .. Len(F), Names(file, F[k])
       PROVE  \E x \in 1 .. Len(F) : k < x /\ Says(F[x]) /\ F[x].to = file[F[k].seq].to
  <2>1. k \in 1 .. Len(E) /\ F[k] = E[k]
    BY <1>11, <1>13, <1>16 DEF Names
  <2>2. /\ F[k].seq = ie[k] /\ IsPhase(file[ie[k]]) /\ Visible(file[ie[k]], eyes)
        /\ ie[k] \in first .. Len(file) /\ file[ie[k]] \in Events
    BY <1>10, <1>16, <2>1 DEF Names
  <2>3. PICK y \in 1 .. Len(P) : P[y].to = Public(file[ie[k]].to)
    BY <1>12, <2>2
  <2>4. Public(file[ie[k]].to) = file[ie[k]].to
    BY <2>2, PhaseSeen
  <2>5. Says(P[y]) /\ y + Len(E) \in 1 .. Len(F) /\ F[y + Len(E)] = P[y] /\ k < y + Len(E)
    BY <1>11, <1>13, <2>1
  <2> QED
    BY <2>2, <2>3, <2>4, <2>5
<1>17. ASSUME NEW j \in 1 .. Len(F), NEW k \in 1 .. Len(F), j < k, Says(F[j])
       PROVE  F[k].type # "game_event"
  <2>1. j > Len(E)
    BY <1>10, <1>13, <1>17
  <2>2. k > Len(E) /\ k - Len(E) \in 1 .. Len(P) /\ F[k] = P[k - Len(E)]
    BY <1>13, <1>17, <2>1
  <2> QED
    BY <1>11, <2>2
<1>18. Spells(F, file, first, NowOf(file))
  BY <1>14, <1>15, <1>16 DEF Spells
<1> QED
  BY <1>3, <1>17, <1>18 DEF F, round

\* What put_phase queues, of frames that spell the phases: the last that is queued is the
\* last that was told, and nothing is left out but what was the last already.
Picks(g, frames, a) ==
    /\ a \in [1 .. Len(g) -> 1 .. Len(frames)]
    /\ \A k \in 1 .. Len(g) : g[k] = frames[a[k]]
    /\ \A j, k \in 1 .. Len(g) : j < k => a[j] < a[k]
Ends(l0, g, frames, a, l) ==
    \A n \in 0 .. Len(frames) :
        /\ n = 0 \/ Says(frames[n])
        /\ \A k \in 1 .. Len(g) : Says(g[k]) => a[k] <= n
        => l = IF n = 0 THEN l0 ELSE frames[n]

LEMMA QueueEnds ==
  ASSUME NEW cn \in Conns, NEW eyes, eyes # "GM", NEW frames \in Seq(Frames)
  PROVE  \E g \in Seq(Frames) : \E a, l :
            /\ Queue(cn, eyes, frames) = [at |-> cn.at, out |-> cn.out \o g, last |-> l]
            /\ Picks(g, frames, a) /\ Ends(cn.last, g, frames, a, l)
<1> DEFINE phases == {n \in DOMAIN frames : frames[n].type = "phase_change"}
           LastPhase(n) == LET earlier == {m \in phases : m < n}
                           IN  IF earlier = {} THEN cn.last ELSE frames[Max(earlier)]
           Repeats(n) == n \in phases /\ eyes # "GM" /\ frames[n] = LastPhase(n)
           p == [n \in DOMAIN frames |-> IF Repeats(n) THEN <<>> ELSE <<frames[n]>>]
           l == LastPhase(Len(frames) + 1)
           g == FlattenSeq(p)
<1>1. Queue(cn, eyes, frames) = [cn EXCEPT !.out = @ \o g, !.last = l]
  BY DEF Queue
<1>2. Queue(cn, eyes, frames) = [at |-> cn.at, out |-> cn.out \o g, last |-> l]
  BY <1>1 DEF Conns
<1>3. Len(frames) \in Nat /\ DOMAIN frames = 1 .. Len(frames)
  OBVIOUS
<1>4. \A n \in 1 .. Len(frames) :
        /\ Repeats(n) <=> Says(frames[n]) /\ frames[n] = LastPhase(n)
        /\ Repeats(n) => p[n] = <<>>
        /\ ~Repeats(n) => p[n] = <<frames[n]>>
  BY <1>3 DEF Says
<1>5. ASSUME NEW n \in 1 .. Len(frames) + 1
      PROVE  \/ (\A m \in 1 .. Len(frames) : m < n => ~Says(frames[m])) /\ LastPhase(n) = cn.last
             \/ \E x \in 1 .. Len(frames) :
                   /\ x < n /\ Says(frames[x]) /\ LastPhase(n) = frames[x]
                   /\ \A m \in 1 .. Len(frames) : m < n /\ Says(frames[m]) => m <= x
  <2> DEFINE earlier == {m \in phases : m < n}
  <2>1. earlier \subseteq 0 .. Len(frames) /\ \A m : m \in earlier <=> m \in 1 .. Len(frames) /\ m < n /\ Says(frames[m])
    BY <1>3 DEF Says
  <2>2. earlier # {} => Max(earlier) \in earlier /\ \A m \in earlier : m <= Max(earlier)
    BY <1>3, <2>1, LargestNumber
  <2>3. LastPhase(n) = IF earlier = {} THEN cn.last ELSE frames[Max(earlier)]
    OBVIOUS
  <2> HIDE DEF LastPhase, earlier
  <2>4. CASE earlier = {}
    BY <2>1, <2>3, <2>4
  <2>5. CASE earlier # {}
    BY <2>1, <2>2, <2>3, <2>5
  <2> QED
    BY <2>4, <2>5
<1> HIDE DEF Repeats, LastPhase
<1>6. p \in Seq(Seq(Frames)) /\ Len(p) = Len(frames)
  <2>1. \A n \in 1 .. Len(frames) : p[n] \in Seq(Frames)
    BY <1>4
  <2>2. DOMAIN p = 1 .. Len(frames)
    BY <1>3
  <2> QED
    BY <1>3, <2>1, <2>2
<1> HIDE DEF p
<1>7. g \in Seq(Frames)
  BY <1>6, FlattenPlaces
<1>8. PICK a, b : Placed(g, p, Len(frames), a, b)
  BY <1>6, FlattenPlaces
<1> HIDE DEF g
<1>9. Len(g) \in Nat
  BY <1>7
<1>10. \A k \in 1 .. Len(g) : a[k] \in 1 .. Len(frames) /\ b[k] = 1 /\ g[k] = frames[a[k]]
  <2> SUFFICES ASSUME NEW k \in 1 .. Len(g)
               PROVE  a[k] \in 1 .. Len(frames) /\ b[k] = 1 /\ g[k] = frames[a[k]]
    OBVIOUS
  <2>1. a[k] \in 1 .. Len(frames) /\ b[k] \in 1 .. Len(p[a[k]]) /\ g[k] = p[a[k]][b[k]]
    BY <1>8 DEF Placed
  <2>2. ~Repeats(a[k])
    BY <2>1, <1>4
  <2> QED
    BY <2>1, <2>2, <1>4
<1>11. \A j, k \in 1 .. Len(g) : j < k => a[j] < a[k]
  <2> SUFFICES ASSUME NEW j \in 1 .. Len(g), NEW k \in 1 .. Len(g), j < k
               PROVE  a[j] < a[k]
    OBVIOUS
  <2>1. a[j] < a[k] \/ (a[j] = a[k] /\ b[j] < b[k])
    BY <1>8 DEF Placed
  <2>2. b[j] = 1 /\ b[k] = 1
    BY <1>10
  <2> QED
    BY <2>1, <2>2
<1>12. Picks(g, frames, a)
  BY <1>8, <1>10, <1>11 DEF Picks, Placed
<1>13. \A n \in 1 .. Len(frames) : ~Repeats(n) => \E k \in 1 .. Len(g) : a[k] = n
  <2> SUFFICES ASSUME NEW n \in 1 .. Len(frames), ~Repeats(n)
               PROVE  \E k \in 1 .. Len(g) : a[k] = n
    OBVIOUS
  <2>1. p[n] = <<frames[n]>>
    BY <1>4
  <2>2. 1 \in 1 .. Len(p[n])
    BY <2>1
  <2> QED
    BY <2>2, <1>8 DEF Placed
<1>14. ASSUME NEW n \in 0 .. Len(frames), n = 0 \/ Says(frames[n]),
              \A k \in 1 .. Len(g) : Says(g[k]) => a[k] <= n
       PROVE  l = IF n = 0 THEN cn.last ELSE frames[n]
  <2>1. PICK v : v = IF n = 0 THEN cn.last ELSE frames[n]
    OBVIOUS
  <2>2. ASSUME NEW m \in 1 .. Len(frames), m > n, Says(frames[m])
        PROVE  frames[m] = LastPhase(m)
    <3>1. Repeats(m)
      <4>1. ASSUME NEW k \in 1 .. Len(g), a[k] = m
            PROVE  FALSE
        <5>1. Says(g[k])
          BY <1>10, <2>2, <4>1
        <5>2. m <= n /\ n \in Nat /\ m \in Nat
          BY <1>3, <1>14, <4>1, <5>1
        <5> QED
          BY <2>2, <5>2
      <4> QED
        BY <1>13, <4>1
    <3> QED
      BY <1>4, <3>1
  <2> DEFINE Off == {m \in 1 .. Len(frames) : m > n /\ Says(frames[m]) /\ frames[m] # v}
  <2>3. Off = {}
    <3> SUFFICES ASSUME Off # {}
                 PROVE  FALSE
      OBVIOUS
    <3>1. Off \subseteq Nat
      BY <1>3
    <3>2. PICK m \in Off : \A y \in Off : m <= y
      BY <3>1, LeastNumber
    <3>3. m \in 1 .. Len(frames) /\ m > n /\ Says(frames[m]) /\ frames[m] # v /\ m \in 1 .. Len(frames) + 1
      BY <1>3
    <3>4. frames[m] = LastPhase(m)
      BY <2>2, <3>3
    <3>5. CASE (\A x \in 1 .. Len(frames) : x < m => ~Says(frames[x])) /\ LastPhase(m) = cn.last
      <4>1. n = 0
        BY <1>3, <1>14, <3>3, <3>5
      <4> QED
        BY <2>1, <3>3, <3>4, <3>5, <4>1
    <3>6. ASSUME NEW x \in 1 .. Len(frames), x < m, Says(frames[x]), LastPhase(m) = frames[x],
                 \A y \in 1 .. Len(frames) : y < m /\ Says(frames[y]) => y <= x
          PROVE  FALSE
      <4>1. n <= x
        BY <1>3, <1>14, <3>3, <3>6
      <4>2. CASE n = x
        BY <1>3, <2>1, <3>3, <3>4, <3>6, <4>2
      <4>3. CASE n < x
        <5>1. x \notin Off
          BY <1>3, <3>2, <3>6
        <5>2. x > n
          BY <1>3, <4>3
        <5>3. frames[x] = v
          BY <3>6, <5>1, <5>2
        <5> QED
          BY <3>3, <3>4, <3>6, <5>3
      <4> QED
        BY <1>3, <4>1, <4>2, <4>3
    <3> QED
      BY <1>5, <3>3, <3>5, <3>6
  <2>4. Len(frames) + 1 \in 1 .. Len(frames) + 1 /\ \A m \in 1 .. Len(frames) : m < Len(frames) + 1
    BY <1>3
  <2>5. CASE (\A x \in 1 .. Len(frames) : x < Len(frames) + 1 => ~Says(frames[x])) /\ l = cn.last
    <3>1. n = 0
      BY <1>3, <1>14, <2>4, <2>5
    <3> QED
      BY <2>5, <3>1
  <2>6. ASSUME NEW x \in 1 .. Len(frames), x < Len(frames) + 1, Says(frames[x]), l = frames[x],
               \A y \in 1 .. Len(frames) : y < Len(frames) + 1 /\ Says(frames[y]) => y <= x
        PROVE  l = v
    <3>1. n <= x
      BY <1>3, <1>14, <2>4, <2>6
    <3>2. CASE n = x
      BY <1>3, <2>1, <2>6, <3>2
    <3>3. CASE n < x
      <4>1. x \notin Off /\ x > n
        BY <1>3, <2>3, <3>3
      <4> QED
        BY <2>6, <4>1
    <3> QED
      BY <1>3, <3>1, <3>2, <3>3
  <2> QED
    BY <1>5, <2>1, <2>4, <2>5, <2>6
<1> HIDE DEF l
<1>15. Ends(cn.last, g, frames, a, l)
  BY <1>14 DEF Ends
<1> QED
  BY <1>2, <1>7, <1>12, <1>15

\* What a queue tells once frames are added to it.
LEMMA GoingMore ==
  ASSUME NEW file, NEW first, NEW now, NEW now2, NEW s, NEW ok \in BOOLEAN, NEW q \in Seq(Frames), NEW l,
         NEW frames \in Seq(Frames), NEW g \in Seq(Frames), NEW a, NEW l2,
         Going(file, now, s, ok, q, l),
         Stage(now2), Stage(now),
         Spells(frames, file, first, now2),
         PhaseAfter(file, first - 1) \/ now2 = now,
         Picks(g, frames, a), Ends(l, g, frames, a, l2)
  PROVE  Going(file, now2, s, ok, q \o g, l2)
<1> DEFINE h == q \o g
           after == PhaseAfter(file, first - 1)
           none == \A k \in 1 .. Len(g) : ~Says(g[k])
<1>1. /\ Len(q) \in Nat /\ Len(g) \in Nat /\ Len(frames) \in Nat /\ Len(h) = Len(q) + Len(g)
      /\ \A k \in 1 .. Len(q) : k \in 1 .. Len(h) /\ h[k] = q[k]
      /\ \A k \in 1 .. Len(h) : k > Len(q) => k - Len(q) \in 1 .. Len(g) /\ h[k] = g[k - Len(q)]
      /\ \A k \in 1 .. Len(g) : k + Len(q) \in 1 .. Len(h) /\ h[k + Len(q)] = g[k]
  OBVIOUS
<1> HIDE DEF h
<1>2. \A k \in 1 .. Len(g) : a[k] \in 1 .. Len(frames) /\ g[k] = frames[a[k]]
  BY DEF Picks
<1>3. none => l2 = l
  <2>1. 0 \in 0 .. Len(frames)
    BY <1>1
  <2> QED
    BY <2>1 DEF Ends
<1>4. after => l2 = PhaseFrame(now2.to, now2.round) /\ l2 # None
  <2> SUFFICES ASSUME after
               PROVE  l2 = PhaseFrame(now2.to, now2.round) /\ l2 # None
    OBVIOUS
  <2>1. PICK x \in 1 .. Len(frames) : /\ Says(frames[x]) /\ Silent(frames, x, Len(frames))
                                      /\ frames[x] = PhaseFrame(now2.to, now2.round) /\ frames[x] # None
    BY DEF Spells
  <2>2. \A k \in 1 .. Len(g) : Says(g[k]) => a[k] <= x
    <3> SUFFICES ASSUME NEW k \in 1 .. Len(g), Says(g[k]), ~(a[k] <= x)
                 PROVE  FALSE
      OBVIOUS
    <3>1. a[k] \in x + 1 .. Len(frames) /\ Says(frames[a[k]])
      BY <1>1, <1>2
    <3> QED
      BY <2>1, <3>1 DEF Silent
  <2>3. x \in 0 .. Len(frames) /\ x # 0
    BY <1>1
  <2>4. l2 = frames[x]
    BY <2>1, <2>2, <2>3 DEF Ends
  <2> QED
    BY <2>1, <2>4
<1>5. ~after => none /\ \A k \in 1 .. Len(g) : ~Names(file, g[k])
  BY <1>2 DEF Spells
<1>6. none => now2 = now
  <2> SUFFICES ASSUME none, after
               PROVE  now2 = now
    OBVIOUS
  <2>1. l # None /\ l = PhaseFrame(now2.to, now2.round) /\ l = PhaseFrame(now.to, now.round)
    BY <1>3, <1>4 DEF Going
  <2>2. now2.to = now.to /\ now2.round = now.round
    BY <2>1 DEF PhaseFrame
  <2> QED
    BY <2>2 DEF Stage
<1>7. l2 # None => l2 = PhaseFrame(now2.to, now2.round)
  BY <1>3, <1>4, <1>5, <1>6 DEF Going
<1> DEFINE kept(k) == \A m \in 1 .. Len(g) : Says(g[m]) => m <= k
<1>8. ASSUME NEW k \in 0 .. Len(q), Silent(h, k, Len(h))
      PROVE  none /\ Silent(q, k, Len(q))
  <2>1. ASSUME NEW m \in 1 .. Len(g)
        PROVE  ~Says(g[m])
    <3>1. m + Len(q) \in k + 1 .. Len(h) /\ h[m + Len(q)] = g[m]
      BY <1>1
    <3> QED
      BY <1>8, <3>1 DEF Silent
  <2>2. ASSUME NEW m \in k + 1 .. Len(q)
        PROVE  ~Says(q[m])
    <3>1. m \in k + 1 .. Len(h) /\ h[m] = q[m]
      BY <1>1
    <3> QED
      BY <1>8, <3>1 DEF Silent
  <2> QED
    BY <2>1, <2>2 DEF Silent
<1>9. ASSUME NEW k \in 1 .. Len(g), Silent(h, k + Len(q), Len(h)), NEW m \in 1 .. Len(g), Says(g[m])
      PROVE  m <= k /\ a[m] <= a[k]
  <2>1. ~(k < m)
    <3> SUFFICES ASSUME k < m
                 PROVE  FALSE
      OBVIOUS
    <3>1. m + Len(q) \in (k + Len(q)) + 1 .. Len(h) /\ h[m + Len(q)] = g[m]
      BY <1>1
    <3> QED
      BY <1>9, <3>1 DEF Silent
  <2>2. m <= k
    BY <1>1, <2>1
  <2>3. m < k => a[m] < a[k]
    BY DEF Picks
  <2> QED
    BY <1>2, <2>2, <2>3
<1>10. ASSUME NEW k \in 0 .. Len(h), Tells(ok, h, k), Silent(h, k, Len(h))
       PROVE  TellsOf(s, h, k) = now2
  <2>1. CASE k <= Len(q)
    <3>1. k \in 0 .. Len(q)
      BY <1>1, <2>1
    <3>2. none /\ Silent(q, k, Len(q))
      BY <1>8, <1>10, <3>1
    <3>3. Tells(ok, q, k) /\ TellsOf(s, h, k) = TellsOf(s, q, k)
      BY <1>1, <1>10, <3>1 DEF Tells, TellsOf
    <3> QED
      BY <1>6, <3>1, <3>2, <3>3 DEF Going
  <2>2. CASE k > Len(q)
    <3>1. PICK n \in 1 .. Len(g) : k = n + Len(q) /\ h[k] = g[n] /\ k # 0
      <4>1. k \in 1 .. Len(h) /\ k # 0 /\ k = (k - Len(q)) + Len(q)
        BY <1>1, <2>2
      <4> QED
        BY <1>1, <2>2, <4>1
    <3>2. Says(g[n]) /\ TellsOf(s, h, k) = [to |-> g[n].to, round |-> g[n].round]
      BY <1>10, <3>1 DEF Tells, TellsOf
    <3>3. a[n] \in 0 .. Len(frames) /\ a[n] # 0 /\ Says(frames[a[n]])
      BY <1>1, <1>2, <3>2
    <3>4. \A m \in 1 .. Len(g) : Says(g[m]) => a[m] <= a[n]
      BY <1>9, <1>10, <3>1
    <3>5. l2 = g[n]
      BY <1>2, <3>3, <3>4 DEF Ends
    <3>6. after
      BY <1>5, <3>2
    <3>7. g[n] = PhaseFrame(now2.to, now2.round)
      BY <1>4, <3>5, <3>6
    <3> QED
      BY <3>2, <3>7 DEF PhaseFrame, Stage
  <2> QED
    BY <1>1, <2>1, <2>2
<1>11. ASSUME NEW k \in 1 .. Len(h), Names(file, h[k]), Silent(h, k, Len(h))
       PROVE  file[h[k].seq].to = now2.to
  <2>1. CASE k <= Len(q)
    <3>1. k \in 1 .. Len(q) /\ k \in 0 .. Len(q) /\ h[k] = q[k]
      BY <1>1, <2>1
    <3>2. none /\ Silent(q, k, Len(q))
      BY <1>8, <1>11, <3>1
    <3> QED
      BY <1>6, <1>11, <3>1, <3>2 DEF Going
  <2>2. CASE k > Len(q)
    <3>1. PICK n \in 1 .. Len(g) : k = n + Len(q) /\ h[k] = g[n]
      <4>1. k = (k - Len(q)) + Len(q)
        BY <1>1, <2>2
      <4> QED
        BY <1>1, <2>2, <4>1
    <3>2. Names(file, frames[a[n]]) /\ g[n] = frames[a[n]] /\ a[n] \in 1 .. Len(frames)
      BY <1>2, <1>11, <3>1
    <3>3. PICK x \in 1 .. Len(frames) : /\ a[n] < x /\ Says(frames[x])
                                        /\ frames[x].to = file[g[n].seq].to
      <4>1. \E x \in 1 .. Len(frames) : /\ a[n] < x /\ Says(frames[x])
                                        /\ frames[x].to = file[frames[a[n]].seq].to
        BY <3>2 DEF Spells
      <4> QED
        BY <3>2, <4>1
    <3>4. \A m \in 1 .. Len(g) : Says(g[m]) => a[m] <= x
      <4> SUFFICES ASSUME NEW m \in 1 .. Len(g), Says(g[m])
                   PROVE  a[m] <= x
        OBVIOUS
      <4>1. a[m] <= a[n] /\ a[m] \in 1 .. Len(frames)
        BY <1>2, <1>9, <1>11, <3>1
      <4> QED
        BY <1>1, <3>2, <3>3, <4>1
    <3>5. x \in 0 .. Len(frames) /\ x # 0
      BY <1>1
    <3>6. l2 = frames[x]
      BY <3>3, <3>4, <3>5 DEF Ends
    <3>7. after
      BY <1>5, <1>11, <3>1
    <3>8. frames[x].to = now2.to
      BY <1>4, <3>6, <3>7 DEF PhaseFrame
    <3> QED
      BY <3>1, <3>3, <3>8
  <2> QED
    BY <1>1, <2>1, <2>2
<1>12. Going(file, now2, s, ok, h, l2)
  BY <1>7, <1>10, <1>11 DEF Going
<1> QED
  BY <1>12 DEF h

\* The last batch is queued behind what was told while the game went on.
LEMMA GoneMore ==
  ASSUME NEW file \in Seq(Events), NEW file2, \A i \in 1 .. Len(file) : file2[i] = file[i],
         NEW now, NEW now2, now2.round = now.round, NEW s, NEW ok \in BOOLEAN,
         NEW q \in Seq(Frames), NEW l, NEW read, NEW frames \in Seq(Frames), NEW g \in Seq(Frames), NEW a,
         Going(file, now, s, ok, q, l), ~Over(file),
         Range(read) \subseteq 1 .. Len(file),
         \A k \in 1 .. Len(q) : q[k].type = "game_event" => q[k].seq \in 1 .. Len(file),
         \A j, k \in 1 .. Len(frames) : j < k /\ Says(frames[j]) => frames[k].type # "game_event",
         Picks(g, frames, a)
  PROVE  Gone(file2, now2, s, ok, q \o g, read)
<1> DEFINE h == q \o g
<1>1. /\ Len(q) \in Nat /\ Len(g) \in Nat /\ Len(frames) \in Nat /\ Len(h) = Len(q) + Len(g)
      /\ \A k \in 1 .. Len(q) : k \in 1 .. Len(h) /\ h[k] = q[k]
      /\ \A k \in 1 .. Len(h) : k > Len(q) => k - Len(q) \in 1 .. Len(g) /\ h[k] = g[k - Len(q)]
  OBVIOUS
<1> HIDE DEF h
<1>2. \A i \in 1 .. Len(file) : file2[i].type # "GAME_OVER"
  BY DEF Over
<1>3. ~HasEnd(file2, read)
  BY <1>2 DEF HasEnd
<1>4. ASSUME NEW n \in 1 .. Len(h), NEW k \in 0 .. n - 1,
             h[n].type = "game_event", file2[h[n].seq].type = "GAME_OVER",
             Tells(ok, h, k), Silent(h, k, n)
      PROVE  TellsOf(s, h, k).round = now2.round
  <2>1. n > Len(q)
    <3> SUFFICES ASSUME n <= Len(q)
                 PROVE  FALSE
      BY <1>1
    <3>1. n \in 1 .. Len(q) /\ h[n] = q[n]
      BY <1>1
    <3>2. q[n].seq \in 1 .. Len(file)
      BY <1>4, <3>1
    <3> QED
      BY <1>2, <1>4, <3>1, <3>2
  <2>2. n - Len(q) \in 1 .. Len(g) /\ h[n] = g[n - Len(q)] /\ n \in Nat
    BY <1>1, <2>1
  <2>3. k <= Len(q)
    <3> SUFFICES ASSUME k > Len(q)
                 PROVE  FALSE
      BY <1>1
    <3>1. k \in 1 .. Len(h) /\ k # 0
      BY <1>1
    <3>2. k - Len(q) \in 1 .. Len(g) /\ h[k] = g[k - Len(q)] /\ k - Len(q) < n - Len(q)
      BY <1>1, <2>2, <3>1
    <3>3. PICK x \in 1 .. Len(g), y \in 1 .. Len(g) : x = k - Len(q) /\ y = n - Len(q)
      BY <2>2, <3>2
    <3>4. x < y /\ Says(g[x]) /\ g[y].type = "game_event"
      BY <1>4, <2>2, <3>1, <3>2, <3>3 DEF Tells
    <3>5. /\ a[x] < a[y] /\ a[x] \in 1 .. Len(frames) /\ a[y] \in 1 .. Len(frames)
          /\ g[x] = frames[a[x]] /\ g[y] = frames[a[y]]
      BY <3>4 DEF Picks
    <3> QED
      BY <3>4, <3>5
  <2>4. k \in 0 .. Len(q)
    BY <1>1, <2>3
  <2>5. Silent(q, k, Len(q))
    <3> SUFFICES ASSUME NEW m \in k + 1 .. Len(q)
                 PROVE  ~Says(q[m])
      BY DEF Silent
    <3>1. m \in k + 1 .. n /\ m \in 1 .. Len(q) /\ h[m] = q[m]
      BY <1>1, <2>1, <2>4
    <3> QED
      BY <1>4, <3>1 DEF Silent
  <2>6. Tells(ok, q, k) /\ TellsOf(s, h, k) = TellsOf(s, q, k)
    BY <1>1, <1>4, <2>4 DEF Tells, TellsOf
  <2> QED
    BY <2>4, <2>5, <2>6 DEF Going
<1> QED
  BY <1>3, <1>4 DEF Gone, h

\* Who comes back after the end is told first how it ended.
LEMMA GoneFresh ==
  ASSUME NEW file \in Seq(Events), NEW now, NEW s, NEW ok \in BOOLEAN, NEW read,
         NEW frames \in Seq(Frames), NEW g \in Seq(Frames), NEW a, NEW l,
         NEW first, Over(file), Waits(file, now, s, ok, read), first - 1 = LastRead(read),
         Spells(frames, file, first, now), Picks(g, frames, a), Ends(None, g, frames, a, l),
         \A j, k \in 1 .. Len(frames) :
            j < k /\ frames[j].type = "game_event" /\ file[frames[j].seq].type = "GAME_OVER" => ~Says(frames[k])
  PROVE  Gone(file, now, s, ok, g, read)
<1> DEFINE after == PhaseAfter(file, first - 1)
<1>1. Len(g) \in Nat /\ Len(frames) \in Nat
  OBVIOUS
<1>2. \A k \in 1 .. Len(g) : a[k] \in 1 .. Len(frames) /\ g[k] = frames[a[k]]
  BY DEF Picks
<1>3. ~HasEnd(file, read)
  BY DEF Waits
<1>4. ASSUME NEW n \in 1 .. Len(g), NEW k \in 0 .. n - 1,
             g[n].type = "game_event", file[g[n].seq].type = "GAME_OVER",
             Tells(ok, g, k), Silent(g, k, n)
      PROVE  TellsOf(s, g, k).round = now.round
  <2>1. \A m \in 1 .. Len(g) : Says(g[m]) => m <= k
    <3> SUFFICES ASSUME NEW m \in 1 .. Len(g), Says(g[m]), k < m
                 PROVE  FALSE
      BY <1>1
    <3>1. CASE m <= n
      <4>1. m \in k + 1 .. n
        BY <1>1, <3>1
      <4> QED
        BY <1>4, <4>1 DEF Silent
    <3>2. CASE n < m
      <4>1. a[n] < a[m] /\ a[n] \in 1 .. Len(frames) /\ a[m] \in 1 .. Len(frames)
        BY <3>2 DEF Picks
      <4> QED
        BY <1>2, <1>4, <4>1
    <3> QED
      BY <1>1, <3>1, <3>2
  <2>2. CASE after
    <3>1. PICK x \in 1 .. Len(frames) : /\ Says(frames[x]) /\ Silent(frames, x, Len(frames))
                                        /\ frames[x] = PhaseFrame(now.to, now.round) /\ frames[x] # None
      BY <2>2 DEF Spells
    <3>2. \A m \in 1 .. Len(g) : Says(g[m]) => a[m] <= x
      <4> SUFFICES ASSUME NEW m \in 1 .. Len(g), Says(g[m]), x < a[m]
                   PROVE  FALSE
        BY <1>1, <1>2
      <4>1. a[m] \in x + 1 .. Len(frames) /\ Says(frames[a[m]])
        BY <1>1, <1>2
      <4> QED
        BY <3>1, <4>1 DEF Silent
    <3>3. l = frames[x]
      <4>1. x \in 0 .. Len(frames) /\ x # 0
        BY <1>1
      <4> QED
        BY <3>1, <3>2, <4>1 DEF Ends
    <3>4. k # 0
      <4> SUFFICES ASSUME k = 0
                   PROVE  FALSE
        OBVIOUS
      <4>1. \A m \in 1 .. Len(g) : ~Says(g[m])
        BY <1>1, <2>1
      <4>2. 0 \in 0 .. Len(frames)
        BY <1>1
      <4>3. l = None
        BY <4>1, <4>2 DEF Ends
      <4> QED
        BY <3>1, <3>3, <4>3
    <3>5. k \in 1 .. Len(g) /\ Says(g[k])
      BY <1>1, <1>4, <3>4 DEF Tells
    <3>6. \A m \in 1 .. Len(g) : Says(g[m]) => a[m] <= a[k]
      <4> SUFFICES ASSUME NEW m \in 1 .. Len(g), Says(g[m])
                   PROVE  a[m] <= a[k]
        OBVIOUS
      <4>1. m = k \/ m < k
        BY <1>1, <2>1, <3>5
      <4>2. m < k => a[m] < a[k]
        BY <3>5 DEF Picks
      <4> QED
        BY <1>1, <1>2, <3>5, <4>1, <4>2
    <3>7. l = g[k]
      <4>1. a[k] \in 0 .. Len(frames) /\ a[k] # 0 /\ Says(frames[a[k]])
        BY <1>1, <1>2, <3>5
      <4> QED
        BY <1>2, <3>5, <3>6, <4>1 DEF Ends
    <3>8. g[k].round = now.round
      BY <3>1, <3>3, <3>7 DEF PhaseFrame
    <3> QED
      BY <3>4, <3>8 DEF TellsOf
  <2>3. CASE ~after
    <3>1. k = 0
      <4> SUFFICES ASSUME k # 0
                   PROVE  FALSE
        OBVIOUS
      <4>1. k \in 1 .. Len(g) /\ Says(g[k])
        BY <1>1, <1>4 DEF Tells
      <4> QED
        BY <1>2, <2>3, <4>1 DEF Spells
    <3>2. ok /\ ~PhaseAfter(file, LastRead(read))
      BY <1>4, <2>3, <3>1 DEF Tells
    <3>3. s.round = now.round
      BY <3>2 DEF Waits
    <3> QED
      BY <3>1, <3>3 DEF TellsOf
  <2> QED
    BY <2>2, <2>3
<1> QED
  BY <1>3, <1>4 DEF Gone

LEMMA TailFacts ==
  ASSUME NEW q \in Seq(Frames), q # <<>>
  PROVE  /\ Tail(q) \in Seq(Frames) /\ Len(Tail(q)) \in Nat /\ Len(q) = Len(Tail(q)) + 1 /\ 1 \in 1 .. Len(q)
         /\ Head(q) = q[1] /\ Head(q) \in Frames
         /\ \A k \in 1 .. Len(Tail(q)) : k + 1 \in 1 .. Len(q) /\ Tail(q)[k] = q[k + 1]
OBVIOUS

\* The page takes in the next frame.
LEMMA GoingNext ==
  ASSUME NEW file, NEW now, NEW s, NEW ok \in BOOLEAN, NEW q \in Seq(Frames), NEW l,
         Going(file, now, s, ok, q, l), q # <<>>, Stage(now),
         NEW s2, NEW ok2 \in BOOLEAN, (ok2 <=> (ok \/ Says(q[1]))),
         Says(q[1]) => s2 = [to |-> q[1].to, round |-> q[1].round],
         Names(file, q[1]) => s2 = [s EXCEPT !.to = file[q[1].seq].to],
         ~Says(q[1]) /\ ~Names(file, q[1]) => s2 = s
  PROVE  Going(file, now, s2, ok2, Tail(q), l)
<1> DEFINE t == Tail(q)
<1>1. /\ t \in Seq(Frames) /\ Len(t) \in Nat /\ Len(q) = Len(t) + 1 /\ 1 \in 1 .. Len(q)
      /\ \A k \in 1 .. Len(t) : k + 1 \in 1 .. Len(q) /\ t[k] = q[k + 1]
  BY TailFacts
<1> HIDE DEF t
<1>2. ASSUME NEW k \in 0 .. Len(t), Silent(t, k, Len(t))
      PROVE  Silent(q, k + 1, Len(q))
  <2> SUFFICES ASSUME NEW m \in k + 2 .. Len(q)
               PROVE  ~Says(q[m])
    BY <1>1 DEF Silent
  <2>1. m - 1 \in k + 1 .. Len(t) /\ m - 1 \in 1 .. Len(t) /\ (m - 1) + 1 = m
    BY <1>1
  <2>2. t[m - 1] = q[m]
    BY <1>1, <2>1
  <2> QED
    BY <1>2, <2>1, <2>2 DEF Silent
<1>3. ASSUME NEW k \in 0 .. Len(t), Tells(ok2, t, k), Silent(t, k, Len(t))
      PROVE  TellsOf(s2, t, k) = now
  <2>1. Silent(q, k + 1, Len(q)) /\ k + 1 \in 0 .. Len(q) /\ k + 1 # 0
    BY <1>1, <1>2, <1>3
  <2>2. CASE k # 0
    <3>1. k \in 1 .. Len(t) /\ t[k] = q[k + 1]
      BY <1>1, <2>2
    <3>2. Tells(ok, q, k + 1) /\ TellsOf(s2, t, k) = TellsOf(s, q, k + 1)
      BY <1>3, <2>1, <2>2, <3>1 DEF Tells, TellsOf
    <3> QED
      BY <2>1, <3>2 DEF Going
  <2>3. CASE k = 0 /\ Says(q[1])
    <3>1. Tells(ok, q, 1) /\ TellsOf(s, q, 1) = s2 /\ TellsOf(s2, t, k) = s2
      BY <2>3 DEF Tells, TellsOf
    <3> QED
      BY <2>1, <2>3, <3>1 DEF Going
  <2>4. CASE k = 0 /\ ~Says(q[1])
    <3>1. Silent(q, 0, Len(q))
      <4> SUFFICES ASSUME NEW m \in 1 .. Len(q)
                   PROVE  ~Says(q[m])
        BY DEF Silent
      <4>1. m = 1 \/ m \in 2 .. Len(q)
        BY <1>1
      <4> QED
        BY <2>1, <2>4, <4>1 DEF Silent
    <3>2. ok /\ 0 \in 0 .. Len(q)
      BY <1>1, <1>3, <2>4 DEF Tells
    <3>3. s = now
      BY <3>1, <3>2 DEF Going, Tells, TellsOf
    <3>4. s2 = now
      <4>1. CASE Names(file, q[1])
        <5>1. file[q[1].seq].to = now.to
          BY <1>1, <2>1, <2>4, <4>1 DEF Going
        <5>2. s2 = [now EXCEPT !.to = now.to]
          BY <3>3, <4>1, <5>1
        <5> QED
          BY <5>2 DEF Stage
      <4>2. CASE ~Names(file, q[1])
        BY <2>4, <3>3, <4>2
      <4> QED
        BY <4>1, <4>2
    <3> QED
      BY <2>4, <3>4 DEF TellsOf
  <2> QED
    BY <2>2, <2>3, <2>4
<1>4. ASSUME NEW k \in 1 .. Len(t), Names(file, t[k]), Silent(t, k, Len(t))
      PROVE  file[t[k].seq].to = now.to
  <2>1. Silent(q, k + 1, Len(q)) /\ k + 1 \in 1 .. Len(q) /\ t[k] = q[k + 1]
    BY <1>1, <1>2, <1>4
  <2> QED
    BY <1>4, <2>1 DEF Going
<1>5. l # None => l = PhaseFrame(now.to, now.round)
  BY DEF Going
<1> QED
  BY <1>3, <1>4, <1>5 DEF Going, t

LEMMA GoneNext ==
  ASSUME NEW file, NEW now, NEW s, NEW ok \in BOOLEAN, NEW q \in Seq(Frames), NEW read, NEW read2,
         Gone(file, now, s, ok, q, read), q # <<>>, Stage(s),
         NEW s2, NEW ok2 \in BOOLEAN,
         HasEnd(file, read) => s2 = s /\ ok2 = ok /\ HasEnd(file, read2),
         ~HasEnd(file, read) =>
            /\ (ok2 <=> (ok \/ Says(q[1])))
            /\ Says(q[1]) => s2 = [to |-> q[1].to, round |-> q[1].round] /\ ~HasEnd(file, read2)
            /\ ~Says(q[1]) => s2.round = s.round
            /\ HasEnd(file, read2) => /\ q[1].type = "game_event" /\ file[q[1].seq].type = "GAME_OVER"
                                      /\ s2 = [s EXCEPT !.to = "GAME_OVER"],
         HasEnd(file, read2) =>
            \A k \in 1 .. Len(Tail(q)) :
               ~(Tail(q)[k].type = "game_event" /\ file[Tail(q)[k].seq].type = "GAME_OVER")
  PROVE  Gone(file, now, s2, ok2, Tail(q), read2)
<1> DEFINE t == Tail(q)
<1>1. /\ t \in Seq(Frames) /\ Len(t) \in Nat /\ Len(q) = Len(t) + 1 /\ 1 \in 1 .. Len(q)
      /\ \A k \in 1 .. Len(t) : k + 1 \in 1 .. Len(q) /\ t[k] = q[k + 1]
  BY TailFacts
<1> HIDE DEF t
<1>2. ASSUME NEW n \in 1 .. Len(t), NEW k \in 0 .. n - 1,
             t[n].type = "game_event", file[t[n].seq].type = "GAME_OVER",
             Tells(ok2, t, k), Silent(t, k, n)
      PROVE  TellsOf(s2, t, k).round = now.round
  <2>1. ~HasEnd(file, read2) /\ ~HasEnd(file, read)
    BY <1>2 DEF t
  <2>2. Silent(q, k + 1, n + 1)
    <3> SUFFICES ASSUME NEW m \in k + 2 .. n + 1
                 PROVE  ~Says(q[m])
      BY <1>1 DEF Silent
    <3>1. m - 1 \in k + 1 .. n /\ m - 1 \in 1 .. Len(t) /\ (m - 1) + 1 = m
      BY <1>1
    <3>2. t[m - 1] = q[m]
      BY <1>1, <3>1
    <3> QED
      BY <1>2, <3>1, <3>2 DEF Silent
  <2>3. /\ n + 1 \in 1 .. Len(q) /\ t[n] = q[n + 1] /\ k + 1 # 0
        /\ k + 1 \in 0 .. (n + 1) - 1 /\ 0 \in 0 .. (n + 1) - 1
    BY <1>1
  <2>4. CASE k # 0
    <3>1. k \in 1 .. Len(t) /\ t[k] = q[k + 1]
      BY <1>1, <2>4
    <3>2. Tells(ok, q, k + 1) /\ TellsOf(s2, t, k) = TellsOf(s, q, k + 1)
      BY <1>2, <2>3, <2>4, <3>1 DEF Tells, TellsOf
    <3> QED
      BY <1>2, <2>2, <2>3, <3>2 DEF Gone
  <2>5. CASE k = 0 /\ Says(q[1])
    <3>1. Tells(ok, q, 1) /\ TellsOf(s, q, 1) = s2 /\ TellsOf(s2, t, k) = s2
      BY <2>1, <2>5 DEF Tells, TellsOf
    <3>2. k + 1 = 1 /\ n + 1 \in 1 .. Len(q) /\ 1 \in 0 .. (n + 1) - 1 /\ Silent(q, 1, n + 1)
      BY <2>2, <2>3, <2>5
    <3>3. q[n + 1].type = "game_event" /\ file[q[n + 1].seq].type = "GAME_OVER"
      BY <1>2, <2>3
    <3>4. TellsOf(s, q, 1).round = now.round
      BY <3>1, <3>2, <3>3 DEF Gone
    <3> QED
      BY <3>1, <3>4
  <2>6. CASE k = 0 /\ ~Says(q[1])
    <3>1. Silent(q, 0, n + 1)
      <4> SUFFICES ASSUME NEW m \in 1 .. n + 1
                   PROVE  ~Says(q[m])
        BY DEF Silent
      <4>1. m = 1 \/ m \in 2 .. n + 1
        BY <1>1
      <4> QED
        BY <2>2, <2>6, <4>1 DEF Silent
    <3>2. ok
      BY <1>2, <2>1, <2>6 DEF Tells
    <3>3. s.round = now.round
      BY <1>2, <2>3, <3>1, <3>2 DEF Gone, Tells, TellsOf
    <3> QED
      BY <2>1, <2>6, <3>3 DEF TellsOf
  <2> QED
    BY <2>4, <2>5, <2>6
<1>3. ASSUME ok2, HasEnd(file, read2)
      PROVE  s2 = [to |-> "GAME_OVER", round |-> now.round]
  <2>1. CASE HasEnd(file, read)
    BY <1>3, <2>1 DEF Gone
  <2>2. CASE ~HasEnd(file, read)
    <3>1. ~Says(q[1]) /\ q[1].type = "game_event" /\ file[q[1].seq].type = "GAME_OVER" /\ ok
      BY <1>3, <2>2
    <3>2. Silent(q, 0, 1) /\ 0 \in 0 .. 1 - 1 /\ 1 \in 1 .. Len(q)
      BY <1>1, <3>1 DEF Silent
    <3>3. s.round = now.round
      BY <3>1, <3>2 DEF Gone, Tells, TellsOf
    <3>4. s2 = [s EXCEPT !.to = "GAME_OVER"]
      BY <1>3, <2>2
    <3>5. s2 = [to |-> "GAME_OVER", round |-> s.round]
      BY <3>4 DEF Stage
    <3> QED
      BY <3>3, <3>5
  <2> QED
    BY <2>1, <2>2
<1> QED
  BY <1>2, <1>3 DEF Gone, t

LEMMA WatchedFacts ==
  ASSUME NEW file \in Seq(Events), NEW eyes, NEW cn \in Conns, NEW read \in Seq(Nat),
         Fed(file, eyes, "playing", cn, read)
  PROVE  /\ Range(read) \subseteq 1 .. Len(file) /\ cn.out \in Seq(Frames)
         /\ LastRead(read) \in 0 .. Len(file)
         /\ cn.at = "open" =>
               /\ Carries(cn.out, Owed(file, eyes, read, Len(file)))
               /\ \A k \in 1 .. Len(cn.out) :
                     cn.out[k].type = "game_event" =>
                        cn.out[k].seq \in 1 .. Len(file) /\ Visible(file[cn.out[k].seq], eyes)
<1>1. Range(read) \subseteq 1 .. Len(file)
  BY DEF Fed, InOrder
<1>2. cn.out \in Seq(Frames) /\ Len(file) \in Nat /\ Len(read) \in Nat
  BY DEF Conns
<1>3. LastRead(read) \in 0 .. Len(file)
  <2>1. CASE read = <<>>
    BY <1>2, <2>1 DEF LastRead
  <2>2. CASE read # <<>>
    <3>1. Len(read) \in 1 .. Len(read) /\ Last(read) = read[Len(read)]
      BY <2>2 DEF Last
    <3>2. Range(read) = {read[k] : k \in 1 .. Len(read)}
      BY RangeSeq
    <3>3. Last(read) \in 1 .. Len(file)
      BY <1>1, <3>1, <3>2
    <3> QED
      BY <1>2, <2>2, <3>3 DEF LastRead
  <2> QED
    BY <2>1, <2>2
<1>4. ASSUME cn.at = "open"
      PROVE  /\ Carries(cn.out, Owed(file, eyes, read, Len(file)))
             /\ \A k \in 1 .. Len(cn.out) :
                   cn.out[k].type = "game_event" =>
                      cn.out[k].seq \in 1 .. Len(file) /\ Visible(file[cn.out[k].seq], eyes)
  <2>1. Carries(cn.out, Owed(file, eyes, read, Len(file)))
    BY <1>4 DEF Fed
  <2> QED
    BY <2>1 DEF Carries, Owed
<1> QED
  BY <1>1, <1>2, <1>3, <1>4

\* A page that has just been opened shows a game that has not begun.
LEMMA FreshWaits ==
  ASSUME NEW file \in Seq(Events), NEW ok,
         \A i \in 1 .. Len(file) : file[i].type = "ROUND_STARTED" => PhaseAfter(file, i)
  PROVE  Waits(file, NowOf(file), [to |-> "LOBBY", round |-> 0], ok, <<>>)
<1>1. Range(<<>>) = {} /\ LastRead(<<>>) = 0 /\ Len(file) \in Nat /\ 0 \in 0 .. Len(file) /\ 0 + 1 = 1
  BY DEF Range, LastRead
<1>2. ASSUME ~PhaseAfter(file, 0)
      PROVE  NowOf(file) = [to |-> "LOBBY", round |-> 0]
  <2>1. \A i \in 1 .. Len(file) : ~IsPhase(file[i])
    BY <1>1, <1>2 DEF PhaseAfter
  <2>2. \A i \in 1 .. Len(file) : file[i].type # "ROUND_STARTED"
    BY <2>1, <1>1 DEF PhaseAfter
  <2>3. RoundAt(file, 0) = RoundAt(file, Len(file))
    BY <1>1, <2>2, RoundStays
  <2>4. RoundAt(file, 0) = 0
    <3>1. {j \in 1 .. 0 : file[j].type = "ROUND_STARTED"} = {}
      OBVIOUS
    <3> QED
      BY <3>1 DEF RoundAt
  <2>5. NowOf(file).to = "LOBBY"
    BY <2>1, NowFacts
  <2>6. NowOf(file) = [to |-> NowOf(file).to, round |-> RoundAt(file, Len(file))]
    BY NowFacts
  <2> QED
    BY <2>3, <2>4, <2>5, <2>6
<1> DEFINE fresh == [to |-> "LOBBY", round |-> 0]
<1>3. ~HasEnd(file, <<>>)
  BY <1>1 DEF HasEnd
<1>4. ~PhaseAfter(file, LastRead(<<>>)) => fresh.round = NowOf(file).round /\ fresh = NowOf(file)
  <2>1. ~PhaseAfter(file, 0) => fresh = NowOf(file)
    BY <1>2
  <2> QED
    BY <1>1, <2>1
<1> HIDE DEF fresh
<1>5. Waits(file, NowOf(file), fresh, ok, <<>>)
  BY <1>3, <1>4 DEF Waits
<1> QED
  BY <1>5 DEF fresh

\* Frames that tell nothing of the game are queued.
LEMMA GoneQuiet ==
  ASSUME NEW file, NEW now, NEW s, NEW ok, NEW q \in Seq(Frames), NEW read, NEW g \in Seq(Frames),
         Gone(file, now, s, ok, q, read), \A k \in 1 .. Len(g) : g[k].type # "game_event"
  PROVE  Gone(file, now, s, ok, q \o g, read)
<1> DEFINE h == q \o g
<1>1. /\ Len(q) \in Nat /\ Len(g) \in Nat /\ Len(h) = Len(q) + Len(g)
      /\ \A k \in 1 .. Len(q) : k \in 1 .. Len(h) /\ h[k] = q[k]
      /\ \A k \in 1 .. Len(h) : k > Len(q) => k - Len(q) \in 1 .. Len(g) /\ h[k] = g[k - Len(q)]
  OBVIOUS
<1> HIDE DEF h
<1>2. ASSUME NEW n \in 1 .. Len(h), NEW k \in 0 .. n - 1,
             h[n].type = "game_event", file[h[n].seq].type = "GAME_OVER",
             Tells(ok, h, k), Silent(h, k, n)
      PROVE  TellsOf(s, h, k).round = now.round
  <2>1. n \in 1 .. Len(q) /\ h[n] = q[n]
    BY <1>1, <1>2
  <2>2. \A m \in 1 .. n : m \in 1 .. Len(q) /\ h[m] = q[m]
    BY <1>1, <2>1
  <2>3. k # 0 => k \in 1 .. n
    BY <2>1
  <2>4. Tells(ok, q, k) /\ TellsOf(s, h, k) = TellsOf(s, q, k)
    BY <1>2, <2>2, <2>3 DEF Tells, TellsOf
  <2>5. Silent(q, k, n)
    <3>1. \A m \in k + 1 .. n : m \in 1 .. n
      BY <2>1
    <3> QED
      BY <1>2, <2>2, <3>1 DEF Silent
  <2> QED
    BY <1>2, <2>1, <2>4, <2>5 DEF Gone
<1>3. ok /\ HasEnd(file, read) => s = [to |-> "GAME_OVER", round |-> now.round]
  BY DEF Gone
<1> QED
  BY <1>2, <1>3 DEF Gone, h

LEMMA OpenWatched ==
  ASSUME NEW file, NEW cn, NEW q, NEW l, NEW read, NEW s, NEW ok, NEW cn2,
         cn.at = "open", cn2 = [at |-> cn.at, out |-> q, last |-> l],
         Over(file) => Gone(file, NowOf(file), s, ok, q, read),
         ~Over(file) => Going(file, NowOf(file), s, ok, q, l)
  PROVE  Watched(file, cn2, read, s, ok)
<1>1. cn2.at = "open" /\ cn2.out = q /\ cn2.last = l
  OBVIOUS
<1> QED
  BY <1>1 DEF Watched

LEMMA WatchedAudio ==
  ASSUME NEW file \in Seq(Events), NEW eyes, eyes # "GM", NEW cn \in Conns, NEW read,
         NEW s, NEW ok \in BOOLEAN, NEW f \in AudioFrames, cn.at = "open",
         Watched(file, cn, read, s, ok)
  PROVE  Watched(file, Queue(cn, eyes, <<f>>), read, s, ok)
<1>1. f \in Frames /\ ~Says(f) /\ f.type # "game_event"
  BY FrameTypes DEF Says
<1>2. <<f>> \in Seq(Frames) /\ Len(<<f>>) = 1 /\ <<f>>[1] = f
  BY <1>1
<1>3. PICK frames \in Seq(Frames) : frames = <<f>>
  BY <1>2
<1>4. \A k \in 1 .. Len(frames) : frames[k] = f
  BY <1>2, <1>3
<1>5. PICK g \in Seq(Frames) : \E a, l :
         /\ Queue(cn, eyes, frames) = [at |-> cn.at, out |-> cn.out \o g, last |-> l]
         /\ Picks(g, frames, a) /\ Ends(cn.last, g, frames, a, l)
  BY QueueEnds
<1>6. PICK a, l : /\ Queue(cn, eyes, frames) = [at |-> cn.at, out |-> cn.out \o g, last |-> l]
               /\ Picks(g, frames, a) /\ Ends(cn.last, g, frames, a, l)
  BY <1>5
<1>7. \A k \in 1 .. Len(g) : g[k].type # "game_event"
  <2>1. \A k \in 1 .. Len(g) : a[k] \in 1 .. Len(frames) /\ g[k] = frames[a[k]]
    BY <1>6 DEF Picks
  <2> QED
    BY <1>1, <1>4, <2>1
<1>8. PICK q \in Seq(Frames) : q = cn.out
  BY DEF Conns
<1>9. PICK now : now = NowOf(file) /\ Stage(now)
  <2>1. NowOf(file) = [to |-> NowOf(file).to, round |-> RoundAt(file, Len(file))]
    BY NowFacts
  <2> QED
    BY <2>1 DEF Stage
<1>10. PICK cn2, q2 : cn2 = Queue(cn, eyes, <<f>>) /\ q2 = q \o g
  OBVIOUS
<1>11. cn2 = [at |-> cn.at, out |-> q2, last |-> l]
  BY <1>3, <1>6, <1>8, <1>10
<1>12. CASE Over(file)
  <2>1. Gone(file, now, s, ok, q, read)
    BY <1>8, <1>9, <1>12 DEF Watched
  <2>2. Gone(file, now, s, ok, q \o g, read)
    BY <1>7, <2>1, GoneQuiet
  <2> QED
    BY <1>9, <1>12, <1>10, <1>11, <2>2, OpenWatched
<1>13. CASE ~Over(file)
  <2>1. PICK last : last = cn.last
    OBVIOUS
  <2>2. Going(file, now, s, ok, q, last)
    BY <1>8, <1>9, <1>13, <2>1 DEF Watched
  <2>3. PICK first : first = Len(file) + 1
    OBVIOUS
  <2>4. Len(file) \in Nat /\ ~PhaseAfter(file, first - 1)
    BY <2>3 DEF PhaseAfter
  <2>5. Spells(frames, file, first, now)
    <3>1. \A k \in 1 .. Len(frames) : ~Says(frames[k]) /\ ~Names(file, frames[k])
      BY <1>1, <1>4 DEF Names
    <3> QED
      BY <2>4, <3>1 DEF Spells
  <2>6. Picks(g, frames, a) /\ Ends(last, g, frames, a, l)
    BY <1>6, <2>1
  <2>7. Going(file, now, s, ok, q \o g, l)
    BY <1>9, <2>2, <2>5, <2>6, GoingMore
  <2> QED
    BY <1>9, <1>13, <1>10, <1>11, <2>7, OpenWatched
<1> QED
  BY <1>12, <1>13

\* What the step of the engine that follows a file adds to it.
Adds(file, batch, file2) ==
    /\ file2 = file \o batch
    /\ ~Over(file)
    /\ \A i \in 1 .. Len(batch) : batch[i].type = "ROUND_STARTED" =>
          /\ \E j \in 1 .. Len(batch) : i < j /\ IsPhase(batch[j])
          /\ \A j \in 1 .. Len(batch) : batch[j].type # "GAME_OVER"

LEMMA AddsFacts ==
  ASSUME NEW file \in Seq(Events), NEW batch \in Seq(Events), NEW file2 \in Seq(Events),
         Adds(file, batch, file2)
  PROVE  /\ Len(file) \in Nat /\ Len(file2) \in Nat /\ Len(file) <= Len(file2)
         /\ \A i \in 1 .. Len(file) : i \in 1 .. Len(file2) /\ file2[i] = file[i] /\ file[i].type # "GAME_OVER"
         /\ ~PhaseAfter(file2, Len(file)) => NowOf(file2) = NowOf(file)
         /\ Over(file2) => NowOf(file2).round = NowOf(file).round
         /\ \A k \in 0 .. Len(file) : PhaseAfter(file, k) => PhaseAfter(file2, k)
         /\ \A k \in 0 .. Len(file) : PhaseAfter(file2, Len(file)) => PhaseAfter(file2, k)
<1>1. file2 = file \o batch
  BY DEF Adds
<1>2. /\ Len(file) \in Nat /\ Len(file2) \in Nat /\ Len(batch) \in Nat /\ Len(file2) = Len(file) + Len(batch)
      /\ \A i \in 1 .. Len(file) : i \in 1 .. Len(file2) /\ file2[i] = file[i]
      /\ \A i \in 1 .. Len(batch) : i + Len(file) \in 1 .. Len(file2) /\ file2[i + Len(file)] = batch[i]
      /\ \A i \in 1 .. Len(file2) : i > Len(file) => i - Len(file) \in 1 .. Len(batch) /\ file2[i] = batch[i - Len(file)]
  BY <1>1
<1>3. \A i \in 1 .. Len(file) : file[i].type # "GAME_OVER"
  BY DEF Adds, Over
<1>4. ASSUME ~PhaseAfter(file2, Len(file))
      PROVE  NowOf(file2) = NowOf(file)
  <2>1. ASSUME NEW j \in 1 .. Len(batch)
        PROVE  ~IsPhase(batch[j])
    <3>1. j + Len(file) \in Len(file) + 1 .. Len(file2)
      BY <1>2
    <3> QED
      BY <1>2, <1>4, <3>1 DEF PhaseAfter
  <2>2. \A j \in 1 .. Len(batch) : batch[j].type # "ROUND_STARTED"
    BY <2>1 DEF Adds
  <2> QED
    BY <1>1, <2>1, <2>2, NowStays
<1>5. ASSUME Over(file2)
      PROVE  NowOf(file2).round = NowOf(file).round
  <2>1. PICK i \in 1 .. Len(file2) : file2[i].type = "GAME_OVER"
    BY <1>5 DEF Over
  <2>2. i > Len(file)
    BY <1>2, <1>3, <2>1
  <2>3. PICK j \in 1 .. Len(batch) : batch[j].type = "GAME_OVER"
    BY <1>2, <2>1, <2>2
  <2>4. \A k \in 1 .. Len(batch) : batch[k].type # "ROUND_STARTED"
    BY <2>3 DEF Adds
  <2>5. \A k \in Len(file) + 1 .. Len(file2) : file2[k].type # "ROUND_STARTED"
    <3> SUFFICES ASSUME NEW k \in Len(file) + 1 .. Len(file2)
                 PROVE  file2[k].type # "ROUND_STARTED"
      OBVIOUS
    <3>1. k \in 1 .. Len(file2) /\ k > Len(file)
      BY <1>2
    <3>2. k - Len(file) \in 1 .. Len(batch) /\ file2[k] = batch[k - Len(file)]
      BY <1>2, <3>1
    <3> QED
      BY <2>4, <3>2
  <2>6. Len(file) \in 0 .. Len(file2)
    BY <1>2
  <2>7. RoundAt(file2, Len(file)) = RoundAt(file2, Len(file2))
    BY <2>5, <2>6, RoundStays
  <2>8. RoundAt(file2, Len(file)) = RoundAt(file, Len(file))
    BY <1>1, RoundPrefix
  <2>9. /\ NowOf(file2) = [to |-> NowOf(file2).to, round |-> RoundAt(file2, Len(file2))]
        /\ NowOf(file) = [to |-> NowOf(file).to, round |-> RoundAt(file, Len(file))]
    BY NowFacts
  <2>10. NowOf(file2).round = RoundAt(file2, Len(file2)) /\ NowOf(file).round = RoundAt(file, Len(file))
    BY <2>9
  <2> QED
    BY <2>7, <2>8, <2>10
<1>6. ASSUME NEW k \in 0 .. Len(file), PhaseAfter(file, k)
      PROVE  PhaseAfter(file2, k)
  <2>1. PICK j \in k + 1 .. Len(file) : IsPhase(file[j])
    BY <1>6 DEF PhaseAfter
  <2>2. j \in 1 .. Len(file) /\ j \in k + 1 .. Len(file2)
    BY <1>2, <2>1
  <2> QED
    BY <1>2, <2>1, <2>2 DEF PhaseAfter
<1>7. ASSUME NEW k \in 0 .. Len(file), PhaseAfter(file2, Len(file))
      PROVE  PhaseAfter(file2, k)
  <2>1. PICK j \in Len(file) + 1 .. Len(file2) : IsPhase(file2[j])
    BY <1>7 DEF PhaseAfter
  <2>2. j \in k + 1 .. Len(file2)
    BY <1>2, <2>1
  <2> QED
    BY <2>1, <2>2 DEF PhaseAfter
<1> QED
  <2>1. \A i \in 1 .. Len(file) : i \in 1 .. Len(file2) /\ file2[i] = file[i] /\ file[i].type # "GAME_OVER"
    BY <1>2, <1>3
  <2>2. \A k \in 0 .. Len(file) : PhaseAfter(file, k) => PhaseAfter(file2, k)
    BY <1>6
  <2>3. \A k \in 0 .. Len(file) : PhaseAfter(file2, Len(file)) => PhaseAfter(file2, k)
    BY <1>7
  <2> QED
    BY <1>2, <1>4, <1>5, <2>1, <2>2, <2>3

\* A file grows while its events are on the way.
LEMMA GoingGrows ==
  ASSUME NEW file, NEW file2, NEW now, NEW s, NEW ok, NEW q, NEW l, Going(file, now, s, ok, q, l),
         \A i \in 1 .. Len(file) : file2[i] = file[i],
         \A k \in 1 .. Len(q) : q[k].type = "game_event" => q[k].seq \in 1 .. Len(file)
  PROVE  Going(file2, now, s, ok, q, l)
<1>1. \A k \in 1 .. Len(q) : Names(file2, q[k]) => Names(file, q[k]) /\ file2[q[k].seq] = file[q[k].seq]
  BY DEF Names
<1>2. \A k \in 1 .. Len(q) : Names(file2, q[k]) /\ Silent(q, k, Len(q)) => file2[q[k].seq].to = now.to
  BY <1>1 DEF Going
<1> QED
  BY <1>2 DEF Going

LEMMA WatchedBatch ==
  ASSUME NEW file \in Seq(Events), NEW batch \in Seq(Events), NEW file2 \in Seq(Events),
         Adds(file, batch, file2),
         NEW eyes, eyes # "GM", NEW cn \in Conns, NEW read \in Seq(Nat), NEW s, NEW ok \in BOOLEAN,
         Fed(file, eyes, "playing", cn, read), Watched(file, cn, read, s, ok), cn.at = "open"
  PROVE  Watched(file2, Queue(cn, eyes, Live(file2, Len(file) + 1, eyes, RoundAt(file2, Len(file2)))), read, s, ok)
<1>1. PICK first : first = Len(file) + 1
  OBVIOUS
<1>2. /\ Len(file) \in Nat /\ Len(file2) \in Nat /\ Len(file) <= Len(file2)
      /\ \A i \in 1 .. Len(file) : file2[i] = file[i] /\ file[i].type # "GAME_OVER"
      /\ ~PhaseAfter(file2, Len(file)) => NowOf(file2) = NowOf(file)
      /\ Over(file2) => NowOf(file2).round = NowOf(file).round
  BY AddsFacts
<1>3. first \in 1 .. Len(file2) + 1 /\ first - 1 = Len(file)
  BY <1>1, <1>2
<1>4. PICK frames \in Seq(Frames) : frames = Live(file2, first, eyes, RoundAt(file2, Len(file2)))
  <2>1. Len(file2) \in 0 .. Len(file2)
    BY <1>2
  <2>2. PICK round \in RoundNumbers : round = RoundAt(file2, Len(file2))
    BY <2>1, RoundFacts
  <2>3. Live(file2, first, eyes, round) \in Seq(GameFrames)
    BY <1>3, LiveFacts
  <2>4. Live(file2, first, eyes, round) \in Seq(Frames)
    BY <2>3, SeqMonotonic, FrameTypes
  <2> QED
    BY <2>2, <2>4
<1>5. PICK now, now2 : now = NowOf(file) /\ now2 = NowOf(file2)
  OBVIOUS
<1>6. Stage(now) /\ Stage(now2)
  <2>1. /\ NowOf(file) = [to |-> NowOf(file).to, round |-> RoundAt(file, Len(file))]
        /\ NowOf(file2) = [to |-> NowOf(file2).to, round |-> RoundAt(file2, Len(file2))]
    BY NowFacts
  <2>2. /\ now = [to |-> now.to, round |-> RoundAt(file, Len(file))]
        /\ now2 = [to |-> now2.to, round |-> RoundAt(file2, Len(file2))]
    BY <1>5, <2>1
  <2> QED
    BY <2>2 DEF Stage
<1>7. /\ Spells(frames, file2, first, now2)
      /\ \A j, k \in 1 .. Len(frames) : j < k /\ Says(frames[j]) => frames[k].type # "game_event"
  <2>1. LET F == Live(file2, first, eyes, RoundAt(file2, Len(file2)))
        IN  /\ Spells(F, file2, first, NowOf(file2))
            /\ \A j, k \in 1 .. Len(F) : j < k /\ Says(F[j]) => F[k].type # "game_event"
    BY <1>3, LiveSpells
  <2> QED
    BY <1>4, <1>5, <2>1
<1>8. PICK g \in Seq(Frames) : \E a, l :
         /\ Queue(cn, eyes, frames) = [at |-> cn.at, out |-> cn.out \o g, last |-> l]
         /\ Picks(g, frames, a) /\ Ends(cn.last, g, frames, a, l)
  BY QueueEnds
<1>9. PICK a, l : /\ Queue(cn, eyes, frames) = [at |-> cn.at, out |-> cn.out \o g, last |-> l]
               /\ Picks(g, frames, a) /\ Ends(cn.last, g, frames, a, l)
  BY <1>8
<1>10. PICK last : last = cn.last
  OBVIOUS
<1>19. PICK q \in Seq(Frames) : q = cn.out
  BY DEF Conns
<1>11. ~Over(file)
  BY DEF Adds
<1>12. Going(file, now, s, ok, q, last)
  BY <1>5, <1>10, <1>11, <1>19 DEF Watched
<1>13. Range(read) \subseteq 1 .. Len(file) /\ \A k \in 1 .. Len(q) : q[k].type = "game_event" => q[k].seq \in 1 .. Len(file)
  BY <1>19, WatchedFacts
<1>14. PICK cn2, q2 : cn2 = Queue(cn, eyes, frames) /\ q2 = q \o g
  OBVIOUS
<1>15. cn2 = [at |-> cn.at, out |-> q2, last |-> l]
  BY <1>9, <1>10, <1>14, <1>19
<1>16. ASSUME Over(file2)
       PROVE  Gone(file2, now2, s, ok, q2, read)
  <2>1. now2.round = now.round
    BY <1>2, <1>5, <1>16
  <2>2. \A i \in 1 .. Len(file) : file2[i] = file[i]
    BY <1>2
  <2>3. Picks(g, frames, a)
    BY <1>9
  <2>4. Gone(file2, now2, s, ok, q \o g, read)
    BY <1>7, <1>11, <1>12, <1>13, <2>1, <2>2, <2>3, GoneMore
  <2> QED
    BY <1>14, <2>4
<1>17. ASSUME ~Over(file2)
       PROVE  Going(file2, now2, s, ok, q2, l)
  <2>1. Going(file2, now, s, ok, q, last)
    BY <1>2, <1>12, <1>13, GoingGrows
  <2>2. PhaseAfter(file2, first - 1) \/ now2 = now
    BY <1>2, <1>3, <1>5
  <2>3. Picks(g, frames, a) /\ Ends(last, g, frames, a, l)
    BY <1>9, <1>10
  <2>4. Going(file2, now2, s, ok, q \o g, l)
    <3>1. Stage(now)
      BY <1>6
    <3>2. Stage(now2)
      BY <1>6
    <3>3. Spells(frames, file2, first, now2)
      BY <1>7
    <3> QED
      BY <2>1, <2>2, <2>3, <3>1, <3>2, <3>3, GoingMore
  <2> QED
    BY <1>14, <2>4
<1>18. Watched(file2, cn2, read, s, ok)
  BY <1>5, <1>15, <1>16, <1>17, OpenWatched
<1> QED
  BY <1>1, <1>4, <1>14, <1>18

LEMMA WatchedWaits ==
  ASSUME NEW file \in Seq(Events), NEW batch \in Seq(Events), NEW file2 \in Seq(Events),
         Adds(file, batch, file2),
         NEW eyes, NEW cn \in Conns, NEW read \in Seq(Nat), NEW s, NEW ok,
         Fed(file, eyes, "playing", cn, read), Watched(file, cn, read, s, ok), cn.at # "open"
  PROVE  Watched(file2, cn, read, s, ok)
<1> SUFFICES ASSUME cn.at \in {"away", "broken"}
             PROVE  Waits(file2, NowOf(file2), s, ok, read)
  BY DEF Watched
<1>1. Waits(file, NowOf(file), s, ok, read)
  BY DEF Watched
<1>2. Range(read) \subseteq 1 .. Len(file) /\ LastRead(read) \in 0 .. Len(file)
  BY WatchedFacts
<1>3. /\ \A i \in 1 .. Len(file) : file2[i] = file[i] /\ file[i].type # "GAME_OVER"
      /\ ~PhaseAfter(file2, Len(file)) => NowOf(file2) = NowOf(file)
      /\ PhaseAfter(file, LastRead(read)) => PhaseAfter(file2, LastRead(read))
      /\ PhaseAfter(file2, Len(file)) => PhaseAfter(file2, LastRead(read))
  BY <1>2, AddsFacts
<1>4. ~HasEnd(file2, read)
  BY <1>2, <1>3 DEF HasEnd
<1>5. ASSUME ok, ~PhaseAfter(file2, LastRead(read))
      PROVE  s = NowOf(file2)
  <2>1. ~PhaseAfter(file, LastRead(read)) /\ NowOf(file2) = NowOf(file)
    BY <1>3, <1>5
  <2>2. ~Over(file)
    BY DEF Adds
  <2> QED
    BY <1>1, <1>5, <2>1, <2>2 DEF Waits
<1> QED
  BY <1>4, <1>5 DEF Waits

\* Everybody is told the end.
LEMMA EndSeen ==
  ASSUME NEW file \in Seq(Events), NEW i \in 1 .. Len(file), file[i].type = "GAME_OVER", NEW eyes
  PROVE  Visible(file[i], eyes) /\ ~IsPhase(file[i]) /\ file[i].type # "ROUND_STARTED"
<1>1. file[i] \in Events
  OBVIOUS
<1>2. file[i].sees = "PUBLIC"
  BY <1>1, ScriptAssumption
<1> QED
  BY <1>2 DEF Visible, IsPhase

LEMMA WatchedConnect ==
  ASSUME NEW file \in Seq(Events), EndsOnce(file), RoundsTold(file), NEW eyes, eyes # "GM",
         NEW cn \in Conns, NEW read \in Seq(Nat), NEW s, Stage(s), NEW ok \in BOOLEAN,
         Fed(file, eyes, "playing", cn, read), Watched(file, cn, read, s, ok), cn.at \in {"away", "broken"},
         NEW first, first - 1 = LastRead(read), first = LastRead(read) + 1
  PROVE  Watched(file, Queue(Closed("open"), eyes,
                             FramesOf(file, first, eyes, {"event", "phase"}, [i \in DOMAIN file |-> RoundAt(file, i)])),
                 read, s, ok)
<1>1. LastRead(read) \in 0 .. Len(file) /\ Len(file) \in Nat
  <2>1. Len(file) \in Nat
    OBVIOUS
  <2>2. LastRead(read) \in 0 .. Len(file)
    BY WatchedFacts
  <2> QED
    BY <2>1, <2>2
<1>2. first \in 1 .. Len(file) + 1
  BY <1>1
<1>3. PICK Rounds : Rounds = [i \in DOMAIN file |-> RoundAt(file, i)]
  OBVIOUS
<1>4. PICK kinds : kinds = {"event", "phase"}
  OBVIOUS
<1>5. \A i \in 1 .. Len(file) : Rounds[i] = RoundAt(file, i) /\ Rounds[i] \in RoundNumbers
  BY <1>1, <1>3, RoundFacts
<1>6. PICK frames \in Seq(Frames) :
         /\ frames = FramesOf(file, first, eyes, kinds, Rounds)
         /\ Carries(frames, {i \in first .. Len(file) : "event" \in kinds /\ Visible(file[i], eyes)})
  <2>1. /\ FramesOf(file, first, eyes, kinds, Rounds) \in Seq(GameFrames)
        /\ Carries(FramesOf(file, first, eyes, kinds, Rounds),
                   {i \in first .. Len(file) : "event" \in kinds /\ Visible(file[i], eyes)})
    BY <1>2, <1>5, FramesOfFacts
  <2>2. FramesOf(file, first, eyes, kinds, Rounds) \in Seq(Frames)
    BY <2>1, SeqMonotonic, FrameTypes
  <2> QED
    BY <2>1, <2>2
<1>7. PICK now : now = NowOf(file) /\ Stage(now)
  <2>1. NowOf(file) = [to |-> NowOf(file).to, round |-> RoundAt(file, Len(file))]
    BY NowFacts
  <2> QED
    BY <2>1 DEF Stage
<1>8. /\ Spells(frames, file, first, now)
      /\ \A j, k \in 1 .. Len(frames) :
            j < k /\ frames[j].type = "game_event" /\ Says(frames[k]) =>
               frames[j].seq < Len(file) \/ IsPhase(file[Len(file)])
  <2>1. \A i \in 1 .. Len(file) : file[i].type = "ROUND_STARTED" => PhaseAfter(file, i)
    BY DEF RoundsTold
  <2>2. LET F == FramesOf(file, first, eyes, {"event", "phase"}, Rounds)
        IN  /\ Spells(F, file, first, NowOf(file))
            /\ \A j, k \in 1 .. Len(F) :
                  j < k /\ F[j].type = "game_event" /\ Says(F[k]) => F[j].seq < Len(file) \/ IsPhase(file[Len(file)])
    BY <1>2, <1>5, <2>1, HistorySpells
  <2> QED
    BY <1>4, <1>6, <1>7, <2>2
<1>9. \A j, k \in 1 .. Len(frames) :
         j < k /\ frames[j].type = "game_event" /\ file[frames[j].seq].type = "GAME_OVER" => ~Says(frames[k])
  <2> SUFFICES ASSUME NEW j \in 1 .. Len(frames), NEW k \in 1 .. Len(frames), j < k,
                      frames[j].type = "game_event", file[frames[j].seq].type = "GAME_OVER", Says(frames[k])
               PROVE  FALSE
    OBVIOUS
  <2>1. frames[j].seq \in 1 .. Len(file)
    BY <1>2, <1>6 DEF Carries
  <2>2. frames[j].seq = Len(file)
    BY <2>1 DEF EndsOnce
  <2>3. ~IsPhase(file[Len(file)])
    BY <2>1, <2>2, EndSeen
  <2> QED
    BY <1>1, <1>8, <2>2, <2>3
<1>10. PICK fresh \in Conns : /\ fresh = Closed("open") /\ fresh.at = "open" /\ fresh.last = None /\ fresh.out = <<>>
  <2>1. Closed("open") = [at |-> "open", out |-> <<>>, last |-> None]
    BY DEF Closed
  <2>2. Closed("open") \in Conns
    BY DEF Closed, Conns
  <2> QED
    BY <2>1, <2>2
<1>11. PICK g \in Seq(Frames) : \E a, l :
         /\ Queue(fresh, eyes, frames) = [at |-> fresh.at, out |-> fresh.out \o g, last |-> l]
         /\ Picks(g, frames, a) /\ Ends(fresh.last, g, frames, a, l)
  BY QueueEnds
<1>12. PICK a, l : /\ Queue(fresh, eyes, frames) = [at |-> fresh.at, out |-> fresh.out \o g, last |-> l]
                   /\ Picks(g, frames, a) /\ Ends(fresh.last, g, frames, a, l)
  BY <1>11
<1>13. PICK q \in Seq(Frames), q2 \in Seq(Frames) : q = <<>> /\ q2 = q \o g /\ q2 = g
  <2>1. <<>> \in Seq(Frames) /\ <<>> \o g = g
    OBVIOUS
  <2> QED
    BY <2>1
<1>14. PICK none, cn2 : none = None /\ cn2 = Queue(fresh, eyes, frames)
  OBVIOUS
<1>15. cn2 = [at |-> fresh.at, out |-> q2, last |-> l]
  BY <1>10, <1>12, <1>13, <1>14
<1>16. Waits(file, now, s, ok, read)
  BY <1>7 DEF Watched
<1>17. Picks(g, frames, a) /\ Ends(none, g, frames, a, l)
  BY <1>10, <1>12, <1>14
<1>18. ASSUME Over(file)
       PROVE  Gone(file, now, s, ok, q2, read)
  <2>1. Ends(None, g, frames, a, l)
    BY <1>14, <1>17
  <2>2. Gone(file, now, s, ok, g, read)
    BY <1>8, <1>9, <1>16, <1>17, <1>18, <2>1, GoneFresh
  <2> QED
    BY <1>13, <2>2
<1>19. ASSUME ~Over(file)
       PROVE  Going(file, now, s, ok, q2, l)
  <2>1. PICK old : old = IF ok THEN s ELSE now
    OBVIOUS
  <2>2. Stage(old)
    BY <1>7, <2>1
  <2>3. Going(file, old, s, ok, q, none)
    <3>1. \A k \in 0 .. Len(q) : k = 0
      BY <1>13
    <3>2. \A k \in 1 .. Len(q) : FALSE
      BY <1>13
    <3>3. \A k \in 0 .. Len(q) : Tells(ok, q, k) => TellsOf(s, q, k) = old
      BY <2>1, <3>1 DEF Tells, TellsOf
    <3> QED
      BY <1>14, <3>2, <3>3 DEF Going
  <2>4. PhaseAfter(file, first - 1) \/ now = old
    BY <1>16, <1>19, <2>1 DEF Waits
  <2>5. Spells(frames, file, first, now)
    BY <1>8
  <2>6. Stage(now)
    BY <1>7
  <2>7. Going(file, now, s, ok, q \o g, l)
    BY <1>17, <2>2, <2>3, <2>4, <2>5, <2>6, GoingMore
  <2> QED
    BY <1>13, <2>7
<1>20. Watched(file, cn2, read, s, ok)
  BY <1>7, <1>10, <1>15, <1>18, <1>19, OpenWatched
<1> QED
  BY <1>3, <1>4, <1>6, <1>10, <1>14, <1>20

\* The connection breaks before the end has been read.
LEMMA WatchedBreaks ==
  ASSUME NEW file \in Seq(Events), NEW eyes, NEW cn \in Conns, NEW read \in Seq(Nat), NEW s,
         NEW ok \in BOOLEAN, NEW ok2 \in BOOLEAN, NEW cn2, cn2.at # "open",
         Fed(file, eyes, "playing", cn, read), Watched(file, cn, read, s, ok), cn.at = "open",
         ~HasEnd(file, read), ok2 => ok /\ \A k \in 1 .. Len(cn.out) : ~Says(cn.out[k])
  PROVE  Watched(file, cn2, read, s, ok2)
<1> SUFFICES ASSUME ok2
             PROVE  IF Over(file) THEN s.round = NowOf(file).round ELSE s = NowOf(file)
  BY DEF Watched, Waits
<1>1. PICK q \in Seq(Frames) : q = cn.out
  BY DEF Conns
<1>2. ok /\ \A n \in 0 .. Len(q) : Silent(q, 0, n)
  BY <1>1 DEF Silent
<1>3. Tells(ok, q, 0) /\ TellsOf(s, q, 0) = s
  BY <1>2 DEF Tells, TellsOf
<1>4. CASE ~Over(file)
  <2>1. Going(file, NowOf(file), s, ok, q, cn.last)
    BY <1>1, <1>4 DEF Watched
  <2>2. 0 \in 0 .. Len(q) /\ Len(q) \in 0 .. Len(q)
    OBVIOUS
  <2> QED
    BY <1>2, <1>3, <1>4, <2>1, <2>2 DEF Going
<1>5. CASE Over(file)
  <2>1. PICK i \in 1 .. Len(file) : file[i].type = "GAME_OVER"
    BY <1>5 DEF Over
  <2>2. i \notin Range(read)
    BY <2>1 DEF HasEnd
  <2>3. Carries(q, Owed(file, eyes, read, Len(file)))
    BY <1>1, WatchedFacts
  <2>4. i \in Owed(file, eyes, read, Len(file))
    BY <2>1, <2>2, EndSeen DEF Owed
  <2>5. PICK n \in 1 .. Len(q) : q[n] = EventFrame(i)
    BY <2>3, <2>4 DEF Carries
  <2>6. q[n].type = "game_event" /\ q[n].seq = i /\ 0 \in 0 .. n - 1 /\ n \in 0 .. Len(q)
    BY <2>5, FrameTypes
  <2>7. Gone(file, NowOf(file), s, ok, q, read)
    BY <1>1, <1>5 DEF Watched
  <2>8. s.round = NowOf(file).round
    BY <1>2, <1>3, <2>1, <2>6, <2>7 DEF Gone
  <2> QED
    BY <1>5, <2>8
<1> QED
  BY <1>4, <1>5

LEMMA AppendRange ==
  ASSUME NEW r \in Seq(Nat), NEW x \in Nat
  PROVE  Range(Append(r, x)) = Range(r) \cup {x}
<1>1. /\ Append(r, x) \in Seq(Nat) /\ Len(r) \in Nat /\ Len(Append(r, x)) = Len(r) + 1
      /\ Append(r, x)[Len(r) + 1] = x /\ Len(r) + 1 \in 1 .. Len(Append(r, x))
      /\ \A k \in 1 .. Len(r) : Append(r, x)[k] = r[k] /\ k \in 1 .. Len(Append(r, x))
      /\ \A k \in 1 .. Len(Append(r, x)) : k = Len(r) + 1 \/ k \in 1 .. Len(r)
  OBVIOUS
<1>2. /\ Range(r) = {r[k] : k \in 1 .. Len(r)}
      /\ Range(Append(r, x)) = {Append(r, x)[k] : k \in 1 .. Len(Append(r, x))}
  BY <1>1, RangeSeq
<1>3. \A y : y \in Range(Append(r, x)) => y \in Range(r) \cup {x}
  BY <1>1, <1>2
<1>4. \A y : y \in Range(r) \cup {x} => y \in Range(Append(r, x))
  BY <1>1, <1>2
<1> QED
  BY <1>3, <1>4

\* What the page shows after a frame, and what it has read.
After(file, read, s, f) ==
    IF f.type = "game_event"
    THEN LET e == file[f.seq]
         IN  CASE IsPhase(e) -> [s EXCEPT !.to = e.to]
               [] e.type = "ROUND_STARTED" -> [s EXCEPT !.round = e.round]
               [] e.type = "GAME_OVER" -> [s EXCEPT !.to = "GAME_OVER"]
               [] OTHER -> s
    ELSE IF f.type = "phase_change" /\ ~HasEnd(file, read)
    THEN [to |-> f.to, round |-> f.round]
    ELSE s
ReadAfter(read, f) == IF f.type = "game_event" THEN Append(read, f.seq) ELSE read

LEMMA AfterFacts ==
  ASSUME NEW file \in Seq(Events), NEW eyes, eyes # "GM", NEW read \in Seq(Nat), NEW s, Stage(s), NEW f \in Frames,
         f.type = "game_event" => f.seq \in 1 .. Len(file) /\ Visible(file[f.seq], eyes)
  PROVE  /\ Says(f) /\ ~HasEnd(file, read) => After(file, read, s, f) = [to |-> f.to, round |-> f.round]
         /\ Names(file, f) => After(file, read, s, f) = [s EXCEPT !.to = file[f.seq].to]
         /\ f.type = "game_event" /\ file[f.seq].type = "GAME_OVER" =>
               After(file, read, s, f) = [s EXCEPT !.to = "GAME_OVER"]
         /\ (Says(f) => HasEnd(file, read)) /\ ~Names(file, f)
            /\ ~(f.type = "game_event" /\ file[f.seq].type = "GAME_OVER") => After(file, read, s, f) = s
         /\ ~Says(f) => After(file, read, s, f).round = s.round
         /\ HasEnd(file, ReadAfter(read, f)) <=>
               \/ HasEnd(file, read)
               \/ f.type = "game_event" /\ file[f.seq].type = "GAME_OVER"
<1>1. f.type = "game_event" => /\ file[f.seq] \in Events /\ f.seq \in Nat
                               /\ file[f.seq].type # "ROUND_STARTED"
                               /\ (file[f.seq].type = "GAME_OVER" => ~IsPhase(file[f.seq]))
  <2> SUFFICES ASSUME f.type = "game_event"
               PROVE  /\ file[f.seq] \in Events /\ f.seq \in Nat
                      /\ file[f.seq].type # "ROUND_STARTED"
                      /\ (file[f.seq].type = "GAME_OVER" => ~IsPhase(file[f.seq]))
    OBVIOUS
  <2>1. PICK e \in Events : e = file[f.seq]
    OBVIOUS
  <2>2. e.type # "ROUND_STARTED"
    BY <2>1, PhaseSeen
  <2> QED
    BY <2>1, <2>2 DEF IsPhase
<1>2. Says(f) => f.type # "game_event"
  BY DEF Says
<1>3. Says(f) /\ ~HasEnd(file, read) => After(file, read, s, f) = [to |-> f.to, round |-> f.round]
  BY <1>2 DEF After, Says
<1>4. Names(file, f) => After(file, read, s, f) = [s EXCEPT !.to = file[f.seq].to]
  <2> SUFFICES ASSUME Names(file, f)
               PROVE  After(file, read, s, f) = [s EXCEPT !.to = file[f.seq].to]
    OBVIOUS
  <2>1. f.type = "game_event" /\ IsPhase(file[f.seq])
    BY DEF Names
  <2>2. file[f.seq].type # "ROUND_STARTED" /\ file[f.seq].type # "GAME_OVER"
    BY <2>1 DEF IsPhase
  <2> QED
    BY <2>1, <2>2 DEF After
<1>5. f.type = "game_event" /\ file[f.seq].type = "GAME_OVER" =>
         After(file, read, s, f) = [s EXCEPT !.to = "GAME_OVER"]
  BY <1>1 DEF After
<1>6. (Says(f) => HasEnd(file, read)) /\ ~Names(file, f)
      /\ ~(f.type = "game_event" /\ file[f.seq].type = "GAME_OVER") => After(file, read, s, f) = s
  <2>1. CASE f.type = "game_event"
    BY <1>1, <2>1 DEF After, Names
  <2>2. CASE f.type # "game_event"
    BY <2>2 DEF After, Says
  <2> QED
    BY <2>1, <2>2
<1>7. ~Says(f) => After(file, read, s, f).round = s.round
  <2> SUFFICES ASSUME ~Says(f)
               PROVE  After(file, read, s, f).round = s.round
    OBVIOUS
  <2>1. \A to : [s EXCEPT !.to = to].round = s.round
    <3> SUFFICES ASSUME NEW to
                 PROVE  [s EXCEPT !.to = to].round = s.round
      OBVIOUS
    <3>1. PICK r : s = [to |-> r.to, round |-> r.round]
      BY DEF Stage
    <3>2. [s EXCEPT !.to = to] = [to |-> to, round |-> r.round] /\ s.round = r.round
      BY <3>1
    <3> QED
      BY <3>2
  <2>2. CASE Names(file, f)
    BY <1>4, <2>1, <2>2
  <2>3. CASE f.type = "game_event" /\ file[f.seq].type = "GAME_OVER"
    BY <1>5, <2>1, <2>3
  <2>4. CASE ~Names(file, f) /\ ~(f.type = "game_event" /\ file[f.seq].type = "GAME_OVER")
    BY <1>6, <2>4
  <2> QED
    BY <2>2, <2>3, <2>4
<1>8. HasEnd(file, ReadAfter(read, f)) <=>
         \/ HasEnd(file, read)
         \/ f.type = "game_event" /\ file[f.seq].type = "GAME_OVER"
  <2>1. CASE f.type = "game_event"
    <3>1. PICK x \in Nat : x = f.seq
      BY <1>1, <2>1
    <3>2. ReadAfter(read, f) = Append(read, x)
      BY <2>1, <3>1 DEF ReadAfter
    <3>3. Range(ReadAfter(read, f)) = Range(read) \cup {x}
      BY <3>2, AppendRange
    <3> QED
      BY <2>1, <3>1, <3>3 DEF HasEnd
  <2>2. CASE f.type # "game_event"
    BY <2>2 DEF ReadAfter
  <2> QED
    BY <2>1, <2>2
<1> QED
  BY <1>3, <1>4, <1>5, <1>6, <1>7, <1>8

LEMMA AfterStage ==
  ASSUME NEW file, NEW read, NEW s, Stage(s), NEW f
  PROVE  Stage(After(file, read, s, f))
<1>1. PICK to, round : s = [to |-> to, round |-> round]
  BY DEF Stage
<1>2. /\ \A x : Stage([s EXCEPT !.to = x]) /\ Stage([s EXCEPT !.round = x])
      /\ \A x, y : Stage([to |-> x, round |-> y])
  BY <1>1 DEF Stage
<1>3. CASE f.type = "game_event"
  BY <1>2, <1>3 DEF After
<1>4. CASE f.type # "game_event"
  BY <1>2, <1>4 DEF After
<1> QED
  BY <1>3, <1>4

LEMMA WatchedSend ==
  ASSUME NEW file \in Seq(Events), EndsOnce(file), NEW eyes, eyes # "GM",
         NEW cn \in Conns, NEW read \in Seq(Nat), NEW s, Stage(s), NEW ok \in BOOLEAN, NEW ok2 \in BOOLEAN,
         Fed(file, eyes, "playing", cn, read), Watched(file, cn, read, s, ok), cn.at = "open", cn.out # <<>>,
         NEW f, f = Head(cn.out), (ok2 <=> (ok \/ (Says(f) /\ ~HasEnd(file, read)))),
         NEW cn2, cn2 = [at |-> cn.at, out |-> Tail(cn.out), last |-> cn.last]
  PROVE  Watched(file, cn2, ReadAfter(read, f), After(file, read, s, f), ok2)
<1>1. PICK q \in Seq(Frames) : q = cn.out
  BY DEF Conns
<1>2. PICK t \in Seq(Frames) :
         /\ t = Tail(q) /\ Len(t) \in Nat /\ Len(q) = Len(t) + 1 /\ 1 \in 1 .. Len(q)
         /\ Head(q) = q[1] /\ Head(q) \in Frames
         /\ \A k \in 1 .. Len(t) : k + 1 \in 1 .. Len(q) /\ t[k] = q[k + 1]
  BY <1>1, TailFacts
<1>3. f \in Frames /\ f = q[1]
  BY <1>1, <1>2
<1>4. Len(file) \in Nat /\ Range(read) \subseteq 1 .. Len(file)
  <2>1. Len(file) \in Nat
    OBVIOUS
  <2>2. Range(read) \subseteq 1 .. Len(file)
    BY WatchedFacts
  <2> QED
    BY <2>1, <2>2
<1>5. Carries(q, Owed(file, eyes, read, Len(file)))
  BY <1>1, WatchedFacts
<1>6. \A k \in 1 .. Len(q) : q[k].type = "game_event" => q[k].seq \in 1 .. Len(file) /\ Visible(file[q[k].seq], eyes)
  BY <1>5 DEF Carries, Owed
<1>7. f.type = "game_event" => f.seq \in 1 .. Len(file) /\ Visible(file[f.seq], eyes)
  BY <1>2, <1>3, <1>6
<1>8. PICK s2, read2 : s2 = After(file, read, s, f) /\ read2 = ReadAfter(read, f)
  OBVIOUS
<1> DEFINE ends == f.type = "game_event" /\ file[f.seq].type = "GAME_OVER"
<1>9. /\ Says(f) /\ ~HasEnd(file, read) => s2 = [to |-> f.to, round |-> f.round]
      /\ Names(file, f) => s2 = [s EXCEPT !.to = file[f.seq].to]
      /\ ends => s2 = [s EXCEPT !.to = "GAME_OVER"]
      /\ (Says(f) => HasEnd(file, read)) /\ ~Names(file, f) /\ ~ends => s2 = s
      /\ ~Says(f) => s2.round = s.round
      /\ HasEnd(file, read2) <=> HasEnd(file, read) \/ ends
  <2>1. /\ Says(f) /\ ~HasEnd(file, read) => After(file, read, s, f) = [to |-> f.to, round |-> f.round]
        /\ Names(file, f) => After(file, read, s, f) = [s EXCEPT !.to = file[f.seq].to]
        /\ ends => After(file, read, s, f) = [s EXCEPT !.to = "GAME_OVER"]
        /\ (Says(f) => HasEnd(file, read)) /\ ~Names(file, f) /\ ~ends => After(file, read, s, f) = s
        /\ ~Says(f) => After(file, read, s, f).round = s.round
        /\ HasEnd(file, ReadAfter(read, f)) <=> HasEnd(file, read) \/ ends
    BY <1>3, <1>7, AfterFacts
  <2> QED
    BY <1>8, <2>1
\* Once the end has been read, nothing is left to read.
<1>10. ASSUME HasEnd(file, read)
       PROVE  \A k \in 1 .. Len(q) : q[k].type # "game_event"
  <2>1. PICK i \in Range(read) : file[i].type = "GAME_OVER"
    BY <1>10 DEF HasEnd
  <2>2. i \in 1 .. Len(file) /\ i = Len(file)
    BY <1>4, <2>1 DEF EndsOnce
  <2>3. \A j \in 1 .. Len(file) : Visible(file[j], eyes) => j \in Range(read)
    <3>1. \A j \in 1 .. Len(file) : j < i \/ j = i
      BY <1>4, <2>2
    <3>2. InOrder(file, eyes, read)
      BY DEF Fed
    <3> QED
      BY <2>1, <3>1, <3>2 DEF InOrder
  <2>4. \A x : x \notin Owed(file, eyes, read, Len(file))
    BY <2>3 DEF Owed
  <2> QED
    BY <1>5, <2>4 DEF Carries
\* And nothing is on its way behind the end.
<1>11. ASSUME HasEnd(file, read2)
       PROVE  \A k \in 1 .. Len(t) : t[k].type # "game_event"
  <2> SUFFICES ASSUME NEW k \in 1 .. Len(t), t[k].type = "game_event"
               PROVE  FALSE
    OBVIOUS
  <2>1. k + 1 \in 1 .. Len(q) /\ t[k] = q[k + 1] /\ 1 < k + 1
    BY <1>2
  <2>2. CASE HasEnd(file, read)
    BY <1>10, <2>1, <2>2
  <2>3. CASE ~HasEnd(file, read)
    <3>1. ends
      BY <1>9, <1>11, <2>3
    <3>2. f.seq = Len(file)
      BY <1>7, <3>1 DEF EndsOnce
    <3>3. q[k + 1].seq \in 1 .. Len(file) /\ q[1].seq < q[k + 1].seq
      BY <1>2, <1>3, <1>5, <1>6, <2>1, <3>1 DEF Carries
    <3> QED
      BY <1>3, <1>4, <3>2, <3>3
  <2> QED
    BY <2>2, <2>3
<1>12. PICK now : now = NowOf(file) /\ Stage(now)
  <2>1. NowOf(file) = [to |-> NowOf(file).to, round |-> RoundAt(file, Len(file))]
    BY NowFacts
  <2> QED
    BY <2>1 DEF Stage
<1>13. PICK last : last = cn.last
  OBVIOUS
<1>14. q # <<>> /\ cn2 = [at |-> cn.at, out |-> t, last |-> last]
  BY <1>1, <1>2, <1>13
<1>15. ASSUME Over(file)
       PROVE  Gone(file, now, s2, ok2, t, read2)
  <2>1. Gone(file, now, s, ok, q, read)
    BY <1>1, <1>12, <1>15 DEF Watched
  <2>2. HasEnd(file, read) => s2 = s /\ (ok2 <=> ok) /\ HasEnd(file, read2)
    <3> SUFFICES ASSUME HasEnd(file, read)
                 PROVE  s2 = s /\ (ok2 <=> ok) /\ HasEnd(file, read2)
      OBVIOUS
    <3>1. f.type # "game_event"
      BY <1>2, <1>3, <1>10
    <3> QED
      BY <1>9, <3>1 DEF Names
  <2>3. ASSUME ~HasEnd(file, read)
        PROVE  /\ (ok2 <=> (ok \/ Says(q[1])))
               /\ Says(q[1]) => s2 = [to |-> q[1].to, round |-> q[1].round] /\ ~HasEnd(file, read2)
               /\ ~Says(q[1]) => s2.round = s.round
               /\ HasEnd(file, read2) => /\ q[1].type = "game_event" /\ file[q[1].seq].type = "GAME_OVER"
                                         /\ s2 = [s EXCEPT !.to = "GAME_OVER"]
    <3>1. ends => ~Says(f)
      BY DEF Says
    <3> QED
      BY <1>3, <1>9, <2>3, <3>1
  <2>4. HasEnd(file, read2) =>
            \A k \in 1 .. Len(t) : ~(t[k].type = "game_event" /\ file[t[k].seq].type = "GAME_OVER")
    BY <1>11
  <2>5. HasEnd(file, read) => s2 = s /\ ok2 = ok /\ HasEnd(file, read2)
    BY <2>2
  <2> QED
    <3>1. q # <<>>
      BY <1>14
    <3>2. HasEnd(file, read2) =>
            \A k \in 1 .. Len(Tail(q)) : ~(Tail(q)[k].type = "game_event" /\ file[Tail(q)[k].seq].type = "GAME_OVER")
      BY <1>2, <2>4
    <3>3. Gone(file, now, s2, ok2, Tail(q), read2)
      BY <2>1, <2>3, <2>5, <3>1, <3>2, GoneNext
    <3> QED
      BY <1>2, <3>3
<1>16. ASSUME ~Over(file)
       PROVE  Going(file, now, s2, ok2, t, last)
  <2>1. Going(file, now, s, ok, q, last)
    BY <1>1, <1>12, <1>13, <1>16 DEF Watched
  <2>2. ~HasEnd(file, read) /\ ~ends
    BY <1>4, <1>7, <1>16 DEF Over, HasEnd
  <2>3. /\ (ok2 <=> (ok \/ Says(q[1])))
        /\ Says(q[1]) => s2 = [to |-> q[1].to, round |-> q[1].round]
        /\ Names(file, q[1]) => s2 = [s EXCEPT !.to = file[q[1].seq].to]
        /\ ~Says(q[1]) /\ ~Names(file, q[1]) => s2 = s
    BY <1>3, <1>9, <2>2
  <2>4. Stage(now)
    BY <1>12
  <2> QED
    <3>1. q # <<>>
      BY <1>14
    <3>2. Going(file, now, s2, ok2, Tail(q), last)
      BY <2>1, <2>3, <2>4, <3>1, GoingNext
    <3> QED
      BY <1>2, <3>2
<1>17. Watched(file, cn2, read2, s2, ok2)
  BY <1>12, <1>14, <1>15, <1>16, OpenWatched
<1> QED
  BY <1>8, <1>17

LEMMA ShownFacts ==
  ASSUME FeedInv, PhaseInv, NEW c \in Clients
  PROVE  /\ c \in Readers /\ conn[c] \in Conns /\ got[c] \in Seq(Nat) /\ log \in Seq(Events)
         /\ Fed(log, viewer[c], task, conn[c], got[c]) /\ Stage(shown[c])
         /\ got \in [Readers -> Seq(Nat)] /\ conn \in [Readers -> Conns] /\ shown = [d \in Clients |-> shown[d]]
         /\ task = "playing" =>
               /\ RoundsTold(log) /\ EndsOnce(log) /\ (Over(log) => done = Len(Script))
               /\ viewer[c] # "GM" => Watched(log, conn[c], got[c], shown[c], c \notin lost)
BY DEF FeedInv, FeedTypes, PhaseInv, Readers

LEMMA InitShows == Init => PhaseInv
<1> SUFFICES ASSUME Init
             PROVE  PhaseInv
  OBVIOUS
<1>1. /\ log = <<>> /\ lost = {} /\ shown = [c \in Clients |-> [to |-> "LOBBY", round |-> 0]]
      /\ conn = [r \in Readers |-> Closed(IF r \in Agents THEN "open" ELSE "away")]
      /\ got = [r \in Readers |-> <<>>]
  BY DEF Init
<1>2. PICK file \in Seq(Events) : file = log /\ Len(file) = 0
  <2>1. <<>> \in Seq(Events) /\ Len(<<>>) = 0
    OBVIOUS
  <2> QED
    BY <1>1, <2>1
<1>3. RoundsTold(file) /\ EndsOnce(file) /\ ~Over(file)
  <2>1. \A i \in 1 .. Len(file) : FALSE
    BY <1>2
  <2> QED
    BY <2>1 DEF RoundsTold, EndsOnce, Over
<1>4. ASSUME NEW c \in Clients
      PROVE  Stage(shown[c]) /\ Watched(file, conn[c], got[c], shown[c], c \notin lost)
  <2>1. c \in Readers /\ c \notin Agents
    BY BroadcastAssumption DEF Readers
  <2>2. conn[c].at = "away" /\ got[c] = <<>> /\ shown[c] = [to |-> "LOBBY", round |-> 0]
    BY <1>1, <2>1 DEF Closed
  <2>3. Stage(shown[c])
    BY <2>2 DEF Stage
  <2>4. PICK ok \in BOOLEAN : ok = (c \notin lost)
    OBVIOUS
  <2>5. Waits(file, NowOf(file), [to |-> "LOBBY", round |-> 0], ok, <<>>)
    BY <1>3, FreshWaits DEF RoundsTold
  <2>6. Watched(file, conn[c], got[c], shown[c], ok)
    BY <2>2, <2>5 DEF Watched
  <2> QED
    BY <2>3, <2>4, <2>6
<1>5. shown = [c \in Clients |-> shown[c]]
  BY <1>1
<1> QED
  BY <1>2, <1>3, <1>4, <1>5 DEF PhaseInv

\* A step of one client.
LEMMA ClientShows ==
  ASSUME FeedInv, PhaseInv, NEW c \in Clients, NEW cn2, NEW read2, NEW s2,
         UNCHANGED <<viewer, task, done, log>>,
         conn' = [conn EXCEPT ![c] = cn2], got' = [got EXCEPT ![c] = read2],
         shown' = [shown EXCEPT ![c] = s2], Stage(s2),
         \A d \in Clients : d # c => (d \in lost' <=> d \in lost),
         task = "playing" /\ viewer[c] # "GM" => Watched(log, cn2, read2, s2, c \notin lost')
  PROVE  PhaseInv'
<1>1. c \in Readers /\ DOMAIN conn = Readers /\ DOMAIN got = Readers /\ shown = [d \in Clients |-> shown[d]]
  BY ShownFacts
<1>2. /\ conn'[c] = cn2 /\ got'[c] = read2 /\ shown'[c] = s2 /\ shown' = [d \in Clients |-> shown'[d]]
      /\ \A d \in Clients : d # c => conn'[d] = conn[d] /\ got'[d] = got[d] /\ shown'[d] = shown[d]
  BY <1>1
<1>3. ASSUME NEW d \in Clients, d # c
      PROVE  /\ Stage(shown'[d])
             /\ task = "playing" /\ viewer[d] # "GM" => Watched(log, conn'[d], got'[d], shown'[d], d \notin lost')
  <2>1. (d \notin lost') = (d \notin lost)
    BY <1>3
  <2>2. conn'[d] = conn[d] /\ got'[d] = got[d] /\ shown'[d] = shown[d]
    BY <1>2, <1>3
  <2>3. /\ Stage(shown[d])
        /\ task = "playing" /\ viewer[d] # "GM" => Watched(log, conn[d], got[d], shown[d], d \notin lost)
    BY ShownFacts
  <2> QED
    BY <2>1, <2>2, <2>3
<1>4. ASSUME NEW d \in Clients
      PROVE  /\ Stage(shown'[d])
             /\ task = "playing" /\ viewer[d] # "GM" => Watched(log, conn'[d], got'[d], shown'[d], d \notin lost')
  <2>1. CASE d = c
    BY <1>2, <2>1
  <2>2. CASE d # c
    BY <1>3, <2>2
  <2> QED
    BY <2>1, <2>2
<1>5. task = "playing" => RoundsTold(log) /\ EndsOnce(log) /\ (Over(log) => done = Len(Script))
  BY DEF PhaseInv
<1> QED
  BY <1>2, <1>4, <1>5 DEF PhaseInv

LEMMA ConnectShows ==
  ASSUME FeedInv, PhaseInv, NEW c \in Clients, Connect(c)
  PROVE  PhaseInv'
<1>1. /\ UNCHANGED <<viewer, task, done, log, got, shown, lost>>
      /\ conn[c].at \in {"away", "broken"}
      /\ conn' = [conn EXCEPT ![c] = Backfill(viewer[c], LastSeq(c) + 1)]
  BY DEF Connect, runnerVars, voiceVars, clientVars
<1>2. /\ conn[c] \in Conns /\ got[c] \in Seq(Nat) /\ log \in Seq(Events) /\ Stage(shown[c])
      /\ Fed(log, viewer[c], task, conn[c], got[c])
      /\ got \in [Readers -> Seq(Nat)] /\ shown = [d \in Clients |-> shown[d]]
      /\ task = "playing" =>
            /\ RoundsTold(log) /\ EndsOnce(log)
            /\ viewer[c] # "GM" => Watched(log, conn[c], got[c], shown[c], c \notin lost)
  BY ShownFacts
<1>3. PICK cn2 : cn2 = Backfill(viewer[c], LastSeq(c) + 1)
  OBVIOUS
<1>4. ASSUME task = "playing", viewer[c] # "GM"
      PROVE  Watched(log, cn2, got[c], shown[c], c \notin lost')
  <2>1. PICK first : first = LastRead(got[c]) + 1
    OBVIOUS
  <2>2. PICK ok \in BOOLEAN : ok = (c \notin lost)
    OBVIOUS
  <2>3. PICK eyes : eyes = viewer[c]
    OBVIOUS
  <2>4. PICK cn \in Conns, read \in Seq(Nat) : cn = conn[c] /\ read = got[c]
    BY <1>2
  <2>5. PICK s : s = shown[c]
    OBVIOUS
  <2>6. PICK file \in Seq(Events) : file = log
    BY <1>2
  <2>7. /\ Fed(file, eyes, "playing", cn, read) /\ Watched(file, cn, read, s, ok)
        /\ cn.at \in {"away", "broken"} /\ Stage(s) /\ EndsOnce(file) /\ RoundsTold(file) /\ eyes # "GM"
    BY <1>1, <1>2, <1>4, <2>2, <2>3, <2>4, <2>5, <2>6
  <2>8. LastRead(read) \in Nat
    <3>1. LastRead(read) \in 0 .. Len(file)
      BY <2>7, WatchedFacts
    <3> QED
      BY <3>1
  <2>9. first = LastRead(read) + 1 /\ first - 1 = LastRead(read)
    BY <2>1, <2>4, <2>8
  <2>10. Watched(file, Queue(Closed("open"), eyes,
                             FramesOf(file, first, eyes, {"event", "phase"}, [i \in DOMAIN file |-> RoundAt(file, i)])),
                 read, s, ok)
    BY <2>7, <2>9, WatchedConnect
  <2>11. PICK frames \in Seq(Frames) :
            frames = FramesOf(file, first, eyes, {"event", "phase"}, [i \in DOMAIN file |-> RoundAt(file, i)])
    <3>1. first \in 1 .. Len(file) + 1
      <4>1. LastRead(read) \in 0 .. Len(file)
        BY <2>7, WatchedFacts
      <4>2. Len(file) \in Nat
        OBVIOUS
      <4> QED
        BY <2>9, <4>1, <4>2
    <3>2. PICK Rounds : Rounds = [i \in DOMAIN file |-> RoundAt(file, i)]
      OBVIOUS
    <3>3. \A i \in 1 .. Len(file) : Rounds[i] \in RoundNumbers
      BY <3>2, RoundFacts
    <3>4. FramesOf(file, first, eyes, {"event", "phase"}, Rounds) \in Seq(GameFrames)
      BY <3>1, <3>3, FramesOfFacts
    <3>5. FramesOf(file, first, eyes, {"event", "phase"}, Rounds) \in Seq(Frames)
      BY <3>4, SeqMonotonic, FrameTypes
    <3> QED
      BY <3>2, <3>5
  <2>12. frames \o <<>> = frames
    OBVIOUS
  <2>13. cn2 = Queue(Closed("open"), eyes, frames)
    <3>1. Backfill(eyes, first) = Queue(Closed("open"), eyes, frames \o <<>>)
      BY <1>4, <2>6, <2>11 DEF Backfill
    <3>2. LastSeq(c) + 1 = first
      BY <2>1 DEF LastSeq, LastRead
    <3> QED
      BY <1>3, <2>3, <2>12, <3>1, <3>2
  <2> QED
    BY <1>1, <2>2, <2>4, <2>5, <2>6, <2>10, <2>11, <2>13
<1>5. conn' = [conn EXCEPT ![c] = cn2]
  BY <1>1, <1>3
<1>6. got' = [got EXCEPT ![c] = got[c]] /\ shown' = [shown EXCEPT ![c] = shown[c]]
  <2>1. [got EXCEPT ![c] = got[c]] = got
    BY <1>2
  <2>2. [shown EXCEPT ![c] = shown[c]] = shown
    BY <1>2
  <2> QED
    BY <1>1, <2>1, <2>2
<1>7. PICK read2, s2 : read2 = got[c] /\ s2 = shown[c]
  OBVIOUS
<1>8. /\ got' = [got EXCEPT ![c] = read2] /\ shown' = [shown EXCEPT ![c] = s2] /\ Stage(s2)
      /\ task = "playing" /\ viewer[c] # "GM" => Watched(log, cn2, read2, s2, c \notin lost')
      /\ \A d \in Clients : d # c => (d \in lost' <=> d \in lost)
  BY <1>1, <1>2, <1>4, <1>6, <1>7
<1> QED
  BY <1>1, <1>5, <1>8, ClientShows

LEMMA SendShows ==
  ASSUME FeedInv, PhaseInv, NEW c \in Clients, Send(c)
  PROVE  PhaseInv'
<1> DEFINE frame == Head(conn[c].out)
           more == [conn[c] EXCEPT !.out = Tail(@)]
<1>1. /\ UNCHANGED <<viewer, task, done, log>>
      /\ conn[c].at = "open" /\ conn[c].out # <<>>
      /\ conn' = [conn EXCEPT ![c] = IF frame = CrashFrame THEN Closed("ended") ELSE more]
      /\ got' = IF frame.type = "game_event" THEN [got EXCEPT ![c] = Append(@, frame.seq)] ELSE got
      /\ shown' = [shown EXCEPT ![c] = Displayed(c, frame)]
      /\ lost' = IF frame.type = "phase_change" /\ ~IsOver(c) THEN lost \ {c} ELSE lost
  BY DEF Send, Open, runnerVars, voiceVars
<1>2. /\ conn[c] \in Conns /\ got[c] \in Seq(Nat) /\ log \in Seq(Events) /\ Stage(shown[c])
      /\ c \in Readers /\ got \in [Readers -> Seq(Nat)]
      /\ Fed(log, viewer[c], task, conn[c], got[c])
      /\ task = "playing" =>
            /\ RoundsTold(log) /\ EndsOnce(log)
            /\ viewer[c] # "GM" => Watched(log, conn[c], got[c], shown[c], c \notin lost)
  BY ShownFacts
<1>3. PICK f, cn2 : f = frame /\ cn2 = IF frame = CrashFrame THEN Closed("ended") ELSE more
  OBVIOUS
<1>4. PICK s2, read2 : s2 = Displayed(c, f) /\ read2 = ReadAfter(got[c], f)
  OBVIOUS
<1>5. IsOver(c) <=> HasEnd(log, got[c])
  BY DEF IsOver, HasEnd
<1>6. Stage(s2) /\ (viewer[c] # "GM" => s2 = After(log, got[c], shown[c], f))
  <2>1. viewer[c] # "GM" => Displayed(c, f) = After(log, got[c], shown[c], f)
    BY <1>5 DEF Displayed, After
  <2>2. CASE viewer[c] # "GM"
    <3>1. PICK s, t : s = shown[c] /\ t = After(log, got[c], s, f) /\ t = s2
      BY <1>4, <2>1, <2>2
    <3>2. Stage(s)
      BY <1>2, <3>1
    <3>3. Stage(After(log, got[c], s, f))
      BY <3>2, AfterStage
    <3> QED
      BY <2>2, <3>1, <3>3
  <2>3. CASE viewer[c] = "GM"
    <3>1. PICK to, round : shown[c] = [to |-> to, round |-> round]
      BY <1>2 DEF Stage
    <3>2. \A x : Stage([shown[c] EXCEPT !.to = x]) /\ Stage([shown[c] EXCEPT !.round = x])
      BY <3>1 DEF Stage
    <3>3. CASE f.type = "game_event"
      BY <1>2, <1>4, <2>3, <3>2, <3>3 DEF Displayed
    <3>4. CASE f.type # "game_event"
      BY <1>2, <1>4, <2>3, <3>4 DEF Displayed
    <3> QED
      BY <2>3, <3>3, <3>4
  <2> QED
    BY <2>2, <2>3
<1>7. got' = [got EXCEPT ![c] = read2]
  <2>1. [got EXCEPT ![c] = got[c]] = got
    BY <1>2
  <2> QED
    BY <1>1, <1>3, <1>4, <2>1 DEF ReadAfter
<1>8. conn' = [conn EXCEPT ![c] = cn2] /\ shown' = [shown EXCEPT ![c] = s2]
  BY <1>1, <1>3, <1>4
<1>9. \A d \in Clients : d # c => (d \in lost' <=> d \in lost)
  BY <1>1
<1>10. c \notin lost' <=> (c \notin lost \/ (Says(f) /\ ~HasEnd(log, got[c])))
  BY <1>1, <1>3, <1>5 DEF Says
<1>11. ASSUME task = "playing", viewer[c] # "GM"
       PROVE  Watched(log, cn2, read2, s2, c \notin lost')
  <2>1. CASE f = CrashFrame
    <3>1. cn2.at = "ended"
      BY <1>3, <2>1 DEF Closed
    <3> QED
      BY <3>1 DEF Watched
  <2>2. CASE f # CrashFrame
    <3>1. PICK ok \in BOOLEAN, ok2 \in BOOLEAN : ok = (c \notin lost) /\ ok2 = (c \notin lost')
      OBVIOUS
    <3>2. PICK eyes, s : eyes = viewer[c] /\ s = shown[c]
      OBVIOUS
    <3>3. PICK cn \in Conns, read \in Seq(Nat) : cn = conn[c] /\ read = got[c]
      BY <1>2
    <3>4. PICK file \in Seq(Events) : file = log
      BY <1>2
    <3>5. /\ Fed(file, eyes, "playing", cn, read) /\ Watched(file, cn, read, s, ok)
          /\ cn.at = "open" /\ cn.out # <<>> /\ Stage(s) /\ EndsOnce(file) /\ eyes # "GM"
          /\ f = Head(cn.out) /\ (ok2 <=> (ok \/ (Says(f) /\ ~HasEnd(file, read))))
      BY <1>1, <1>2, <1>3, <1>10, <1>11, <3>1, <3>2, <3>3, <3>4
    <3>6. cn2 = [at |-> cn.at, out |-> Tail(cn.out), last |-> cn.last]
      BY <1>3, <2>2, <3>3 DEF Conns
    <3>7. Watched(file, cn2, ReadAfter(read, f), After(file, read, s, f), ok2)
      BY <3>5, <3>6, WatchedSend
    <3>8. s2 = After(file, read, s, f) /\ read2 = ReadAfter(read, f)
      BY <1>4, <1>6, <1>11, <3>2, <3>3, <3>4
    <3> QED
      BY <3>1, <3>4, <3>7, <3>8
  <2> QED
    BY <2>1, <2>2
<1> QED
  BY <1>1, <1>6, <1>7, <1>8, <1>9, <1>11, ClientShows

LEMMA BreaksShows ==
  ASSUME FeedInv, PhaseInv, NEW c \in Clients, Breaks(c)
  PROVE  PhaseInv'
<1>1. /\ UNCHANGED <<viewer, task, done, log, got, shown>>
      /\ conn[c].at = "open"
      /\ conn' = [conn EXCEPT ![c] = Closed(IF IsOver(c) THEN "ended" ELSE "broken")]
      /\ lost' = IF \E n \in DOMAIN conn[c].out : conn[c].out[n].type = "phase_change"
                 THEN lost \cup {c} ELSE lost
  BY DEF Breaks, Open, runnerVars, voiceVars
<1>2. /\ conn[c] \in Conns /\ got[c] \in Seq(Nat) /\ log \in Seq(Events) /\ Stage(shown[c])
      /\ Fed(log, viewer[c], task, conn[c], got[c])
      /\ got \in [Readers -> Seq(Nat)] /\ shown = [d \in Clients |-> shown[d]]
      /\ task = "playing" =>
            (viewer[c] # "GM" => Watched(log, conn[c], got[c], shown[c], c \notin lost))
  BY ShownFacts
<1>3. PICK cn2, s2, read2 : /\ cn2 = Closed(IF IsOver(c) THEN "ended" ELSE "broken")
                            /\ s2 = shown[c] /\ read2 = got[c]
  OBVIOUS
<1>4. IsOver(c) <=> HasEnd(log, got[c])
  BY DEF IsOver, HasEnd
<1>5. cn2.at = IF HasEnd(log, got[c]) THEN "ended" ELSE "broken"
  BY <1>3, <1>4 DEF Closed
<1>6. c \notin lost' => c \notin lost /\ \A k \in 1 .. Len(conn[c].out) : ~Says(conn[c].out[k])
  <2>1. PICK q \in Seq(Frames) : q = conn[c].out
    BY <1>2 DEF Conns
  <2>2. DOMAIN q = 1 .. Len(q)
    OBVIOUS
  <2>3. c \notin lost' => c \notin lost /\ \A k \in DOMAIN q : q[k].type # "phase_change"
    BY <1>1, <2>1
  <2> QED
    BY <2>1, <2>2, <2>3 DEF Says
<1>7. ASSUME task = "playing", viewer[c] # "GM"
      PROVE  Watched(log, cn2, read2, s2, c \notin lost')
  <2>1. CASE HasEnd(log, got[c])
    <3>1. cn2.at = "ended"
      BY <1>5, <2>1
    <3> QED
      BY <3>1 DEF Watched
  <2>2. CASE ~HasEnd(log, got[c])
    <3>1. PICK ok \in BOOLEAN, ok2 \in BOOLEAN : ok = (c \notin lost) /\ ok2 = (c \notin lost')
      OBVIOUS
    <3>2. PICK eyes : eyes = viewer[c]
      OBVIOUS
    <3>3. PICK cn \in Conns, read \in Seq(Nat) : cn = conn[c] /\ read = got[c]
      BY <1>2
    <3>4. PICK file \in Seq(Events) : file = log
      BY <1>2
    <3>5. /\ Fed(file, eyes, "playing", cn, read) /\ Watched(file, cn, read, s2, ok) /\ cn.at = "open"
          /\ ~HasEnd(file, read) /\ (ok2 => ok /\ \A k \in 1 .. Len(cn.out) : ~Says(cn.out[k]))
      BY <1>1, <1>2, <1>3, <1>6, <1>7, <2>2, <3>1, <3>2, <3>3, <3>4
    <3>6. cn2.at # "open"
      BY <1>5, <2>2
    <3>7. Watched(file, cn2, read, s2, ok2)
      BY <3>5, <3>6, WatchedBreaks
    <3> QED
      BY <1>3, <3>1, <3>3, <3>4, <3>7
  <2> QED
    BY <2>1, <2>2
<1>8. got' = [got EXCEPT ![c] = read2] /\ shown' = [shown EXCEPT ![c] = s2]
  <2>1. [got EXCEPT ![c] = got[c]] = got
    BY <1>2
  <2>2. [shown EXCEPT ![c] = shown[c]] = shown
    BY <1>2
  <2> QED
    BY <1>1, <1>3, <2>1, <2>2
<1>9. \A d \in Clients : d # c => (d \in lost' <=> d \in lost)
  BY <1>1
<1>10. conn' = [conn EXCEPT ![c] = cn2] /\ Stage(s2)
  BY <1>1, <1>2, <1>3
<1> QED
  BY <1>1, <1>7, <1>8, <1>9, <1>10, ClientShows

LEMMA LeavesShows ==
  ASSUME FeedInv, PhaseInv, NEW c \in Clients, Leaves(c)
  PROVE  PhaseInv'
<1>1. /\ UNCHANGED <<viewer, task, done, log>>
      /\ conn' = [conn EXCEPT ![c] = Closed("away")]
      /\ got' = [got EXCEPT ![c] = <<>>]
      /\ shown' = [shown EXCEPT ![c] = [to |-> "LOBBY", round |-> 0]]
      /\ lost' = lost \ {c}
  BY DEF Leaves, runnerVars, voiceVars
<1>2. PICK cn2, s2, read2 : cn2 = Closed("away") /\ s2 = [to |-> "LOBBY", round |-> 0] /\ read2 = <<>>
  OBVIOUS
<1>3. log \in Seq(Events) /\ (task = "playing" => RoundsTold(log))
  BY ShownFacts
<1>4. ASSUME task = "playing"
      PROVE  Watched(log, cn2, read2, s2, c \notin lost')
  <2>1. PICK ok \in BOOLEAN : ok = (c \notin lost')
    OBVIOUS
  <2>2. Waits(log, NowOf(log), [to |-> "LOBBY", round |-> 0], ok, <<>>)
    BY <1>3, <1>4, FreshWaits DEF RoundsTold
  <2>3. cn2.at = "away"
    BY <1>2 DEF Closed
  <2> QED
    BY <1>2, <2>1, <2>2, <2>3 DEF Watched
<1>5. Stage(s2)
  BY <1>2 DEF Stage
<1>6. \A d \in Clients : d # c => (d \in lost' <=> d \in lost)
  BY <1>1
<1> QED
  BY <1>1, <1>2, <1>4, <1>5, <1>6, ClientShows

\* Speech, and the notice of a crash, are queued.
LEMMA VoiceShows ==
  ASSUME FeedInv, PhaseInv, VoiceBegin \/ VoicePart \/ VoiceEnd \/ VoiceFails
  PROVE  PhaseInv'
<1>1. UNCHANGED <<viewer, task, done, log, got, shown, lost>>
  BY DEF VoiceBegin, VoicePart, VoiceEnd, VoiceFails, NextSpoken, runnerVars, voiceVars, clientVars
<1>2. voice # <<>> /\ part \in Nat \cup {None} /\ None \notin Nat
  BY BroadcastAssumption DEF FeedInv, FeedTypes, VoiceBegin, VoicePart, VoiceEnd, VoiceFails
<1>3. Spoken \in Nat
  BY <1>2, SpokenFacts
<1>4. ASSUME NEW kind \in {"begin", "part", "end"}, NEW k \in Nat, Speak(kind, k)
      PROVE  \E f \in AudioFrames : \A c \in Clients :
                \/ conn'[c] = conn[c]
                \/ conn[c].at = "open" /\ conn'[c] = Queue(conn[c], viewer[c], <<f>>)
  <2>1. PICK f \in AudioFrames : f = AudioFrame(kind, Spoken, k)
    BY <1>3, AudioFrameType
  <2>2. \A c \in Clients : c \in Readers
    BY DEF Readers
  <2>3. \A r \in Readers :
           conn'[r] = IF r \in {c \in Clients : Visible(log[Spoken], viewer[c])} /\ Open(r)
                      THEN Queue(conn[r], viewer[r], <<f>>) ELSE conn[r]
    BY <1>4, <2>1 DEF Speak, QueueFor
  <2> QED
    BY <2>2, <2>3 DEF Open
<1>5. \E f \in AudioFrames : \A c \in Clients :
         \/ conn'[c] = conn[c]
         \/ conn[c].at = "open" /\ conn'[c] = Queue(conn[c], viewer[c], <<f>>)
  <2>1. CASE VoiceBegin
    BY <1>4, <2>1 DEF VoiceBegin
  <2>2. CASE VoicePart
    <3>1. PICK k \in part .. MaxParts - 1 : Speak("part", k)
      BY <2>2 DEF VoicePart
    <3>2. k \in Nat
      BY <1>2, <2>2, <3>1, BroadcastAssumption DEF VoicePart
    <3> QED
      BY <1>4, <3>1, <3>2
  <2>3. CASE VoiceEnd
    BY <1>4, <2>3 DEF VoiceEnd
  <2>4. CASE VoiceFails
    <3>1. conn' = conn
      BY <2>4 DEF VoiceFails
    <3>2. AudioFrame("begin", Spoken, 0) \in AudioFrames
      BY <1>3, AudioFrameType
    <3> QED
      BY <3>1, <3>2
  <2> QED
    BY <2>1, <2>2, <2>3, <2>4
<1>6. PICK f \in AudioFrames : \A c \in Clients :
         \/ conn'[c] = conn[c]
         \/ conn[c].at = "open" /\ conn'[c] = Queue(conn[c], viewer[c], <<f>>)
  BY <1>5
<1>7. ASSUME NEW c \in Clients, task = "playing", viewer[c] # "GM"
      PROVE  Watched(log, conn'[c], got[c], shown[c], c \notin lost)
  <2>1. /\ conn[c] \in Conns /\ log \in Seq(Events)
        /\ Watched(log, conn[c], got[c], shown[c], c \notin lost)
    BY <1>7, ShownFacts
  <2>2. PICK ok \in BOOLEAN : ok = (c \notin lost)
    OBVIOUS
  <2>3. PICK eyes, s, read : eyes = viewer[c] /\ s = shown[c] /\ read = got[c]
    OBVIOUS
  <2>4. PICK cn \in Conns : cn = conn[c]
    BY <2>1
  <2>5. PICK file \in Seq(Events) : file = log
    BY <2>1
  <2>6. Watched(file, cn, read, s, ok) /\ eyes # "GM"
    BY <1>7, <2>1, <2>2, <2>3, <2>4, <2>5
  <2>7. CASE conn'[c] = conn[c]
    BY <2>1, <2>7
  <2>8. CASE conn[c].at = "open" /\ conn'[c] = Queue(conn[c], viewer[c], <<f>>)
    <3>1. Watched(file, Queue(cn, eyes, <<f>>), read, s, ok)
      BY <2>4, <2>6, <2>8, WatchedAudio
    <3> QED
      BY <2>2, <2>3, <2>4, <2>5, <2>8, <3>1
  <2> QED
    BY <1>6, <2>7, <2>8
<1> QED
  BY <1>1, <1>7 DEF PhaseInv

LEMMA CrashShows ==
  ASSUME PhaseInv, CommitFails \/ CrashNotice
  PROVE  PhaseInv'
<1>1. task' = "crashed" /\ shown' = shown
  BY DEF CommitFails, CrashNotice, runnerVars, clientVars
<1> QED
  BY <1>1 DEF PhaseInv

LEMMA BatchAdds ==
  ASSUME FeedInv, PhaseInv, Idle,
         NEW batch \in Seq(Events), batch = Script[done + 1], NEW file2 \in Seq(Events), file2 = log \o batch
  PROVE  /\ Adds(log, batch, file2) /\ RoundsTold(file2) /\ EndsOnce(file2)
         /\ Over(file2) => done + 1 = Len(Script)
<1>1. /\ task = "playing" /\ done + 1 \in 1 .. Len(Script) /\ done \in Nat /\ Len(Script) \in Nat
  BY ScriptFacts
<1>2. log \in Seq(Events) /\ RoundsTold(log) /\ (Over(log) => done = Len(Script))
  BY <1>1 DEF FeedInv, FeedTypes, PhaseInv
<1>3. DOMAIN Script = 1 .. Len(Script) /\ DOMAIN batch = 1 .. Len(batch)
  BY BroadcastAssumption
<1>4. \A i \in 1 .. Len(batch) :
         /\ batch[i].type = "GAME_OVER" => done + 1 = Len(Script) /\ i = Len(batch)
         /\ batch[i].type = "ROUND_STARTED" =>
               /\ \E j \in 1 .. Len(batch) : i < j /\ IsPhase(batch[j])
               /\ \A j \in 1 .. Len(batch) : batch[j].type # "GAME_OVER"
  <2>1. PICK n \in DOMAIN Script : n = done + 1
    BY <1>1, <1>3
  <2>2. \A i \in DOMAIN Script[n] :
           /\ Script[n][i].type = "GAME_OVER" => n = Len(Script) /\ i = Len(Script[n])
           /\ Script[n][i].type = "ROUND_STARTED" =>
                 /\ \E j \in DOMAIN Script[n] : i < j /\ IsPhase(Script[n][j])
                 /\ \A j \in DOMAIN Script[n] : Script[n][j].type # "GAME_OVER"
    BY ScriptAssumption
  <2>3. batch = Script[n]
    BY <2>1
  <2> QED
    BY <1>3, <2>1, <2>2, <2>3
<1>5. ~Over(log)
  BY <1>1, <1>2
<1>6. Adds(log, batch, file2)
  BY <1>4, <1>5 DEF Adds
<1>7. /\ Len(log) \in Nat /\ Len(file2) \in Nat /\ Len(batch) \in Nat /\ Len(file2) = Len(log) + Len(batch)
      /\ \A i \in 1 .. Len(log) : file2[i] = log[i]
      /\ \A i \in 1 .. Len(batch) : i + Len(log) \in 1 .. Len(file2) /\ file2[i + Len(log)] = batch[i]
      /\ \A i \in 1 .. Len(file2) : i > Len(log) => i - Len(log) \in 1 .. Len(batch) /\ file2[i] = batch[i - Len(log)]
  BY <1>2
<1>8. ASSUME NEW i \in 1 .. Len(file2), file2[i].type = "GAME_OVER"
      PROVE  i = Len(file2) /\ done + 1 = Len(Script)
  <2>1. i > Len(log)
    <3> SUFFICES ASSUME i <= Len(log)
                 PROVE  FALSE
      BY <1>7
    <3>1. i \in 1 .. Len(log)
      BY <1>7
    <3> QED
      BY <1>5, <1>7, <1>8, <3>1 DEF Over
  <2>2. PICK k \in 1 .. Len(batch) : k = i - Len(log) /\ batch[k].type = "GAME_OVER"
    BY <1>7, <1>8, <2>1
  <2>3. k = Len(batch) /\ done + 1 = Len(Script)
    BY <1>4, <2>2
  <2>4. i \in Nat /\ Len(log) \in Nat /\ Len(batch) \in Nat /\ Len(file2) = Len(log) + Len(batch)
    BY <1>7
  <2>5. i - Len(log) = Len(batch)
    BY <2>2, <2>3
  <2>6. i = Len(file2)
    BY <2>4, <2>5
  <2> QED
    BY <2>3, <2>6
<1>9. ASSUME NEW i \in 1 .. Len(file2), file2[i].type = "ROUND_STARTED"
      PROVE  PhaseAfter(file2, i)
  <2>1. CASE i <= Len(log)
    <3>1. i \in 1 .. Len(log) /\ i \in 0 .. Len(log)
      BY <1>7, <2>1
    <3>2. PhaseAfter(log, i)
      BY <1>2, <1>7, <1>9, <3>1 DEF RoundsTold
    <3>3. PICK j \in i + 1 .. Len(log) : IsPhase(log[j])
      BY <3>2 DEF PhaseAfter
    <3>4. j \in 1 .. Len(log) /\ j \in i + 1 .. Len(file2)
      BY <1>7, <3>1, <3>3
    <3> QED
      BY <1>7, <3>3, <3>4 DEF PhaseAfter
  <2>2. CASE i > Len(log)
    <3>1. PICK k \in 1 .. Len(batch) : k = i - Len(log) /\ batch[k].type = "ROUND_STARTED"
      BY <1>7, <1>9, <2>2
    <3>2. PICK j \in 1 .. Len(batch) : k < j /\ IsPhase(batch[j])
      BY <1>4, <3>1
    <3>3. j + Len(log) \in i + 1 .. Len(file2) /\ file2[j + Len(log)] = batch[j]
      BY <1>7, <3>1, <3>2
    <3> QED
      BY <3>2, <3>3 DEF PhaseAfter
  <2> QED
    BY <1>7, <2>1, <2>2
<1>10. RoundsTold(file2) /\ EndsOnce(file2) /\ (Over(file2) => done + 1 = Len(Script))
  BY <1>8, <1>9 DEF RoundsTold, EndsOnce, Over
<1> QED
  BY <1>6, <1>10

LEMMA CommitShows ==
  ASSUME FeedInv, PhaseInv, Commit
  PROVE  PhaseInv'
<1>1. /\ task = "playing" /\ Script[done + 1] \in Seq(Events)
  BY ScriptFacts DEF Commit
<1>2. PICK batch \in Seq(Events) : batch = Script[done + 1]
  BY <1>1
<1>3. log \in Seq(Events)
  BY DEF FeedInv, FeedTypes
<1>4. PICK file2 \in Seq(Events) : file2 = log \o batch
  <2>1. log \o batch \in Seq(Events)
    BY <1>3
  <2> QED
    BY <2>1
<1>5. /\ log' = file2 /\ done' = done + 1 /\ task' = task /\ viewer' = viewer /\ Idle
      /\ shown' = shown /\ lost' = lost /\ BroadcastBatch(file2, Len(log) + 1)
  BY <1>2, <1>4 DEF Commit
<1>6. /\ Adds(log, batch, file2) /\ RoundsTold(file2) /\ EndsOnce(file2)
      /\ (Over(file2) => done + 1 = Len(Script))
  BY <1>2, <1>4, <1>5, BatchAdds
<1>7. ASSUME NEW c \in Clients
      PROVE  /\ ~Open(c) => conn'[c] = conn[c]
             /\ Open(c) => conn'[c] = Queue(conn[c], viewer[c],
                                            Live(file2, Len(log) + 1, viewer[c], RoundAt(file2, Len(file2))))
             /\ got'[c] = got[c]
  <2>1. c \in Readers /\ c \notin Agents
    BY BroadcastAssumption DEF Readers
  <2>2. BroadcastBatch(file2, Len(log) + 1)
    BY <1>5
  <2> QED
    BY <2>1, <2>2 DEF BroadcastBatch
<1>8. ASSUME NEW c \in Clients, viewer[c] # "GM"
      PROVE  Watched(file2, conn'[c], got[c], shown[c], c \notin lost)
  <2>1. /\ conn[c] \in Conns /\ got[c] \in Seq(Nat) /\ Fed(log, viewer[c], "playing", conn[c], got[c])
        /\ Watched(log, conn[c], got[c], shown[c], c \notin lost)
    BY <1>1, <1>8, ShownFacts
  <2>2. PICK ok \in BOOLEAN : ok = (c \notin lost)
    OBVIOUS
  <2>3. PICK eyes, s : eyes = viewer[c] /\ s = shown[c]
    OBVIOUS
  <2>4. PICK cn \in Conns, read \in Seq(Nat) : cn = conn[c] /\ read = got[c]
    BY <2>1
  <2>5. PICK file \in Seq(Events) : file = log
    BY <1>3
  <2>6. /\ Fed(file, eyes, "playing", cn, read) /\ Watched(file, cn, read, s, ok) /\ eyes # "GM"
        /\ Adds(file, batch, file2)
    BY <1>6, <1>8, <2>1, <2>2, <2>3, <2>4, <2>5
  <2>7. CASE Open(c)
    <3>1. cn.at = "open"
      BY <2>4, <2>7 DEF Open
    <3>2. Watched(file2, Queue(cn, eyes, Live(file2, Len(file) + 1, eyes, RoundAt(file2, Len(file2)))), read, s, ok)
      BY <2>6, <3>1, WatchedBatch
    <3> QED
      BY <1>7, <2>2, <2>3, <2>4, <2>5, <2>7, <3>2
  <2>8. CASE ~Open(c)
    <3>1. cn.at # "open"
      BY <2>4, <2>8 DEF Open
    <3>2. Watched(file2, cn, read, s, ok)
      BY <2>6, <3>1, WatchedWaits
    <3> QED
      BY <1>7, <2>2, <2>3, <2>4, <2>8, <3>2
  <2> QED
    BY <2>7, <2>8
<1>9. shown = [c \in Clients |-> shown[c]] /\ \A c \in Clients : Stage(shown[c])
  BY DEF PhaseInv
<1> QED
  BY <1>5, <1>6, <1>7, <1>8, <1>9 DEF PhaseInv

LEMMA StepShows ==
  ASSUME FeedInv, PhaseInv, [Next]_vars
  PROVE  PhaseInv'
<1>1. CASE Next
  BY <1>1, CommitShows, CrashShows, VoiceShows, ConnectShows, SendShows, BreaksShows, LeavesShows DEF Next
<1>2. CASE UNCHANGED vars
  BY <1>2 DEF vars, PhaseInv
<1> QED
  BY <1>1, <1>2

LEMMA PublicNow ==
  ASSUME log \in Seq(Events), RoundsTold(log)
  PROVE  PublicPhase = IF Over(log) THEN [to |-> "GAME_OVER", round |-> NowOf(log).round] ELSE NowOf(log)
<1> DEFINE phases == {i \in 1 .. Len(log) : IsPhase(log[i])}
<1>1. DOMAIN log = 1 .. Len(log) /\ Len(log) \in Nat
  OBVIOUS
<1>2. NowOf(log) = [to |-> IF phases = {} THEN "LOBBY" ELSE Public(log[Max(phases)].to),
                    round |-> RoundAt(log, Len(log))]
  BY DEF NowOf
<1>3. PublicPhase = [to |-> IF Over(log) THEN "GAME_OVER"
                            ELSE IF phases = {} THEN "LOBBY" ELSE Public(log[Max(phases)].to),
                     round |-> IF phases = {} THEN 0 ELSE RoundAt(log, Max(phases))]
  BY <1>1 DEF PublicPhase, Over
<1>4. RoundAt(log, Len(log)) = IF phases = {} THEN 0 ELSE RoundAt(log, Max(phases))
  <2>1. CASE phases = {}
    <3>1. \A j \in 0 + 1 .. Len(log) : log[j].type # "ROUND_STARTED"
      <4>1. \A i \in 1 .. Len(log) : ~PhaseAfter(log, i)
        BY <1>1, <2>1 DEF PhaseAfter
      <4> QED
        BY <4>1 DEF RoundsTold
    <3>2. 0 \in 0 .. Len(log)
      BY <1>1
    <3>3. RoundAt(log, 0) = RoundAt(log, Len(log))
      BY <3>1, <3>2, RoundStays
    <3>4. {j \in 1 .. 0 : log[j].type = "ROUND_STARTED"} = {}
      OBVIOUS
    <3>5. RoundAt(log, 0) = 0
      BY <3>4 DEF RoundAt
    <3> QED
      BY <2>1, <3>3, <3>5
  <2>2. CASE phases # {}
    <3>1. phases \subseteq 0 .. Len(log)
      BY <1>1
    <3>2. PICK m : m = Max(phases)
      OBVIOUS
    <3>3. m \in phases /\ \A x \in phases : x <= m
      BY <1>1, <2>2, <3>1, <3>2, LargestNumber
    <3>4. m \in 0 .. Len(log) /\ m \in Nat
      BY <3>3
    <3>5. ASSUME NEW j \in m + 1 .. Len(log)
          PROVE  log[j].type # "ROUND_STARTED"
      <4>1. ~PhaseAfter(log, j)
        <5> SUFFICES ASSUME NEW i \in j + 1 .. Len(log), IsPhase(log[i])
                     PROVE  FALSE
          BY DEF PhaseAfter
        <5>1. i \in 1 .. Len(log) /\ m < i
          BY <1>1, <3>4
        <5>2. i \in phases
          BY <5>1
        <5> QED
          BY <3>3, <3>4, <5>1, <5>2
      <4>2. j \in 1 .. Len(log)
        BY <1>1, <3>4
      <4> QED
        BY <4>1, <4>2 DEF RoundsTold
    <3>6. RoundAt(log, m) = RoundAt(log, Len(log))
      BY <3>4, <3>5, RoundStays
    <3> QED
      BY <2>2, <3>2, <3>6
  <2> QED
    BY <2>1, <2>2
<1> HIDE DEF phases
<1>5. NowOf(log).round = RoundAt(log, Len(log))
  BY <1>2
<1> QED
  BY <1>2, <1>3, <1>4, <1>5

LEMMA ShownHolds ==
  ASSUME FeedInv, PhaseInv
  PROVE  PhaseShown
<1> SUFFICES ASSUME NEW c \in Clients, Open(c), conn[c].out = <<>>,
                    viewer[c] # "GM", c \notin lost, task = "playing"
             PROVE  shown[c] = PublicPhase
  BY DEF PhaseShown
<1>1. /\ conn[c] \in Conns /\ got[c] \in Seq(Nat) /\ log \in Seq(Events)
      /\ Fed(log, viewer[c], "playing", conn[c], got[c]) /\ RoundsTold(log)
      /\ Watched(log, conn[c], got[c], shown[c], c \notin lost)
  BY ShownFacts
<1>2. PublicPhase = IF Over(log) THEN [to |-> "GAME_OVER", round |-> NowOf(log).round] ELSE NowOf(log)
  BY <1>1, PublicNow
<1>3. PICK q \in Seq(Frames) : q = <<>> /\ q = conn[c].out /\ Len(q) = 0
  <2>1. <<>> \in Seq(Frames) /\ Len(<<>>) = 0
    OBVIOUS
  <2> QED
    BY <2>1
<1>4. Watched(log, conn[c], got[c], shown[c], TRUE)
  <2>1. (c \notin lost) = TRUE
    OBVIOUS
  <2> QED
    BY <1>1, <2>1
<1>5. CASE ~Over(log)
  <2>1. Going(log, NowOf(log), shown[c], TRUE, q, conn[c].last)
    BY <1>3, <1>4, <1>5 DEF Watched, Open
  <2>2. 0 \in 0 .. Len(q) /\ Silent(q, 0, Len(q)) /\ Tells(TRUE, q, 0) /\ TellsOf(shown[c], q, 0) = shown[c]
    BY <1>3 DEF Silent, Tells, TellsOf
  <2>3. shown[c] = NowOf(log)
    BY <2>1, <2>2 DEF Going
  <2> QED
    BY <1>2, <1>5, <2>3
<1>6. CASE Over(log)
  <2>1. Gone(log, NowOf(log), shown[c], TRUE, q, got[c])
    BY <1>3, <1>4, <1>6 DEF Watched, Open
  <2>2. PICK i \in 1 .. Len(log) : log[i].type = "GAME_OVER"
    BY <1>6 DEF Over
  <2>3. Visible(log[i], viewer[c])
    BY <1>1, <2>2, EndSeen
  <2>4. Carries(q, Owed(log, viewer[c], got[c], Len(log)))
    <3>1. PICK cn \in Conns, read \in Seq(Nat), file \in Seq(Events) : cn = conn[c] /\ read = got[c] /\ file = log
      BY <1>1
    <3>2. PICK eyes : eyes = viewer[c]
      OBVIOUS
    <3>3. Fed(file, eyes, "playing", cn, read) /\ cn.at = "open"
      BY <1>1, <3>1, <3>2 DEF Open
    <3>4. Carries(cn.out, Owed(file, eyes, read, Len(file)))
      BY <3>3, WatchedFacts
    <3> QED
      BY <1>3, <3>1, <3>2, <3>4
  <2>5. i \notin Owed(log, viewer[c], got[c], Len(log))
    <3>1. \A k \in 1 .. Len(q) : FALSE
      BY <1>3
    <3> QED
      BY <2>4, <3>1 DEF Carries
  <2>6. i \in Range(got[c])
    BY <2>2, <2>3, <2>5 DEF Owed
  <2>7. HasEnd(log, got[c])
    BY <2>2, <2>6 DEF HasEnd
  <2>8. shown[c] = [to |-> "GAME_OVER", round |-> NowOf(log).round]
    BY <2>1, <2>7 DEF Gone
  <2> QED
    BY <1>2, <1>6, <2>8
<1> QED
  BY <1>5, <1>6

\* Someone who is not told the phases of the night sees which phase and which round it is
\* once all that was sent has arrived, for every script, whoever breaks off and comes
\* back where: live frames, those derived from history and the repetitions that are left
\* out add up (ws.py put_phase, connection.py public_phase, ws.ts).
THEOREM PhaseIsShown == Spec => []PhaseShown
<1>1. Init => FeedInv /\ PhaseInv
  BY InitFed, InitShows
<1>2. ASSUME FeedInv /\ PhaseInv, [Next]_vars
      PROVE  (FeedInv /\ PhaseInv)'
  BY <1>2, StepFeeds, StepShows DEF Feeds
<1>3. FeedInv /\ PhaseInv => PhaseShown
  BY ShownHolds
<1> QED
  BY <1>1, <1>2, <1>3, PTL DEF Spec
=============================================================================
