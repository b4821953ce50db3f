----------------------------- MODULE ServerProofs -----------------------------
(***************************************************************************)
(* Proofs about the server, for any number of users, games and requests    *)
(* that overlap in any way: first the accounts and their codes, then the   *)
(* games, their tokens and their reviews.                                  *)
(***************************************************************************)
EXTENDS ServerProps, FiniteSetTheorems, WellFoundedInduction, TLAPS

-----------------------------------------------------------------------------
(* The accounts *)

\* What a handler knows by what it has read, at the step it is at.
Code == [attempts : Nat, expired : BOOLEAN]
Known(at, got) ==
    /\ at = "reuse" => got.verified = FALSE
    /\ at = "put" /\ got.seen # None => got.seen.verified = FALSE /\ ~Usable(got.code)
    /\ at \in {"code", "drop", "confirm", "patch put", "grant put"} => IsRow(got)
    /\ at = "send put" => /\ got.attempts \in Nat
                          /\ Usable(got.old) => got.attempts = got.old.attempts
    /\ at = "miss" => got.code \in Code

RowsInv == \A id \in DOMAIN users : IsRow(users[id]) /\ users[id].id = id
CodesInv == \A id \in DOMAIN codes : codes[id] \in Code
KnownInv == \A q \in DOMAIN call : Known(call[q].at, call[q].got)
AccountInv == RowsInv /\ CodesInv /\ KnownInv

\* A step of a handler changes what this handler has read, and nothing else.
LEMMA GoKnown ==
    ASSUME KnownInv, NEW r \in DOMAIN call, NEW step, NEW got,
           Go(r, step, got), Known(step, got)
    PROVE  KnownInv'
<1>1. DOMAIN call' = DOMAIN call  BY DEF Go
<1>2. \A q \in DOMAIN call : call'[q] = IF q = r THEN [at |-> step, got |-> got] ELSE call[q]
  BY DEF Go
<1>3. SUFFICES ASSUME NEW q \in DOMAIN call PROVE Known(call'[q].at, call'[q].got)
  BY <1>1 DEF KnownInv
<1>4. CASE q = r
  <2>1. call'[q].at = step /\ call'[q].got = got  BY <1>2, <1>4
  <2> QED  BY <2>1
<1>5. CASE q # r  BY <1>2, <1>5 DEF KnownInv
<1> QED  BY <1>4, <1>5

LEMMA AnswerKnown ==
    ASSUME KnownInv, NEW r \in DOMAIN call, Answer(r) PROVE KnownInv'
<1>1. Known("done", None)  BY DEF Known
<1> QED  BY <1>1, GoKnown DEF Answer

\* What the handlers of games and the ones that are done have read does not matter.
AccountSteps ==
    {"reuse", "put", "code", "drop", "confirm", "patch put", "grant put", "send put", "miss"}
Elsewhere(r) == \E step, got : step \notin AccountSteps /\ Go(r, step, got)

LEMMA ElsewhereKnown ==
    ASSUME KnownInv, NEW r \in DOMAIN call, Elsewhere(r) PROVE KnownInv'
<1>1. PICK step, got : step \notin AccountSteps /\ Go(r, step, got)  BY DEF Elsewhere
<1>2. Known(step, got)  BY <1>1 DEF Known, AccountSteps
<1> QED  BY <1>1, <1>2, GoKnown

\* ---- rows and codes ----

LEMMA FoundRow ==
    ASSUME RowsInv, NEW field, NEW value, RowWith(field, value) # None
    PROVE  IsRow(RowWith(field, value))
<1>1. PICK id \in DOMAIN users : users[id][field] = value  BY DEF RowWith
<1>2. (CHOOSE i \in DOMAIN users : users[i][field] = value) \in DOMAIN users  BY <1>1
<1> QED  BY <1>1, <1>2 DEF RowWith, RowsInv

\* Writing a row keeps the rows and, if it is fresh, the password.
LEMMA WrittenRow ==
    ASSUME RowsInv, NEW row, IsRow(row), Write(row)
    PROVE  /\ RowsInv'
           /\ \A id \in DOMAIN users : TakenOver(id) => id = row.id /\ row.pass # users[id].pass
<1>1. /\ DOMAIN users' = DOMAIN users \cup {row.id}
      /\ users'[row.id] = row
      /\ \A id \in DOMAIN users : id # row.id => users'[id] = users[id]
  BY DEF Write, Put
<1>2. RowsInv'
  <2> SUFFICES ASSUME NEW id \in DOMAIN users' PROVE IsRow(users'[id]) /\ users'[id].id = id
    BY DEF RowsInv
  <2> QED  BY <1>1 DEF RowsInv
<1>3. \A id \in DOMAIN users : TakenOver(id) => id = row.id /\ row.pass # users[id].pass
  BY <1>1 DEF TakenOver
<1> QED  BY <1>2, <1>3

LEMMA WrittenCode ==
    ASSUME CodesInv, NEW id, NEW code \in Code, SetCode(id, code)
    PROVE  /\ CodesInv'
           /\ codes'[id] = code
           /\ \A i \in DOMAIN codes : i # id => codes'[i] = codes[i]
<1>1. /\ DOMAIN codes' = DOMAIN codes \cup {id}
      /\ \A i \in DOMAIN codes' : codes'[i] = IF i = id THEN code ELSE codes[i]
  BY DEF SetCode, Put
<1> QED  BY <1>1 DEF CodesInv

LEMMA DroppedCode ==
    ASSUME CodesInv, NEW id, DropCode(id)
    PROVE  CodesInv' /\ \A i \in DOMAIN codes' : i \in DOMAIN codes /\ codes'[i] = codes[i]
BY DEF DropCode, CodesInv

LEMMA CodeTyped ==
    ASSUME CodesInv, NEW id PROVE CodeOf(id) = None \/ CodeOf(id) \in Code
BY DEF CodeOf, CodesInv

\* ---- what a step may never do ----

PassKept ==
    \A id \in DOMAIN users :
      TakenOver(id) => stale' \/ (~users[id].verified /\ ~Usable(CodeOf(id)))
GuessesKept ==
    \A id \in DOMAIN codes :
      Usable(CodeOf(id)) /\ id \in DOMAIN codes' =>
        stale' \/ codes'[id].attempts >= codes[id].attempts
Kept == AccountInv' /\ PassKept /\ GuessesKept

LEMMA SameUsers == ASSUME RowsInv, UNCHANGED users PROVE RowsInv' /\ PassKept
BY DEF RowsInv, PassKept, TakenOver

LEMMA SameCodes == ASSUME CodesInv, UNCHANGED codes PROVE CodesInv' /\ GuessesKept
<1>1. \A id \in DOMAIN codes : codes[id].attempts \in Nat  BY DEF CodesInv, Code
<1> QED  BY <1>1 DEF CodesInv, GuessesKept

LEMMA OnlyReads ==
    ASSUME AccountInv, UNCHANGED <<users, codes>>, KnownInv' PROVE Kept
BY SameUsers, SameCodes DEF Kept, AccountInv

LEMMA ElsewhereKept ==
    ASSUME AccountInv, NEW r \in DOMAIN call, Elsewhere(r), UNCHANGED <<users, codes>>
    PROVE  Kept
BY ElsewhereKnown, OnlyReads DEF AccountInv

\* ---- handlers of accounts: those that read ----

LEMMA RegisterFindKept ==
    ASSUME AccountInv, NEW r \in DOMAIN call, RegisterFind(r) PROVE Kept
<1> DEFINE byEmail == ByEmail(r.email)
           holder == IF byEmail # None THEN byEmail ELSE ByName(r.name)
<1>1. holder # None => IsRow(holder)
  BY FoundRow DEF ByEmail, ByName, AccountInv
<1>2. \/ /\ holder # None /\ ~holder.verified
         /\ Go(r, "reuse", holder)
      \/ Go(r, "put", [seen |-> None, code |-> None])
  BY DEF RegisterFind
<1>3. holder # None /\ ~holder.verified => Known("reuse", holder)
  <2> HIDE DEF holder
  <2> QED  BY <1>1 DEF Known, IsRow
<1>4. Known("put", [seen |-> None, code |-> None])  BY DEF Known
<1>5. KnownInv'
  <2> HIDE DEF holder
  <2> QED  BY <1>2, <1>3, <1>4, GoKnown DEF AccountInv
<1> QED  BY <1>5, OnlyReads DEF RegisterFind, accountVars

LEMMA RegisterReuseKept ==
    ASSUME AccountInv, NEW r \in DOMAIN call, RegisterReuse(r) PROVE Kept
<1> DEFINE code == CodeOf(Got(r).id)
           found == IF Usable(code) THEN [seen |-> None, code |-> None] ELSE [seen |-> Got(r), code |-> code]
<1>1. Go(r, "put", found)  BY DEF RegisterReuse
<1>2. Got(r).verified = FALSE  BY DEF RegisterReuse, AccountInv, KnownInv, Known, At, Got
<1>3. Known("put", found)
  <2>1. CASE Usable(code)  BY <2>1 DEF Known
  <2>2. CASE ~Usable(code)
    <3>1. found.seen = Got(r) /\ found.code = code  BY <2>2
    <3> HIDE DEF found, code
    <3> QED  BY <2>2, <3>1, <1>2 DEF Known
  <2> QED  BY <2>1, <2>2
<1>4. KnownInv'
  <2> HIDE DEF found
  <2> QED  BY <1>1, <1>3, GoKnown DEF AccountInv
<1> QED  BY <1>4, OnlyReads DEF RegisterReuse, accountVars

LEMMA SendReadKept ==
    ASSUME AccountInv, NEW r \in DOMAIN call, SendRead(r) PROVE Kept
<1> DEFINE old == CodeOf(Got(r))
           read == [id |-> Got(r), old |-> old,
                    attempts |-> IF Usable(old) THEN old.attempts ELSE 0]
<1>1. Go(r, "send put", read)  BY DEF SendRead
<1>2. Usable(old) => old.attempts \in Nat
  BY CodeTyped DEF AccountInv, Usable, Code
<1>3. Known("send put", read)
  <2>1. read.old = old /\ read.attempts = IF Usable(old) THEN old.attempts ELSE 0  OBVIOUS
  <2> HIDE DEF read, old
  <2> QED  BY <1>2, <2>1 DEF Known
<1>4. KnownInv'
  <2> HIDE DEF read
  <2> QED  BY <1>1, <1>3, GoKnown DEF AccountInv
<1> QED  BY <1>4, OnlyReads DEF SendRead, accountVars

LEMMA VerifyFindKept ==
    ASSUME AccountInv, NEW r \in DOMAIN call, VerifyFind(r) PROVE Kept
<1> DEFINE user == ByEmail(r.email)
<1>1. user # None => IsRow(user)  BY FoundRow DEF ByEmail, AccountInv
<1>2. Answer(r) \/ (user # None /\ Go(r, "code", user))  BY DEF VerifyFind
<1>3. KnownInv'
  <2> HIDE DEF user
  <2>1. user # None => Known("code", user)  BY <1>1 DEF Known
  <2> QED  BY <1>2, <2>1, GoKnown, AnswerKnown DEF AccountInv
<1> QED  BY <1>3, OnlyReads DEF VerifyFind, accountVars

LEMMA VerifyCodeKept ==
    ASSUME AccountInv, NEW r \in DOMAIN call, VerifyCode(r) PROVE Kept
<1> DEFINE code == CodeOf(Got(r).id)
           guess == [id |-> Got(r).id, code |-> code]
<1>1. \/ Answer(r)
      \/ code # None /\ Go(r, "miss", guess)
      \/ Go(r, "drop", Got(r))
  BY DEF VerifyCode
<1>2. code # None => Known("miss", guess)
  <2>1. guess.code = code  OBVIOUS
  <2>2. code # None => code \in Code  BY CodeTyped DEF AccountInv
  <2> HIDE DEF code, guess
  <2> QED  BY <2>1, <2>2 DEF Known
<1>3. Known("drop", Got(r))
  BY DEF VerifyCode, AccountInv, KnownInv, Known, At, Got
<1>4. KnownInv'
  <2> HIDE DEF guess
  <2> QED  BY <1>1, <1>2, <1>3, GoKnown, AnswerKnown DEF AccountInv
<1> QED  BY <1>4, OnlyReads DEF VerifyCode, accountVars

LEMMA PatchLockKept ==
    ASSUME AccountInv, NEW r \in DOMAIN call, PatchLock(r) PROVE Kept
<1>1. MayPatch(r) => Known("patch put", users[r.user])
  BY DEF MayPatch, Known, AccountInv, RowsInv
<1>2. (MayPatch(r) /\ Go(r, "patch put", users[r.user])) \/ Answer(r)  BY DEF PatchLock
<1>3. KnownInv'  BY <1>1, <1>2, GoKnown, AnswerKnown DEF AccountInv
<1> QED  BY <1>3, OnlyReads DEF PatchLock

LEMMA GrantFindKept ==
    ASSUME AccountInv, NEW r \in DOMAIN call, GrantFind(r) PROVE Kept
<1>1. r.user \in DOMAIN users => Known("grant put", users[r.user]) /\ Known("grant drop", users[r.user])
  BY DEF Known, AccountInv, RowsInv
<1>2. \/ Answer(r)
      \/ /\ r.user \in DOMAIN users
         /\ \/ Go(r, "grant put", users[r.user])
            \/ Go(r, "grant drop", users[r.user])
  BY DEF GrantFind
<1>3. KnownInv'  BY <1>1, <1>2, GoKnown, AnswerKnown DEF AccountInv
<1> QED  BY <1>3, OnlyReads DEF GrantFind, accountVars

\* What these have read is not used to write a row or a code.
LEMMA OthersRead ==
    ASSUME AccountInv, NEW r \in DOMAIN call,
           \/ Resend(r) \/ Login(r) \/ OpenSession(r) \/ Logout(r) \/ AskAdmin(r)
           \/ PatchEnd(r) \/ SessionExpires(r)
    PROVE  Kept
<1>1. UNCHANGED <<users, codes>>
  BY DEF Resend, Login, OpenSession, Logout, AskAdmin, PatchEnd, SessionExpires, accountVars
<1>2. Elsewhere(r)
  BY DEF Elsewhere, AccountSteps, Answer, Resend, Login, OpenSession, Logout, AskAdmin, PatchEnd,
         SessionExpires
<1> QED  BY <1>1, <1>2, ElsewhereKept

\* ---- handlers of accounts: those that write ----

\* A handler that writes back the row it has read, with other fields changed, keeps
\* its password unless the row was overwritten meanwhile.
LEMMA WrittenBack ==
    ASSUME RowsInv, NEW seen, NEW row, IsRow(row), Write(row),
           row.id = seen.id, row.pass = seen.pass,
           stale' = (stale \/ ~Fresh(seen))
    PROVE  RowsInv' /\ PassKept
<1>1. RowsInv' /\ \A id \in DOMAIN users : TakenOver(id) => id = row.id /\ row.pass # users[id].pass
  BY WrittenRow
<1>2. PassKept
  <2> SUFFICES ASSUME NEW id \in DOMAIN users, TakenOver(id), ~stale' PROVE FALSE  BY DEF PassKept
  <2>1. id = row.id /\ row.pass # users[id].pass  BY <1>1
  <2>2. users[seen.id] = seen  BY DEF Fresh
  <2> QED  BY <2>1, <2>2
<1> QED  BY <1>1, <1>2

LEMMA RegisterPutKept ==
    ASSUME AccountInv, NEW r \in DOMAIN call, RegisterPut(r) PROVE Kept
<1> DEFINE seen == Got(r).seen
           id == IF seen # None THEN seen.id ELSE CHOOSE i \in UserId : i \notin DOMAIN users
           row == Row(id, r, ~MailOn)
<1>1. Elsewhere(r)  BY DEF RegisterPut, Elsewhere, AccountSteps, Answer
<1>2. KnownInv'  BY <1>1, ElsewhereKnown DEF AccountInv
<1>3. UNCHANGED codes  BY DEF RegisterPut
<1>4. CASE UNCHANGED users  BY <1>2, <1>3, <1>4, OnlyReads
<1>5. CASE /\ Write(row)
           /\ stale' = (stale \/ (seen # None /\ (~Fresh(seen) \/ Got(r).code # CodeOf(id))))
  <2>1. IsRow(row) /\ row.id = id
    BY AccountsAssumption DEF Row, IsRow
  <2>2. RowsInv' /\ \A i \in DOMAIN users : TakenOver(i) => i = id
    <3> HIDE DEF row, id
    <3> QED  BY <1>5, <2>1, WrittenRow DEF AccountInv
  <2>3. seen = None => id \notin DOMAIN users
    <3>1. seen = None => UserId \ DOMAIN users # {}  BY DEF RegisterPut
    <3> QED  BY <3>1
  <2>4. seen # None => seen.verified = FALSE /\ ~Usable(Got(r).code)
    BY DEF RegisterPut, AccountInv, KnownInv, Known, At, Got
  <2>5. seen # None => id = seen.id  OBVIOUS
  <2>6. PassKept
    <3> SUFFICES ASSUME NEW i \in DOMAIN users, TakenOver(i), ~stale'
                 PROVE  ~users[i].verified /\ ~Usable(CodeOf(i))
      BY DEF PassKept
    <3>1. i = id  BY <2>2
    <3> HIDE DEF row, id
    <3>2. seen # None  BY <3>1, <2>3
    <3>3. Fresh(seen) /\ Got(r).code = CodeOf(id)  BY <1>5, <3>2
    <3>4. users[i] = seen  BY <3>1, <3>2, <3>3, <2>5 DEF Fresh
    <3> QED  BY <3>1, <3>2, <3>3, <3>4, <2>4
  <2> QED  BY <2>2, <2>6, <1>2, <1>3, SameCodes DEF Kept, AccountInv
<1>6. \/ UNCHANGED users
      \/ /\ Write(row)
         /\ stale' = (stale \/ (seen # None /\ (~Fresh(seen) \/ Got(r).code # CodeOf(id))))
  BY DEF RegisterPut
<1> QED  BY <1>4, <1>5, <1>6

LEMMA VerifyPutKept ==
    ASSUME AccountInv, NEW r \in DOMAIN call, VerifyPut(r) PROVE Kept
<1> DEFINE row == [Got(r) EXCEPT !.verified = TRUE]
<1>1. KnownInv'
  <2>1. Elsewhere(r)  BY DEF VerifyPut, Elsewhere, AccountSteps, Answer
  <2> QED  BY <2>1, ElsewhereKnown DEF AccountInv
<1>2. IsRow(Got(r))  BY DEF VerifyPut, AccountInv, KnownInv, Known, At, Got
<1>3. IsRow(row) /\ row.id = Got(r).id /\ row.pass = Got(r).pass  BY <1>2 DEF IsRow
<1>4. \/ UNCHANGED users
      \/ Write(row) /\ stale' = (stale \/ ~Fresh(Got(r)))
  BY DEF VerifyPut
<1>5. RowsInv' /\ PassKept
  <2> HIDE DEF row
  <2> QED  BY <1>3, <1>4, SameUsers, WrittenBack DEF AccountInv
<1> QED  BY <1>1, <1>5, SameCodes DEF Kept, AccountInv, VerifyPut

LEMMA GrantPutKept ==
    ASSUME AccountInv, NEW r \in DOMAIN call, GrantPut(r) PROVE Kept
<1> DEFINE row == [Got(r) EXCEPT !.verified = TRUE]
<1>1. IsRow(Got(r))  BY DEF GrantPut, AccountInv, KnownInv, Known, At, Got
<1>2. IsRow(row) /\ row.id = Got(r).id /\ row.pass = Got(r).pass  BY <1>1 DEF IsRow
<1>3. \/ UNCHANGED users /\ Answer(r)
      \/ Write(row) /\ stale' = (stale \/ ~Fresh(Got(r))) /\ Go(r, "grant drop", row)
  BY DEF GrantPut
<1> HIDE DEF row
<1>4. Known("grant drop", row)  BY <1>2 DEF Known
<1>5. KnownInv'  BY <1>3, <1>4, GoKnown, AnswerKnown DEF AccountInv
<1>6. RowsInv' /\ PassKept  BY <1>2, <1>3, SameUsers, WrittenBack DEF AccountInv
<1> QED  BY <1>5, <1>6, SameCodes DEF Kept, AccountInv, GrantPut

LEMMA PatchPutKept ==
    ASSUME AccountInv, NEW r \in DOMAIN call, PatchPut(r) PROVE Kept
<1> DEFINE row == Patched(r, Got(r))
<1>1. KnownInv'
  <2>1. Elsewhere(r)  BY DEF PatchPut, Elsewhere, AccountSteps, Answer
  <2> QED  BY <2>1, ElsewhereKnown DEF AccountInv
<1>2. IsRow(Got(r))  BY DEF PatchPut, AccountInv, KnownInv, Known, At, Got
<1>3. IsRow(row) /\ row.id = Got(r).id /\ row.pass = Got(r).pass  BY <1>2 DEF IsRow, Patched
<1>4. \/ UNCHANGED users
      \/ Write(row) /\ stale' = (stale \/ ~Fresh(Got(r)))
  BY DEF PatchPut
<1>5. RowsInv' /\ PassKept
  <2> HIDE DEF row
  <2> QED  BY <1>3, <1>4, SameUsers, WrittenBack DEF AccountInv
<1> QED  BY <1>1, <1>5, SameCodes DEF Kept, AccountInv, PatchPut

LEMMA Dropping ==
    ASSUME AccountInv, KnownInv', UNCHANGED users, NEW id, DropCode(id) PROVE Kept
<1>1. CodesInv' /\ \A i \in DOMAIN codes' : i \in DOMAIN codes /\ codes'[i] = codes[i]
  BY DroppedCode DEF AccountInv
<1>2. \A i \in DOMAIN codes : codes[i].attempts \in Nat  BY DEF AccountInv, CodesInv, Code
<1>3. GuessesKept  BY <1>1, <1>2 DEF GuessesKept
<1> QED  BY <1>1, <1>3, SameUsers DEF Kept, AccountInv

LEMMA CodesDropped ==
    ASSUME AccountInv, NEW r \in DOMAIN call,
           RegisterClear(r) \/ VerifyDrop(r) \/ GrantDrop(r)
    PROVE  Kept
<1>1. CASE VerifyDrop(r)
  <2>1. Known("confirm", Got(r))  BY <1>1 DEF VerifyDrop, AccountInv, KnownInv, Known, At, Got
  <2>2. KnownInv'  BY <1>1, <2>1, GoKnown DEF VerifyDrop, AccountInv
  <2> QED  BY <1>1, <2>2, Dropping DEF VerifyDrop
<1>2. CASE GrantDrop(r)
  <2>1. KnownInv'  BY <1>2, AnswerKnown DEF GrantDrop, AccountInv
  <2> QED  BY <1>2, <2>1, Dropping DEF GrantDrop
<1>3. CASE RegisterClear(r)
  <2>1. Elsewhere(r)  BY <1>3 DEF RegisterClear, Elsewhere, AccountSteps
  <2>2. KnownInv'  BY <2>1, ElsewhereKnown DEF AccountInv
  <2>3. UNCHANGED users /\ (UNCHANGED codes \/ DropCode(Got(r)))  BY <1>3 DEF RegisterClear
  <2> QED  BY <2>2, <2>3, Dropping, OnlyReads
<1> QED  BY <1>1, <1>2, <1>3

LEMMA SendPutKept ==
    ASSUME AccountInv, NEW r \in DOMAIN call, SendPut(r) PROVE Kept
<1> DEFINE id == Got(r).id
           code == [attempts |-> Got(r).attempts, expired |-> FALSE]
<1>1. Got(r).attempts \in Nat /\ (Usable(Got(r).old) => Got(r).attempts = Got(r).old.attempts)
  BY DEF SendPut, AccountInv, KnownInv, Known, At, Got
<1>2. code \in Code  BY <1>1 DEF Code
<1>3. /\ CodesInv' /\ codes'[id] = code
      /\ \A i \in DOMAIN codes : i # id => codes'[i] = codes[i]
  <2>1. SetCode(id, code)  BY DEF SendPut
  <2> HIDE DEF code, id
  <2> QED  BY <1>2, <2>1, WrittenCode DEF AccountInv
<1>4. GuessesKept
  <2> SUFFICES ASSUME NEW i \in DOMAIN codes, Usable(CodeOf(i)), ~stale'
               PROVE  codes'[i].attempts >= codes[i].attempts
    BY DEF GuessesKept
  <2>1. codes[i].attempts \in Nat  BY DEF AccountInv, CodesInv, Code
  <2>2. CASE i = id
    <3>1. Got(r).old = CodeOf(i)  BY <2>2 DEF SendPut
    <3>2. codes'[i].attempts = codes[i].attempts  BY <1>1, <1>3, <2>2, <3>1 DEF CodeOf
    <3> QED  BY <2>1, <3>2
  <2>3. CASE i # id  BY <1>3, <2>1, <2>3
  <2> QED  BY <2>2, <2>3
<1>5. KnownInv'  BY AnswerKnown DEF SendPut, AccountInv
<1> QED  BY <1>3, <1>4, <1>5, SameUsers DEF Kept, AccountInv, SendPut

LEMMA VerifyMissKept ==
    ASSUME AccountInv, NEW r \in DOMAIN call, VerifyMiss(r) PROVE Kept
<1> DEFINE id == Got(r).id
           code == Got(r).code
           counted == [code EXCEPT !.attempts = @ + 1]
<1>1. code \in Code  BY DEF VerifyMiss, AccountInv, KnownInv, Known, At, Got
<1>2. counted \in Code /\ counted.attempts = code.attempts + 1  BY <1>1 DEF Code
<1>3. /\ CodesInv' /\ codes'[id] = counted
      /\ \A i \in DOMAIN codes : i # id => codes'[i] = codes[i]
  <2>1. SetCode(id, counted)  BY DEF VerifyMiss
  <2> HIDE DEF counted, id
  <2> QED  BY <1>2, <2>1, WrittenCode DEF AccountInv
<1>4. GuessesKept
  <2> SUFFICES ASSUME NEW i \in DOMAIN codes, ~stale'
               PROVE  codes'[i].attempts >= codes[i].attempts
    BY DEF GuessesKept
  <2>1. codes[i].attempts \in Nat  BY DEF AccountInv, CodesInv, Code
  <2>2. CASE i = id
    <3>1. codes[i] = code  BY <2>2 DEF VerifyMiss, CodeOf
    <3>2. codes'[i].attempts = codes[i].attempts + 1  BY <1>2, <1>3, <2>2, <3>1
    <3> QED  BY <2>1, <3>2
  <2>3. CASE i # id  BY <1>3, <2>1, <2>3
  <2> QED  BY <2>2, <2>3
<1>5. KnownInv'  BY AnswerKnown DEF VerifyMiss, AccountInv
<1> QED  BY <1>3, <1>4, <1>5, SameUsers DEF Kept, AccountInv, VerifyMiss

LEMMA CodeExpiresKept ==
    ASSUME AccountInv, NEW r \in DOMAIN call, CodeExpires(r) PROVE Kept
<1>1. /\ DOMAIN codes' = DOMAIN codes
      /\ \A i \in DOMAIN codes : codes'[i] \in Code /\ codes'[i].attempts = codes[i].attempts
  BY DEF CodeExpires, AccountInv, CodesInv, Code
<1>2. \A i \in DOMAIN codes : codes[i].attempts \in Nat  BY DEF AccountInv, CodesInv, Code
<1>3. CodesInv' /\ GuessesKept  BY <1>1, <1>2 DEF CodesInv, GuessesKept
<1>4. KnownInv'  BY AnswerKnown DEF CodeExpires, AccountInv
<1> QED  BY <1>3, <1>4, SameUsers DEF Kept, AccountInv, CodeExpires

\* ---- the whole ----

LEMMA AccountStepKept ==
    ASSUME AccountInv, NEW r \in DOMAIN call, AccountStep(r) PROVE Kept
BY RegisterFindKept, RegisterReuseKept, SendReadKept, VerifyFindKept, VerifyCodeKept, PatchLockKept,
   GrantFindKept, OthersRead, RegisterPutKept, VerifyPutKept, GrantPutKept, PatchPutKept, CodesDropped,
   SendPutKept, VerifyMissKept, CodeExpiresKept DEF AccountStep

\* A patch between the lock and its end.
LockSteps == {"patch put", "patch end"}
Away(r) == \E step, got : step \notin AccountSteps \cup LockSteps /\ Go(r, step, got)

\* The handlers of games touch neither accounts nor codes.
LEMMA GamesAway ==
    ASSUME NEW r \in DOMAIN call, ServeGame(r) PROVE Away(r)
<1>1. CASE CreateAsk(r) \/ CreateGame(r) \/ CreateRefused(r)
  BY <1>1 DEF Away, AccountSteps, LockSteps, Answer, CreateAsk, CreateGame, CreateRefused
<1>2. CASE JoinAsk(r)  BY <1>2 DEF Away, AccountSteps, LockSteps, Answer, JoinAsk
<1>3. CASE JoinCheck(r)  BY <1>3 DEF Away, AccountSteps, LockSteps, Answer, JoinCheck
<1>4. CASE JoinChoose(r)  BY <1>4 DEF Away, AccountSteps, LockSteps, Answer, JoinChoose
<1>5. CASE JoinSit(r) \/ JoinPort(r) \/ JoinName(r) \/ JoinToken(r)
  BY <1>5 DEF Away, AccountSteps, LockSteps, Answer, JoinSit, JoinPort, JoinName, JoinToken
<1>6. CASE StartAsk(r)
  <2>1. \E got : Go(r, "fill", got) \/ Go(r, "wait", got) \/ Answer(r)  BY <1>6 DEF StartAsk
  <2> QED  BY <2>1 DEF Away, AccountSteps, LockSteps, Answer
<1>7. CASE StartResumes(r)  BY <1>7 DEF Away, AccountSteps, LockSteps, StartResumes
<1>8. CASE StartFill(r)  BY <1>8 DEF Away, AccountSteps, LockSteps, Answer, StartFill
<1>9. CASE StartPorts(r) \/ StartFails(r) \/ StartRun(r)
  BY <1>9 DEF Away, AccountSteps, LockSteps, Answer, StartPorts, StartFails, StartRun
<1>10. CASE DeleteAsk(r) \/ DeleteFile(r)
  BY <1>10 DEF Away, AccountSteps, LockSteps, Answer, DeleteAsk, DeleteFile
<1>11. CASE DeleteRemove(r) \/ DeleteRevoke(r)
  BY <1>11 DEF Away, AccountSteps, LockSteps, Answer, DeleteRemove, DeleteRevoke
<1>12. CASE Watch(r) \/ Leave(r)  BY <1>12 DEF Away, AccountSteps, LockSteps, Answer, Watch, Leave
<1>13. CASE ReadAsk(r) \/ ReadLook(r)  BY <1>13 DEF Away, AccountSteps, LockSteps, Answer, ReadAsk, ReadLook
<1> QED
  BY <1>1, <1>2, <1>3, <1>4, <1>5, <1>6, <1>7, <1>8, <1>9, <1>10, <1>11, <1>12, <1>13
  DEF ServeGame, GameStep

LEMMA NextKept ==
    ASSUME AccountInv, [Next]_vars PROVE Kept
<1>1. CASE UNCHANGED vars
  <2>1. KnownInv'  BY <1>1 DEF AccountInv, KnownInv, vars
  <2> QED  BY <1>1, <2>1, OnlyReads DEF vars, accountVars
<1>2. ASSUME NEW r \in DOMAIN call, ServeAccount(r) PROVE Kept
  BY <1>2, AccountStepKept DEF ServeAccount
<1>3. ASSUME NEW r \in DOMAIN call, ServeGame(r) PROVE Kept
  <2>1. Elsewhere(r)  BY <1>3, GamesAway DEF Away, Elsewhere
  <2> QED  BY <1>3, <2>1, ElsewhereKept DEF ServeGame
<1>4. CASE GameProgress /\ UNCHANGED <<users, codes, lock, stale, deposed>>
  <2>1. UNCHANGED call
    BY <1>4 DEF GameProgress, Runs, RunnerBegins, RunnerOver, RunnerDone, RunnerCrashes, ReviewBegins,
                ReviewSeat
  <2>2. KnownInv'  BY <2>1 DEF AccountInv, KnownInv
  <2> QED  BY <1>4, <2>2, OnlyReads
<1> QED  BY <1>1, <1>2, <1>3, <1>4 DEF Next, Serve

LEMMA AccountsBegin == Init => AccountInv
<1> SUFFICES ASSUME Init PROVE AccountInv  OBVIOUS
<1>1. RowsInv  BY AccountsAssumption DEF Init, AccountsInit, RowsInv
<1>2. CodesInv  BY DEF Init, AccountsInit, CodesInv, Code
<1>3. KnownInv
  <2>1. \A q \in DOMAIN call : call[q].at = "new"  BY DEF Init, CallInit
  <2> QED  BY <2>1 DEF KnownInv, Known
<1> QED  BY <1>1, <1>2, <1>3 DEF AccountInv

\* ---- an active admin is left ----

\* A patch between the lock and its end holds the lock, and nobody else does.
LockInv == None \notin DOMAIN call /\ \A q \in DOMAIN call : call[q].at \in LockSteps => lock = q

\* What patch_user counted under the lock: whoever it is about to strip of his role is
\* not the only active admin.
Spares(q, got) ==
    /\ got.id = q.user
    /\ IsAdmin(got) /\ ~IsAdmin(Patched(q, got)) => \E o \in ActiveAdmins : o # q.user
SparesInv ==
    ~stale /\ ~deposed =>
      \A q \in DOMAIN call : call[q].at = "patch put" => Spares(q, call[q].got)
AdminInv == LockInv /\ SparesInv

Quietly(r) == \E step, got : step \notin LockSteps /\ Go(r, step, got)

\* Only patch_user takes or leaves the lock.
LEMMA LockElsewhere ==
    ASSUME NEW r \in DOMAIN call,
           \/ ServeGame(r)
           \/ AccountStep(r) /\ ~PatchLock(r) /\ ~PatchPut(r) /\ ~PatchEnd(r)
    PROVE  UNCHANGED lock /\ Quietly(r)
<1>1. CASE ServeGame(r)
  <2>1. Away(r)  BY <1>1, GamesAway
  <2> QED  BY <1>1, <2>1 DEF ServeGame, Away, Quietly
<1>2. CASE RegisterFind(r) \/ RegisterReuse(r) \/ RegisterPut(r) \/ RegisterClear(r)
  BY <1>2 DEF RegisterFind, RegisterReuse, RegisterPut, RegisterClear, Quietly, LockSteps, Answer,
              accountVars
<1>3. CASE SendRead(r) \/ SendPut(r) \/ Resend(r)
  BY <1>3 DEF SendRead, SendPut, Resend, Quietly, LockSteps, Answer, accountVars
<1>4. CASE VerifyFind(r) \/ VerifyCode(r)
  BY <1>4 DEF VerifyFind, VerifyCode, Quietly, LockSteps, Answer, accountVars
<1>5. CASE VerifyMiss(r) \/ VerifyDrop(r) \/ VerifyPut(r)
  BY <1>5 DEF VerifyMiss, VerifyDrop, VerifyPut, Quietly, LockSteps, Answer, accountVars
<1>6. CASE Login(r) \/ OpenSession(r) \/ Logout(r)
  BY <1>6 DEF Login, OpenSession, Logout, Quietly, LockSteps, Answer, accountVars
<1>7. CASE AskAdmin(r) \/ GrantFind(r) \/ GrantPut(r) \/ GrantDrop(r)
  BY <1>7 DEF AskAdmin, GrantFind, GrantPut, GrantDrop, Quietly, LockSteps, Answer, accountVars
<1>8. CASE CodeExpires(r) \/ SessionExpires(r)
  BY <1>8 DEF CodeExpires, SessionExpires, Quietly, LockSteps, Answer, accountVars
<1> QED  BY <1>1, <1>2, <1>3, <1>4, <1>5, <1>6, <1>7, <1>8 DEF AccountStep

\* The steps of patch_user, by where they leave the handler and the lock.
LEMMA Goes ==
    ASSUME NEW r \in DOMAIN call, NEW step, NEW got, Go(r, step, got)
    PROVE  /\ DOMAIN call' = DOMAIN call
           /\ call'[r].at = step /\ call'[r].got = got
           /\ \A q \in DOMAIN call : q # r => call'[q] = call[q]
BY DEF Go

LEMMA PatchLocks ==
    ASSUME NEW r \in DOMAIN call, PatchLock(r)
    PROVE  \/ MayPatch(r) /\ lock' = r /\ call'[r].got = users[r.user]
           \/ UNCHANGED lock /\ Go(r, "done", None)
<1>1. CASE MayPatch(r)
  <2>1. PICK row : row = users[r.user]  OBVIOUS
  <2>2. lock' = r /\ Go(r, "patch put", row)  BY <1>1, <2>1 DEF PatchLock
  <2>3. call'[r].got = row  BY <2>2, Goes
  <2> QED  BY <1>1, <2>1, <2>2, <2>3
<1>2. CASE ~MayPatch(r)  BY <1>2 DEF PatchLock, Answer
<1> QED  BY <1>1, <1>2

LEMMA PatchPuts ==
    ASSUME NEW r \in DOMAIN call, PatchPut(r)
    PROVE  \/ \E row : UNCHANGED lock /\ Go(r, "patch end", row)
           \/ Go(r, "done", None)
<1>1. CASE Clash(Patched(r, Got(r)))  BY <1>1 DEF PatchPut, Answer
<1>2. CASE ~Clash(Patched(r, Got(r)))  BY <1>2 DEF PatchPut
<1> QED  BY <1>1, <1>2

LEMMA LocksKept ==
    ASSUME LockInv, [Next]_vars PROVE LockInv'
<1>1. CASE UNCHANGED vars  BY <1>1 DEF LockInv, vars, accountVars
<1>2. CASE GameProgress /\ UNCHANGED <<users, codes, lock, stale, deposed>>
  <2>1. UNCHANGED call
    BY <1>2 DEF GameProgress, Runs, RunnerBegins, RunnerOver, RunnerDone, RunnerCrashes, ReviewBegins,
                ReviewSeat
  <2> QED  BY <1>2, <2>1 DEF LockInv
<1>3. ASSUME NEW r \in DOMAIN call, UNCHANGED lock /\ Quietly(r) PROVE LockInv'
  <2>1. PICK step, got : step \notin LockSteps /\ Go(r, step, got)  BY <1>3 DEF Quietly
  <2>2. /\ DOMAIN call' = DOMAIN call
        /\ call'[r].at = step
        /\ \A q \in DOMAIN call : q # r => call'[q] = call[q]
    BY <2>1 DEF Go
  <2> QED  BY <1>3, <2>1, <2>2 DEF LockInv
<1>4. ASSUME NEW r \in DOMAIN call, PatchLock(r) \/ PatchPut(r) \/ PatchEnd(r) PROVE LockInv'
  <2>1. /\ DOMAIN call' = DOMAIN call
        /\ \A q \in DOMAIN call : q # r => call'[q] = call[q]
    BY <1>4 DEF PatchLock, PatchPut, PatchEnd, Answer, Go
  <2>2. \A q \in DOMAIN call : q # r => call[q].at \notin LockSteps
    <3>1. CASE PatchLock(r)  BY <3>1 DEF PatchLock, LockInv
    <3>2. CASE PatchPut(r) \/ PatchEnd(r)
      <4>1. call[r].at \in LockSteps  BY <3>2 DEF PatchPut, PatchEnd, At, LockSteps
      <4> QED  BY <4>1 DEF LockInv
    <3> QED  BY <1>4, <3>1, <3>2
  <2>3. call'[r].at \in LockSteps => lock' = r
    <3>1. CASE PatchLock(r)
      <4>1. (lock' = r) \/ (call'[r].at = "done")  BY <3>1, PatchLocks, Goes
      <4> QED  BY <4>1 DEF LockSteps
    <3>2. CASE PatchPut(r)
      <4>1. lock = r  BY <3>2 DEF PatchPut, At, LockSteps, LockInv
      <4>2. (lock' = lock) \/ (call'[r].at = "done")  BY <3>2, PatchPuts, Goes
      <4> QED  BY <4>1, <4>2 DEF LockSteps
    <3>3. CASE PatchEnd(r)
      <4>1. call'[r].at = "done"  BY <3>3 DEF PatchEnd, Answer, Go
      <4> QED  BY <4>1 DEF LockSteps
    <3> QED  BY <1>4, <3>1, <3>2, <3>3
  <2> QED  BY <2>1, <2>2, <2>3 DEF LockInv
<1>5. ASSUME NEW r \in DOMAIN call, ServeAccount(r) PROVE LockInv'
  BY <1>3, <1>4, <1>5, LockElsewhere DEF ServeAccount
<1>6. ASSUME NEW r \in DOMAIN call, ServeGame(r) PROVE LockInv'
  BY <1>3, <1>6, LockElsewhere
<1> QED  BY <1>1, <1>2, <1>5, <1>6 DEF Next, Serve

\* What has gone wrong stays written.
LEMMA StaleStays ==
    ASSUME NEW r \in DOMAIN call, AccountStep(r) PROVE stale => stale'
<1>1. CASE RegisterFind(r) \/ RegisterReuse(r) \/ RegisterPut(r) \/ RegisterClear(r)
  BY <1>1 DEF RegisterFind, RegisterReuse, RegisterPut, RegisterClear, accountVars
<1>2. CASE SendRead(r) \/ SendPut(r) \/ Resend(r) \/ VerifyFind(r) \/ VerifyCode(r)
  BY <1>2 DEF SendRead, SendPut, Resend, VerifyFind, VerifyCode, accountVars
<1>3. CASE VerifyMiss(r) \/ VerifyDrop(r) \/ VerifyPut(r) \/ Login(r) \/ OpenSession(r) \/ Logout(r)
  BY <1>3 DEF VerifyMiss, VerifyDrop, VerifyPut, Login, OpenSession, Logout, accountVars
<1>4. CASE AskAdmin(r) \/ PatchLock(r) \/ PatchPut(r) \/ PatchEnd(r)
  BY <1>4 DEF AskAdmin, PatchLock, PatchPut, PatchEnd, accountVars
<1>5. CASE GrantFind(r) \/ GrantPut(r) \/ GrantDrop(r) \/ CodeExpires(r) \/ SessionExpires(r)
  BY <1>5 DEF GrantFind, GrantPut, GrantDrop, CodeExpires, SessionExpires, accountVars
<1> QED  BY <1>1, <1>2, <1>3, <1>4, <1>5 DEF AccountStep

LEMMA DeposedStays ==
    ASSUME NEW r \in DOMAIN call, AccountStep(r) PROVE deposed => deposed'
<1>1. CASE RegisterFind(r) \/ RegisterReuse(r) \/ RegisterPut(r) \/ RegisterClear(r)
  BY <1>1 DEF RegisterFind, RegisterReuse, RegisterPut, RegisterClear, accountVars
<1>2. CASE SendRead(r) \/ SendPut(r) \/ Resend(r) \/ VerifyFind(r) \/ VerifyCode(r)
  BY <1>2 DEF SendRead, SendPut, Resend, VerifyFind, VerifyCode, accountVars
<1>3. CASE VerifyMiss(r) \/ VerifyDrop(r) \/ VerifyPut(r) \/ Login(r) \/ OpenSession(r) \/ Logout(r)
  BY <1>3 DEF VerifyMiss, VerifyDrop, VerifyPut, Login, OpenSession, Logout, accountVars
<1>4. CASE AskAdmin(r) \/ PatchLock(r) \/ PatchPut(r) \/ PatchEnd(r)
  BY <1>4 DEF AskAdmin, PatchLock, PatchPut, PatchEnd, accountVars
<1>5. CASE GrantFind(r) \/ GrantPut(r) \/ GrantDrop(r) \/ CodeExpires(r) \/ SessionExpires(r)
  BY <1>5 DEF GrantFind, GrantPut, GrantDrop, CodeExpires, SessionExpires, accountVars
<1> QED  BY <1>1, <1>2, <1>3, <1>4, <1>5 DEF AccountStep

LEMMA WrittenAdmins ==
    ASSUME RowsInv, NEW row, Write(row)
    PROVE  /\ \A id \in ActiveAdmins : id # row.id => id \in ActiveAdmins'
           /\ IsAdmin(row) => row.id \in ActiveAdmins'
BY DEF Write, Put, ActiveAdmins, IsAdmin

\* Nothing but a patch takes an admin's role, as long as no old copy is written back.
LEMMA AdminsStay ==
    ASSUME AccountInv, NEW r \in DOMAIN call, AccountStep(r), ~PatchPut(r), ~stale', ~deposed'
    PROVE  ActiveAdmins \subseteq ActiveAdmins'
<1>1. CASE UNCHANGED users  BY <1>1 DEF ActiveAdmins
<1>2. CASE RegisterPut(r) /\ users' # users
  <2> DEFINE seen == Got(r).seen
             id == IF seen # None THEN seen.id ELSE CHOOSE i \in UserId : i \notin DOMAIN users
             row == Row(id, r, ~MailOn)
  <2>1. Write(row) /\ id \notin ActiveAdmins /\ row.id = id  BY <1>2 DEF RegisterPut, Row
  <2> HIDE DEF row, id
  <2> QED  BY <2>1, WrittenAdmins DEF AccountInv
<1>3. ASSUME VerifyPut(r) \/ GrantPut(r), users' # users PROVE ActiveAdmins \subseteq ActiveAdmins'
  <2> DEFINE row == [Got(r) EXCEPT !.verified = TRUE]
  <2>1. IsRow(Got(r))  BY <1>3 DEF VerifyPut, GrantPut, AccountInv, KnownInv, Known, At, Got
  <2>2. row.id = Got(r).id /\ row.role = Got(r).role /\ row.status = Got(r).status
    BY <2>1 DEF IsRow
  <2>3. Write(row) /\ Fresh(Got(r))  BY <1>3 DEF VerifyPut, GrantPut
  <2> HIDE DEF row
  <2>4. Got(r).id \in ActiveAdmins => IsAdmin(row)  BY <2>2, <2>3 DEF Fresh, ActiveAdmins, IsAdmin
  <2> QED  BY <2>2, <2>3, <2>4, WrittenAdmins DEF AccountInv
<1>4. CASE RegisterFind(r) \/ RegisterReuse(r) \/ RegisterClear(r) \/ SendRead(r) \/ SendPut(r)
  BY <1>1, <1>4 DEF RegisterFind, RegisterReuse, RegisterClear, SendRead, SendPut, accountVars
<1>5. CASE Resend(r) \/ VerifyFind(r) \/ VerifyCode(r) \/ VerifyMiss(r) \/ VerifyDrop(r)
  BY <1>1, <1>5 DEF Resend, VerifyFind, VerifyCode, VerifyMiss, VerifyDrop, accountVars
<1>6. CASE Login(r) \/ OpenSession(r) \/ Logout(r) \/ AskAdmin(r) \/ PatchLock(r) \/ PatchEnd(r)
  BY <1>1, <1>6 DEF Login, OpenSession, Logout, AskAdmin, PatchLock, PatchEnd, accountVars
<1>7. CASE GrantFind(r) \/ GrantDrop(r) \/ CodeExpires(r) \/ SessionExpires(r)
  BY <1>1, <1>7 DEF GrantFind, GrantDrop, CodeExpires, SessionExpires, accountVars
<1> QED  BY <1>1, <1>2, <1>3, <1>4, <1>5, <1>6, <1>7 DEF AccountStep

\* A patch leaves all admins but the one that it is about.
LEMMA PatchedAdmins ==
    ASSUME AccountInv, SparesInv, NEW r \in DOMAIN call, PatchPut(r), ~stale', ~deposed'
    PROVE  ActiveAdmins # {} => ActiveAdmins' # {}
<1>1. CASE UNCHANGED users  BY <1>1 DEF ActiveAdmins
<1>2. CASE users' # users
  <2> DEFINE got == Got(r)
             row == Patched(r, got)
  <2>1. ~stale /\ ~deposed
    <3>1. AccountStep(r)  BY DEF AccountStep
    <3>2. ~stale  BY <3>1, StaleStays
    <3>3. ~deposed  BY <3>1, DeposedStays
    <3> QED  BY <3>2, <3>3
  <2>2. Spares(r, got)  BY <2>1 DEF SparesInv, PatchPut, At, Got
  <2>3. IsRow(got)  BY DEF PatchPut, AccountInv, KnownInv, Known, At, Got
  <2>4. row.id = r.user  BY <2>2, <2>3 DEF Spares, Patched, IsRow
  <2>5. Write(row) /\ Fresh(got)  BY <1>2 DEF PatchPut
  <2> HIDE DEF row
  <2>6. /\ \A id \in ActiveAdmins : id # r.user => id \in ActiveAdmins'
        /\ IsAdmin(row) => r.user \in ActiveAdmins'
    BY <2>4, <2>5, WrittenAdmins DEF AccountInv
  <2>7. r.user \in ActiveAdmins => IsAdmin(got)
    BY <2>2, <2>5 DEF Spares, Fresh, ActiveAdmins
  <2> QED  BY <2>2, <2>6, <2>7 DEF Spares, row
<1> QED  BY <1>1, <1>2

LEMMA Counted ==
    ASSUME AccountInv, NEW r, MayPatch(r) PROVE Spares(r, users[r.user])
<1>1. users[r.user].id = r.user  BY DEF MayPatch, AccountInv, RowsInv
<1>2. ASSUME IsAdmin(users[r.user]), ~IsAdmin(Patched(r, users[r.user]))
      PROVE  \E o \in ActiveAdmins : o # r.user
  <2>1. r.user \in ActiveAdmins  BY <1>2 DEF MayPatch, ActiveAdmins
  <2>2. SUFFICES ASSUME ActiveAdmins = {r.user} PROVE FALSE  BY <2>1
  <2>3. Cardinality(ActiveAdmins) = 1  BY <2>2, FS_Singleton
  <2> QED  BY <1>2, <2>3 DEF MayPatch
<1> QED  BY <1>1, <1>2 DEF Spares

LEMMA SparesKept ==
    ASSUME AccountInv, AdminInv, [Next]_vars PROVE SparesInv'
<1>0. SUFFICES ASSUME ~stale', ~deposed', NEW q \in DOMAIN call', call'[q].at = "patch put"
               PROVE  Spares(q, call[q].got)'
  BY DEF SparesInv
<1>1. CASE UNCHANGED <<users, stale, deposed, call>>
  BY <1>0, <1>1 DEF AdminInv, SparesInv, Spares, ActiveAdmins
<1>2. CASE GameProgress /\ UNCHANGED <<users, codes, lock, stale, deposed>>
  <2>1. UNCHANGED call
    BY <1>2 DEF GameProgress, Runs, RunnerBegins, RunnerOver, RunnerDone, RunnerCrashes, ReviewBegins,
                ReviewSeat
  <2> QED  BY <1>1, <1>2, <2>1
<1>3. ASSUME NEW r \in DOMAIN call, ServeAccount(r) \/ ServeGame(r) PROVE Spares(q, call[q].got)'
  <2>1. ~stale /\ ~deposed
    <3>1. CASE ServeGame(r)  BY <1>0, <3>1 DEF ServeGame
    <3>2. CASE ServeAccount(r)
      <4>1. AccountStep(r)  BY <3>2 DEF ServeAccount
      <4>2. ~stale  BY <1>0, <4>1, StaleStays
      <4>3. ~deposed  BY <1>0, <4>1, DeposedStays
      <4> QED  BY <4>2, <4>3
    <3> QED  BY <1>3, <3>1, <3>2
  <2>2. CASE q # r
    <3>1. q \in DOMAIN call /\ call'[q] = call[q]
      <4>1. CASE ServeGame(r)  BY <1>0, <2>2, <4>1, LockElsewhere DEF Quietly, Go
      <4>2. CASE AccountStep(r) /\ ~PatchLock(r) /\ ~PatchPut(r) /\ ~PatchEnd(r)
        BY <1>0, <2>2, <4>2, LockElsewhere DEF Quietly, Go
      <4>3. CASE PatchLock(r) \/ PatchPut(r) \/ PatchEnd(r)
        BY <1>0, <2>2, <4>3 DEF PatchLock, PatchPut, PatchEnd, Answer, Go
      <4> QED  BY <1>3, <4>1, <4>2, <4>3 DEF ServeAccount
    <3>2. Spares(q, call[q].got)  BY <1>0, <2>1, <3>1 DEF AdminInv, SparesInv
    <3>3. ~PatchPut(r)
      <4>1. lock = q  BY <1>0, <3>1 DEF AdminInv, LockInv, LockSteps
      <4> QED  BY <2>2, <4>1 DEF AdminInv, LockInv, LockSteps, PatchPut, At
    <3>4. ActiveAdmins \subseteq ActiveAdmins'
      <4>1. CASE ServeGame(r)  BY <4>1 DEF ServeGame, ActiveAdmins
      <4>2. CASE ServeAccount(r)  BY <1>0, <3>3, <4>2, AdminsStay DEF ServeAccount
      <4> QED  BY <1>3, <4>1, <4>2
    <3> QED  BY <3>1, <3>2, <3>4 DEF Spares
  <2>3. CASE q = r
    <3>0. call'[r].at = "patch put"  BY <1>0, <2>3
    <3>1. PatchLock(r)
      <4>1. ~Quietly(r)  BY <3>0, Goes DEF Quietly, LockSteps
      <4>2. ~PatchPut(r)
        <5>1. ASSUME NEW step, NEW got, Go(r, step, got) PROVE step = "patch put"  BY <3>0, <5>1, Goes
        <5>2. ~Go(r, "done", None) /\ \A row : ~Go(r, "patch end", row)  BY <5>1
        <5> QED  BY <5>2, PatchPuts
      <4>3. ~PatchEnd(r)  BY <3>0, Goes DEF PatchEnd, Answer
      <4> QED  BY <1>3, <4>1, <4>2, <4>3, LockElsewhere DEF ServeAccount
    <3>2. UNCHANGED users /\ MayPatch(r) /\ call'[r].got = users[r.user]
      <4>1. UNCHANGED users  BY <3>1 DEF PatchLock
      <4>2. CASE Go(r, "done", None)
        <5>1. call'[r].at = "done"  BY <4>2, Goes
        <5> QED  BY <3>0, <5>1
      <4> QED  BY <3>1, <4>1, <4>2, PatchLocks
    <3>3. Spares(r, users[r.user])  BY <3>2, Counted
    <3>4. UNCHANGED ActiveAdmins  BY <3>2 DEF ActiveAdmins
    <3> QED  BY <2>3, <3>2, <3>3, <3>4 DEF Spares
  <2> QED  BY <2>2, <2>3
<1>4. CASE UNCHANGED vars  BY <1>1, <1>4 DEF vars, accountVars
<1> QED  BY <1>2, <1>3, <1>4 DEF Next, Serve

LEMMA AdminsLeft ==
    ASSUME AccountInv, AdminInv, [Next]_vars
    PROVE  ActiveAdmins # {} => ActiveAdmins' # {} \/ stale' \/ deposed'
<1>1. CASE UNCHANGED users  BY <1>1 DEF ActiveAdmins
<1>2. ASSUME NEW r \in DOMAIN call, ServeAccount(r)
      PROVE  ActiveAdmins # {} => ActiveAdmins' # {} \/ stale' \/ deposed'
  BY <1>2, AdminsStay, PatchedAdmins DEF ServeAccount, AdminInv
<1> QED  BY <1>1, <1>2 DEF Next, Serve, ServeGame, vars, accountVars

LEMMA AdminsBegin == Init => AdminInv
<1> SUFFICES ASSUME Init PROVE AdminInv  OBVIOUS
<1>1. PICK asked \in Workload : call = [r \in asked |-> [at |-> "new", got |-> None]]
  BY DEF Init, CallInit
<1>2. DOMAIN call = asked /\ \A q \in DOMAIN call : call[q].at = "new"  BY <1>1
<1> QED  BY <1>2, RequestsAssumption DEF AdminInv, LockInv, SparesInv, LockSteps

\* What a handler knows by what it has read, however many handlers overlap.
THEOREM HandlersKnow == Spec => []AccountInv
<1>1. AccountInv /\ [Next]_vars => AccountInv'  BY NextKept DEF Kept
<1> QED  BY <1>1, AccountsBegin, PTL DEF Spec

\* A registration never replaces the password of an account that is verified or that
\* has a code which can be used: register_endpoint (api/auth.py) looks at the code
\* before it writes, and no other handler changes a password - unless a row or a code
\* was overwritten between the look and the write.
THEOREM PasswordsSafe == Spec => AccountKept
<1>1. AccountInv /\ [Next]_vars => [PassKept]_vars  BY NextKept DEF Kept
<1> QED  BY <1>1, HandlersKnow, PTL DEF Spec, AccountKept, PassKept

\* However often a new mail is asked for (_send_code of api/auth.py), the attempts made
\* against an account that has a usable code are never forgotten.
THEOREM AttemptsCounted == Spec => AttemptsKept
<1>1. AccountInv /\ [Next]_vars => [GuessesKept]_vars  BY NextKept DEF Kept
<1> QED  BY <1>1, HandlersKnow, PTL DEF Spec, AttemptsKept, GuessesKept

\* However the admins patch each other at the same time, an active one is left
\* (patch_user of api/admin.py): nobody but the holder of the lock takes an admin's role,
\* so whoever was counted beside the one that is patched is still there when the row is
\* written - unless an old copy was written back, or a registration took an account over.
THEOREM AnAdminIsLeft == Spec => AdminKept
<1> DEFINE Left == ActiveAdmins # {} => ActiveAdmins' # {} \/ stale' \/ deposed'
<1>1. AccountInv /\ AdminInv /\ [Next]_vars => AdminInv'  BY LocksKept, SparesKept DEF AdminInv
<1>2. AccountInv /\ AdminInv /\ [Next]_vars => [Left]_vars  BY AdminsLeft
<1> QED  BY <1>1, <1>2, AdminsBegin, HandlersKnow, PTL DEF Spec, AdminKept, Left

-----------------------------------------------------------------------------
(* The games *)

\* ---- the inductive invariant: the games ----

Fields ==
    {"owner", "spectators", "ai", "agents", "entries", "ports", "seated", "memory",
     "experiences", "task", "phase", "review"}

Shape(room) ==
    /\ DOMAIN room = Fields
    /\ DOMAIN room.ports \subseteq Seats
    /\ DOMAIN room.agents \subseteq Seats
    /\ room.review # None => DOMAIN room.review = {"left", "updated"}
    /\ room.phase = "over" => room.task \in {"closing", "over", "crashed"}
RoomsInv == \A g \in DOMAIN rooms : Shape(rooms[g])

\* The registry's tables speak of games that were made; a listed game has the tokens
\* of its creator, and only a started game has a file.
TablesInv ==
    /\ listed \subseteq DOMAIN rooms /\ files \subseteq DOMAIN rooms
    /\ \A g \in listed : HasToken(g, "HOST") /\ HasToken(g, "GM")
    /\ \A g \in files : Started(g)

\* Unless a check was overtaken, a game that runs is listed, has its file and all its
\* ports, and a file is gone before its game is no longer listed.
LiveInv ==
    \A g \in DOMAIN rooms \ raced :
      /\ Running(g) => /\ g \in listed
                       /\ rooms[g].task # "made" => g \in files
                       /\ Seats \subseteq DOMAIN rooms[g].ports
      /\ g \notin listed => g \notin files

OneSeat(g) ==
    \A s, t \in DOMAIN rooms[g].seated :
      rooms[g].seated[s] = rooms[g].seated[t] /\ rooms[g].seated[s] # None => s = t
OneSeatInv == \A g \in DOMAIN rooms \ raced : OneSeat(g)

HasPort(g, s) == /\ g \in DOMAIN rooms
                 /\ s \in DOMAIN rooms[g].ports /\ rooms[g].ports[s] = "human"
TokensInv == \A t \in tokens : t.kind = "PLAYER" => HasPort(t.game, t.seat)

GamesInv == RoomsInv /\ TablesInv /\ LiveInv /\ OneSeatInv /\ TokensInv /\ ReviewsKept

\* ---- the inductive invariant: the requests ----

HoldSteps ==
    {"reuse", "put", "clear code", "clear sessions", "send", "send put", "fill", "ports", "run"}
LoopInv ==
    \A p, q \in DOMAIN call : call[p].at \in HoldSteps /\ call[q].at \in HoldSteps => p = q

JoinSteps == {"choose", "sit", "port", "name", "token"}
DeleteSteps == {"delete file", "remove", "revoke"}
GameSteps ==
    {"create", "join check", "wait", "fill", "ports", "run", "watching", "look", "shown"}
      \cup JoinSteps \cup DeleteSteps

\* What a join knows: an account that asks had no seat when it was checked.
Joins(g, at, got) ==
    at \in JoinSteps =>
      /\ g \in DOMAIN rooms
      /\ got.account # None => got.mine = {}
      /\ at # "choose" => got.seat \in Seats
      /\ at \in {"name", "token"} => HasPort(g, got.seat)

\* What a start knows: it is the only one that has the loop.
Starts(g, at) ==
    /\ at \in {"wait", "fill", "ports", "run"} => g \in DOMAIN rooms
    /\ at \in {"ports", "run"} => ~Started(g)
    /\ at = "run" => Seats \subseteq DOMAIN rooms[g].ports

\* What a delete knows: the game it found started does not run, unless it was overtaken.
Deleting(g, at, got) ==
    at \in DeleteSteps =>
      /\ g \in DOMAIN rooms
      /\ got.started => Started(g) /\ (g \in raced \/ ~Running(g))
      /\ got.handle \in BOOLEAN
      /\ ~got.handle \/ at = "revoke" => g \notin listed
      /\ at = "remove" /\ got.started => g \in raced \/ g \notin files

\* Who sees all of a game that has not ended does not sit at it, and an owner who has
\* been granted the view of all had no seat then.
Viewing(g, at, got) ==
    /\ at = "look" /\ got.viewer = "GM" =>
         \/ got.sat = {}
         \/ /\ g \in DOMAIN rooms
            /\ g \notin listed \/ Finished(g) \/ got.user # rooms[g].owner
    /\ (at = "watching" /\ got.viewer = "GM") \/ (at = "shown" /\ got.all) =>
         /\ g \in DOMAIN rooms /\ Started(g)
         /\ \/ g \in raced \/ Finished(g)
            \/ /\ got.viewer = "GM"
               /\ got.user = rooms[g].owner => SeatsOf(g, got.user) = {}

Informed(r, at, got) ==
    /\ at = "create" => r.op = "create"
    /\ at = "join check" => r.game \in DOMAIN rooms
    /\ Joins(r.game, at, got) /\ Starts(r.game, at)
    /\ Deleting(r.game, at, got) /\ Viewing(r.game, at, got)
CallsInv ==
    /\ DOMAIN call \in Workload
    /\ \A q \in DOMAIN call : Informed(q, call[q].at, call[q].got)

RegistryInv == GamesInv /\ LoopInv /\ CallsInv

\* ---- what the games may do under the eyes of a request ----

SteadyGame(g) ==
    /\ g \in DOMAIN rooms'
    /\ rooms'[g].owner = rooms[g].owner
    /\ DOMAIN rooms[g].ports \subseteq DOMAIN rooms'[g].ports
    /\ \A s \in DOMAIN rooms[g].ports :
         rooms'[g].ports[s] = rooms[g].ports[s] \/ rooms'[g].ports[s] = "human"
    /\ Started(g) => Started(g)' /\ (g \in raced' \/ rooms'[g].seated = rooms[g].seated)
    /\ ~Started(g) /\ Started(g)' =>
         \E q \in DOMAIN call : call[q].at \in HoldSteps /\ call'[q].at \notin HoldSteps
    /\ Running(g)' => g \in raced' \/ Running(g) \/ ~Started(g)
    /\ Finished(g) => Finished(g)'
    /\ g \in raced => g \in raced'
    /\ g \in listed' => g \in listed
    /\ g \in files' => g \in files \/ Running(g)
Steady == \A g \in DOMAIN rooms : SteadyGame(g)

\* What another request knows stays true.
LEMMA OthersInformed ==
    ASSUME LoopInv, CallsInv, Steady,
           NEW q \in DOMAIN call, DOMAIN call' = DOMAIN call, call'[q] = call[q]
    PROVE  Informed(q, call[q].at, call[q].got)'
<1> DEFINE g == q.game
           at == call[q].at
           got == call[q].got
<1>1. Informed(q, at, got)  BY DEF CallsInv
<1>2. at = "create" => q.op = "create"  BY <1>1 DEF Informed
<1>3. g \in DOMAIN rooms => SteadyGame(g)  BY DEF Steady
<1>4. (at = "join check" => g \in DOMAIN rooms)'  BY <1>1, <1>3 DEF Informed, SteadyGame
<1>5. Joins(g, at, got)'
  <2> SUFFICES ASSUME at \in JoinSteps PROVE Joins(g, at, got)'  BY DEF Joins
  <2>1. Joins(g, at, got) /\ g \in DOMAIN rooms  BY <1>1 DEF Informed, Joins
  <2>2. HasPort(g, got.seat) => HasPort(g, got.seat)'  BY <1>3 DEF HasPort, SteadyGame
  <2> QED  BY <1>3, <2>1, <2>2 DEF Joins, SteadyGame
<1>6. Starts(g, at)'
  <2>1. Starts(g, at)  BY <1>1 DEF Informed
  <2>2. at \in {"ports", "run"} => ~Started(g)'
    <3>1. SUFFICES ASSUME at \in {"ports", "run"}, Started(g)' PROVE FALSE  OBVIOUS
    <3>2. g \in DOMAIN rooms /\ ~Started(g)  BY <2>1, <3>1 DEF Starts
    <3>3. PICK p \in DOMAIN call : call[p].at \in HoldSteps /\ call'[p].at \notin HoldSteps
      BY <1>3, <3>1, <3>2 DEF SteadyGame
    <3>4. p = q  BY <3>1, <3>3 DEF LoopInv, HoldSteps
    <3> QED  BY <3>3, <3>4
  <2> QED  BY <1>3, <2>1, <2>2 DEF Starts, SteadyGame
<1>7. Deleting(g, at, got)'
  <2> SUFFICES ASSUME at \in DeleteSteps PROVE Deleting(g, at, got)'  BY DEF Deleting
  <2>1. Deleting(g, at, got) /\ g \in DOMAIN rooms  BY <1>1 DEF Informed, Deleting
  <2> QED  BY <1>3, <2>1 DEF Deleting, SteadyGame
<1>8. Viewing(g, at, got)'
  <2>1. CASE at = "look"
    <3>1. SUFFICES ASSUME got.viewer = "GM" PROVE Viewing(g, at, got)'  BY <2>1 DEF Viewing
    <3>2. Viewing(g, at, got) BY <1>1 DEF Informed
    <3> QED  BY <1>3, <2>1, <3>1, <3>2 DEF Viewing, SteadyGame
  <2>2. CASE (at = "watching" /\ got.viewer = "GM") \/ (at = "shown" /\ got.all)
    <3>1. Viewing(g, at, got) /\ g \in DOMAIN rooms /\ Started(g)
      BY <1>1, <2>2 DEF Informed, Viewing
    <3> QED  BY <1>3, <2>2, <3>1 DEF Viewing, SteadyGame, SeatsOf
  <2> QED  BY <2>1, <2>2 DEF Viewing
<1> QED  BY <1>2, <1>4, <1>5, <1>6, <1>7, <1>8 DEF Informed

\* A step of r: what r knows then, and how it takes the loop.
LEMMA MovedCalls ==
    ASSUME LoopInv, CallsInv, Steady, NEW r \in DOMAIN call, NEW step, NEW got,
           Go(r, step, got), Informed(r, step, got)',
           step \in HoldSteps => LoopFree \/ call[r].at \in HoldSteps
    PROVE  LoopInv' /\ CallsInv'
<1>1. DOMAIN call' = DOMAIN call  BY DEF Go
<1>2. \A q \in DOMAIN call : call'[q] = IF q = r THEN [at |-> step, got |-> got] ELSE call[q]
  BY DEF Go
<1>3. ASSUME NEW q \in DOMAIN call PROVE Informed(q, call[q].at, call[q].got)'
  <2>1. CASE q = r
    <3>1. call'[q].at = step /\ call'[q].got = got  BY <1>2, <2>1
    <3> QED  BY <2>1, <3>1
  <2>2. CASE q # r
    <3>1. call'[q] = call[q]  BY <1>2, <2>2
    <3> QED  BY <1>1, <3>1, OthersInformed
  <2> QED  BY <2>1, <2>2
<1>4. CallsInv'  BY <1>1, <1>3 DEF CallsInv
<1>5. LoopFree => \A q \in DOMAIN call : call[q].at \notin HoldSteps  BY DEF LoopFree, HoldSteps
<1>6. LoopInv'
  <2> SUFFICES ASSUME NEW p \in DOMAIN call, NEW q \in DOMAIN call,
                      call'[p].at \in HoldSteps, call'[q].at \in HoldSteps
               PROVE  p = q
    BY <1>1 DEF LoopInv
  <2>1. call'[r].at = step /\ \A o \in DOMAIN call : o # r => call'[o].at = call[o].at  BY <1>2
  <2>2. CASE p # r /\ q # r  BY <2>1, <2>2 DEF LoopInv
  <2>3. CASE p = r \/ q = r
    <3>1. step \in HoldSteps  BY <2>1, <2>3
    <3>2. CASE LoopFree  BY <1>5, <2>1, <2>3, <3>2
    <3>3. CASE call[r].at \in HoldSteps  BY <2>1, <2>3, <3>3 DEF LoopInv
    <3> QED  BY <3>1, <3>2, <3>3
  <2> QED  BY <2>2, <2>3
<1> QED  BY <1>4, <1>6

\* Steps of the runner and the reviews move no request.
LEMMA RestingCalls ==
    ASSUME LoopInv, CallsInv, Steady, UNCHANGED call PROVE LoopInv' /\ CallsInv'
<1>1. \A q \in DOMAIN call : Informed(q, call[q].at, call[q].got)'  BY OthersInformed
<1> QED  BY <1>1 DEF LoopInv, CallsInv

LEMMA MovedKept ==
    ASSUME RegistryInv, NEW r \in DOMAIN call, NEW step, NEW got, Go(r, step, got),
           GamesInv', Steady, Informed(r, step, got)',
           step \in HoldSteps => LoopFree \/ call[r].at \in HoldSteps
    PROVE  RegistryInv'
BY MovedCalls DEF RegistryInv

LEMMA AnsweredKept ==
    ASSUME RegistryInv, NEW r \in DOMAIN call, Answer(r), GamesInv', Steady
    PROVE  RegistryInv'
<1>1. Go(r, "done", None)  BY DEF Answer
<1>2. Informed(r, "done", None)'
  BY DEF Informed, Joins, Starts, Deleting, Viewing, JoinSteps, DeleteSteps
<1> QED  BY <1>1, <1>2, MovedKept DEF HoldSteps

\* ---- steps that leave the games as they are ----

LEMMA QuietWorld ==
    ASSUME GamesInv, UNCHANGED <<rooms, listed, files, tokens, exps>>, raced \subseteq raced'
    PROVE  GamesInv' /\ Steady
<1>1. RoomsInv' /\ TablesInv' /\ TokensInv'
  BY DEF GamesInv, RoomsInv, TablesInv, TokensInv, HasToken, HasPort, Started, Shape
<1>2. LiveInv' /\ OneSeatInv'  BY DEF GamesInv, LiveInv, Running, OneSeatInv, OneSeat
<1>3. ReviewsKept'  BY DEF GamesInv, ReviewsKept, Recorded
<1>4. Steady  BY DEF Steady, SteadyGame, Started, Running, Finished
<1> QED  BY <1>1, <1>2, <1>3, <1>4 DEF GamesInv

LEMMA QuietKept ==
    ASSUME RegistryInv, NEW r \in DOMAIN call, NEW step, NEW got, Go(r, step, got),
           UNCHANGED <<rooms, listed, files, tokens, exps>>, raced \subseteq raced',
           Informed(r, step, got)',
           step \in HoldSteps => LoopFree \/ call[r].at \in HoldSteps
    PROVE  RegistryInv'
<1>1. GamesInv' /\ Steady  BY QuietWorld DEF RegistryInv
<1> QED  BY <1>1, MovedKept

LEMMA QuietAnswerKept ==
    ASSUME RegistryInv, NEW r \in DOMAIN call, Answer(r),
           UNCHANGED <<rooms, listed, files, tokens, exps>>, raced \subseteq raced'
    PROVE  RegistryInv'
<1>1. GamesInv' /\ Steady  BY QuietWorld DEF RegistryInv
<1> QED  BY <1>1, AnsweredKept

\* The handlers of accounts come to no step of a game's.
MovesApart(r) ==
    \E step, got : /\ Go(r, step, got) /\ step \notin GameSteps
                   /\ step \in HoldSteps => LoopFree \/ call[r].at \in HoldSteps

LEMMA AccountMoves ==
    ASSUME NEW r \in DOMAIN call, ServeAccount(r) PROVE MovesApart(r)
<1> DEFINE Moves == MovesApart(r)
<1>0. ASSUME NEW step, NEW got, Go(r, step, got), step \notin GameSteps,
             step \in HoldSteps => LoopFree \/ call[r].at \in HoldSteps
      PROVE  Moves
  BY <1>0 DEF MovesApart
<1> HIDE DEF Moves
<1>1. ASSUME RegisterFind(r) \/ RegisterReuse(r) \/ Resend(r) \/ SendRead(r) PROVE Moves
  BY <1>0, <1>1 DEF RegisterFind, RegisterReuse, Resend, SendRead, At, Answer, GameSteps, HoldSteps,
              JoinSteps, DeleteSteps
<1>2. ASSUME RegisterPut(r) \/ RegisterClear(r) \/ SendPut(r) PROVE Moves
  BY <1>0, <1>2 DEF RegisterPut, RegisterClear, SendPut, At, Answer, GameSteps, HoldSteps,
              JoinSteps, DeleteSteps
<1>3. ASSUME VerifyFind(r) \/ VerifyCode(r) \/ VerifyMiss(r) \/ VerifyDrop(r) \/ VerifyPut(r)
      PROVE  Moves
  BY <1>0, <1>3 DEF VerifyFind, VerifyCode, VerifyMiss, VerifyDrop, VerifyPut, Answer, GameSteps,
              HoldSteps, JoinSteps, DeleteSteps
<1>4. ASSUME Login(r) \/ OpenSession(r) \/ Logout(r) \/ CodeExpires(r) \/ SessionExpires(r)
      PROVE  Moves
  BY <1>0, <1>4 DEF Login, OpenSession, Logout, CodeExpires, SessionExpires, Answer, GameSteps,
              HoldSteps, JoinSteps, DeleteSteps
<1>5. ASSUME AskAdmin(r) \/ PatchLock(r) \/ PatchPut(r) \/ PatchEnd(r) PROVE Moves
  BY <1>0, <1>5 DEF AskAdmin, PatchLock, PatchPut, PatchEnd, Answer, GameSteps, HoldSteps,
              JoinSteps, DeleteSteps
<1>6. ASSUME GrantFind(r) \/ GrantPut(r) \/ GrantDrop(r) PROVE Moves
  BY <1>0, <1>6 DEF GrantFind, GrantPut, GrantDrop, Answer, GameSteps, HoldSteps,
              JoinSteps, DeleteSteps
<1> QED  BY <1>1, <1>2, <1>3, <1>4, <1>5, <1>6 DEF ServeAccount, AccountStep, Moves

LEMMA AccountKeepsGames ==
    ASSUME RegistryInv, NEW r \in DOMAIN call, ServeAccount(r) PROVE RegistryInv'
<1>1. PICK step, got : /\ Go(r, step, got) /\ step \notin GameSteps
                       /\ step \in HoldSteps => LoopFree \/ call[r].at \in HoldSteps
  BY AccountMoves DEF MovesApart
<1>2. Informed(r, step, got)'
  BY <1>1 DEF Informed, Joins, Starts, Deleting, Viewing, GameSteps, JoinSteps, DeleteSteps
<1>3. UNCHANGED <<rooms, listed, files, tokens, exps>> /\ raced' = raced
  BY DEF ServeAccount, registryVars
<1> QED  BY <1>1, <1>2, <1>3, QuietKept

LEMMA CreateAskKept ==
    ASSUME RegistryInv, NEW r \in DOMAIN call, CreateAsk(r) \/ CreateRefused(r) PROVE RegistryInv'
<1>1. UNCHANGED <<rooms, listed, files, tokens, exps>> /\ raced' = raced
  BY DEF CreateAsk, CreateRefused, registryVars
<1>2. CASE Answer(r)  BY <1>1, <1>2, QuietAnswerKept
<1>3. CASE Asked(r, "create") /\ Go(r, "create", None)
  <2>1. Informed(r, "create", None)'
    BY <1>3 DEF Informed, Joins, Starts, Deleting, Viewing, JoinSteps, DeleteSteps, Asked
  <2> QED  BY <1>1, <1>3, <2>1, QuietKept DEF HoldSteps
<1> QED  BY <1>2, <1>3 DEF CreateAsk, CreateRefused

LEMMA JoinAskKept ==
    ASSUME RegistryInv, NEW r \in DOMAIN call, JoinAsk(r) PROVE RegistryInv'
<1>1. UNCHANGED <<rooms, listed, files, tokens, exps>> /\ raced' = raced
  BY DEF JoinAsk, registryVars
<1>2. CASE Answer(r)  BY <1>1, <1>2, QuietAnswerKept
<1>3. ASSUME NEW got, r.game \in listed, Go(r, "join check", got) PROVE RegistryInv'
  <2>1. r.game \in DOMAIN rooms'  BY <1>1, <1>3 DEF RegistryInv, GamesInv, TablesInv
  <2>2. Informed(r, "join check", got)'
    BY <2>1 DEF Informed, Joins, Starts, Deleting, Viewing, JoinSteps, DeleteSteps
  <2> QED  BY <1>1, <1>3, <2>2, QuietKept DEF HoldSteps
<1> QED  BY <1>2, <1>3 DEF JoinAsk

LEMMA JoinCheckKept ==
    ASSUME RegistryInv, NEW r \in DOMAIN call, JoinCheck(r) PROVE RegistryInv'
<1>1. UNCHANGED <<rooms, listed, files, tokens, exps>> /\ raced' = raced
  BY DEF JoinCheck, registryVars
<1>2. CASE Answer(r)  BY <1>1, <1>2, QuietAnswerKept
<1>3. CASE ~Answer(r)
  <2>1. PICK got : got = [account |-> Got(r), mine |-> SeatsOf(r.game, Got(r))]  OBVIOUS
  <2>2. Go(r, "choose", got) /\ call[r].at = "join check"  BY <1>3, <2>1 DEF JoinCheck, At
  <2>3. got.account # None => got.mine = {}  BY <1>3, <2>1 DEF JoinCheck
  <2>4. r.game \in DOMAIN rooms  BY <2>2 DEF RegistryInv, CallsInv, Informed
  <2>5. Informed(r, "choose", got)'
    BY <1>1, <2>3, <2>4 DEF Informed, Joins, Starts, Deleting, Viewing, JoinSteps, DeleteSteps
  <2> QED  BY <1>1, <2>2, <2>5, QuietKept DEF HoldSteps
<1> QED  BY <1>2, <1>3

LEMMA JoinChooseKept ==
    ASSUME RegistryInv, NEW r \in DOMAIN call, JoinChoose(r) PROVE RegistryInv'
<1>1. UNCHANGED <<rooms, listed, files, tokens, exps>> /\ raced' = raced
  BY DEF JoinChoose, registryVars
<1>2. CASE Answer(r)  BY <1>1, <1>2, QuietAnswerKept
<1>3. CASE ~Answer(r)
  <2>1. PICK seat \in Seats :
          Go(r, "sit", [account |-> Got(r).account, mine |-> Got(r).mine, seat |-> seat])
    BY <1>3 DEF JoinChoose
  <2>2. PICK got : got = [account |-> Got(r).account, mine |-> Got(r).mine, seat |-> seat]  OBVIOUS
  <2>3. Joins(r.game, "choose", Got(r))  BY DEF RegistryInv, CallsInv, Informed, JoinChoose, At, Got
  <2>4. Informed(r, "sit", got)'
    BY <1>1, <2>2, <2>3 DEF Informed, Joins, Starts, Deleting, Viewing, JoinSteps, DeleteSteps
  <2> QED  BY <1>1, <2>1, <2>2, <2>4, QuietKept DEF HoldSteps
<1> QED  BY <1>2, <1>3

LEMMA StartAskKept ==
    ASSUME RegistryInv, NEW r \in DOMAIN call, StartAsk(r) PROVE RegistryInv'
<1>1. UNCHANGED <<rooms, listed, files, tokens, exps>> /\ raced' = raced /\ LoopFree
  BY DEF StartAsk, registryVars
<1>2. CASE Answer(r)  BY <1>1, <1>2, QuietAnswerKept
<1>3. ASSUME NEW step \in {"fill", "wait"}, NEW got, r.game \in listed, Go(r, step, got)
      PROVE  RegistryInv'
  <2>1. r.game \in DOMAIN rooms'  BY <1>1, <1>3 DEF RegistryInv, GamesInv, TablesInv
  <2>2. Informed(r, step, got)'
    BY <2>1 DEF Informed, Joins, Starts, Deleting, Viewing, JoinSteps, DeleteSteps
  <2> QED  BY <1>1, <1>3, <2>2, QuietKept
<1>4. CASE ~Answer(r)
  <2> DEFINE waiting == Pending(MemoryIds(r.game))
  <2>1. PICK step, got : step = (IF waiting = {} THEN "fill" ELSE "wait")
                         /\ got = [waiting |-> waiting, late |-> FALSE,
                                   reviewing |-> {h \in listed : Reviewing(h)}]
    OBVIOUS
  <2>2. Go(r, step, got) /\ r.game \in listed  BY <1>4, <2>1 DEF StartAsk
  <2> QED  BY <1>3, <2>1, <2>2
<1> QED  BY <1>2, <1>4

LEMMA StartResumesKept ==
    ASSUME RegistryInv, NEW r \in DOMAIN call, StartResumes(r) PROVE RegistryInv'
<1>1. UNCHANGED <<rooms, listed, files, tokens, exps>> /\ raced' = raced /\ LoopFree
  BY DEF StartResumes, registryVars
<1>2. PICK got : got = [Got(r) EXCEPT !.late = \E h \in Got(r).waiting : Reviewing(h)]  OBVIOUS
<1>3. Go(r, "fill", got) /\ call[r].at = "wait"  BY <1>2 DEF StartResumes, At
<1>4. r.game \in DOMAIN rooms  BY <1>3 DEF RegistryInv, CallsInv, Informed, Starts
<1>5. Informed(r, "fill", got)'
  BY <1>1, <1>4 DEF Informed, Joins, Starts, Deleting, Viewing, JoinSteps, DeleteSteps
<1> QED  BY <1>1, <1>3, <1>5, QuietKept

LEMMA DeleteAskKept ==
    ASSUME RegistryInv, NEW r \in DOMAIN call, DeleteAsk(r) PROVE RegistryInv'
<1>1. UNCHANGED <<rooms, listed, files, tokens, exps>> /\ raced' = raced
  BY DEF DeleteAsk, registryVars
<1>2. CASE Answer(r)  BY <1>1, <1>2, QuietAnswerKept
<1>3. CASE ~Answer(r)
  <2>1. PICK got : got = [handle |-> r.game \in listed, started |-> Started(r.game)]  OBVIOUS
  <2>2. /\ Go(r, "delete file", got)
        /\ r.game \in listed \cup files
        /\ ~(r.game \in listed /\ Running(r.game))
    BY <1>3, <2>1 DEF DeleteAsk, CanAccess, OwnerOf
  <2>3. r.game \in DOMAIN rooms  BY <2>2 DEF RegistryInv, GamesInv, TablesInv
  <2>4. Running(r.game) => r.game \in raced
    BY <2>2, <2>3 DEF RegistryInv, GamesInv, LiveInv
  <2>5. Deleting(r.game, "delete file", got)'
    <3>1. got.handle = (r.game \in listed) /\ got.started = Started(r.game)  BY <2>1
    <3>2. Started(r.game)' = Started(r.game) /\ Running(r.game)' = Running(r.game)
      BY <1>1 DEF Started, Running
    <3>3. got.handle \in BOOLEAN /\ (~got.handle => r.game \notin listed)
      <4>1. (r.game \in listed) \in BOOLEAN  OBVIOUS
      <4>2. got.handle \in BOOLEAN  BY <3>1, <4>1
      <4>3. ~got.handle => r.game \notin listed  BY <3>1
      <4> QED  BY <4>2, <4>3
    <3>4. got.started => Started(r.game)  BY <3>1
    <3> QED  BY <1>1, <2>3, <2>4, <3>2, <3>3, <3>4 DEF Deleting
  <2>6. Informed(r, "delete file", got)'
    BY <2>5 DEF Informed, Joins, Starts, Viewing, JoinSteps
  <2> QED  BY <1>1, <2>2, <2>6, QuietKept DEF HoldSteps
<1> QED  BY <1>2, <1>3

\* Who is given the GM's eyes on a game that is not over does not sit at a table of his own.
LEMMA GodsEyes ==
    ASSUME NEW r, NEW view \in Resolved(r), view # None, view.viewer = "GM",
           r.game \in listed, ~Finished(r.game),
           view.user = rooms[r.game].owner
    PROVE  OwnerSeats(r.game) = {}
<1>1. view \in ViewsFor(r)  BY DEF Resolved
<1>2. CASE r.by = "session"
  <2>1. view = SessionView(r.as, r.game)  BY <1>1, <1>2 DEF ViewsFor
  <2> QED  BY <2>1 DEF SessionView, View, OwnerLocked, OwnerOf
<1>3. CASE r.by = "share" /\ r.by # "session"
  <2>1. view = ShareView(r.game)  BY <1>1, <1>3 DEF ViewsFor
  <2> QED  BY <2>1 DEF ShareView, View
<1>4. CASE r.by # "share" /\ r.by # "session"
  <2>1. PICK t \in tokens : t.game = r.game /\ view = TokenView(t)  BY <1>1, <1>4 DEF ViewsFor
  <2> QED  BY <2>1 DEF TokenView, View, OwnerLocked
<1> QED  BY <1>2, <1>3, <1>4

LEMMA WatchKept ==
    ASSUME RegistryInv, NEW r \in DOMAIN call, Watch(r) \/ Leave(r) PROVE RegistryInv'
<1>1. UNCHANGED <<rooms, listed, files, tokens, exps>> /\ raced' = raced
  BY DEF Watch, Leave, registryVars
<1>2. CASE Answer(r)  BY <1>1, <1>2, QuietAnswerKept
<1>3. ASSUME NEW view \in Resolved(r), view # None, r.game \in listed, Started(r.game),
             Go(r, "watching", view)
      PROVE  RegistryInv'
  <2>1. r.game \in DOMAIN rooms  BY <1>3 DEF RegistryInv, GamesInv, TablesInv
  <2>2. Viewing(r.game, "watching", view)
    BY <1>3, <2>1, GodsEyes DEF Viewing, OwnerSeats
  <2>3. Informed(r, "watching", view)'
    BY <1>1, <2>2 DEF Informed, Joins, Starts, Deleting, Viewing, JoinSteps, DeleteSteps,
                      Started, Finished, SeatsOf
  <2> QED  BY <1>1, <1>3, <2>3, QuietKept DEF HoldSteps
<1> QED  BY <1>2, <1>3 DEF Watch, Leave

LEMMA ReadAskKept ==
    ASSUME RegistryInv, NEW r \in DOMAIN call, ReadAsk(r) PROVE RegistryInv'
<1>1. UNCHANGED <<rooms, listed, files, tokens, exps>> /\ raced' = raced
  BY DEF ReadAsk, registryVars
<1>2. CASE Answer(r)  BY <1>1, <1>2, QuietAnswerKept
<1>3. ASSUME NEW view \in Resolved(r), view # None, NEW got,
             got = [viewer |-> view.viewer, user |-> view.user, sat |-> OwnerSeats(r.game)],
             Go(r, "look", got)
      PROVE  RegistryInv'
  <2>1. Viewing(r.game, "look", got)  BY <1>3, GodsEyes DEF Viewing, OwnerSeats
  <2>2. Informed(r, "look", got)'
    BY <1>1, <2>1 DEF Informed, Joins, Starts, Deleting, Viewing, JoinSteps, DeleteSteps, Finished
  <2> QED  BY <1>1, <1>3, <2>2, QuietKept DEF HoldSteps
<1> QED  BY <1>2, <1>3 DEF ReadAsk

LEMMA ReadLookKept ==
    ASSUME RegistryInv, NEW r \in DOMAIN call, ReadLook(r) PROVE RegistryInv'
<1>1. UNCHANGED <<rooms, listed, files, tokens, exps>> /\ raced \subseteq raced'
  BY DEF ReadLook, Race
<1>2. CASE Answer(r)  BY <1>1, <1>2, QuietAnswerKept
<1>3. CASE Served(r)
  <2> DEFINE g == r.game
  <2>1. PICK got : got = [viewer |-> Got(r).viewer, user |-> Got(r).user, all |-> Unfiltered(r)]
    OBVIOUS
  <2>2. Go(r, "shown", got) /\ (Overlooked(r) => g \in raced')
    BY <1>3, <2>1 DEF ReadLook, Race
  <2>3. /\ listed \subseteq DOMAIN rooms /\ files \subseteq DOMAIN rooms
        /\ \A h \in files : Started(h)
        /\ \A h \in DOMAIN rooms : h \notin raced /\ h \notin listed => h \notin files
        /\ \A h \in DOMAIN rooms : rooms[h].phase = "over" => rooms[h].task # "none"
    BY DEF RegistryInv, GamesInv, TablesInv, LiveInv, RoomsInv, Shape
  <2>4. g \in listed \cup files
    BY <1>3 DEF Served, LiveServed, ReplayServed, AudioServed, OwnerOf
  <2>5. g \in DOMAIN rooms  BY <2>3, <2>4
  <2>6. Started(g)
    BY <1>3, <2>3, <2>5 DEF Served, LiveServed, ReplayServed, AudioServed, Finished, Started
  <2>7. ASSUME g \in raced \/ Finished(g) PROVE Viewing(g, "shown", got)'
    BY <1>1, <2>5, <2>6, <2>7 DEF Viewing, Started, Finished
  <2>8. ASSUME g \notin raced, ~Finished(g) PROVE Viewing(g, "shown", got)'
    <3>1. g \in listed  BY <2>3, <2>4, <2>5, <2>8
    <3>2. got.all => got.viewer = "GM"
      BY <1>3, <2>1, <2>6, <2>8, <3>1 DEF Unfiltered, Served, ReplayServed, AudioServed, LiveServed, Heard
    <3>3. got.viewer = "GM" /\ got.user = rooms[g].owner => Got(r).sat = {}
      <4>1. Viewing(g, "look", Got(r))
        BY DEF RegistryInv, CallsInv, Informed, ReadLook, At, Got
      <4> QED  BY <2>1, <2>8, <3>1, <4>1 DEF Viewing, Got
    <3>4. got.viewer = "GM" /\ got.user = rooms[g].owner /\ SeatsOf(g, got.user) # {} => g \in raced'
      BY <2>1, <2>2, <2>5, <3>3 DEF Overlooked, OwnerSeats
    <3> QED
      BY <1>1, <2>5, <2>6, <3>2, <3>4 DEF Viewing, Started, Finished, SeatsOf
  <2>9. Viewing(g, "shown", got)'  BY <2>7, <2>8
  <2>10. Informed(r, "shown", got)'
    BY <2>9 DEF Informed, Joins, Starts, Deleting, JoinSteps, DeleteSteps
  <2> QED  BY <1>1, <2>2, <2>10, QuietKept DEF HoldSteps
<1> QED  BY <1>2, <1>3 DEF ReadLook

\* ---- steps that change one game ----

\* Nothing changes in the rooms but the given fields of g.
Alters(g, fields) ==
    /\ g \in DOMAIN rooms /\ DOMAIN rooms' = DOMAIN rooms
    /\ \A h \in DOMAIN rooms :
         /\ h # g => rooms'[h] = rooms[h]
         /\ DOMAIN rooms'[h] = DOMAIN rooms[h]
         /\ \A f \in Fields \ fields : rooms'[h][f] = rooms[h][f]

\* The seats taken in the lobby.
LEMMA SeatingWorld ==
    ASSUME GamesInv, NEW g, Alters(g, {"entries"}), raced \subseteq raced',
           UNCHANGED <<listed, files, tokens, exps>>
    PROVE  GamesInv' /\ Steady
<1> DEFINE Same(h) ==
      /\ DOMAIN rooms'[h] = DOMAIN rooms[h] /\ rooms'[h].owner = rooms[h].owner
      /\ rooms'[h].agents = rooms[h].agents /\ rooms'[h].ports = rooms[h].ports
      /\ rooms'[h].seated = rooms[h].seated /\ rooms'[h].task = rooms[h].task
      /\ rooms'[h].phase = rooms[h].phase /\ rooms'[h].review = rooms[h].review
<1>1. DOMAIN rooms' = DOMAIN rooms /\ \A h \in DOMAIN rooms : Same(h)
  BY DEF Alters, Fields
<1>2. RoomsInv'  BY <1>1 DEF GamesInv, RoomsInv, Shape
<1>3. TablesInv'  BY <1>1 DEF GamesInv, TablesInv, HasToken, Started
<1>4. LiveInv'  BY <1>1 DEF GamesInv, LiveInv, Running
<1>5. OneSeatInv'  BY <1>1 DEF GamesInv, OneSeatInv, OneSeat
<1>6. TokensInv'  BY <1>1 DEF GamesInv, TokensInv, HasPort
<1>7. ReviewsKept'  BY <1>1 DEF GamesInv, ReviewsKept, Recorded
<1>8. Steady  BY <1>1 DEF Steady, SteadyGame, Started, Running, Finished
<1> QED  BY <1>2, <1>3, <1>4, <1>5, <1>6, <1>7, <1>8 DEF GamesInv

\* Ports are added, or given to an outside player; what an agent has read comes with them.
LEMMA PortsWorld ==
    ASSUME GamesInv, NEW g, Alters(g, {"memory", "experiences", "ports"}), raced \subseteq raced',
           UNCHANGED <<listed, files, tokens, exps>>,
           DOMAIN rooms[g].ports \subseteq DOMAIN rooms'[g].ports,
           DOMAIN rooms'[g].ports \subseteq Seats,
           \A s \in DOMAIN rooms[g].ports :
             rooms'[g].ports[s] = rooms[g].ports[s] \/ rooms'[g].ports[s] = "human"
    PROVE  GamesInv' /\ Steady
<1> DEFINE Same(h) ==
      /\ DOMAIN rooms'[h] = DOMAIN rooms[h] /\ rooms'[h].owner = rooms[h].owner
      /\ rooms'[h].agents = rooms[h].agents
      /\ rooms'[h].seated = rooms[h].seated /\ rooms'[h].task = rooms[h].task
      /\ rooms'[h].phase = rooms[h].phase /\ rooms'[h].review = rooms[h].review
<1>1. DOMAIN rooms' = DOMAIN rooms /\ \A h \in DOMAIN rooms : Same(h)
  BY DEF Alters, Fields
<1>2. \A h \in DOMAIN rooms :
        /\ DOMAIN rooms[h].ports \subseteq DOMAIN rooms'[h].ports
        /\ \A s \in DOMAIN rooms[h].ports :
             rooms'[h].ports[s] = rooms[h].ports[s] \/ rooms'[h].ports[s] = "human"
  BY DEF Alters
<1>3. RoomsInv'
  <2>1. \A h \in DOMAIN rooms : DOMAIN rooms'[h].ports \subseteq Seats
    BY DEF Alters, GamesInv, RoomsInv, Shape
  <2> QED  BY <1>1, <2>1 DEF GamesInv, RoomsInv, Shape
<1>4. TablesInv'  BY <1>1 DEF GamesInv, TablesInv, HasToken, Started
<1>5. LiveInv'  BY <1>1, <1>2 DEF GamesInv, LiveInv, Running
<1>6. OneSeatInv'  BY <1>1 DEF GamesInv, OneSeatInv, OneSeat
<1>7. TokensInv'  BY <1>1, <1>2 DEF GamesInv, TokensInv, HasPort
<1>8. ReviewsKept'  BY <1>1 DEF GamesInv, ReviewsKept, Recorded
<1>9. Steady  BY <1>1, <1>2 DEF Steady, SteadyGame, Started, Running, Finished
<1> QED  BY <1>3, <1>4, <1>5, <1>6, <1>7, <1>8, <1>9 DEF GamesInv

LEMMA JoinSitKept ==
    ASSUME RegistryInv, NEW r \in DOMAIN call, JoinSit(r) PROVE RegistryInv'
<1>1. PICK got : got = Got(r)  OBVIOUS
<1>2. Go(r, "port", got) /\ raced \subseteq raced' /\ UNCHANGED <<listed, files, tokens, exps>>
  BY <1>1 DEF JoinSit, Race
<1>3. Joins(r.game, "sit", got)
  BY <1>1 DEF RegistryInv, CallsInv, Informed, JoinSit, At, Got
<1>4. Alters(r.game, {"entries"})
  BY <1>3 DEF Alters, JoinSit, Joins, JoinSteps, RegistryInv, GamesInv, RoomsInv, Shape, Fields
<1>5. GamesInv' /\ Steady  BY <1>2, <1>4, SeatingWorld DEF RegistryInv
<1>6. Informed(r, "port", got)'
  BY <1>3, <1>4 DEF Informed, Joins, Starts, Deleting, Viewing, JoinSteps, DeleteSteps, Alters
<1> QED  BY <1>2, <1>5, <1>6, MovedKept DEF HoldSteps

LEMMA JoinPortKept ==
    ASSUME RegistryInv, NEW r \in DOMAIN call, JoinPort(r) PROVE RegistryInv'
<1>1. PICK got : got = Got(r)  OBVIOUS
<1>2. Go(r, "name", got) /\ raced \subseteq raced' /\ UNCHANGED <<listed, files, tokens, exps>>
  BY <1>1 DEF JoinPort, Race
<1>3. Joins(r.game, "port", got)
  BY <1>1 DEF RegistryInv, CallsInv, Informed, JoinPort, At, Got
<1>4. r.game \in DOMAIN rooms /\ got.seat \in Seats /\ Shape(rooms[r.game])
  BY <1>3 DEF Joins, JoinSteps, RegistryInv, GamesInv, RoomsInv
<1>5. rooms' = [rooms EXCEPT ![r.game].ports = Put(@, got.seat, "human")]
  BY <1>1 DEF JoinPort
<1>6. Alters(r.game, {"memory", "experiences", "ports"})
  BY <1>4, <1>5 DEF Alters, RegistryInv, GamesInv, RoomsInv, Shape, Fields
<1>7. rooms'[r.game].ports = Put(rooms[r.game].ports, got.seat, "human")
  BY <1>4, <1>5 DEF Shape, Fields
<1>8. GamesInv' /\ Steady
  BY <1>2, <1>4, <1>6, <1>7, PortsWorld DEF RegistryInv, Put, Shape
<1>9. HasPort(r.game, got.seat)'  BY <1>4, <1>6, <1>7 DEF HasPort, Put, Alters
<1>10. Informed(r, "name", got)'
  BY <1>3, <1>6, <1>9 DEF Informed, Joins, Starts, Deleting, Viewing, JoinSteps, DeleteSteps, Alters
<1> QED  BY <1>2, <1>8, <1>10, MovedKept DEF HoldSteps

LEMMA JoinNameKept ==
    ASSUME RegistryInv, NEW r \in DOMAIN call, JoinName(r) PROVE RegistryInv'
<1>1. PICK got, g : got = Got(r) /\ g = r.game  OBVIOUS
<1>2. /\ Go(r, "token", got) /\ raced \subseteq raced' /\ UNCHANGED <<listed, files, tokens, exps>>
      /\ Overtaken(r) => g \in raced'
  BY <1>1 DEF JoinName, Race
<1>3. Joins(g, "name", got)
  BY <1>1 DEF RegistryInv, CallsInv, Informed, JoinName, At, Got
<1>4. g \in DOMAIN rooms /\ Shape(rooms[g]) /\ HasPort(g, got.seat)
  BY <1>3 DEF Joins, JoinSteps, RegistryInv, GamesInv, RoomsInv
<1>5. rooms' = [rooms EXCEPT ![g].seated = Put(@, got.seat, got.account)]
  BY <1>1 DEF JoinName
<1>6. Alters(g, {"seated"})
  BY <1>4, <1>5 DEF Alters, RegistryInv, GamesInv, RoomsInv, Shape, Fields
<1>7. rooms'[g].seated = Put(rooms[g].seated, got.seat, got.account)
  BY <1>4, <1>5 DEF Shape, Fields
<1>8. got.account # None => g \in raced' \/ SeatsOf(g, got.account) = {}
  BY <1>1, <1>2, <1>3 DEF Joins, JoinSteps, Overtaken
<1>9. Started(g) => g \in raced'  BY <1>1, <1>2 DEF Overtaken
<1> DEFINE Same(h) ==
      /\ DOMAIN rooms'[h] = DOMAIN rooms[h] /\ rooms'[h].owner = rooms[h].owner
      /\ rooms'[h].agents = rooms[h].agents /\ rooms'[h].ports = rooms[h].ports
      /\ rooms'[h].task = rooms[h].task
      /\ rooms'[h].phase = rooms[h].phase /\ rooms'[h].review = rooms[h].review
<1>10. /\ DOMAIN rooms' = DOMAIN rooms /\ \A h \in DOMAIN rooms : Same(h)
       /\ \A h \in DOMAIN rooms : h # g => rooms'[h].seated = rooms[h].seated
  BY <1>6 DEF Alters, Fields
<1>11. RoomsInv'  BY <1>10 DEF RegistryInv, GamesInv, RoomsInv, Shape
<1>12. TablesInv'  BY <1>2, <1>10 DEF RegistryInv, GamesInv, TablesInv, HasToken, Started
<1>13. LiveInv'  BY <1>2, <1>10 DEF RegistryInv, GamesInv, LiveInv, Running
<1>14. OneSeatInv'
  <2> SUFFICES ASSUME NEW h \in DOMAIN rooms, h \notin raced' PROVE OneSeat(h)'
    BY <1>10 DEF OneSeatInv
  <2>1. OneSeat(h)  BY <1>2 DEF RegistryInv, GamesInv, OneSeatInv
  <2>2. CASE h # g  BY <1>10, <2>1, <2>2 DEF OneSeat
  <2>3. CASE h = g
    <3>1. got.account # None =>
            \A s \in DOMAIN rooms[g].seated : rooms[g].seated[s] # got.account
      BY <1>8, <2>3 DEF SeatsOf
    <3> QED  BY <1>7, <2>1, <2>3, <3>1 DEF OneSeat, Put
  <2> QED  BY <2>2, <2>3
<1>15. TokensInv'  BY <1>2, <1>10 DEF RegistryInv, GamesInv, TokensInv, HasPort
<1>16. ReviewsKept'  BY <1>2, <1>10 DEF RegistryInv, GamesInv, ReviewsKept, Recorded
<1>17. GamesInv'  BY <1>11, <1>12, <1>13, <1>14, <1>15, <1>16 DEF GamesInv
<1>18. Steady  BY <1>2, <1>9, <1>10 DEF Steady, SteadyGame, Started, Running, Finished
<1>19. Informed(r, "token", got)'
  BY <1>1, <1>3, <1>10
  DEF Informed, Joins, Starts, Deleting, Viewing, JoinSteps, DeleteSteps, HasPort
<1> QED  BY <1>2, <1>17, <1>18, <1>19, MovedKept DEF HoldSteps

LEMMA JoinTokenKept ==
    ASSUME RegistryInv, NEW r \in DOMAIN call, JoinToken(r) PROVE RegistryInv'
<1>1. Joins(r.game, "token", Got(r))
  BY DEF RegistryInv, CallsInv, Informed, JoinToken, At, Got
<1>2. HasPort(r.game, Got(r).seat)  BY <1>1 DEF Joins, JoinSteps
<1>3. /\ UNCHANGED <<rooms, listed, files, exps>> /\ raced \subseteq raced' /\ Answer(r)
      /\ tokens \subseteq tokens'
  BY DEF JoinToken, Race
<1>4. TokensInv'
  <2>1. \A t \in tokens' : t \in tokens \/ (t.game = r.game /\ t.seat = Got(r).seat)
    BY DEF JoinToken
  <2> QED  BY <1>2, <1>3, <2>1 DEF RegistryInv, GamesInv, TokensInv, HasPort
<1>5. RoomsInv' /\ TablesInv'
  BY <1>3 DEF RegistryInv, GamesInv, RoomsInv, TablesInv, HasToken, Started, Shape
<1>6. LiveInv' /\ OneSeatInv'
  BY <1>3 DEF RegistryInv, GamesInv, LiveInv, Running, OneSeatInv, OneSeat
<1>7. ReviewsKept'  BY <1>3 DEF RegistryInv, GamesInv, ReviewsKept, Recorded
<1>8. Steady  BY <1>3 DEF Steady, SteadyGame, Started, Running, Finished
<1> QED  BY <1>3, <1>4, <1>5, <1>6, <1>7, <1>8, AnsweredKept DEF GamesInv

LEMMA StartFillKept ==
    ASSUME RegistryInv, NEW r \in DOMAIN call, StartFill(r) PROVE RegistryInv'
<1>1. UNCHANGED <<listed, files, tokens, exps>> /\ raced \subseteq raced'  BY DEF StartFill, Race
<1>2. CASE UNCHANGED rooms /\ Answer(r)  BY <1>1, <1>2, QuietAnswerKept
<1>3. CASE ~(UNCHANGED rooms /\ Answer(r))
  <2>1. PICK got, entries : /\ got = Got(r)
                            /\ entries = IF r.fill THEN Seats ELSE rooms[r.game].entries
    OBVIOUS
  <2>2. /\ ~Started(r.game)
        /\ rooms' = [rooms EXCEPT ![r.game].entries = entries]
        /\ Answer(r) \/ Go(r, "ports", got)
    BY <1>3, <2>1 DEF StartFill
  <2>3. call[r].at = "fill"  BY DEF StartFill, At
  <2>4. r.game \in DOMAIN rooms  BY <2>3 DEF RegistryInv, CallsInv, Informed, Starts
  <2>5. Alters(r.game, {"entries"})
    BY <2>2, <2>4 DEF Alters, RegistryInv, GamesInv, RoomsInv, Shape, Fields
  <2>6. GamesInv' /\ Steady  BY <1>1, <2>5, SeatingWorld DEF RegistryInv
  <2>7. ~Started(r.game)'  BY <2>2, <2>5 DEF Started, Alters, Fields
  <2>8. Informed(r, "ports", got)'
    BY <2>5, <2>7 DEF Informed, Joins, Starts, Deleting, Viewing, JoinSteps, DeleteSteps, Alters
  <2>9. CASE Answer(r)  BY <2>6, <2>9, AnsweredKept
  <2>10. CASE Go(r, "ports", got)  BY <2>3, <2>6, <2>8, <2>10, MovedKept DEF HoldSteps
  <2> QED  BY <2>2, <2>9, <2>10
<1> QED  BY <1>2, <1>3

\* Building ports keeps those that are there, and builds for seats of the board only.
LEMMA AssemblyWorld ==
    ASSUME GamesInv, NEW g \in DOMAIN rooms, NEW built, built \subseteq Seats,
           rooms' = [rooms EXCEPT ![g] = Assembled(g, built)],
           UNCHANGED <<listed, files, tokens, exps, raced>>
    PROVE  /\ GamesInv' /\ Steady /\ Alters(g, {"memory", "experiences", "ports"})
           /\ built \subseteq DOMAIN rooms'[g].ports
<1>1. Shape(rooms[g])  BY DEF GamesInv, RoomsInv
<1>2. rooms'[g] = Assembled(g, built)  OBVIOUS
<1>3. Alters(g, {"memory", "experiences", "ports"})
  BY <1>1, <1>2 DEF Alters, Assembled, GamesInv, RoomsInv, Shape, Fields
<1>4. rooms'[g].ports =
        [s \in DOMAIN rooms[g].ports \cup built |->
           IF s \in DOMAIN rooms[g].ports THEN rooms[g].ports[s]
           ELSE IF s \in DOMAIN rooms[g].agents THEN "agent" ELSE "bot"]
  BY <1>1, <1>2 DEF Assembled, Shape, Fields
<1>5. GamesInv' /\ Steady  BY <1>1, <1>3, <1>4, PortsWorld DEF Shape
<1> QED  BY <1>3, <1>4, <1>5

LEMMA StartPortsKept ==
    ASSUME RegistryInv, NEW r \in DOMAIN call, StartPorts(r) PROVE RegistryInv'
<1>1. PICK got : got = Got(r)  OBVIOUS
<1>2. Go(r, "run", got) /\ call[r].at = "ports"  BY <1>1 DEF StartPorts, At
<1>3. r.game \in DOMAIN rooms /\ ~Started(r.game)
  BY <1>2 DEF RegistryInv, CallsInv, Informed, Starts
<1>4. /\ GamesInv' /\ Steady /\ Alters(r.game, {"memory", "experiences", "ports"})
      /\ Seats \subseteq DOMAIN rooms'[r.game].ports
  BY <1>3, AssemblyWorld DEF RegistryInv, StartPorts
<1>5. ~Started(r.game)'  BY <1>3, <1>4 DEF Started, Alters, Fields
<1>6. Informed(r, "run", got)'
  BY <1>4, <1>5 DEF Informed, Joins, Starts, Deleting, Viewing, JoinSteps, DeleteSteps, Alters
<1> QED  BY <1>2, <1>4, <1>6, MovedKept DEF HoldSteps

LEMMA StartFailsKept ==
    ASSUME RegistryInv, NEW r \in DOMAIN call, StartFails(r) PROVE RegistryInv'
<1>1. call[r].at = "ports" /\ Answer(r)  BY DEF StartFails, At
<1>2. r.game \in DOMAIN rooms /\ ~Started(r.game)
  BY <1>1 DEF RegistryInv, CallsInv, Informed, Starts
<1>3. PICK k \in {0} \cup (DOMAIN rooms[r.game].agents \ DOMAIN rooms[r.game].ports) :
        rooms' = [rooms EXCEPT ![r.game] = Assembled(r.game, 0 .. k - 1)]
  BY DEF StartFails
<1>4. 0 .. k - 1 \subseteq Seats
  <2>1. k = 0 \/ k \in Seats  BY <1>2, <1>3 DEF RegistryInv, GamesInv, RoomsInv, Shape
  <2> QED  BY <2>1, RegistryAssumption DEF Seats
<1>5. GamesInv' /\ Steady
  BY <1>2, <1>3, <1>4, AssemblyWorld DEF RegistryInv, StartFails
<1> QED  BY <1>1, <1>5, AnsweredKept

\* The task of g goes on, and with it the phase.
LEMMA TaskWorld ==
    ASSUME GamesInv, NEW g, Alters(g, {"task", "phase"}), UNCHANGED <<listed, tokens, exps>>,
           raced \subseteq raced', files \subseteq files', files' \subseteq files \cup {g},
           rooms'[g].phase = "over" => rooms'[g].task \in {"closing", "over", "crashed"},
           Started(g)', Running(g)' /\ g \notin raced' =>
             /\ g \in listed /\ Seats \subseteq DOMAIN rooms[g].ports
             /\ rooms'[g].task # "made" => g \in files',
           g \in files' => g \in raced' \/ g \in listed \/ g \in files
    PROVE  GamesInv'
<1> DEFINE Same(h) ==
      /\ DOMAIN rooms'[h] = DOMAIN rooms[h] /\ rooms'[h].owner = rooms[h].owner
      /\ rooms'[h].agents = rooms[h].agents /\ rooms'[h].ports = rooms[h].ports
      /\ rooms'[h].seated = rooms[h].seated /\ rooms'[h].review = rooms[h].review
<1>1. /\ DOMAIN rooms' = DOMAIN rooms /\ \A h \in DOMAIN rooms : Same(h)
      /\ \A h \in DOMAIN rooms :
           h # g => rooms'[h].task = rooms[h].task /\ rooms'[h].phase = rooms[h].phase
  BY DEF Alters, Fields
<1>2. g \in DOMAIN rooms  BY DEF Alters
<1>3. RoomsInv'  BY <1>1 DEF GamesInv, RoomsInv, Shape
<1>4. TablesInv'  BY <1>1, <1>2 DEF GamesInv, TablesInv, HasToken, Started
<1>5. LiveInv'  BY <1>1 DEF GamesInv, LiveInv, Running
<1>6. OneSeatInv'  BY <1>1 DEF GamesInv, OneSeatInv, OneSeat
<1>7. TokensInv'  BY <1>1 DEF GamesInv, TokensInv, HasPort
<1>8. ReviewsKept'  BY <1>1 DEF GamesInv, ReviewsKept, Recorded
<1> QED  BY <1>3, <1>4, <1>5, <1>6, <1>7, <1>8 DEF GamesInv

LEMMA StartRunKept ==
    ASSUME RegistryInv, NEW r \in DOMAIN call, StartRun(r) PROVE RegistryInv'
<1> DEFINE g == r.game
<1>1. /\ UNCHANGED <<listed, files, tokens, exps>> /\ raced \subseteq raced'
      /\ g \notin listed => g \in raced'
      /\ Answer(r) /\ call[r].at = "run" /\ rooms' = [rooms EXCEPT ![g].task = "made"]
  BY DEF StartRun, Race, At
<1>2. g \in DOMAIN rooms /\ ~Started(g) /\ Seats \subseteq DOMAIN rooms[g].ports
  BY <1>1 DEF RegistryInv, CallsInv, Informed, Starts
<1>3. Shape(rooms[g])  BY <1>2 DEF RegistryInv, GamesInv, RoomsInv
<1>4. Alters(g, {"task", "phase"})
  BY <1>1, <1>2 DEF Alters, RegistryInv, GamesInv, RoomsInv, Shape, Fields
<1>5. rooms'[g].task = "made" /\ rooms'[g].phase = rooms[g].phase
  BY <1>1, <1>2, <1>3 DEF Shape, Fields
<1>6. rooms[g].phase # "over"  BY <1>2, <1>3 DEF Shape, Started
<1>7. GamesInv'
  BY <1>1, <1>2, <1>4, <1>5, <1>6, TaskWorld DEF RegistryInv, Started
<1>8. call'[r].at \notin HoldSteps  BY <1>1 DEF Answer, Go, HoldSteps
<1>9. Steady
  <2> SUFFICES ASSUME NEW h \in DOMAIN rooms PROVE SteadyGame(h)  BY DEF Steady
  <2>1. /\ h \in DOMAIN rooms' /\ rooms'[h].owner = rooms[h].owner
        /\ rooms'[h].ports = rooms[h].ports /\ rooms'[h].seated = rooms[h].seated
        /\ h # g => rooms'[h] = rooms[h]
    BY <1>4 DEF Alters, Fields
  <2> QED
    BY <1>1, <1>2, <1>5, <1>8, <2>1 DEF SteadyGame, Started, Running, Finished, HoldSteps
<1> QED  BY <1>1, <1>7, <1>9, AnsweredKept

LEMMA RunnerKept ==
    ASSUME RegistryInv, NEW g \in DOMAIN rooms,
           RunnerBegins(g) \/ RunnerOver(g) \/ RunnerDone(g) \/ RunnerCrashes(g)
    PROVE  RegistryInv'
<1>1. PICK from, to, phase :
        /\ Runs(g, from, to, phase)
        /\ \/ from = {"made"} /\ to = "playing" /\ phase = "play" /\ files' = files \cup {g}
           \/ from = {"playing"} /\ to = "closing" /\ phase = "over" /\ files' = files
           \/ from = {"closing"} /\ to = "over" /\ phase = "over" /\ files' = files
           \/ from = {"made", "playing", "closing"} /\ to = "crashed" /\ phase = rooms[g].phase
                /\ files' = files
  BY DEF RunnerBegins, RunnerOver, RunnerDone, RunnerCrashes
<1>2. /\ rooms[g].task \in from /\ UNCHANGED <<call, listed, tokens, exps, raced>>
      /\ rooms' = [rooms EXCEPT ![g].task = to, ![g].phase = phase]
  BY <1>1 DEF Runs
<1>3. Shape(rooms[g])  BY DEF RegistryInv, GamesInv, RoomsInv
<1>4. Alters(g, {"task", "phase"})
  BY <1>2 DEF Alters, RegistryInv, GamesInv, RoomsInv, Shape, Fields
<1>5. rooms'[g].task = to /\ rooms'[g].phase = phase
  BY <1>2, <1>3 DEF Shape, Fields
<1>6. Running(g) /\ (rooms[g].phase = "over" => rooms[g].task = "closing")
  BY <1>1, <1>2, <1>3 DEF Running, Shape
<1>7. g \notin raced => /\ g \in listed /\ Seats \subseteq DOMAIN rooms[g].ports
                        /\ rooms[g].task # "made" => g \in files
  BY <1>6 DEF RegistryInv, GamesInv, LiveInv
<1>8. GamesInv'
  BY <1>1, <1>2, <1>4, <1>5, <1>6, <1>7, TaskWorld DEF RegistryInv, Started, Running
<1>9. Steady
  <2> SUFFICES ASSUME NEW h \in DOMAIN rooms PROVE SteadyGame(h)  BY DEF Steady
  <2>1. /\ h \in DOMAIN rooms' /\ rooms'[h].owner = rooms[h].owner
        /\ rooms'[h].ports = rooms[h].ports /\ rooms'[h].seated = rooms[h].seated
        /\ h # g => rooms'[h] = rooms[h]
    BY <1>4 DEF Alters, Fields
  <2> QED
    BY <1>1, <1>2, <1>5, <1>6, <2>1 DEF SteadyGame, Started, Running, Finished
<1> QED  BY <1>2, <1>8, <1>9, RestingCalls DEF RegistryInv

LEMMA ReviewKept ==
    ASSUME RegistryInv, NEW g \in DOMAIN rooms, ReviewBegins(g) \/ ReviewSeat(g)
    PROVE  RegistryInv'
<1>1. UNCHANGED <<call, listed, files, tokens, raced>>  BY DEF ReviewBegins, ReviewSeat
<1>2. Shape(rooms[g])  BY DEF RegistryInv, GamesInv, RoomsInv
<1>3. \E review : rooms' = [rooms EXCEPT ![g].review = review]
  BY DEF ReviewBegins, ReviewSeat, Learn, LearnNothing
<1>4. Alters(g, {"review"})
  BY <1>3 DEF Alters, RegistryInv, GamesInv, RoomsInv, Shape, Fields
<1> DEFINE Same(h) ==
      /\ DOMAIN rooms'[h] = DOMAIN rooms[h] /\ rooms'[h].owner = rooms[h].owner
      /\ rooms'[h].agents = rooms[h].agents /\ rooms'[h].ports = rooms[h].ports
      /\ rooms'[h].seated = rooms[h].seated /\ rooms'[h].task = rooms[h].task
      /\ rooms'[h].phase = rooms[h].phase
<1>5. /\ DOMAIN rooms' = DOMAIN rooms /\ \A h \in DOMAIN rooms : Same(h)
      /\ \A h \in DOMAIN rooms : h # g => rooms'[h] = rooms[h]
  BY <1>4 DEF Alters, Fields
<1>6. /\ DOMAIN rooms'[g].review = {"left", "updated"}
      /\ \A key : Recorded(key) \subseteq Recorded(key)'
      /\ \A mid \in rooms'[g].review.updated :
           \/ rooms[g].review # None /\ mid \in rooms[g].review.updated
           \/ g \in Recorded(<<rooms[g].owner, mid>>)'
  <2>1. CASE ReviewBegins(g)
    BY <1>2, <2>1 DEF ReviewBegins, Shape, Fields, Recorded
  <2>2. CASE ReviewSeat(g)
    <3>1. PICK s : Learn(g, s) \/ LearnNothing(g, s)  BY <2>2 DEF ReviewSeat
    <3>2. rooms[g].review # None /\ DOMAIN rooms[g].review = {"left", "updated"}
      BY <1>2, <2>2 DEF ReviewSeat, Reviewing, Shape
    <3>3. CASE LearnNothing(g, s)
      BY <1>2, <3>2, <3>3 DEF LearnNothing, Shape, Fields, Recorded
    <3>4. CASE Learn(g, s)
      <4> DEFINE mid == rooms[g].agents[s]
                 key == <<rooms[g].owner, mid>>
      <4>1. exps' = Put(exps, key, Recorded(key) \cup {g})  BY <3>4 DEF Learn
      <4>2. \A k : Recorded(k)' = IF k = key THEN Recorded(key) \cup {g} ELSE Recorded(k)
        BY <4>1 DEF Recorded, Put
      <4>3. /\ DOMAIN rooms'[g].review = {"left", "updated"}
            /\ rooms'[g].review.updated = rooms[g].review.updated \cup {mid}
        BY <1>2, <3>2, <3>4 DEF Learn, Shape, Fields
      <4> QED  BY <1>5, <3>2, <4>2, <4>3
    <3> QED  BY <3>1, <3>3, <3>4
  <2> QED  BY <2>1, <2>2
<1>7. RoomsInv'  BY <1>5, <1>6 DEF RegistryInv, GamesInv, RoomsInv, Shape
<1>8. TablesInv'  BY <1>1, <1>5 DEF RegistryInv, GamesInv, TablesInv, HasToken, Started
<1>9. LiveInv'  BY <1>1, <1>5 DEF RegistryInv, GamesInv, LiveInv, Running
<1>10. OneSeatInv'  BY <1>1, <1>5 DEF RegistryInv, GamesInv, OneSeatInv, OneSeat
<1>11. TokensInv'  BY <1>1, <1>5 DEF RegistryInv, GamesInv, TokensInv, HasPort
<1>12. ReviewsKept'
  <2> SUFFICES ASSUME NEW h \in DOMAIN rooms, rooms'[h].review # None,
                      NEW mid \in rooms'[h].review.updated
               PROVE  h \in Recorded(<<rooms[h].owner, mid>>)'
    BY <1>5 DEF ReviewsKept
  <2> QED  BY <1>5, <1>6 DEF RegistryInv, GamesInv, ReviewsKept
<1>13. Steady  BY <1>1, <1>5 DEF Steady, SteadyGame, Started, Running, Finished
<1> QED  BY <1>1, <1>7, <1>8, <1>9, <1>10, <1>11, <1>12, <1>13, RestingCalls
         DEF RegistryInv, GamesInv

LEMMA CreateGameKept ==
    ASSUME RegistryInv, NEW r \in DOMAIN call, CreateGame(r) PROVE RegistryInv'
<1> DEFINE g == r.game
<1>1. /\ g \notin DOMAIN rooms /\ rooms' = Put(rooms, g, Room(r))
      /\ listed' = listed \cup {g} /\ UNCHANGED <<files, exps, raced>>
      /\ tokens' = tokens \cup {[game |-> g, kind |-> kind, seat |-> None, user |-> r.as] :
                                  kind \in {"HOST", "GM"}}
      /\ Answer(r) /\ call[r].at = "create"
  BY DEF CreateGame, At
<1>2. DOMAIN rooms' = DOMAIN rooms \cup {g} /\ rooms'[g] = Room(r)
      /\ \A h \in DOMAIN rooms : h # g /\ rooms'[h] = rooms[h]
  BY <1>1 DEF Put
<1>3. DOMAIN r.agents \subseteq Seats
  <2>1. DOMAIN call \in Workload /\ r.op = "create"
    BY <1>1 DEF RegistryInv, CallsInv, Informed
  <2> QED  BY <2>1, RegistryAssumption
<1>4. Shape(Room(r)) /\ Room(r).task = "none" /\ Room(r).review = None
      /\ DOMAIN Room(r).seated = {}
  <2>1. DOMAIN Nothing = {}  BY DEF Nothing
  <2>2. DOMAIN Room(r) = Fields  BY DEF Room, Fields
  <2>3. /\ Room(r).ports = Nothing /\ Room(r).seated = Nothing /\ Room(r).agents = r.agents
        /\ Room(r).review = None /\ Room(r).task = "none" /\ Room(r).phase = None
    BY DEF Room
  <2> QED  BY <1>3, <2>1, <2>2, <2>3, RegistryAssumption DEF Shape
<1>5. RoomsInv'  BY <1>2, <1>4 DEF RegistryInv, GamesInv, RoomsInv, Shape
<1>6. TablesInv'
  <2>1. HasToken(g, "HOST")' /\ HasToken(g, "GM")'
    <3>1. \A kind \in {"HOST", "GM"} :
            [game |-> g, kind |-> kind, seat |-> None, user |-> r.as] \in tokens'
      BY <1>1
    <3> QED  BY <3>1 DEF HasToken
  <2>2. tokens \subseteq tokens'  BY <1>1
  <2> QED  BY <1>1, <1>2, <2>1, <2>2 DEF RegistryInv, GamesInv, TablesInv, HasToken, Started
<1>7. LiveInv'  BY <1>1, <1>2, <1>4 DEF RegistryInv, GamesInv, LiveInv, Running
<1>8. OneSeatInv'  BY <1>1, <1>2, <1>4 DEF RegistryInv, GamesInv, OneSeatInv, OneSeat
<1>9. TokensInv'
  <2>1. \A t \in tokens' : t.kind = "PLAYER" => t \in tokens  BY <1>1
  <2> QED  BY <1>2, <2>1 DEF RegistryInv, GamesInv, TokensInv, HasPort
<1>10. ReviewsKept'
  BY <1>1, <1>2, <1>4 DEF RegistryInv, GamesInv, ReviewsKept, Recorded
<1>11. Steady  BY <1>1, <1>2 DEF Steady, SteadyGame, Started, Running, Finished
<1> QED  BY <1>1, <1>5, <1>6, <1>7, <1>8, <1>9, <1>10, <1>11, AnsweredKept DEF GamesInv

\* A game is taken away: what remains to be shown is what its steps do to the tables.
LEMMA DeletingWorld ==
    ASSUME RegistryInv, UNCHANGED <<rooms, exps>>, raced \subseteq raced',
           files' \subseteq files, listed' \subseteq listed, tokens' \subseteq tokens,
           TablesInv', LiveInv'
    PROVE  GamesInv' /\ Steady
<1>1. RoomsInv'  BY DEF RegistryInv, GamesInv, RoomsInv, Shape
<1>2. OneSeatInv'  BY DEF RegistryInv, GamesInv, OneSeatInv, OneSeat
<1>3. TokensInv'  BY DEF RegistryInv, GamesInv, TokensInv, HasPort
<1>4. ReviewsKept'  BY DEF RegistryInv, GamesInv, ReviewsKept, Recorded
<1>5. Steady  BY DEF Steady, SteadyGame, Started, Running, Finished
<1> QED  BY <1>1, <1>2, <1>3, <1>4, <1>5 DEF GamesInv

\* What a delete may rely on when it removes the file or the handle.
LEMMA DeleteSafe ==
    ASSUME RegistryInv, NEW r \in DOMAIN call, call[r].at \in DeleteSteps, DeleteRaces(r)
    PROVE  /\ raced \subseteq raced' /\ r.game \in DOMAIN rooms
           /\ Deleting(r.game, call[r].at, Got(r))
           /\ Got(r).started # Started(r.game) => r.game \in raced'
           /\ Running(r.game) => r.game \in raced'
<1>1. Deleting(r.game, call[r].at, Got(r))  BY DEF RegistryInv, CallsInv, Informed, Got
<1>2. raced \subseteq raced' /\ (Got(r).started # Started(r.game) => r.game \in raced')
  BY DEF DeleteRaces, Race
<1>3. Running(r.game) => Started(r.game)  BY DEF Running, Started
<1>4. Running(r.game) => r.game \in raced'
  <2>1. SUFFICES ASSUME Running(r.game), r.game \notin raced' PROVE FALSE  OBVIOUS
  <2>2. Started(r.game) /\ Got(r).started = Started(r.game)  BY <1>2, <1>3, <2>1
  <2>3. Got(r).started  BY <2>2
  <2> QED  BY <1>1, <1>2, <2>1, <2>3 DEF Deleting
<1> QED  BY <1>1, <1>2, <1>4 DEF Deleting

LEMMA DeleteFileKept ==
    ASSUME RegistryInv, NEW r \in DOMAIN call, DeleteFile(r) PROVE RegistryInv'
<1>1. PICK got, g : got = Got(r) /\ g = r.game  OBVIOUS
<1>2. /\ call[r].at = "delete file" /\ UNCHANGED <<rooms, listed, tokens, exps>>
      /\ files' \subseteq files /\ \A h \in files : h # g => h \in files'
  BY <1>1 DEF DeleteFile, At
<1>3. /\ raced \subseteq raced' /\ g \in DOMAIN rooms
      /\ Deleting(g, "delete file", got) /\ (Running(g) => g \in raced')
  BY <1>1, <1>2, DeleteSafe DEF DeleteFile, DeleteSteps
<1>4. TablesInv'  BY <1>2 DEF RegistryInv, GamesInv, TablesInv, HasToken, Started
<1>5. LiveInv'  BY <1>2, <1>3 DEF RegistryInv, GamesInv, LiveInv, Running
<1>6. GamesInv' /\ Steady  BY <1>2, <1>3, <1>4, <1>5, DeletingWorld
<1>7. \/ Answer(r)
      \/ g \notin files' /\ got.handle /\ Go(r, "remove", got)
      \/ g \notin files' /\ ~got.handle /\ Go(r, "revoke", got)
  BY <1>1 DEF DeleteFile
<1>8. CASE Answer(r)  BY <1>6, <1>8, AnsweredKept
<1>9. ASSUME NEW step \in {"remove", "revoke"}, Go(r, step, got), g \notin files',
             step = "revoke" => ~got.handle
      PROVE  RegistryInv'
  <2>1. Started(g)' = Started(g) /\ Running(g)' = Running(g)  BY <1>2 DEF Started, Running
  <2>2. Deleting(g, step, got)'
    BY <1>2, <1>3, <1>9, <2>1 DEF Deleting, DeleteSteps
  <2>3. Informed(r, step, got)'
    BY <1>1, <2>2 DEF Informed, Joins, Starts, Viewing, JoinSteps
  <2> QED  BY <1>6, <1>9, <2>3, MovedKept DEF HoldSteps
<1> QED  BY <1>7, <1>8, <1>9

LEMMA DeleteRemoveKept ==
    ASSUME RegistryInv, NEW r \in DOMAIN call, DeleteRemove(r) PROVE RegistryInv'
<1>1. PICK got, g : got = Got(r) /\ g = r.game  OBVIOUS
<1>2. /\ call[r].at = "remove" /\ UNCHANGED <<rooms, files, tokens, exps>>
      /\ listed' = listed \ {g}
  BY <1>1 DEF DeleteRemove, At
<1>3. /\ raced \subseteq raced' /\ g \in DOMAIN rooms
      /\ Deleting(g, "remove", got) /\ (Running(g) => g \in raced')
      /\ got.started # Started(g) => g \in raced'
  BY <1>1, <1>2, DeleteSafe DEF DeleteRemove, DeleteSteps
<1>4. TablesInv'  BY <1>2 DEF RegistryInv, GamesInv, TablesInv, HasToken, Started
<1>5. g \in files => g \in raced'
  <2>1. SUFFICES ASSUME g \in files, g \notin raced' PROVE FALSE  OBVIOUS
  <2>2. Started(g)  BY <2>1 DEF RegistryInv, GamesInv, TablesInv
  <2>3. got.started = Started(g)  BY <1>3, <2>1
  <2>4. got.started  BY <2>2, <2>3
  <2> QED  BY <1>3, <2>1, <2>4 DEF Deleting, DeleteSteps
<1>6. LiveInv'  BY <1>2, <1>3, <1>5 DEF RegistryInv, GamesInv, LiveInv, Running
<1>7. GamesInv' /\ Steady  BY <1>2, <1>3, <1>4, <1>6, DeletingWorld
<1>8. CASE Answer(r)  BY <1>7, <1>8, AnsweredKept
<1>9. CASE Go(r, "revoke", got)
  <2>1. Started(g)' = Started(g) /\ Running(g)' = Running(g)  BY <1>2 DEF Started, Running
  <2>2. Deleting(g, "revoke", got)'  BY <1>2, <1>3, <2>1 DEF Deleting, DeleteSteps
  <2>3. Informed(r, "revoke", got)'
    BY <1>1, <2>2 DEF Informed, Joins, Starts, Viewing, JoinSteps
  <2> QED  BY <1>7, <1>9, <2>3, MovedKept DEF HoldSteps
<1> QED  BY <1>1, <1>8, <1>9 DEF DeleteRemove

LEMMA DeleteRevokeKept ==
    ASSUME RegistryInv, NEW r \in DOMAIN call, DeleteRevoke(r) PROVE RegistryInv'
<1> DEFINE g == r.game
<1>1. /\ call[r].at = "revoke" /\ UNCHANGED <<rooms, listed, files, exps>> /\ Answer(r)
      /\ tokens' \subseteq tokens /\ \A t \in tokens : t.game # g => t \in tokens'
  BY DEF DeleteRevoke, At
<1>2. raced \subseteq raced' /\ g \notin listed
  BY <1>1, DeleteSafe DEF DeleteRevoke, DeleteSteps, Deleting
<1>3. TablesInv'  BY <1>1, <1>2 DEF RegistryInv, GamesInv, TablesInv, HasToken, Started
<1>4. LiveInv'  BY <1>1, <1>2 DEF RegistryInv, GamesInv, LiveInv, Running
<1>5. GamesInv' /\ Steady  BY <1>1, <1>2, <1>3, <1>4, DeletingWorld
<1> QED  BY <1>1, <1>5, AnsweredKept

\* ---- what a start that waits knows of the games it waits for ----

\* Only a game that was started is reviewed, seat by seat of those with a memory.
ReviewOf(room) ==
    /\ DOMAIN room.review = {"left", "updated"} /\ room.review.updated \subseteq MemoryId
    /\ room.review.left \subseteq {s \in Seats : room.agents[s] \in MemoryId}
ReviewedInv ==
    \A h \in DOMAIN rooms : rooms[h].review # None => Started(h) /\ ReviewOf(rooms[h])

\* A review only goes on, the memories it is about stay, and the seats that a profile's
\* memory is loaded for become no more.
Keeps(h) ==
    /\ h \in DOMAIN rooms' /\ rooms'[h].agents = rooms[h].agents
    /\ DOMAIN rooms[h].ports \subseteq DOMAIN rooms'[h].ports
    /\ rooms[h].review # None => /\ rooms'[h].review # None
                                 /\ rooms'[h].memory = rooms[h].memory
                                 /\ rooms'[h].review.left \subseteq rooms[h].review.left
Onward == ReviewedInv' /\ \A h \in DOMAIN rooms : Keeps(h)

\* What touches neither reviews, memories, ports nor tasks.
LEMMA AsideOnward ==
    ASSUME ReviewedInv, NEW g, NEW fields,
           Alters(g, fields), fields \subseteq {"entries", "seated"}
    PROVE  Onward
<1>1. \A h \in DOMAIN rooms :
        /\ rooms'[h].agents = rooms[h].agents /\ rooms'[h].ports = rooms[h].ports
        /\ rooms'[h].review = rooms[h].review /\ rooms'[h].memory = rooms[h].memory
        /\ rooms'[h].task = rooms[h].task
  BY DEF Alters, Fields
<1>2. DOMAIN rooms' = DOMAIN rooms  BY DEF Alters
<1> QED  BY <1>1, <1>2 DEF Onward, ReviewedInv, ReviewOf, Keeps, Started

LEMMA RestOnward == ASSUME ReviewedInv, UNCHANGED rooms PROVE Onward
BY DEF Onward, ReviewedInv, ReviewOf, Keeps, Started

LEMMA CreateOnward ==
    ASSUME ReviewedInv, NEW r \in DOMAIN call, CreateGame(r) PROVE Onward
<1>1. /\ DOMAIN rooms' = DOMAIN rooms \cup {r.game} /\ rooms'[r.game].review = None
      /\ \A h \in DOMAIN rooms : h # r.game /\ rooms'[h] = rooms[h]
  BY DEF CreateGame, Put, Room
<1> QED  BY <1>1 DEF Onward, ReviewedInv, ReviewOf, Keeps, Started

LEMMA JoinOnward ==
    ASSUME RegistryInv, ReviewedInv, NEW r \in DOMAIN call, JoinSit(r) \/ JoinPort(r) \/ JoinName(r)
    PROVE  Onward
<1>1. r.game \in DOMAIN rooms
  BY DEF RegistryInv, CallsInv, Informed, Joins, JoinSteps, JoinSit, JoinPort, JoinName, At
<1>2. Shape(rooms[r.game])  BY <1>1 DEF RegistryInv, GamesInv, RoomsInv
<1>3. CASE JoinSit(r)
  <2>1. Alters(r.game, {"entries"})
    BY <1>1, <1>3 DEF JoinSit, Alters, RegistryInv, GamesInv, RoomsInv, Shape, Fields
  <2> QED  BY <2>1, AsideOnward
<1>4. CASE JoinName(r)
  <2>1. Alters(r.game, {"seated"})
    BY <1>1, <1>4 DEF JoinName, Alters, RegistryInv, GamesInv, RoomsInv, Shape, Fields
  <2> QED  BY <2>1, AsideOnward
<1>5. CASE JoinPort(r)
  <2>1. Alters(r.game, {"ports"})
    BY <1>1, <1>5 DEF JoinPort, Alters, RegistryInv, GamesInv, RoomsInv, Shape, Fields
  <2>2. DOMAIN rooms[r.game].ports \subseteq DOMAIN rooms'[r.game].ports
    BY <1>1, <1>2, <1>5 DEF JoinPort, Put, Shape, Fields
  <2> QED  BY <1>1, <2>1, <2>2 DEF Onward, ReviewedInv, ReviewOf, Keeps, Started, Alters, Fields
<1> QED  BY <1>3, <1>4, <1>5

LEMMA StartOnward ==
    ASSUME RegistryInv, ReviewedInv, NEW r \in DOMAIN call,
           StartFill(r) \/ StartPorts(r) \/ StartFails(r) \/ StartRun(r)
    PROVE  Onward
<1>1. r.game \in DOMAIN rooms
  BY DEF RegistryInv, CallsInv, Informed, Starts, StartFill, StartPorts, StartFails, StartRun, At
<1>2. Shape(rooms[r.game])  BY <1>1 DEF RegistryInv, GamesInv, RoomsInv
<1>3. CASE StartFill(r)
  <2>1. CASE UNCHANGED rooms  BY <2>1, RestOnward
  <2>2. CASE rooms' # rooms
    <3>1. \E entries : rooms' = [rooms EXCEPT ![r.game].entries = entries]
      BY <1>3, <2>2 DEF StartFill
    <3>2. Alters(r.game, {"entries"})
      BY <1>1, <3>1 DEF Alters, RegistryInv, GamesInv, RoomsInv, Shape, Fields
    <3> QED  BY <3>2, AsideOnward
  <2> QED  BY <2>1, <2>2
<1>4. CASE StartPorts(r) \/ StartFails(r)
  <2>1. ~Started(r.game)
    BY <1>4 DEF RegistryInv, CallsInv, Informed, Starts, StartPorts, StartFails, At
  <2>2. PICK built : rooms' = [rooms EXCEPT ![r.game] = Assembled(r.game, built)]
    BY <1>4 DEF StartPorts, StartFails
  <2>3. rooms'[r.game] = Assembled(r.game, built)  BY <1>1, <2>2
  <2>4. Alters(r.game, {"memory", "experiences", "ports"})
    BY <1>1, <1>2, <2>2, <2>3 DEF Assembled, Alters, RegistryInv, GamesInv, RoomsInv, Shape, Fields
  <2>5. DOMAIN rooms[r.game].ports \subseteq DOMAIN rooms'[r.game].ports
    BY <1>2, <2>3 DEF Assembled, Shape, Fields
  <2>6. rooms[r.game].review = None  BY <1>1, <2>1 DEF ReviewedInv
  <2> QED  BY <1>1, <2>4, <2>5, <2>6 DEF Onward, ReviewedInv, ReviewOf, Keeps, Started, Alters, Fields
<1>5. CASE StartRun(r)
  <2>1. Alters(r.game, {"task"}) /\ rooms'[r.game].task = "made"
    BY <1>1, <1>2, <1>5 DEF StartRun, Alters, RegistryInv, GamesInv, RoomsInv, Shape, Fields
  <2> QED  BY <2>1 DEF Onward, ReviewedInv, ReviewOf, Keeps, Started, Alters, Fields
<1> QED  BY <1>3, <1>4, <1>5

LEMMA LowestSeat == ASSUME NEW seats, seats \subseteq Seats, seats # {} PROVE Min(seats) \in seats
<1> DEFINE R == {ss \in Nat \X Nat : ss[1] < ss[2]}
<1>1. seats \subseteq Nat  BY RegistryAssumption DEF Seats
<1>2. PICK s \in seats : \A t \in seats : ~(<<t, s>> \in R)
  BY <1>1, NatLessThanWellFounded, WFMin DEF OpToRel
<1>3. ASSUME NEW t \in seats PROVE s <= t
  <2>1. s \in Nat /\ t \in Nat  BY <1>1
  <2>2. ~(t < s)  BY <1>2, <2>1
  <2> QED  BY <2>1, <2>2
<1> QED  BY <1>3 DEF Min

LEMMA ProgressOnward ==
    ASSUME RegistryInv, ReviewedInv, GameProgress PROVE Onward
<1> SUFFICES ASSUME NEW g \in DOMAIN rooms,
                    \/ RunnerBegins(g) \/ RunnerOver(g) \/ RunnerDone(g) \/ RunnerCrashes(g)
                    \/ ReviewBegins(g) \/ ReviewSeat(g)
             PROVE  Onward
  BY DEF GameProgress
<1>1. Shape(rooms[g])  BY DEF RegistryInv, GamesInv, RoomsInv
<1>2. CASE RunnerBegins(g) \/ RunnerOver(g) \/ RunnerDone(g) \/ RunnerCrashes(g)
  <2>1. \E to, phase : to # "none" /\ rooms' = [rooms EXCEPT ![g].task = to, ![g].phase = phase]
    BY <1>2 DEF RunnerBegins, RunnerOver, RunnerDone, RunnerCrashes, Runs
  <2>2. Alters(g, {"task", "phase"}) /\ rooms'[g].task # "none"
    BY <1>1, <2>1 DEF Alters, RegistryInv, GamesInv, RoomsInv, Shape, Fields
  <2> QED  BY <2>2 DEF Onward, ReviewedInv, ReviewOf, Keeps, Started, Alters, Fields
<1>3. CASE ReviewBegins(g)
  <2>1. Alters(g, {"review"}) /\ Started(g) /\ rooms[g].review = None
    BY <1>1, <1>3 DEF ReviewBegins, Started, Alters, RegistryInv, GamesInv, RoomsInv, Shape, Fields
  <2>2. ReviewOf(rooms'[g])  BY <1>1, <1>3 DEF ReviewBegins, ReviewOf, Shape, Fields
  <2> QED  BY <2>1, <2>2 DEF Onward, ReviewedInv, ReviewOf, Keeps, Started, Alters, Fields
<1>4. CASE ReviewSeat(g)
  <2> DEFINE left == rooms[g].review.left
  <2>1. rooms[g].review # None /\ left # {} /\ ReviewOf(rooms[g]) /\ Started(g)
    BY <1>4 DEF ReviewSeat, Reviewing, ReviewedInv
  <2>2. PICK s : s = Min(left) /\ (Learn(g, s) \/ LearnNothing(g, s))  BY <1>4 DEF ReviewSeat
  <2>3. s \in left  BY <2>1, <2>2, LowestSeat DEF ReviewOf
  <2>4. rooms[g].agents[s] \in MemoryId  BY <2>1, <2>3 DEF ReviewOf
  <2>5. Alters(g, {"review"})
    BY <1>1, <2>2 DEF Learn, LearnNothing, Alters, RegistryInv, GamesInv, RoomsInv, Shape, Fields
  <2>6. /\ rooms'[g].agents = rooms[g].agents
        /\ rooms'[g].review = [left |-> left \ {s}, updated |-> rooms'[g].review.updated]
        /\ \/ rooms'[g].review.updated = rooms[g].review.updated
           \/ rooms'[g].review.updated = rooms[g].review.updated \cup {rooms[g].agents[s]}
    <3>1. CASE Learn(g, s)  BY <1>1, <2>1, <3>1 DEF Learn, ReviewOf, Shape, Fields
    <3>2. CASE LearnNothing(g, s)  BY <1>1, <2>1, <3>2 DEF LearnNothing, ReviewOf, Shape, Fields
    <3> QED  BY <2>2, <3>1, <3>2
  <2>7. ReviewOf(rooms'[g])  BY <2>1, <2>4, <2>6 DEF ReviewOf
  <2>8. rooms'[g].review # None  BY <2>6, <2>7, RegistryAssumption DEF ReviewOf
  <2>9. rooms'[g].review.left \subseteq left  BY <2>6
  <2> QED
    BY <2>1, <2>5, <2>7, <2>8, <2>9 DEF Onward, ReviewedInv, ReviewOf, Keeps, Started, Alters, Fields
<1> QED  BY <1>2, <1>3, <1>4

StartSteps == {"wait", "fill", "ports"}

\* Of the reviews under way when it was asked for, those that go on do not concern the
\* start of g - but for the ones it waits for, or unless it did not wait to the end.
Awaits(g, at, got) ==
    at \in StartSteps =>
      /\ DOMAIN got = {"waiting", "late", "reviewing"}
      /\ \A h \in got.reviewing :
           /\ h \in DOMAIN rooms /\ rooms[h].review # None
           /\ Reviewing(h) /\ Range(rooms[h].memory) \cap MemoryIds(g) # {} =>
                IF at = "wait" THEN h \in got.waiting ELSE got.late
AwaitsInv == \A q \in DOMAIN call : Awaits(q.game, call[q].at, call[q].got)

StartInv == ReviewedInv /\ AwaitsInv

LEMMA AwaitsStays ==
    ASSUME Onward, NEW g, NEW at, NEW got, at \in StartSteps => g \in DOMAIN rooms,
           Awaits(g, at, got)
    PROVE  Awaits(g, at, got)'
<1> SUFFICES ASSUME at \in StartSteps, NEW h \in got.reviewing
             PROVE  /\ h \in DOMAIN rooms' /\ rooms'[h].review # None
                    /\ Reviewing(h)' /\ Range(rooms'[h].memory) \cap MemoryIds(g)' # {} =>
                         IF at = "wait" THEN h \in got.waiting ELSE got.late
  BY DEF Awaits
<1>1. /\ h \in DOMAIN rooms /\ rooms[h].review # None
      /\ Reviewing(h) /\ Range(rooms[h].memory) \cap MemoryIds(g) # {} =>
           IF at = "wait" THEN h \in got.waiting ELSE got.late
  BY DEF Awaits
<1>2. Keeps(h) /\ Keeps(g)  BY <1>1 DEF Onward
<1>3. MemoryIds(g)' \subseteq MemoryIds(g)  BY <1>2 DEF Keeps, MemoryIds, Remembering
<1>4. Reviewing(h)' => Reviewing(h)  BY <1>1, <1>2 DEF Keeps, Reviewing
<1>5. Range(rooms'[h].memory) = Range(rooms[h].memory)  BY <1>1, <1>2 DEF Keeps
<1> QED  BY <1>1, <1>2, <1>3, <1>4, <1>5 DEF Keeps

\* r does something else than to come to a step of a start.
NotOfAStart(r) == \E step, got : step \notin StartSteps \cup {"run"} /\ Go(r, step, got)

LEMMA StartsApart ==
    ASSUME NEW r \in DOMAIN call, ServeGame(r)
    PROVE  StartAsk(r) \/ StartResumes(r) \/ StartFill(r) \/ StartPorts(r) \/ NotOfAStart(r)
<1>1. CASE CreateAsk(r) \/ CreateGame(r) \/ CreateRefused(r)
  BY <1>1 DEF NotOfAStart, StartSteps, Answer, CreateAsk, CreateGame, CreateRefused
<1>2. CASE JoinAsk(r)  BY <1>2 DEF NotOfAStart, StartSteps, Answer, JoinAsk
<1>3. CASE JoinCheck(r)  BY <1>3 DEF NotOfAStart, StartSteps, Answer, JoinCheck
<1>4. CASE JoinChoose(r)  BY <1>4 DEF NotOfAStart, StartSteps, Answer, JoinChoose
<1>5. CASE JoinSit(r) \/ JoinPort(r) \/ JoinName(r) \/ JoinToken(r)
  BY <1>5 DEF NotOfAStart, StartSteps, Answer, JoinSit, JoinPort, JoinName, JoinToken
<1>6. CASE StartFails(r) \/ StartRun(r)
  BY <1>6 DEF NotOfAStart, StartSteps, Answer, StartFails, StartRun
<1>7. CASE DeleteAsk(r) \/ DeleteFile(r)
  BY <1>7 DEF NotOfAStart, StartSteps, Answer, DeleteAsk, DeleteFile
<1>8. CASE DeleteRemove(r) \/ DeleteRevoke(r)
  BY <1>8 DEF NotOfAStart, StartSteps, Answer, DeleteRemove, DeleteRevoke
<1>9. CASE Watch(r) \/ Leave(r)  BY <1>9 DEF NotOfAStart, StartSteps, Answer, Watch, Leave
<1>10. CASE ReadAsk(r) \/ ReadLook(r)
  BY <1>10 DEF NotOfAStart, StartSteps, Answer, ReadAsk, ReadLook
<1> QED
  BY <1>1, <1>2, <1>3, <1>4, <1>5, <1>6, <1>7, <1>8, <1>9, <1>10 DEF ServeGame, GameStep

LEMMA ServedOnward ==
    ASSUME RegistryInv, ReviewedInv, NEW r \in DOMAIN call, Serve(r) PROVE Onward
<1>1. CASE UNCHANGED rooms  BY <1>1, RestOnward
<1>2. CASE rooms' # rooms
  <2>1. GameStep(r) \/ Watch(r) \/ Leave(r) \/ ReadAsk(r) \/ ReadLook(r)
    BY <1>2 DEF Serve, ServeAccount, ServeGame, registryVars
  <2>2. \/ CreateGame(r) \/ JoinSit(r) \/ JoinPort(r) \/ JoinName(r)
        \/ StartFill(r) \/ StartPorts(r) \/ StartFails(r) \/ StartRun(r)
    BY <1>2, <2>1
    DEF GameStep, CreateAsk, CreateRefused, JoinAsk, JoinCheck, JoinChoose, JoinToken, StartAsk,
        StartResumes, DeleteAsk, DeleteFile, DeleteRemove, DeleteRevoke, Watch, Leave, ReadAsk,
        ReadLook, registryVars
  <2> QED  BY <2>2, CreateOnward, JoinOnward, StartOnward
<1> QED  BY <1>1, <1>2

LEMMA MovedAwaits ==
    ASSUME RegistryInv, StartInv, Onward, NEW r \in DOMAIN call, NEW step, NEW got,
           Go(r, step, got), Awaits(r.game, step, got)'
    PROVE  StartInv'
<1>1. DOMAIN call' = DOMAIN call  BY DEF Go
<1>2. \A q \in DOMAIN call : call'[q] = IF q = r THEN [at |-> step, got |-> got] ELSE call[q]
  BY DEF Go
<1>3. ASSUME NEW q \in DOMAIN call PROVE Awaits(q.game, call[q].at, call[q].got)'
  <2>1. CASE q = r
    <3>1. call'[q].at = step /\ call'[q].got = got  BY <1>2, <2>1
    <3> QED  BY <2>1, <3>1
  <2>2. CASE q # r
    <3>1. PICK at, known : at = call[q].at /\ known = call[q].got  OBVIOUS
    <3>2. call'[q].at = at /\ call'[q].got = known  BY <1>2, <2>2, <3>1
    <3>3. Awaits(q.game, at, known)  BY <3>1 DEF StartInv, AwaitsInv
    <3>4. at \in StartSteps => q.game \in DOMAIN rooms
      BY <3>1 DEF RegistryInv, CallsInv, Informed, Starts, StartSteps
    <3>5. Awaits(q.game, at, known)'  BY <3>3, <3>4, AwaitsStays
    <3> QED  BY <3>2, <3>5
  <2> QED  BY <2>1, <2>2
<1> QED  BY <1>1, <1>3 DEF StartInv, AwaitsInv, Onward

LEMMA ServedAwaits ==
    ASSUME RegistryInv, StartInv, NEW r \in DOMAIN call, Serve(r) PROVE StartInv'
<1>1. Onward  BY ServedOnward DEF StartInv
<1>2. CASE NotOfAStart(r)
  <2>1. PICK step, got : step \notin StartSteps \cup {"run"} /\ Go(r, step, got)
    BY <1>2 DEF NotOfAStart
  <2>2. Awaits(r.game, step, got)'  BY <2>1 DEF Awaits
  <2> QED  BY <1>1, <2>1, <2>2, MovedAwaits
<1>3. ASSUME NEW step \in {"ports", "run"}, Go(r, step, Got(r)), call[r].at \in {"fill", "ports"}
      PROVE  StartInv'
  <2>1. PICK at, got : at = call[r].at /\ got = Got(r)  OBVIOUS
  <2>2. Awaits(r.game, at, got)  BY <2>1 DEF StartInv, AwaitsInv, Got
  <2>3. r.game \in DOMAIN rooms  BY <1>3 DEF RegistryInv, CallsInv, Informed, Starts
  <2>4. Awaits(r.game, step, got)  BY <1>3, <2>1, <2>2 DEF Awaits, StartSteps
  <2>5. Awaits(r.game, step, got)'  BY <1>1, <2>3, <2>4, AwaitsStays
  <2> QED  BY <1>1, <1>3, <2>1, <2>5, MovedAwaits
<1>4. CASE StartAsk(r)
  <2>1. CASE Answer(r)  BY <1>2, <2>1 DEF Answer, NotOfAStart, StartSteps
  <2>2. CASE ~Answer(r)
    <3> DEFINE waiting == Pending(MemoryIds(r.game))
    <3>1. PICK got : got = [waiting |-> waiting, late |-> FALSE,
                            reviewing |-> {h \in listed : Reviewing(h)}]
      OBVIOUS
    <3>2. PICK step : step = IF waiting = {} THEN "fill" ELSE "wait"  OBVIOUS
    <3>3. Go(r, step, got) /\ UNCHANGED rooms  BY <1>4, <2>2, <3>1, <3>2 DEF StartAsk, registryVars
    <3>4. listed \subseteq DOMAIN rooms  BY DEF RegistryInv, GamesInv, TablesInv
    <3>5. Awaits(r.game, step, got)
      BY <3>1, <3>2, <3>4 DEF Awaits, StartSteps, Pending, Reviewing
    <3>6. Awaits(r.game, step, got)'
      BY <3>3, <3>5 DEF Awaits, Reviewing, MemoryIds, Remembering
    <3> QED  BY <1>1, <3>3, <3>6, MovedAwaits
  <2> QED  BY <2>1, <2>2
<1>5. CASE StartResumes(r)
  <2>1. PICK late : late = \E h \in Got(r).waiting : Reviewing(h)  OBVIOUS
  <2>2. PICK got : got = [Got(r) EXCEPT !.late = late]  OBVIOUS
  <2>3. Go(r, "fill", got) /\ UNCHANGED rooms /\ call[r].at = "wait"
    BY <1>5, <2>1, <2>2 DEF StartResumes, registryVars, At
  <2>4. Awaits(r.game, "wait", Got(r))  BY <2>3 DEF StartInv, AwaitsInv, Got
  <2>5. /\ DOMAIN got = {"waiting", "late", "reviewing"} /\ got.reviewing = Got(r).reviewing
        /\ got.late = \E h \in Got(r).waiting : Reviewing(h)
    BY <2>1, <2>2, <2>4 DEF Awaits, StartSteps
  <2>6. Awaits(r.game, "fill", got)  BY <2>4, <2>5 DEF Awaits, StartSteps
  <2>7. Awaits(r.game, "fill", got)'
    BY <2>3, <2>6 DEF Awaits, Reviewing, MemoryIds, Remembering
  <2> QED  BY <1>1, <2>3, <2>7, MovedAwaits
<1>6. CASE StartFill(r)
  <2>1. CASE Answer(r)  BY <1>2, <2>1 DEF Answer, NotOfAStart, StartSteps
  <2>2. CASE Go(r, "ports", Got(r))  BY <1>3, <1>6, <2>2 DEF StartFill, At, StartSteps
  <2> QED  BY <1>6, <2>1, <2>2 DEF StartFill
<1>7. CASE StartPorts(r)  BY <1>3, <1>7 DEF StartPorts, At, StartSteps
<1>8. CASE ServeAccount(r)
  <2>1. NotOfAStart(r)  BY <1>8, AccountMoves DEF MovesApart, NotOfAStart, StartSteps, GameSteps
  <2> QED  BY <1>2, <2>1
<1> QED  BY <1>2, <1>4, <1>5, <1>6, <1>7, <1>8, StartsApart DEF Serve

LEMMA AwaitsKept == RegistryInv /\ StartInv /\ [Next]_vars => StartInv'
<1> SUFFICES ASSUME RegistryInv, StartInv, [Next]_vars PROVE StartInv'  OBVIOUS
<1>1. ASSUME Onward, UNCHANGED call PROVE StartInv'
  <2>1. ASSUME NEW q \in DOMAIN call PROVE Awaits(q.game, call[q].at, call[q].got)'
    <3>1. PICK at, got : at = call[q].at /\ got = call[q].got  OBVIOUS
    <3>2. Awaits(q.game, at, got)  BY <3>1 DEF StartInv, AwaitsInv
    <3>3. at \in StartSteps => q.game \in DOMAIN rooms
      BY <3>1 DEF RegistryInv, CallsInv, Informed, Starts, StartSteps
    <3>4. Awaits(q.game, at, got)'  BY <1>1, <3>2, <3>3, AwaitsStays
    <3> QED  BY <1>1, <3>1, <3>4
  <2> QED  BY <1>1, <2>1 DEF StartInv, AwaitsInv, Onward
<1>2. CASE UNCHANGED vars  BY <1>1, <1>2, RestOnward DEF StartInv, vars, registryVars
<1>3. CASE GameProgress
  <2>1. UNCHANGED call
    BY <1>3 DEF GameProgress, Runs, RunnerBegins, RunnerOver, RunnerDone, RunnerCrashes, ReviewBegins,
                ReviewSeat
  <2> QED  BY <1>1, <1>3, <2>1, ProgressOnward DEF StartInv
<1> QED  BY <1>2, <1>3, ServedAwaits DEF Next

LEMMA AwaitsBegin == Init => StartInv
<1> SUFFICES ASSUME Init PROVE StartInv  OBVIOUS
<1>1. DOMAIN rooms = {} /\ \A q \in DOMAIN call : call[q].at = "new"
  BY DEF Init, RegistryInit, CallInit, Nothing
<1> QED  BY <1>1 DEF StartInv, ReviewedInv, AwaitsInv, Awaits, StartSteps

\* Only StartPorts leads from building the ports to running.
LEMMA PortsOnly ==
    ASSUME [Next]_vars, NEW r \in DOMAIN call, call[r].at = "ports", call'[r].at = "run"
    PROVE  StartPorts(r)
<1>1. call' # call  OBVIOUS
<1>2. ~GameProgress
  BY <1>1 DEF GameProgress, Runs, RunnerBegins, RunnerOver, RunnerDone, RunnerCrashes, ReviewBegins,
              ReviewSeat
<1>3. PICK q \in DOMAIN call : Serve(q)  BY <1>1, <1>2 DEF Next, vars
<1>4. ASSUME NEW step, NEW got, Go(q, step, got) PROVE q = r /\ step = "run"  BY <1>4 DEF Go
<1>5. ~NotOfAStart(q)  BY <1>4 DEF NotOfAStart
<1>6. ~ServeAccount(q)
  BY <1>5, AccountMoves DEF MovesApart, NotOfAStart, StartSteps, GameSteps
<1>7. StartAsk(q) \/ StartResumes(q) \/ StartFill(q) \/ StartPorts(q)
  BY <1>3, <1>5, <1>6, StartsApart DEF Serve
<1>8. ~StartAsk(q)  BY <1>4 DEF StartAsk, Answer
<1>9. ~StartResumes(q)  BY <1>4 DEF StartResumes
<1>10. ~StartFill(q)
  <2>1. StartFill(q) => Answer(q) \/ Go(q, "ports", Got(q))  BY DEF StartFill
  <2> QED  BY <1>4, <2>1 DEF Answer
<1>11. q = r
  <2>1. StartPorts(q) => Go(q, "run", Got(q))  BY DEF StartPorts
  <2> QED  BY <1>4, <1>7, <1>8, <1>9, <1>10, <2>1
<1> QED  BY <1>7, <1>8, <1>9, <1>10, <1>11

\* ---- the theorems ----

LEMMA GameKeepsGames ==
    ASSUME RegistryInv, NEW r \in DOMAIN call, ServeGame(r) PROVE RegistryInv'
<1>1. CASE CreateAsk(r) \/ CreateGame(r) \/ CreateRefused(r)
  BY <1>1, CreateAskKept, CreateGameKept
<1>2. CASE JoinAsk(r) \/ JoinCheck(r) \/ JoinChoose(r) \/ JoinSit(r)
  BY <1>2, JoinAskKept, JoinCheckKept, JoinChooseKept, JoinSitKept
<1>3. CASE JoinPort(r) \/ JoinName(r) \/ JoinToken(r)
  BY <1>3, JoinPortKept, JoinNameKept, JoinTokenKept
<1>4. CASE StartAsk(r) \/ StartResumes(r) \/ StartFill(r)
  BY <1>4, StartAskKept, StartResumesKept, StartFillKept
<1>5. CASE StartPorts(r) \/ StartFails(r) \/ StartRun(r)
  BY <1>5, StartPortsKept, StartFailsKept, StartRunKept
<1>6. CASE DeleteAsk(r) \/ DeleteFile(r) \/ DeleteRemove(r) \/ DeleteRevoke(r)
  BY <1>6, DeleteAskKept, DeleteFileKept, DeleteRemoveKept, DeleteRevokeKept
<1>7. CASE Watch(r) \/ Leave(r) \/ ReadAsk(r) \/ ReadLook(r)
  BY <1>7, WatchKept, ReadAskKept, ReadLookKept
<1> QED  BY <1>1, <1>2, <1>3, <1>4, <1>5, <1>6, <1>7 DEF ServeGame, GameStep

LEMMA GamesKept == RegistryInv /\ [Next]_vars => RegistryInv'
<1> SUFFICES ASSUME RegistryInv, [Next]_vars PROVE RegistryInv'  OBVIOUS
<1>1. CASE UNCHANGED vars
  <2>1. GamesInv' /\ Steady  BY <1>1, QuietWorld DEF RegistryInv, vars, registryVars
  <2> QED  BY <1>1, <2>1, RestingCalls DEF RegistryInv, vars
<1>2. ASSUME NEW r \in DOMAIN call, Serve(r) PROVE RegistryInv'
  BY <1>2, AccountKeepsGames, GameKeepsGames DEF Serve
<1>3. CASE GameProgress  BY <1>3, RunnerKept, ReviewKept DEF GameProgress
<1> QED  BY <1>1, <1>2, <1>3 DEF Next

LEMMA GamesBegin == Init => RegistryInv
<1> SUFFICES ASSUME Init PROVE RegistryInv  OBVIOUS
<1>1. /\ DOMAIN rooms = {} /\ listed = {} /\ files = {} /\ tokens = {}
      /\ DOMAIN call \in Workload /\ \A q \in DOMAIN call : call[q].at = "new"
  BY DEF Init, RegistryInit, CallInit, Nothing
<1>2. GamesInv
  BY <1>1 DEF GamesInv, RoomsInv, TablesInv, LiveInv, OneSeatInv, TokensInv, ReviewsKept
<1>3. LoopInv  BY <1>1 DEF LoopInv, HoldSteps
<1>4. CallsInv
  BY <1>1 DEF CallsInv, Informed, Joins, Starts, Deleting, Viewing, JoinSteps, DeleteSteps
<1> QED  BY <1>2, <1>3, <1>4 DEF RegistryInv

\* What the registry, the requests under way and the loop agree on, however they overlap.
THEOREM RegistrySafe == Spec => []RegistryInv
BY GamesBegin, GamesKept, PTL DEF Spec

\* An account has one seat of a game, a player's token is for a seat with the player's
\* port, and a game that runs has a port on every seat: join_game and start_game
\* (api/rest.py, runtime/registry.py) see to it unless a check of theirs was overtaken.
THEOREM SeatsSafe == Spec => []SeatsKept
<1>1. RegistryInv => SeatsKept
  <2> SUFFICES ASSUME RegistryInv, NEW g \in DOMAIN rooms, g \notin raced
               PROVE  /\ OneSeat(g)
                      /\ \A t \in tokens : t.game = g /\ t.kind = "PLAYER" =>
                                             rooms[g].ports[t.seat] = "human"
                      /\ Running(g) => DOMAIN rooms[g].ports = Seats
    BY DEF SeatsKept, OneSeat
  <2> QED
    BY DEF RegistryInv, GamesInv, OneSeatInv, TokensInv, HasPort, LiveInv, RoomsInv, Shape
<1> QED  BY <1>1, RegistrySafe, PTL

\* A game that runs stays listed, with its tokens and its file: delete_game
\* (api/rest.py) refuses it, or found it not started.
THEOREM RunningSafe == Spec => []RunningKept
<1>1. RegistryInv => RunningKept
  BY DEF RegistryInv, GamesInv, TablesInv, LiveInv, RunningKept
<1> QED  BY <1>1, RegistrySafe, PTL

\* Whoever is shown a game without a filter before it is over came with the GM's eyes and
\* does not sit at his own table: resolve_viewer and its callers (api/rest.py, api/ws.py);
\* the exception is an owner who sat down after his eyes were chosen.
THEOREM NoGodsViewSafe == Spec => []NoGodsView
<1>1. RegistryInv => NoGodsView
  <2> SUFFICES ASSUME RegistryInv, NEW r \in DOMAIN call, SeesAll(r)
               PROVE  \/ r.game \in raced \/ Finished(r.game)
                      \/ /\ Got(r).viewer = "GM"
                         /\ Got(r).user = rooms[r.game].owner => SeatsOf(r.game, Got(r).user) = {}
    BY DEF NoGodsView
  <2>1. Viewing(r.game, call[r].at, Got(r))  BY DEF RegistryInv, CallsInv, Informed, Got
  <2> QED  BY <2>1 DEF SeesAll, At, Viewing
<1> QED  BY <1>1, RegistrySafe, PTL

\* What a successful review taught stays in its memory's file, whatever other games of
\* the memory are reviewed, started or deleted (runtime/postgame.py).
THEOREM ReviewsSafe == Spec => []ReviewsKept
<1>1. RegistryInv => ReviewsKept  BY DEF RegistryInv, GamesInv
<1> QED  BY <1>1, RegistrySafe, PTL

\* A start that has waited in time (start_game of api/rest.py, wait_pending_reviews of
\* runtime/postgame.py) knows, for each review that was under way when it was asked for,
\* that it is over or about other memories; and what a review has taught is in its file
\* when the start reads it.
THEOREM StartsLearned == Spec => StartsInformed
<1> DEFINE Learned ==
      \A r \in DOMAIN call :
         At(r, "ports") /\ call'[r].at = "run" /\ ~Got(r).late =>
           \A h \in Got(r).reviewing, s \in DOMAIN rooms'[r.game].memory :
             LET mid == rooms'[r.game].memory[s]
             IN  /\ rooms[h].owner = rooms[r.game].owner /\ mid \in rooms[h].review.updated
                      => h \in rooms'[r.game].experiences[s]
                 /\ mid \in Range(rooms[h].memory) => ~Reviewing(h)
<1>1. RegistryInv /\ StartInv /\ [Next]_vars => [Learned]_vars
  <2> SUFFICES ASSUME RegistryInv, StartInv, [Next]_vars, NEW r \in DOMAIN call,
                      At(r, "ports"), call'[r].at = "run", ~Got(r).late,
                      NEW h \in Got(r).reviewing, NEW s \in DOMAIN rooms'[r.game].memory
               PROVE  LET mid == rooms'[r.game].memory[s]
                      IN  /\ rooms[h].owner = rooms[r.game].owner /\ mid \in rooms[h].review.updated
                               => h \in rooms'[r.game].experiences[s]
                          /\ mid \in Range(rooms[h].memory) => ~Reviewing(h)
    OBVIOUS
  <2> DEFINE g == r.game
  <2>1. StartPorts(r)  BY PortsOnly DEF At
  <2>2. g \in DOMAIN rooms /\ Shape(rooms[g])
    BY DEF RegistryInv, CallsInv, Informed, Starts, At, GamesInv, RoomsInv
  <2>3. rooms'[g] = Assembled(g, Seats)  BY <2>1, <2>2 DEF StartPorts
  <2>4. /\ rooms'[g].memory = [o \in Remembering(g) |-> rooms[g].agents[o]]
        /\ s \in Remembering(g)
        /\ rooms'[g].experiences[s] = Recorded(<<rooms[g].owner, rooms[g].agents[s]>>)
    BY <2>2, <2>3 DEF Assembled, Shape, Fields
  <2>5. rooms'[g].memory[s] = rooms[g].agents[s] /\ rooms[g].agents[s] \in MemoryIds(g)
    BY <2>4 DEF MemoryIds
  <2>6. /\ h \in DOMAIN rooms /\ rooms[h].review # None
        /\ ~(Reviewing(h) /\ Range(rooms[h].memory) \cap MemoryIds(g) # {})
    BY DEF StartInv, AwaitsInv, Awaits, StartSteps, At, Got
  <2> QED  BY <2>4, <2>5, <2>6 DEF RegistryInv, GamesInv, ReviewsKept
<1> QED  BY <1>1, GamesBegin, GamesKept, AwaitsBegin, AwaitsKept, PTL DEF Spec, StartsInformed, Learned

===============================================================================
