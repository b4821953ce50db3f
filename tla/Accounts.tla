------------------------------ MODULE Accounts ------------------------------
(***************************************************************************)
(* Users, sessions and mail codes (api/auth.py, api/admin.py,              *)
(* runtime/users.py over SQLite).                                          *)
(*                                                                         *)
(* Every call of the store is a transaction of its own; a handler that     *)
(* reads a row and writes it back uses several, and whatever another       *)
(* handler wrote in between is overwritten by the copy.  The history       *)
(* variable `stale` records that this has happened, and `deposed` that a   *)
(* registration took over the account of an admin.  Reads that follow      *)
(* each other (a find by address, then by name; the row to be patched and  *)
(* the number of admins) are one step.  register and resend run on the     *)
(* event loop and do not yield between their first look at the users and   *)
(* the mail; the other handlers run in the pool's threads.                 *)
(***************************************************************************)
EXTENDS Requests, Naturals, FiniteSets

CONSTANTS
    UserId, Users0,     \* the ids there are, and the rows at the start
    MailOn,             \* whether SMTP is configured
    MaxAttempts         \* EMAIL_CODE_MAX_ATTEMPTS

\* A row keeps who registered it in place of the password's hash.
IsRow(u) ==
    /\ DOMAIN u = {"id", "name", "email", "pass", "role", "status", "verified"}
    /\ u.verified \in BOOLEAN

ASSUME AccountsAssumption ==
    /\ MaxAttempts \in Nat /\ MailOn \in BOOLEAN
    /\ DOMAIN Users0 \subseteq UserId
    /\ \A id \in DOMAIN Users0 : IsRow(Users0[id]) /\ Users0[id].id = id

VARIABLES users, sessions, codes, lock, stale, deposed

accountVars == <<users, sessions, codes, lock, stale, deposed>>

Row(id, r, verified) ==
    [id |-> id, name |-> r.name, email |-> r.email, pass |-> r.by,
     role |-> "user", status |-> "active", verified |-> verified]

AccountsInit ==
    /\ users = Users0
    /\ sessions = {[user |-> id, from |-> None] :
                     id \in {u \in DOMAIN Users0 : Users0[u].verified}}
    /\ codes = [id \in {u \in DOMAIN Users0 : ~Users0[u].verified} |->
                  [attempts |-> 0, expired |-> FALSE]]
    /\ lock = None
    /\ stale = FALSE
    /\ deposed = FALSE

\* The row with this mail address, or this name; None if there is none.
RowWith(field, value) ==
    IF \E id \in DOMAIN users : users[id][field] = value
    THEN users[CHOOSE id \in DOMAIN users : users[id][field] = value]
    ELSE None
ByEmail(email) == RowWith("email", email)
ByName(name) == RowWith("name", name)

IsAdmin(u) == u.role = "admin" /\ u.status = "active"
ActiveAdmins == {id \in DOMAIN users : IsAdmin(users[id])}

CodeOf(id) == IF id \in DOMAIN codes THEN codes[id] ELSE None
Usable(code) == code # None /\ ~code.expired

SetCode(id, code) == codes' = Put(codes, id, code)
DropCode(id) == codes' = [i \in DOMAIN codes \ {id} |-> codes[i]]

\* put: the UNIQUE constraints refuse a name or an address that another row has.
Clash(u) == \E o \in DOMAIN users : o # u.id /\ (users[o].name = u.name \/ users[o].email = u.email)
Write(u) == users' = Put(users, u.id, u)

\* The row the handler saw is still the one it overwrites.
Fresh(seen) == seen.id \in DOMAIN users /\ users[seen.id] = seen

-----------------------------------------------------------------------------
(* Registration: find who holds the name, see whether his code has run     *)
(* out, write the row, clear what the earlier holder left, send a code.    *)

RegisterFind(r) ==
    /\ Asked(r, "register") /\ LoopFree
    /\ LET byEmail == ByEmail(r.email)
           holder == IF byEmail # None THEN byEmail ELSE ByName(r.name)
       IN  IF holder # None /\ ~holder.verified
           THEN Go(r, "reuse", holder)
           ELSE Go(r, "put", [seen |-> None, code |-> None])
    /\ UNCHANGED accountVars

\* An account that is not verified and has no usable code may be taken over.
MutantRegisterReuse(r) ==
    /\ At(r, "reuse")
    /\ Go(r, "put", [seen |-> Got(r), code |-> CodeOf(Got(r).id)])
    /\ UNCHANGED accountVars
RegisterReuse(r) ==
    /\ At(r, "reuse")
    /\ LET code == CodeOf(Got(r).id)
       IN  Go(r, "put", IF Usable(code) THEN [seen |-> None, code |-> None]
                                        ELSE [seen |-> Got(r), code |-> code])
    /\ UNCHANGED accountVars

RegisterPut(r) ==
    /\ At(r, "put")
    /\ LET seen == Got(r).seen
           id == IF seen # None THEN seen.id
                 ELSE CHOOSE i \in UserId : i \notin DOMAIN users
           row == Row(id, r, ~MailOn)
       IN  /\ (seen = None) => UserId \ DOMAIN users # {}
           /\ IF Clash(row)
              THEN Answer(r) /\ UNCHANGED <<users, stale, deposed>>
              ELSE /\ Write(row)
                   /\ stale' = (stale \/ (/\ seen # None
                                          /\ ~Fresh(seen) \/ Got(r).code # CodeOf(id)))
                   /\ deposed' = (deposed \/ id \in ActiveAdmins)
                   /\ Go(r, IF seen # None THEN "clear code"
                            ELSE IF MailOn THEN "send" ELSE "done", id)
    /\ UNCHANGED <<sessions, codes, lock>>

RegisterClear(r) ==
    \/ /\ At(r, "clear code")
       /\ DropCode(Got(r))
       /\ Go(r, "clear sessions", Got(r))
       /\ UNCHANGED <<users, sessions, lock, stale, deposed>>
    \/ /\ At(r, "clear sessions")
       /\ sessions' = {s \in sessions : s.user # Got(r)}
       /\ Go(r, IF MailOn THEN "send" ELSE "done", Got(r))
       /\ UNCHANGED <<users, codes, lock, stale, deposed>>

\* A new code keeps the number of attempts of the one it replaces.  The mail
\* itself may fail; that is logged and changes nothing.
MutantSendRead(r) ==
    /\ At(r, "send")
    /\ Go(r, "send put", [id |-> Got(r), attempts |-> 0, old |-> CodeOf(Got(r))])
    /\ UNCHANGED accountVars
SendRead(r) ==
    /\ At(r, "send")
    /\ LET old == CodeOf(Got(r))
       IN  Go(r, "send put", [id |-> Got(r), old |-> old,
                              attempts |-> IF Usable(old) THEN old.attempts ELSE 0])
    /\ UNCHANGED accountVars
SendPut(r) ==
    /\ At(r, "send put")
    /\ SetCode(Got(r).id, [attempts |-> Got(r).attempts, expired |-> FALSE])
    /\ stale' = (stale \/ Got(r).old # CodeOf(Got(r).id))
    /\ Answer(r)
    /\ UNCHANGED <<users, sessions, lock, deposed>>

Resend(r) ==
    /\ Asked(r, "resend") /\ LoopFree
    /\ LET user == ByEmail(r.email)
       IN  IF user # None /\ ~user.verified /\ MailOn
           THEN Go(r, "send", user.id) ELSE Answer(r)
    /\ UNCHANGED accountVars

-----------------------------------------------------------------------------
(* Proving the mail address, logging in and out.                           *)

VerifyFind(r) ==
    /\ Asked(r, "verify")
    /\ LET user == ByEmail(r.email)
       IN  IF user = None \/ user.verified THEN Answer(r) ELSE Go(r, "code", user)
    /\ UNCHANGED accountVars

VerifyCode(r) ==
    /\ At(r, "code")
    /\ LET code == CodeOf(Got(r).id)
       IN  IF code = None THEN Answer(r)
           ELSE IF code.attempts >= MaxAttempts THEN Answer(r)
           ELSE IF code.expired \/ ~r.right THEN Go(r, "miss", [id |-> Got(r).id, code |-> code])
           ELSE Go(r, "drop", Got(r))
    /\ UNCHANGED accountVars

\* A wrong guess is counted on the copy that was read.
VerifyMiss(r) ==
    /\ At(r, "miss")
    /\ LET id == Got(r).id code == Got(r).code
       IN  /\ SetCode(id, [code EXCEPT !.attempts = @ + 1])
           /\ stale' = (stale \/ CodeOf(id) # code)
    /\ Answer(r)
    /\ UNCHANGED <<users, sessions, lock, deposed>>

VerifyDrop(r) ==
    /\ At(r, "drop")
    /\ DropCode(Got(r).id)
    /\ Go(r, "confirm", Got(r))
    /\ UNCHANGED <<users, sessions, lock, stale, deposed>>
VerifyPut(r) ==
    /\ At(r, "confirm")
    /\ LET row == [Got(r) EXCEPT !.verified = TRUE]
       IN  IF Clash(row)
           THEN Answer(r) /\ UNCHANGED <<users, stale>>
           ELSE /\ Write(row)
                /\ stale' = (stale \/ ~Fresh(Got(r)))
                /\ Go(r, "open", row.id)
    /\ UNCHANGED <<sessions, codes, lock, deposed>>

\* login: by name or by address; password, status and verification in this order.
Login(r) ==
    /\ Asked(r, "login")
    /\ LET user == IF ByName(r.ident) # None THEN ByName(r.ident) ELSE ByEmail(r.ident)
       IN  IF user # None /\ user.pass = r.by /\ user.status = "active" /\ user.verified
           THEN Go(r, "open", user.id) ELSE Answer(r)
    /\ UNCHANGED accountVars

OpenSession(r) ==
    /\ At(r, "open")
    /\ sessions' = sessions \cup {[user |-> Got(r), from |-> r]}
    /\ Answer(r)
    /\ UNCHANGED <<users, codes, lock, stale, deposed>>

Logout(r) ==
    /\ Asked(r, "logout")
    /\ \E s \in sessions : s.user = r.as /\ sessions' = sessions \ {s}
    /\ Answer(r)
    /\ UNCHANGED <<users, codes, lock, stale, deposed>>

\* user_from_cookie: the account of a live session, if it is active; the session
\* of an account that is not is dropped.
SignedIn(as) == (\E s \in sessions : s.user = as) /\ as \in DOMAIN users
                  /\ users[as].status = "active"
DropDeadSession(as) ==
    IF SignedIn(as) \/ ~\E s \in sessions : s.user = as
    THEN UNCHANGED sessions
    ELSE \E s \in sessions : s.user = as /\ sessions' = sessions \ {s}

-----------------------------------------------------------------------------
(* Administration.  require_admin comes before the lock of patch_user.     *)

AskAdmin(r) ==
    /\ Asked(r, "patch") \/ Asked(r, "grant")
    /\ DropDeadSession(r.as)
    /\ IF SignedIn(r.as) /\ users[r.as].role = "admin"
       THEN Go(r, IF r.op = "patch" THEN "lock" ELSE "find", None) ELSE Answer(r)
    /\ UNCHANGED <<users, codes, lock, stale, deposed>>

\* What the row becomes: a field the request leaves out stays.
Patched(r, u) == [u EXCEPT !.role = IF r.role = None THEN @ ELSE r.role,
                           !.status = IF r.status = None THEN @ ELSE r.status]

\* Not oneself, and not the last active admin.
MayPatch(r) ==
    /\ r.user \in DOMAIN users /\ r.user # r.as
    /\ IsAdmin(users[r.user]) /\ ~IsAdmin(Patched(r, users[r.user])) => Cardinality(ActiveAdmins) > 1

MutantPatchLock(r) ==
    /\ At(r, "lock")
    /\ IF MayPatch(r) THEN Go(r, "patch put", users[r.user]) ELSE Answer(r)
    /\ UNCHANGED accountVars
MutantLockKept(r) ==
    /\ At(r, "lock") /\ lock = None
    /\ lock' = r
    /\ IF MayPatch(r) THEN Go(r, "patch put", users[r.user]) ELSE Answer(r)
    /\ UNCHANGED <<users, sessions, codes, stale, deposed>>
PatchLock(r) ==
    /\ At(r, "lock") /\ lock = None
    /\ IF MayPatch(r)
       THEN lock' = r /\ Go(r, "patch put", users[r.user])
       ELSE Answer(r) /\ UNCHANGED lock
    /\ UNCHANGED <<users, sessions, codes, stale, deposed>>

PatchPut(r) ==
    /\ At(r, "patch put")
    /\ LET row == Patched(r, Got(r))
       IN  IF Clash(row)
           THEN lock' = None /\ Answer(r) /\ UNCHANGED <<users, stale>>
           ELSE /\ Write(row)
                /\ stale' = (stale \/ ~Fresh(Got(r)))
                /\ Go(r, "patch end", row)
                /\ UNCHANGED lock
    /\ UNCHANGED <<sessions, codes, deposed>>
PatchEnd(r) ==
    /\ At(r, "patch end")
    /\ sessions' = {s \in sessions : Got(r).status = "disabled" => s.user # r.user}
    /\ lock' = None
    /\ Answer(r)
    /\ UNCHANGED <<users, codes, stale, deposed>>

\* verify_user takes no lock.
GrantFind(r) ==
    /\ At(r, "find")
    /\ IF r.user \notin DOMAIN users THEN Answer(r)
       ELSE Go(r, IF users[r.user].verified THEN "grant drop" ELSE "grant put", users[r.user])
    /\ UNCHANGED accountVars
GrantPut(r) ==
    /\ At(r, "grant put")
    /\ LET row == [Got(r) EXCEPT !.verified = TRUE]
       IN  IF Clash(row)
           THEN Answer(r) /\ UNCHANGED <<users, stale>>
           ELSE /\ Write(row)
                /\ stale' = (stale \/ ~Fresh(Got(r)))
                /\ Go(r, "grant drop", row)
    /\ UNCHANGED <<sessions, codes, lock, deposed>>
GrantDrop(r) ==
    /\ At(r, "grant drop")
    /\ DropCode(r.user)
    /\ Answer(r)
    /\ UNCHANGED <<users, sessions, lock, stale, deposed>>

-----------------------------------------------------------------------------
\* Time: EMAIL_CODE_TTL and SESSION_TTL.  The workload says what may run out.
CodeExpires(r) ==
    /\ Asked(r, "code expires") /\ r.user \in DOMAIN codes
    /\ codes' = [codes EXCEPT ![r.user].expired = TRUE]
    /\ Answer(r)
    /\ UNCHANGED <<users, sessions, lock, stale, deposed>>
SessionExpires(r) ==
    /\ Asked(r, "session expires")
    /\ \E s \in sessions : s.user = r.user /\ sessions' = sessions \ {s}
    /\ Answer(r)
    /\ UNCHANGED <<users, codes, lock, stale, deposed>>

AccountStep(r) ==
    \/ RegisterFind(r) \/ RegisterReuse(r) \/ RegisterPut(r) \/ RegisterClear(r)
    \/ SendRead(r) \/ SendPut(r) \/ Resend(r)
    \/ VerifyFind(r) \/ VerifyCode(r) \/ VerifyMiss(r) \/ VerifyDrop(r) \/ VerifyPut(r)
    \/ Login(r) \/ OpenSession(r) \/ Logout(r)
    \/ AskAdmin(r) \/ PatchLock(r) \/ PatchPut(r) \/ PatchEnd(r)
    \/ GrantFind(r) \/ GrantPut(r) \/ GrantDrop(r)
    \/ CodeExpires(r) \/ SessionExpires(r)

=============================================================================
