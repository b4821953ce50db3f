------------------------------ MODULE MCServer ------------------------------
(***************************************************************************)
(* Groups of requests that meet, each served once.                         *)
(***************************************************************************)
EXTENDS ServerProps

NoMemory == "-"

User(id, role, verified) ==
    [id |-> id, name |-> id, email |-> id, pass |-> id, role |-> role,
     status |-> "active", verified |-> verified]

MCUserId == {"root", "ann", "bob", "new"}
MCUsers0 ==
    [id \in {"root", "ann", "bob"} |->
       IF id = "root" THEN User(id, "admin", TRUE)
       ELSE IF id = "ann" THEN User(id, "admin", TRUE)
       ELSE User(id, "user", FALSE)]

Patch(n, as, user, role, status) ==
    [op |-> "patch", n |-> n, as |-> as, user |-> user, role |-> role, status |-> status]
Grant(as, user) == [op |-> "grant", n |-> 1, as |-> as, user |-> user]
Register(by, name, email) == [op |-> "register", n |-> 1, by |-> by, name |-> name, email |-> email]
Resends(n, email) == [op |-> "resend", n |-> n, email |-> email]
Verify(n, email, right) == [op |-> "verify", n |-> n, email |-> email, right |-> right]
LogIn(ident, by) == [op |-> "login", n |-> 1, ident |-> ident, by |-> by]
Expires(what, user) == [op |-> what, n |-> 1, user |-> user]
LogOut(as) == [op |-> "logout", n |-> 1, as |-> as]
Create(as, g, agents, ai) ==
    [op |-> "create", n |-> 1, as |-> as, game |-> g, agents |-> agents, ai |-> ai,
     spectators |-> FALSE]
Join(n, as, g, seat) ==
    [op |-> "join", n |-> n, as |-> as, game |-> g, seat |-> seat, host |-> as = None]
Start(n, g) == [op |-> "start", n |-> n, game |-> g, fill |-> TRUE]
Delete(n, as, g) == [op |-> "delete", n |-> n, as |-> as, game |-> g]
Watches(by, as, g) == [op |-> "watch", n |-> 1, by |-> by, as |-> as, game |-> g]
Reads(what, by, as, g) ==
    [op |-> "read", n |-> 1, what |-> what, by |-> by, as |-> as, game |-> g]

Agents == [s \in {0} |-> "m1"]

\* Two admins disable each other, or are made users, and someone is promoted.
Admins ==
    {Patch(1, "root", "ann", None, "disabled"), Patch(1, "ann", "root", "user", None),
     Patch(2, "root", "bob", "admin", None), Grant("ann", "bob"),
     Register("new", "bob", "bob"), Expires("code expires", "bob")}
\* Codes and attempts of an account that is not verified, while it is taken over.
Mails ==
    {Register("new", "bob", "bob"), Resends(1, "bob"), Verify(1, "bob", TRUE),
     Verify(1, "bob", FALSE), Expires("code expires", "bob")}
\* Registering, logging in and out while the account is verified by hand.
Names ==
    {Register("new", "bob", "new"), Register("bob", "bob", "bob"), Grant("root", "bob"),
     LogIn("bob", "bob"), LogOut("root"), Patch(1, "root", "ann", "user", None)}
\* The owner joins twice and watches: the table is filled, started, deleted.
Table ==
    {Create("ann", "g1", Nothing, None), Join(1, "ann", "g1", None), Join(2, "ann", "g1", 1),
     Start(1, "g1"), Watches("token", "ann", "g1"), Reads("live", "session", "ann", "g1")}
\* Guests take the same seat; the start is asked for twice and may fail.
Guests ==
    {Create("ann", "g1", Agents, 1), Join(1, "root", "g1", None), Join(1, None, "g1", 1),
     Start(1, "g1"), Start(2, "g1"), Reads("audio", "share", None, "g1")}
\* The game is deleted twice while it is joined and started.
Deletes ==
    {Create("ann", "g1", Agents, None), Join(1, "ann", "g1", 1), Start(1, "g1"),
     Delete(1, "ann", "g1"), Delete(1, "root", "g1"), Expires("session expires", "ann")}
\* A game is looked at and watched while its owner sits down and it is started.
Looks ==
    {Create("ann", "g1", Nothing, None), Join(1, "ann", "g1", 1), Start(1, "g1"),
     Reads("audio", "token", None, "g1"), Reads("replay", "session", "ann", "g1"),
     Watches("session", "ann", "g1")}
\* Two games of one memory.
Memories ==
    {Create("ann", "g1", Agents, None), Create("ann", "g2", Agents, None),
     Start(1, "g1"), Start(1, "g2"), Delete(1, "ann", "g1")}

MCWorkload == {Admins, Mails, Names, Table, Guests, Deletes, Looks, Memories}

=============================================================================
