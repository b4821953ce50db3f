---------------------------- MODULE ServerProps -----------------------------
(***************************************************************************)
(* What the server owes its users when their requests overlap.  The checks *)
(* of a handler and the writes that rest on them are steps of their own;   *)
(* where the code takes no lock, a property is stated for the accounts and *)
(* games on which no check was overtaken (`stale`, `deposed`, `raced`): it *)
(* then holds for every other overlap, of any number of requests.          *)
(***************************************************************************)
EXTENDS Server

TakenOver(id) == id \in DOMAIN users' /\ users'[id].pass # users[id].pass

\* Whatever the admins do to each other at the same time, an active admin is
\* left (admin.py: the lock of patch_user) - unless an account was written back
\* from an old copy, or an admin who was never verified has lost his account to
\* a new registration, which takes the role away without that lock.
AdminKept ==
    [][ActiveAdmins # {} => ActiveAdmins' # {} \/ stale' \/ deposed']_vars

\* Nobody's password is replaced by someone else's registration while the
\* account is verified or has a code that can still be used.
AccountKept ==
    [][\A id \in DOMAIN users :
         TakenOver(id) => stale' \/ (~users[id].verified /\ ~Usable(CodeOf(id)))]_vars

\* Asking for new mails gives no new guesses: as long as a code can be used,
\* the attempts already made against the account stay counted.
AttemptsKept ==
    [][\A id \in DOMAIN codes :
         Usable(CodeOf(id)) /\ id \in DOMAIN codes' =>
           stale' \/ codes'[id].attempts >= codes[id].attempts]_vars

\* An account holds at most one seat of a game, a player's token is for a seat
\* that has the player's port, and a game that runs has a port on every seat.
SeatsKept ==
    \A g \in DOMAIN rooms \ raced :
      /\ \A s, t \in DOMAIN rooms[g].seated :
           rooms[g].seated[s] = rooms[g].seated[t] /\ rooms[g].seated[s] # None => s = t
      /\ \A t \in tokens : t.game = g /\ t.kind = "PLAYER" => rooms[g].ports[t.seat] = "human"
      /\ Running(g) => DOMAIN rooms[g].ports = Seats

\* Before a game is over, what is shown of it without a filter - the GM's stream,
\* log, state or speech - goes to nobody who sits at a table of his own, nor to a
\* player, a spectator or the holder of a link, by whatever way they came in - unless
\* the owner sat down between the choice of his eyes and the answer (`raced`): he may
\* then still be shown a game that was started in between.
SeesAll(r) ==
    \/ At(r, "watching") /\ Got(r).viewer = "GM"
    \/ At(r, "shown") /\ Got(r).all
NoGodsView ==
    \A r \in DOMAIN call :
      SeesAll(r) =>
        \/ r.game \in raced \/ Finished(r.game)
        \/ /\ Got(r).viewer = "GM"
           /\ Got(r).user = rooms[r.game].owner => SeatsOf(r.game, Got(r).user) = {}

\* A game that runs is not taken from under its players: it stays listed, with
\* its file and with its tokens.
RunningKept ==
    \A g \in DOMAIN rooms \ raced :
      Running(g) => /\ g \in listed
                    /\ HasToken(g, "HOST") /\ HasToken(g, "GM")
                    /\ rooms[g].task # "made" => g \in files

\* Every review that succeeded is in its memory for good, however many games
\* of the same memory are reviewed at once, started or deleted meanwhile.
ReviewsKept ==
    \A g \in DOMAIN rooms :
      rooms[g].review # None =>
        \A mid \in rooms[g].review.updated : g \in Recorded(<<rooms[g].owner, mid>>)

\* A game whose start has waited in time begins with what the reviews taught
\* that were under way when it was asked for.
StartsInformed ==
    [][\A r \in DOMAIN call :
         At(r, "ports") /\ call'[r].at = "run" /\ ~Got(r).late =>
           \A h \in Got(r).reviewing, s \in DOMAIN rooms'[r.game].memory :
             LET mid == rooms'[r.game].memory[s]
             IN  /\ rooms[h].owner = rooms[r.game].owner /\ mid \in rooms[h].review.updated
                      => h \in rooms'[r.game].experiences[s]
                 /\ mid \in Range(rooms[h].memory) => ~Reviewing(h)]_vars

\* Every request that was taken up is answered: no lock is left behind and no
\* handler waits for ever.
AllAnswered == []<>Quiet

=============================================================================
