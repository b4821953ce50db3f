------------------------------- MODULE Server -------------------------------
(***************************************************************************)
(* The server as the requests see it: accounts, games, and who may look at *)
(* a game with whose eyes (resolve_viewer and its helpers in api/rest.py,  *)
(* the entry of the WebSocket endpoint in api/ws.py).                      *)
(***************************************************************************)
EXTENDS Registry

vars == <<call, accountVars, registryVars>>

Finished(g) == rooms[g].phase = "over"

\* The seats the owner of a game has taken at it.
OwnerSeats(g) == IF g \in DOMAIN rooms THEN SeatsOf(g, rooms[g].owner) ELSE {}

\* The owner sits at the table and the game is not over.
OwnerLocked(g) == g \in listed /\ OwnerSeats(g) # {} /\ ~Finished(g)

\* A game that was started and whose task has not set its state yet answers
\* a question for its phase with an error.
PhaseKnown(g) == g \in listed /\ Started(g) => rooms[g].phase # None

View(viewer, seat, user) == [viewer |-> viewer, seat |-> seat, user |-> user]

\* The owner keeps the view of all when he has sat down.
MutantSessionView(as, g) ==
    IF ~SignedIn(as) THEN None
    ELSE IF ~CanAccess(as, g) THEN None
    ELSE View("GM", None, as)

\* A session: the owner and the admins see all, the seated owner his seat only.
SessionView(as, g) ==
    IF ~SignedIn(as) THEN None
    ELSE IF ~CanAccess(as, g) THEN None
    ELSE IF as = OwnerOf(g) /\ OwnerLocked(g)
    THEN IF PhaseKnown(g) THEN View("PLAYER", Min(SeatsOf(g, as)), as) ELSE None
    ELSE View("GM", None, as)

\* A token of the game; a GM token is locked out with the owner.
TokenView(t) ==
    IF t.kind = "GM" /\ OwnerLocked(t.game) THEN None
    ELSE View(t.kind, t.seat, t.user)

\* A share link: during the game only if spectators are allowed.
ShareView(g) ==
    IF g \in listed /\ ~rooms[g].spectators /\ ~Finished(g) THEN None
    ELSE View("SPECTATOR", None, None)

ViewsFor(r) ==
    IF r.by = "session" THEN {SessionView(r.as, r.game)}
    ELSE IF r.by = "share" THEN {ShareView(r.game)}
    ELSE {TokenView(t) : t \in {t \in tokens : t.game = r.game}}

Resolved(r) == IF ViewsFor(r) = {} THEN {None} ELSE ViewsFor(r)

\* Opening a stream: the game must be started and have a file to read.
Watch(r) ==
    /\ Asked(r, "watch") /\ LoopFree
    /\ IF r.by = "session" THEN DropDeadSession(r.as) ELSE UNCHANGED sessions
    /\ IF r.game \in listed /\ Started(r.game) /\ PhaseKnown(r.game) /\ r.game \in files
       THEN \E view \in Resolved(r) :
              IF view = None \/ view.viewer = "HOST" THEN Answer(r) ELSE Go(r, "watching", view)
       ELSE Answer(r)
    /\ UNCHANGED registryVars
Leave(r) ==
    /\ At(r, "watching")
    /\ Answer(r)
    /\ UNCHANGED <<registryVars, sessions>>

-----------------------------------------------------------------------------
(* Reading once, in a thread of the pool: whose eyes, then what they see.  *)
(* `sat` remembers where the owner sat when his eyes were chosen.          *)

ReadAsk(r) ==
    /\ Asked(r, "read")
    /\ IF r.by = "session" THEN DropDeadSession(r.as) ELSE UNCHANGED sessions
    /\ \E view \in Resolved(r) :
         IF view = None THEN Answer(r)
         ELSE Go(r, "look", [viewer |-> view.viewer, user |-> view.user, sat |-> OwnerSeats(r.game)])
    /\ UNCHANGED registryVars

\* The state and the events are those of a game that is under way or over, whose
\* task has not crashed; each viewer but the GM gets what his seat may see.
Healthy(g) == rooms[g].task # "crashed"
LiveServed(r) ==
    /\ r.what = "live"
    /\ r.game \in listed /\ Started(r.game) /\ PhaseKnown(r.game)
    /\ Healthy(r.game) /\ Got(r).viewer # "HOST"

\* The whole log and the head record, once the game is over, with or without a handle.
ReplayServed(r) == r.what = "replay" /\ OwnerOf(r.game) # None /\ Finished(r.game)

\* The speech: all of it when the game is over or has no handle.
AudioServed(r) ==
    r.what = "audio" /\ r.game \in files /\ (Got(r).viewer = "GM" \/ PhaseKnown(r.game))
Heard(g) == g \in listed /\ Started(g) => Finished(g)

Served(r) == LiveServed(r) \/ ReplayServed(r) \/ AudioServed(r)
Unfiltered(r) ==
    Got(r).viewer = "GM" \/ r.what = "replay" \/ (r.what = "audio" /\ Heard(r.game))

\* The owner is not where he sat when he was granted the view of all.
Overlooked(r) ==
    /\ Got(r).viewer = "GM" /\ Got(r).user = rooms[r.game].owner
    /\ OwnerSeats(r.game) # Got(r).sat

ReadLook(r) ==
    /\ At(r, "look")
    /\ IF Served(r)
       THEN Go(r, "shown", [viewer |-> Got(r).viewer, user |-> Got(r).user, all |-> Unfiltered(r)])
       ELSE Answer(r)
    /\ Race(r.game, Served(r) /\ Overlooked(r))
    /\ UNCHANGED <<rooms, listed, files, tokens, exps, sessions>>

-----------------------------------------------------------------------------
Init == CallInit /\ AccountsInit /\ RegistryInit

ServeAccount(r) == AccountStep(r) /\ UNCHANGED registryVars
ServeGame(r) ==
    /\ GameStep(r) \/ Watch(r) \/ Leave(r) \/ ReadAsk(r) \/ ReadLook(r)
    /\ UNCHANGED <<users, codes, lock, stale, deposed>>
Serve(r) == ServeAccount(r) \/ ServeGame(r)

Next ==
    \/ \E r \in DOMAIN call : Serve(r)
    \/ GameProgress /\ UNCHANGED <<users, codes, lock, stale, deposed>>

\* The loop and the pool carry on with what they have begun; nothing makes a
\* client ask, a game end or a code run out.
CarryOn == \E r \in DOMAIN call : ~At(r, "new") /\ ~At(r, "watching") /\ Serve(r)

Spec == Init /\ [][Next]_vars /\ WF_vars(CarryOn)

=============================================================================
