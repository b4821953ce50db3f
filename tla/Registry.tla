------------------------------ MODULE Registry ------------------------------
(***************************************************************************)
(* The games of the process and their tokens: creating, joining, starting  *)
(* and deleting a game (api/rest.py, runtime/registry.py, GameLobby, the   *)
(* TokenRegistry of api/deps.py).                                          *)
(*                                                                         *)
(* create and start run on the event loop; join and delete run in the      *)
(* pool's threads without a lock, so either may be switched at any step.   *)
(* The history variable `raced` holds the games on which a handler acted   *)
(* on a check that no longer held.                                         *)
(***************************************************************************)
EXTENDS Accounts, Functions, FiniteSetsExt

CONSTANTS
    N,          \* num_players
    MemoryId    \* the memory ids profiles may carry; any other is "no memory"

VARIABLES
    rooms,      \* the GameHandle of every game ever made
    listed,     \* the games the registry still has
    files,      \* the games with an event file
    tokens,     \* TokenRegistry
    exps,       \* the experience files: of each owner's memory, the games recorded
    raced

registryVars == <<rooms, listed, files, tokens, exps, raced>>

Seats == 0 .. N - 1

\* A profile is for a seat: registry.create refuses one that is not on the board.
\* None is neither the name of a phase nor a review.
ASSUME RegistryAssumption ==
    /\ N \in Nat \ {0} /\ None # "over"
    /\ None \notin [left : SUBSET Seats, updated : SUBSET MemoryId]
    /\ \A asked \in Workload : \A r \in asked :
         r.op = "create" => DOMAIN r.agents \subseteq Seats

Nothing == [s \in {} |-> None]

RegistryInit ==
    /\ rooms = Nothing
    /\ listed = {} /\ files = {} /\ tokens = {} /\ raced = {}
    /\ exps = Nothing

Room(r) ==
    [owner |-> r.as, spectators |-> r.spectators, ai |-> r.ai, agents |-> r.agents,
     entries |-> {}, ports |-> Nothing, seated |-> Nothing,
     memory |-> Nothing, experiences |-> Nothing,
     task |-> "none", phase |-> None, review |-> None]

\* The games recorded in a memory; a file that is not there has none.
Recorded(key) == IF key \in DOMAIN exps THEN exps[key] ELSE {}

Started(g) == rooms[g].task # "none"
Running(g) == rooms[g].task \in {"made", "playing", "closing"}
SeatsOf(g, account) == {s \in DOMAIN rooms[g].seated : rooms[g].seated[s] = account}
HasToken(g, kind) == \E t \in tokens : t.game = g /\ t.kind = kind

\* The owner of a game, from its handle or its file; None is a 404.
OwnerOf(g) == IF g \in listed \cup files THEN rooms[g].owner ELSE None
CanAccess(as, g) == OwnerOf(g) # None /\ (users[as].role = "admin" \/ as = OwnerOf(g))

Race(g, overtaken) == raced' = IF overtaken THEN raced \cup {g} ELSE raced

-----------------------------------------------------------------------------
(* Creating: the speech service is probed between the look at the account  *)
(* and the making of the game.                                             *)

CreateAsk(r) ==
    /\ Asked(r, "create")
    /\ DropDeadSession(r.as)
    /\ IF SignedIn(r.as) THEN Go(r, "create", None) ELSE Answer(r)
    /\ UNCHANGED registryVars

CreateGame(r) ==
    /\ At(r, "create") /\ LoopFree
    /\ r.game \notin DOMAIN rooms
    /\ rooms' = Put(rooms, r.game, Room(r))
    /\ listed' = listed \cup {r.game}
    /\ tokens' = tokens \cup {[game |-> r.game, kind |-> kind, seat |-> None, user |-> r.as] :
                                kind \in {"HOST", "GM"}}
    /\ Answer(r)
    /\ UNCHANGED <<files, exps, raced, sessions>>

\* The configuration, the profiles or the speech service are refused.
CreateRefused(r) ==
    /\ At(r, "create") /\ LoopFree
    /\ Answer(r)
    /\ UNCHANGED <<registryVars, sessions>>

-----------------------------------------------------------------------------
(* Joining, in a thread of the pool.                                       *)

\* By the session, or else by the HOST token, which names no account.
JoinAsk(r) ==
    /\ Asked(r, "join")
    /\ DropDeadSession(r.as)
    /\ IF (SignedIn(r.as) \/ (r.host /\ HasToken(r.game, "HOST"))) /\ r.game \in listed
       THEN Go(r, "join check", IF SignedIn(r.as) THEN r.as ELSE None)
       ELSE Answer(r)
    /\ UNCHANGED registryVars

\* What the check saw goes on with the request: Overtaken compares it later.
MutantJoinCheck(r) ==
    /\ At(r, "join check")
    /\ LET g == r.game
           account == Got(r)
       IN  IF Started(g)
           THEN Answer(r)
           ELSE Go(r, "choose", [account |-> account, mine |-> SeatsOf(g, account)])
    /\ UNCHANGED <<registryVars, sessions>>
JoinCheck(r) ==
    /\ At(r, "join check")
    /\ LET g == r.game
           account == Got(r)
       IN  IF Started(g) \/ (account # None /\ SeatsOf(g, account) # {})
           THEN Answer(r)
           ELSE Go(r, "choose", [account |-> account, mine |-> SeatsOf(g, account)])
    /\ UNCHANGED <<registryVars, sessions>>

\* GameLobby.join: the seat asked for, or the lowest that is empty.
JoinChoose(r) ==
    /\ At(r, "choose")
    /\ LET empty == Seats \ rooms[r.game].entries
           wanted == IF r.seat = None THEN Min(empty) ELSE r.seat
       IN  IF empty = {} THEN Answer(r)
           ELSE IF wanted \notin empty THEN Answer(r)
           ELSE Go(r, "sit", [account |-> Got(r).account, mine |-> Got(r).mine, seat |-> wanted])
    /\ UNCHANGED <<registryVars, sessions>>

Overtaken(r) ==
    \/ r.game \notin listed
    \/ Started(r.game)
    \/ Got(r).account # None /\ SeatsOf(r.game, Got(r).account) # Got(r).mine

JoinSit(r) ==
    /\ At(r, "sit")
    /\ rooms' = [rooms EXCEPT ![r.game].entries = @ \cup {Got(r).seat}]
    /\ Race(r.game, Overtaken(r) \/ Got(r).seat \in rooms[r.game].entries)
    /\ Go(r, "port", Got(r))
    /\ UNCHANGED <<listed, files, tokens, exps, sessions>>
JoinPort(r) ==
    /\ At(r, "port")
    /\ rooms' = [rooms EXCEPT ![r.game].ports = Put(@, Got(r).seat, "human")]
    /\ Race(r.game, Overtaken(r))
    /\ Go(r, "name", Got(r))
    /\ UNCHANGED <<listed, files, tokens, exps, sessions>>
JoinName(r) ==
    /\ At(r, "name")
    /\ rooms' = [rooms EXCEPT ![r.game].seated = Put(@, Got(r).seat, Got(r).account)]
    /\ Race(r.game, Overtaken(r))
    /\ Go(r, "token", Got(r))
    /\ UNCHANGED <<listed, files, tokens, exps, sessions>>
JoinToken(r) ==
    /\ At(r, "token")
    /\ tokens' = tokens \cup {[game |-> r.game, kind |-> "PLAYER", seat |-> Got(r).seat,
                               user |-> Got(r).account]}
    /\ Race(r.game, r.game \notin listed)
    /\ Answer(r)
    /\ UNCHANGED <<rooms, listed, files, exps, sessions>>

-----------------------------------------------------------------------------
(* Starting, on the event loop; it first waits, for a bounded time, for    *)
(* the reviews of finished games that have one of its memories.            *)

Remembering(g) == {s \in DOMAIN rooms[g].agents \ DOMAIN rooms[g].ports :
                     rooms[g].agents[s] \in MemoryId}
MutantMemoryIds(g) == Range(rooms[g].memory)
MemoryIds(g) == {rooms[g].agents[s] : s \in Remembering(g)}

Reviewing(g) == rooms[g].review # None /\ rooms[g].review.left # {}
Pending(ids) == {h \in listed : Reviewing(h) /\ Range(rooms[h].memory) \cap ids # {}}

StartAsk(r) ==
    /\ Asked(r, "start") /\ LoopFree
    /\ IF HasToken(r.game, "HOST") /\ r.game \in listed
       THEN LET waiting == Pending(MemoryIds(r.game))
            IN  Go(r, IF waiting = {} THEN "fill" ELSE "wait",
                   [waiting |-> waiting, late |-> FALSE,
                    reviewing |-> {h \in listed : Reviewing(h)}])
       ELSE Answer(r)
    /\ UNCHANGED <<registryVars, sessions>>

\* The wait ends when all are done, or at its timeout with the game started all the same.
StartResumes(r) ==
    /\ At(r, "wait") /\ LoopFree
    /\ LET late == \E h \in Got(r).waiting : Reviewing(h)
       IN  Go(r, "fill", [Got(r) EXCEPT !.late = late])
    /\ UNCHANGED <<registryVars, sessions>>

\* The number of AI seats is compared with the seats without a port; a roster
\* that is not full is an error after the lobby was filled.
StartFill(r) ==
    /\ At(r, "fill")
    /\ LET g == r.game
           room == rooms[g]
           entries == IF r.fill THEN Seats ELSE room.entries
       IN  IF Started(g) \/ (room.ai # None /\ N - Cardinality(DOMAIN room.ports) # room.ai)
           THEN Answer(r) /\ UNCHANGED <<rooms, raced>>
           ELSE /\ rooms' = [rooms EXCEPT ![g].entries = entries]
                /\ IF entries = Seats
                   THEN Go(r, "ports", Got(r)) /\ Race(g, g \notin listed)
                   ELSE Answer(r) /\ UNCHANGED raced
    /\ UNCHANGED <<listed, files, tokens, exps, sessions>>

\* The memories are loaded, then a port is built for every seat without one.
Assembled(g, built) ==
    LET room == rooms[g]
        memory == [s \in Remembering(g) |-> room.agents[s]]
    IN  [room EXCEPT
           !.memory = memory,
           !.experiences = [s \in DOMAIN @ \cup DOMAIN memory |->
                              IF s \in DOMAIN memory THEN Recorded(<<room.owner, memory[s]>>) ELSE @[s]],
           !.ports = [s \in DOMAIN @ \cup built |->
                        IF s \in DOMAIN @ THEN @[s]
                        ELSE IF s \in DOMAIN room.agents THEN "agent" ELSE "bot"]]

StartPorts(r) ==
    /\ At(r, "ports")
    /\ rooms' = [rooms EXCEPT ![r.game] = Assembled(r.game, Seats)]
    /\ Go(r, "run", Got(r))
    /\ UNCHANGED <<listed, files, tokens, exps, raced, sessions>>

\* A memory that cannot be read, a provider that was deleted or an agent that
\* cannot be built: the lobby stays filled and the ports built so far stay.
StartFails(r) ==
    /\ At(r, "ports") /\ DOMAIN rooms[r.game].agents # {}
    /\ \E k \in {0} \cup (DOMAIN rooms[r.game].agents \ DOMAIN rooms[r.game].ports) :
         rooms' = [rooms EXCEPT ![r.game] = Assembled(r.game, 0 .. k - 1)]
    /\ Answer(r)
    /\ UNCHANGED <<listed, files, tokens, exps, raced, sessions>>

StartRun(r) ==
    /\ At(r, "run")
    /\ rooms' = [rooms EXCEPT ![r.game].task = "made"]
    /\ Race(r.game, r.game \notin listed)
    /\ Answer(r)
    /\ UNCHANGED <<listed, files, tokens, exps, sessions>>

-----------------------------------------------------------------------------
(* Deleting, in a thread of the pool: file, handle, tokens.                *)

MutantDeleteAsk(r) ==
    /\ Asked(r, "delete")
    /\ DropDeadSession(r.as)
    /\ IF SignedIn(r.as) /\ CanAccess(r.as, r.game)
       THEN Go(r, "delete file", [handle |-> r.game \in listed, started |-> Started(r.game)])
       ELSE Answer(r)
    /\ UNCHANGED registryVars
DeleteAsk(r) ==
    /\ Asked(r, "delete")
    /\ DropDeadSession(r.as)
    /\ IF /\ SignedIn(r.as) /\ CanAccess(r.as, r.game)
          /\ ~(r.game \in listed /\ Running(r.game))
       THEN Go(r, "delete file", [handle |-> r.game \in listed, started |-> Started(r.game)])
       ELSE Answer(r)
    /\ UNCHANGED registryVars

DeleteRaces(r) == Race(r.game, Started(r.game) # Got(r).started)

\* Without a file only a handle can be removed; a file that cannot be removed stops it.
DeleteFile(r) ==
    /\ At(r, "delete file")
    /\ \/ /\ files' = files \ {r.game}
          /\ IF Got(r).handle THEN Go(r, "remove", Got(r))
             ELSE IF r.game \in files THEN Go(r, "revoke", Got(r)) ELSE Answer(r)
       \/ /\ r.game \in files
          /\ Answer(r) /\ UNCHANGED files
    /\ DeleteRaces(r)
    /\ UNCHANGED <<rooms, listed, tokens, exps, sessions>>

\* Another request may have removed it: then the tokens are left to that one.
DeleteRemove(r) ==
    /\ At(r, "remove")
    /\ listed' = listed \ {r.game}
    /\ IF r.game \in listed THEN Go(r, "revoke", Got(r)) ELSE Answer(r)
    /\ DeleteRaces(r)
    /\ UNCHANGED <<rooms, files, tokens, exps, sessions>>
DeleteRevoke(r) ==
    /\ At(r, "revoke")
    /\ tokens' = {t \in tokens : t.game # r.game}
    /\ DeleteRaces(r)
    /\ Answer(r)
    /\ UNCHANGED <<rooms, listed, files, exps, sessions>>

-----------------------------------------------------------------------------
(* The runner's task, as far as the registry sees it.                      *)

Runs(g, from, to, phase) ==
    /\ LoopFree
    /\ rooms[g].task \in from
    /\ rooms' = [rooms EXCEPT ![g].task = to, ![g].phase = phase]
    /\ UNCHANGED <<call, listed, tokens, exps, raced, sessions>>

RunnerBegins(g) == Runs(g, {"made"}, "playing", "play") /\ files' = files \cup {g}
\* The last event is in the file; the task still has the broadcast and the speech to do.
RunnerOver(g) == g \in files /\ Runs(g, {"playing"}, "closing", "over") /\ UNCHANGED files
RunnerDone(g) == Runs(g, {"closing"}, "over", "over") /\ UNCHANGED files
\* Any error of the store, the speech files or the rules ends the task.
RunnerCrashes(g) ==
    Runs(g, {"made", "playing", "closing"}, "crashed", rooms[g].phase) /\ UNCHANGED files

-----------------------------------------------------------------------------
(* The review of a finished game: one seat after the other reflects; what  *)
(* it learned is added to the memory as it is in the store by then.        *)

ReviewBegins(g) ==
    /\ LoopFree
    /\ rooms[g].task = "over" /\ rooms[g].review = None /\ rooms[g].memory # Nothing
    /\ LET room == rooms[g]
           seats == {s \in DOMAIN room.agents :
                       room.agents[s] \in MemoryId /\ room.ports[s] = "agent"}
       IN  rooms' = [rooms EXCEPT ![g].review = [left |-> seats, updated |-> {}]]
    /\ UNCHANGED <<call, listed, files, tokens, exps, raced, sessions>>

MutantLearn(g, s) ==
    LET mid == rooms[g].agents[s]
        key == <<rooms[g].owner, mid>>
    IN  /\ exps' = Put(exps, key, rooms[g].experiences[s] \cup {g})
        /\ rooms' = [rooms EXCEPT ![g].review = [left |-> @.left \ {s},
                                                 updated |-> @.updated \cup {mid}]]
Learn(g, s) ==
    LET mid == rooms[g].agents[s]
        key == <<rooms[g].owner, mid>>
    IN  /\ exps' = Put(exps, key, Recorded(key) \cup {g})
        /\ rooms' = [rooms EXCEPT ![g].review = [left |-> @.left \ {s},
                                                 updated |-> @.updated \cup {mid}]]
\* The agent may give nothing, or its file may fail: the others go on.
LearnNothing(g, s) ==
    /\ rooms' = [rooms EXCEPT ![g].review.left = @ \ {s}]
    /\ UNCHANGED exps
ReviewSeat(g) ==
    /\ LoopFree
    /\ Reviewing(g)
    /\ LET s == Min(rooms[g].review.left) IN Learn(g, s) \/ LearnNothing(g, s)
    /\ UNCHANGED <<call, listed, files, tokens, raced, sessions>>

GameStep(r) ==
    \/ CreateAsk(r) \/ CreateGame(r) \/ CreateRefused(r)
    \/ JoinAsk(r) \/ JoinCheck(r) \/ JoinChoose(r) \/ JoinSit(r) \/ JoinPort(r)
    \/ JoinName(r) \/ JoinToken(r)
    \/ StartAsk(r) \/ StartResumes(r) \/ StartFill(r) \/ StartPorts(r) \/ StartFails(r)
    \/ StartRun(r)
    \/ DeleteAsk(r) \/ DeleteFile(r) \/ DeleteRemove(r) \/ DeleteRevoke(r)

GameProgress ==
    \E g \in DOMAIN rooms :
      \/ RunnerBegins(g) \/ RunnerOver(g) \/ RunnerDone(g) \/ RunnerCrashes(g)
      \/ ReviewBegins(g) \/ ReviewSeat(g)

=============================================================================
