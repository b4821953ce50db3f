----------------------------- MODULE GameConfig -----------------------------
(***************************************************************************)
(* The board of one game and the rules it is played by: the deal, the      *)
(* GameConfig switches that the engine reads, and the pure functions of    *)
(* backend/app/engine/resolver.py and of the wolves' consensus.            *)
(*                                                                         *)
(* Roles are dealt once, when the game is created, and never change, so    *)
(* the deal is a constant; a run fixes one deal, the theorems hold for     *)
(* every deal.  Seats are numbered from 0, as in the code.                 *)
(***************************************************************************)
EXTENDS Integers, FiniteSets, Sequences

CONSTANTS
    N,        \* config.num_players
    Role,     \* the role dealt to each seat
    config,   \* the rule switches, a record whose fields keep the code's names
    Aim,      \* BOUND of a run: the seats an action of each kind is aimed at
    None,     \* "no seat": the code's None
    NotYet    \* a seat with no entry in a dict of votes or proposals

Seats == 0 .. (N - 1)
SeatOrNone == Seats \cup {None}

Roles == {"WEREWOLF", "VILLAGER", "SEER", "WITCH", "HUNTER", "GUARD", "IDIOT"}

\* The night phases, each with the role that is called in it.
NightRole == [NIGHT_GUARD |-> "GUARD", NIGHT_WEREWOLF |-> "WEREWOLF", NIGHT_WITCH |-> "WITCH",
              NIGHT_SEER |-> "SEER", NIGHT_HUNTER_CONFIRM |-> "HUNTER"]
NightPhases == {"NIGHT_GUARD", "NIGHT_WEREWOLF", "NIGHT_WITCH", "NIGHT_SEER",
                "NIGHT_HUNTER_CONFIRM"}

AimKinds == {"kill", "guard", "poison", "shoot", "vote", "badge"}

\* Who was dealt what (Player.role and Player.faction).
Holders(role) == {s \in Seats : Role[s] = role}
Wolves == Holders("WEREWOLF")
Goods == Seats \ Wolves
Villagers == Holders("VILLAGER")
Gods == Goods \ Villagers

(***************************************************************************)
(* validate_config, and what the type of GameConfig gives.  Nothing is     *)
(* assumed of the switches that the engine only compares with a literal.   *)
(***************************************************************************)
ASSUME BoardAssumption ==
    /\ N \in Nat
    /\ Role \in [Seats -> Roles]
    /\ Wolves # {}
    /\ Goods # {}
    /\ None \notin Seats
    /\ NotYet \notin SeatOrNone
    /\ Aim \in [AimKinds -> SUBSET Seats]

ASSUME RulesAssumption ==
    /\ config.night_order \in Seq(NightPhases)
    /\ \A i \in DOMAIN config.night_order : Holders(NightRole[config.night_order[i]]) # {}
    /\ \E i \in DOMAIN config.night_order : config.night_order[i] = "NIGHT_WEREWOLF"
    /\ \A i, j \in DOMAIN config.night_order :
          config.night_order[i] = config.night_order[j] => i = j
    /\ config.max_rounds \in Int
    /\ config.wolf_consensus_rounds \in Nat \ {0}
    /\ config.sheriff_half_votes \in Nat    \* twice sheriff.vote_weight

-----------------------------------------------------------------------------
(* resolver.py *)

\* resolve_night: the guard stops the knife but not the poison; guarding and
\* saving the same seat cancel out when the board says so.
ResolveNight(night) ==
    LET guarded == night.wolf_target = night.guard_target
        saved == night.witch_save
    IN  {s \in Seats :
            \/ /\ s = night.wolf_target
               /\ \/ guarded /\ saved /\ config.guard_plus_antidote_cancels
                  \/ ~guarded /\ ~saved
            \/ s = night.witch_poison_target}

\* count_votes: the seats with the most weight, counted in half votes so that
\* a sheriff's vote (the seats in heavy) stays an integer.  One leader is
\* elected or exiled, several are a tie, none means nobody was named.
VotersFor(ballots, target) == {v \in Seats : ballots[v] = target}

WeightFor(ballots, target, heavy) ==
    2 * Cardinality(VotersFor(ballots, target) \ heavy)
        + config.sheriff_half_votes * Cardinality(VotersFor(ballots, target) \cap heavy)

Leaders(ballots, heavy) ==
    {t \in Seats :
        /\ VotersFor(ballots, t) # {}
        /\ \A u \in Seats :
              VotersFor(ballots, u) # {}
                  => WeightFor(ballots, u, heavy) <= WeightFor(ballots, t, heavy)}

\* check_win: the winner when the seats in living are the ones alive.  Wiping
\* out one side is enough when win_condition is KILL_SIDE.
WolvesWin(living) ==
    \/ living \cap Goods = {}
    \/ /\ config.win_condition = "KILL_SIDE"
       /\ \/ Villagers # {} /\ living \cap Villagers = {}
          \/ Gods # {} /\ living \cap Gods = {}

CheckWin(living) ==
    IF living \cap Wolves = {} THEN "GOOD"
    ELSE IF WolvesWin(living) THEN "WOLF" ELSE "none"

-----------------------------------------------------------------------------
(* engine.py: the wolves' decision *)

\* _wolf_consensus: the decisions that the proposals allow.  A random pick
\* of RANDOM_PROPOSAL may fall on every seat that was proposed.
WolfConsensus(proposals) ==
    LET backers(t) == {w \in Seats : proposals[w] = t}
        named == {t \in Seats : backers(t) # {}}
        leading == {t \in named :
                      \A u \in (named \cup {None}) \ {t} :
                          Cardinality(backers(u)) < Cardinality(backers(t))}
        unanimous == {t \in named : backers(None) = {} /\ named = {t}}
        chosen == IF config.wolf_kill_rule = "RANDOM_PROPOSAL" THEN named
                  ELSE IF config.wolf_kill_rule = "MAJORITY" THEN leading ELSE unanimous
    IN  IF chosen = {} THEN {None} ELSE chosen

\* The proposals name a seat, and yet the rule gives no kill.
WolvesDisagree(proposals) ==
    /\ \E w \in Seats : proposals[w] \in Seats
    /\ WolfConsensus(proposals) = {None}

-----------------------------------------------------------------------------
(* Orders round the table *)

\* A queue of speakers (speech_order from speech_idx on) is the set of seats
\* still to speak, the seat the walk starts from and its direction.
Queue(who, from, clockwise) == [who |-> who, from |-> from, clockwise |-> clockwise]
Ascending(who) == Queue(who, 0, TRUE)
Descending(who) == Queue(who, N - 1, FALSE)

Distance(queue, s) ==
    IF queue.clockwise THEN (s - queue.from) % N ELSE (queue.from - s) % N

\* The seat whose turn it is, as a set: empty when everybody has spoken.
NextSpeaker(queue) ==
    {s \in queue.who : \A t \in queue.who : Distance(queue, s) <= Distance(queue, t)}

Lowest(seats) == {s \in seats : \A t \in seats : s <= t}
Highest(seats) == {s \in seats : \A t \in seats : t <= s}

=============================================================================
