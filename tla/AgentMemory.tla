---------------------------- MODULE AgentMemory -----------------------------
(***************************************************************************)
(* What an LLM seat remembers of the events it is sent (agent/memory.py):  *)
(* every event becomes an entry; the prompt of a decision is given the     *)
(* newest of them and, of the older ones, those that tell most.            *)
(*                                                                         *)
(* A memory is a function of the events its seat has received, so it is    *)
(* no variable.  Left out: the texts, the private thoughts of the wolves,  *)
(* and the reflection on a round itself, since no round ever needs one     *)
(* (RoundsReflected).                                                      *)
(***************************************************************************)
EXTENDS Broadcast

CONSTANTS
    FreshnessK,     \* the newest entries, which are always in the context
    TopN            \* the older ones that are

ASSUME AgentMemoryAssumption == FreshnessK \in Nat \ {0} /\ TopN \in Nat

SCORE_4 == {"DEATH_ANNOUNCED", "NIGHT_RESOLVED", "PLAYER_EXILED", "HUNTER_SHOT", "WOLF_SELF_DESTRUCT"}
SCORE_3 == {"SHERIFF_ELECTED", "BADGE_PASSED", "SHERIFF_BADGE_LOST", "LAST_WORDS"}
SCORE_2 == {"WITCH_SAVED", "WITCH_POISONED", "WITCH_POTION_CONSUMED", "GUARD_PROTECTED",
            "WOLF_KILL_PROPOSED", "WOLF_KILL_DECIDED", "WOLF_KILL_REVOTE", "VOTE_RESULT"}

Score(e, seat, campaigning) ==
    CASE (e.type = "SEER_CHECKED" /\ e.seat = seat) \/ e.type = "ROLES_ASSIGNED" -> 5
      [] e.type \in SCORE_4 -> 4
      [] e.type \in SCORE_3 -> 3
      [] e.type = "PLAYER_SPOKE" ->
            IF e.note = "claims a role" THEN 3 ELSE IF campaigning THEN 2 ELSE 1
      [] e.type = "SHERIFF_CANDIDACY" -> IF e.note = "does not run" THEN 0 ELSE 1
      [] OTHER -> IF e.type \in SCORE_2 THEN 2 ELSE 1

\* _campaigning_after: the last change of phase or stage that was seen decides.
MutantForeverCampaigning(seen) ==
    \E i \in DOMAIN seen : \/ seen[i].type = "ELECTION_STAGE_CHANGED" /\ seen[i].to = "speech"
                           \/ IsPhase(seen[i]) /\ seen[i].to = "SHERIFF_PK"
Campaigning(seen) ==
    LET turns == {i \in DOMAIN seen : IsPhase(seen[i]) \/ seen[i].type = "ELECTION_STAGE_CHANGED"}
    IN  turns # {} /\ LET turn == seen[Max(turns)]
                      IN  turn.to = IF IsPhase(turn) THEN "SHERIFF_PK" ELSE "speech"

\* ingest: the events seen, in their order.
Entries(seen, seat) ==
    [i \in DOMAIN seen |->
        [round |-> RoundAt(seen, i),
         score |-> Score(seen[i], seat, Campaigning(SubSeq(seen, 1, i)))]]

\* _context_lines: the older entries by score, the earlier one first among equals, cut
\* to TopN and put back in their order; then the newest.
Context(entries) ==
    LET older == 1 .. Len(entries) - FreshnessK
        Before(i) == {j \in older : \/ entries[j].score > entries[i].score
                                    \/ entries[j].score = entries[i].score /\ j < i}
        picked == {i \in older : Cardinality(Before(i)) < TopN}
    IN  Numbers(picked \cup (DOMAIN entries \ older), 1, Len(entries))

\* _current_round and rounds_needing_reflection, before any reflection.
RoundsNeedingReflection(entries) ==
    LET rounds == {entries[i].round : i \in DOMAIN entries}
    IN  {r \in rounds : r > 0 /\ r < entries[Len(entries)].round}

\* The memory of an agent of the game.
Memory(a) == Entries([k \in DOMAIN got[a] |-> log[got[a][k]]], SeatOf[a])

=============================================================================
