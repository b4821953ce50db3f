---------------------------- MODULE WerewolfGame ----------------------------
(***************************************************************************)
(* The game that the rule engine promises to its players: day follows      *)
(* night, who may die when, when a dead hunter shoots, and when the game   *)
(* is over.  It says nothing of how seats are chosen, of votes, speeches   *)
(* or the badge.  Engine implements it (EngineProps!GameImplemented).      *)
(***************************************************************************)
EXTENDS GameConfig

VARIABLES
    stage,     \* the part of the day
    day,       \* the number of the night and of the day after it
    living,    \* the seats alive
    gun,       \* the dead hunter who still has its shot, or None
    doomed,    \* the seat that was poisoned this night, or None
    cutoff,    \* a wolf that blew itself up cut the day short
    result     \* the winner, or "none"

gameVars == <<stage, day, living, gun, doomed, cutoff, result>>

GameStages == {"night", "election", "dawn", "day", "dusk", "over"}

GameTypeOK ==
    /\ stage \in GameStages
    /\ day \in Nat
    /\ living \subseteq Seats
    /\ gun \in SeatOrNone
    /\ doomed \in SeatOrNone
    /\ cutoff \in BOOLEAN
    /\ result \in {"GOOD", "WOLF", "none"}

GameInit ==
    /\ stage = "night" /\ day = 1 /\ living = Seats
    /\ gun = None /\ doomed = None /\ cutoff = FALSE /\ result = "none"

-----------------------------------------------------------------------------
(* Where a stage leads, given who is alive then *)

Undecided == CheckWin(living') = "none"

\* One side has won.
Decided ==
    /\ stage' = "over"
    /\ ~Undecided /\ result' = CheckWin(living')
    /\ gun' = None
    /\ UNCHANGED <<day, doomed>>

\* The last day is over, and nobody has won.
TimeUp ==
    /\ stage' = "over"
    /\ Undecided /\ day >= config.max_rounds
    /\ gun' = None
    /\ UNCHANGED <<day, doomed, result>>

NightFalls ==
    /\ stage' = "night"
    /\ Undecided /\ day < config.max_rounds
    /\ day' = day + 1
    /\ gun' = None /\ doomed' = None
    /\ cutoff' = FALSE
    /\ UNCHANGED result

DayEnds(cut) == NightFalls \/ (cutoff' = cut /\ (Decided \/ TimeUp))

Daybreak ==
    /\ stage' = "day" /\ Undecided
    /\ gun' = None
    /\ cutoff' = FALSE
    /\ UNCHANGED <<day, doomed, result>>

\* After the dead of the night have been dealt with.
DayOrCutoff(cut) == IF cut THEN DayEnds(cut) ELSE (Decided /\ ~cutoff') \/ Daybreak

\* The dead of the night are announced: the poisoned, the wolves' victim, and
\* the wolf that blew itself up.  A victim that is a hunter and was not also
\* poisoned shoots before anything else.
Announce(victim, wolf, cut) ==
    LET shooter == IF victim \in Holders("HUNTER") \ {doomed} THEN victim ELSE None
    IN  /\ living' = living \ {victim, doomed, wolf}
        /\ \/ Decided /\ cutoff' = cut
           \/ /\ stage' = "dawn" /\ Undecided
              /\ gun' = shooter
              /\ cutoff' = cut
              /\ UNCHANGED <<day, doomed, result>>
           \/ shooter = None /\ DayOrCutoff(cut)

-----------------------------------------------------------------------------
Poisoned ==
    /\ stage = "night"
    /\ doomed' \in living
    /\ UNCHANGED <<stage, day, living, gun, cutoff, result>>

NightEnds ==
    /\ stage = "night"
    /\ \E victim \in living \cup {None} : Announce(victim, None, FALSE)

\* On the first day a sheriff is elected before the dead are announced.
ElectionStarts ==
    /\ stage = "night" /\ day = 1
    /\ stage' = "election"
    /\ UNCHANGED <<day, living, gun, doomed, cutoff, result>>

\* A wolf that blows itself up in the election cuts the day short.
ElectionEnds ==
    /\ stage = "election"
    /\ \E wolf \in (living \cap Wolves) \cup {None}, victim \in living \cup {None} :
          Announce(victim, wolf, wolf # None)

HunterShoots ==
    /\ gun # None
    /\ \E victim \in living \cup {None} : living' = living \ {victim}
    /\ gun' = None
    /\ UNCHANGED <<stage, day, doomed, cutoff, result>>

DawnEnds ==
    /\ stage = "dawn" /\ gun = None
    /\ UNCHANGED living
    /\ DayOrCutoff(cutoff)

Exiled ==
    /\ stage = "day"
    /\ \E s \in living :
          /\ living' = living \ {s}
          /\ gun' = IF Role[s] = "HUNTER" THEN s ELSE None
    /\ stage' = "dusk"
    /\ UNCHANGED <<day, doomed, cutoff, result>>

\* Nobody is exiled, or a wolf blows itself up.
NobodyExiledToday ==
    /\ stage = "day"
    /\ \E wolf \in (living \cap Wolves) \cup {None} : living' = living \ {wolf}
    /\ DayEnds(FALSE)

DuskEnds ==
    /\ stage = "dusk" /\ gun = None
    /\ UNCHANGED living
    /\ DayEnds(FALSE)

GameNext ==
    \/ Poisoned \/ NightEnds \/ ElectionStarts \/ ElectionEnds
    \/ HunterShoots \/ DawnEnds \/ Exiled \/ NobodyExiledToday \/ DuskEnds

GameSpec == GameInit /\ [][GameNext]_gameVars

=============================================================================
