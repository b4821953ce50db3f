---------------------------- MODULE EngineHistory ----------------------------
(***************************************************************************)
(* The engine with a memory of its own past: properties that relate a      *)
(* state to what happened nights or phases before.  The history variables  *)
(* never influence a step.                                                 *)
(***************************************************************************)
EXTENDS EngineProps

VARIABLES
    used,    \* used[s]: the nights on which seat s used each potion
    owed,    \* seats that have a right to last words and have not had the floor
    unheard  \* seats that have yet to speak before the coming ballot

historyVars == <<vars, used, owed, unheard>>

NobodyUsed == [save |-> {}, poison |-> {}]

HistoryInit ==
    /\ Init
    /\ used = [s \in Seats |-> NobodyUsed]
    /\ owed = {}
    /\ unheard = {}

\* The seat that acted in the night phase of this step.
Actor(s) == s \in acted_seats' \ acted_seats

Died == alive \ alive'

\* The seat that has just spoken its last words, or used its turn for the badge.
Floored == IF phase = "LAST_WORDS" THEN speech.who \ speech'.who ELSE {}

\* The dead of the night, if the board gives them last words, and the exiled.
Owed ==
    IF phase' = "EXILE" THEN Died
    ELSE IF phase \in NightPhases \cup ElectionPhases /\ Died # {}
    THEN NightLastWords(night'.deaths) ELSE {}

\* Those who must be heard before the ballot that a step leads up to.
Speakers ==
    IF phase' # phase
    THEN CASE phase' = "DAY_SPEECH" -> alive'
           [] phase' = "VOTE_PK" -> vote_candidates'
           [] phase' = "SHERIFF_PK" -> sheriff_candidates'
           [] phase' = "VOTE" -> unheard
           [] OTHER -> {}
    ELSE unheard

HistoryNext ==
    /\ Next
    /\ used' = [s \in Seats |->
                  [save |-> used[s].save \cup
                        {r \in {round} : Actor(s) /\ night'.witch_save # night.witch_save},
                   poison |-> used[s].poison \cup
                        {r \in {round} :
                            Actor(s) /\ night'.witch_poison_target # night.witch_poison_target}]]
    /\ owed' = (owed \cup Owed) \ Floored
    /\ unheard' = Speakers \ IF phase' = phase THEN speech.who \ speech'.who ELSE {}

HistorySpec == HistoryInit /\ [][HistoryNext]_historyVars

HistoryFairSpec == HistorySpec /\ WF_vars(PlayerAction \/ SystemStep)

-----------------------------------------------------------------------------
\* A witch has one bottle of each kind for the whole game: no seat saves on
\* two nights, or poisons on two nights.  The antidote is consumed when the
\* night is resolved, steps after it was used.
OneBottleEach ==
    \A s \in Seats : Cardinality(used[s].save) <= 1 /\ Cardinality(used[s].poison) <= 1

\* Whoever was exiled, and whoever died in a night whose dead may speak, has
\* had its last words when the next day or night begins, whether or not a
\* hunter's shot, the badge or a cut-off day came in between.
LastWordsHeard == phase \in NightPhases \cup {"DAY_SPEECH"} => owed = {}

\* Nobody votes before everybody who may speak has spoken: all the living in
\* the morning, the tied before a runoff.
HeardBeforeVote ==
    unheard # {} =>
        /\ phase = "VOTE_PK" => votes = NoBallots
        /\ phase = "SHERIFF_PK" => sheriff_votes = NoBallots
        /\ phase # "VOTE"

=============================================================================
