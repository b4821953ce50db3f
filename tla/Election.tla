------------------------------ MODULE Election ------------------------------
(***************************************************************************)
(* The election of the sheriff on the first day, before the dead of the    *)
(* night are announced: candidacy, campaign speeches, withdrawal, ballot,  *)
(* runoff, and the direction in which the day's speeches go.               *)
(***************************************************************************)
EXTENDS EngineFlow

InElection(stage) == phase = "SHERIFF_ELECTION" /\ election_stage = stage

(* What _validate_sheriff accepts *)
CanDeclare(s) == InElection("candidacy") /\ OnTurn(s)

CanConfirm(s) == InElection("withdraw") /\ OnTurn(s) /\ s \in sheriff_candidates

CanSetDirection(s) == InElection("direction") /\ OnTurn(s) /\ s = badge.seat

MutantVoteBeforeCampaign(s, t) ==
    /\ phase = "SHERIFF_PK" \/ InElection("vote")
    /\ OnTurn(s)
    /\ t \in sheriff_candidates
CanVoteSheriff(s, t) ==
    /\ phase = "SHERIFF_PK" \/ InElection("vote")
    /\ OnTurn(s) /\ ~SpeechQueuePending
    /\ s \notin sheriff_withdrawn \cup SheriffPkBarred
    /\ t \in sheriff_candidates

-----------------------------------------------------------------------------
(* Actions of the players *)

\* What no action of a player in the election touches.
ElectionFrame ==
    UNCHANGED <<controlVars, round, alive, powerVars, badge, pending_hunter, day_exiled, night,
                huntVars, voteVars>>

\* RUN_FOR_SHERIFF or WITHDRAW in the candidacy stage.
Declare(s, running) ==
    /\ CanDeclare(s)
    /\ sheriff_declared' = sheriff_declared \cup {s}
    /\ sheriff_candidates' = IF running THEN sheriff_candidates \cup {s} ELSE sheriff_candidates
    /\ UNCHANGED <<election_stage, sheriff_votes, sheriff_withdrawn, sheriff_pk_bystanders,
                   sheriff_confirmed, sheriff_speech_direction>>
    /\ ElectionFrame

\* The same actions in the withdrawal stage: stay, or withdraw for good.
Confirm(s, running) ==
    /\ CanConfirm(s)
    /\ sheriff_confirmed' = sheriff_confirmed \cup {s}
    /\ IF running
       THEN /\ sheriff_declared' = sheriff_declared \cup {s}
            /\ UNCHANGED <<sheriff_candidates, sheriff_withdrawn>>
       ELSE /\ sheriff_candidates' = sheriff_candidates \ {s}
            /\ sheriff_withdrawn' = sheriff_withdrawn \cup {s}
            /\ UNCHANGED sheriff_declared
    /\ UNCHANGED <<election_stage, sheriff_votes, sheriff_pk_bystanders, sheriff_speech_direction>>
    /\ ElectionFrame

VoteSheriff(s, t) ==
    /\ CanVoteSheriff(s, t)
    /\ sheriff_votes' = [sheriff_votes EXCEPT ![s] = t]
    /\ UNCHANGED <<election_stage, sheriff_candidates, sheriff_declared, sheriff_withdrawn,
                   sheriff_pk_bystanders, sheriff_confirmed, sheriff_speech_direction>>
    /\ ElectionFrame

SetDirection(s, d) ==
    /\ CanSetDirection(s)
    /\ sheriff_speech_direction' = d
    /\ election_stage' = "announce"
    /\ UNCHANGED <<sheriff_candidates, sheriff_declared, sheriff_votes, sheriff_withdrawn,
                   sheriff_pk_bystanders, sheriff_confirmed>>
    /\ ElectionFrame

ElectionAction ==
    \E s \in Seats :
        \/ \E running \in BOOLEAN : Declare(s, running) \/ Confirm(s, running)
        \/ \E t \in Seats : VoteSheriff(s, t)
        \/ \E d \in {"LEFT", "RIGHT"} : SetDirection(s, d)

-----------------------------------------------------------------------------
(* Steps of the engine (_advance_election) *)

\* Where the election stays in its phase, or starts the runoff.
StillElecting ==
    /\ SameRound(night)
    /\ UNCHANGED <<alive, badge, pending_hunter>>

\* The election is over: the night's dead are announced.
EndElection(b) ==
    /\ election_stage' = "none"
    /\ AnnounceAndContinueNight(alive, b, night)

\* SHERIFF_VOTE_STARTED: those who are no longer candidates stay outside.
SheriffVoteStarted(candidates) ==
    /\ sheriff_candidates' = candidates
    /\ sheriff_votes' = NoBallots
    /\ sheriff_pk_bystanders' = IF candidates \subseteq sheriff_candidates
                                THEN sheriff_pk_bystanders \cup (sheriff_candidates \ candidates)
                                ELSE sheriff_pk_bystanders

EnterWithdraw ==
    /\ election_stage' = "withdraw"
    /\ sheriff_confirmed' = {}
    /\ StillElecting
    /\ UNCHANGED <<controlVars, sheriff_candidates, sheriff_declared, sheriff_votes,
                   sheriff_withdrawn, sheriff_pk_bystanders, sheriff_speech_direction>>

\* _campaign_speech_order: the judge's coin may turn the order round.
CampaignSpeechOrders ==
    {Ascending(sheriff_candidates)} \cup
        (IF config.campaign_speech_order = "SEAT_ASC" THEN {} ELSE {Descending(sheriff_candidates)})

AllDeclared ==
    /\ SystemTurn /\ InElection("candidacy")
    /\ UNCHANGED <<powerVars, day_exiled>>
    /\ IF sheriff_candidates = {}
       THEN EndElection(BadgeLost(badge)) /\ UNCHANGED campaignVars
       ELSE IF config.campaign_speech_enabled
       THEN /\ election_stage' = "speech"
            /\ speech' \in CampaignSpeechOrders
            /\ StillElecting
            /\ UNCHANGED <<phase, resume_token, winner, campaignVars>>
       ELSE EnterWithdraw

CampaignOver ==
    /\ SystemTurn /\ InElection("speech")
    /\ UNCHANGED <<powerVars, day_exiled>>
    /\ EnterWithdraw

AllConfirmed ==
    /\ SystemTurn /\ InElection("withdraw")
    /\ UNCHANGED <<powerVars, day_exiled>>
    /\ IF sheriff_candidates = {} \/ SheriffElectorate = {}
       THEN EndElection(BadgeLost(badge)) /\ UNCHANGED campaignVars
       ELSE /\ election_stage' = "vote"
            /\ SheriffVoteStarted(sheriff_candidates)
            /\ StillElecting
            /\ UNCHANGED <<controlVars, sheriff_declared, sheriff_withdrawn, sheriff_confirmed,
                           sheriff_speech_direction>>

SheriffTied == Leaders(sheriff_votes, {})

SheriffVoteOver ==
    /\ SystemTurn
    /\ phase = "SHERIFF_PK" \/ InElection("vote")
    /\ UNCHANGED <<powerVars, day_exiled>>

\* _finish_election: a sheriff who decides on the order of speeches is asked
\* before the dead are announced.
Elect(s) ==
    /\ SheriffVoteOver
    /\ SheriffTied = {s}
    /\ UNCHANGED campaignVars
    /\ LET b == [seat |-> s, flags |-> (badge.flags \ {badge.seat}) \cup {s}]
       IN  IF config.speech_order_rule = "SHERIFF_DECIDES"
           THEN /\ EnterPhase("SHERIFF_ELECTION", "none", speech)
                /\ election_stage' = "direction"
                /\ badge' = b
                /\ SameRound(night)
                /\ UNCHANGED <<alive, pending_hunter>>
           ELSE EndElection(b)

MutantRunoffAgain ==
    /\ SheriffVoteOver
    /\ Cardinality(SheriffTied) > 1
    /\ EnterPhase("SHERIFF_PK", "none", Ascending(SheriffTied))
    /\ SheriffVoteStarted(SheriffTied)
    /\ StillElecting
    /\ UNCHANGED <<election_stage, sheriff_declared, sheriff_withdrawn, sheriff_confirmed,
                   sheriff_speech_direction>>
StartSheriffRunoff ==
    /\ SheriffVoteOver
    /\ Cardinality(SheriffTied) > 1 /\ phase = "SHERIFF_ELECTION"
    /\ EnterPhase("SHERIFF_PK", "none", Ascending(SheriffTied))
    /\ SheriffVoteStarted(SheriffTied)
    /\ StillElecting
    /\ UNCHANGED <<election_stage, sheriff_declared, sheriff_withdrawn, sheriff_confirmed,
                   sheriff_speech_direction>>

NobodyElected ==
    /\ SheriffVoteOver
    /\ SheriffTied = {} \/ (Cardinality(SheriffTied) > 1 /\ phase = "SHERIFF_PK")
    /\ EndElection(BadgeLost(badge))
    /\ UNCHANGED campaignVars

DirectionSet ==
    /\ SystemTurn /\ InElection("announce")
    /\ EndElection(badge)
    /\ UNCHANGED <<powerVars, day_exiled, campaignVars>>

ElectionStep ==
    \/ AllDeclared
    \/ CampaignOver
    \/ AllConfirmed
    \/ \E s \in Seats : Elect(s)
    \/ StartSheriffRunoff
    \/ NobodyElected
    \/ DirectionSet

=============================================================================
