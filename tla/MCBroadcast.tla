---------------------------- MODULE MCBroadcast -----------------------------
(***************************************************************************)
(* A short game: a night, a day, and a night that ends it.                 *)
(***************************************************************************)
EXTENDS BroadcastProps

Event(type, sees, voiced) ==
    [type |-> type, sees |-> sees, seat |-> None, to |-> None, round |-> 0,
     voiced |-> voiced, note |-> None]
Phase(to, sees) == [Event("PHASE_CHANGED", sees, FALSE) EXCEPT !.to = to]
Round(n) == [Event("ROUND_STARTED", "GM_ONLY", FALSE) EXCEPT !.round = n]

Stage(to) == [Event("ELECTION_STAGE_CHANGED", "PUBLIC", FALSE) EXCEPT !.to = to]

MCScript ==
    <<<<Event("GAME_CREATED", "PUBLIC", FALSE), Round(1), Phase("NIGHT_WEREWOLF", "GM_ONLY")>>,
      <<Event("WOLF_KILL_PROPOSED", "WOLVES", FALSE), Phase("NIGHT_SEER", "GM_ONLY")>>,
      <<[Event("SEER_CHECKED", "ROLE_SELF", FALSE) EXCEPT !.seat = "seer"],
        Phase("SHERIFF_ELECTION", "PUBLIC"), Stage("candidacy")>>,
      <<Event("SHERIFF_CANDIDACY", "PUBLIC", FALSE), Stage("speech")>>,
      <<Event("PLAYER_SPOKE", "PUBLIC", TRUE), Stage("withdraw")>>,
      <<Event("SHERIFF_ELECTED", "PUBLIC", FALSE), Event("DEATH_ANNOUNCED", "PUBLIC", FALSE),
        Phase("DAY_SPEECH", "PUBLIC")>>,
      <<Event("PLAYER_SPOKE", "PUBLIC", FALSE), Phase("VOTE", "PUBLIC")>>,
      <<Event("VOTE_RESULT", "PUBLIC", FALSE), Round(2), Phase("NIGHT_WEREWOLF", "GM_ONLY")>>,
      <<Event("WOLF_KILL_PROPOSED", "WOLVES", FALSE), Event("DEATH_ANNOUNCED", "PUBLIC", FALSE),
        Event("GAME_OVER", "PUBLIC", FALSE)>>>>

MCEyes == {"GM", "wolf"}
MCSeatOf == [a \in Agents |-> "seer"]

=============================================================================
