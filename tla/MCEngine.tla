------------------------------ MODULE MCEngine ------------------------------
(***************************************************************************)
(* Boards for the model checker: small deals and rule switches, chosen so  *)
(* that each run reaches what it is about.  A cfg picks one board.  Aim    *)
(* bounds the seats that shots, kills, votes... are aimed at, and          *)
(* max_rounds the length of a game.                                        *)
(***************************************************************************)
EXTENDS EngineClaims, Players

SeatedAs(roles) == [s \in 0 .. (Len(roles) - 1) |-> roles[s + 1]]

\* The default night order, of the roles that are on the board.
NightOrder(dealt) ==
    SelectSeq(<<"NIGHT_GUARD", "NIGHT_WEREWOLF", "NIGHT_WITCH", "NIGHT_SEER",
                "NIGHT_HUNTER_CONFIRM">>,
              LAMBDA p : \E s \in DOMAIN dealt : dealt[s] = NightRole[p])

\* The defaults of GameConfig (engine/config.py), but for the election and
\* the length of the game.
Rules(dealt) ==
    [night_order |-> NightOrder(dealt), max_rounds |-> 1,
     wolf_consensus_rounds |-> 2, sheriff_half_votes |-> 3,
     guard_plus_antidote_cancels |-> TRUE, win_condition |-> "KILL_SIDE",
     wolf_kill_rule |-> "UNANIMOUS_OR_NO_KILL", pk_voters |-> "NON_CANDIDATES_ONLY",
     speech_order_rule |-> "SHERIFF_DECIDES", last_words |-> "FIRST_NIGHT_ONLY",
     night_death_badge_window |-> TRUE, can_guard_self |-> TRUE,
     can_guard_same_target_consecutively |-> FALSE, allow_wolf_empty_knife |-> TRUE,
     allow_wolf_self_knife |-> TRUE, self_rescue_always |-> FALSE,
     self_rescue_first_night |-> TRUE, wolf_first_kill_priority |-> TRUE,
     sheriff_enabled |-> FALSE, election_before_first_death_announce |-> TRUE,
     wolf_selfdestruct_eats_badge |-> TRUE, campaign_speech_enabled |-> TRUE,
     campaign_speech_order |-> "JUDGE_ODD_EVEN", tie_rule |-> "PK_THEN_NO_EXILE",
     badge_flow_enabled |-> TRUE, badge_flow_max_length |-> 2,
     knows_kill_after_antidote_used |-> FALSE]

Aims(kill, guard, poisoned, shoot, vote, heir) ==
    [k \in AimKinds |->
        CASE k = "kill" -> kill [] k = "guard" -> guard [] k = "poison" -> poisoned
          [] k = "shoot" -> shoot [] k = "vote" -> vote [] OTHER -> heir]

\* The election, with three candidates and two voters or fewer, over the bodies
\* of a hunter that the witch may have poisoned; and the first day, under the
\* one-step rule for the badge.
Election_Role == SeatedAs(<<"WEREWOLF", "WITCH", "VILLAGER", "HUNTER", "VILLAGER">>)
Election_Aim == Aims({1, 3}, {}, {3}, {1}, {}, {1})
Election_Config ==
    [Rules(Election_Role) EXCEPT !.sheriff_enabled = TRUE, !.win_condition = "KILL_ALL",
            !.wolf_kill_rule = "MAJORITY", !.allow_wolf_empty_knife = FALSE,
            !.campaign_speech_order = "SEAT_ASC", !.speech_order_rule = "DEATH_NEXT",
            !.night_death_badge_window = FALSE, !.wolf_selfdestruct_eats_badge = FALSE]

\* The powers of the night, over two nights, with a runoff between them.
Night_Role == SeatedAs(<<"WEREWOLF", "WEREWOLF", "HUNTER", "WITCH">>)
Night_Aim == Aims({2}, {}, {0, 2}, {0}, {1, 2}, {})
Night_Config ==
    [Rules(Night_Role) EXCEPT !.max_rounds = 2, !.win_condition = "KILL_ALL",
            !.last_words = "ALWAYS_NIGHT",
            !.speech_order_rule = "DEATH_NEXT", !.tie_rule = "PK_THEN_NO_EXILE"]

\* The exile vote: runoff, idiot and guard, with a draw of lots; and wolves
\* who may disagree night after night.
Vote_Role == SeatedAs(<<"WEREWOLF", "IDIOT", "GUARD", "WITCH", "WEREWOLF">>)
Vote_Aim == Aims({1}, {1}, {}, {0}, {1, 2}, {})
Vote_Config ==
    [Rules(Vote_Role) EXCEPT !.max_rounds = 2, !.speech_order_rule = "ODD_EVEN_CLOCK",
            !.tie_rule = "PK_THEN_RANDOM", !.last_words = "N_EQUALS_WOLVES"]

\* One badge for two days: the sheriff dies by the knife, by the vote, by the
\* hunter's shot or by its own hand.
Badge_Role == SeatedAs(<<"WEREWOLF", "HUNTER", "SEER", "WEREWOLF">>)
Badge_Aim == Aims({1, 2}, {}, {}, {2}, {1}, {2})
Badge_Config ==
    [Rules(Badge_Role) EXCEPT !.max_rounds = 2, !.sheriff_enabled = TRUE,
            !.win_condition = "KILL_ALL",
            !.wolf_kill_rule = "RANDOM_PROPOSAL",
            !.pk_voters = "ALL_NON_PK"]

\* The board of KnifeWinsFirst.
Knife_Role == SeatedAs(<<"WEREWOLF", "VILLAGER", "WITCH">>)
Knife_Aim == Aims({1}, {}, {0}, {}, {}, {})
Knife_Config == [Rules(Knife_Role) EXCEPT !.max_rounds = 1]

=============================================================================
