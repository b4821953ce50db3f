----------------------------- MODULE MCPlayerTabs -----------------------------
\* Two seats, of which the first may blow itself up; its player is at a page.
EXTENDS PlayerTabsProps

Table == 0..1
Wolves == {0}
Pages == [t \in {"page"} |-> 1]

\* Bound: a third window is looked at where an action has been left without a verdict.
ThirdWindow ==
    windows < 3 \/ \E c \in DOMAIN calls : calls[c].window = 1 /\ calls[c].verdict = "none"
=============================================================================
