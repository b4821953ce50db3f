--------------------------- MODULE PlayerTabsProps ---------------------------
(***************************************************************************)
(* What a player sees of the windows of his seat.                          *)
(***************************************************************************)
EXTENDS PlayerTabs, PlayerWindowProps

\* Nothing is under way between the page and the endpoint.
Settled(t) ==
    /\ link[t] /\ up[t] = <<>> /\ down[t] = <<>> /\ serving[t] = None
    /\ \A c \in late[t] : Verdict(c) = "none"

\* The open window of its seat is what the page offers.
Shows(t) == Offered(form[t]) /\ form[t].prompt = prompt[SeatOf[t]]

\* The endpoint has acknowledged an action of a window that another seat ended: its
\* verdict is overdue, and the page says "accepted" to the prompt of a later one.
Hidden(t) ==
    form[t].accepted /\ \E c \in late[t] : Verdict(c) = "none" /\ calls[c].window < opened

\* Whatever the order in which prompts, verdicts, closings and the submissions of
\* other pages cross on the wire, and however often the connection breaks: a player
\* whose window is open is offered its form - the verdict on an earlier action does
\* not take it away, only the refusal of one does, or the late acknowledgement of one
\* that another seat made idle - and a form whose window is over stays only on a page
\* that submitted to it or was cut off while it showed it.
FormsTrue ==
    \A t \in Tabs :
      Settled(t) =>
        LET s == SeatOf[t]
        IN  /\ Open(s) => Shows(t) \/ prompt[s] = wiped[t] \/ Hidden(t)
            /\ Offered(form[t]) => form[t].prompt = prompt[s] \/ stale[t]

\* "Whether the prompt is cleared depends on action_result.ok alone, and only the
\* prompt that it answers is cleared" (head of store/turn.ts): a player whose window
\* is open is never left without its form.
NeverLockedOut ==
    \A t \in Tabs : Settled(t) /\ Open(SeatOf[t]) => Shows(t)

=============================================================================
