--------------------------- MODULE PlayerWindowProps ---------------------------
\* What a player may rely on when it submits an action.
EXTENDS PlayerWindow

\* A submission is told "ok" exactly when the engine took its action.  Nobody is
\* told WINDOW_CLOSED, or that its action was rejected, of an action that is
\* applied all the same, though deadline, submission and verdict fall into steps
\* of different tasks.
VerdictTrue == \A c \in DOMAIN calls : calls[c].verdict = "ok" <=> calls[c].applied

\* A late submission never becomes an action of the next window (issue #125): one
\* that names its prompt is applied in the window it came in only if it was meant
\* for that window.
LateNeverLands ==
    [][\A c \in DOMAIN calls :
        calls'[c].applied /\ ~calls[c].applied /\ calls[c].tag # None
            => calls[c].tag >= calls[c].window]_vars

\* The runner has come to the seat of c and finds it is no longer expected.
PassedOver(c) ==
    /\ pc = "next" /\ todo # {} /\ Seat = calls[c].seat
    /\ results[Seat] = c /\ ~StillExpected(Seat)

\* Every submission that a port accepts is told how it ended, even one that the
\* deadline overtook in the same tick, unless an earlier action of the same
\* window ended it.
VerdictArrives ==
    \A c \in 1..MaxCalls :
        (\E s \in Seats : pending[s] = c) ~> (c \in DOMAIN calls /\ (calls[c].verdict # "none" \/ PassedOver(c)))

\* Silent, late or stubborn players never stop the game: every window ends, in at
\* most MAX_REJECTIONS rejected actions and one default per seat.
GameGoesOn == <>(pc = "over")

=============================================================================
