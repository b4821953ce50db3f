-------------------------------- MODULE Feed --------------------------------
(***************************************************************************)
(* What a reader of a game is promised: he reads, in order, what he may    *)
(* see of one growing record, without a gap and without a repetition,      *)
(* whenever he comes, goes and comes back.                                 *)
(***************************************************************************)
EXTENDS Naturals, Sequences, SequencesExt

CONSTANTS
    Readers,
    Visible(_, _)   \* whether an event may be seen with the given eyes

VARIABLES
    log,        \* the record
    viewer,     \* of each reader: with whose eyes he looks
    read        \* of each reader: the numbers of the events he has read

feedVars == <<log, viewer, read>>

\* The numbers of the events of a record that may be seen.
View(record, eyes) ==
    FlattenSeq([i \in DOMAIN record |-> IF Visible(record[i], eyes) THEN <<i>> ELSE <<>>])

FeedInit == log = <<>> /\ read = [c \in Readers |-> <<>>]

\* He reads on, or starts afresh.
ReadsOn(c) == IsPrefix(read[c], read'[c]) /\ IsPrefix(read'[c], View(log', viewer[c]))
FeedNext ==
    /\ IsPrefix(log, log')
    /\ \A c \in Readers : ReadsOn(c) \/ read'[c] = <<>>
    /\ UNCHANGED viewer

FeedSpec == FeedInit /\ [][FeedNext]_feedVars

=============================================================================
