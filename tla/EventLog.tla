-------------------------------- MODULE EventLog --------------------------------
\* What the event store promises about one game, whatever its files, cache and
\* threads do: a log that starts with the meta record, grows by the next event
\* and by nothing else, is read as it is, and is lost only by a deletion or,
\* from its end, by a restart.
\* Record 0 is the meta record and record k the event whose seq is k; the empty
\* log is a game that does not exist.  The store in memory (InMemoryEventStore) is
\* this log as it stands, without its failures.
EXTENDS Naturals, Sequences

CONSTANTS
    Callers     \* the threads that use the store

VARIABLES
    log,        \* the records of the game
    answer      \* the records last returned to each caller
vars == <<log, answer>>

NotFound == <<>>
WithNext == Append(log, Len(log))
Prefixes(s) == {SubSeq(s, 1, n) : n \in 0..Len(s)}

Init == log = NotFound /\ answer = [c \in Callers |-> NotFound]

\* create_game, and append of the next event.
Extend == log' = WithNext /\ UNCHANGED answer

Delete == log' = NotFound /\ UNCHANGED answer

Read(c) == answer' = [answer EXCEPT ![c] = log] /\ UNCHANGED log

\* A crash may happen before or after the record that was being written is
\* complete; a power failure may also take records from the end.
Restart ==
    /\ log' \in Prefixes(WithNext)
    /\ answer' = [c \in Callers |-> NotFound]

Next == Extend \/ Delete \/ Restart \/ \E c \in Callers : Read(c)

Spec == Init /\ [][Next]_vars

=============================================================================
