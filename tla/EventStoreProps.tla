---------------------------- MODULE EventStoreProps ----------------------------
\* The properties of the event store, and the store as an implementation of
\* EventLog: the log is the complete lines of the file.
EXTENDS EventStore

\* Whatever the interleaving of the runner with readers and deletions, and
\* wherever a failed write, a crash or a power failure hits, the file behaves as
\* one atomic log: what a reader is given is the log as it is when his answer is
\* fixed, and while the process lives an event once written is lost only by a
\* deletion; a restart may also take records from the end.
Log == INSTANCE EventLog WITH Callers <- Readers, log <- file.lines
LogImplemented == Log!Spec

\* No failure leaves a file the store then refuses as corrupt (_load_from_disk):
\* its lines are the meta record and a gapless sequence of events, because what
\* an interrupted write left is removed before anything is written behind it.
FileReadable == Readable(file.lines)

\* Between two calls a cached game is what the file says ("the disk is the
\* truth"): a cache that outlives its file, or lacks an event of it, answers
\* wrongly until the process ends.
CacheIsFile == lock = NoOne /\ cache # <<>> => cache = file.lines

\* No reader makes the runner's append fail the check of its seq (issue #138):
\* a stale list put into the cache behind the runner's back would stop the game.
NoSeqConflict == stopped # "conflict"

=============================================================================
