----------------------------- MODULE MCEventStore -----------------------------
\* The event store for TLC.
EXTENDS EventStoreProps

CONSTANTS r1, r2

Pool == {r1, r2}
=============================================================================
