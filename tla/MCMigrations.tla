---------------------------- MODULE MCMigrations ----------------------------
EXTENDS Migrations

\* The files whose order and live schema interact, in apply order.
CoreFiles == <<"widen-ids", "expiration", "events-data", "raw-strings", "utf8mb4", "first-seen">>
\* A blanket run, and the scoped rollouts of two files whose order is reversed.
BlanketOrScoped == {{}, {"utf8mb4"}, {"expiration"}}
AnyOrigin == {"empty", "legacy", "unrecorded", "retagged", "renamed"}
=============================================================================
