------------------------------ MODULE MCMigrator ------------------------------
(* Three migrations; an old and a new deployment, for TLC. *)
EXTENDS Migrator

CONSTANTS old, new

\* Zero-padded names: every order agrees.
SameOrder == [m \in Name |-> m]

\* The old process has the first two migrations only.
Deployed == [p \in Process |-> IF p = old THEN Name \ {3} ELSE Name]
=============================================================================
