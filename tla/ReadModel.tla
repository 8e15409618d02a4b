----------------------------- MODULE ReadModel -----------------------------
(***************************************************************************)
(* The tables of Postgres that the commands of an operator and the         *)
(* retention job work on beside the services.  A table maps keys to rows;  *)
(* every statement is one step.                                            *)
(***************************************************************************)
EXTENDS Naturals, FiniteSets, Functions

CONSTANTS
    Tables,      \* tables there are
    MaxFaults,   \* bound: failed calls
    None

VARIABLES
    db,          \* db[table][key]: a row
    expired,     \* expired[table]: keys of rows older than their retention
    faults       \* calls failed so far

tables == <<db, expired>>

Keys(table) == DOMAIN db[table]

Put(table, key, row) ==
    /\ db' = [db EXCEPT ![table] = [k \in Keys(table) \cup {key} |->
                                       IF k = key THEN row ELSE @[k]]]
    /\ expired' = [expired EXCEPT ![table] = @ \ {key}]

DeleteExpired(table) ==
    /\ db' = [db EXCEPT ![table] = Restrict(@, Keys(table) \ expired[table])]
    /\ expired' = [expired EXCEPT ![table] = {}]

Fault == faults < MaxFaults /\ faults' = faults + 1

=============================================================================
