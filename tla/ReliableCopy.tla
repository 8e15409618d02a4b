---------------------------- MODULE ReliableCopy ----------------------------
(***************************************************************************)
(* What the persister promises to the readers of raw_events and of the     *)
(* seen keys, and to the group that reads events.raw, without instances,   *)
(* batches, circuits or failures: events are stored and then marked, none  *)
(* of either is taken back, and a partition is retired in order, up to     *)
(* where every event is stored and marked.  A reported position vouches    *)
(* for the same, but may be older than one reported before.                *)
(***************************************************************************)
EXTENDS Naturals, Sequences

CONSTANTS Events, Partitions, Malformed, Log

VARIABLES
    kept,       \* the events stored
    marked,     \* the events marked as seen
    retired,    \* retired[p]: the messages of p that are not read again
    reported    \* reported[p]: the messages of p reported to be done

vars == <<kept, marked, retired, reported>>

Init ==
    /\ kept = {} /\ marked = {}
    /\ retired = [p \in Partitions |-> 0]
    /\ reported = [p \in Partitions |-> 0]

\* The first n messages of p hold no event that is not copied.
Copied(p, n) ==
    \A o \in 1 .. n : Log[p][o] \in Malformed \/ Log[p][o] \in kept \cap marked

Keep ==
    /\ kept' \in SUBSET Events /\ kept \subseteq kept'
    /\ UNCHANGED <<marked, retired, reported>>

Mark ==
    /\ marked' \in SUBSET kept /\ marked \subseteq marked'
    /\ UNCHANGED <<kept, retired, reported>>

Retire(p) ==
    /\ \E n \in retired[p] + 1 .. Len(Log[p]) :
          Copied(p, n) /\ retired' = [retired EXCEPT ![p] = n]
    /\ UNCHANGED <<kept, marked, reported>>

Report(p) ==
    /\ \E n \in 0 .. Len(Log[p]) :
          Copied(p, n) /\ reported' = [reported EXCEPT ![p] = n]
    /\ UNCHANGED <<kept, marked, retired>>

Next == Keep \/ Mark \/ \E p \in Partitions : Retire(p) \/ Report(p)

Spec == Init /\ [][Next]_vars

=============================================================================
