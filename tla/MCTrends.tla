----------------------------- MODULE MCTrends -----------------------------
(* An instance of Trends for TLC. *)
EXTENDS Trends, TLC

CONSTANTS m15, m60, ai, db, a, b, c, old, u

\* Two short windows to a long one.
BothWindows == <<m15, m60>>
Ticks == (m15 :> 1) @@ (m60 :> 2)
Allowed == <<ai, db>>
NoTopics == {}

\* An event published too long ago, one without url, and two with one url:
\* in different short buckets and in the same long one.
Messages == <<old, a, b, c>>
EventData ==
    (old :> [fetched |-> 0, published |-> -2, url |-> u, weight |-> 1, tags |-> {ai}])
 @@ (a :> [fetched |-> 0, published |-> None, url |-> None, weight |-> 1, tags |-> {ai}])
 @@ (b :> [fetched |-> 0, published |-> 0, url |-> u, weight |-> 2, tags |-> {ai, db}])
 @@ (c :> [fetched |-> 1, published |-> 0, url |-> u, weight |-> 1, tags |-> {ai}])

=============================================================================
