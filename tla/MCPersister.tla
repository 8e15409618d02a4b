---------------------------- MODULE MCPersister ----------------------------
(* Instances of Persister for TLC. *)
EXTENDS Persister, TLC

CONSTANTS p1, a, b, bad

OnePartition == {p1}
\* Events of two sources around a message that does not deserialize, so that
\* there are batches with two sources, with one, and without any event.
OneLog == (p1 :> <<a, bad, b>>)
EventSource == (a :> "rss") @@ (b :> "hackernews")
BadMessages == {bad}

=============================================================================
