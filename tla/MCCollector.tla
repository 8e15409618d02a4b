---------------------------- MODULE MCCollector ----------------------------
(* An instance of Collector for TLC. *)
EXTENDS Collector, TLC

CONSTANTS f1, f2

\* Three posts of which two are shown, so that a checkpoint can be lost sight
\* of; a second feed, whose one post an earlier feed's checkpoint gives way to.
TwoFeeds == <<f1, f2>>
PostCounts == (f1 :> 3) @@ (f2 :> 2)
GatedItems == {<<f1, 1>>}
NoText == {<<f2, 1>>}
AllKinds == {"rss", "lobsters", "new", "ranked"}

=============================================================================
