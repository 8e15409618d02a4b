------------------------ MODULE MCBriefOrchestrator ------------------------
(* Instances of BriefOrchestrator for TLC. *)
EXTENDS BriefOrchestrator, TLC

CONSTANTS r1, r2, bad, w1, w2

AllRequests == {r1, r2, bad}
BadRequests == {bad}

\* One request twice: the second message finds what the first one left.
DuplicateLog == <<r1, r1>>
\* The same with a message that does not deserialize in between.
MixedLog == <<r1, bad, r1>>

AllWorkers == {w1, w2}
WorkerSymmetry == Permutations(AllWorkers)

=============================================================================
