---------------------------- MODULE BriefPromise ----------------------------
(***************************************************************************)
(* What the brief service promises to whoever publishes requests and reads *)
(* summary.results, without workers, budgets, failures or redelivery: a    *)
(* request is decided once, every result published for it is that one      *)
(* decision, and the requests are retired in order, each after its result  *)
(* was published.  The three kinds of progress are conjuncts of a step,    *)
(* because one step of an instance may make several of them: a call that   *)
(* takes effect and still fails makes the consumer commit what it has.     *)
(***************************************************************************)
EXTENDS Naturals, Sequences

CONSTANTS Requests, Malformed, Log, None, Payload

VARIABLES
    answer,   \* the decision taken on a request, or None
    told,     \* the results published for it
    done      \* Log[1 .. done] is retired

vars == <<answer, told, done>>

Init ==
    /\ answer = [r \in Requests |-> None]
    /\ told = [r \in Requests |-> {}]
    /\ done = 0

\* A request is decided at most once.
Decide(r) ==
    /\ answer'[r] \in Payload \cup {None}
    /\ answer'[r] # answer[r] => answer[r] = None

\* A decision is published, possibly again.
Tell(r) ==
    \/ told'[r] = told[r]
    \/ answer[r] # None /\ told'[r] = told[r] \cup {answer[r]}

\* Requests are retired only when their results are out.
Retire ==
    \/ done' = done
    \/ /\ done' \in done + 1 .. Len(Log)
       /\ \A i \in 1 .. done' : Log[i] \in Malformed \/ told[Log[i]] # {}

Next ==
    /\ DOMAIN answer' = Requests /\ DOMAIN told' = Requests
    /\ \A r \in Requests : Decide(r) /\ Tell(r)
    /\ Retire

Spec == Init /\ [][Next]_vars

=============================================================================
