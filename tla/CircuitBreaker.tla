--------------------------- MODULE CircuitBreaker ---------------------------
(***************************************************************************)
(* The circuit breaker of packages/shared as operators on its state.  Its  *)
(* clock is abstracted to what isOpen compares: openUntil is 0 ("closed"), *)
(* in the future ("open") or has passed ("expired").                       *)
(***************************************************************************)
EXTENDS Naturals

CONSTANT Threshold      \* failureThreshold

ASSUME ThresholdAssumption == Threshold \in Nat \ {0}

Breaker == [failures : 0 .. Threshold - 1,
            until : {"closed", "open", "expired"},
            halfOpen : BOOLEAN]

NewBreaker == [failures |-> 0, until |-> "closed", halfOpen |-> FALSE]

\* What isOpen returns ...
IsOpen(b) == b.until = "open"

\* ... and what it leaves behind: an expired circuit becomes half-open.
AfterIsOpen(b) == [b EXCEPT !.halfOpen = @ \/ b.until = "expired"]

\* timeUntilClose is 0 from now on.
Elapsed(b) == [b EXCEPT !.until = IF @ = "open" THEN "expired" ELSE @]

\* Variant of RecordSuccess: the failures before it are still counted.
RecordSuccessKeeping(b) == [b EXCEPT !.until = "closed", !.halfOpen = FALSE]

RecordSuccess(b) == NewBreaker

Opened == [failures |-> 0, until |-> "open", halfOpen |-> FALSE]

\* Variant of RecordFailure: a failed probe counts like any other failure.
RecordFailureCounting(b) ==
    IF b.failures + 1 >= Threshold
      THEN Opened ELSE [b EXCEPT !.failures = @ + 1, !.halfOpen = FALSE]

\* A failed probe opens the circuit again, other failures add up.
RecordFailure(b) ==
    IF b.halfOpen \/ b.failures + 1 >= Threshold
      THEN Opened ELSE [b EXCEPT !.failures = @ + 1]

=============================================================================
