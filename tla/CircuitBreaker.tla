--------------------------- MODULE CircuitBreaker ---------------------------
(***************************************************************************)
(* The one circuit breaker of the process                                  *)
(* (resilience/circuit_breaker.py), as functions of its record: its state, *)
(* its consecutive failures, what is left of open_duration_ms and the      *)
(* trial calls admitted since it turned HALF_OPEN.  The methods are        *)
(* synchronous, so each of them is one step of the coroutine that calls it.*)
(***************************************************************************)
EXTENDS Integers, DomainStates

CONSTANTS
  Threshold,     \* failure_threshold
  OpenDuration,  \* open_duration_ms, in ticks of the clock
  TrialSlots     \* half_open_max_calls

ASSUME BreakerAssumption ==
  /\ Threshold \in Nat \ {0}
  /\ OpenDuration \in Nat \ {0}
  /\ TrialSlots \in Nat \ {0}

\* `failures` is compared with Threshold only, and kept at most that.
Breaker ==
  [state : DOMAIN CIRCUIT_TRANSITIONS, failures : 0..Threshold,
   cooldown : 0..OpenDuration, calls : 0..TrialSlots]

Closed == [state |-> "CLOSED", failures |-> 0, cooldown |-> 0, calls |-> 0]

\* The first `allow` after open_duration_ms turns an open breaker HALF_OPEN.
Looked(b) ==
  IF b.state = "OPEN" /\ b.cooldown = 0
  THEN [b EXCEPT !.state = "HALF_OPEN", !.calls = 0]
  ELSE b

Trial(b) == Looked(b).state = "HALF_OPEN" /\ Looked(b).calls < TrialSlots

\* `allow`: its answer, and the breaker it leaves.
Allows(b) == b.state = "CLOSED" \/ Trial(b)

AfterAllow_Uncounted(b) == Looked(b)

AfterAllow(b) == IF Trial(b) THEN [Looked(b) EXCEPT !.calls = @ + 1] ELSE Looked(b)

AfterSuccess_Late(b) == Closed

\* `record_success`: too late for an open breaker.
AfterSuccess(b) == IF b.state = "OPEN" THEN b ELSE Closed

Opened(b) == [b EXCEPT !.state = "OPEN", !.cooldown = OpenDuration, !.calls = 0]

AfterFailure_ClosedOnly(b) ==
  LET n == IF b.failures < Threshold THEN b.failures + 1 ELSE Threshold
      counted == [b EXCEPT !.failures = n]
  IN  IF b.state = "CLOSED" /\ n = Threshold THEN Opened(counted) ELSE counted

\* `record_failure`: an open breaker keeps the time it was opened at.
AfterFailure(b) ==
  LET n == IF b.failures < Threshold THEN b.failures + 1 ELSE Threshold
      counted == [b EXCEPT !.failures = n]
  IN  IF b.state = "HALF_OPEN" \/ (b.state = "CLOSED" /\ n = Threshold)
      THEN Opened(counted) ELSE counted

AfterTick(b) == IF b.cooldown > 0 THEN [b EXCEPT !.cooldown = @ - 1] ELSE b

=============================================================================
