----------------------------- MODULE RemoteCall -----------------------------
(***************************************************************************)
(* The remote calls of the sessions: `_SessionRun._call` with its failure  *)
(* policy (orchestration/protocol_orchestrator.py, resilience/), the HTTP  *)
(* provider that makes them and polls for a reply (transport/http_base.py, *)
(* transport/providers/generic_http.py), the guard that abandons them      *)
(* (transport/base.py) and the circuit breaker that all sessions share.    *)
(*                                                                         *)
(* A session has at most one call under way.  A coroutine that runs is     *)
(* alone until it awaits: "ask" and "askAgain" are where it holds the      *)
(* event loop.  Time is counted down, and a timer may be served late.      *)
(***************************************************************************)
EXTENDS CircuitBreaker, FiniteSets, TLC

CONSTANTS
  Callers,      \* the sessions with a loop
  MaxAttempts,  \* retry.max_attempts
  BaseDelay,    \* retry.base_delay_ms, in ticks
  MaxDelay,     \* retry.max_delay_ms, in ticks
  RetryAfter,   \* the Retry-After hints of the server, 0 for none, in ticks
  ReplyTimeout, \* transport.reply_timeout_ms, in ticks
  PollInterval  \* transport.poll_interval_ms, in ticks

ASSUME RetryAssumption ==
  /\ MaxAttempts \in Nat \ {0}
  /\ BaseDelay \in Nat
  /\ MaxDelay \in Nat
  /\ RetryAfter \subseteq Nat
  /\ ReplyTimeout \in Nat
  /\ PollInterval \in Nat \ {0}

VARIABLES
  breaker,
  pc,        \* where each session's call is, "idle" between two calls
  attempt,   \* attempt under way, from 1
  timer,     \* what is left of its wait
  reads,     \* the sessions whose call is wait_for_reply
  left,      \* what is left of its reply timeout
  answer,    \* what its transport task ended with
  token,     \* the sessions whose interruption token is cancelled
  outcome,   \* how the last call ended
  trials     \* history: the calls admitted since the breaker turned HALF_OPEN

vars == <<breaker, pc, attempt, timer, reads, left, answer, token, outcome, trials>>

Outcomes ==
  {"none", "ok", "interrupted", "rotate", "pause", "max_attempts_exhausted",
   "circuit_open", "non_retryable"}

\* The error of a request that brought no response (`_exception_error`).
Unsent ==
  ("no_answer" :> "TIMEOUT_ERROR") @@ ("refused" :> "NETWORK_ERROR")
  @@ ("client_error" :> "SYSTEM_ERROR")

\* `classify_error`: the error of a response that is not one of the expected statuses.
ByStatus ==
  [response \in {"413", "context_window_exceeded"} |-> "MODEL_CONTEXT_WINDOW_ERROR"]
  @@ ("401" :> "AUTHN_ERROR") @@ ("403" :> "AUTHZ_ERROR") @@ ("404" :> "SYSTEM_ERROR")
  @@ ("408" :> "TIMEOUT_ERROR") @@ ("429" :> "RATE_LIMIT_ERROR")
  @@ ("500" :> "TRANSIENT") @@ ("502" :> "NETWORK_ERROR") @@ ("504" :> "TIMEOUT_ERROR")
  @@ ("302" :> "MODEL_PROTOCOL_ERROR")

\* An expected status with a body that is not the promised one (`_parsing`, `parse_post`).
Misread == [response \in {"not_json", "not_accepted"} |-> "MODEL_PROTOCOL_ERROR"]

ErrorOf == Unsent @@ ByStatus @@ Misread

\* `_feeds_breaker`: transport failures, and the SYSTEM_ERROR that is transient.  The same are
\* retried: `_is_policy_retryable`.
BREAKER_FED_ERROR_TYPES == {"NETWORK_ERROR", "TIMEOUT_ERROR", "RATE_LIMIT_ERROR", "TRANSIENT"}

\* What the policy tells apart: the hint of a 429, the errors that pause or rotate.
Kind(type) ==
  CASE type = "RATE_LIMIT_ERROR" -> "limited"
    [] type \in BREAKER_FED_ERROR_TYPES \ {"RATE_LIMIT_ERROR"} -> "transport"
    [] type \in {"AUTHN_ERROR", "MODEL_CONTEXT_WINDOW_ERROR"} -> type
    [] OTHER -> "other"

\* `_send`: what a request comes back with.
Classified ==
  [response \in {"accepted"} \cup DOMAIN ErrorOf |->
     IF response = "accepted" THEN "ok" ELSE Kind(ErrorOf[response])]

Answers == {Classified[response] : response \in DOMAIN Classified}

Positions == {"idle", "ask", "wait", "askAgain", "flight", "poll", "answered", "sleep"}

Init ==
  /\ breaker = Closed
  /\ pc = [c \in Callers |-> "idle"]
  /\ attempt = [c \in Callers |-> 0]
  /\ timer = [c \in Callers |-> 0]
  /\ reads = {}
  /\ left = [c \in Callers |-> 0]
  /\ answer = [c \in Callers |-> "none"]
  /\ token = {}
  /\ outcome = [c \in Callers |-> "none"]
  /\ trials = {}

\* No coroutine holds the event loop.
Free == \A c \in Callers : pc[c] \notin {"ask", "askAgain"}

Goto(c, p) == pc' = [pc EXCEPT ![c] = p]

Ends(c, o) ==
  /\ Goto(c, "idle")
  /\ outcome' = [outcome EXCEPT ![c] = o]
  /\ attempt' = [attempt EXCEPT ![c] = 0]

\* `allow` for the session c.
AskBreaker(c) ==
  /\ breaker' = AfterAllow(breaker)
  /\ trials' = IF ~Trial(breaker) THEN trials
               ELSE IF breaker.state = "OPEN" THEN {c} ELSE trials \cup {c}

-----------------------------------------------------------------------------
(* A session with a loop makes its next call; one whose call failed ended, *)
(* and its loop is another's from here on.  A loop goes from a good answer *)
(* to its next call whatever its token.                                    *)

Call(c) ==
  /\ Free
  /\ pc[c] = "idle"
  /\ c \notin token \/ outcome[c] = "ok"
  /\ Goto(c, "ask")
  /\ attempt' = [attempt EXCEPT ![c] = 1]
  /\ outcome' = [outcome EXCEPT ![c] = "none"]
  /\ reads' \in {reads \cup {c}, reads \ {c}}
  /\ UNCHANGED <<breaker, timer, left, answer, token, trials>>

Stopped(c) ==
  /\ pc[c] = "ask"
  /\ c \in token
  /\ Ends(c, "interrupted")
  /\ UNCHANGED <<breaker, timer, reads, left, answer, token, trials>>

\* The call leaves: nothing is awaited between `allow` and the transport.  `_wait` sets its
\* deadline then.
Sent(c) ==
  /\ pc[c] \in {"ask", "askAgain"}
  /\ c \notin token
  /\ Allows(breaker)
  /\ AskBreaker(c)
  /\ Goto(c, "flight")
  /\ left' = [left EXCEPT ![c] = IF c \in reads THEN ReplyTimeout ELSE 0]
  /\ UNCHANGED <<attempt, timer, reads, answer, token, outcome>>

\* `_ensure_breaker_allows` waits once, open_duration_ms or what is left of the budget.
Waits(c) ==
  /\ pc[c] = "ask"
  /\ c \notin token
  /\ ~Allows(breaker)
  /\ AskBreaker(c)
  /\ \E w \in 0..OpenDuration :
       /\ timer' = [timer EXCEPT ![c] = w]
       /\ Goto(c, IF w = 0 THEN "askAgain" ELSE "wait")
  /\ UNCHANGED <<attempt, reads, left, answer, token, outcome>>

-----------------------------------------------------------------------------
(* `FailureManager.handle`: record, feed the breaker, decide.              *)

CanRetry(n) == n < MaxAttempts

Delay(n) ==
  LET exponential == BaseDelay * 2 ^ (n - 1)
  IN  IF exponential < MaxDelay THEN exponential ELSE MaxDelay

\* A failure of the retried types, with the breaker fed first; `_interruptible_sleep` of no
\* delay does not sleep.
RetryOrFail(c, hints) ==
  LET fed == AfterFailure(breaker)
  IN  IF ~CanRetry(attempt[c])
      THEN /\ Ends(c, "max_attempts_exhausted")
           /\ breaker' = fed
           /\ UNCHANGED timer
      ELSE IF ~Allows(fed)
      THEN /\ Ends(c, "circuit_open")
           /\ breaker' = AfterAllow(fed)
           /\ UNCHANGED timer
      ELSE IF c \in token
      THEN /\ Ends(c, "interrupted")
           /\ breaker' = AfterAllow(fed)
           /\ UNCHANGED timer
      ELSE /\ breaker' = AfterAllow(fed)
           /\ \E hint \in hints :
                LET d == IF hint > Delay(attempt[c]) THEN hint ELSE Delay(attempt[c])
                IN  /\ timer' = [timer EXCEPT ![c] = d]
                    /\ Goto(c, IF d = 0 THEN "ask" ELSE "sleep")
           /\ attempt' = [attempt EXCEPT ![c] = @ + 1]
           /\ UNCHANGED outcome

\* The result of the transport task is taken once.
Taken(c) == answer' = [answer EXCEPT ![c] = "none"]

\* A trial belongs to the HALF_OPEN period it was admitted in.
TrialsOf(b) == IF b.state = "HALF_OPEN" /\ breaker.state = "HALF_OPEN" THEN trials ELSE {}

Refused_WaitsAgain(c) ==
  /\ pc[c] = "askAgain"
  /\ c \notin token
  /\ ~Allows(breaker)
  /\ breaker' = AfterAllow(breaker)
  /\ timer' = [timer EXCEPT ![c] = OpenDuration]
  /\ Goto(c, "wait")
  /\ UNCHANGED <<attempt, reads, left, answer, token, outcome, trials>>

\* NETWORK_ERROR / CIRCUIT_OPEN: a refused call is handled as a failed one.
Refused(c) ==
  /\ pc[c] = "askAgain"
  /\ c \notin token
  /\ ~Allows(breaker)
  /\ RetryOrFail(c, {0})
  /\ trials' = TrialsOf(breaker')
  /\ UNCHANGED <<reads, left, answer, token>>

TransportFails(c) ==
  /\ Free
  /\ pc[c] = "answered"
  /\ answer[c] \in {"transport", "limited"}
  /\ RetryOrFail(c, IF answer[c] = "limited" THEN RetryAfter ELSE {0})
  /\ trials' = TrialsOf(breaker')
  /\ Taken(c)
  /\ UNCHANGED <<reads, left, token>>

Succeeds(c) ==
  /\ Free
  /\ pc[c] = "answered"
  /\ answer[c] = "ok"
  /\ breaker' = AfterSuccess(breaker)
  /\ trials' = TrialsOf(breaker')
  /\ Ends(c, "ok")
  /\ Taken(c)
  /\ UNCHANGED <<timer, reads, left, token>>

Decision ==
  [a \in {"AUTHN_ERROR", "MODEL_CONTEXT_WINDOW_ERROR", "other", "abandoned"} |->
     CASE a = "AUTHN_ERROR" -> "pause"
       [] a = "MODEL_CONTEXT_WINDOW_ERROR" -> "rotate"
       [] a = "abandoned" -> "interrupted"
       [] OTHER -> "non_retryable"]

\* Failures that neither feed the breaker nor are retried.
Concludes(c) ==
  /\ Free
  /\ pc[c] = "answered"
  /\ answer[c] \in DOMAIN Decision
  /\ Ends(c, Decision[answer[c]])
  /\ Taken(c)
  /\ UNCHANGED <<breaker, timer, reads, left, token, trials>>

-----------------------------------------------------------------------------
(* The remote endpoint, the clock and the user.                            *)

\* `InFlightGuard.run`: the task of the call is over and its caller can be served.
Lands(c, result) ==
  /\ answer' = [answer EXCEPT ![c] = result]
  /\ Goto(c, "answered")

\* A request is bounded by its timeout, which is a transport failure.
Answered(c) ==
  /\ Free
  /\ pc[c] = "flight"
  /\ \E response \in DOMAIN Classified : Lands(c, Classified[response])
  /\ left' = [left EXCEPT ![c] = 0]
  /\ UNCHANGED <<breaker, attempt, timer, reads, token, outcome, trials>>

PollDelay(c) == IF PollInterval < left[c] THEN PollInterval ELSE left[c]

\* `_wait`: the model has not answered yet; MODEL_GET_TIMEOUT once the deadline is reached.
NoMessageYet(c) ==
  /\ Free
  /\ pc[c] = "flight" /\ c \in reads
  /\ IF left[c] > 0
     THEN /\ timer' = [timer EXCEPT ![c] = PollDelay(c)]
          /\ Goto(c, "poll")
          /\ UNCHANGED answer
     ELSE /\ Lands(c, Kind("TIMEOUT_ERROR"))
          /\ UNCHANGED timer
  /\ UNCHANGED <<breaker, attempt, reads, left, token, outcome, trials>>

\* The next request of `_wait` does not ask the breaker.
Polls(c) ==
  /\ Free
  /\ pc[c] = "poll" /\ timer[c] = 0
  /\ Goto(c, "flight")
  /\ UNCHANGED <<breaker, attempt, timer, reads, left, answer, token, outcome, trials>>

\* A coroutine whose transport task is done is served before the clock moves on.
Tick ==
  /\ Free
  /\ \A c \in Callers : pc[c] # "answered"
  /\ breaker.cooldown > 0 \/ \E c \in Callers : timer[c] > 0 \/ left[c] > 0
  /\ breaker' = AfterTick(breaker)
  /\ timer' = [c \in Callers |-> IF timer[c] > 0 THEN timer[c] - 1 ELSE 0]
  /\ left' = [c \in Callers |-> IF left[c] > 0 THEN left[c] - 1 ELSE 0]
  /\ UNCHANGED <<pc, attempt, reads, answer, token, outcome, trials>>

\* A wait ends at its term or with the token, which is looked at again either way.
Wakes(c) ==
  /\ Free
  /\ pc[c] \in {"wait", "sleep"}
  /\ timer[c] = 0 \/ c \in token
  /\ timer' = [timer EXCEPT ![c] = 0]
  /\ IF c \in token THEN Ends(c, "interrupted")
     ELSE /\ Goto(c, IF pc[c] = "wait" THEN "askAgain" ELSE "ask")
          /\ UNCHANGED <<attempt, outcome>>
  /\ UNCHANGED <<breaker, reads, left, answer, token, trials>>

\* `InFlightGuard.abandon`: the transport tasks that are not done, whoever awaits them.
Abandoned == {c \in Callers : pc[c] \in {"flight", "poll"}}

\* The handler cancels the token of c and abandons the calls in flight.
Interrupt(c) ==
  /\ Free
  /\ c \notin token
  /\ token' = token \cup {c}
  /\ answer' = [d \in Callers |-> IF d \in Abandoned THEN "abandoned" ELSE answer[d]]
  /\ pc' = [d \in Callers |-> IF d \in Abandoned THEN "answered" ELSE pc[d]]
  /\ timer' = [d \in Callers |-> IF d \in Abandoned THEN 0 ELSE timer[d]]
  /\ left' = [d \in Callers |-> IF d \in Abandoned THEN 0 ELSE left[d]]
  /\ UNCHANGED <<breaker, attempt, reads, outcome, trials>>

\* READY: the session's next request runs under a fresh token.
Renewed(c) ==
  /\ Free
  /\ c \in token
  /\ pc[c] = "idle"
  /\ token' = token \ {c}
  /\ outcome' = [outcome EXCEPT ![c] = "none"]
  /\ UNCHANGED <<breaker, pc, attempt, timer, reads, left, answer, trials>>

-----------------------------------------------------------------------------
CallStep(c) ==
  \/ Stopped(c)
  \/ Sent(c)
  \/ Waits(c)
  \/ Refused(c)
  \/ TransportFails(c)
  \/ Succeeds(c)
  \/ Concludes(c)
  \/ Wakes(c)
  \/ Polls(c)

Responds(c) == Answered(c) \/ NoMessageYet(c)

Next ==
  \/ \E c \in Callers : CallStep(c) \/ Call(c) \/ Responds(c) \/ Interrupt(c) \/ Renewed(c)
  \/ Tick

Spec == Init /\ [][Next]_vars

(* The queue of the event loop is first in, first out: a coroutine that    *)
(* can proceed is served although others hold the loop in between.  Every  *)
(* request has a timeout and the clock advances.  Nothing makes a session  *)
(* call, nor the user interrupt.                                           *)
Fairness ==
  /\ \A c \in Callers : SF_vars(CallStep(c)) /\ SF_vars(Responds(c))
  /\ SF_vars(Tick)

FairSpec == Spec /\ Fairness

-----------------------------------------------------------------------------
(* Properties *)

\* The breaker and the position of each call (`CircuitBreaker`, `_call`): no call is tried more
\* than max_attempts times.
TypeOK ==
  /\ breaker \in Breaker
  /\ pc \in [Callers -> Positions]
  /\ attempt \in [Callers -> 0..MaxAttempts]
  /\ timer \in [Callers -> Nat]
  /\ reads \subseteq Callers
  /\ left \in [Callers -> 0..ReplyTimeout]
  /\ answer \in [Callers -> Answers \cup {"none", "abandoned"}]
  /\ token \subseteq Callers
  /\ outcome \in [Callers -> Outcomes]
  /\ trials \subseteq Callers

\* While the breaker is HALF_OPEN, at most half_open_max_calls of the calls it let through are on
\* their way, whatever the sessions that wait for it do (`allow`).
TrialsBounded ==
  breaker.state = "HALF_OPEN" =>
    Cardinality({c \in trials : pc[c] \in {"flight", "poll", "answered"}}) <= TrialSlots

\* A breaker never refuses for ever a session that waits for it, although a trial that ends in a
\* 401, in a refused message or abandoned gives back no slot: the refusal itself reopens it.
BreakerHeals ==
  []<>(\E c \in Callers : pc[c] = "askAgain") => []<>Allows(breaker)

\* No call stays in its retry loop: the wait for the breaker, the attempts and the delays end.
CallEnds == \A c \in Callers : pc[c] = "ask" ~> pc[c] = "idle"

\* Whatever the order in which the calls of several sessions are answered, no step of the breaker
\* leaves its transition table: `_transition` never raises.
BreakerFollowsTable ==
  [][breaker'.state # breaker.state => breaker'.state \in CIRCUIT_TRANSITIONS[breaker.state]]_vars

\* protocol_orchestrator.py:441: a loop that stops silently is one the InterruptionHandler cleans
\* up after.
SilentStopIsCleaned == \A c \in Callers : outcome[c] = "interrupted" => c \in token

=============================================================================
