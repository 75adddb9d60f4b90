-------------------------- MODULE RemoteCallProofs --------------------------
(***************************************************************************)
(* Proofs about the circuit breaker under the calls of any number of       *)
(* sessions: it keeps its transition table and bounds the trial calls.     *)
(***************************************************************************)
EXTENDS RemoteCall, FiniteSetTheorems, TLAPS

States == {"CLOSED", "OPEN", "HALF_OPEN"}

LEMMA Table ==
  /\ DOMAIN CIRCUIT_TRANSITIONS = States
  /\ "OPEN" \in CIRCUIT_TRANSITIONS["CLOSED"]
  /\ "HALF_OPEN" \in CIRCUIT_TRANSITIONS["OPEN"]
  /\ {"CLOSED", "OPEN"} \subseteq CIRCUIT_TRANSITIONS["HALF_OPEN"]
  BY DEF CIRCUIT_TRANSITIONS, States

-----------------------------------------------------------------------------
(* The methods of the breaker, one lemma each: what they return is a       *)
(* record of the breaker, and which way its state may go.                  *)

LEMMA LookedStep ==
  ASSUME NEW b \in Breaker
  PROVE  /\ Looked(b) \in Breaker
         /\ Looked(b) = b \/ (b.state = "OPEN" /\ Looked(b).state = "HALF_OPEN"
                              /\ Looked(b).calls = 0)
<1> DEFINE turned == [b EXCEPT !.state = "HALF_OPEN", !.calls = 0]
<1>1. turned \in Breaker /\ turned.state = "HALF_OPEN" /\ turned.calls = 0
  <2>1. "HALF_OPEN" \in DOMAIN CIRCUIT_TRANSITIONS /\ 0 \in 0..TrialSlots
    BY Table, BreakerAssumption DEF States
  <2>2. [b EXCEPT !.state = "HALF_OPEN"] \in Breaker
    BY <2>1 DEF Breaker
  <2> QED BY <2>1, <2>2 DEF Breaker
<1> HIDE DEF turned
<1>2. Looked(b) = IF b.state = "OPEN" /\ b.cooldown = 0 THEN turned ELSE b
  BY DEF Looked, turned
<1> QED BY <1>1, <1>2

LEMMA AllowStep ==
  ASSUME NEW b \in Breaker
  PROVE  /\ AfterAllow(b) \in Breaker
         /\ AfterAllow(b).state = Looked(b).state
         /\ AfterAllow(b).calls = Looked(b).calls + (IF Trial(b) THEN 1 ELSE 0)
  BY LookedStep, Table, BreakerAssumption DEF Breaker, AfterAllow, Trial

LEMMA SuccessStep ==
  ASSUME NEW b \in Breaker
  PROVE  /\ AfterSuccess(b) \in Breaker
         /\ AfterSuccess(b) = b \/ (b.state # "OPEN" /\ AfterSuccess(b).state = "CLOSED")
  BY Table, BreakerAssumption DEF Breaker, AfterSuccess, Closed, States

\* An opened breaker has its whole cooldown before it.
LEMMA FailureStep ==
  ASSUME NEW b \in Breaker
  PROVE  /\ AfterFailure(b) \in Breaker
         /\ \/ AfterFailure(b).state = b.state /\ b.state \in {"CLOSED", "OPEN"}
            \/ /\ b.state # "OPEN"
               /\ AfterFailure(b).state = "OPEN"
               /\ AfterFailure(b).cooldown = OpenDuration
<1> DEFINE n == IF b.failures < Threshold THEN b.failures + 1 ELSE Threshold
           c == [b EXCEPT !.failures = n]
<1>1. n \in 0..Threshold /\ b.state \in States
  BY Table, BreakerAssumption DEF Breaker
<1>2. c \in Breaker /\ c.state = b.state
  BY <1>1 DEF Breaker
<1>3. Opened(c) \in Breaker /\ Opened(c).state = "OPEN" /\ Opened(c).cooldown = OpenDuration
  <2>1. "OPEN" \in DOMAIN CIRCUIT_TRANSITIONS /\ 0 \in 0..TrialSlots
        /\ OpenDuration \in 0..OpenDuration
    BY Table, BreakerAssumption DEF States
  <2>2. [c EXCEPT !.state = "OPEN"] \in Breaker
    BY <1>2, <2>1 DEF Breaker
  <2>3. [c EXCEPT !.state = "OPEN", !.cooldown = OpenDuration] \in Breaker
    BY <2>1, <2>2 DEF Breaker
  <2> QED BY <2>1, <2>3 DEF Breaker, Opened
<1>4. AfterFailure(b) =
        IF b.state = "HALF_OPEN" \/ (b.state = "CLOSED" /\ n = Threshold) THEN Opened(c) ELSE c
  BY DEF AfterFailure
<1> QED BY <1>1, <1>2, <1>3, <1>4 DEF States

LEMMA TickStep ==
  ASSUME NEW b \in Breaker
  PROVE  AfterTick(b) \in Breaker /\ AfterTick(b).state = b.state /\ AfterTick(b).calls = b.calls
<1>1. CASE b.cooldown > 0
  <2>1. b.cooldown - 1 \in 0..OpenDuration
    BY <1>1, BreakerAssumption DEF Breaker
  <2> QED BY <1>1, <2>1 DEF Breaker, AfterTick
<1>2. CASE ~(b.cooldown > 0)
  BY <1>2 DEF AfterTick
<1> QED BY <1>1, <1>2

\* A failure handled: the breaker fed, and asked again before a retry.
LEMMA HandledStep ==
  ASSUME NEW b \in Breaker
  PROVE  LET after == AfterAllow(AfterFailure(b)) IN
         /\ after \in Breaker
         /\ \/ after.state = b.state /\ b.state \in {"CLOSED", "OPEN"}
            \/ b.state = "OPEN" /\ after.state = "HALF_OPEN"
            \/ b.state # "OPEN" /\ after.state = "OPEN"
<1> DEFINE fed == AfterFailure(b)
<1>1. fed \in Breaker
  BY FailureStep
<1>2. AfterAllow(fed) \in Breaker /\ AfterAllow(fed).state = Looked(fed).state
  BY <1>1, AllowStep
<1>3. CASE fed.state = b.state /\ b.state \in {"CLOSED", "OPEN"}
  BY <1>1, <1>2, <1>3, LookedStep
<1>4. CASE b.state # "OPEN" /\ fed.state = "OPEN" /\ fed.cooldown = OpenDuration
  <2>1. Looked(fed) = fed
    BY <1>4, BreakerAssumption DEF Looked
  <2> QED BY <1>2, <1>4, <2>1
<1> QED BY <1>3, <1>4, FailureStep

-----------------------------------------------------------------------------
(* The breaker is shared, so what one session does to it must be right     *)
(* whatever the others did.  The trials in flight are bounded because the  *)
(* breaker counts those it admits, and forgets them only when it leaves    *)
(* HALF_OPEN: this is what Admitted says.                                  *)

Admitted ==
  /\ breaker \in Breaker
  /\ IsFiniteSet(trials)
  /\ breaker.state = "HALF_OPEN" => Cardinality(trials) <= breaker.calls

\* Where the breaker and the trials may go in one step.
AdmissionStep ==
  \/ UNCHANGED <<breaker, trials>>
  \/ \E c \in Callers : AskBreaker(c)
  \/ /\ breaker' \in {AfterFailure(breaker), AfterAllow(AfterFailure(breaker)),
                      AfterSuccess(breaker)}
     /\ trials' = TrialsOf(breaker')
  \/ breaker' = AfterTick(breaker) /\ UNCHANGED trials

LEMMA StepsOfBreaker == [Next]_vars => AdmissionStep
<1> SUFFICES ASSUME [Next]_vars PROVE AdmissionStep
  OBVIOUS
<1>1. CASE UNCHANGED vars
  BY <1>1 DEF vars, AdmissionStep
<1>2. ASSUME NEW c \in Callers, Sent(c) \/ Waits(c) PROVE AdmissionStep
  BY <1>2 DEF Sent, Waits, AdmissionStep
<1>3. ASSUME NEW c \in Callers, Refused(c) \/ TransportFails(c) PROVE AdmissionStep
  <2>1. ASSUME NEW hints, RetryOrFail(c, hints)
        PROVE  breaker' \in {AfterFailure(breaker), AfterAllow(AfterFailure(breaker))}
    BY <2>1 DEF RetryOrFail
  <2>2. trials' = TrialsOf(breaker')
    BY <1>3 DEF Refused, TransportFails
  <2> QED BY <1>3, <2>1, <2>2 DEF Refused, TransportFails, AdmissionStep
<1>4. ASSUME NEW c \in Callers, Succeeds(c) PROVE AdmissionStep
  BY <1>4 DEF Succeeds, AdmissionStep
<1>5. CASE Tick
  BY <1>5 DEF Tick, AdmissionStep
<1>6. ASSUME NEW c \in Callers,
             \/ Stopped(c) \/ Concludes(c) \/ Wakes(c) \/ Polls(c)
             \/ Call(c) \/ Answered(c) \/ NoMessageYet(c) \/ Interrupt(c) \/ Renewed(c)
      PROVE AdmissionStep
  BY <1>6
     DEF Stopped, Concludes, Wakes, Polls, Call, Answered, NoMessageYet, Interrupt, Renewed,
         AdmissionStep
<1> QED BY <1>1, <1>2, <1>3, <1>4, <1>5, <1>6 DEF Next, CallStep, Responds

LEMMA AdmittedStep == Admitted /\ AdmissionStep => Admitted'
<1> SUFFICES ASSUME Admitted, AdmissionStep PROVE Admitted'
  OBVIOUS
<1> USE DEF Admitted
<1>1. CASE UNCHANGED <<breaker, trials>>
  BY <1>1
<1>2. ASSUME NEW c \in Callers, AskBreaker(c) PROVE Admitted'
  <2>1. breaker' = AfterAllow(breaker) /\ breaker' \in Breaker
    BY <1>2, AllowStep DEF AskBreaker
  <2>2. breaker'.calls \in Nat /\ breaker.calls \in Nat
    BY <2>1 DEF Breaker
  <2>3. IsFiniteSet({c}) /\ Cardinality({c}) = 1
    BY FS_Singleton
  <2>4. IsFiniteSet(trials \cup {c}) /\ Cardinality(trials) \in Nat
        /\ Cardinality(trials \cup {c}) <= Cardinality(trials) + 1
    <3>1. Cardinality(trials) \in Nat
      BY FS_CardinalityType
    <3>2. /\ IsFiniteSet(trials \cup {c})
          /\ \/ Cardinality(trials \cup {c}) = Cardinality(trials)
             \/ Cardinality(trials \cup {c}) = Cardinality(trials) + 1
      BY FS_AddElement
    <3> QED BY <3>1, <3>2
  <2>5. CASE ~Trial(breaker)
    <3>1. trials' = trials /\ breaker'.state = Looked(breaker).state
          /\ breaker'.calls = Looked(breaker).calls
      BY <1>2, <2>1, <2>2, <2>5, AllowStep, LookedStep DEF AskBreaker, Breaker
    <3>2. Looked(breaker) = breaker
      BY <2>5, LookedStep, BreakerAssumption DEF Trial
    <3> QED BY <2>1, <3>1, <3>2
  <2>6. CASE Trial(breaker) /\ breaker.state = "OPEN"
    <3>1. trials' = {c} /\ breaker'.calls = 1
      BY <1>2, <2>1, <2>6, AllowStep, LookedStep DEF AskBreaker, Trial
    <3> QED BY <2>1, <2>3, <3>1
  <2>7. CASE Trial(breaker) /\ breaker.state # "OPEN"
    <3>1. Looked(breaker) = breaker /\ breaker.state = "HALF_OPEN"
      BY <2>7, LookedStep DEF Trial
    <3>2. trials' = trials \cup {c} /\ breaker'.calls = breaker.calls + 1
      BY <1>2, <2>1, <2>7, <3>1, AllowStep DEF AskBreaker
    <3>3. Cardinality(trials \cup {c}) \in Nat
      BY <2>4, FS_CardinalityType
    <3>4. Cardinality(trials \cup {c}) <= breaker.calls + 1
      BY <2>2, <2>4, <3>1, <3>3
    <3> QED BY <2>1, <2>4, <3>2, <3>4
  <2> QED BY <2>5, <2>6, <2>7
<1>3. ASSUME breaker' \in {AfterFailure(breaker), AfterAllow(AfterFailure(breaker)),
                           AfterSuccess(breaker)},
             trials' = TrialsOf(breaker')
      PROVE  Admitted'
  <2>1. breaker' \in Breaker
    BY <1>3, FailureStep, HandledStep, SuccessStep
  <2>2. IsFiniteSet({}) /\ Cardinality({}) = 0
    BY FS_EmptySet
  <2>3. breaker'.calls \in Nat
    BY <2>1 DEF Breaker
  <2>4. breaker'.state = "HALF_OPEN" /\ breaker.state = "HALF_OPEN" => breaker' = breaker
    BY <1>3, FailureStep, HandledStep, SuccessStep
  <2> QED BY <1>3, <2>1, <2>2, <2>3, <2>4 DEF TrialsOf
<1>4. CASE breaker' = AfterTick(breaker) /\ UNCHANGED trials
  BY <1>4, TickStep
<1> QED BY <1>1, <1>2, <1>3, <1>4 DEF AdmissionStep

LEMMA AdmittedHolds == Spec => []Admitted
<1>1. Init => Admitted
  BY FS_EmptySet, Table, BreakerAssumption DEF Init, Admitted, Closed, Breaker, States
<1> QED BY <1>1, StepsOfBreaker, AdmittedStep, PTL DEF Spec

-----------------------------------------------------------------------------
\* However many sessions share the breaker and however many trial slots it has, the calls it let
\* through while HALF_OPEN never outnumber the slots (`allow`).
THEOREM TrialsAreBounded == Spec => []TrialsBounded
<1>1. Admitted => TrialsBounded
  <2> SUFFICES ASSUME Admitted, breaker.state = "HALF_OPEN"
               PROVE  Cardinality({c \in trials : pc[c] \in {"flight", "poll", "answered"}})
                        <= TrialSlots
    BY DEF TrialsBounded
  <2> DEFINE Under == {c \in trials : pc[c] \in {"flight", "poll", "answered"}}
  <2>1. IsFiniteSet(trials) /\ Under \subseteq trials
    BY DEF Admitted
  <2>2. Cardinality(Under) <= Cardinality(trials)
    BY <2>1, FS_Subset
  <2>3. Cardinality(Under) \in Nat /\ Cardinality(trials) \in Nat
    BY <2>1, FS_Subset, FS_CardinalityType
  <2>4. Cardinality(trials) <= breaker.calls /\ breaker.calls \in 0..TrialSlots
    BY DEF Admitted, Breaker
  <2> HIDE DEF Under
  <2>5. Cardinality(Under) <= TrialSlots
    BY <2>2, <2>3, <2>4, BreakerAssumption
  <2> QED BY <2>5 DEF Under
<1> QED BY <1>1, AdmittedHolds, PTL

\* In whatever order the calls of the sessions are answered, the breaker only makes the
\* transitions of its table (`record_success`, `record_failure`, `_transition`).
THEOREM BreakerKeepsTable == Spec => BreakerFollowsTable
<1>1. ASSUME Admitted, AdmissionStep, breaker'.state # breaker.state
      PROVE  breaker'.state \in CIRCUIT_TRANSITIONS[breaker.state]
  <2>1. breaker \in Breaker /\ breaker.state \in States
    BY <1>1, Table DEF Admitted, Breaker
  <2>2. \/ breaker.state = "OPEN" /\ breaker'.state = "HALF_OPEN"
        \/ breaker.state # "OPEN" /\ breaker'.state \in {"OPEN", "CLOSED"}
    BY <1>1, <2>1, LookedStep, AllowStep, FailureStep, HandledStep, SuccessStep, TickStep
       DEF AdmissionStep, AskBreaker
  <2> QED BY <1>1, <2>1, <2>2, Table DEF States
<1> QED BY <1>1, AdmittedHolds, StepsOfBreaker, PTL DEF Spec, BreakerFollowsTable

=============================================================================
