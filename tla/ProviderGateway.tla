---------------------------- MODULE ProviderGateway ----------------------------
(***************************************************************************)
(* Calls of a model provider through its gateway (providers/gateway.py)    *)
(* and the retry loop of a model turn around them (engine/runtime.py).     *)
(*                                                                         *)
(* The gateway of a provider is shared by all runs of the process: a       *)
(* circuit breaker over a sliding window of outcomes, a semaphore and a    *)
(* token bucket.  Everything runs on one event loop: what the code does    *)
(* between two awaits is one step here.  Clocks are abstracted to what     *)
(* they decide: an open circuit may become half-open at any later moment,  *)
(* a recorded outcome may push any number of the oldest ones out of the    *)
(* window, a missing token may be due soon enough to wait for or not.      *)
(*                                                                         *)
(* What a stream carries is ModelTurn's matter: here an attempt has shown  *)
(* output or has not, and ends with an answer, with an error that may be   *)
(* retried or one that may not, silently, or by being broken off.          *)
(***************************************************************************)
EXTENDS Integers, FiniteSets, SequencesExt

CONSTANTS
    Turn,            \* model turns, each of a run of its own
    Degradable,      \* the turns whose request is marked gateway_degradable
    MaxConcurrency,  \* the slots of the semaphore
    MinSamples,      \* outcomes in the window below which the circuit never opens
    FailureRate,     \* per cent of failures in the window that open it
    MaxRetries,      \* provider_retry.max_retries
    Burst,           \* the tokens the bucket holds at most
    Window           \* bound: outcomes the sliding window holds at once

ASSUME GatewayAssumption ==
    /\ Degradable \subseteq Turn
    /\ IsFiniteSet(Turn)
    /\ {MaxConcurrency, MinSamples, Burst, Window} \subseteq Nat \ {0}
    /\ MaxRetries \in Nat
    /\ FailureRate \in 1 .. 100

VARIABLES
    until,     \* _open_until: never set, ahead of the clock, or past
    probe,     \* _probe_inflight
    outcomes,  \* the sliding window: what was recorded, oldest first
    free,      \* free slots of the semaphore
    waiting,   \* the turns that wait for a slot, first come first served
    tokens,    \* the tokens in the bucket
    stage,     \* per turn: where its current attempt is
    holds,     \* per turn: probe_held, its attempt was let through as a probe
    output,    \* per turn: had_provider_output of its current attempt
    attempt    \* per turn: target_attempt

breaker == <<until, probe, outcomes>>
quota == <<free, waiting>>
progress == <<output, attempt>>
vars == <<breaker, quota, tokens, stage, holds, progress>>

HasSlot == {"granted", "pacing", "calling"}
InFlight == HasSlot \cup {"queued"}
Ended == {"answered", "failed", "stopped"}
Stage == InFlight \cup Ended \cup {"idle", "backoff"}

Init ==
    /\ until = "never"
    /\ probe = FALSE
    /\ outcomes = <<>>
    /\ free = MaxConcurrency
    /\ waiting = <<>>
    /\ tokens = Burst
    /\ stage = [t \in Turn |-> "idle"]
    /\ holds = [t \in Turn |-> FALSE]
    /\ output = [t \in Turn |-> FALSE]
    /\ attempt = [t \in Turn |-> 1]

-----------------------------------------------------------------------------
(* The circuit breaker. *)

State == CASE until = "ahead" -> "open" [] until = "past" -> "half_open" [] OTHER -> "closed"

\* try_probe: while half-open, one probe at a time.
MayPass == State = "closed" \/ (State = "half_open" /\ ~probe)

Failing(s) ==
    Len(s) >= MinSamples /\ 100 * Cardinality({i \in DOMAIN s : ~s[i]}) >= FailureRate * Len(s)

\* record: past the open time any outcome is the probe's; before, it counts in the
\* window, also that of a call which ends while the circuit is open.
Record(ok) ==
    IF until = "past"
    THEN /\ until' = IF ok THEN "never" ELSE "ahead"
         /\ outcomes' = IF ok THEN <<>> ELSE outcomes
         /\ probe' = FALSE
    ELSE \E k \in 0 .. Len(outcomes) :
            LET seen == Append(SubSeq(outcomes, k + 1, Len(outcomes)), ok)
            IN /\ Len(seen) <= Window
               /\ outcomes' = seen
               /\ until' = IF Failing(seen) THEN "ahead" ELSE until
               /\ probe' = (probe /\ ~Failing(seen))

\* abort_probe: frees the flag, whoever set it.
AbortProbe ==
    /\ probe' = (probe /\ until # "past")
    /\ UNCHANGED <<until, outcomes>>

OpenElapses ==
    /\ until = "ahead"
    /\ until' = "past"
    /\ UNCHANGED <<probe, outcomes, quota, tokens, stage, holds, progress>>

-----------------------------------------------------------------------------
(* The slots and the tokens. *)

\* Mutant: a released slot wakes nobody who waits for one.
ReleaseUnheard(t, next) ==
    /\ free' = free + 1
    /\ stage' = [stage EXCEPT ![t] = next]
    /\ holds' = [holds EXCEPT ![t] = FALSE]
    /\ UNCHANGED waiting

\* Turn t goes to stage next and gives its slot back: to the first that waits.
Release(t, next) ==
    /\ holds' = [holds EXCEPT ![t] = FALSE]
    /\ IF waiting = <<>>
       THEN /\ free' = free + 1
            /\ stage' = [stage EXCEPT ![t] = next]
            /\ UNCHANGED waiting
       ELSE /\ waiting' = Tail(waiting)
            /\ stage' = [stage EXCEPT ![t] = next, ![Head(waiting)] = "granted"]
            /\ UNCHANGED free

Refill ==
    /\ tokens < Burst
    /\ tokens' = tokens + 1
    /\ UNCHANGED <<breaker, quota, stage, holds, progress>>

-----------------------------------------------------------------------------
(* What becomes of a turn whose attempt has failed. *)

MayReplay(t) == ~output[t] /\ attempt[t] <= MaxRetries

AfterError(t, retryable) == IF retryable /\ MayReplay(t) THEN "backoff" ELSE "failed"

\* The next attempt starts without output.
NextAttempt(t, retryable) ==
    /\ attempt' = [attempt EXCEPT ![t] = IF retryable /\ MayReplay(t) THEN @ + 1 ELSE @]
    /\ output' = [output EXCEPT ![t] = IF retryable /\ MayReplay(t) THEN FALSE ELSE @]

-----------------------------------------------------------------------------
(* acquire(), on behalf of the stream of turn t. *)

Arriving(t) == stage[t] \in {"idle", "backoff"}

\* An explanatory request is answered by a template while the circuit is open.
Degrade(t) ==
    /\ Arriving(t) /\ t \in Degradable /\ State = "open"
    /\ stage' = [stage EXCEPT ![t] = "answered"]
    /\ output' = [output EXCEPT ![t] = TRUE]
    /\ UNCHANGED <<breaker, quota, tokens, holds, attempt>>

Gated(t) == Arriving(t) /\ ~(t \in Degradable /\ State = "open")

\* circuit_open: open, or half-open with a probe in flight.
Block(t) ==
    /\ Gated(t) /\ ~MayPass
    /\ stage' = [stage EXCEPT ![t] = AfterError(t, TRUE)]
    /\ NextAttempt(t, TRUE)
    /\ UNCHANGED <<breaker, quota, tokens, holds>>

SlotAtOnce == free > 0 /\ waiting = <<>>

TakesProbe(t) ==
    /\ holds' = [holds EXCEPT ![t] = State = "half_open"]
    /\ probe' = (probe \/ State = "half_open")
    /\ UNCHANGED <<until, outcomes>>

\* A slot is free: without an await the call goes on to the bucket.
Admit(t) ==
    /\ Gated(t) /\ MayPass /\ SlotAtOnce
    /\ free' = free - 1
    /\ TakesProbe(t)
    /\ \/ tokens > 0 /\ tokens' = tokens - 1 /\ stage' = [stage EXCEPT ![t] = "calling"]
       \/ tokens = 0 /\ UNCHANGED tokens /\ stage' = [stage EXCEPT ![t] = "pacing"]
    /\ UNCHANGED <<waiting, progress>>

\* rate_limited: the slot and the probe it took at once go back at once.
AdmitLimited(t) ==
    /\ Gated(t) /\ MayPass /\ SlotAtOnce /\ tokens = 0
    /\ stage' = [stage EXCEPT ![t] = AfterError(t, TRUE)]
    /\ NextAttempt(t, TRUE)
    /\ UNCHANGED <<breaker, quota, tokens, holds>>

Queue(t) ==
    /\ Gated(t) /\ MayPass /\ ~SlotAtOnce
    /\ waiting' = Append(waiting, t)
    /\ stage' = [stage EXCEPT ![t] = "queued"]
    /\ TakesProbe(t)
    /\ UNCHANGED <<free, tokens, progress>>

GetsToken(t) ==
    /\ stage[t] \in {"granted", "pacing"} /\ tokens > 0
    /\ tokens' = tokens - 1
    /\ stage' = [stage EXCEPT ![t] = "calling"]
    /\ UNCHANGED <<breaker, quota, holds, progress>>

\* The wait for the next token is short enough: sleep, then try once more.
Paces(t) ==
    /\ stage[t] = "granted" /\ tokens = 0
    /\ stage' = [stage EXCEPT ![t] = "pacing"]
    /\ UNCHANGED <<breaker, quota, tokens, holds, progress>>

\* Mutant: a refused or cancelled call keeps the probe it took.
KeepProbe(t) == UNCHANGED breaker

\* The except clause of acquire: a probe that never reached the provider is freed.
DropProbe(t) == IF holds[t] THEN AbortProbe ELSE UNCHANGED breaker

Limited(t) ==
    /\ stage[t] \in {"granted", "pacing"} /\ tokens = 0
    /\ Release(t, AfterError(t, TRUE))
    /\ NextAttempt(t, TRUE)
    /\ DropProbe(t)
    /\ UNCHANGED tokens

-----------------------------------------------------------------------------
(* The stream. *)

\* The first item that shows something; a later attempt may do so again.
Shows(t) ==
    /\ stage[t] = "calling" /\ ~output[t]
    /\ output' = [output EXCEPT ![t] = TRUE]
    /\ UNCHANGED <<breaker, quota, tokens, stage, holds, attempt>>

Answers(t) ==
    /\ stage[t] = "calling"
    /\ Release(t, "answered")
    /\ Record(TRUE)
    /\ UNCHANGED <<tokens, progress>>

\* An error item, or the adapter raises.
Errs(t) ==
    /\ stage[t] = "calling"
    /\ \E retryable \in BOOLEAN :
          Release(t, AfterError(t, retryable)) /\ NextAttempt(t, retryable)
    /\ Record(FALSE)
    /\ UNCHANGED tokens

\* The stream ends without done, or the turn breaks it off at a limit of the run or
\* because it is cancelled: no outcome, and any probe is aborted.
BreaksOff(t) ==
    /\ stage[t] = "calling"
    /\ \E next \in Ended : Release(t, next)
    /\ AbortProbe
    /\ UNCHANGED <<tokens, progress>>

\* Cancelled while it waits for a slot, for a token or for its next attempt.
CancelQueued(t) ==
    /\ stage[t] = "queued"
    /\ \E i \in DOMAIN waiting : waiting[i] = t /\ waiting' = RemoveAt(waiting, i)
    /\ stage' = [stage EXCEPT ![t] = "stopped"]
    /\ holds' = [holds EXCEPT ![t] = FALSE]
    /\ DropProbe(t)
    /\ UNCHANGED <<free, tokens, progress>>

CancelAdmitted(t) ==
    /\ stage[t] \in {"granted", "pacing"}
    /\ Release(t, "stopped")
    /\ DropProbe(t)
    /\ UNCHANGED <<tokens, progress>>

CancelBackoff(t) ==
    /\ stage[t] = "backoff"
    /\ stage' = [stage EXCEPT ![t] = "stopped"]
    /\ UNCHANGED <<breaker, quota, tokens, holds, progress>>

-----------------------------------------------------------------------------
Arrive(t) == Degrade(t) \/ Block(t) \/ Admit(t) \/ AdmitLimited(t) \/ Queue(t)
Acquires(t) == GetsToken(t) \/ Paces(t) \/ Limited(t)
StreamEnds(t) == Answers(t) \/ Errs(t) \/ BreaksOff(t)
Cancel(t) == CancelQueued(t) \/ CancelAdmitted(t) \/ CancelBackoff(t)

Next ==
    \/ OpenElapses
    \/ Refill
    \/ \E t \in Turn : Arrive(t) \/ Acquires(t) \/ Shows(t) \/ StreamEnds(t) \/ Cancel(t)

Spec == Init /\ [][Next]_vars

\* A retry is made, an admitted call goes on, and a stream ends: the provider answers,
\* fails or the time limit of the run breaks it off.  Time passes.
FairSpec ==
    /\ Spec
    /\ WF_vars(OpenElapses)
    /\ WF_vars(Refill)
    /\ \A t \in Turn :
        /\ WF_vars(stage[t] = "backoff" /\ Arrive(t))
        /\ WF_vars(Acquires(t))
        /\ WF_vars(StreamEnds(t))

-----------------------------------------------------------------------------
(* Properties. *)

\* Whatever is refused, cancelled or broken off while it waits, paces or streams, no slot
\* of the semaphore is lost or given twice, and nobody waits while one is free
\* (ProviderGateway.acquire and release).
SlotsConserved ==
    /\ free + Cardinality({t \in Turn : stage[t] \in HasSlot}) = MaxConcurrency
    /\ \A t \in Turn : stage[t] = "queued" <=> \E i \in DOMAIN waiting : waiting[i] = t
    /\ waiting # <<>> => free = 0

\* The probe flag is only set while the circuit is half-open and a call that took it is in
\* flight: otherwise every later request would be refused until the process restarts
\* (what gateway.py:235-239 calls P-H1).
ProbeHeldByCall ==
    probe => until = "past" /\ \E t \in Turn : holds[t] /\ stage[t] \in InFlight

\* Every turn that asks the provider ends: the gateway neither loses it in its queue nor
\* retries for ever.
TurnsEnd == \A t \in Turn : stage[t] # "idle" ~> stage[t] \in Ended

===============================================================================
