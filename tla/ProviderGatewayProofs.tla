------------------------- MODULE ProviderGatewayProofs --------------------------
(***************************************************************************)
(* The gateway and what comes through it, a turn of the model.             *)
(*                                                                         *)
(* The probe of the half-open circuit is always held by a call that is in  *)
(* flight, and no slot of the semaphore is lost, whatever the number of    *)
(* turns, slots, tokens, retries and outcomes in the window.  The first    *)
(* invariant is inductive but for the shape of what is kept per turn:      *)
(* every way out of the gateway that takes the last holder away also drops *)
(* the flag.  The second needs that nobody waits twice.                    *)
(*                                                                         *)
(* For a turn, the invariant says what the items between the adapter and   *)
(* the loop can be: all that one event makes ready of one call, or no      *)
(* start and no piece of any.  With that, the pieces the loop has and      *)
(* those on their way are the pieces the adapter has seen, and a turn that *)
(* ends with calls has them whole.                                         *)
(***************************************************************************)
EXTENDS ProviderGateway, ModelTurn, FiniteSetTheorems, SequenceTheorems, TLAPS

(* What is kept per turn has an entry for each. *)
PerTurn ==
    /\ stage = [t \in Turn |-> stage[t]]
    /\ holds = [t \in Turn |-> holds[t]]

(* The probe's holder u stays one when another turn gives its slot back. *)
LEMMA ReleaseKeepsOthers ==
    ASSUME PerTurn, NEW t \in Turn, NEW next, Release(t, next),
           NEW u \in Turn, u # t, holds[u], stage[u] \in InFlight
    PROVE  holds'[u] /\ stage'[u] \in InFlight
  <1>1. holds'[u]
    BY DEF Release, PerTurn
  <1>2. stage'[u] \in {stage[u], "granted"}
    <2>1. CASE waiting = <<>>
      BY <2>1 DEF Release, PerTurn
    <2>2. CASE waiting # <<>>
      <3> DEFINE h == Head(waiting)
      <3>1. stage' = [stage EXCEPT ![t] = next, ![h] = "granted"]
        BY <2>2 DEF Release
      <3> HIDE DEF h
      <3> QED BY <3>1 DEF PerTurn
    <2> QED BY <2>1, <2>2
  <1> QED BY <1>1, <1>2 DEF InFlight, HasSlot

(* Whoever gives a slot back, there is an entry per turn afterwards. *)
LEMMA ReleaseShapes ==
    ASSUME PerTurn, NEW t \in Turn, NEW next, Release(t, next)
    PROVE  PerTurn'
  <1>1. holds' = [u \in Turn |-> holds'[u]]
    BY DEF Release, PerTurn
  <1>2. stage' = [u \in Turn |-> stage'[u]]
    <2>1. CASE waiting = <<>>
      BY <2>1 DEF Release, PerTurn
    <2>2. CASE waiting # <<>>
      <3> DEFINE h == Head(waiting)
      <3>1. stage' = [stage EXCEPT ![t] = next, ![h] = "granted"]
        BY <2>2 DEF Release
      <3> HIDE DEF h
      <3> QED BY <3>1 DEF PerTurn
    <2> QED BY <2>1, <2>2
  <1> QED BY <1>1, <1>2 DEF PerTurn

IInv == PerTurn /\ ProbeHeldByCall

(* Dropping the flag when the holder goes, and only then, keeps a holder for it. *)
LEMMA LeavingKeepsProbe ==
    ASSUME IInv, NEW t \in Turn, NEW next, Release(t, next), DropProbe(t)
    PROVE  IInv'
  <1>1. PerTurn'
    BY ReleaseShapes DEF IInv
  <1>2. ProbeHeldByCall'
    <2> SUFFICES ASSUME probe'
                 PROVE  until' = "past" /\ \E u \in Turn : holds'[u] /\ stage'[u] \in InFlight
      BY DEF ProbeHeldByCall
    <2>1. probe /\ until = "past" /\ until' = until /\ ~holds[t]
      BY DEF DropProbe, AbortProbe, breaker, IInv, ProbeHeldByCall
    <2>2. PICK u \in Turn : holds[u] /\ stage[u] \in InFlight
      BY <2>1 DEF IInv, ProbeHeldByCall
    <2> QED BY <2>1, <2>2, ReleaseKeepsOthers DEF IInv
  <1> QED BY <1>1, <1>2 DEF IInv

(* A recorded outcome is the probe's when there is one: the flag is gone afterwards. *)
LEMMA RecordDropsProbe ==
    ASSUME IInv, NEW ok, Record(ok)
    PROVE  ~probe'
  BY DEF IInv, ProbeHeldByCall, Record

(* Every step keeps a holder for a set flag: an arriving turn is not in flight and is none, and
   a stream that ends takes the flag with it. *)
LEMMA NextIInv == IInv /\ [Next]_vars => IInv'
  <1> SUFFICES ASSUME IInv, [Next]_vars PROVE IInv'
    OBVIOUS
  <1> USE DEF IInv
  <1>1. ASSUME OpenElapses PROVE IInv'
    BY <1>1 DEF OpenElapses, PerTurn, ProbeHeldByCall
  <1>2. ASSUME Refill PROVE IInv'
    BY <1>2 DEF Refill, breaker, PerTurn, ProbeHeldByCall
  <1>3. ASSUME NEW t \in Turn, Arrive(t) PROVE IInv'
    <2>1. stage[t] \notin InFlight
      BY <1>3 DEF Arrive, Degrade, Gated, Block, Admit, AdmitLimited, Queue, Arriving, InFlight, HasSlot
    <2>2. ASSUME NEW next, stage' = [stage EXCEPT ![t] = next], UNCHANGED <<breaker, holds>> PROVE IInv'
      BY <2>1, <2>2 DEF breaker, PerTurn, ProbeHeldByCall
    <2>3. ASSUME NEW next \in InFlight, stage' = [stage EXCEPT ![t] = next], TakesProbe(t) PROVE IInv'
      <3>1. PerTurn'
        BY <2>3 DEF PerTurn, TakesProbe
      <3>2. CASE State = "half_open"
        <4>1. until' = "past" /\ holds'[t] /\ stage'[t] \in InFlight
          BY <2>3, <3>2 DEF TakesProbe, State, PerTurn
        <4> QED BY <3>1, <4>1 DEF ProbeHeldByCall
      <3>3. CASE State # "half_open"
        <4>1. ~probe' \/ (probe /\ until = "past")
          BY <2>3, <3>3 DEF TakesProbe, ProbeHeldByCall
        <4>2. until # "past"
          BY <3>3 DEF State
        <4> QED BY <3>1, <4>1, <4>2 DEF ProbeHeldByCall
      <3> QED BY <3>2, <3>3
    <2>4. CASE Degrade(t)
      BY <2>2, <2>4 DEF Degrade, breaker
    <2>5. CASE Block(t)
      BY <2>2, <2>5 DEF Block, breaker
    <2>6. CASE AdmitLimited(t)
      BY <2>2, <2>6 DEF AdmitLimited, breaker
    <2>7. CASE Admit(t)
      BY <2>3, <2>7 DEF Admit, InFlight, HasSlot
    <2>8. CASE Queue(t)
      BY <2>3, <2>8 DEF Queue, InFlight, HasSlot
    <2> QED BY <1>3, <2>4, <2>5, <2>6, <2>7, <2>8 DEF Arrive
  <1>4. ASSUME NEW t \in Turn, Acquires(t) PROVE IInv'
    <2>1. CASE GetsToken(t)
      BY <2>1 DEF GetsToken, breaker, PerTurn, ProbeHeldByCall, InFlight, HasSlot
    <2>2. CASE Paces(t)
      BY <2>2 DEF Paces, breaker, PerTurn, ProbeHeldByCall, InFlight, HasSlot
    <2>3. CASE Limited(t)
      BY <2>3, LeavingKeepsProbe DEF Limited
    <2> QED BY <1>4, <2>1, <2>2, <2>3 DEF Acquires
  <1>5. ASSUME NEW t \in Turn, Shows(t) PROVE IInv'
    BY <1>5 DEF Shows, breaker, PerTurn, ProbeHeldByCall
  <1>6. ASSUME NEW t \in Turn, StreamEnds(t) PROVE IInv'
    <2>1. PerTurn'
      BY <1>6, ReleaseShapes DEF StreamEnds, Answers, Errs, BreaksOff
    <2>2. CASE Answers(t)
      BY <2>1, <2>2, RecordDropsProbe DEF Answers, ProbeHeldByCall
    <2>3. CASE Errs(t)
      BY <2>1, <2>3, RecordDropsProbe DEF Errs, ProbeHeldByCall
    <2>4. CASE BreaksOff(t)
      BY <2>1, <2>4 DEF BreaksOff, AbortProbe, ProbeHeldByCall
    <2> QED BY <1>6, <2>2, <2>3, <2>4 DEF StreamEnds
  <1>7. ASSUME NEW t \in Turn, Cancel(t) PROVE IInv'
    <2>1. CASE CancelQueued(t)
      <3>1. PerTurn'
        BY <2>1 DEF CancelQueued, PerTurn
      <3>2. \A u \in Turn \ {t} : holds'[u] = holds[u] /\ stage'[u] = stage[u]
        BY <2>1 DEF CancelQueued, PerTurn
      <3>3. probe' => probe /\ ~holds[t] /\ until' = until
        BY <2>1 DEF CancelQueued, DropProbe, AbortProbe, breaker, ProbeHeldByCall
      <3> QED BY <3>1, <3>2, <3>3 DEF ProbeHeldByCall
    <2>2. CASE CancelAdmitted(t)
      BY <2>2, LeavingKeepsProbe DEF CancelAdmitted
    <2>3. CASE CancelBackoff(t)
      BY <2>3 DEF CancelBackoff, breaker, PerTurn, ProbeHeldByCall, InFlight, HasSlot
    <2> QED BY <1>7, <2>1, <2>2, <2>3 DEF Cancel
  <1>8. CASE UNCHANGED vars
    BY <1>8 DEF vars, breaker, PerTurn, ProbeHeldByCall
  <1> QED BY <1>1, <1>2, <1>3, <1>4, <1>5, <1>6, <1>7, <1>8 DEF Next

(* However calls are refused, limited, cancelled, broken off or ended while others wait, a set
   probe flag has a call in flight that will end it: the circuit never stays shut to all
   (gateway.py:235-239, abort_probe and record). *)
THEOREM ProbeIsHeld == Spec => []ProbeHeldByCall
  <1>1. Init => IInv
    BY DEF Init, IInv, PerTurn, ProbeHeldByCall
  <1>2. IInv => ProbeHeldByCall
    BY DEF IInv
  <1> QED BY <1>1, <1>2, NextIInv, PTL DEF Spec

-----------------------------------------------------------------------------
(* The slots.  Who has one is counted: the lemmas say how the set changes.  *)

Holders == { t \in Turn : stage[t] \in HasSlot }

\* Nobody waits twice, and whoever is in the queue is queued.
QueueInv ==
    /\ waiting \in Seq(Turn)
    /\ \A i, j \in 1 .. Len(waiting) : waiting[i] = waiting[j] => i = j
    /\ \A t \in Turn : stage[t] = "queued" <=> \E i \in 1 .. Len(waiting) : waiting[i] = t
    /\ waiting # <<>> => free = 0

SlotInv ==
    /\ stage \in [Turn -> Stage]
    /\ free \in Nat
    /\ IsFiniteSet(Holders)
    /\ free + Cardinality(Holders) = MaxConcurrency
    /\ QueueInv

\* An element taken out of a sequence leaves the others in their order.
LEMMA Removed ==
    ASSUME NEW s \in Seq(Turn), NEW i \in 1 .. Len(s)
    PROVE  /\ RemoveAt(s, i) \in Seq(Turn)
           /\ Len(RemoveAt(s, i)) = Len(s) - 1
           /\ \A j \in 1 .. Len(s) - 1 : RemoveAt(s, i)[j] = IF j < i THEN s[j] ELSE s[j + 1]
  <1> DEFINE front == SubSeq(s, 1, i - 1)
             back == SubSeq(s, i + 1, Len(s))
  <1>1. /\ front \in Seq(Turn) /\ Len(front) = i - 1
        /\ \A j \in 1 .. i - 1 : front[j] = s[j]
    OBVIOUS
  <1>2. /\ back \in Seq(Turn) /\ Len(back) = Len(s) - i
        /\ \A j \in 1 .. Len(s) - i : back[j] = s[j + i]
    OBVIOUS
  <1>3. RemoveAt(s, i) = front \o back
    BY DEF RemoveAt
  <1> HIDE DEF front, back
  <1>4. /\ front \o back \in Seq(Turn) /\ Len(front \o back) = Len(front) + Len(back)
        /\ \A j \in 1 .. Len(front) + Len(back) :
              (front \o back)[j] = IF j <= Len(front) THEN front[j] ELSE back[j - Len(front)]
    BY <1>1, <1>2, ConcatProperties
  <1> QED BY <1>1, <1>2, <1>3, <1>4

\* A turn that neither has a slot nor waits, before and after, or has one before
\* and after, changes nothing about them.
LEMMA MoveKeepsSlots ==
    ASSUME SlotInv, NEW t \in Turn, NEW next \in Stage,
           stage' = [stage EXCEPT ![t] = next], UNCHANGED quota,
           stage[t] \in HasSlot <=> next \in HasSlot, stage[t] # "queued", next # "queued"
    PROVE  SlotInv'
  <1>1. stage' \in [Turn -> Stage] /\ \A u \in Turn : u # t => stage'[u] = stage[u]
    BY DEF SlotInv
  <1>2. stage'[t] = next
    BY DEF SlotInv
  <1>3. Holders' = Holders
    BY <1>1, <1>2 DEF Holders
  <1>4. QueueInv'
    BY <1>1, <1>2 DEF SlotInv, QueueInv, quota
  <1> QED BY <1>1, <1>3, <1>4 DEF SlotInv, quota

\* A slot given back goes to the first that waits, or is free again.
LEMMA ReleaseKeepsSlots ==
    ASSUME SlotInv, NEW t \in Turn, stage[t] \in HasSlot,
           NEW next \in Ended \cup {"backoff"}, Release(t, next)
    PROVE  SlotInv'
  <1>0. /\ stage \in [Turn -> Stage] /\ free \in Nat /\ waiting \in Seq(Turn)
        /\ IsFiniteSet(Holders) /\ Cardinality(Holders) \in Nat
        /\ free + Cardinality(Holders) = MaxConcurrency
    BY FS_CardinalityType DEF SlotInv, QueueInv
  <1>1. next \in Stage /\ next \notin HasSlot /\ next # "queued" /\ t \in Holders
    BY DEF Stage, InFlight, HasSlot, Ended, Holders
  <1>2. IsFiniteSet(Holders \ {t}) /\ Cardinality(Holders \ {t}) = Cardinality(Holders) - 1
    BY <1>0, <1>1, FS_RemoveElement
  <1>3. CASE waiting = <<>>
    <2>1. free' = free + 1 /\ stage' = [stage EXCEPT ![t] = next] /\ waiting' = waiting
      BY <1>3 DEF Release
    <2>2. stage' \in [Turn -> Stage] /\ stage'[t] = next /\ \A u \in Turn : u # t => stage'[u] = stage[u]
      BY <1>0, <1>1, <2>1
    <2>3. Holders' = Holders \ {t}
      BY <1>1, <2>2 DEF Holders
    <2>4. QueueInv'
      <3>1. stage[t] # "queued"
        BY DEF HasSlot
      <3> QED BY <1>1, <1>3, <2>1, <2>2, <3>1 DEF SlotInv, QueueInv
    <2> QED BY <1>0, <1>2, <2>1, <2>2, <2>3, <2>4 DEF SlotInv
  <1>4. CASE waiting # <<>>
    <2> DEFINE h == Head(waiting)
    <2>1. 1 \in 1 .. Len(waiting) /\ h = waiting[1] /\ h \in Turn
      BY <1>0, <1>4
    <2>2. stage[h] = "queued" /\ h # t
      <3>1. stage[h] = "queued"
        BY <2>1 DEF SlotInv, QueueInv
      <3> QED BY <3>1 DEF HasSlot
    <2>3. waiting' = Tail(waiting) /\ stage' = [stage EXCEPT ![t] = next, ![h] = "granted"] /\ free' = free
      BY <1>4 DEF Release
    <2>4. /\ waiting' \in Seq(Turn) /\ Len(waiting') = Len(waiting) - 1
          /\ \A i \in 1 .. Len(waiting) - 1 : waiting'[i] = waiting[i + 1]
      BY <1>0, <1>4, <2>3
    <2> HIDE DEF h
    <2>5. /\ stage' \in [Turn -> Stage] /\ stage'[t] = next /\ stage'[h] = "granted"
          /\ \A u \in Turn : u # t /\ u # h => stage'[u] = stage[u]
      <3>1. "granted" \in Stage
        BY DEF Stage, InFlight, HasSlot
      <3> QED BY <1>0, <1>1, <2>1, <2>2, <2>3, <3>1
    <2>6. Holders' = (Holders \ {t}) \cup {h} /\ h \notin Holders
      <3>1. "granted" \in HasSlot /\ "queued" \notin HasSlot
        BY DEF HasSlot
      <3> QED BY <1>1, <2>1, <2>2, <2>5, <3>1 DEF Holders
    <2>7. IsFiniteSet(Holders') /\ Cardinality(Holders') = Cardinality(Holders)
      <3>1. h \notin Holders \ {t}
        BY <2>6
      <3>2. /\ IsFiniteSet((Holders \ {t}) \cup {h})
            /\ Cardinality((Holders \ {t}) \cup {h}) = Cardinality(Holders \ {t}) + 1
        BY <1>2, <3>1, FS_AddElement
      <3> QED BY <1>0, <1>2, <2>6, <3>2
    <2>8. QueueInv'
      <3>1. /\ \A i, j \in 1 .. Len(waiting) : waiting[i] = waiting[j] => i = j
            /\ \A u \in Turn : stage[u] = "queued" <=> \E i \in 1 .. Len(waiting) : waiting[i] = u
            /\ free = 0
        BY <1>4 DEF SlotInv, QueueInv
      <3>2. \A i, j \in 1 .. Len(waiting') : waiting'[i] = waiting'[j] => i = j
        <4> SUFFICES ASSUME NEW i \in 1 .. Len(waiting'), NEW j \in 1 .. Len(waiting'), waiting'[i] = waiting'[j]
                     PROVE  i = j
          OBVIOUS
        <4>1. PICK m \in 1 .. Len(waiting) : m = i + 1 /\ waiting'[i] = waiting[m]
          BY <1>0, <2>4
        <4>2. PICK l \in 1 .. Len(waiting) : l = j + 1 /\ waiting'[j] = waiting[l]
          BY <1>0, <2>4
        <4>3. waiting[m] = waiting[l]
          BY <4>1, <4>2
        <4>4. m = l
          BY <3>1, <4>3
        <4> QED BY <4>1, <4>2, <4>4
      <3>3. ASSUME NEW i \in 1 .. Len(waiting')
            PROVE  waiting'[i] \in Turn /\ waiting'[i] # h /\ waiting'[i] # t /\ stage[waiting'[i]] = "queued"
        <4>1. i + 1 \in 1 .. Len(waiting) /\ waiting'[i] = waiting[i + 1] /\ i + 1 # 1
          BY <1>0, <2>4
        <4>2. waiting'[i] # h
          BY <2>1, <3>1, <4>1
        <4>3. waiting[i + 1] \in Turn /\ stage[waiting[i + 1]] = "queued"
          BY <1>0, <3>1, <4>1
        <4> QED BY <4>1, <4>2, <4>3 DEF HasSlot
      <3>4. ASSUME NEW u \in Turn, stage'[u] = "queued"
            PROVE  \E i \in 1 .. Len(waiting') : waiting'[i] = u
        <4>1. u # t /\ u # h /\ stage[u] = "queued"
          BY <1>1, <2>5, <3>4
        <4>2. PICK j \in 1 .. Len(waiting) : waiting[j] = u
          BY <3>1, <4>1
        <4>3. j # 1
          BY <2>1, <4>1, <4>2
        <4>4. j - 1 \in 1 .. Len(waiting') /\ waiting'[j - 1] = u
          BY <1>0, <2>4, <4>2, <4>3
        <4> QED BY <4>4
      <3>5. \A u \in Turn : stage'[u] = "queued" <=> \E i \in 1 .. Len(waiting') : waiting'[i] = u
        BY <2>5, <3>3, <3>4
      <3> QED BY <2>3, <2>4, <3>1, <3>2, <3>5 DEF QueueInv
    <2> QED BY <1>0, <2>3, <2>5, <2>7, <2>8 DEF SlotInv
  <1> QED BY <1>3, <1>4


\* A free slot is taken by a turn that neither has one nor waits.
LEMMA AdmitKeepsSlots ==
    ASSUME SlotInv, NEW t \in Turn, stage[t] \notin HasSlot, stage[t] # "queued",
           NEW next \in HasSlot, stage' = [stage EXCEPT ![t] = next],
           free > 0, free' = free - 1, waiting = <<>>, waiting' = waiting
    PROVE  SlotInv'
  <1>0. /\ stage \in [Turn -> Stage] /\ free \in Nat /\ IsFiniteSet(Holders)
        /\ Cardinality(Holders) \in Nat /\ free + Cardinality(Holders) = MaxConcurrency
    BY FS_CardinalityType DEF SlotInv
  <1>1. next \in Stage /\ next # "queued"
    BY DEF Stage, InFlight, HasSlot
  <1>2. stage' \in [Turn -> Stage] /\ stage'[t] = next /\ \A u \in Turn : u # t => stage'[u] = stage[u]
    BY <1>0, <1>1
  <1>3. Holders' = Holders \cup {t} /\ t \notin Holders
    BY <1>2 DEF Holders
  <1>4. IsFiniteSet(Holders') /\ Cardinality(Holders') = Cardinality(Holders) + 1
    BY <1>0, <1>3, FS_AddElement
  <1>5. QueueInv'
    BY <1>1, <1>2 DEF SlotInv, QueueInv
  <1> QED BY <1>0, <1>2, <1>4, <1>5 DEF SlotInv

\* A turn that finds no slot goes to the end of the queue.
LEMMA QueueKeepsSlots ==
    ASSUME SlotInv, NEW t \in Turn, stage[t] \notin HasSlot, stage[t] # "queued", Queue(t)
    PROVE  SlotInv'
  <1>0. stage \in [Turn -> Stage] /\ free \in Nat /\ waiting \in Seq(Turn)
    BY DEF SlotInv, QueueInv
  <1>1. /\ waiting' = Append(waiting, t) /\ stage' = [stage EXCEPT ![t] = "queued"] /\ free' = free
        /\ ~(free > 0 /\ waiting = <<>>)
    BY DEF Queue, SlotAtOnce
  <1>2. /\ stage' \in [Turn -> Stage] /\ stage'[t] = "queued"
        /\ \A u \in Turn : u # t => stage'[u] = stage[u]
    <2>1. "queued" \in Stage
      BY DEF Stage, InFlight
    <2> QED BY <1>0, <1>1, <2>1
  <1>3. Holders' = Holders
    <2>1. "queued" \notin HasSlot
      BY DEF HasSlot
    <2> QED BY <1>2, <2>1 DEF Holders
  <1>4. /\ waiting' \in Seq(Turn) /\ Len(waiting') = Len(waiting) + 1 /\ Len(waiting) \in Nat
        /\ \A i \in 1 .. Len(waiting) : waiting'[i] = waiting[i]
        /\ waiting'[Len(waiting) + 1] = t
    BY <1>0, <1>1
  <1>5. /\ \A i, j \in 1 .. Len(waiting) : waiting[i] = waiting[j] => i = j
        /\ \A u \in Turn : stage[u] = "queued" <=> \E i \in 1 .. Len(waiting) : waiting[i] = u
        /\ waiting # <<>> => free = 0
    BY DEF SlotInv, QueueInv
  <1>6. \A i \in 1 .. Len(waiting) : waiting[i] # t
    BY <1>5
  <1>7. \A i, j \in 1 .. Len(waiting') : waiting'[i] = waiting'[j] => i = j
    BY <1>4, <1>5, <1>6
  <1>8. \A u \in Turn : stage'[u] = "queued" <=> \E i \in 1 .. Len(waiting') : waiting'[i] = u
    <2>1. ASSUME NEW u \in Turn, u = t PROVE \E i \in 1 .. Len(waiting') : waiting'[i] = u
      <3>1. Len(waiting) + 1 \in 1 .. Len(waiting')
        BY <1>4
      <3> QED BY <1>4, <2>1, <3>1
    <2>2. ASSUME NEW u \in Turn, u # t
          PROVE  (\E i \in 1 .. Len(waiting') : waiting'[i] = u) <=> (\E i \in 1 .. Len(waiting) : waiting[i] = u)
      <3>1. \A i \in 1 .. Len(waiting') : i \in 1 .. Len(waiting) \/ i = Len(waiting) + 1
        BY <1>4
      <3>2. \A i \in 1 .. Len(waiting) : i \in 1 .. Len(waiting')
        BY <1>4
      <3> QED BY <1>4, <2>2, <3>1, <3>2
    <2> QED BY <1>2, <1>5, <2>1, <2>2
  <1>9. free' = 0
    BY <1>0, <1>1, <1>5
  <1> QED BY <1>0, <1>1, <1>2, <1>3, <1>4, <1>7, <1>8, <1>9 DEF SlotInv, QueueInv

\* A turn that is cancelled while it waits leaves the queue.
LEMMA CancelKeepsSlots ==
    ASSUME SlotInv, NEW t \in Turn, CancelQueued(t)
    PROVE  SlotInv'
  <1>0. stage \in [Turn -> Stage] /\ waiting \in Seq(Turn) /\ Len(waiting) \in Nat
    BY DEF SlotInv, QueueInv
  <1>1. PICK k \in 1 .. Len(waiting) : waiting[k] = t /\ waiting' = RemoveAt(waiting, k)
    BY <1>0 DEF CancelQueued
  <1>2. stage[t] = "queued" /\ stage' = [stage EXCEPT ![t] = "stopped"] /\ free' = free
    BY DEF CancelQueued
  <1>3. /\ stage' \in [Turn -> Stage] /\ stage'[t] = "stopped"
        /\ \A u \in Turn : u # t => stage'[u] = stage[u]
    <2>1. "stopped" \in Stage
      BY DEF Stage, Ended
    <2> QED BY <1>0, <1>2, <2>1
  <1>4. Holders' = Holders
    <2>1. "queued" \notin HasSlot /\ "stopped" \notin HasSlot
      BY DEF HasSlot
    <2> QED BY <1>2, <1>3, <2>1 DEF Holders
  <1>5. /\ waiting' \in Seq(Turn) /\ Len(waiting') = Len(waiting) - 1
        /\ \A j \in 1 .. Len(waiting) - 1 : waiting'[j] = IF j < k THEN waiting[j] ELSE waiting[j + 1]
    BY <1>0, <1>1, Removed
  <1>6. /\ \A i, j \in 1 .. Len(waiting) : waiting[i] = waiting[j] => i = j
        /\ \A u \in Turn : stage[u] = "queued" <=> \E i \in 1 .. Len(waiting) : waiting[i] = u
        /\ waiting # <<>> => free = 0
    BY DEF SlotInv, QueueInv
  <1>7. ASSUME NEW j \in 1 .. Len(waiting')
        PROVE  \E i \in 1 .. Len(waiting) : i # k /\ waiting'[j] = waiting[i] /\ i = IF j < k THEN j ELSE j + 1
    BY <1>0, <1>5
  <1>8. \A i, j \in 1 .. Len(waiting') : waiting'[i] = waiting'[j] => i = j
    <2> SUFFICES ASSUME NEW i \in 1 .. Len(waiting'), NEW j \in 1 .. Len(waiting'), waiting'[i] = waiting'[j]
                 PROVE  i = j
      OBVIOUS
    <2>1. PICK a \in 1 .. Len(waiting) : waiting'[i] = waiting[a] /\ a = IF i < k THEN i ELSE i + 1
      BY <1>7
    <2>2. PICK b \in 1 .. Len(waiting) : waiting'[j] = waiting[b] /\ b = IF j < k THEN j ELSE j + 1
      BY <1>7
    <2>3. a = b
      <3>1. waiting[a] = waiting[b]
        BY <2>1, <2>2
      <3>2. \A m, n \in 1 .. Len(waiting) : waiting[m] = waiting[n] => m = n
        BY <1>6
      <3> QED BY <3>1, <3>2
    <2>4. i \in Nat /\ j \in Nat /\ k \in Nat
      BY <1>0, <1>5
    <2>5. (IF i < k THEN i ELSE i + 1) = (IF j < k THEN j ELSE j + 1)
      BY <2>1, <2>2, <2>3
    <2>6. CASE i < k /\ j < k
      BY <2>5, <2>6
    <2>7. CASE ~(i < k) /\ ~(j < k)
      BY <2>4, <2>5, <2>7
    <2>8. CASE i < k /\ ~(j < k)
      BY <2>4, <2>5, <2>8
    <2>9. CASE ~(i < k) /\ j < k
      BY <2>4, <2>5, <2>9
    <2> QED BY <2>6, <2>7, <2>8, <2>9
  <1>9. \A u \in Turn : stage'[u] = "queued" <=> \E j \in 1 .. Len(waiting') : waiting'[j] = u
    <2>1. ASSUME NEW u \in Turn, NEW j \in 1 .. Len(waiting'), waiting'[j] = u PROVE stage'[u] = "queued"
      <3>1. PICK i \in 1 .. Len(waiting) : i # k /\ waiting[i] = u
        BY <1>7, <2>1
      <3>2. u # t
        BY <1>1, <1>6, <3>1
      <3> QED BY <1>3, <1>6, <3>1, <3>2
    <2>2. ASSUME NEW u \in Turn, stage'[u] = "queued" PROVE \E j \in 1 .. Len(waiting') : waiting'[j] = u
      <3>1. u # t /\ stage[u] = "queued"
        BY <1>3, <2>2
      <3>2. PICK i \in 1 .. Len(waiting) : waiting[i] = u /\ i # k
        BY <1>1, <1>6, <3>1
      <3>3. CASE i < k
        <4>1. i \in 1 .. Len(waiting')
          BY <1>0, <1>5, <3>3
        <4>2. waiting'[i] = u
          BY <1>0, <1>5, <3>2, <3>3, <4>1
        <4> QED BY <4>1, <4>2
      <3>4. CASE i > k
        <4>1. i - 1 \in 1 .. Len(waiting') /\ ~(i - 1 < k) /\ i - 1 + 1 = i
          BY <1>0, <1>5, <3>4
        <4>2. waiting'[i - 1] = u
          BY <1>0, <1>5, <3>2, <4>1
        <4> QED BY <4>1, <4>2
      <3> QED BY <3>2, <3>3, <3>4
    <2> QED BY <2>1, <2>2
  <1>10. waiting' # <<>> => free' = 0
    <2>1. waiting # <<>>
      BY <1>0, <1>1
    <2> QED BY <1>2, <1>6, <2>1
  <1> QED BY <1>2, <1>3, <1>4, <1>5, <1>8, <1>9, <1>10 DEF SlotInv, QueueInv

\* Where a failed attempt leaves its turn, and where an arriving one comes from.
LEMMA Outside ==
    /\ \A t, r : AfterError(t, r) \in Ended \cup {"backoff"}
    /\ \A s \in Ended \cup {"idle", "backoff"} : s \in Stage /\ s \notin HasSlot /\ s # "queued"
    /\ \A s \in HasSlot : s \in Stage /\ s # "queued"
  BY DEF AfterError, Ended, Stage, HasSlot, InFlight

\* Every step keeps the slots.
LEMMA NextSlots == SlotInv /\ [Next]_vars => SlotInv'
  <1> SUFFICES ASSUME SlotInv, [Next]_vars PROVE SlotInv'
    OBVIOUS
  <1>1. CASE UNCHANGED <<stage, quota>>
    <2>1. Holders' = Holders
      BY <1>1 DEF Holders
    <2> QED BY <1>1, <2>1 DEF SlotInv, QueueInv, quota
  <1>2. ASSUME OpenElapses \/ Refill \/ UNCHANGED vars PROVE UNCHANGED <<stage, quota>>
    BY <1>2 DEF OpenElapses, Refill, vars, quota
  <1>3. ASSUME NEW t \in Turn, Shows(t) PROVE UNCHANGED <<stage, quota>>
    BY <1>3 DEF Shows
  <1>4. ASSUME NEW t \in Turn, Arrive(t) PROVE SlotInv'
    <2>1. stage[t] \in {"idle", "backoff"}
      BY <1>4 DEF Arrive, Degrade, Block, Admit, AdmitLimited, Queue, Gated, Arriving
    <2>2. stage[t] \notin HasSlot /\ stage[t] # "queued"
      BY <2>1, Outside
    <2>3. CASE Degrade(t) \/ Block(t) \/ AdmitLimited(t)
      <3>1. PICK next \in Ended \cup {"backoff"} : stage' = [stage EXCEPT ![t] = next]
        BY <2>3, Outside DEF Degrade, Block, AdmitLimited, Ended
      <3>2. UNCHANGED quota
        BY <2>3 DEF Degrade, Block, AdmitLimited
      <3> QED BY <2>2, <3>1, <3>2, MoveKeepsSlots, Outside
    <2>4. CASE Admit(t)
      <3>1. PICK next \in HasSlot : stage' = [stage EXCEPT ![t] = next]
        BY <2>4 DEF Admit, HasSlot
      <3>2. free > 0 /\ free' = free - 1 /\ waiting = <<>> /\ waiting' = waiting
        BY <2>4 DEF Admit, SlotAtOnce
      <3> QED BY <2>2, <3>1, <3>2, AdmitKeepsSlots
    <2>5. CASE Queue(t)
      BY <2>2, <2>5, QueueKeepsSlots
    <2> QED BY <1>4, <2>3, <2>4, <2>5 DEF Arrive
  <1>5. ASSUME NEW t \in Turn, Acquires(t) PROVE SlotInv'
    <2>1. stage[t] \in HasSlot
      BY <1>5 DEF Acquires, GetsToken, Paces, Limited, HasSlot
    <2>2. CASE GetsToken(t) \/ Paces(t)
      <3>1. PICK next \in HasSlot : stage' = [stage EXCEPT ![t] = next]
        BY <2>2 DEF GetsToken, Paces, HasSlot
      <3>2. UNCHANGED quota
        BY <2>2 DEF GetsToken, Paces
      <3> QED BY <2>1, <3>1, <3>2, MoveKeepsSlots, Outside
    <2>3. CASE Limited(t)
      BY <2>1, <2>3, ReleaseKeepsSlots, Outside DEF Limited
    <2> QED BY <1>5, <2>2, <2>3 DEF Acquires
  <1>6. ASSUME NEW t \in Turn, StreamEnds(t) PROVE SlotInv'
    <2>1. stage[t] \in HasSlot
      BY <1>6 DEF StreamEnds, Answers, Errs, BreaksOff, HasSlot
    <2>2. PICK next \in Ended \cup {"backoff"} : Release(t, next)
      BY <1>6, Outside DEF StreamEnds, Answers, Errs, BreaksOff, Ended
    <2> QED BY <2>1, <2>2, ReleaseKeepsSlots
  <1>7. ASSUME NEW t \in Turn, Cancel(t) PROVE SlotInv'
    <2>1. CASE CancelQueued(t)
      BY <2>1, CancelKeepsSlots
    <2>2. CASE CancelAdmitted(t)
      <3>1. stage[t] \in HasSlot /\ Release(t, "stopped") /\ "stopped" \in Ended
        BY <2>2 DEF CancelAdmitted, HasSlot, Ended
      <3> QED BY <3>1, ReleaseKeepsSlots
    <2>3. CASE CancelBackoff(t)
      <3>1. /\ stage[t] = "backoff" /\ stage' = [stage EXCEPT ![t] = "stopped"] /\ UNCHANGED quota
            /\ "stopped" \in Ended
        BY <2>3 DEF CancelBackoff, Ended
      <3> QED BY <3>1, MoveKeepsSlots, Outside
    <2> QED BY <1>7, <2>1, <2>2, <2>3 DEF Cancel
  <1> QED BY <1>1, <1>2, <1>3, <1>4, <1>5, <1>6, <1>7 DEF Next

\* The slots of the semaphore are conserved: refused, limited, cancelled, failed or
\* broken off, a call gives back what it took, to the first that waits, and nobody
\* waits while a slot is free (ProviderGateway.acquire and release).
THEOREM SlotsAreConserved == Spec => []SlotsConserved
  <1>1. Init => SlotInv
    <2> SUFFICES ASSUME Init PROVE SlotInv
      OBVIOUS
    <2>1. Holders = {}
      BY DEF Init, Holders, HasSlot
    <2>2. stage \in [Turn -> Stage] /\ free \in Nat /\ free = MaxConcurrency
      BY GatewayAssumption DEF Init, Stage
    <2>3. QueueInv
      BY DEF Init, QueueInv
    <2> QED BY <2>1, <2>2, <2>3, FS_EmptySet DEF SlotInv
  <1>2. SlotInv => SlotsConserved
    BY DEF SlotInv, QueueInv, SlotsConserved, Holders
  <1> QED BY <1>1, <1>2, NextSlots, PTL DEF Spec

-------------------------------------------------------------------------------
(* A stream was heard if and only if the attempt under way has shown output. *)
HeardInv == heard = IF hadOutput THEN 1 ELSE 0

(* Nothing the user has seen comes from two streams: what is shown makes an attempt final
   (runtime.py, had_provider_output). *)
THEOREM OneStreamIsHeard == TurnSpec => []OneStreamHeard
  <1>1. TurnInit => HeardInv
    BY DEF TurnInit, HeardInv
  <1>2. HeardInv /\ [TurnNext]_turnVars => HeardInv'
    <2> SUFFICES ASSUME HeardInv, [TurnNext]_turnVars PROVE HeardInv'
      OBVIOUS
    <2>1. CASE UNCHANGED <<hadOutput, heard>>
      BY <2>1 DEF HeardInv
    <2>2. CASE Hears
      BY <2>2 DEF HeardInv, Hears
    <2>3. CASE Again /\ Replayable /\ UNCHANGED heard
      BY <2>3 DEF HeardInv, Again, Replayable
    <2>4. CASE Opens \/ NotFound \/ OpenFails \/ Responses \/ Chat \/ TextDelta
      <3>1. UNCHANGED consumer
        BY <2>4 DEF Opens, NotFound, OpenFails, Responses, Chat, TextDelta, ResponseCompleted,
                    ResponseFails, ItemAdded, ArgumentsDelta, TextDone, ItemDone, Responds, Chats,
                    ChatFinishReason, ChatEnds, ChatFails, ChatChunk
      <3> QED BY <2>1, <3>1 DEF consumer
    <2>5. CASE Consume
      <3>1. UNCHANGED <<hadOutput, heard>> \/ Hears \/ (Again /\ Replayable /\ UNCHANGED heard)
        <4>1. CASE TakeText
          BY <4>1 DEF TakeText, Breaks, TurnEnds
        <4>2. CASE TakeStart
          BY <4>2 DEF TakeStart, Breaks, TurnEnds
        <4>3. CASE TakeDelta
          BY <4>3 DEF TakeDelta, Breaks, TurnEnds
        <4>4. CASE TakeEnd
          BY <4>4 DEF TakeEnd, Breaks, TurnEnds
        <4>5. CASE TakeError
          BY <4>5 DEF TakeError, TurnEnds
        <4>6. CASE TakeDone
          BY <4>6 DEF TakeDone, TurnEnds
        <4> QED BY <2>5, <4>1, <4>2, <4>3, <4>4, <4>5, <4>6 DEF Consume
      <3> QED BY <2>1, <2>2, <2>3, <3>1
    <2>6. CASE Stopped
      BY <2>1, <2>6 DEF Stopped, TurnEnds
    <2>7. CASE UNCHANGED turnVars
      BY <2>1, <2>7 DEF turnVars
    <2> QED BY <2>4, <2>5, <2>6, <2>7 DEF TurnNext
  <1>3. HeardInv => OneStreamHeard
    BY DEF HeardInv, OneStreamHeard
  <1> QED BY <1>1, <1>2, <1>3, PTL DEF TurnSpec

-------------------------------------------------------------------------------
(* What is kept of a call, and what the adapter yields. *)
CallState ==
    [id : Maybe(Id), name : Maybe(Name), parts : Nat, sent : Nat, final : Maybe(Nat),
     started : BOOLEAN, ended : BOOLEAN]
Argument == [raw : Nat, arguments : Maybe(Nat)]
Item ==
    {Text(n) : n \in 1 .. 2} \cup {Start(i) : i \in Id} \cup {Delta(i) : i \in Id}
      \cup {End(i, n) : i \in Id, n \in Nat} \cup {Error(kind) : kind \in Kinds \cup {"protocol"}} \cup {Done}

TurnTypes ==
    /\ mode \in {"responses", "chat"} /\ stream \in {"none", "open", "closed"}
    /\ calls \in [Key -> CallState] /\ known \in Seq(Key) /\ owner \in [Id -> Maybe(Key)]
    /\ items \in Seq(Item)
    /\ order \in Seq(Id) /\ call \in [Id -> Argument] /\ ended \subseteq Id /\ ignored \subseteq Id

(* Nothing was read of the stream yet. *)
Blank ==
    /\ items = <<>> /\ known = <<>> /\ order = <<>> /\ ended = {} /\ ignored = {}
    /\ \A k \in Key : calls[k] = NoCall

(* The calls the loop has begun, or passed over. *)
Begun == ToSet(order) \cup ignored

(* A call has an id of its own, and once it has one nothing of it is kept back; it ends whole. *)
CallInv ==
    \A k \in Key :
        /\ calls[k].id # None =>
              calls[k].started /\ calls[k].sent = calls[k].parts /\ owner[calls[k].id] = k /\ k \in ToSet(known)
        /\ calls[k].id = None => ~calls[k].started /\ calls[k].sent = 0 /\ ~calls[k].ended
        /\ calls[k].ended => calls[k].final \in Objects /\ calls[k].name # None /\ mode = "responses"
        /\ mode = "chat" => calls[k].final = None

(* What the loop has begun is a call of the adapter, and one the adapter knows is begun, or is
   about to be. *)
BegunInv ==
    /\ ToSet(order) \cap ignored = {}
    /\ \A i \in Begun : \E k \in Key : calls[k].id = i
    /\ \A k \in Key : calls[k].id # None =>
          calls[k].id \in Begun \/ \E n \in 1 .. Len(items) : items[n] = Start(calls[k].id)

(* An ended call has the arguments it was completed with. *)
EndedInv ==
    /\ ended \subseteq ToSet(order)
    /\ \A k \in Key : calls[k].id \in ended =>
          /\ calls[k].name # None /\ call[calls[k].id].arguments \in Objects
          /\ mode = "responses" => call[calls[k].id].arguments = calls[k].final
          /\ mode = "chat" => stream = "closed" /\ call[calls[k].id].arguments = calls[k].parts

(* All pieces that the adapter has seen have arrived, but for d of call k. *)
Arrived(k, d) ==
    \A j \in Key : calls[j].id \in ToSet(order) =>
        call[calls[j].id].raw + (IF j = k THEN d ELSE 0) = calls[j].parts

(* What is on its way is of one call: its start or not, d pieces, its end or not. *)
Emission(k, s, d, e) ==
    /\ Len(items) = s + d + e
    /\ \A n \in 1 .. Len(items) :
          items[n] = IF n <= s THEN Start(calls[k].id)
                     ELSE IF n <= s + d THEN Delta(calls[k].id) ELSE End(calls[k].id, calls[k].final)
    /\ calls[k].id # None
    /\ e = 1 => calls[k].ended
    /\ s = 1 => calls[k].id \notin Begun /\ d = calls[k].parts
    /\ s = 0 => calls[k].id \in Begun
    /\ Arrived(k, d)

(* Or it is a text, an error, or the last of the stream: ends of calls, then whether it is done. *)
IsLast(n) ==
    /\ items[n].type \in {"text", "end", "error", "done"}
    /\ items[n].type = "end" =>
          /\ stream = "closed" /\ mode = "chat"
          /\ \E k \in Key : /\ items[n] = End(calls[k].id, calls[k].parts) /\ calls[k].id # None
                            /\ calls[k].parts \in Objects /\ calls[k].name # None
    /\ items[n].type = "done" =>
          n = Len(items) /\ stream = "closed" /\ \A k \in ToSet(known) : calls[k].id # None
LastItems ==
    /\ \A n \in 1 .. Len(items) : IsLast(n)
    /\ \A k \in Key : Arrived(k, 0)

ItemsInv == LastItems \/ \E k \in Key, s, e \in 0 .. 1, d \in 0 .. Len(items) : Emission(k, s, d, e)

LoopInv == (stream = "none" => Blank) /\ CallInv /\ BegunInv /\ EndedInv /\ ItemsInv

TurnInv == TurnTypes /\ (Asking => LoopInv) /\ CallsAreWhole

-------------------------------------------------------------------------------
(* The parts of what is kept of a call. *)
LEMMA CallParts ==
    \A c \in CallState :
        /\ c.id \in Maybe(Id) /\ c.name \in Maybe(Name) /\ c.parts \in Nat /\ c.sent \in Nat
        /\ c.final \in Maybe(Nat) /\ c.started \in BOOLEAN /\ c.ended \in BOOLEAN
  BY DEF CallState

(* The parts of what the loop has of a call. *)
LEMMA ArgumentParts == \A a \in Argument : a.raw \in Nat /\ a.arguments \in Maybe(Nat)
  BY DEF Argument

(* None is no member of anything. *)
LEMMA NoneIsNone ==
    /\ None \notin Id /\ None \notin Name /\ None \notin Key /\ None \notin Nat
    /\ None \notin Objects /\ Objects \subseteq Nat
  BY TurnAssumption

(* Items of different types differ, and those of one type by what they carry. *)
LEMMA ItemTypes ==
    /\ \A n : Text(n).type = "text" /\ Text(n).size = n
    /\ \A i : Start(i).type = "start" /\ Start(i).id = i
    /\ \A i : Delta(i).type = "delta" /\ Delta(i).id = i
    /\ \A i, n : End(i, n).type = "end" /\ End(i, n).id = i /\ End(i, n).arguments = n
    /\ \A kind : Error(kind).type = "error" /\ Error(kind).kind = kind
    /\ Done.type = "done"
  BY DEF Text, Start, Delta, End, Error, Done

(* A sequence that is one longer has one member more. *)
LEMMA OneMore ==
    ASSUME NEW S, NEW q \in Seq(S), NEW x \in S
    PROVE  Append(q, x) \in Seq(S) /\ ToSet(Append(q, x)) = ToSet(q) \cup {x}
  <1>1. /\ Append(q, x) \in Seq(S) /\ Len(q) \in Nat /\ Len(Append(q, x)) = Len(q) + 1
        /\ DOMAIN q = 1 .. Len(q) /\ DOMAIN Append(q, x) = 1 .. Len(q) + 1
        /\ \A n \in 1 .. Len(q) : Append(q, x)[n] = q[n]
        /\ Append(q, x)[Len(q) + 1] = x
    OBVIOUS
  <1>2. ToSet(Append(q, x)) \subseteq ToSet(q) \cup {x}
    <2> SUFFICES ASSUME NEW n \in 1 .. Len(q) + 1 PROVE Append(q, x)[n] \in ToSet(q) \cup {x}
      BY <1>1 DEF ToSet
    <2>1. CASE n \in 1 .. Len(q)
      BY <1>1, <2>1 DEF ToSet
    <2>2. CASE n = Len(q) + 1
      BY <1>1, <2>2
    <2> QED BY <1>1, <2>1, <2>2
  <1>3. ToSet(q) \cup {x} \subseteq ToSet(Append(q, x))
    <2>1. x \in ToSet(Append(q, x))
      BY <1>1 DEF ToSet
    <2>2. ASSUME NEW n \in 1 .. Len(q) PROVE q[n] \in ToSet(Append(q, x))
      <3>1. n \in 1 .. Len(q) + 1
        BY <1>1
      <3> QED BY <1>1, <3>1 DEF ToSet
    <2> QED BY <1>1, <2>1, <2>2 DEF ToSet
  <1> QED BY <1>1, <1>2, <1>3

(* The items are consumed from the front. *)
LEMMA Consumed ==
    ASSUME items \in Seq(Item), items # <<>>, items' = Tail(items)
    PROVE  /\ items' \in Seq(Item) /\ Len(items) \in Nat \ {0} /\ Len(items') = Len(items) - 1
           /\ \A n \in 1 .. Len(items') : n + 1 \in 1 .. Len(items) /\ items'[n] = items[n + 1]
           /\ Head(items) = items[1] /\ 1 \in 1 .. Len(items)
  OBVIOUS

-------------------------------------------------------------------------------
(* The steps, by what they are for the invariant. *)

(* An event about call k, which becomes c before what is ready of it is yielded. *)
Reading(k, c) ==
    /\ stream = "open" /\ items = <<>> /\ UNCHANGED <<mode, stream, batch, outcome>>
    /\ c.started = calls[k].started /\ c.sent = calls[k].sent /\ c.ended = calls[k].ended
    /\ calls[k].id \in {None, c.id} /\ calls[k].name \in {None, c.name} /\ calls[k].final \in {None, c.final}
    /\ calls[k].parts <= c.parts /\ (calls[k].ended => c.parts = calls[k].parts)
    /\ c.id # None => owner[c.id] \in {None, k}
    /\ mode = "chat" => c.final = None
    /\ c.id # None /\ c.final # None /\ ~c.ended => c.name # None /\ c.final \in Objects /\ mode = "responses"
    /\ Becomes(k, c)

(* An event about no call: a text, an error, the last items of the stream. *)
OnlyLast == \A n \in 1 .. Len(items) : IsLast(n)
Telling ==
    /\ items = <<>> /\ items' \in Seq(Item) /\ OnlyLast'
    /\ stream' \in {stream, "closed"} /\ stream' # "none"
    /\ UNCHANGED <<mode, calls, known, owner, batch, outcome>>

(* A new stream. *)
Blanking == TurnTypes' /\ Blank' /\ UNCHANGED outcome

(* An item of the loop. *)
Hearing(i) == Asking /\ items # <<>> /\ i \in Id /\ items' = Tail(items) /\ UNCHANGED <<mode, adapter, outcome>>
Begins(i) ==
    /\ Hearing(i) /\ Head(items) = Start(i)
    /\ \/ ignored' = ignored \cup {i} /\ UNCHANGED <<order, call, ended>>
       \/ order' = Append(order, i) /\ call' = [call EXCEPT ![i] = [raw |-> 0, arguments |-> None]]
          /\ UNCHANGED <<ended, ignored>>
Extends(i) ==
    /\ Hearing(i) /\ Head(items) = Delta(i)
    /\ call' = IF i \in ignored THEN call ELSE [call EXCEPT ![i].raw = @ + 1]
    /\ UNCHANGED <<order, ended, ignored>>
Completes(i, n) ==
    /\ Hearing(i) /\ n \in Nat /\ Head(items) = End(i, n)
    /\ call' = IF i \in ignored THEN call ELSE [call EXCEPT ![i].arguments = n]
    /\ ended' = IF i \in ignored THEN ended ELSE ended \cup {i}
    /\ UNCHANGED <<order, ignored>>
Reads ==
    /\ Asking /\ items # <<>> /\ Head(items).type = "text" /\ items' = Tail(items)
    /\ UNCHANGED <<mode, adapter, batch, outcome>>

-------------------------------------------------------------------------------
(* With no item on its way all pieces have arrived. *)
LEMMA AllArrived ==
    ASSUME TurnTypes, ItemsInv, items = <<>>
    PROVE  \A j \in Key : calls[j].id \in ToSet(order) => call[calls[j].id].raw = calls[j].parts
  <1>1. /\ Len(items) = 0
        /\ \A j \in Key : calls[j].id \in ToSet(order) => call[calls[j].id].raw \in Nat /\ calls[j].parts \in Nat
    <2>1. \A j \in Key : calls[j].parts \in Nat
      BY CallParts DEF TurnTypes
    <2>2. ToSet(order) \subseteq Id
      BY DEF TurnTypes, ToSet
    <2> QED BY <2>1, <2>2, ArgumentParts DEF TurnTypes
  <1>2. CASE LastItems
    BY <1>1, <1>2 DEF LastItems, Arrived
  <1>3. ASSUME NEW k \in Key, NEW s \in 0 .. 1, NEW e \in 0 .. 1, NEW d \in 0 .. Len(items), Emission(k, s, d, e)
        PROVE  Arrived(k, 0)
    BY <1>1, <1>3 DEF Emission
  <1>4. CASE \E k \in Key : Arrived(k, 0)
    BY <1>1, <1>4 DEF Arrived
  <1> QED BY <1>2, <1>3, <1>4 DEF ItemsInv

(* What is ready of a call is its start, the pieces not sent yet, and its end. *)
LEMMA ReadyIs ==
    ASSUME NEW c \in CallState, c.id # None, c.sent <= c.parts
    PROVE  LET s == IF c.started THEN 0 ELSE 1
               d == c.parts - c.sent
               e == IF c.final # None /\ ~c.ended THEN 1 ELSE 0
           IN /\ d \in Nat /\ Ready(c) \in Seq(Item) /\ Len(Ready(c)) = s + d + e
              /\ \A n \in 1 .. Len(Ready(c)) :
                    Ready(c)[n] = IF n <= s THEN Start(c.id) ELSE IF n <= s + d THEN Delta(c.id) ELSE End(c.id, c.final)
  <1> DEFINE s == IF c.started THEN 0 ELSE 1
             d == c.parts - c.sent
             e == IF c.final # None /\ ~c.ended THEN 1 ELSE 0
             S == IF c.started THEN <<>> ELSE <<Start(c.id)>>
             D == [n \in 1 .. c.parts - c.sent |-> Delta(c.id)]
             E == IF c.final # None /\ ~c.ended THEN <<End(c.id, c.final)>> ELSE <<>>
  <1>1. c.id \in Id /\ c.final \in Maybe(Nat) /\ d \in Nat
    BY CallParts DEF Maybe
  <1>2. S \in Seq(Item) /\ Len(S) = s /\ (s = 1 => S[1] = Start(c.id))
    <2>1. Start(c.id) \in Item
      BY <1>1 DEF Item
    <2> QED BY <2>1
  <1>3. D \in Seq(Item) /\ Len(D) = d /\ \A n \in 1 .. d : D[n] = Delta(c.id)
    <2>1. Delta(c.id) \in Item
      BY <1>1 DEF Item
    <2> QED BY <1>1, <2>1
  <1>4. E \in Seq(Item) /\ Len(E) = e /\ (e = 1 => E[1] = End(c.id, c.final))
    <2>1. c.final # None => End(c.id, c.final) \in Item
      BY <1>1 DEF Item, Maybe
    <2> QED BY <2>1
  <1>5. Ready(c) = S \o D \o E
    BY DEF Ready
  <1>6. s \in 0 .. 1 /\ e \in 0 .. 1
    OBVIOUS
  <1> HIDE DEF S, D, E, s, d, e
  <1>7. S \o D \in Seq(Item) /\ Len(S \o D) = s + d
        /\ \A n \in 1 .. s + d : (S \o D)[n] = IF n <= s THEN Start(c.id) ELSE Delta(c.id)
    BY <1>1, <1>2, <1>3, <1>6
  <1>8. /\ (S \o D) \o E \in Seq(Item) /\ Len((S \o D) \o E) = s + d + e
        /\ \A n \in 1 .. s + d + e : ((S \o D) \o E)[n] = IF n <= s + d THEN (S \o D)[n] ELSE End(c.id, c.final)
    BY <1>1, <1>4, <1>6, <1>7
  <1>9. \A n \in 1 .. s + d + e : Ready(c)[n] = IF n <= s THEN Start(c.id) ELSE IF n <= s + d THEN Delta(c.id)
                                                   ELSE End(c.id, c.final)
    BY <1>1, <1>5, <1>6, <1>7, <1>8
  <1> QED BY <1>1, <1>5, <1>8, <1>9 DEF s, d, e

(* What becomes of a call when what is ready of it is yielded. *)
LEMMA EmittedIs ==
    ASSUME NEW c \in CallState, c.id = None => c.sent = 0
    PROVE  LET e == Emitted(c)
           IN /\ e \in CallState /\ e.id = c.id /\ e.name = c.name /\ e.parts = c.parts /\ e.final = c.final
              /\ c.id = None => e.sent = 0 /\ e.started = c.started /\ e.ended = c.ended
              /\ c.id # None => e.sent = c.parts /\ e.started /\ (e.ended <=> c.ended \/ c.final # None)
  BY DEF CallState, Emitted

(* No two calls have one id. *)
LEMMA OneOwner ==
    ASSUME CallInv, NEW k \in Key, NEW j \in Key, calls[k].id # None, calls[j].id = calls[k].id
    PROVE  j = k
  BY DEF CallInv

(* An event about a call keeps what is known of it and of the others. *)
LEMMA ReadingKeeps ==
    ASSUME TurnTypes, LoopInv, NEW k \in Key, NEW c \in CallState, Reading(k, c)
    PROVE  TurnTypes' /\ LoopInv'
  <1> DEFINE s == IF c.started THEN 0 ELSE 1
             d == c.parts - c.sent
             e == IF c.final # None /\ ~c.ended THEN 1 ELSE 0
  <1>1. /\ stream = "open" /\ items = <<>> /\ mode' = mode /\ stream' = stream
        /\ order' = order /\ call' = call /\ ended' = ended /\ ignored' = ignored
        /\ calls' = [calls EXCEPT ![k] = Emitted(c)]
        /\ known' = IF Contains(known, k) THEN known ELSE Append(known, k)
        /\ owner' = IF c.id = None THEN owner ELSE [owner EXCEPT ![c.id] = k]
        /\ items' = Ready(c)
    BY DEF Reading, Becomes, batch
  <1>2. /\ c.started = calls[k].started /\ c.sent = calls[k].sent /\ c.ended = calls[k].ended
        /\ calls[k].id \in {None, c.id} /\ calls[k].name \in {None, c.name} /\ calls[k].final \in {None, c.final}
        /\ calls[k].parts <= c.parts /\ (calls[k].ended => c.parts = calls[k].parts)
        /\ c.id # None => owner[c.id] \in {None, k}
        /\ mode = "chat" => c.final = None
        /\ c.id # None /\ c.final # None /\ ~c.ended => c.name # None /\ c.final \in Objects /\ mode = "responses"
    BY DEF Reading
  <1>3. /\ CallInv /\ BegunInv /\ EndedInv /\ ItemsInv
        /\ calls[k] \in CallState /\ c.id \in Maybe(Id) /\ Begun \subseteq Id /\ ToSet(order) \subseteq Id
        /\ c.parts \in Nat /\ calls[k].parts \in Nat /\ Len(items) = 0
    BY <1>1, CallParts DEF LoopInv, TurnTypes, Begun, ToSet
  <1>4. c.sent \in Nat /\ c.sent <= c.parts /\ (c.id = None => c.sent = 0)
    <2>1. CASE calls[k].id = None
      BY <1>2, <1>3, <2>1 DEF CallInv
    <2>2. CASE calls[k].id # None
      BY <1>2, <1>3, <2>2 DEF CallInv
    <2> QED BY <2>1, <2>2
  <1>5. /\ calls'[k] = Emitted(c) /\ \A j \in Key : j # k => calls'[j] = calls[j]
        /\ calls' \in [Key -> CallState]
    BY <1>1, <1>4, EmittedIs DEF TurnTypes
  <1>6. /\ calls'[k].id = c.id /\ calls'[k].name = c.name /\ calls'[k].parts = c.parts /\ calls'[k].final = c.final
        /\ c.id = None => calls'[k].sent = 0 /\ calls'[k].started = c.started /\ calls'[k].ended = c.ended
        /\ c.id # None => calls'[k].sent = c.parts /\ calls'[k].started
                          /\ (calls'[k].ended <=> c.ended \/ c.final # None)
    BY <1>4, <1>5, EmittedIs
  <1>7. known' \in Seq(Key) /\ ToSet(known') = ToSet(known) \cup {k}
    <2>1. CASE Contains(known, k)
      BY <1>1, <2>1 DEF Contains, ToSet, TurnTypes
    <2>2. CASE ~Contains(known, k)
      BY <1>1, <2>2, OneMore DEF TurnTypes
    <2> QED BY <2>1, <2>2
  <1>8. owner' \in [Id -> Maybe(Key)]
    BY <1>1, <1>3 DEF Maybe, TurnTypes
  <1>9. c.id = None => items' = <<>> /\ Len(items') = 0
    BY <1>1 DEF Ready
  <1>10. c.id # None =>
            /\ d \in Nat /\ items' \in Seq(Item) /\ Len(items') = s + d + e
            /\ \A n \in 1 .. Len(items') :
                  items'[n] = IF n <= s THEN Start(c.id) ELSE IF n <= s + d THEN Delta(c.id) ELSE End(c.id, c.final)
    BY <1>1, <1>4, ReadyIs
  <1>11. TurnTypes'
    <2>1. items' \in Seq(Item)
      <3>1. CASE c.id = None
        BY <1>9, <3>1
      <3>2. CASE c.id # None
        BY <1>10, <3>2
      <3> QED BY <3>1, <3>2
    <2>2. /\ mode' \in {"responses", "chat"} /\ stream' \in {"none", "open", "closed"}
          /\ order' \in Seq(Id) /\ call' \in [Id -> Argument] /\ ended' \subseteq Id /\ ignored' \subseteq Id
      BY <1>1 DEF TurnTypes
    <2> QED BY <1>5, <1>7, <1>8, <2>1, <2>2 DEF TurnTypes
  <1>12. ASSUME NEW j \in Key, calls[j].id = c.id, c.id # None PROVE j = k
    <2>1. owner[c.id] = j
      BY <1>3, <1>12 DEF CallInv
    <2> QED BY <1>2, <1>12, <2>1, NoneIsNone
  <1>13. c.id # None /\ calls[k].id = None => c.id \notin Begun
    BY <1>3, <1>12 DEF BegunInv
  <1>14. CallInv'
    <2> SUFFICES ASSUME NEW j \in Key
                 PROVE  /\ calls'[j].id # None =>
                              /\ calls'[j].started /\ calls'[j].sent = calls'[j].parts
                              /\ owner'[calls'[j].id] = j /\ j \in ToSet(known')
                        /\ calls'[j].id = None => ~calls'[j].started /\ calls'[j].sent = 0 /\ ~calls'[j].ended
                        /\ calls'[j].ended => calls'[j].final \in Objects /\ calls'[j].name # None /\ mode = "responses"
                        /\ mode = "chat" => calls'[j].final = None
      BY <1>1 DEF CallInv
    <2>1. CASE j # k
      <3>1. calls'[j] = calls[j] /\ (c.id # None => calls[j].id # c.id)
        BY <1>5, <1>12, <2>1
      <3>2. calls[j].id # None => owner'[calls[j].id] = owner[calls[j].id]
        <4>1. calls[j].id \in Maybe(Id)
          BY CallParts DEF TurnTypes
        <4> QED BY <1>1, <3>1, <4>1 DEF Maybe, TurnTypes
      <3> QED BY <1>3, <1>7, <3>1, <3>2 DEF CallInv
    <2>2. CASE j = k
      <3>1. c.id # None => owner'[c.id] = k
        BY <1>1, <1>3 DEF Maybe, TurnTypes
      <3>2. c.id = None => ~c.started /\ ~c.ended
        BY <1>2, <1>3 DEF CallInv
      <3>3. c.ended => c.final \in Objects /\ c.name # None /\ mode = "responses"
        BY <1>2, <1>3, NoneIsNone DEF CallInv
      <3>4. calls'[k].ended => calls'[k].final \in Objects /\ calls'[k].name # None /\ mode = "responses"
        BY <1>2, <1>6, <3>2, <3>3
      <3> QED BY <1>2, <1>6, <1>7, <2>2, <3>1, <3>2, <3>4
    <2> QED BY <2>1, <2>2
  <1>15. BegunInv'
    <2>1. \A i \in Begun : \E j \in Key : calls'[j].id = i
      <3> SUFFICES ASSUME NEW i \in Begun PROVE \E j \in Key : calls'[j].id = i
        OBVIOUS
      <3>1. PICK j \in Key : calls[j].id = i
        BY <1>3 DEF BegunInv
      <3>2. i # None
        BY <1>3, NoneIsNone
      <3>3. calls'[j].id = i
        BY <1>2, <1>5, <1>6, <3>1, <3>2
      <3> QED BY <3>3
    <2>2. ASSUME NEW j \in Key, calls'[j].id # None
          PROVE  calls'[j].id \in Begun \/ \E n \in 1 .. Len(items') : items'[n] = Start(calls'[j].id)
      <3>1. CASE j # k
        BY <1>3, <1>5, <2>2, <3>1 DEF BegunInv
      <3>2. CASE j = k /\ calls[k].id # None
        BY <1>2, <1>3, <1>6, <2>2, <3>2 DEF BegunInv
      <3>3. CASE j = k /\ calls[k].id = None
        <4>1. ~c.started
          BY <1>2, <1>3, <3>3 DEF CallInv
        <4>2. s = 1 /\ e \in 0 .. 1 /\ 1 \in 1 .. Len(items') /\ items'[1] = Start(c.id)
          BY <1>6, <1>10, <2>2, <3>3, <4>1
        <4> QED BY <1>6, <3>3, <4>2
      <3> QED BY <3>1, <3>2, <3>3
    <2>3. ToSet(order) \cap ignored = {}
      BY <1>3 DEF BegunInv
    <2> QED BY <1>1, <2>1, <2>2, <2>3 DEF BegunInv, Begun
  <1>16. EndedInv'
    <2> SUFFICES ASSUME NEW j \in Key, calls'[j].id \in ended
                 PROVE  /\ calls'[j].name # None /\ call[calls'[j].id].arguments \in Objects
                        /\ mode = "responses" => call[calls'[j].id].arguments = calls'[j].final
                        /\ mode = "chat" => stream = "closed" /\ call[calls'[j].id].arguments = calls'[j].parts
      BY <1>1, <1>3 DEF EndedInv
    <2>1. CASE j # k
      BY <1>3, <1>5, <2>1 DEF EndedInv
    <2>2. CASE j = k
      <3>1. c.id \in ended /\ c.id \in Begun /\ c.id # None
        BY <1>3, <1>6, <2>2, NoneIsNone DEF EndedInv, Begun
      <3>2. calls[k].id = c.id
        BY <1>2, <1>13, <3>1
      <3>3. /\ calls[k].name # None /\ call[c.id].arguments \in Objects /\ mode # "chat"
            /\ mode = "responses" => call[c.id].arguments = calls[k].final
        BY <1>1, <1>3, <3>1, <3>2 DEF EndedInv
      <3>4. mode = "responses"
        BY <3>3 DEF TurnTypes
      <3>5. calls[k].final # None /\ c.final = calls[k].final /\ c.name = calls[k].name
        BY <1>2, <3>3, <3>4, NoneIsNone
      <3> QED BY <1>6, <2>2, <3>3, <3>4, <3>5
    <2> QED BY <2>1, <2>2
  <1>17. \A j \in Key : calls[j].id \in ToSet(order) => call[calls[j].id].raw = calls[j].parts
                                                       /\ call[calls[j].id].raw \in Nat
    <2>1. \A i \in Id : call[i].raw \in Nat
      BY ArgumentParts DEF TurnTypes
    <2> QED BY <1>1, <1>3, <2>1, AllArrived
  <1>18. ItemsInv'
    <2>1. CASE c.id = None
      <3>1. \A j \in Key : calls'[j].id \in ToSet(order) => j # k /\ calls'[j] = calls[j]
        BY <1>3, <1>5, <1>6, <2>1, NoneIsNone
      <3>2. \A j \in Key : Arrived(j, 0)'
        <4> SUFFICES ASSUME NEW j \in Key, calls'[j].id \in ToSet(order)
                     PROVE  call[calls'[j].id].raw + 0 = calls'[j].parts
          BY <1>1 DEF Arrived
        <4> QED BY <1>17, <3>1
      <3>3. \A n \in 1 .. Len(items') : IsLast(n)'
        BY <1>9, <2>1
      <3> QED BY <3>2, <3>3 DEF ItemsInv, LastItems
    <2>2. CASE c.id # None
      <3>1. s \in 0 .. 1 /\ e \in 0 .. 1 /\ d \in 0 .. Len(items') /\ Len(items') = s + d + e
        BY <1>10, <2>2
      <3>2. s = 1 => c.id \notin Begun /\ d = c.parts
        <4> HAVE s = 1
        <4>1. ~c.started
          OBVIOUS
        <4>2. calls[k].id = None /\ c.sent = 0
          BY <1>2, <1>3, <4>1 DEF CallInv
        <4> QED BY <1>3, <1>13, <2>2, <4>2
      <3>3. s = 0 => c.id \in Begun /\ c.sent = calls[k].parts /\ calls[k].id = c.id
        <4> HAVE s = 0
        <4>1. c.started
          OBVIOUS
        <4>2. calls[k].id = c.id /\ c.sent = calls[k].parts
          BY <1>2, <1>3, <4>1 DEF CallInv
        <4>3. c.id \in Begun
          BY <1>3, <2>2, <4>2 DEF BegunInv
        <4> QED BY <4>2, <4>3
      <3>4. e = 1 => calls'[k].ended
        BY <1>6, <2>2
      <3>5. Arrived(k, d)'
        <4> SUFFICES ASSUME NEW j \in Key, calls'[j].id \in ToSet(order)
                     PROVE  call[calls'[j].id].raw + (IF j = k THEN d ELSE 0) = calls'[j].parts
          BY <1>1 DEF Arrived
        <4>1. CASE j # k
          BY <1>5, <1>17, <4>1
        <4>2. CASE j = k
          <5>1. c.id \in Begun
            BY <1>6, <4>2 DEF Begun
          <5>2. s = 0
            BY <3>1, <3>2, <5>1
          <5>3. call[c.id].raw = c.sent /\ call[c.id].raw \in Nat
            BY <1>6, <1>17, <3>3, <4>2, <5>2
          <5> QED BY <1>3, <1>6, <4>2, <5>3
        <4> QED BY <4>1, <4>2
      <3> HIDE DEF s, d, e
      <3>6. Emission(k, s, d, e)'
        BY <1>1, <1>6, <1>10, <2>2, <3>1, <3>2, <3>3, <3>4, <3>5 DEF Emission, Begun
      <3> QED BY <3>1, <3>6 DEF ItemsInv
    <2> QED BY <2>1, <2>2
  <1> QED BY <1>1, <1>11, <1>14, <1>15, <1>16, <1>18 DEF LoopInv

(* With a new stream there is nothing to say. *)
LEMMA BlankIs == TurnTypes /\ Blank => LoopInv
  <1> SUFFICES ASSUME TurnTypes, Blank PROVE LoopInv
    OBVIOUS
  <1>1. \A k \in Key : calls[k].id = None /\ ~calls[k].started /\ calls[k].sent = 0 /\ ~calls[k].ended
                       /\ calls[k].final = None
    BY DEF Blank, NoCall
  <1>2. Len(items) = 0 /\ ToSet(order) = {} /\ Begun = {} /\ ended = {} /\ ignored = {}
    BY DEF Blank, Begun, ToSet
  <1>3. CallInv
    BY <1>1 DEF CallInv
  <1>4. BegunInv
    BY <1>1, <1>2 DEF BegunInv
  <1>5. EndedInv
    BY <1>2 DEF EndedInv
  <1>6. ItemsInv
    BY <1>2 DEF ItemsInv, LastItems, Arrived
  <1> QED BY <1>3, <1>4, <1>5, <1>6 DEF LoopInv

(* An event about no call leaves the calls as they are. *)
LEMMA TellingKeeps ==
    ASSUME TurnTypes, LoopInv, Telling
    PROVE  TurnTypes' /\ LoopInv'
  <1>1. /\ items = <<>> /\ items' \in Seq(Item) /\ OnlyLast'
        /\ stream' \in {stream, "closed"} /\ stream' # "none" /\ mode' = mode
        /\ calls' = calls /\ known' = known /\ owner' = owner
        /\ order' = order /\ call' = call /\ ended' = ended /\ ignored' = ignored
    BY DEF Telling, batch
  <1>2. TurnTypes'
    BY <1>1 DEF TurnTypes
  <1>3. CallInv'
    BY <1>1 DEF LoopInv, CallInv
  <1>4. BegunInv'
    BY <1>1 DEF LoopInv, BegunInv, Begun
  <1>5. EndedInv'
    BY <1>1 DEF LoopInv, EndedInv
  <1>6. ItemsInv'
    <2>1. \A j \in Key : calls[j].id \in ToSet(order) =>
              call[calls[j].id].raw = calls[j].parts /\ call[calls[j].id].raw \in Nat
      <3>1. \A i \in Id : call[i].raw \in Nat
        BY ArgumentParts DEF TurnTypes
      <3>2. ToSet(order) \subseteq Id
        BY DEF ToSet, TurnTypes
      <3> QED BY <1>1, <3>1, <3>2, AllArrived DEF LoopInv
    <2>2. \A k \in Key : Arrived(k, 0)'
      BY <1>1, <2>1 DEF Arrived
    <2> QED BY <1>1, <2>2 DEF ItemsInv, LastItems, OnlyLast
  <1> QED BY <1>1, <1>2, <1>3, <1>4, <1>5, <1>6 DEF LoopInv

(* What is consumed before the last leaves the others what they are. *)
LEMMA LastStays ==
    ASSUME TurnTypes, items # <<>>, items' = Tail(items), UNCHANGED <<mode, adapter>>,
           NEW n, n \in 1 .. Len(items'), IsLast(n + 1)
    PROVE  IsLast(n)'
  <1>1. n + 1 \in 1 .. Len(items) /\ items'[n] = items[n + 1]
    BY Consumed DEF TurnTypes
  <1>2. UNCHANGED <<mode, stream, calls, known>>
    BY DEF adapter
  <1>3. n + 1 = Len(items) => n = Len(items')
    <2>1. Len(items') = Len(items) - 1 /\ Len(items) \in Nat
      BY Consumed DEF TurnTypes
    <2>2. ASSUME NEW m \in Nat, NEW l \in Nat, NEW x \in 1 .. m, m = l - 1, x + 1 = l PROVE x = m
      BY <2>2
    <2>3. Len(items') \in Nat
      BY Consumed DEF TurnTypes
    <2> QED BY <2>1, <2>2, <2>3
  <1>4. /\ items'[n].type \in {"text", "end", "error", "done"}
        /\ items'[n].type = "done" => n = Len(items') /\ stream' = "closed" /\ \A k \in ToSet(known') : calls'[k].id # None
    <2>1. /\ items[n + 1].type \in {"text", "end", "error", "done"}
          /\ items[n + 1].type = "done" =>
                n + 1 = Len(items) /\ stream = "closed" /\ \A k \in ToSet(known) : calls[k].id # None
      BY DEF IsLast
    <2> QED BY <1>1, <1>2, <1>3, <2>1
  <1>5. items'[n].type = "end" =>
          /\ stream' = "closed" /\ mode' = "chat"
          /\ \E k \in Key : /\ items'[n] = End(calls'[k].id, calls'[k].parts) /\ calls'[k].id # None
                            /\ calls'[k].parts \in Objects /\ calls'[k].name # None
    BY <1>1, <1>2 DEF IsLast
  <1> QED BY <1>4, <1>5 DEF IsLast

(* A text is consumed. *)
LEMMA ReadsKeeps ==
    ASSUME TurnTypes, LoopInv, Reads
    PROVE  TurnTypes' /\ LoopInv'
  <1>1. /\ items # <<>> /\ items' = Tail(items) /\ items[1].type = "text"
        /\ UNCHANGED <<mode, stream, calls, known, owner, order, call, ended, ignored>>
        /\ UNCHANGED <<mode, adapter>>
    BY Consumed DEF Reads, adapter, batch, TurnTypes
  <1>2. /\ items' \in Seq(Item) /\ Len(items) \in Nat \ {0} /\ Len(items') = Len(items) - 1
        /\ \A n \in 1 .. Len(items') : n + 1 \in 1 .. Len(items) /\ items'[n] = items[n + 1]
        /\ 1 \in 1 .. Len(items)
    BY <1>1, Consumed DEF TurnTypes
  <1>3. TurnTypes'
    BY <1>1, <1>2 DEF TurnTypes
  <1>4. stream # "none" /\ CallInv /\ BegunInv /\ EndedInv /\ ItemsInv
    BY <1>1 DEF LoopInv, Blank
  <1>5. CallInv' /\ EndedInv'
    BY <1>1, <1>4 DEF CallInv, EndedInv
  <1>6. BegunInv'
    <2>1. ASSUME NEW k \in Key, NEW n \in 1 .. Len(items), items[n] = Start(calls[k].id)
          PROVE  \E m \in 1 .. Len(items') : items'[m] = Start(calls[k].id)
      <3>1. n # 1
        BY <1>1, <2>1, ItemTypes
      <3>2. n - 1 \in 1 .. Len(items') /\ items'[n - 1] = items[n]
        BY <1>2, <3>1
      <3> QED BY <2>1, <3>2
    <2> QED BY <1>1, <1>4, <2>1 DEF BegunInv, Begun
  <1>7. ItemsInv'
    <2>1. CASE LastItems
      <3>1. \A n \in 1 .. Len(items') : IsLast(n)'
        BY <1>1, <1>2, <2>1, LastStays DEF LastItems
      <3>2. \A k \in Key : Arrived(k, 0)'
        BY <1>1, <2>1 DEF Arrived, LastItems
      <3> QED BY <3>1, <3>2 DEF ItemsInv, LastItems
    <2>2. ASSUME NEW k \in Key, NEW s \in 0 .. 1, NEW e \in 0 .. 1, NEW d \in 0 .. Len(items), Emission(k, s, d, e)
          PROVE  FALSE
      <3>1. items[1] \in {Start(calls[k].id), Delta(calls[k].id), End(calls[k].id, calls[k].final)}
        BY <1>2, <2>2 DEF Emission
      <3> QED BY <1>1, <3>1, ItemTypes
    <2> QED BY <1>4, <2>1, <2>2 DEF ItemsInv
  <1> QED BY <1>1, <1>3, <1>4, <1>5, <1>6, <1>7 DEF LoopInv

(* What every item of a call does. *)
LEMMA HearingIs ==
    ASSUME TurnTypes, LoopInv, NEW i \in Id, Hearing(i)
    PROVE  /\ items # <<>> /\ items' = Tail(items) /\ items' \in Seq(Item)
           /\ UNCHANGED <<mode, adapter>> /\ UNCHANGED <<mode, stream, calls, known, owner>>
           /\ Len(items) \in Nat \ {0} /\ Len(items') = Len(items) - 1
           /\ \A n \in 1 .. Len(items') : n + 1 \in 1 .. Len(items) /\ items'[n] = items[n + 1]
           /\ Head(items) = items[1] /\ 1 \in 1 .. Len(items)
           /\ stream # "none" /\ CallInv /\ CallInv' /\ BegunInv /\ EndedInv /\ ItemsInv
           /\ ToSet(order) \subseteq Id /\ Begun \subseteq Id
           /\ \A k \in Key : calls[k].parts \in Nat /\ (calls[k].id \in Id => call[calls[k].id].raw \in Nat)
  <1>1. items # <<>> /\ items' = Tail(items) /\ UNCHANGED <<mode, adapter>>
        /\ UNCHANGED <<mode, stream, calls, known, owner>>
    BY DEF Hearing, adapter
  <1>2. stream # "none" /\ CallInv /\ BegunInv /\ EndedInv /\ ItemsInv
    BY <1>1 DEF LoopInv, Blank
  <1>3. CallInv'
    BY <1>1, <1>2 DEF CallInv
  <1>4. ToSet(order) \subseteq Id /\ Begun \subseteq Id
    BY DEF TurnTypes, ToSet, Begun
  <1>5. \A k \in Key : calls[k].parts \in Nat /\ (calls[k].id \in Id => call[calls[k].id].raw \in Nat)
    BY CallParts, ArgumentParts DEF TurnTypes
  <1> QED BY <1>1, <1>2, <1>3, <1>4, <1>5, Consumed DEF TurnTypes

(* The first item of an emission says where in it the loop is. *)
LEMMA FirstOf ==
    ASSUME TurnTypes, items # <<>>, NEW k \in Key, NEW s \in 0 .. 1, NEW e \in 0 .. 1,
           NEW d \in 0 .. Len(items), Emission(k, s, d, e)
    PROVE  /\ items[1].id = calls[k].id
           /\ items[1].type = "start" => s = 1
           /\ items[1].type = "delta" => s = 0 /\ d > 0
           /\ items[1].type = "end" => s = 0 /\ d = 0 /\ e = 1 /\ items[1] = End(calls[k].id, calls[k].final)
           /\ items[1].type \in {"start", "delta", "end"}
  <1>1. Len(items) \in Nat \ {0} /\ Len(items) = s + d + e /\ 1 \in 1 .. Len(items)
    BY DEF Emission, TurnTypes
  <1>2. items[1] = IF 1 <= s THEN Start(calls[k].id)
                   ELSE IF 1 <= s + d THEN Delta(calls[k].id) ELSE End(calls[k].id, calls[k].final)
    BY <1>1 DEF Emission
  <1>3. CASE s = 1
    <2>1. items[1] = Start(calls[k].id)
      BY <1>2, <1>3
    <2> QED BY <1>3, <2>1, ItemTypes
  <1>4. CASE s = 0 /\ d > 0
    <2>1. items[1] = Delta(calls[k].id)
      BY <1>2, <1>4
    <2> QED BY <1>4, <2>1, ItemTypes
  <1>5. CASE s = 0 /\ d = 0
    <2>1. items[1] = End(calls[k].id, calls[k].final) /\ e = 1
      BY <1>1, <1>2, <1>5
    <2> QED BY <1>5, <2>1, ItemTypes
  <1> QED BY <1>3, <1>4, <1>5

(* A call begins, or is passed over: the start of its emission goes. *)
LEMMA BeginsKeeps ==
    ASSUME TurnTypes, LoopInv, NEW i \in Id, Begins(i)
    PROVE  TurnTypes' /\ LoopInv'
  <1>1. /\ Hearing(i) /\ items[1] = Start(i) /\ ended' = ended
        /\ \/ ignored' = ignored \cup {i} /\ UNCHANGED <<order, call>>
           \/ order' = Append(order, i) /\ call' = [call EXCEPT ![i] = [raw |-> 0, arguments |-> None]]
              /\ ignored' = ignored
    BY HearingIs DEF Begins
  <1>2. /\ items # <<>> /\ items' \in Seq(Item) /\ UNCHANGED <<mode, stream, calls, known, owner>>
        /\ Len(items) \in Nat \ {0} /\ Len(items') = Len(items) - 1
        /\ \A n \in 1 .. Len(items') : n + 1 \in 1 .. Len(items) /\ items'[n] = items[n + 1]
        /\ 1 \in 1 .. Len(items) /\ stream # "none" /\ ToSet(order) \subseteq Id
        /\ CallInv /\ CallInv' /\ BegunInv /\ EndedInv /\ ItemsInv
    BY <1>1, HearingIs
  <1>3. \A k \in Key : calls[k].parts \in Nat /\ (calls[k].id \in Id => call[calls[k].id].raw \in Nat)
    BY <1>1, HearingIs
  <1>4. ~LastItems
    BY <1>1, <1>2, ItemTypes DEF LastItems, IsLast
  <1>5. PICK k \in Key, s \in 0 .. 1, e \in 0 .. 1, d \in 0 .. Len(items) : Emission(k, s, d, e)
    BY <1>2, <1>4 DEF ItemsInv
  <1>6. s = 1 /\ calls[k].id = i
    BY <1>1, <1>2, <1>5, FirstOf, ItemTypes
  <1>7. /\ i \notin Begun /\ i # None /\ d = calls[k].parts /\ Len(items) = 1 + d + e
        /\ e = 1 => calls[k].ended
        /\ Arrived(k, d)
        /\ \A n \in 1 .. Len(items) :
              items[n] = IF n <= 1 THEN Start(i) ELSE IF n <= 1 + d THEN Delta(i) ELSE End(i, calls[k].final)
    BY <1>5, <1>6 DEF Emission
  <1>8. \A j \in Key : calls[j].id = i => j = k
    BY <1>2, <1>6, <1>7, OneOwner
  <1>9. /\ order' \in Seq(Id) /\ ignored' \subseteq Id /\ call' \in [Id -> Argument]
        /\ ToSet(order) \subseteq ToSet(order') /\ ToSet(order') \subseteq ToSet(order) \cup {i}
        /\ \A j \in Id : j # i => call'[j] = call[j]
    <2>1. CASE ignored' = ignored \cup {i} /\ UNCHANGED <<order, call>>
      BY <2>1 DEF TurnTypes
    <2>2. CASE order' = Append(order, i) /\ call' = [call EXCEPT ![i] = [raw |-> 0, arguments |-> None]]
               /\ ignored' = ignored
      <3>1. [raw |-> 0, arguments |-> None] \in Argument
        BY DEF Argument, Maybe
      <3> QED BY <2>2, <3>1, OneMore DEF TurnTypes
    <2> QED BY <1>1, <2>1, <2>2
  <1>10. /\ Begun' = Begun \cup {i} /\ ToSet(order') \cap ignored' = {}
         /\ i \in ToSet(order') => call'[i].raw = 0
    <2>1. ToSet(order) \cap ignored = {} /\ i \notin ToSet(order) /\ i \notin ignored
      BY <1>2, <1>7 DEF Begun, BegunInv
    <2>2. CASE ignored' = ignored \cup {i} /\ UNCHANGED <<order, call>>
      BY <2>1, <2>2 DEF Begun
    <2>3. CASE order' = Append(order, i) /\ call' = [call EXCEPT ![i] = [raw |-> 0, arguments |-> None]]
               /\ ignored' = ignored
      <3>1. ToSet(order') = ToSet(order) \cup {i}
        BY <2>3, OneMore DEF TurnTypes
      <3>2. call'[i].raw = 0
        BY <2>3 DEF TurnTypes
      <3> QED BY <2>1, <2>3, <3>1, <3>2 DEF Begun
    <2> QED BY <1>1, <2>2, <2>3
  <1>11. TurnTypes'
    BY <1>1, <1>2, <1>9 DEF TurnTypes
  <1>12. BegunInv'
    <2>1. \A j \in Begun' : \E l \in Key : calls'[l].id = j
      BY <1>2, <1>6, <1>10 DEF BegunInv
    <2>2. ASSUME NEW j \in Key, calls'[j].id # None
          PROVE  calls'[j].id \in Begun' \/ \E n \in 1 .. Len(items') : items'[n] = Start(calls'[j].id)
      <3>1. CASE calls[j].id \in Begun
        BY <1>2, <1>10, <3>1
      <3>2. ASSUME NEW n \in 1 .. Len(items), items[n] = Start(calls[j].id)
            PROVE  calls'[j].id \in Begun' \/ \E m \in 1 .. Len(items') : items'[m] = Start(calls'[j].id)
        <4>1. CASE n = 1
          <5>1. calls[j].id = i
            BY <1>1, <3>2, <4>1, ItemTypes
          <5> QED BY <1>2, <1>10, <5>1
        <4>2. CASE n # 1
          <5>1. n - 1 \in 1 .. Len(items') /\ items'[n - 1] = items[n]
            BY <1>2, <4>2
          <5> QED BY <1>2, <3>2, <5>1
        <4> QED BY <4>1, <4>2
      <3> QED BY <1>2, <2>2, <3>1, <3>2 DEF BegunInv
    <2> QED BY <1>10, <2>1, <2>2 DEF BegunInv
  <1>13. EndedInv'
    <2>1. i \notin ended /\ ended \subseteq ToSet(order)
      BY <1>2, <1>7 DEF EndedInv, Begun
    <2>2. \A j \in Id : j \in ended => call'[j] = call[j]
      BY <1>9, <2>1
    <2>3. ended \subseteq Id
      BY DEF TurnTypes
    <2> QED BY <1>1, <1>2, <1>9, <2>1, <2>2, <2>3 DEF EndedInv
  <1>14. Emission(k, 0, d, e)'
    <2>1. Len(items') = 0 + d + e
      BY <1>2, <1>7
    <2>2. \A n \in 1 .. Len(items') :
             items'[n] = IF n <= 0 THEN Start(i) ELSE IF n <= 0 + d THEN Delta(i) ELSE End(i, calls[k].final)
      BY <1>2, <1>7
    <2>3. Arrived(k, d)'
      <3> SUFFICES ASSUME NEW j \in Key, calls[j].id \in ToSet(order')
                   PROVE  call'[calls[j].id].raw + (IF j = k THEN d ELSE 0) = calls[j].parts
        BY <1>2 DEF Arrived
      <3>1. CASE j = k
        BY <1>6, <1>7, <1>10, <3>1
      <3>2. CASE j # k
        <4>1. calls[j].id # i /\ calls[j].id \in ToSet(order)
          BY <1>8, <1>9, <3>2
        <4> QED BY <1>2, <1>3, <1>7, <1>9, <3>2, <4>1 DEF Arrived
      <3> QED BY <3>1, <3>2
    <2>4. \A n \in 1 .. Len(items') :
             items'[n] = IF n <= 0 THEN Start(calls'[k].id)
                         ELSE IF n <= 0 + d THEN Delta(calls'[k].id) ELSE End(calls'[k].id, calls'[k].final)
      BY <1>2, <1>6, <2>2
    <2>5. calls'[k].id # None /\ (e = 1 => calls'[k].ended) /\ calls'[k].id \in Begun'
      BY <1>2, <1>6, <1>7, <1>10
    <2> QED BY <2>1, <2>3, <2>4, <2>5 DEF Emission
  <1>15. ItemsInv'
    <2>1. d \in 0 .. Len(items')
      BY <1>2, <1>7
    <2> QED BY <1>14, <2>1 DEF ItemsInv
  <1> QED BY <1>2, <1>11, <1>12, <1>13, <1>15 DEF LoopInv

(* What the adapter knows of is begun or about to begin, also after an item that is no start. *)
LEMMA StillBegun ==
    ASSUME TurnTypes, LoopInv, NEW i \in Id, Hearing(i), items[1].type # "start", UNCHANGED <<order, ignored>>
    PROVE  BegunInv'
  <1>1. /\ items # <<>> /\ UNCHANGED <<mode, stream, calls, known, owner>> /\ BegunInv
        /\ Len(items) \in Nat \ {0} /\ Len(items') = Len(items) - 1
        /\ \A n \in 1 .. Len(items') : n + 1 \in 1 .. Len(items) /\ items'[n] = items[n + 1]
    BY HearingIs
  <1>2. ASSUME NEW k \in Key, NEW n \in 1 .. Len(items), items[n] = Start(calls[k].id)
        PROVE  \E m \in 1 .. Len(items') : items'[m] = Start(calls[k].id)
    <2>1. n # 1
      BY <1>2, ItemTypes
    <2>2. n - 1 \in 1 .. Len(items') /\ items'[n - 1] = items[n]
      BY <1>1, <2>1
    <2> QED BY <1>2, <2>2
  <1> QED BY <1>1, <1>2 DEF BegunInv, Begun

(* A piece arrives. *)
LEMMA ExtendsKeeps ==
    ASSUME TurnTypes, LoopInv, NEW i \in Id, Extends(i)
    PROVE  TurnTypes' /\ LoopInv'
  <1>1. /\ Hearing(i) /\ items[1] = Delta(i) /\ UNCHANGED <<order, ended, ignored>>
        /\ call' = IF i \in ignored THEN call ELSE [call EXCEPT ![i].raw = @ + 1]
    BY HearingIs DEF Extends
  <1>2. /\ items # <<>> /\ items' \in Seq(Item) /\ UNCHANGED <<mode, stream, calls, known, owner>>
        /\ Len(items) \in Nat \ {0} /\ Len(items') = Len(items) - 1
        /\ \A n \in 1 .. Len(items') : n + 1 \in 1 .. Len(items) /\ items'[n] = items[n + 1]
        /\ 1 \in 1 .. Len(items) /\ stream # "none" /\ ToSet(order) \subseteq Id
        /\ CallInv /\ CallInv' /\ BegunInv /\ EndedInv /\ ItemsInv
    BY <1>1, HearingIs
  <1>3. \A k \in Key : calls[k].parts \in Nat /\ (calls[k].id \in Id => call[calls[k].id].raw \in Nat)
    BY <1>1, HearingIs
  <1>4. ~LastItems
    BY <1>1, <1>2, ItemTypes DEF LastItems, IsLast
  <1>5. PICK k \in Key, s \in 0 .. 1, e \in 0 .. 1, d \in 0 .. Len(items) : Emission(k, s, d, e)
    BY <1>2, <1>4 DEF ItemsInv
  <1>6. s = 0 /\ d > 0 /\ calls[k].id = i /\ d \in Nat /\ i # None
    BY <1>1, <1>2, <1>5, FirstOf, ItemTypes, NoneIsNone
  <1>7. /\ i \in Begun /\ Len(items) = 0 + d + e
        /\ e = 1 => calls[k].ended
        /\ Arrived(k, d)
        /\ \A n \in 1 .. Len(items) :
              items[n] = IF n <= 0 THEN Start(i) ELSE IF n <= 0 + d THEN Delta(i) ELSE End(i, calls[k].final)
    BY <1>5, <1>6 DEF Emission
  <1>8. \A j \in Key : calls[j].id = i => j = k
    BY <1>2, <1>6, OneOwner
  <1>9. call[i] \in Argument /\ call[i].raw \in Nat
    BY ArgumentParts DEF TurnTypes
  <1>10. /\ call' \in [Id -> Argument]
         /\ \A j \in Id : call'[j].arguments = call[j].arguments
         /\ \A j \in Id : j # i => call'[j] = call[j]
         /\ i \notin ignored => call'[i].raw = call[i].raw + 1
    <2>1. CASE i \in ignored
      BY <1>1, <2>1 DEF TurnTypes
    <2>2. CASE i \notin ignored
      <3>1. call' = [call EXCEPT ![i] = [call[i] EXCEPT !.raw = @ + 1]]
        BY <1>1, <2>2
      <3>2. ASSUME NEW a \in Argument
            PROVE  LET b == [a EXCEPT !.raw = @ + 1]
                   IN  b \in Argument /\ b.raw = a.raw + 1 /\ b.arguments = a.arguments
        BY DEF Argument
      <3> QED BY <1>9, <2>2, <3>1, <3>2 DEF TurnTypes
    <2> QED BY <2>1, <2>2
  <1>11. TurnTypes'
    BY <1>1, <1>2, <1>10 DEF TurnTypes
  <1>12. BegunInv'
    <2>1. items[1].type # "start"
      BY <1>1, ItemTypes
    <2> QED BY <1>1, <2>1, StillBegun
  <1>13. EndedInv'
    <2>1. ended \subseteq Id
      BY DEF TurnTypes
    <2> QED BY <1>1, <1>2, <1>10, <2>1 DEF EndedInv
  <1>14. Emission(k, 0, d - 1, e)'
    <2>1. Len(items') = 0 + (d - 1) + e
      BY <1>2, <1>6, <1>7
    <2>2. \A n \in 1 .. Len(items') :
             items'[n] = IF n <= 0 THEN Start(i) ELSE IF n <= 0 + (d - 1) THEN Delta(i) ELSE End(i, calls[k].final)
      BY <1>2, <1>6, <1>7
    <2>3. \A n \in 1 .. Len(items') :
             items'[n] = IF n <= 0 THEN Start(calls'[k].id)
                         ELSE IF n <= 0 + (d - 1) THEN Delta(calls'[k].id) ELSE End(calls'[k].id, calls'[k].final)
      BY <1>2, <1>6, <2>2
    <2>4. calls'[k].id # None /\ (e = 1 => calls'[k].ended) /\ calls'[k].id \in Begun'
      BY <1>1, <1>2, <1>6, <1>7 DEF Begun
    <2>5. Arrived(k, d - 1)'
      <3> SUFFICES ASSUME NEW j \in Key, calls[j].id \in ToSet(order)
                   PROVE  call'[calls[j].id].raw + (IF j = k THEN d - 1 ELSE 0) = calls[j].parts
        BY <1>1, <1>2 DEF Arrived
      <3>1. CASE j = k
        <4>1. i \notin ignored
          BY <1>2, <1>6, <3>1 DEF BegunInv
        <4>2. call[i].raw + d = calls[k].parts
          BY <1>6, <1>7, <3>1 DEF Arrived
        <4>3. call'[i].raw = call[i].raw + 1 /\ d \in Nat
          BY <1>7, <1>10, <4>1
        <4>4. call'[i].raw + (d - 1) = calls[k].parts
          BY <1>9, <4>2, <4>3
        <4> QED BY <1>6, <3>1, <4>4
      <3>2. CASE j # k
        <4>1. calls[j].id # i /\ calls[j].id \in Id
          BY <1>2, <1>8, <3>2
        <4> QED BY <1>3, <1>7, <1>10, <3>2, <4>1 DEF Arrived
      <3> QED BY <3>1, <3>2
    <2> QED BY <2>1, <2>3, <2>4, <2>5 DEF Emission
  <1>15. ItemsInv'
    <2>1. d - 1 \in 0 .. Len(items')
      BY <1>2, <1>6, <1>7
    <2> QED BY <1>14, <2>1 DEF ItemsInv
  <1> QED BY <1>2, <1>11, <1>12, <1>13, <1>15 DEF LoopInv

(* The end of a call arrives. *)
LEMMA CompletesKeeps ==
    ASSUME TurnTypes, LoopInv, NEW i \in Id, NEW a \in Nat, Completes(i, a)
    PROVE  TurnTypes' /\ LoopInv'
  <1>1. /\ Hearing(i) /\ items[1] = End(i, a) /\ UNCHANGED <<order, ignored>>
        /\ call' = IF i \in ignored THEN call ELSE [call EXCEPT ![i].arguments = a]
        /\ ended' = IF i \in ignored THEN ended ELSE ended \cup {i}
    BY HearingIs DEF Completes
  <1>2. /\ items # <<>> /\ items' = Tail(items) /\ items' \in Seq(Item)
        /\ UNCHANGED <<mode, stream, calls, known, owner>> /\ UNCHANGED <<mode, adapter>>
        /\ Len(items) \in Nat \ {0} /\ Len(items') = Len(items) - 1
        /\ \A n \in 1 .. Len(items') : n + 1 \in 1 .. Len(items) /\ items'[n] = items[n + 1]
        /\ 1 \in 1 .. Len(items) /\ stream # "none" /\ ToSet(order) \subseteq Id
        /\ CallInv /\ CallInv' /\ BegunInv /\ EndedInv /\ ItemsInv
    BY <1>1, HearingIs
  <1>3. \A k \in Key : calls[k].parts \in Nat /\ (calls[k].id \in Id => call[calls[k].id].raw \in Nat)
    BY <1>1, HearingIs
  <1>4. call[i] \in Argument /\ call[i].raw \in Nat
    BY ArgumentParts DEF TurnTypes
  <1>5. /\ call' \in [Id -> Argument]
        /\ \A j \in Id : call'[j].raw = call[j].raw
        /\ \A j \in Id : j # i => call'[j] = call[j]
        /\ i \notin ignored => call'[i].arguments = a
    <2>1. CASE i \in ignored
      BY <1>1, <2>1 DEF TurnTypes
    <2>2. CASE i \notin ignored
      <3>1. call' = [call EXCEPT ![i] = [call[i] EXCEPT !.arguments = a]]
        BY <1>1, <2>2
      <3>2. ASSUME NEW x \in Argument
            PROVE  LET b == [x EXCEPT !.arguments = a]
                   IN  b \in Argument /\ b.raw = x.raw /\ b.arguments = a
        BY DEF Argument, Maybe
      <3> QED BY <1>4, <2>2, <3>1, <3>2 DEF TurnTypes
    <2> QED BY <2>1, <2>2
  <1>6. TurnTypes'
    <2>1. ended' \subseteq Id
      BY <1>1 DEF TurnTypes
    <2> QED BY <1>1, <1>2, <1>5, <2>1 DEF TurnTypes
  <1>7. BegunInv'
    <2>1. items[1].type # "start"
      BY <1>1, ItemTypes
    <2> QED BY <1>1, <2>1, StillBegun
  <1>8. \A k \in Key : Arrived(k, 0) => Arrived(k, 0)'
    <2>1. \A k \in Key : calls[k].id \in ToSet(order) => call'[calls[k].id].raw = call[calls[k].id].raw
      BY <1>2, <1>5
    <2> QED BY <1>1, <1>2, <2>1 DEF Arrived
  <1>9. ASSUME NEW k \in Key, calls[k].id = i, i \in Begun, calls[k].name # None, a \in Objects,
               mode = "responses" => a = calls[k].final,
               mode = "chat" => stream = "closed" /\ a = calls[k].parts
        PROVE  EndedInv'
    <2>1. \A j \in Key : calls[j].id = i => j = k
      BY <1>2, <1>9, NoneIsNone, OneOwner
    <2>2. ended' \subseteq ToSet(order)
      BY <1>1, <1>2, <1>9 DEF EndedInv, Begun
    <2> SUFFICES ASSUME NEW j \in Key, calls[j].id \in ended'
                 PROVE  /\ calls[j].name # None /\ call'[calls[j].id].arguments \in Objects
                        /\ mode = "responses" => call'[calls[j].id].arguments = calls[j].final
                        /\ mode = "chat" => stream = "closed" /\ call'[calls[j].id].arguments = calls[j].parts
      BY <1>1, <1>2, <2>2 DEF EndedInv
    <2>3. CASE j = k /\ i \notin ignored
      BY <1>5, <1>9, <2>3
    <2>4. CASE j = k /\ i \in ignored
      BY <1>1, <1>2, <2>4, <1>9 DEF EndedInv
    <2>5. CASE j # k
      <3>1. calls[j].id # i /\ calls[j].id \in ended /\ calls[j].id \in Id
        BY <1>1, <2>1, <2>5 DEF TurnTypes
      <3> QED BY <1>2, <1>5, <3>1 DEF EndedInv
    <2> QED BY <2>3, <2>4, <2>5
  <1>10. CASE LastItems
    <2>1. IsLast(1) /\ items[1].type = "end" /\ items[1].id = i /\ items[1].arguments = a
      BY <1>1, <1>2, <1>10, ItemTypes DEF LastItems
    <2>2. stream = "closed" /\ mode = "chat"
      BY <2>1 DEF IsLast
    <2>3. PICK k \in Key : /\ items[1] = End(calls[k].id, calls[k].parts) /\ calls[k].id # None
                            /\ calls[k].parts \in Objects /\ calls[k].name # None
      BY <2>1 DEF IsLast
    <2>4. calls[k].id = i /\ calls[k].parts = a
      BY <2>1, <2>3, ItemTypes
    <2>5. i \in Begun
      <3>1. \A n \in 1 .. Len(items) : items[n].type # "start"
        BY <1>10 DEF LastItems, IsLast
      <3> QED BY <1>2, <2>3, <2>4, <3>1, ItemTypes DEF BegunInv
    <2>6. EndedInv'
      BY <1>9, <2>2, <2>3, <2>4, <2>5
    <2>7. \A n \in 1 .. Len(items') : IsLast(n)'
      BY <1>2, <1>10, LastStays DEF LastItems
    <2>8. ItemsInv'
      BY <1>8, <1>10, <2>7 DEF ItemsInv, LastItems
    <2> QED BY <1>2, <1>6, <1>7, <2>6, <2>8 DEF LoopInv
  <1>11. CASE ~LastItems
    <2>1. PICK k \in Key, s \in 0 .. 1, e \in 0 .. 1, d \in 0 .. Len(items) : Emission(k, s, d, e)
      BY <1>2, <1>11 DEF ItemsInv
    <2>2. /\ s = 0 /\ d = 0 /\ e = 1 /\ calls[k].id = i /\ End(calls[k].id, calls[k].final) = End(i, a)
      BY <1>1, <1>2, <2>1, FirstOf, ItemTypes
    <2>3. calls[k].final = a
      BY <2>2, ItemTypes
    <2>4. i \in Begun /\ calls[k].ended /\ Arrived(k, 0) /\ Len(items) = 1
      BY <2>1, <2>2 DEF Emission
    <2>5. a \in Objects /\ calls[k].name # None /\ mode = "responses"
      BY <1>2, <2>3, <2>4 DEF CallInv
    <2>6. EndedInv'
      BY <1>9, <2>2, <2>3, <2>4, <2>5
    <2>7. Len(items') = 0
      BY <1>2, <2>4
    <2>8. \A j \in Key : Arrived(j, 0)
      <3>1. \A j \in Key : calls[j].id \in ToSet(order) => calls[j].parts \in Nat /\ call[calls[j].id].raw \in Nat
        BY <1>2, <1>3
      <3> QED BY <2>4, <3>1 DEF Arrived
    <2>9. ItemsInv'
      BY <1>8, <2>7, <2>8 DEF ItemsInv, LastItems
    <2> QED BY <1>2, <1>6, <1>7, <2>6, <2>9 DEF LoopInv
  <1> QED BY <1>10, <1>11

-------------------------------------------------------------------------------
(* Which of these each action is. *)

(* The loop has what it wanted, or gives up. *)
Over == outcome' \notin {None, "calls"} /\ UNCHANGED <<mode, adapter, items, batch>>

(* One item, a text or an error, is all that is yielded. *)
LEMMA TellsOne ==
    ASSUME TurnTypes, items = <<>>, NEW x \in Item, x.type \in {"text", "error"}, items' = <<x>>,
           stream' \in {stream, "closed"}, stream' # "none",
           UNCHANGED <<mode, calls, known, owner, batch, outcome>>
    PROVE  Telling
  <1>1. items' \in Seq(Item) /\ Len(items') = 1 /\ items'[1] = x
    OBVIOUS
  <1>2. IsLast(1)'
    BY <1>1 DEF IsLast
  <1> QED BY <1>1, <1>2 DEF Telling, OnlyLast

(* An exception of the accumulator, or an error of the provider. *)
LEMMA ClosesWith ==
    ASSUME TurnTypes, items = <<>>, NEW kind \in Kinds \cup {"protocol"}, Closes(<<Error(kind)>>),
           UNCHANGED <<mode, batch, outcome>>
    PROVE  Telling
  <1>1. Error(kind) \in Item /\ Error(kind).type = "error"
    BY ItemTypes DEF Item
  <1>2. items' = <<Error(kind)>> /\ stream' = "closed" /\ UNCHANGED <<calls, known, owner>>
    BY DEF Closes
  <1> QED BY <1>1, <1>2, TellsOne

(* What is observed is added to the call. *)
LEMMA ObservedIs ==
    ASSUME TurnTypes, NEW k \in Key, NEW id \in Maybe(Id), NEW name \in Maybe(Name), NEW n \in 0 .. 1
    PROVE  LET c == Observed(k, id, name, n)
           IN /\ c \in CallState
              /\ c.id = (IF id = None THEN calls[k].id ELSE id) /\ c.name = (IF name = None THEN calls[k].name ELSE name)
              /\ c.parts = calls[k].parts + n /\ c.final = calls[k].final /\ c.sent = calls[k].sent
              /\ c.started = calls[k].started /\ c.ended = calls[k].ended
              /\ calls[k].parts \in Nat
  <1>1. calls[k] \in CallState
    BY DEF TurnTypes
  <1> DEFINE a == IF id = None THEN calls[k].id ELSE id
             b == IF name = None THEN calls[k].name ELSE name
             m == calls[k].parts + n
             y == [calls[k] EXCEPT !.id = a]
             z == [y EXCEPT !.name = b]
             c == [z EXCEPT !.parts = m]
  <1>2. a \in Maybe(Id) /\ b \in Maybe(Name) /\ m \in Nat /\ calls[k].parts \in Nat
    BY <1>1, CallParts
  <1>3. Observed(k, id, name, n) = c
    BY DEF Observed
  <1> HIDE DEF a, b, m
  <1>4. /\ y \in CallState
        /\ y.id = a /\ y.name = calls[k].name /\ y.parts = calls[k].parts /\ y.final = calls[k].final
        /\ y.sent = calls[k].sent /\ y.started = calls[k].started /\ y.ended = calls[k].ended
    BY <1>1, <1>2 DEF CallState
  <1> HIDE DEF y
  <1>5. /\ z \in CallState
        /\ z.id = y.id /\ z.name = b /\ z.parts = y.parts /\ z.final = y.final
        /\ z.sent = y.sent /\ z.started = y.started /\ z.ended = y.ended
    BY <1>2, <1>4 DEF CallState
  <1> HIDE DEF z
  <1>6. /\ c \in CallState
        /\ c.id = z.id /\ c.name = z.name /\ c.parts = m /\ c.final = z.final
        /\ c.sent = z.sent /\ c.started = z.started /\ c.ended = z.ended
    BY <1>2, <1>5 DEF CallState
  <1> HIDE DEF c
  <1> QED BY <1>2, <1>3, <1>4, <1>5, <1>6 DEF a, b, m

(* A call that the accumulator takes is read. *)
LEMMA AcceptedIsRead ==
    ASSUME TurnTypes, LoopInv, NEW k \in Key, NEW id \in Maybe(Id), NEW name \in Maybe(Name), NEW n \in 0 .. 1,
           NEW final \in Maybe(Nat), NEW c, c = [Observed(k, id, name, n) EXCEPT !.final = final],
           calls[k].final \in {None, final}, ~ObserveBreaks(k, id, name, n), mode = "chat" => final = None,
           mode = "responses" => ~EmitBreaks(c),
           stream = "open", items = <<>>, UNCHANGED <<mode, batch, outcome>>, Becomes(k, c)
    PROVE  c \in CallState /\ Reading(k, c)
  <1> DEFINE o == Observed(k, id, name, n)
  <1>1. /\ o \in CallState
        /\ o.id = (IF id = None THEN calls[k].id ELSE id) /\ o.name = (IF name = None THEN calls[k].name ELSE name)
        /\ o.parts = calls[k].parts + n /\ o.final = calls[k].final /\ o.sent = calls[k].sent
        /\ o.started = calls[k].started /\ o.ended = calls[k].ended
        /\ calls[k].parts \in Nat
    BY ObservedIs
  <1>2. ASSUME NEW x \in CallState
        PROVE  LET y == [x EXCEPT !.final = final]
               IN /\ y \in CallState /\ y.id = x.id /\ y.name = x.name /\ y.parts = x.parts /\ y.final = final
                  /\ y.sent = x.sent /\ y.started = x.started /\ y.ended = x.ended
    BY DEF CallState
  <1> HIDE DEF o
  <1>3. /\ c \in CallState /\ c.id = o.id /\ c.name = o.name /\ c.parts = o.parts /\ c.final = final
        /\ c.sent = o.sent /\ c.started = o.started /\ c.ended = o.ended
    BY <1>1, <1>2 DEF o
  <1>4. /\ ~(calls[k].ended /\ n > 0)
        /\ id # None => calls[k].id \in {None, id} /\ owner[id] \in {None, k}
        /\ name # None => calls[k].name \in {None, name}
    BY DEF ObserveBreaks
  <1>5. calls[k].id \in {None, c.id} /\ calls[k].name \in {None, c.name}
    BY <1>1, <1>3, <1>4
  <1>6. calls[k].parts <= c.parts /\ (calls[k].ended => c.parts = calls[k].parts)
    BY <1>1, <1>3, <1>4
  <1>7. c.id # None => owner[c.id] \in {None, k}
    <2>1. CASE id = None
      BY <1>1, <1>3, <2>1 DEF LoopInv, CallInv
    <2>2. CASE id # None
      BY <1>1, <1>3, <1>4, <2>2
    <2> QED BY <2>1, <2>2
  <1>8. c.id # None /\ c.final # None /\ ~c.ended => c.name # None /\ c.final \in Objects /\ mode = "responses"
    BY <1>3 DEF EmitBreaks, TurnTypes
  <1>9. stream' = stream
    BY DEF Becomes
  <1>10. c.started = calls[k].started /\ c.sent = calls[k].sent /\ c.ended = calls[k].ended
    BY <1>1, <1>3
  <1> QED BY <1>3, <1>5, <1>6, <1>7, <1>8, <1>9, <1>10 DEF Reading

(* The events of the two protocols about a call. *)
LEMMA CallEvents ==
    ASSUME TurnTypes, LoopInv, NEW k \in Key,
           ItemAdded(k) \/ ArgumentsDelta(k) \/ TextDone(k) \/ ItemDone(k) \/ ChatChunk(k)
    PROVE  Telling \/ \E c \in CallState : Reading(k, c)
  <1>1. \A x \in CallState : [x EXCEPT !.final = x.final] = x
    BY DEF CallState
  <1>2. calls[k].final \in Maybe(Nat) /\ (mode = "chat" => calls[k].final = None) /\ None \notin Nat
    BY CallParts, NoneIsNone DEF TurnTypes, LoopInv, CallInv
  <1>3. ASSUME NEW id \in Maybe(Id), NEW name \in Maybe(Name), NEW n \in 0 .. 1,
               ~ObserveBreaks(k, id, name, n), mode = "responses" => ~EmitBreaks(Observed(k, id, name, n)),
               stream = "open", items = <<>>, UNCHANGED <<mode, batch, outcome>>,
               Becomes(k, Observed(k, id, name, n))
        PROVE  \E c \in CallState : Reading(k, c)
    <2>1. PICK c : c = Observed(k, id, name, n)
      OBVIOUS
    <2>2. c = [Observed(k, id, name, n) EXCEPT !.final = calls[k].final]
      BY <1>1, <2>1, ObservedIs
    <2>3. c \in CallState /\ Reading(k, c)
      BY <1>2, <1>3, <2>1, <2>2, AcceptedIsRead
    <2> QED BY <2>3
  <1>4. ASSUME NEW id \in Maybe(Id), NEW name \in Maybe(Name), NEW n \in 0 .. 1,
               stream = "open", items = <<>>, UNCHANGED <<mode, batch, outcome>>, Observe(k, id, name, n)
        PROVE  Telling \/ \E c \in CallState : Reading(k, c)
    <2>1. CASE Closes(<<Error("protocol")>>)
      BY <1>4, <2>1, ClosesWith
    <2>2. CASE /\ ~ObserveBreaks(k, id, name, n) /\ ~EmitBreaks(Observed(k, id, name, n))
               /\ Becomes(k, Observed(k, id, name, n))
      BY <1>3, <1>4, <2>2
    <2> QED BY <1>4, <2>1, <2>2 DEF Observe
  <1>5. ASSUME NEW id \in Maybe(Id), NEW name \in Maybe(Name), NEW raw \in Nat, mode = "responses",
               stream = "open", items = <<>>, UNCHANGED <<mode, batch, outcome>>, ArgumentsDone(k, raw, id, name)
        PROVE  Telling \/ \E c \in CallState : Reading(k, c)
    <2> DEFINE o == Observed(k, id, name, 0)
               final == IF o.final = None THEN raw ELSE o.final
    <2>1. PICK c : c = [o EXCEPT !.final = final]
      OBVIOUS
    <2>2. o.final = calls[k].final /\ o \in CallState
      BY ObservedIs
    <2>3. final \in Maybe(Nat) /\ calls[k].final \in {None, final}
      BY <1>2, <2>2 DEF Maybe
    <2>4. c = [o EXCEPT !.final = IF @ = None THEN raw ELSE @]
      BY <2>1
    <2>5. CASE Closes(<<Error("protocol")>>)
      BY <1>5, <2>5, ClosesWith
    <2>6. CASE ~ObserveBreaks(k, id, name, 0) /\ ~EmitBreaks(c) /\ Becomes(k, c)
      <3>1. mode # "chat"
        BY <1>5
      <3> HIDE DEF final
      <3>2. c \in CallState /\ Reading(k, c)
        BY <1>5, <2>1, <2>3, <2>6, <3>1, AcceptedIsRead
      <3> QED BY <3>2
    <2> QED BY <1>5, <2>4, <2>5, <2>6 DEF ArgumentsDone
  <1>6. MaxBytes \in Nat /\ None \in Maybe(Id) /\ None \in Maybe(Name)
    BY TurnAssumption DEF Maybe
  <1>7. CASE Responds
    <2>1. mode = "responses" /\ stream = "open" /\ items = <<>> /\ UNCHANGED <<mode, batch, outcome>>
      BY <1>7 DEF Responds, Event, consumer, ends
    <2>2. CASE ItemAdded(k)
      BY <1>4, <2>1, <2>2 DEF ItemAdded
    <2>3. CASE ArgumentsDelta(k)
      BY <1>4, <1>6, <2>1, <2>3 DEF ArgumentsDelta
    <2>4. CASE TextDone(k)
      BY <1>5, <1>6, <2>1, <2>4 DEF TextDone
    <2>5. CASE ItemDone(k)
      BY <1>5, <1>6, <2>1, <2>5 DEF ItemDone
    <2>6. CASE ChatChunk(k)
      BY <2>1, <2>6 DEF ChatChunk, Chats
    <2> QED BY <2>2, <2>3, <2>4, <2>5, <2>6
  <1>8. CASE ChatChunk(k)
    <2>1. mode = "chat" /\ stream = "open" /\ items = <<>> /\ UNCHANGED <<mode, batch, outcome>>
      BY <1>8 DEF ChatChunk, Chats, Event, consumer, ends
    <2>2. PICK id \in Maybe(Id), name \in Maybe(Name), n \in 0 .. 1 :
             IF ObserveBreaks(k, id, name, n)
             THEN Closes(<<Error("protocol")>>)
             ELSE Becomes(k, Observed(k, id, name, n)) /\ payload' = TRUE /\ UNCHANGED finish
      BY <1>8 DEF ChatChunk
    <2>3. CASE Closes(<<Error("protocol")>>)
      BY <2>1, <2>3, ClosesWith
    <2>4. CASE ~ObserveBreaks(k, id, name, n) /\ Becomes(k, Observed(k, id, name, n))
      BY <1>3, <2>1, <2>4
    <2> QED BY <2>2, <2>3, <2>4
  <1> QED BY <1>7, <1>8 DEF ItemAdded, ArgumentsDelta, TextDone, ItemDone

(* The end of a chat: the calls that are whole, then whether it is done. *)
LEMMA ChatEndTells ==
    ASSUME TurnTypes, LoopInv, ChatEnds
    PROVE  Telling
  <1>1. mode = "chat" /\ stream = "open" /\ items = <<>> /\ UNCHANGED <<mode, batch, outcome>>
    BY DEF ChatEnds, Chats, Event, consumer, ends
  <1> DEFINE Ends(p) == [n \in DOMAIN p |-> End(calls[known[p[n]]].id, Buffered(known[p[n]]).final)]
  <1>2. PICK p \in InOrder(Closing) :
           Closes(IF finish = None /\ ~(payload /\ custom) THEN <<Error("connection")>>
                  ELSE IF finish = "length" THEN <<Error("fatal")>>
                  ELSE IF \E k \in ToSet(known) : EmitBreaks(Buffered(k)) THEN <<Error("protocol")>>
                  ELSE IF \E k \in ToSet(known) : calls[k].id = None THEN Ends(p) \o <<Error("protocol")>>
                  ELSE Ends(p) \o <<Done>>)
    BY DEF ChatEnds
  <1>3. {"connection", "fatal", "protocol"} \subseteq Kinds \cup {"protocol"}
    BY DEF Kinds
  <1>4. ASSUME NEW kind \in {"connection", "fatal", "protocol"}, Closes(<<Error(kind)>>) PROVE Telling
    BY <1>1, <1>3, <1>4, ClosesWith
  <1>5. ASSUME NEW x \in Item, x.type \in {"error", "done"}, Closes(Ends(p) \o <<x>>),
               \A k \in ToSet(known) : ~EmitBreaks(Buffered(k)),
               x.type = "done" => \A k \in ToSet(known) : calls[k].id # None
        PROVE  Telling
    <2>1. Closing \subseteq 1 .. Len(known) /\ known \in Seq(Key) /\ Len(known) \in Nat
      BY DEF Closing, TurnTypes
    <2>2. PICK m \in Nat : m = Cardinality(Closing)
      <3>1. IsFiniteSet(1 .. Len(known))
        BY <2>1, FS_Interval
      <3> QED BY <2>1, <3>1, FS_Subset, FS_CardinalityType
    <2>3. p \in [1 .. m -> Closing] /\ DOMAIN p = 1 .. m
      BY <2>2 DEF InOrder
    <2>4. ASSUME NEW n \in 1 .. m
          PROVE  \E k \in Key : /\ Ends(p)[n] = End(calls[k].id, calls[k].parts) /\ calls[k].id # None
                                /\ calls[k].parts \in Objects /\ calls[k].name # None
                                /\ calls[k].id \in Id /\ calls[k].parts \in Nat
      <3>1. PICK k : k = known[p[n]]
        OBVIOUS
      <3>2. p[n] \in Closing /\ p[n] \in 1 .. Len(known)
        BY <2>1, <2>3, <2>4
      <3>3. k \in Key /\ k \in ToSet(known) /\ calls[k].id # None /\ ~calls[k].ended
        BY <2>1, <3>1, <3>2 DEF ToSet, Closing
      <3>4. calls[k] \in CallState /\ calls[k].final = None
        BY <1>1, <3>3 DEF TurnTypes, LoopInv, CallInv
      <3>5. calls[k].id \in Id /\ calls[k].parts \in Nat /\ calls[k].parts # None
        BY <3>3, <3>4, CallParts, NoneIsNone DEF Maybe
      <3>6. Buffered(k) = [calls[k] EXCEPT !.final = calls[k].parts]
        BY <3>4 DEF Buffered, CallState
      <3>7. /\ Buffered(k).final = calls[k].parts /\ Buffered(k).id = calls[k].id
            /\ Buffered(k).name = calls[k].name /\ Buffered(k).ended = calls[k].ended
        BY <3>4, <3>6 DEF CallState
      <3>8. calls[k].name # None /\ calls[k].parts \in Objects
        BY <1>5, <3>3, <3>5, <3>7 DEF EmitBreaks
      <3>9. Ends(p)[n] = End(calls[k].id, calls[k].parts)
        BY <2>3, <2>4, <3>1, <3>7
      <3> QED BY <3>3, <3>5, <3>8, <3>9
    <2>5. \A n \in 1 .. m : Ends(p)[n] \in Item
      BY <2>4 DEF Item
    <2>6. Ends(p) \in Seq(Item) /\ Len(Ends(p)) = m
      BY <2>2, <2>3, <2>5
    <2>7. items' = Ends(p) \o <<x>> /\ stream' = "closed" /\ UNCHANGED <<calls, known, owner>>
      BY <1>5 DEF Closes
    <2>8. stream' = "closed" /\ mode' = "chat"
      BY <1>1, <2>7
    <2> HIDE DEF Ends
    <2>9. /\ items' \in Seq(Item) /\ Len(items') = m + 1 /\ items'[m + 1] = x
          /\ \A n \in 1 .. m : items'[n] = Ends(p)[n]
      BY <2>2, <2>6, <2>7
    <2>10. ASSUME NEW n \in 1 .. m PROVE IsLast(n)'
      <3>1. PICK k \in Key : /\ items'[n] = End(calls[k].id, calls[k].parts) /\ calls[k].id # None
                             /\ calls[k].parts \in Objects /\ calls[k].name # None
        BY <2>4, <2>9
      <3>2. items'[n].type = "end"
        BY <3>1, ItemTypes
      <3> QED BY <2>7, <2>8, <3>1, <3>2 DEF IsLast
    <2>11. IsLast(m + 1)'
      <3>1. x.type \in {"error", "done"} /\ x.type # "end"
            /\ (x.type = "done" => \A k \in ToSet(known) : calls[k].id # None)
        BY <1>5
      <3>2. x.type = "done" =>
               m + 1 = Len(items') /\ stream' = "closed" /\ \A k \in ToSet(known') : calls'[k].id # None
        BY <2>7, <2>9, <3>1
      <3> QED BY <2>9, <3>1, <3>2 DEF IsLast
    <2>12. OnlyLast'
      <3> SUFFICES ASSUME NEW n \in 1 .. m + 1 PROVE IsLast(n)'
        BY <2>9 DEF OnlyLast
      <3>1. n \in 1 .. m \/ n = m + 1
        BY <2>2
      <3> QED BY <2>10, <2>11, <3>1
    <2> QED BY <1>1, <2>7, <2>9, <2>12 DEF Telling
  <1>6. Error("protocol") \in Item /\ Error("protocol").type = "error" /\ Done \in Item /\ Done.type = "done"
    BY ItemTypes DEF Item
  <1>7. CASE finish = None /\ ~(payload /\ custom)
    BY <1>2, <1>4, <1>7
  <1>8. CASE ~(finish = None /\ ~(payload /\ custom)) /\ finish = "length"
    BY <1>2, <1>4, <1>8
  <1>9. CASE ~(finish = None /\ ~(payload /\ custom)) /\ finish # "length"
    <2>1. CASE \E k \in ToSet(known) : EmitBreaks(Buffered(k))
      <3>1. Closes(<<Error("protocol")>>)
        BY <1>2, <1>9, <2>1
      <3> QED BY <1>4, <3>1
    <2>2. CASE ~(\E k \in ToSet(known) : EmitBreaks(Buffered(k)))
               /\ \E k \in ToSet(known) : calls[k].id = None
      <3>1. Closes(Ends(p) \o <<Error("protocol")>>)
        BY <1>2, <1>9, <2>2
      <3> QED BY <1>5, <1>6, <2>2, <3>1
    <2>3. CASE ~(\E k \in ToSet(known) : EmitBreaks(Buffered(k)))
               /\ ~(\E k \in ToSet(known) : calls[k].id = None)
      <3>1. Closes(Ends(p) \o <<Done>>)
        BY <1>2, <1>9, <2>3
      <3> QED BY <1>5, <1>6, <2>3, <3>1
    <2> QED BY <2>1, <2>2, <2>3
  <1> QED BY <1>7, <1>8, <1>9

(* The other events of the provider. *)
LEMMA OtherEvents ==
    ASSUME TurnTypes, LoopInv,
           ResponseCompleted \/ ResponseFails \/ ChatFinishReason \/ ChatFails \/ TextDelta \/ OpenFails
    PROVE  Telling
  <1>1. CASE ResponseFails \/ ChatFails
    <2>1. stream = "open" /\ items = <<>> /\ UNCHANGED <<mode, batch, outcome>>
      BY <1>1 DEF ResponseFails, ChatFails, Responds, Chats, Event, consumer, ends
    <2>2. PICK kind \in Kinds : Closes(<<Error(kind)>>)
      BY <1>1 DEF ResponseFails, ChatFails
    <2> QED BY <2>1, <2>2, ClosesWith
  <1>2. CASE OpenFails
    <2>1. items = <<>> /\ UNCHANGED <<mode, batch, outcome>>
      BY <1>2 DEF OpenFails, MayAsk, LoopInv, Blank, consumer, ends
    <2>2. PICK kind \in Kinds : Closes(<<Error(kind)>>)
      BY <1>2 DEF OpenFails
    <2> QED BY <2>1, <2>2, ClosesWith
  <1>3. CASE TextDelta
    <2>1. stream = "open" /\ items = <<>> /\ UNCHANGED <<mode, calls, known, owner, batch, outcome>> /\ stream' = stream
      BY <1>3 DEF TextDelta, Event, consumer, ends
    <2>2. PICK n \in 1 .. 2 : items' = <<Text(n)>>
      BY <1>3 DEF TextDelta
    <2>3. Text(n) \in Item /\ Text(n).type = "text"
      BY ItemTypes DEF Item
    <2> QED BY <2>1, <2>2, <2>3, TellsOne
  <1>4. CASE ChatFinishReason
    <2>1. stream = "open" /\ items = <<>> /\ UNCHANGED <<mode, batch, outcome>>
      BY <1>4 DEF ChatFinishReason, Chats, Event, consumer, ends
    <2>2. CASE Closes(<<Error("protocol")>>)
      BY <2>1, <2>2, ClosesWith
    <2>3. CASE UNCHANGED <<stream, calls, known, owner, items>>
      BY <2>1, <2>3 DEF Telling, OnlyLast, TurnTypes
    <2> QED BY <1>4, <2>2, <2>3 DEF ChatFinishReason
  <1>5. CASE ResponseCompleted
    <2>1. stream = "open" /\ items = <<>> /\ UNCHANGED <<mode, batch, outcome>>
      BY <1>5 DEF ResponseCompleted, Responds, Event, consumer, ends
    <2>2. CASE Unfinished # {}
      <3>1. Closes(<<Error("protocol")>>)
        BY <1>5, <2>2 DEF ResponseCompleted
      <3> QED BY <2>1, <3>1, ClosesWith
    <2>3. CASE Unfinished = {}
      <3>1. items' = <<Done>> /\ stream' = "closed" /\ UNCHANGED <<calls, known, owner>>
        BY <1>5, <2>3 DEF ResponseCompleted, Closes
      <3>2. \A k \in ToSet(known) : calls[k].id # None
        <4>1. ToSet(known) \subseteq Key
          BY DEF ToSet, TurnTypes
        <4> QED BY <2>3, <4>1 DEF Unfinished, LoopInv, CallInv
      <3>3. items' \in Seq(Item) /\ Len(items') = 1 /\ items'[1] = Done
        BY <3>1 DEF Item
      <3>4. Done.type = "done"
        BY ItemTypes
      <3>5. IsLast(1)'
        BY <3>1, <3>2, <3>3, <3>4 DEF IsLast
      <3>6. OnlyLast'
        <4> SUFFICES ASSUME NEW n \in 1 .. 1 PROVE IsLast(n)'
          BY <3>3 DEF OnlyLast
        <4>1. n = 1
          OBVIOUS
        <4> QED BY <3>5, <4>1
      <3> QED BY <2>1, <3>1, <3>3, <3>6 DEF Telling
    <2> QED BY <2>2, <2>3
  <1> QED BY <1>1, <1>2, <1>3, <1>4, <1>5

(* A new stream, after a fallback or a retry too. *)
LEMMA NewStreams ==
    ASSUME TurnTypes, LoopInv, Opens \/ NotFound \/ (Again /\ outcome' = outcome)
    PROVE  Blanking
  <1>1. NoCall \in CallState
    BY DEF NoCall, CallState, Maybe
  <1>2. ASSUME NEW s \in {"none", "open"}, NoStream(s)
        PROVE  /\ stream' \in {"none", "open", "closed"} /\ calls' \in [Key -> CallState] /\ known' = <<>>
               /\ owner' \in [Id -> Maybe(Key)] /\ \A k \in Key : calls'[k] = NoCall
    BY <1>1, <1>2 DEF NoStream, Maybe
  <1>3. CASE Opens
    <2>1. NoStream("open") /\ stream = "none" /\ UNCHANGED <<mode, items, batch, outcome>>
      BY <1>3 DEF Opens, MayAsk, consumer, ends
    <2>2. TurnTypes'
      BY <1>2, <2>1 DEF TurnTypes, batch
    <2>3. Blank'
      BY <1>2, <2>1 DEF LoopInv, Blank, batch
    <2> QED BY <2>1, <2>2, <2>3 DEF Blanking
  <1>4. CASE NotFound
    <2>1. /\ mode' = "chat" /\ stream = "none"
          /\ UNCHANGED <<stream, calls, known, owner, items, order, call, ended, ignored, outcome>>
      BY <1>4 DEF NotFound, MayAsk, consumer, ends, adapter, batch
    <2>2. TurnTypes'
      BY <2>1 DEF TurnTypes
    <2>3. Blank'
      BY <2>1 DEF LoopInv, Blank
    <2> QED BY <2>1, <2>2, <2>3 DEF Blanking
  <1>5. CASE Again /\ outcome' = outcome
    <2>1. /\ NoStream("none") /\ mode' = mode /\ items' = <<>> /\ order' = <<>> /\ ended' = {} /\ ignored' = {}
          /\ call' = [i \in Id |-> [raw |-> 0, arguments |-> None]]
      BY <1>5 DEF Again
    <2>2. call' \in [Id -> Argument]
      BY <2>1 DEF Argument, Maybe
    <2>3. TurnTypes'
      BY <1>2, <2>1, <2>2 DEF TurnTypes
    <2>4. Blank'
      BY <1>2, <2>1 DEF Blank
    <2> QED BY <1>5, <2>3, <2>4 DEF Blanking
  <1> QED BY <1>3, <1>4, <1>5

(* None is no word of a protocol or of an outcome. *)
LEMMA NoneIsNoWord ==
    /\ None # "stop" /\ None # "fatal" /\ None # "connection" /\ None # "timeout"
    /\ None # "protocol" /\ None # "budget" /\ None # "interrupt"
    /\ None # "cancelled" /\ None # "interrupted" /\ None # "failed"
    /\ None # "calls" /\ None # "answer"
  BY TurnAssumption

(* The kinds of an end other than a complete stream give no calls. *)
LEMMA Outcomes ==
    \A kind \in Kinds \cup {"protocol", "budget", "interrupt"} : Outcome(kind) \in {"cancelled", "interrupted", "failed"}
  <1> SUFFICES ASSUME NEW kind \in Kinds \cup {"protocol", "budget", "interrupt"}
               PROVE  Outcome(kind) \in {"cancelled", "interrupted", "failed"}
    OBVIOUS
  <1>1. kind # None
    BY NoneIsNoWord DEF Kinds
  <1> QED BY <1>1 DEF Outcome

(* A turn that ends so is over. *)
LEMMA EndsOver ==
    ASSUME NEW kind \in Kinds \cup {"protocol", "budget", "interrupt"}, TurnEnds(kind)
    PROVE  Over
  <1>1. outcome' = Outcome(kind) /\ UNCHANGED <<mode, adapter, items, batch>>
    BY DEF TurnEnds
  <1>2. outcome' \notin {None, "calls"}
    BY <1>1, Outcomes, NoneIsNoWord
  <1> QED BY <1>1, <1>2 DEF Over

(* What an item carries. *)
LEMMA ItemParts ==
    \A x \in Item :
        /\ x.type = "start" => x.id \in Id /\ x = Start(x.id)
        /\ x.type = "delta" => x.id \in Id /\ x = Delta(x.id)
        /\ x.type = "end" => x.id \in Id /\ x.arguments \in Nat /\ x = End(x.id, x.arguments)
        /\ x.type = "error" => x.kind \in Kinds \cup {"protocol"}
        /\ x.type = "done" => x = Done
  <1> SUFFICES ASSUME NEW x \in Item
               PROVE  /\ x.type = "start" => x.id \in Id /\ x = Start(x.id)
                      /\ x.type = "delta" => x.id \in Id /\ x = Delta(x.id)
                      /\ x.type = "end" => x.id \in Id /\ x.arguments \in Nat /\ x = End(x.id, x.arguments)
                      /\ x.type = "error" => x.kind \in Kinds \cup {"protocol"}
                      /\ x.type = "done" => x = Done
    OBVIOUS
  <1>1. CASE \E n \in 1 .. 2 : x = Text(n)
    BY <1>1, ItemTypes
  <1>2. CASE \E i \in Id : x = Start(i)
    BY <1>2, ItemTypes
  <1>3. CASE \E i \in Id : x = Delta(i)
    BY <1>3, ItemTypes
  <1>4. CASE \E i \in Id, n \in Nat : x = End(i, n)
    BY <1>4, ItemTypes
  <1>5. CASE \E kind \in Kinds \cup {"protocol"} : x = Error(kind)
    BY <1>5, ItemTypes
  <1>6. CASE x = Done
    BY <1>6, ItemTypes
  <1> QED BY <1>1, <1>2, <1>3, <1>4, <1>5, <1>6 DEF Item

(* The consumption of an item, unless it ends the turn or its stream was complete. *)
LEMMA ConsumerSteps ==
    ASSUME TurnTypes, LoopInv, TakeText \/ TakeStart \/ TakeDelta \/ TakeEnd \/ TakeError \/ Stopped
    PROVE  Over \/ Reads \/ Blanking
             \/ \E i \in Id : Begins(i) \/ Extends(i) \/ \E n \in Nat : Completes(i, n)
  <1>1. "budget" \in Kinds \cup {"protocol", "budget", "interrupt"}
    OBVIOUS
  <1>2. Breaks => Over
    BY <1>1, EndsOver DEF Breaks
  <1>3. ASSUME NEW type, Takes(type)
        PROVE  Asking /\ items # <<>> /\ Head(items).type = type /\ Head(items) \in Item
    <2>1. items # <<>> /\ Asking /\ Head(items).type = type
      BY <1>3 DEF Takes, Head1
    <2> QED BY <2>1 DEF TurnTypes
  <1>4. ASSUME Asking, items # <<>>, NEW i \in Id, Hears
        PROVE  Hearing(i) /\ items' = Tail(items) /\ UNCHANGED <<mode, adapter, outcome>>
    BY <1>4 DEF Hears, Hearing, ends
  <1>5. CASE TakeText
    <2>1. Takes("text") /\ (Breaks \/ Hears) /\ UNCHANGED batch
      BY <1>5 DEF TakeText
    <2>2. CASE Hears
      BY <1>3, <2>1, <2>2 DEF Reads, Hears, ends
    <2> QED BY <1>2, <2>1, <2>2
  <1>6. CASE TakeStart
    <2>1. Takes("start")
      BY <1>6 DEF TakeStart
    <2>2. PICK i \in Id : Head(items) = Start(i) /\ i = Head1.id
      BY <1>3, <2>1, ItemParts DEF Head1
    <2>3. CASE Breaks
      BY <1>2, <2>3
    <2>4. CASE ignored' = ignored \cup {i} /\ Hears /\ UNCHANGED <<order, call, ended, counted>>
      BY <1>3, <1>4, <2>1, <2>2, <2>4 DEF Begins
    <2>5. CASE Accept(i) /\ Hears
      BY <1>3, <1>4, <2>1, <2>2, <2>5 DEF Begins, Accept
    <2> QED BY <1>6, <2>2, <2>3, <2>4, <2>5 DEF TakeStart
  <1>7. CASE TakeDelta
    <2>1. Takes("delta")
      BY <1>7 DEF TakeDelta
    <2>2. PICK i \in Id : Head(items) = Delta(i) /\ i = Head1.id
      BY <1>3, <2>1, ItemParts DEF Head1
    <2>3. CASE Breaks
      BY <1>2, <2>3
    <2>4. CASE /\ call' = IF i \in ignored THEN call ELSE [call EXCEPT ![i].raw = @ + 1]
               /\ Hears /\ UNCHANGED <<order, ended, ignored>>
      BY <1>3, <1>4, <2>1, <2>2, <2>4 DEF Extends
    <2> QED BY <1>7, <2>2, <2>3, <2>4 DEF TakeDelta
  <1>8. CASE TakeEnd
    <2>1. Takes("end")
      BY <1>8 DEF TakeEnd
    <2>2. PICK i \in Id, n \in Nat : Head(items) = End(i, n) /\ i = Head1.id /\ n = Head1.arguments
      BY <1>3, <2>1, ItemParts DEF Head1
    <2>3. CASE Breaks
      BY <1>2, <2>3
    <2>4. CASE /\ call' = IF i \in ignored THEN call ELSE [call EXCEPT ![i].arguments = n]
               /\ ended' = IF i \in ignored THEN ended ELSE ended \cup {i}
               /\ Hears /\ UNCHANGED <<order, ignored>>
      <3>1. Completes(i, n)
        BY <1>3, <1>4, <2>1, <2>2, <2>4 DEF Completes
      <3> QED BY <3>1
    <2> QED BY <1>8, <2>2, <2>3, <2>4 DEF TakeEnd
  <1>9. CASE TakeError
    <2>1. Takes("error")
      BY <1>9 DEF TakeError
    <2>2. Head1.kind \in Kinds \cup {"protocol"}
      BY <1>3, <2>1, ItemParts DEF Head1
    <2>3. CASE TurnEnds(Head1.kind)
      BY <2>2, <2>3, EndsOver
    <2>4. CASE Again
      <3>1. outcome' = outcome
        BY <2>4 DEF Again, ends
      <3> QED BY <2>4, <3>1, NewStreams
    <2> QED BY <1>9, <2>3, <2>4 DEF TakeError
  <1>10. CASE Stopped
    <2>1. PICK kind \in {"stop", "interrupt"} : TurnEnds(kind)
      BY <1>10 DEF Stopped
    <2>2. kind \in Kinds \cup {"protocol", "budget", "interrupt"}
      BY DEF Kinds
    <2> QED BY <2>1, <2>2, EndsOver
  <1> QED BY <1>5, <1>6, <1>7, <1>8, <1>9, <1>10

(* A turn that ends with calls has them whole, and no other call of the provider was forgotten. *)
LEMMA CallsEnd ==
    ASSUME TurnTypes, LoopInv, TakeDone
    PROVE  /\ CallsAreWhole' /\ outcome' # None
           /\ UNCHANGED <<mode, adapter, items, batch>>
  <1>1. /\ items # <<>> /\ Head1 = Done /\ UNCHANGED <<mode, adapter, items, batch>>
        /\ \E kind \in {None, "budget"} : outcome' = Outcome(kind)
    <2>1. Takes("done")
      BY DEF TakeDone
    <2>2. items # <<>> /\ Head1.type = "done" /\ Head1 \in Item
      BY <2>1 DEF Takes, Head1, TurnTypes
    <2> QED BY <2>2, ItemParts DEF TakeDone, TurnEnds
  <1>2. outcome' = "failed" \/ outcome' = Outcome(None)
    BY <1>1, NoneIsNoWord DEF Outcome
  <1>3. Outcome(None) = IF ToSet(order) \ ended # {} THEN "failed" ELSE IF order # <<>> THEN "calls" ELSE "answer"
    BY NoneIsNoWord DEF Outcome
  <1>4. outcome' # None
    BY <1>2, <1>3, NoneIsNoWord
  <1>5. ASSUME outcome' = "calls"
        PROVE  /\ \A i \in ToSet(order) :
                     LET k == KeyOf(i)
                     IN /\ \A j \in Key : calls[j].id = i => j = k
                        /\ calls[k].name # None
                        /\ call[i].arguments \in Objects
                        /\ mode = "responses" => call[i].arguments = calls[k].final
                        /\ mode = "chat" => call[i].arguments = calls[k].parts
               /\ {calls[k].id : k \in ToSet(known)} = ToSet(order) \cup ignored
    <2>1. ToSet(order) \subseteq ended
      BY <1>2, <1>3, <1>5
    <2>2. CallInv /\ BegunInv /\ EndedInv /\ ItemsInv /\ ToSet(order) \subseteq Id /\ Begun \subseteq Id
          /\ ToSet(known) \subseteq Key
      BY DEF LoopInv, TurnTypes, ToSet, Begun
    <2>3. items[1] = Done /\ items[1].type = "done" /\ 1 \in 1 .. Len(items)
      BY <1>1, ItemTypes DEF Head1, TurnTypes
    <2>4. LastItems
      <3>1. ASSUME NEW k \in Key, NEW s \in 0 .. 1, NEW e \in 0 .. 1, NEW d \in 0 .. Len(items), Emission(k, s, d, e)
            PROVE  FALSE
        BY <1>1, <2>3, <3>1, FirstOf
      <3> QED BY <2>2, <3>1 DEF ItemsInv
    <2>5. \A k \in ToSet(known) : calls[k].id # None
      BY <2>3, <2>4 DEF LastItems, IsLast
    <2>6. ASSUME NEW i \in ToSet(order)
          PROVE  LET k == KeyOf(i)
                 IN /\ \A j \in Key : calls[j].id = i => j = k
                    /\ calls[k].name # None
                    /\ call[i].arguments \in Objects
                    /\ mode = "responses" => call[i].arguments = calls[k].final
                    /\ mode = "chat" => call[i].arguments = calls[k].parts
      <3>1. \E k \in Key : calls[k].id = i
        BY <2>2 DEF BegunInv, Begun
      <3>2. KeyOf(i) \in Key /\ calls[KeyOf(i)].id = i
        BY <3>1 DEF KeyOf
      <3>3. i # None /\ i \in ended
        BY <2>1, <2>2, NoneIsNone
      <3>4. \A j \in Key : calls[j].id = i => j = KeyOf(i)
        BY <2>2, <3>2, <3>3, OneOwner
      <3> QED BY <2>2, <3>2, <3>3, <3>4 DEF EndedInv
    <2>7. ASSUME NEW k \in ToSet(known) PROVE calls[k].id \in Begun
      <3>1. \A n \in 1 .. Len(items) : items[n].type # "start"
        BY <2>4 DEF LastItems, IsLast
      <3> QED BY <2>2, <2>5, <3>1, ItemTypes DEF BegunInv
    <2>8. ASSUME NEW i \in Begun PROVE \E k \in ToSet(known) : calls[k].id = i
      <3>1. PICK k \in Key : calls[k].id = i
        BY <2>2 DEF BegunInv
      <3>2. i # None
        BY <2>2, NoneIsNone
      <3> QED BY <2>2, <3>1, <3>2 DEF CallInv
    <2> QED BY <2>6, <2>7, <2>8 DEF Begun
  <1>6. UNCHANGED <<mode, calls, known, order, call, ignored>>
    BY <1>1 DEF adapter, batch
  <1> QED BY <1>1, <1>4, <1>5, <1>6 DEF CallsAreWhole, KeyOf

(* A turn begins with nothing said. *)
LEMMA TurnInitInv == TurnInit => TurnInv
  <1> SUFFICES ASSUME TurnInit PROVE TurnInv
    OBVIOUS
  <1>1. TurnTypes
    <2>1. NoCall \in CallState /\ [raw |-> 0, arguments |-> None] \in Argument
      BY DEF NoCall, CallState, Argument, Maybe
    <2> QED BY <2>1 DEF TurnInit, TurnTypes, Maybe
  <1>2. Blank
    BY DEF TurnInit, Blank
  <1>3. outcome # "calls"
    BY NoneIsNoWord DEF TurnInit
  <1> QED BY <1>1, <1>2, <1>3, BlankIs DEF TurnInv, CallsAreWhole

(* A step of the provider says something of a call, or something else, or begins a stream. *)
LEMMA ProviderSteps ==
    ASSUME TurnTypes, LoopInv, Opens \/ NotFound \/ OpenFails \/ Responses \/ Chat \/ TextDelta
    PROVE  Telling \/ Blanking \/ \E k \in Key : \E c \in CallState : Reading(k, c)
  <1>1. CASE Opens \/ NotFound
    BY <1>1, NewStreams
  <1>2. CASE OpenFails \/ TextDelta
    BY <1>2, OtherEvents
  <1>3. CASE Responses
    <2>1. CASE ResponseCompleted \/ ResponseFails
      BY <2>1, OtherEvents
    <2>2. CASE \E k \in Key : ItemAdded(k) \/ ArgumentsDelta(k) \/ TextDone(k) \/ ItemDone(k)
      BY <2>2, CallEvents
    <2> QED BY <1>3, <2>1, <2>2 DEF Responses
  <1>4. CASE Chat
    <2>1. CASE ChatFinishReason \/ ChatFails
      BY <2>1, OtherEvents
    <2>2. CASE ChatEnds
      BY <2>2, ChatEndTells
    <2>3. CASE \E k \in Key : ChatChunk(k)
      BY <2>3, CallEvents
    <2> QED BY <1>4, <2>1, <2>2, <2>3 DEF Chat
  <1> QED BY <1>1, <1>2, <1>3, <1>4

(* While the turn is under way, a step keeps what is known of it or ends it. *)
LEMMA LoopSteps ==
    ASSUME TurnTypes, LoopInv, Asking, TurnNext
    PROVE  TurnTypes' /\ ((LoopInv' /\ outcome' = outcome) \/ Over \/ (CallsAreWhole' /\ ~Asking'))
  <1>1. ASSUME Blanking
        PROVE  TurnTypes' /\ LoopInv' /\ outcome' = outcome
    <2>1. (TurnTypes /\ Blank => LoopInv)'
      BY BlankIs, PTL
    <2> QED BY <1>1, <2>1 DEF Blanking
  <1>2. ASSUME Over
        PROVE  TurnTypes'
    BY <1>2 DEF Over, adapter, batch, TurnTypes
  <1>3. CASE Opens \/ NotFound \/ OpenFails \/ Responses \/ Chat \/ TextDelta
    <2>1. CASE Telling
      <3>1. outcome' = outcome
        BY <2>1 DEF Telling
      <3> QED BY <2>1, <3>1, TellingKeeps
    <2>2. ASSUME NEW k \in Key, NEW c \in CallState, Reading(k, c)
          PROVE  TurnTypes' /\ LoopInv' /\ outcome' = outcome
      <3>1. outcome' = outcome
        BY <2>2 DEF Reading
      <3> QED BY <2>2, <3>1, ReadingKeeps
    <2> QED BY <1>1, <1>3, <2>1, <2>2, ProviderSteps
  <1>4. CASE TakeText \/ TakeStart \/ TakeDelta \/ TakeEnd \/ TakeError \/ Stopped
    <2>1. CASE Reads
      <3>1. outcome' = outcome
        BY <2>1 DEF Reads
      <3> QED BY <2>1, <3>1, ReadsKeeps
    <2>2. ASSUME NEW i \in Id, Hearing(i)
          PROVE  outcome' = outcome
      BY <2>2 DEF Hearing
    <2>3. ASSUME NEW i \in Id, Begins(i)
          PROVE  TurnTypes' /\ LoopInv' /\ outcome' = outcome
      <3>1. Hearing(i)
        BY <2>3 DEF Begins
      <3> QED BY <2>2, <2>3, <3>1, BeginsKeeps
    <2>4. ASSUME NEW i \in Id, Extends(i)
          PROVE  TurnTypes' /\ LoopInv' /\ outcome' = outcome
      <3>1. Hearing(i)
        BY <2>4 DEF Extends
      <3> QED BY <2>2, <2>4, <3>1, ExtendsKeeps
    <2>5. ASSUME NEW i \in Id, NEW n \in Nat, Completes(i, n)
          PROVE  TurnTypes' /\ LoopInv' /\ outcome' = outcome
      <3>1. Hearing(i)
        BY <2>5 DEF Completes
      <3> QED BY <2>2, <2>5, <3>1, CompletesKeeps
    <2>6. Over \/ Reads \/ Blanking \/ \E i \in Id : Begins(i) \/ Extends(i) \/ \E n \in Nat : Completes(i, n)
      BY <1>4, ConsumerSteps
    <2> QED BY <1>1, <1>2, <2>1, <2>3, <2>4, <2>5, <2>6
  <1>5. CASE TakeDone
    <2>1. CallsAreWhole' /\ outcome' # None /\ UNCHANGED <<mode, adapter, items, batch>>
      BY <1>5, CallsEnd
    <2>2. TurnTypes'
      BY <2>1 DEF adapter, batch, TurnTypes
    <2> QED BY <2>1, <2>2 DEF Asking
  <1> QED BY <1>3, <1>4, <1>5 DEF TurnNext, Consume

(* A turn that is over takes no step. *)
LEMMA OverIsOver == TurnNext => Asking
  BY DEF TurnNext, Opens, NotFound, OpenFails, MayAsk, Responses, ResponseCompleted, ResponseFails,
         ItemAdded, ArgumentsDelta, TextDone, ItemDone, Responds, Chat, ChatFinishReason, ChatEnds,
         ChatFails, ChatChunk, Chats, TextDelta, Event, Consume, TakeText, TakeStart, TakeDelta,
         TakeEnd, TakeError, TakeDone, Takes, Stopped

(* The invariant is inductive. *)
LEMMA TurnNextInv == TurnInv /\ [TurnNext]_turnVars => TurnInv'
  <1> SUFFICES ASSUME TurnInv, [TurnNext]_turnVars PROVE TurnInv'
    OBVIOUS
  <1>1. CASE TurnNext
    <2>1. TurnTypes /\ LoopInv /\ Asking
      BY <1>1, OverIsOver DEF TurnInv
    <2>2. TurnTypes' /\ ((LoopInv' /\ outcome' = outcome) \/ Over \/ (CallsAreWhole' /\ ~Asking'))
      BY <1>1, <2>1, LoopSteps
    <2>3. CASE LoopInv' /\ outcome' = outcome
      <3>1. outcome' # "calls"
        BY <2>1, <2>3, NoneIsNoWord DEF Asking
      <3>2. CallsAreWhole'
        BY <3>1 DEF CallsAreWhole
      <3> QED BY <2>2, <2>3, <3>2 DEF TurnInv
    <2>4. CASE Over
      <3>1. ~Asking' /\ CallsAreWhole'
        BY <2>4 DEF Over, Asking, CallsAreWhole
      <3> QED BY <2>2, <3>1 DEF TurnInv
    <2>5. CASE CallsAreWhole' /\ ~Asking'
      BY <2>2, <2>5 DEF TurnInv
    <2> QED BY <2>2, <2>3, <2>4, <2>5
  <1>2. CASE UNCHANGED turnVars
    <2>1. UNCHANGED <<mode, stream, calls, known, owner, items, batch, outcome>>
      BY <1>2 DEF turnVars, adapter, ends
    <2>2. UNCHANGED <<order, call, ended, ignored>>
      BY <2>1 DEF batch
    <2>3. TurnTypes'
      BY <2>1, <2>2 DEF TurnInv, TurnTypes
    <2>4. CallsAreWhole'
      <3>1. CASE outcome = "calls"
        <4>1. UNCHANGED <<mode, calls, known, order, call, ignored, outcome>>
          BY <2>1, <2>2
        <4>2. /\ \A i \in ToSet(order) :
                    LET k == KeyOf(i)
                    IN /\ \A j \in Key : calls[j].id = i => j = k
                       /\ calls[k].name # None
                       /\ call[i].arguments \in Objects
                       /\ mode = "responses" => call[i].arguments = calls[k].final
                       /\ mode = "chat" => call[i].arguments = calls[k].parts
              /\ {calls[k].id : k \in ToSet(known)} = ToSet(order) \cup ignored
          BY <3>1 DEF TurnInv, CallsAreWhole
        <4> QED BY <4>1, <4>2 DEF CallsAreWhole, KeyOf
      <3>2. CASE outcome # "calls"
        BY <2>1, <3>2 DEF CallsAreWhole
      <3> QED BY <3>1, <3>2
    <2>5. ASSUME Asking' PROVE LoopInv'
      <3>1. LoopInv
        BY <2>1, <2>5 DEF TurnInv, Asking
      <3>2. Blank => Blank'
        BY <2>1, <2>2 DEF Blank
      <3>3. CallInv' /\ BegunInv' /\ EndedInv'
        BY <2>1, <2>2, <3>1 DEF LoopInv, CallInv, BegunInv, EndedInv, Begun
      <3>4. ItemsInv'
        <4>1. \A k \in Key, d \in Nat : Arrived(k, d) => Arrived(k, d)'
          BY <2>1, <2>2 DEF Arrived
        <4>2. LastItems => LastItems'
          BY <2>1, <4>1 DEF LastItems, IsLast
        <4>3. ASSUME NEW k \in Key, NEW s \in 0 .. 1, NEW e \in 0 .. 1, NEW d \in 0 .. Len(items),
                     Emission(k, s, d, e)
              PROVE  Emission(k, s, d, e)'
          <5>1. Arrived(k, d)'
            BY <4>1, <4>3 DEF Emission
          <5> QED BY <2>1, <2>2, <4>3, <5>1 DEF Emission, Begun
        <4> QED BY <2>1, <3>1, <4>2, <4>3 DEF LoopInv, ItemsInv
      <3> QED BY <2>1, <3>1, <3>2, <3>3, <3>4 DEF LoopInv
    <2> QED BY <2>3, <2>4, <2>5 DEF TurnInv
  <1> QED BY <1>1, <1>2

(* The invariant of a turn. *)
LEMMA TurnInvariant == TurnSpec => []TurnInv
  BY TurnInitInv, TurnNextInv, PTL DEF TurnSpec

(* A turn that asks for calls has each whole, and the ids of all the calls of the provider: an
   end without the end of each is a failure (runtime.py, the check after the stream). *)
THEOREM CallsEndWhole == TurnSpec => []CallsAreWhole
  <1>1. TurnInv => CallsAreWhole
    BY DEF TurnInv
  <1> QED BY <1>1, TurnInvariant, PTL

(* The pieces on their way and those that have arrived are those the adapter has seen. *)
LEMMA PiecesOf ==
    ASSUME TurnTypes, LoopInv, NEW k \in Key, calls[k].id \in ToSet(order)
    PROVE  call[calls[k].id].raw + Cardinality({n \in DOMAIN items : items[n] = Delta(calls[k].id)}) = calls[k].parts
  <1> DEFINE P == {n \in DOMAIN items : items[n] = Delta(calls[k].id)}
  <1>1. DOMAIN items = 1 .. Len(items) /\ Len(items) \in Nat
    BY DEF TurnTypes
  <1>2. calls[k].id \in Id /\ calls[k].id # None /\ call[calls[k].id].raw \in Nat
    <2>1. calls[k].id \in Id
      BY DEF TurnTypes, ToSet
    <2> QED BY <2>1, NoneIsNone, ArgumentParts DEF TurnTypes
  <1>3. ASSUME P = {}, Arrived(k, 0)
        PROVE  call[calls[k].id].raw + Cardinality(P) = calls[k].parts
    <2>1. Cardinality(P) = 0
      BY <1>3, FS_EmptySet
    <2>2. call[calls[k].id].raw + 0 = calls[k].parts
      BY <1>3 DEF Arrived
    <2> QED BY <2>1, <2>2
  <1>4. CASE LastItems
    <2>1. \A n \in 1 .. Len(items) : items[n].type # "delta"
      BY <1>4 DEF LastItems, IsLast
    <2>2. P = {}
      BY <1>1, <2>1, ItemTypes
    <2>3. Arrived(k, 0)
      BY <1>4 DEF LastItems
    <2> QED BY <1>3, <2>2, <2>3
  <1>5. ASSUME NEW j \in Key, NEW s \in 0 .. 1, NEW e \in 0 .. 1, NEW d \in 0 .. Len(items), Emission(j, s, d, e)
        PROVE  call[calls[k].id].raw + Cardinality(P) = calls[k].parts
    <2>1. /\ Len(items) = s + d + e /\ calls[j].id # None /\ Arrived(j, d) /\ d \in Nat
          /\ \A n \in 1 .. Len(items) :
                items[n] = IF n <= s THEN Start(calls[j].id)
                           ELSE IF n <= s + d THEN Delta(calls[j].id) ELSE End(calls[j].id, calls[j].final)
      BY <1>1, <1>5 DEF Emission
    <2>2. CASE j = k
      <3>1. P \subseteq s + 1 .. s + d
        <4>1. ASSUME NEW n \in 1 .. Len(items), items[n].type = "delta" PROVE n \in s + 1 .. s + d
          BY <1>1, <2>1, <4>1, ItemTypes
        <4> QED BY <1>1, <4>1, ItemTypes
      <3>2. s + 1 .. s + d \subseteq P
        <4>1. ASSUME NEW n \in s + 1 .. s + d PROVE n \in 1 .. Len(items) /\ n > s /\ n <= s + d
          BY <1>1, <2>1
        <4>2. ASSUME NEW n \in s + 1 .. s + d PROVE items[n] = Delta(calls[k].id)
          <5>1. n \in 1 .. Len(items) /\ ~(n <= s) /\ n <= s + d
            BY <4>1
          <5> QED BY <2>1, <2>2, <5>1
        <4> QED BY <1>1, <4>1, <4>2
      <3>3. Cardinality(s + 1 .. s + d) = d
        <4>1. s + 1 \in Int /\ s + d \in Int
          BY <2>1
        <4> QED BY <2>1, <4>1, FS_Interval
      <3>4. call[calls[k].id].raw + d = calls[k].parts
        BY <2>1, <2>2 DEF Arrived
      <3> QED BY <3>1, <3>2, <3>3, <3>4
    <2>3. CASE j # k
      <3>1. calls[j].id # calls[k].id
        BY <1>2, <2>3, OneOwner DEF LoopInv
      <3>2. \A n \in 1 .. Len(items) : items[n].id = calls[j].id
        BY <2>1, ItemTypes
      <3>3. P = {}
        BY <1>1, <3>1, <3>2, ItemTypes
      <3>4. call[calls[k].id].raw + 0 = calls[k].parts
        BY <2>1, <2>3 DEF Arrived
      <3>5. Cardinality(P) = 0
        BY <3>3, FS_EmptySet
      <3> QED BY <3>4, <3>5
    <2> QED BY <2>2, <2>3
  <1> QED BY <1>4, <1>5 DEF LoopInv, ItemsInv

(* Every piece of the arguments of a call reaches the loop once, also those that came before its
   id: the adapter keeps them back and then sends each (openai_adapter.py, _emit_ready). *)
THEOREM PiecesArriveOnce == TurnSpec => []FragmentsOnce
  <1>1. TurnInv => FragmentsOnce
    BY PiecesOf DEF TurnInv, Asking, FragmentsOnce
  <1> QED BY <1>1, TurnInvariant, PTL

===============================================================================
