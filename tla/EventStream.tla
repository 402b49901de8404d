------------------------------ MODULE EventStream ------------------------------
(***************************************************************************)
(* The agent's events on their way to the buyer's screen: the engine       *)
(* appends them to the events table and then publishes them, between the   *)
(* heartbeats, gateway events and AI steps that are only published         *)
(* (agent_service.py, storage/events.py, engine/events.py); the host       *)
(* projects the topic into runtime_event (KafkaEventConsumer).             *)
(*                                                                         *)
(* A published number is not the row's number: it comes from a counter in  *)
(* memory, which a restart seeds from the highest number it can still find *)
(* in the table, in the durable watermark and in the topic.  Collection of *)
(* old runs empties the first, retention the last.                         *)
(***************************************************************************)
EXTENDS Integers, Sequences, FiniteSetsExt

CONSTANTS
    Run,         \* runs whose events are appended; all events of a run are of one type
    NoRun,       \* the run_id of a heartbeat, a gateway event or an AI step
    Island,      \* numbers of rows the host kept from before the watermark existed
    MaxTaken,    \* bound: numbers taken
    MaxClock,    \* bound: seconds
    MaxUnsaved,  \* bound: numbers whose write to the watermark fails
    MaxRewinds   \* bound: deliveries repeated because the host died before its commit

ASSUME EventStreamAssumption ==
    /\ NoRun \notin Run /\ Island \in SUBSET (Nat \ {0}) /\ IsFiniteSet(Island)
    /\ {MaxTaken, MaxClock, MaxUnsaved, MaxRewinds} \subseteq Nat

VARIABLES
    store,    \* the agent's database: rows of events, sqlite_sequence, global_seq_counter
    seq,      \* _global_seq, in memory
    backlog,  \* runs of the rows appended and not yet published by the engine's thread
    taken,    \* what each publishing thread has numbered and not yet sent
    topic,    \* caijiatai.events, one partition, as ever written
    trimmed,  \* how many of its records retention has removed
    clock,    \* the second occurred_at is written in
    stored,   \* the rows of runtime_event
    offset,   \* the committed offset of the host's consumer group
    count     \* history: numbers taken, numbers not saved, deliveries repeated

agent == <<store, seq, backlog, taken>>
host == <<stored, offset>>
eventVars == <<store, seq, backlog, taken, topic, trimmed, clock, stored, offset, count>>

Threads == {"engine", "pulse"}
Highest(S) == Max(S \cup {0})
Nothing == [id |-> 0, seq |-> 0, run |-> NoRun, saved |-> FALSE, at |-> 0]

EventInit ==
    /\ store = [rows |-> {}, rowid |-> 0, counter |-> 0]
    /\ seq = 0 /\ backlog = <<>> /\ taken = [t \in Threads |-> Nothing]
    /\ topic = <<>> /\ trimmed = 0 /\ clock = 1
    /\ stored = {[id |-> 0, seq |-> n, run |-> NoRun, at |-> 0] : n \in Island} /\ offset = 0
    /\ count = [taken |-> 0, unsaved |-> 0, rewinds |-> 0]

(* The watermark is only ever raised. *)
Raised(s, n) == [s EXCEPT !.counter = Highest({@, n})]
Free(t) == taken[t] = Nothing

(* A batch of a run's events becomes rows, and the watermark is raised to the last of them. *)
Appended(run, n) ==
    LET rows == {[seq |-> i, run |-> run] : i \in store.rowid + 1 .. store.rowid + n}
    IN  Raised([store EXCEPT !.rows = @ \cup rows, !.rowid = @ + n], store.rowid + n)

(* The observers of the engine hear of the rows one after another, when they are committed. *)
FanOut(run, n) == [i \in 1 .. n |-> run]

(* One transaction updates the run and appends its events. *)
UpdateRun(run, n) ==
    /\ Free("engine") /\ backlog = <<>> /\ count.taken + n <= MaxTaken
    /\ store' = Appended(run, n) /\ backlog' = FanOut(run, n)
    /\ UNCHANGED <<seq, taken, topic, trimmed, clock, host, count>>

(* The number a thread gets: the counter's next, or the watermark if that is already higher. *)
NextSeq(saved) ==
    LET s == Raised(store, seq + 1)
    IN  IF saved THEN [seq |-> s.counter, store |-> s] ELSE [seq |-> seq + 1, store |-> store]

Takes(t, run, saved) ==
    LET next == NextSeq(saved)
    IN  /\ Free(t) /\ count.taken < MaxTaken
        /\ saved \/ count.unsaved < MaxUnsaved
        /\ seq' = next.seq /\ store' = next.store
        /\ taken' = [taken EXCEPT ![t] = [id |-> count.taken + 1, seq |-> next.seq, run |-> run,
                                          saved |-> saved, at |-> 0]]
        /\ count' = [count EXCEPT !.taken = @ + 1, !.unsaved = IF saved THEN @ ELSE @ + 1]
        /\ UNCHANGED <<topic, trimmed, clock, host>>

(* The service observes the engine: every row is published under a number of its own. *)
PublishRow(saved) ==
    /\ backlog # <<>>
    /\ Takes("engine", Head(backlog), saved) /\ backlog' = Tail(backlog)

(* What is published without a row; gateway events, among others. *)
PublishLoose(t, saved) == Takes(t, NoRun, saved) /\ UNCHANGED backlog

HeartbeatLoop(saved) == PublishLoose("pulse", saved)

AiStep(saved) == backlog = <<>> /\ PublishLoose("engine", saved)

Send(t) ==
    /\ ~Free(t)
    /\ topic' = Append(topic, [taken[t] EXCEPT !.at = clock])
    /\ taken' = [taken EXCEPT ![t] = Nothing]
    /\ UNCHANGED <<store, seq, backlog, trimmed, clock, host, count>>

(* A failed send is only logged: the number is spent. *)
SendFails(t) ==
    /\ ~Free(t)
    /\ taken' = [taken EXCEPT ![t] = Nothing]
    /\ UNCHANGED <<store, seq, backlog, topic, trimmed, clock, host, count>>

(* Mutant: what a restart found before the watermark. *)
SeedFromRows(read) == Highest({r.seq : r \in store.rows} \cup {topic[i].seq : i \in trimmed + 1 .. read})
(* What a restart finds, when the scan of the topic gets as far as record "read". *)
Seed(read) == Highest({store.counter} \cup {r.seq : r \in store.rows}
                        \cup {topic[i].seq : i \in trimmed + 1 .. read})

(* The process dies and starts again: the scan of the topic alone takes seconds. *)
Restart(read) ==
    /\ clock < MaxClock /\ clock' = clock + 1
    /\ seq' = Seed(read)
    /\ backlog' = <<>> /\ taken' = [t \in Threads |-> Nothing]
    /\ UNCHANGED <<store, topic, trimmed, host, count>>

(* Collection of an ended run takes its rows, not the watermark. *)
Collect(run) ==
    /\ \E r \in store.rows : r.run = run
    /\ \A i \in 1 .. Len(backlog) : backlog[i] # run
    /\ store' = [store EXCEPT !.rows = {r \in @ : r.run # run}]
    /\ UNCHANGED <<seq, backlog, taken, topic, trimmed, clock, host, count>>

(* Retention removes what the host has read. *)
Trim ==
    /\ trimmed < offset /\ trimmed' = offset
    /\ UNCHANGED <<agent, topic, clock, host, count>>

Tick ==
    /\ clock < MaxClock /\ clock' = clock + 1
    /\ UNCHANGED <<agent, topic, trimmed, host, count>>

SameNumber(m) == \E r \in stored : r.seq = m.seq
(* Mutants: any event of a number there already is a repetition; only a run's events repeat. *)
RepeatsByNumber(m) == SameNumber(m)
RepeatsOfRun(m) == m.run # NoRun /\ \E r \in stored : r.run = m.run /\ r.at = m.at
(* A repeated event: its number and time, or its run, type and time are already there. *)
Repeats(m) ==
    \E r \in stored :
        /\ r.at = m.at
        /\ r.seq = m.seq \/ (m.run # NoRun /\ r.run = m.run)

(* A number that an older row has taken is replaced by one after the last. *)
Projected(m) ==
    [id |-> m.id, run |-> m.run, at |-> m.at,
     seq |-> IF SameNumber(m) THEN Highest({r.seq : r \in stored}) + 1 ELSE m.seq]

OnEvent ==
    /\ offset < Len(topic)
    /\ LET m == topic[offset + 1]
       IN  stored' = IF Repeats(m) THEN stored ELSE stored \cup {Projected(m)}
    /\ offset' = offset + 1
    /\ UNCHANGED <<agent, topic, trimmed, clock, count>>

(* The host died after its transaction and before the commit of the offset. *)
Redeliver ==
    /\ offset > trimmed /\ count.rewinds < MaxRewinds
    /\ offset' = offset - 1
    /\ count' = [count EXCEPT !.rewinds = @ + 1]
    /\ UNCHANGED <<agent, topic, trimmed, clock, stored>>

EventNext ==
    \/ \E run \in Run : Collect(run) \/ \E n \in 1 .. 2 : UpdateRun(run, n)
    \/ \E saved \in BOOLEAN : PublishRow(saved) \/ HeartbeatLoop(saved) \/ AiStep(saved)
    \/ \E t \in Threads : Send(t) \/ SendFails(t)
    \/ \E read \in trimmed .. Len(topic) : Restart(read)
    \/ Trim \/ Tick \/ OnEvent \/ Redeliver

EventSpec == EventInit /\ [][EventNext]_eventVars

-------------------------------------------------------------------------------

Records == {topic[i] : i \in 1 .. Len(topic)}
Numbered == (Records \cup {taken[t] : t \in Threads}) \ {Nothing}
Read == {topic[i] : i \in 1 .. offset}

(* A number that reached the watermark stays below every number taken after it, whatever a
   restart still finds in the table and in the topic (LIVE-1). *)
NumbersAdvance ==
    \A m, n \in Numbered : m.saved /\ m.id < n.id => m.seq < n.seq

Kept(m) == \E r \in stored : r.id = m.id
Rekeyed(r) == \E m \in Read : m.id = r.id /\ m.seq # r.seq
(* Every event the host has read is in the projection, unless it is of a run that had another
   event in that second, or a row moved off a taken number stands at its number and second;
   a number that merely goes back loses nothing. *)
LostOnlyToTwins ==
    \A m \in Read : Kept(m) \/ \E r \in stored :
        /\ r.at = m.at /\ r.id # m.id
        /\ (m.run # NoRun /\ r.run = m.run) \/ (r.seq = m.seq /\ Rekeyed(r))

(* "a regressed global_seq ... cannot silently discard genuinely new events that collide with
   stale sequence numbers" (KafkaEventConsumer, LIVE-1): heartbeats and AI steps are all kept. *)
NewEventsKept == \A m \in Read : m.run = NoRun => Kept(m)

(* A repeated delivery is projected again only if it has no run and its number was not free. *)
StoredOnce ==
    \A r, q \in stored : r.id = q.id /\ r # q /\ r.id # 0 =>
        r.run = NoRun /\ \A m \in Read : m.id = r.id => r.seq # m.seq
===============================================================================
