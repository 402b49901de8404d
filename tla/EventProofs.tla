------------------------------- MODULE EventProofs ------------------------------
(***************************************************************************)
(* Proofs about the ways of an event to the screen.                        *)
(*                                                                         *)
(* LiveStream: its types, what a page may go past without receiving it,    *)
(* and the order in which a connection sends.  EventStream: the numbers    *)
(* across restarts, and what of the topic the host keeps.  AiTimeline:     *)
(* the timeline of a task is closed when the task ends, a task runs by a   *)
(* step of its own attempt, and the publication is on it once.             *)
(***************************************************************************)
EXTENDS LiveStream, EventStream, AiTimeline, FiniteSetTheorems, TLAPS

Item == [live : BOOLEAN, listened : BOOLEAN]
Ascending(s) == \A i, j \in 1 .. Len(s) : i < j => s[i] < s[j]
In(n, s) == \E i \in 1 .. Len(s) : s[i] = n
Open == phase # "closed"
Idle == phase \in {"closed", "accepted"}

(* What is under way is in order, and beyond what the page has received. *)
WireInv ==
    /\ Ascending(wire)
    /\ \A i \in 1 .. Len(wire) : last < wire[i] /\ from < wire[i] /\ wire[i] <= cursor
    /\ last > 0 => from < last
    /\ Idle => wire = <<>> /\ queue = <<>>
    /\ Open => last <= cursor /\ from <= cursor
    /\ ~Open => cursor = 0

(* The page being sent follows the cursor. *)
FetchInv ==
    /\ \A i \in 1 .. Len(fetched) : fetched[i] = cursor + i
    /\ Len(fetched) <= PageSize
    /\ phase \notin {"replayed", "polled"} => fetched = <<>>

(* Every announced row beyond what is read will be read, or is in the queue. *)
QueueInv ==
    /\ Ascending(queue)
    /\ \A i \in 1 .. Len(queue) : rows[queue[i]].live
    /\ phase \in {"live", "poll", "polled"} =>
           \A n \in cursor + 1 .. Len(rows) : rows[n].live => In(n, queue)
    /\ phase = "replayed" /\ Len(fetched) < PageSize =>
           \A n \in cursor + Len(fetched) + 1 .. Len(rows) : rows[n].live => In(n, queue)

Top == IF last > cursor THEN last ELSE cursor

(* An announced row overtook n: neither what is under way nor the page stands between them. *)
Overtaken(n) ==
    /\ ~rows[n].live
    /\ \E m \in n + 1 .. Top :
        /\ rows[m].live
        /\ last \notin n .. m - 1
        /\ \A i \in 1 .. Len(wire) : wire[i] \notin n .. m - 1

PassedInv ==
    \A n \in from + 1 .. Top :
        rows[n].listened => n \in shown \/ In(n, wire) \/ Overtaken(n)

IInv == TypeOK /\ WireInv /\ FetchInv /\ QueueInv /\ PassedInv

(* A head and a tail. *)
LEMMA HeadTail ==
    ASSUME NEW S, NEW s \in Seq(S), s # <<>>
    PROVE  /\ Len(s) \in Nat \ {0} /\ Head(s) = s[1] /\ Head(s) \in S
           /\ Tail(s) \in Seq(S) /\ Len(Tail(s)) = Len(s) - 1
           /\ \A i \in 1 .. Len(s) - 1 : Tail(s)[i] = s[i + 1]
  OBVIOUS

(* One more at the end. *)
LEMMA AppendFacts ==
    ASSUME NEW S, NEW s \in Seq(S), NEW x \in S
    PROVE  /\ Append(s, x) \in Seq(S) /\ Len(Append(s, x)) = Len(s) + 1
           /\ \A i \in 1 .. Len(s) : Append(s, x)[i] = s[i]
           /\ Append(s, x)[Len(s) + 1] = x
  OBVIOUS

(* One sequence after another. *)
LEMMA ConcatFacts ==
    ASSUME NEW S, NEW s \in Seq(S), NEW t \in Seq(S)
    PROVE  /\ s \o t \in Seq(S) /\ Len(s \o t) = Len(s) + Len(t)
           /\ \A i \in 1 .. Len(s) : (s \o t)[i] = s[i]
           /\ \A i \in Len(s) + 1 .. Len(s) + Len(t) : (s \o t)[i] = t[i - Len(s)]
  OBVIOUS

(* A sequence over a set is one over a larger set. *)
LEMMA SeqWider ==
    ASSUME NEW S, NEW T, S \subseteq T, NEW s \in Seq(S)
    PROVE  s \in Seq(T)
  OBVIOUS

(* The empty table. *)
LEMMA InitInv == Init => IInv
  BY LiveStreamAssumption
  DEF Init, IInv, TypeOK, WireInv, FetchInv, QueueInv, PassedInv, Ascending, In, Open, Idle, Top

(* A new row: every number under way stays what it was, and only the queue may grow. *)
LEMMA RowKeeps ==
    ASSUME IInv, NEW live \in BOOLEAN, NEW listened \in BOOLEAN,
           rows' = Append(rows, Row(live, listened)),
           UNCHANGED <<loose, phase, cursor, fetched, wire, page, from, breaks>>,
           \/ queue' = queue
           \/ ~Idle /\ live /\ queue' = Append(queue, Len(rows) + 1),
           ~Idle /\ live => queue' = Append(queue, Len(rows) + 1)
    PROVE  IInv'
  <1>0. /\ loose' = loose /\ phase' = phase /\ cursor' = cursor /\ fetched' = fetched
        /\ wire' = wire /\ last' = last /\ shown' = shown /\ from' = from
        /\ breaks' = breaks
    BY DEF page
  <1>1. /\ rows \in Seq(Item) /\ Len(rows) \in Nat /\ Row(live, listened) \in Item
        /\ queue \in Seq(1 .. Len(rows)) /\ Len(queue) \in Nat
    BY DEF IInv, TypeOK, Item, Row
  <1>2. /\ rows' \in Seq(Item) /\ Len(rows') = Len(rows) + 1
        /\ \A i \in 1 .. Len(rows) : rows'[i] = rows[i]
        /\ rows'[Len(rows) + 1] = Row(live, listened)
    BY <1>1, AppendFacts
  <1>3. /\ queue \in Seq(1 .. Len(rows')) /\ fetched \in Seq(1 .. Len(rows'))
        /\ wire \in Seq(1 .. Len(rows'))
    <2>1. 1 .. Len(rows) \subseteq 1 .. Len(rows')  BY <1>1, <1>2
    <2> QED  BY <2>1, SeqWider DEF IInv, TypeOK
  <1>4. Len(rows) + 1 \in 1 .. Len(rows')  BY <1>1, <1>2
  <1>7. PassedInv'
    <2>1. Top \in 0 .. Len(rows) /\ Top' = Top
      BY <1>0, <1>1 DEF Top, IInv, TypeOK
    <2>2. SUFFICES ASSUME NEW n \in from + 1 .. Top, rows'[n].listened,
                          n \notin shown, ~In(n, wire)
                   PROVE  Overtaken(n)'
      BY <1>0, <2>1 DEF PassedInv, In
    <2>3. n \in 1 .. Len(rows) /\ rows'[n] = rows[n]
      BY <1>1, <1>2, <2>1 DEF IInv, TypeOK
    <2>4. Overtaken(n)
      BY <2>2, <2>3 DEF IInv, PassedInv
    <2>5. PICK m \in n + 1 .. Top :
            /\ rows[m].live
            /\ last \notin n .. m - 1
            /\ \A i \in 1 .. Len(wire) : wire[i] \notin n .. m - 1
      BY <2>4 DEF Overtaken
    <2>6. m \in 1 .. Len(rows) /\ rows'[m] = rows[m]
      BY <1>1, <1>2, <2>1, <2>3, <2>5
    <2> QED  BY <1>0, <2>1, <2>3, <2>4, <2>5, <2>6 DEF Overtaken
  <1>5. CASE queue' = Append(queue, Len(rows) + 1) /\ ~Idle /\ live
    <2>1. /\ queue' \in Seq(1 .. Len(rows')) /\ Len(queue') = Len(queue) + 1
          /\ \A i \in 1 .. Len(queue) : queue'[i] = queue[i]
          /\ queue'[Len(queue) + 1] = Len(rows) + 1
      BY <1>3, <1>4, <1>5, AppendFacts
    <2>2. TypeOK'
      <3>1. /\ rows' \in Seq(Item) /\ queue' \in Seq(1 .. Len(rows'))
            /\ fetched \in Seq(1 .. Len(rows')) /\ wire \in Seq(1 .. Len(rows'))
        BY <1>2, <1>3, <2>1
      <3>2. 0 .. Len(rows) \subseteq 0 .. Len(rows') /\ 1 .. Len(rows) \subseteq 1 .. Len(rows')
        BY <1>1, <1>2
      <3>3. TypeOK
        BY DEF IInv
      <3> QED  BY <1>0, <3>1, <3>2, <3>3 DEF TypeOK, Item
    <2>3. \A i \in 1 .. Len(queue) : queue[i] \in 1 .. Len(rows)  BY <1>1
    <2>4. Ascending(queue')
      <3> SUFFICES ASSUME NEW i \in 1 .. Len(queue'), NEW j \in 1 .. Len(queue'), i < j
                   PROVE  queue'[i] < queue'[j]
        BY DEF Ascending
      <3>1. i \in 1 .. Len(queue)  BY <1>1, <2>1
      <3>2. CASE j \in 1 .. Len(queue)
        BY <2>1, <3>1, <3>2 DEF IInv, QueueInv, Ascending
      <3>3. CASE j = Len(queue) + 1
        <4>1. queue[i] < Len(rows) + 1  BY <1>1, <2>3, <3>1
        <4>2. queue'[i] = queue[i] /\ queue'[j] = Len(rows) + 1  BY <2>1, <3>1, <3>3
        <4> QED  BY <4>1, <4>2
      <3>4. Len(queue') = Len(queue) + 1 /\ Len(queue) \in Nat  BY <1>1, <2>1
      <3>5. j \in 1 .. Len(queue) \/ j = Len(queue) + 1  BY <3>4
      <3> QED  BY <3>2, <3>3, <3>5
    <2>5. \A i \in 1 .. Len(queue') : rows'[queue'[i]].live
      BY <1>1, <1>2, <1>5, <2>1, <2>3 DEF IInv, QueueInv, Row
    <2>6. \A n : In(n, queue) => In(n, queue')
      BY <1>1, <2>1 DEF In
    <2>7. In(Len(rows) + 1, queue')
      BY <1>1, <2>1 DEF In
    <2>8. QueueInv'
      <3>1. ASSUME phase' \in {"live", "poll", "polled"},
                   NEW n \in cursor' + 1 .. Len(rows'), rows'[n].live
            PROVE  In(n, queue')
        BY <1>1, <1>2, <2>6, <2>7, <3>1 DEF IInv, QueueInv, TypeOK
      <3>2. ASSUME phase' = "replayed", Len(fetched') < PageSize,
                   NEW n \in cursor' + Len(fetched') + 1 .. Len(rows'), rows'[n].live
            PROVE  In(n, queue')
        BY <1>1, <1>2, <2>6, <2>7, <3>2 DEF IInv, QueueInv, TypeOK
      <3> QED  BY <2>4, <2>5, <3>1, <3>2 DEF QueueInv
    <2>9. WireInv' /\ FetchInv'
      BY <1>5 DEF IInv, WireInv, FetchInv, Idle, Open, page
    <2> QED  BY <1>7, <2>2, <2>8, <2>9 DEF IInv
  <1>6. CASE queue' = queue /\ (Idle \/ ~live)
    <2>2. TypeOK'
      BY <1>1, <1>2, <1>3, <1>6 DEF IInv, TypeOK, Item, page
    <2>3. \A i \in 1 .. Len(queue) : queue[i] \in 1 .. Len(rows)  BY <1>1
    <2>8. QueueInv'
      <3>0. ~live \/ phase \notin {"live", "poll", "polled", "replayed"}
        BY <1>6 DEF Idle
      <3>1. ASSUME phase' \in {"live", "poll", "polled"},
                   NEW n \in cursor' + 1 .. Len(rows'), rows'[n].live
            PROVE  In(n, queue')
        <4>1. n \in cursor + 1 .. Len(rows) /\ rows'[n] = rows[n]
          BY <1>0, <1>1, <1>2, <3>0, <3>1 DEF IInv, TypeOK, Row
        <4> QED  BY <1>0, <1>6, <3>1, <4>1 DEF IInv, QueueInv
      <3>2. ASSUME phase' = "replayed", Len(fetched') < PageSize,
                   NEW n \in cursor' + Len(fetched') + 1 .. Len(rows'), rows'[n].live
            PROVE  In(n, queue')
        <4>1. cursor + Len(fetched) \in Nat
          BY DEF IInv, TypeOK
        <4>2. n \in cursor + Len(fetched) + 1 .. Len(rows) + 1
          BY <1>0, <1>2, <3>2
        <4>3. n # Len(rows) + 1
          BY <1>0, <1>2, <3>0, <3>2 DEF Row
        <4>4. n \in cursor + Len(fetched) + 1 .. Len(rows) /\ n \in 1 .. Len(rows)
          BY <1>1, <4>1, <4>2, <4>3
        <4>5. rows'[n] = rows[n]
          BY <1>2, <4>4
        <4> QED  BY <1>0, <1>6, <3>2, <4>4, <4>5 DEF IInv, QueueInv
      <3>3. \A i \in 1 .. Len(queue') : rows'[queue'[i]].live
        BY <1>1, <1>2, <1>6, <2>3 DEF IInv, QueueInv
      <3> QED  BY <1>6, <3>1, <3>2, <3>3 DEF QueueInv, IInv
    <2>9. WireInv' /\ FetchInv'
      BY <1>6 DEF IInv, WireInv, FetchInv, Idle, Open, page
    <2> QED  BY <1>7, <2>2, <2>8, <2>9 DEF IInv
  <1> QED  BY <1>5, <1>6

(* Rows the engine announces and rows it does not. *)
LEMMA RowInv ==
    ASSUME IInv, NEW listened \in BOOLEAN, Emit(listened) \/ Store(listened)
    PROVE  IInv'
  <1>1. CASE Emit(listened)
    <2>1. /\ rows' = Append(rows, Row(TRUE, listened))
          /\ UNCHANGED <<loose, phase, cursor, fetched, wire, page, from, breaks>>
          /\ IF ~Idle THEN queue' = Append(queue, Len(rows) + 1) ELSE queue' = queue
      BY <1>1 DEF Emit, Subscribed, Idle
    <2> QED  BY <2>1, RowKeeps
  <1>2. CASE Store(listened)
    <2>1. /\ rows' = Append(rows, Row(FALSE, listened)) /\ queue' = queue
          /\ UNCHANGED <<loose, phase, cursor, fetched, wire, page, from, breaks>>
      BY <1>2 DEF Store, conn
    <2> QED  BY <2>1, RowKeeps
  <1> QED  BY <1>1, <1>2

(* Numbers that leave no row. *)
LEMMA LooseInv == IInv /\ TakeLoose => IInv'
  <1> SUFFICES ASSUME IInv, TakeLoose  PROVE IInv'
    OBVIOUS
  <1>1. /\ loose' = loose + 1
        /\ UNCHANGED <<rows, phase, cursor, fetched, queue, wire, last, shown, from, breaks>>
    BY DEF TakeLoose, conn, page
  <1>2. TypeOK'
    BY <1>1 DEF IInv, TypeOK
  <1>3. WireInv' /\ FetchInv'
    BY <1>1 DEF IInv, WireInv, FetchInv, Ascending, Open, Idle
  <1>4. QueueInv'
    BY <1>1 DEF IInv, QueueInv, Ascending, In
  <1>5. PassedInv'
    BY <1>1 DEF IInv, PassedInv, Top, Overtaken, In
  <1> QED  BY <1>2, <1>3, <1>4, <1>5 DEF IInv

(* A connection begins where the page stands, or at the end of the table. *)
LEMMA AcceptInv == IInv /\ Accept => IInv'
  <1> SUFFICES ASSUME IInv, Accept  PROVE IInv'
    OBVIOUS
  <1>1. /\ rows' = rows /\ loose' = loose /\ phase = "closed" /\ phase' = "accepted"
        /\ cursor' = (IF last > 0 THEN last ELSE Len(rows))
        /\ from' = (IF last > 0 THEN from ELSE Len(rows))
        /\ fetched' = fetched /\ queue' = queue /\ wire' = wire /\ last' = last
        /\ shown' = shown /\ breaks' = breaks
    BY DEF Accept, MaxEventSeq, table, page
  <1>2. Len(rows) \in Nat /\ wire = <<>> /\ queue = <<>> /\ fetched = <<>> /\ cursor = 0
    BY <1>1 DEF IInv, TypeOK, WireInv, FetchInv, Idle, Open
  <1>3. TypeOK'
    BY <1>1, <1>2 DEF IInv, TypeOK
  <1>4. WireInv'
    BY <1>1, <1>2 DEF IInv, TypeOK, WireInv, Idle, Open, Ascending
  <1>5. FetchInv' /\ QueueInv'
    BY <1>1, <1>2 DEF IInv, FetchInv, QueueInv, Ascending
  <1>6. PassedInv'
    <2>1. CASE last > 0
      <3>1. Top' = Top /\ Top = last /\ from' = from
        BY <1>1, <1>2, <2>1 DEF IInv, TypeOK, Top
      <3> QED  BY <1>1, <3>1 DEF IInv, PassedInv, Overtaken, In
    <2>2. CASE last = 0
      <3>1. Top' = from' /\ from' \in Nat
        BY <1>1, <1>2, <2>2 DEF IInv, TypeOK, Top
      <3>2. \A t \in Nat : t + 1 .. t = {}  OBVIOUS
      <3>3. from' + 1 .. Top' = {}  BY <3>1, <3>2
      <3> QED  BY <3>3 DEF PassedInv
    <2> QED  BY <2>1, <2>2 DEF IInv, TypeOK
  <1> QED  BY <1>3, <1>4, <1>5, <1>6 DEF IInv

(* The replay begins with the queue empty, and every later row will be in it. *)
LEMMA SubscribeInv == IInv /\ Subscribe => IInv'
  BY DEF Subscribe, table, page, IInv, TypeOK, WireInv, FetchInv, QueueInv, PassedInv,
         Ascending, In, Overtaken, Open, Idle, Top

(* The queue is empty, so no announced row is beyond the cursor. *)
LEMMA HeartbeatInv == IInv /\ Heartbeat => IInv'
  BY DEF Heartbeat, table, page, IInv, TypeOK, WireInv, FetchInv, QueueInv, PassedInv,
         Ascending, In, Overtaken, Open, Idle, Top

(* A page that is not full reaches the end of the table. *)
LEMMA ReadPageInv == IInv /\ ReadPage => IInv'
  <1> SUFFICES ASSUME IInv, ReadPage  PROVE IInv'
    OBVIOUS
  <1> DEFINE k == Least(PageSize, Len(rows) - cursor)
  <1>1. /\ rows' = rows /\ loose' = loose /\ cursor' = cursor /\ queue' = queue
        /\ wire' = wire /\ last' = last /\ from' = from /\ shown' = shown /\ breaks' = breaks
        /\ \/ phase = "replay" /\ phase' = "replayed"
           \/ phase = "poll" /\ phase' = "polled"
        /\ fetched' = [i \in 1 .. k |-> cursor + i]
    BY DEF ReadPage, GetEvents, table, page
  <1>2. /\ Len(rows) \in Nat /\ cursor \in 0 .. Len(rows) /\ PageSize \in Nat \ {0}
        /\ k \in Nat /\ k <= PageSize /\ cursor + k <= Len(rows)
        /\ k = PageSize \/ cursor + k = Len(rows)
    <2>1. Len(rows) \in Nat /\ cursor \in 0 .. Len(rows)  BY DEF IInv, TypeOK
    <2>2. PageSize \in Nat \ {0}  BY LiveStreamAssumption
    <2> QED  BY <2>1, <2>2 DEF Least
  <1> HIDE DEF k
  <1>3. /\ Len(fetched') = k /\ fetched' \in Seq(1 .. Len(rows))
        /\ \A i \in 1 .. k : fetched'[i] = cursor + i
    BY <1>1, <1>2
  <1>4. TypeOK'
    BY <1>1, <1>3 DEF IInv, TypeOK
  <1>5. WireInv' /\ PassedInv'
    BY <1>1 DEF IInv, WireInv, PassedInv, Ascending, In, Overtaken, Open, Idle, Top
  <1>6. FetchInv'
    BY <1>1, <1>2, <1>3 DEF FetchInv
  <1>7. QueueInv'
    BY <1>1, <1>2, <1>3 DEF IInv, QueueInv, Ascending, In
  <1> QED  BY <1>4, <1>5, <1>6, <1>7 DEF IInv

(* What was under way is lost with the connection, and lies beyond what the page received. *)
LEMMA BreakInv == IInv /\ Break => IInv'
  <1> SUFFICES ASSUME IInv, Break  PROVE IInv'
    OBVIOUS
  <1>1. /\ rows' = rows /\ loose' = loose /\ phase' = "closed" /\ cursor' = 0
        /\ fetched' = <<>> /\ queue' = <<>> /\ wire' = <<>> /\ last' = last
        /\ from' = from /\ shown' = shown /\ breaks' = breaks + 1 /\ phase # "closed"
    BY DEF Break, table, page
  <1>2. TypeOK'
    BY <1>1 DEF IInv, TypeOK
  <1>3. WireInv' /\ FetchInv' /\ QueueInv'
    BY <1>1, LiveStreamAssumption
    DEF IInv, TypeOK, WireInv, FetchInv, QueueInv, Ascending, Idle, Open
  <1>4. PassedInv'
    <2>1. Top' = last /\ last <= cursor /\ Top = cursor /\ last \in Nat /\ cursor \in Nat
      BY <1>1 DEF IInv, TypeOK, WireInv, Open, Top
    <2>2. SUFFICES ASSUME NEW n \in from + 1 .. last, rows[n].listened, n \notin shown
                   PROVE  Overtaken(n)'
      BY <1>1, <2>1 DEF PassedInv
    <2>3. n \in Nat /\ n \in from + 1 .. Top /\ n <= last
      BY <2>1 DEF IInv, TypeOK
    <2>4. ~In(n, wire)
      BY <2>3 DEF IInv, TypeOK, WireInv, In
    <2>5. Overtaken(n)
      BY <2>2, <2>3, <2>4 DEF IInv, PassedInv
    <2>6. PICK m \in n + 1 .. Top : rows[m].live /\ last \notin n .. m - 1
      BY <2>5 DEF Overtaken
    <2>7. m \in n + 1 .. last
      BY <2>1, <2>3, <2>6
    <2> QED  BY <1>1, <2>1, <2>5, <2>6, <2>7 DEF Overtaken
  <1> QED  BY <1>2, <1>3, <1>4 DEF IInv

(* An overtaken row stays overtaken when numbers beyond the old cursor are sent. *)
LEMMA StaysOvertaken ==
    ASSUME IInv, Open, NEW n \in from + 1 .. Top, Overtaken(n),
           rows' = rows, last' = last, cursor' \in Nat, cursor <= cursor',
           wire' \in Seq(Nat), Len(wire) <= Len(wire'),
           \A i \in 1 .. Len(wire) : wire'[i] = wire[i],
           \A i \in Len(wire) + 1 .. Len(wire') : cursor < wire'[i]
    PROVE  Overtaken(n)'
  <1>1. /\ Top = cursor /\ Top' = cursor' /\ cursor \in Nat /\ last \in Nat /\ from \in Nat
        /\ Len(wire) \in Nat
    <2>1. cursor \in Nat /\ last \in Nat /\ from \in Nat /\ Len(wire) \in Nat
      BY DEF IInv, TypeOK
    <2>2. last <= cursor  BY DEF IInv, WireInv
    <2> QED  BY <2>1, <2>2 DEF Top
  <1>2. PICK m \in n + 1 .. Top :
          /\ rows[m].live
          /\ last \notin n .. m - 1
          /\ \A i \in 1 .. Len(wire) : wire[i] \notin n .. m - 1
    BY DEF Overtaken
  <1>3. m \in Nat /\ m <= cursor /\ m \in n + 1 .. Top'
    BY <1>1, <1>2
  <1>4. ASSUME NEW i \in 1 .. Len(wire')  PROVE wire'[i] \notin n .. m - 1
    <2>1. CASE i \in 1 .. Len(wire)
      BY <1>2, <2>1
    <2>2. CASE i \in Len(wire) + 1 .. Len(wire')
      <3>1. cursor < wire'[i] /\ wire'[i] \in Nat  BY <1>1, <2>2
      <3> QED  BY <1>1, <1>3, <3>1
    <2> QED  BY <1>1, <2>1, <2>2
  <1>5. ~rows[n].live  BY DEF Overtaken
  <1> QED  BY <1>2, <1>3, <1>4, <1>5 DEF Overtaken

(* A page is sent: nothing between the old cursor and the new one is missing. *)
LEMMA SendPageInv == IInv /\ SendPage => IInv'
  <1> SUFFICES ASSUME IInv, SendPage  PROVE IInv'
    OBVIOUS
  <1> DEFINE k == Len(fetched)
  <1>1. /\ rows' = rows /\ loose' = loose /\ queue' = queue
        /\ wire' = wire \o fetched /\ cursor' = cursor + k /\ fetched' = <<>>
        /\ phase \in {"replayed", "polled"}
        /\ phase' = (IF phase = "replayed" /\ k = PageSize THEN "replay" ELSE "live")
        /\ last' = last /\ from' = from /\ shown' = shown /\ breaks' = breaks
    BY DEF SendPage, table, page
  <1>2. /\ Len(rows) \in Nat /\ cursor \in 0 .. Len(rows) /\ PageSize \in Nat \ {0}
        /\ last \in Nat /\ from \in Nat /\ last <= cursor /\ from <= cursor
        /\ wire \in Seq(1 .. Len(rows)) /\ fetched \in Seq(1 .. Len(rows))
        /\ k \in Nat /\ k <= PageSize /\ Len(wire) \in Nat
        /\ \A i \in 1 .. k : fetched[i] = cursor + i /\ fetched[i] \in 1 .. Len(rows)
        /\ \A i \in 1 .. Len(wire) : wire[i] \in 1 .. Len(rows) /\ wire[i] <= cursor
        /\ Open
    <2>1. /\ Len(rows) \in Nat /\ cursor \in 0 .. Len(rows) /\ PageSize \in Nat \ {0}
          /\ last \in Nat /\ from \in Nat
          /\ wire \in Seq(1 .. Len(rows)) /\ fetched \in Seq(1 .. Len(rows))
      BY LiveStreamAssumption DEF IInv, TypeOK
    <2>2. Open /\ last <= cursor /\ from <= cursor
      BY <1>1 DEF IInv, WireInv, Open
    <2>3. k \in Nat /\ Len(wire) \in Nat
      BY <2>1
    <2>4. k <= PageSize /\ \A i \in 1 .. k : fetched[i] = cursor + i
      BY DEF IInv, FetchInv
    <2>5. \A i \in 1 .. k : fetched[i] \in 1 .. Len(rows)
      BY <2>1
    <2>6. \A i \in 1 .. Len(wire) : wire[i] \in 1 .. Len(rows) /\ wire[i] <= cursor
      BY <2>1 DEF IInv, WireInv
    <2> QED  BY <2>1, <2>2, <2>3, <2>4, <2>5, <2>6
  <1> HIDE DEF k
  <1>3. cursor + k \in 0 .. Len(rows)
    <2>1. CASE k = 0  BY <1>2, <2>1
    <2>2. CASE k \in 1 .. k
      <3>1. fetched[k] = cursor + k /\ fetched[k] \in 1 .. Len(rows)  BY <1>2, <2>2
      <3> QED  BY <1>2, <3>1
    <2> QED  BY <1>2, <2>1, <2>2
  <1>4. /\ wire' \in Seq(1 .. Len(rows)) /\ Len(wire') = Len(wire) + k
        /\ \A i \in 1 .. Len(wire) : wire'[i] = wire[i]
        /\ \A i \in Len(wire) + 1 .. Len(wire') : wire'[i] = cursor + (i - Len(wire))
    BY <1>1, <1>2, ConcatFacts DEF k
  <1>5. TypeOK'
    BY <1>1, <1>3, <1>4 DEF IInv, TypeOK
  <1>6. Ascending(wire')
    <2> SUFFICES ASSUME NEW i \in 1 .. Len(wire'), NEW j \in 1 .. Len(wire'), i < j
                 PROVE  wire'[i] < wire'[j]
      BY DEF Ascending
    <2>1. CASE i \in 1 .. Len(wire) /\ j \in 1 .. Len(wire)
      BY <1>4, <2>1 DEF IInv, WireInv, Ascending
    <2>2. CASE i \in 1 .. Len(wire) /\ j \in Len(wire) + 1 .. Len(wire')
      <3>3. wire[i] \in 1 .. Len(rows) /\ wire[i] <= cursor  BY <1>2, <2>2
      <3>4. wire'[i] = wire[i]  BY <1>4, <2>2
      <3>1. wire'[i] \in Nat /\ wire'[i] <= cursor  BY <3>3, <3>4
      <3>2. wire'[j] = cursor + (j - Len(wire))  BY <1>4, <2>2
      <3>5. Len(wire) \in Nat /\ cursor \in Nat /\ j \in Nat /\ j > Len(wire)  BY <1>2, <1>4, <2>2
      <3> QED  BY <3>1, <3>2, <3>5
    <2>3. CASE i \in Len(wire) + 1 .. Len(wire') /\ j \in Len(wire) + 1 .. Len(wire')
      BY <1>2, <1>4, <2>3
    <2> QED  BY <1>2, <1>4, <2>1, <2>2, <2>3
  <1>7. ASSUME NEW i \in 1 .. Len(wire')
        PROVE  last < wire'[i] /\ from < wire'[i] /\ wire'[i] <= cursor'
    <2>1. CASE i \in 1 .. Len(wire)
      BY <1>1, <1>2, <1>4, <2>1 DEF IInv, WireInv
    <2>2. CASE i \in Len(wire) + 1 .. Len(wire')
      BY <1>1, <1>2, <1>4, <2>2
    <2> QED  BY <1>2, <1>4, <2>1, <2>2
  <1>8. WireInv'
    BY <1>1, <1>2, <1>6, <1>7 DEF IInv, WireInv, Idle, Open
  <1>9. FetchInv'
    BY <1>1, <1>2 DEF FetchInv
  <1>10. QueueInv'
    BY <1>1, <1>2 DEF IInv, QueueInv, k
  <1>11. PassedInv'
    <2>1. Top = cursor /\ Top' = cursor + k
      BY <1>1, <1>2 DEF Top
    <2> SUFFICES ASSUME NEW n \in from + 1 .. cursor + k, rows[n].listened, n \notin shown,
                        ~In(n, wire')
                 PROVE  Overtaken(n)'
      BY <1>1, <2>1 DEF PassedInv
    <2>2. n <= cursor
      <3>1. SUFFICES ASSUME n > cursor  PROVE FALSE
        BY <1>2
      <3> DEFINE j == Len(wire) + (n - cursor)
      <3>2. j \in Int /\ j - Len(wire) = n - cursor /\ n \in Int
        BY <1>2
      <3>3. j \in Len(wire) + 1 .. Len(wire') /\ j \in 1 .. Len(wire')
        BY <1>2, <1>4, <3>1, <3>2
      <3>4. wire'[j] = n
        <4>1. wire'[j] = cursor + (j - Len(wire))  BY <1>4, <3>3
        <4> HIDE DEF j
        <4> QED  BY <1>2, <3>2, <4>1
      <3> QED  BY <3>3, <3>4 DEF In
    <2>3. ~In(n, wire)
      <3> SUFFICES ASSUME NEW i \in 1 .. Len(wire), wire[i] = n  PROVE FALSE
        BY DEF In
      <3>1. wire'[i] = n /\ i \in 1 .. Len(wire')  BY <1>2, <1>4
      <3> QED  BY <3>1 DEF In
    <2>4. n \in from + 1 .. Top /\ Overtaken(n)
      BY <1>2, <2>1, <2>2, <2>3 DEF IInv, PassedInv
    <2>5. /\ cursor' \in Nat /\ cursor <= cursor' /\ wire' \in Seq(Nat)
          /\ Len(wire) <= Len(wire')
      <3>1. 1 .. Len(rows) \subseteq Nat  BY <1>2
      <3> QED  BY <1>1, <1>2, <1>3, <1>4, <3>1, SeqWider
    <2>6. \A i \in Len(wire) + 1 .. Len(wire') : cursor < wire'[i]
      BY <1>2, <1>4
    <2> QED  BY <1>1, <1>2, <1>4, <2>4, <2>5, <2>6, StaysOvertaken
  <1> QED  BY <1>5, <1>8, <1>9, <1>10, <1>11 DEF IInv

(* What the queue holds at its head is sent, or was: an announced row between the cursor and
   it would stand before it in the queue. *)
LEMMA DeliverInv == IInv /\ Deliver => IInv'
  <1> SUFFICES ASSUME IInv, Deliver  PROVE IInv'
    OBVIOUS
  <1>1. /\ rows' = rows /\ loose' = loose /\ phase = "live" /\ phase' = "live"
        /\ queue # <<>> /\ queue' = Tail(queue) /\ fetched' = fetched
        /\ wire' = (IF News(Head(queue)) THEN Append(wire, Head(queue)) ELSE wire)
        /\ cursor' = (IF News(Head(queue)) THEN Head(queue) ELSE cursor)
        /\ last' = last /\ from' = from /\ shown' = shown /\ breaks' = breaks
    BY DEF Deliver, table, page
  <1>2. /\ Len(rows) \in Nat /\ cursor \in 0 .. Len(rows) /\ last \in Nat /\ from \in Nat
        /\ queue \in Seq(1 .. Len(rows)) /\ wire \in Seq(1 .. Len(rows))
        /\ fetched = <<>> /\ Open /\ last <= cursor /\ from <= cursor
    BY <1>1 DEF IInv, TypeOK, WireInv, FetchInv, Open
  <1>3. PICK h : h = Head(queue)
    OBVIOUS
  <1>4. /\ Len(queue) \in Nat \ {0} /\ h = queue[1] /\ h \in 1 .. Len(rows)
        /\ queue' \in Seq(1 .. Len(rows)) /\ Len(queue') = Len(queue) - 1
        /\ \A i \in 1 .. Len(queue) - 1 : queue'[i] = queue[i + 1]
    BY <1>1, <1>2, <1>3, HeadTail
  <1>5. rows[h].live
    BY <1>4 DEF IInv, QueueInv
  <1>6. Ascending(queue')
    <2> SUFFICES ASSUME NEW i \in 1 .. Len(queue'), NEW j \in 1 .. Len(queue'), i < j
                 PROVE  queue'[i] < queue'[j]
      BY DEF Ascending
    <2>1. i + 1 \in 1 .. Len(queue) /\ j + 1 \in 1 .. Len(queue) /\ i + 1 < j + 1
      BY <1>4
    <2>2. queue[i + 1] < queue[j + 1]  BY <2>1 DEF IInv, QueueInv, Ascending
    <2>3. queue'[i] = queue[i + 1] /\ queue'[j] = queue[j + 1]  BY <1>4
    <2> QED  BY <2>2, <2>3
  <1>7. \A i \in 1 .. Len(queue') : rows[queue'[i]].live
    <2> SUFFICES ASSUME NEW i \in 1 .. Len(queue')  PROVE rows[queue'[i]].live
      OBVIOUS
    <2>1. i + 1 \in 1 .. Len(queue) /\ queue'[i] = queue[i + 1]  BY <1>4
    <2> QED  BY <2>1 DEF IInv, QueueInv
  <1>8. ASSUME NEW n, In(n, queue)  PROVE n = h \/ In(n, queue')
    <2>1. PICK i \in 1 .. Len(queue) : queue[i] = n
      BY <1>8 DEF In
    <2>2. CASE i = 1  BY <1>4, <2>1, <2>2
    <2>3. CASE i # 1
      <3>1. i - 1 \in 1 .. Len(queue) - 1 /\ (i - 1) + 1 = i  BY <1>4, <2>1, <2>3
      <3>2. queue'[i - 1] = n  BY <1>4, <2>1, <3>1
      <3> QED  BY <1>4, <3>1, <3>2 DEF In
    <2> QED  BY <2>2, <2>3
  <1>9. CASE ~News(h)
    <2>1. wire' = wire /\ cursor' = cursor /\ ~(h > cursor)
      BY <1>1, <1>3, <1>9 DEF News
    <2>2. TypeOK'
      BY <1>1, <1>2, <1>4, <2>1 DEF IInv, TypeOK
    <2>3. WireInv' /\ FetchInv'
      BY <1>1, <1>2, <2>1 DEF IInv, WireInv, FetchInv, Idle, Open, Ascending
    <2>4. ASSUME NEW n \in cursor + 1 .. Len(rows), rows[n].live  PROVE In(n, queue')
      <3>1. In(n, queue)  BY <1>1, <2>4 DEF IInv, QueueInv
      <3>2. n # h  BY <1>2, <1>4, <2>1, <2>4
      <3> QED  BY <1>8, <3>1, <3>2
    <2>5. QueueInv'
      BY <1>1, <1>6, <1>7, <2>1, <2>4 DEF QueueInv
    <2>6. PassedInv'
      BY <1>1, <2>1 DEF IInv, PassedInv, Overtaken, In, Top
    <2> QED  BY <2>2, <2>3, <2>5, <2>6 DEF IInv
  <1>10. CASE News(h)
    <2>1. wire' = Append(wire, h) /\ cursor' = h /\ h > cursor
      BY <1>1, <1>3, <1>10 DEF News
    <2>2. /\ wire' \in Seq(1 .. Len(rows)) /\ Len(wire') = Len(wire) + 1 /\ Len(wire) \in Nat
          /\ \A i \in 1 .. Len(wire) : wire'[i] = wire[i]
          /\ wire'[Len(wire) + 1] = h
      BY <1>2, <1>4, <2>1, AppendFacts
    <2>3. \A i \in 1 .. Len(wire) : wire[i] \in 1 .. Len(rows) /\ wire[i] <= cursor
      BY <1>2 DEF IInv, WireInv
    <2>4. TypeOK'
      BY <1>1, <1>2, <1>4, <2>1, <2>2 DEF IInv, TypeOK
    <2>5. Ascending(wire')
      <3> SUFFICES ASSUME NEW i \in 1 .. Len(wire'), NEW j \in 1 .. Len(wire'), i < j
                   PROVE  wire'[i] < wire'[j]
        BY DEF Ascending
      <3>1. CASE j \in 1 .. Len(wire)
        <4>1. i \in 1 .. Len(wire)  BY <2>2, <3>1
        <4> QED  BY <2>2, <3>1, <4>1 DEF IInv, WireInv, Ascending
      <3>2. CASE j = Len(wire) + 1
        <4>1. i \in 1 .. Len(wire)  BY <2>2, <3>2
        <4>2. wire[i] \in Nat /\ wire[i] <= cursor  BY <2>3, <4>1
        <4>3. wire'[i] = wire[i] /\ wire'[j] = h  BY <2>2, <3>2, <4>1
        <4>4. cursor \in Nat /\ h \in Nat  BY <1>2, <1>4
        <4> QED  BY <2>1, <4>2, <4>3, <4>4
      <3>3. j \in 1 .. Len(wire) \/ j = Len(wire) + 1  BY <2>2
      <3> QED  BY <3>1, <3>2, <3>3
    <2>6. ASSUME NEW i \in 1 .. Len(wire')
          PROVE  last < wire'[i] /\ from < wire'[i] /\ wire'[i] <= cursor'
      <3>1. CASE i \in 1 .. Len(wire)
        <4>1. last < wire[i] /\ from < wire[i] /\ wire[i] <= cursor /\ wire[i] \in Nat
          BY <2>3, <3>1 DEF IInv, WireInv
        <4>2. wire'[i] = wire[i]  BY <2>2, <3>1
        <4>3. cursor' = h /\ h > cursor /\ h \in Nat /\ cursor \in Nat  BY <1>2, <1>4, <2>1
        <4> QED  BY <4>1, <4>2, <4>3
      <3>2. CASE i = Len(wire) + 1
        BY <1>2, <1>4, <2>1, <2>2, <3>2
      <3>3. i \in 1 .. Len(wire) \/ i = Len(wire) + 1  BY <2>2
      <3> QED  BY <3>1, <3>2, <3>3
    <2>7. WireInv'
      <3>1. last' <= cursor' /\ from' <= cursor'  BY <1>1, <1>2, <1>4, <2>1
      <3>2. last' > 0 => from' < last'  BY <1>1 DEF IInv, WireInv
      <3>3. Open' /\ ~Idle'  BY <1>1 DEF Open, Idle
      <3>4. \A i \in 1 .. Len(wire') : last' < wire'[i] /\ from' < wire'[i] /\ wire'[i] <= cursor'
        BY <1>1, <2>6
      <3> QED  BY <2>5, <3>1, <3>2, <3>3, <3>4 DEF WireInv
    <2>8. FetchInv'
      BY <1>1, <1>2, LiveStreamAssumption DEF FetchInv
    <2>9. ASSUME NEW n \in h + 1 .. Len(rows), rows[n].live  PROVE In(n, queue')
      <3>1. n \in cursor + 1 .. Len(rows) /\ n # h  BY <1>2, <1>4, <2>1
      <3>2. In(n, queue)  BY <1>1, <2>9, <3>1 DEF IInv, QueueInv
      <3> QED  BY <1>8, <3>1, <3>2
    <2>10. QueueInv'
      BY <1>1, <1>6, <1>7, <2>1, <2>9 DEF QueueInv
    <2>11. PassedInv'
      <3>1. Top = cursor /\ Top' = h
        BY <1>1, <1>2, <1>4, <2>1 DEF Top
      <3> SUFFICES ASSUME NEW n \in from + 1 .. h, rows[n].listened, n \notin shown,
                          ~In(n, wire')
                   PROVE  Overtaken(n)'
        BY <1>1, <3>1 DEF PassedInv
      <3>2. ~In(n, wire) /\ n # h
        BY <2>2 DEF In
      <3>3. CASE n <= cursor
        <4>1. n \in from + 1 .. Top /\ Overtaken(n)
          BY <1>2, <3>1, <3>2, <3>3 DEF IInv, PassedInv
        <4>2. /\ cursor' \in Nat /\ cursor <= cursor' /\ wire' \in Seq(Nat)
              /\ Len(wire) <= Len(wire')
          <5>1. 1 .. Len(rows) \subseteq Nat  BY <1>2
          <5> QED  BY <1>2, <1>4, <2>1, <2>2, <5>1, SeqWider
        <4>3. \A i \in Len(wire) + 1 .. Len(wire') : cursor < wire'[i]
          BY <1>2, <1>4, <2>1, <2>2
        <4> QED  BY <1>1, <1>2, <2>2, <4>1, <4>2, <4>3, StaysOvertaken
      <3>4. CASE n > cursor
        <4>1. n \in cursor + 1 .. Len(rows) /\ n < h /\ n \in Nat
          BY <1>2, <1>4, <3>2, <3>4
        <4>2. ~rows[n].live
          <5>1. SUFFICES ASSUME rows[n].live  PROVE FALSE
            OBVIOUS
          <5>2. PICK i \in 1 .. Len(queue) : queue[i] = n
            BY <1>1, <4>1, <5>1 DEF IInv, QueueInv, In
          <5>3. (1 \in 1 .. Len(queue) /\ 1 < i) \/ i = 1
            BY <1>4, <5>2
          <5>4. CASE i = 1  BY <1>4, <4>1, <5>2, <5>4
          <5>5. CASE 1 < i
            <6>1. queue[1] < queue[i]  BY <5>2, <5>3, <5>5 DEF IInv, QueueInv, Ascending
            <6> QED  BY <1>4, <4>1, <5>2, <6>1
          <5> QED  BY <5>3, <5>4, <5>5
        <4>3. h \in n + 1 .. Top'  BY <1>4, <3>1, <4>1
        <4>4. last \notin n .. h - 1  BY <1>2, <3>4, <4>1
        <4>5. ASSUME NEW i \in 1 .. Len(wire')  PROVE wire'[i] \notin n .. h - 1
          <5>1. CASE i \in 1 .. Len(wire)
            <6>1. wire'[i] = wire[i] /\ wire[i] \in Nat /\ wire[i] <= cursor
              BY <2>2, <2>3, <5>1
            <6> QED  BY <1>2, <3>4, <4>1, <6>1
          <5>2. CASE i = Len(wire) + 1
            BY <1>4, <2>2, <5>2
          <5>3. i \in 1 .. Len(wire) \/ i = Len(wire) + 1  BY <2>2
          <5> QED  BY <5>1, <5>2, <5>3
        <4> QED  BY <1>1, <1>5, <4>2, <4>3, <4>4, <4>5 DEF Overtaken
      <3> QED  BY <1>2, <3>3, <3>4
    <2> QED  BY <2>4, <2>7, <2>8, <2>10, <2>11 DEF IInv
  <1> QED  BY <1>9, <1>10

(* What the page receives is the first of what is under way. *)
LEMMA ReceiveInv == IInv /\ Receive => IInv'
  <1> SUFFICES ASSUME IInv, Receive  PROVE IInv'
    OBVIOUS
  <1>1. PICK h : h = Head(wire)
    OBVIOUS
  <1>2. /\ rows' = rows /\ loose' = loose /\ phase' = phase /\ cursor' = cursor
        /\ fetched' = fetched /\ queue' = queue /\ from' = from /\ breaks' = breaks
        /\ wire # <<>> /\ wire' = Tail(wire)
        /\ IF rows[h].listened /\ h > last
           THEN last' = h /\ shown' = shown \cup {h}
           ELSE last' = last /\ shown' = shown
    BY <1>1 DEF Receive, table, conn, page
  <1>3. /\ Len(rows) \in Nat /\ cursor \in 0 .. Len(rows) /\ last \in Nat /\ from \in Nat
        /\ wire \in Seq(1 .. Len(rows)) /\ ~Idle /\ last <= cursor /\ shown \subseteq 1 .. Len(rows)
    BY <1>2 DEF IInv, TypeOK, WireInv, Idle, Open
  <1>4. /\ Len(wire) \in Nat \ {0} /\ h = wire[1] /\ h \in 1 .. Len(rows)
        /\ wire' \in Seq(1 .. Len(rows)) /\ Len(wire') = Len(wire) - 1
        /\ \A i \in 1 .. Len(wire) - 1 : wire'[i] = wire[i + 1]
    BY <1>1, <1>2, <1>3, HeadTail
  <1>5. last < h /\ from < h /\ h <= cursor
    BY <1>4 DEF IInv, WireInv
  <1>6. last' = (IF rows[h].listened THEN h ELSE last)
    BY <1>2, <1>3, <1>4, <1>5
  <1>7. ASSUME NEW i \in 1 .. Len(wire')
        PROVE  /\ i + 1 \in 1 .. Len(wire) /\ wire'[i] = wire[i + 1] /\ wire'[i] \in Nat
               /\ h < wire'[i] /\ last < wire'[i] /\ from < wire'[i] /\ wire'[i] <= cursor
    <2>1. i + 1 \in 1 .. Len(wire) /\ wire'[i] = wire[i + 1] /\ 1 \in 1 .. Len(wire) /\ 1 < i + 1
      BY <1>4
    <2>2. wire[1] < wire[i + 1]  BY <2>1 DEF IInv, WireInv, Ascending
    <2>3. wire[i + 1] \in Nat  BY <1>3, <2>1
    <2>4. last < wire[i + 1] /\ from < wire[i + 1] /\ wire[i + 1] <= cursor
      BY <2>1 DEF IInv, WireInv
    <2> QED  BY <1>4, <2>1, <2>2, <2>3, <2>4
  <1>8. TypeOK'
    <2>1. last' \in 0 .. Len(rows) /\ shown' \subseteq 1 .. Len(rows)
      <3>1. last \in 0 .. Len(rows) /\ h \in 0 .. Len(rows)
        BY <1>3, <1>4 DEF IInv, TypeOK
      <3>2. shown' \subseteq shown \cup {h}  BY <1>2
      <3> QED  BY <1>3, <1>4, <1>6, <3>1, <3>2
    <2> QED  BY <1>2, <1>4, <2>1 DEF IInv, TypeOK
  <1>9. WireInv'
    <2>1. Ascending(wire')
      <3> SUFFICES ASSUME NEW i \in 1 .. Len(wire'), NEW j \in 1 .. Len(wire'), i < j
                   PROVE  wire'[i] < wire'[j]
        BY DEF Ascending
      <3>1. i + 1 \in 1 .. Len(wire) /\ j + 1 \in 1 .. Len(wire) /\ i + 1 < j + 1
        BY <1>4
      <3>2. wire[i + 1] < wire[j + 1]  BY <3>1 DEF IInv, WireInv, Ascending
      <3> QED  BY <1>7, <3>2
    <2>2. \A i \in 1 .. Len(wire') : last' < wire'[i] /\ from < wire'[i] /\ wire'[i] <= cursor
      BY <1>6, <1>7
    <2>3. last' > 0 => from < last'
      BY <1>5, <1>6 DEF IInv, WireInv
    <2>4. last' <= cursor
      BY <1>3, <1>5, <1>6
    <2> QED  BY <1>2, <1>3, <2>1, <2>2, <2>3, <2>4 DEF IInv, WireInv, Idle, Open
  <1>10. FetchInv' /\ QueueInv'
    BY <1>2 DEF IInv, FetchInv, QueueInv, Ascending, In
  <1>11. PassedInv'
    <2>1. Top = cursor /\ Top' = cursor
      BY <1>2, <1>3, <1>4, <1>5, <1>6 DEF Top
    <2> SUFFICES ASSUME NEW n \in from + 1 .. cursor, rows[n].listened, n \notin shown',
                        ~In(n, wire')
                 PROVE  Overtaken(n)'
      BY <1>2, <2>1 DEF PassedInv
    <2>2. n # h /\ n \notin shown
      BY <1>2, <1>5
    <2>3. ~In(n, wire)
      <3>1. SUFFICES ASSUME NEW i \in 1 .. Len(wire), wire[i] = n  PROVE FALSE
        BY DEF In
      <3>2. i # 1  BY <1>4, <2>2, <3>1
      <3>3. i - 1 \in 1 .. Len(wire') /\ (i - 1) + 1 = i  BY <1>4, <3>2
      <3>4. wire'[i - 1] = n  BY <1>7, <3>1, <3>3
      <3> QED  BY <3>3, <3>4 DEF In
    <2>4. Overtaken(n)
      BY <2>1, <2>2, <2>3 DEF IInv, PassedInv
    <2>5. PICK m \in n + 1 .. Top :
            /\ rows[m].live
            /\ last \notin n .. m - 1
            /\ \A i \in 1 .. Len(wire) : wire[i] \notin n .. m - 1
      BY <2>4 DEF Overtaken
    <2>6. last' \notin n .. m - 1
      BY <1>4, <1>6, <2>5
    <2>7. \A i \in 1 .. Len(wire') : wire'[i] \notin n .. m - 1
      BY <1>7, <2>5
    <2> QED  BY <1>2, <2>1, <2>4, <2>5, <2>6, <2>7 DEF Overtaken
  <1> QED  BY <1>8, <1>9, <1>10, <1>11 DEF IInv

(* Every step keeps the invariant. *)
LEMMA NextInv == IInv /\ [Next]_vars => IInv'
  <1> SUFFICES ASSUME IInv, [Next]_vars  PROVE IInv'
    OBVIOUS
  <1>1. CASE \E listened \in BOOLEAN : Emit(listened) \/ Store(listened)
    BY <1>1, RowInv
  <1>2. CASE TakeLoose  BY <1>2, LooseInv
  <1>3. CASE Stream
    BY <1>3, AcceptInv, SubscribeInv, ReadPageInv, SendPageInv, DeliverInv, HeartbeatInv
    DEF Stream
  <1>4. CASE Receive  BY <1>4, ReceiveInv
  <1>5. CASE Break  BY <1>5, BreakInv
  <1>6. CASE UNCHANGED vars
    BY <1>6 DEF vars, table, conn, page, IInv, TypeOK, WireInv, FetchInv, QueueInv, PassedInv,
                Ascending, In, Overtaken, Open, Idle, Top
  <1> QED  BY <1>1, <1>2, <1>3, <1>4, <1>5, <1>6 DEF Next

(* The invariant holds in every state. *)
LEMMA InvHolds == Spec => []IInv
  BY InitInv, NextInv, PTL DEF Spec

(* The cursor, the queue, the page under way and what the page of the browser has received
   are numbers of rows. *)
THEOREM TypeCorrect == Spec => []TypeOK
  <1>1. IInv => TypeOK  BY DEF IInv
  <1> QED  BY <1>1, InvHolds, PTL

(* For every page size and any number of rows and broken connections: the page has received
   every row it has gone past, but for rows nobody announced that an announced row overtook. *)
THEOREM PassesOnlySilentRows == Spec => []SkippedOnlySilently
  <1>1. IInv => SkippedOnlySilently
    <2> SUFFICES ASSUME IInv, NEW n \in from + 1 .. last, rows[n].listened, n \notin shown
                 PROVE  ~rows[n].live /\ \E m \in n + 1 .. last : rows[m].live
      BY DEF SkippedOnlySilently, Passed
    <2>1. last \in Nat /\ from \in Nat /\ cursor \in Nat /\ Len(wire) \in Nat /\ Top \in Nat
          /\ last <= Top /\ n \in from + 1 .. Top /\ n <= last
      BY DEF IInv, TypeOK, Top
    <2>2. ~In(n, wire)
      BY <2>1 DEF IInv, TypeOK, WireInv, In
    <2>3. Overtaken(n)  BY <2>1, <2>2 DEF IInv, PassedInv
    <2>4. PICK m \in n + 1 .. Top : rows[m].live /\ last \notin n .. m - 1
      BY <2>3 DEF Overtaken
    <2>5. m \in n + 1 .. last  BY <2>1, <2>4
    <2> QED  BY <2>3, <2>4, <2>5 DEF Overtaken
  <1> QED  BY <1>1, InvHolds, PTL

(* Only a page that is sent, or the queue's head, goes on the wire, and it is beyond the cursor. *)
LEMMA StepSendsForward ==
    ASSUME IInv, [Next]_vars, NEW i \in Len(wire) + 1 .. Len(wire')
    PROVE  wire'[i] > cursor
  <1>1. /\ Len(rows) \in Nat /\ cursor \in Nat
        /\ wire \in Seq(1 .. Len(rows)) /\ Len(wire) \in Nat
        /\ fetched \in Seq(1 .. Len(rows)) /\ queue \in Seq(1 .. Len(rows))
        /\ \A j \in 1 .. Len(fetched) : fetched[j] = cursor + j
    BY DEF IInv, TypeOK, FetchInv
  <1>2. CASE SendPage
    <2>1. /\ i \in Len(wire) + 1 .. Len(wire) + Len(fetched) /\ Len(fetched) \in Nat
          /\ wire'[i] = fetched[i - Len(wire)]
      BY <1>1, <1>2, ConcatFacts DEF SendPage
    <2>2. PICK j : j = i - Len(wire)
      OBVIOUS
    <2>3. j \in 1 .. Len(fetched) /\ wire'[i] = fetched[j]  BY <1>1, <2>1, <2>2
    <2>4. fetched[j] = cursor + j  BY <1>1, <2>3
    <2> QED  BY <1>1, <2>1, <2>3, <2>4
  <1>3. CASE Deliver
    <2>1. PICK h : h = Head(queue)
      OBVIOUS
    <2>2. h \in 1 .. Len(rows) /\ wire' = (IF h > cursor THEN Append(wire, h) ELSE wire)
      BY <1>1, <1>3, <2>1, HeadTail DEF Deliver, News
    <2>3. wire' = Append(wire, h) /\ h > cursor
      BY <1>1, <2>2
    <2>4. i = Len(wire) + 1 /\ wire'[Len(wire) + 1] = h
      BY <1>1, <2>2, <2>3, AppendFacts
    <2> QED  BY <2>3, <2>4
  <1>4. CASE wire' = wire
    BY <1>1, <1>4
  <1>5. CASE Receive
    BY <1>1, <1>5, HeadTail DEF Receive
  <1>6. CASE Break
    BY <1>1, <1>6 DEF Break
  <1>7. wire' = wire \/ SendPage \/ Deliver \/ Receive \/ Break
    BY DEF Next, Stream, Emit, Store, TakeLoose, Accept, Subscribe, ReadPage, Heartbeat, vars
  <1> QED  BY <1>2, <1>3, <1>4, <1>5, <1>6, <1>7

(* For every page size: a connection sends each row once and in order, whichever of the
   replay, the poll and the queue hold it. *)
THEOREM SendsInOrder == Spec => SendsForward
  <1>1. ASSUME IInv, [Next]_vars
        PROVE  [\A i \in Len(wire) + 1 .. Len(wire') :
                   /\ wire'[i] > cursor
                   /\ \A j \in 1 .. i - 1 : wire'[j] < wire'[i]]_vars
    <2> SUFFICES ASSUME NEW i \in Len(wire) + 1 .. Len(wire')
                 PROVE  /\ wire'[i] > cursor
                        /\ \A j \in 1 .. i - 1 : wire'[j] < wire'[i]
      OBVIOUS
    <2>1. wire'[i] > cursor  BY <1>1, StepSendsForward
    <2>5. IInv'  BY <1>1, NextInv
    <2>2. Ascending(wire')  BY <2>5 DEF IInv, WireInv
    <2>7. TypeOK /\ TypeOK'  BY <1>1, <2>5 DEF IInv
    <2>3. Len(wire) \in Nat /\ Len(wire') \in Nat
      <3>1. Len(wire) \in Nat  BY <2>7 DEF TypeOK
      <3>2. Len(wire') \in Nat  BY <2>7 DEF TypeOK
      <3> QED  BY <3>1, <3>2
    <2>4. i \in 1 .. Len(wire') /\ \A j \in 1 .. i - 1 : j \in 1 .. Len(wire') /\ j < i
      BY <2>3
    <2>6. \A j \in 1 .. i - 1 : wire'[j] < wire'[i]
      BY <2>2, <2>4 DEF Ascending
    <2> QED  BY <2>1, <2>6
  <1> QED  BY <1>1, InvHolds, PTL DEF Spec, SendsForward

-------------------------------------------------------------------------------
(* EventStream: the numbers of the agent's events and the rows of the host. *)

(* What an event is from its number on, and what the host keeps of it. *)
Event == [id : Nat, seq : Nat, run : Run \cup {NoRun}, saved : BOOLEAN, at : Nat]
Projection == [id : Nat, seq : Nat, run : Run \cup {NoRun}, at : Nat]

(* The agent's database, and what is counted. *)
Database == [rows : SUBSET [seq : Nat, run : Run], rowid : Nat, counter : Nat]
Counts == [taken : Nat, unsaved : Nat, rewinds : Nat]

(* The state of the components; the tables are finite. *)
StreamTypeOK ==
    /\ store \in Database
    /\ IsFiniteSet(store.rows)
    /\ seq \in Nat /\ backlog \in Seq(Run)
    /\ taken \in [Threads -> Event] /\ topic \in Seq(Event)
    /\ offset \in 0 .. Len(topic) /\ trimmed \in 0 .. offset /\ clock \in Nat \ {0}
    /\ stored \subseteq Projection /\ IsFiniteSet(stored)
    /\ count \in Counts

(* A number is given to one event, which is sent once. *)
IdInv ==
    /\ \A i \in 1 .. Len(topic) : topic[i].id \in 1 .. count.taken /\ topic[i].at \in 1 .. clock
    /\ \A i, j \in 1 .. Len(topic) : topic[i].id = topic[j].id => i = j
    /\ \A t \in Threads : taken[t] = Nothing \/ taken[t].id \in 1 .. count.taken
    /\ \A t \in Threads, i \in 1 .. Len(topic) : taken[t].id # topic[i].id
    /\ \A t, u \in Threads : taken[t].id = taken[u].id => t = u \/ Free(t)

(* A number that reached the watermark is below it, and below the counter in memory. *)
SavedInv ==
    \A m \in Numbered :
        m.id <= count.taken /\ (m.saved => m.seq <= seq /\ m.seq <= store.counter)

(* Within a second numbers only rise, for a restart takes longer than one. *)
SecondInv ==
    /\ \A i \in 1 .. Len(topic) : topic[i].at = clock => topic[i].seq <= seq
    /\ \A t \in Threads : taken[t].seq <= seq
    /\ \A i, j \in 1 .. Len(topic) : topic[i].at = topic[j].at /\ topic[i].seq = topic[j].seq => i = j
    /\ \A t \in Threads, i \in 1 .. Len(topic) :
          topic[i].at = clock /\ taken[t].seq = topic[i].seq => Free(t)
    /\ \A t, u \in Threads : taken[t].seq = taken[u].seq => t = u \/ Free(t) \/ Free(u)

(* A row of the projection is of before the watermark, or of an event of the topic. *)
OriginInv ==
    \A r \in stored :
        \/ r.id = 0 /\ r.at = 0
        \/ \E i \in 1 .. Len(topic) : topic[i].id = r.id /\ topic[i].run = r.run /\ topic[i].at = r.at

(* Where an event is kept its number is taken; a copy of it has no run and another number. *)
CopyInv ==
    /\ \A i \in 1 .. Len(topic) : Kept(topic[i]) => SameNumber(topic[i])
    /\ \A r, q \in stored :
          r.id = q.id /\ r # q /\ r.id # 0 =>
              r.run = NoRun /\ \A i \in 1 .. Len(topic) : topic[i].id = r.id => r.seq # topic[i].seq

(* The host has read record i, also if it is about to read it again. *)
Seen(i) == i <= offset \/ \E j \in i .. Len(topic) : Kept(topic[j])

(* Row r, of record j, is the twin record i was lost to. *)
Twin(i, j, r) ==
    /\ r.id = topic[j].id /\ r.at = topic[i].at
    /\ (topic[i].run # NoRun /\ r.run = topic[i].run) \/ (r.seq = topic[i].seq /\ topic[j].seq # r.seq)

(* What has been read is kept, or lost to a twin that was read before. *)
LostInv ==
    \A i \in 1 .. Len(topic) :
        Seen(i) => Kept(topic[i]) \/ \E j \in 1 .. i - 1, r \in stored : Twin(i, j, r)

StreamInv ==
    /\ StreamTypeOK /\ IdInv /\ SavedInv /\ NumbersAdvance /\ SecondInv
    /\ OriginInv /\ CopyInv /\ LostInv

(* The parts of both. *)
LEMMA Fields ==
    /\ \A s \in Database : s.rows \in SUBSET [seq : Nat, run : Run] /\ s.rowid \in Nat /\ s.counter \in Nat
    /\ \A c \in Counts : c.taken \in Nat /\ c.unsaved \in Nat /\ c.rewinds \in Nat
  BY DEF Database, Counts

(* A finite set of natural numbers has a highest: otherwise take a least set that has none, and
   from it one member. *)
LEMMA HighestIs ==
    ASSUME NEW S \in SUBSET Nat, IsFiniteSet(S)
    PROVE  Highest(S) \in Nat /\ \A x \in S : x <= Highest(S)
  <1> DEFINE A == S \cup {0}
             HasMax(T) == \E x \in T : \A y \in T : x >= y
             Bad == {T \in SUBSET A : T # {} /\ ~HasMax(T)}
  <1>1. IsFiniteSet(A) /\ A \in SUBSET Nat /\ A # {}
    BY FS_AddElement
  <1>2. Bad = {}
    <2> SUFFICES ASSUME Bad # {} PROVE FALSE
      OBVIOUS
    <2>1. IsWellFoundedOn(StrictSubsetOrdering(A), SUBSET A)
      BY <1>1, FS_StrictSubsetOrderingWellFounded, FS_FiniteSubsetsOfFinite
    <2>2. PICK T \in Bad : \A U \in Bad : ~(<<U, T>> \in StrictSubsetOrdering(A))
      <3> HIDE DEF Bad
      <3>1. Bad \subseteq SUBSET A
        BY DEF Bad
      <3> QED BY <2>1, <3>1, WFMin
    <2>3. PICK x \in T : TRUE
      OBVIOUS
    <2>4. <<T \ {x}, T>> \in StrictSubsetOrdering(A)
      BY DEF StrictSubsetOrdering
    <2>5. T \ {x} = {} \/ HasMax(T \ {x})
      BY <2>2, <2>4
    <2>6. T \in SUBSET Nat /\ ~HasMax(T) /\ x \in Nat
      BY <1>1
    <2>7. CASE T \ {x} = {}
      BY <2>6, <2>7
    <2>8. CASE HasMax(T \ {x})
      <3>1. PICK y \in T \ {x} : \A z \in T \ {x} : y >= z
        BY <2>8
      <3>2. y \in Nat /\ \A z \in T : z = x \/ y >= z
        BY <2>6, <3>1
      <3>3. CASE y >= x
        <4>1. \A z \in T : y >= z
          BY <2>6, <3>2, <3>3
        <4> QED BY <2>6, <3>1, <4>1
      <3>4. CASE x >= y
        <4>1. \A z \in T : x >= z
          BY <2>6, <3>2, <3>4
        <4> QED BY <2>6, <4>1
      <3> QED BY <2>6, <3>2, <3>3, <3>4
    <2> QED BY <2>5, <2>7, <2>8
  <1>3. \E x \in A : \A y \in A : x >= y
    <2> HIDE DEF A
    <2>1. A \notin Bad
      BY <1>2
    <2> QED BY <1>1, <2>1
  <1>4. Highest(S) \in A /\ \A y \in A : Highest(S) >= y
    BY <1>3, Zenon DEF Highest, Max
  <1> HIDE DEF A
  <1>5. S \subseteq A
    BY DEF A
  <1> QED BY <1>1, <1>4, <1>5

(* Of two numbers. *)
LEMMA HighestOfTwo ==
    ASSUME NEW a \in Nat, NEW b \in Nat
    PROVE  Highest({a, b}) \in Nat /\ a <= Highest({a, b}) /\ b <= Highest({a, b})
  <1>1. IsFiniteSet({a, b}) /\ {a, b} \in SUBSET Nat
    <2>1. IsFiniteSet({a}) /\ {a} \cup {b} = {a, b}
      BY FS_Singleton
    <2>2. IsFiniteSet({a} \cup {b})
      BY <2>1, FS_AddElement
    <2> QED BY <2>1, <2>2
  <1> QED BY <1>1, HighestIs

(* The values of a function on a finite set are finitely many. *)
LEMMA FiniteValues ==
    ASSUME NEW S, IsFiniteSet(S), NEW f, f \in [S -> {f[x] : x \in S}]
    PROVE  IsFiniteSet({f[x] : x \in S})
  <1>1. f \in Surjection(S, {f[x] : x \in S})
    BY DEF Surjection
  <1> QED BY <1>1, FS_Surjection

(* The numbers of finitely many rows. *)
LEMMA FiniteNumbers ==
    ASSUME NEW S, IsFiniteSet(S), \A r \in S : r.seq \in Nat
    PROVE  IsFiniteSet({r.seq : r \in S}) /\ {r.seq : r \in S} \in SUBSET Nat
  <1> DEFINE f == [r \in S |-> r.seq]
  <1>1. {f[r] : r \in S} = {r.seq : r \in S}
    OBVIOUS
  <1>2. f \in [S -> {f[r] : r \in S}]
    OBVIOUS
  <1> HIDE DEF f
  <1>3. IsFiniteSet({f[r] : r \in S})
    BY <1>2, FiniteValues
  <1>4. {r.seq : r \in S} \in SUBSET Nat
    OBVIOUS
  <1> QED BY <1>1, <1>3, <1>4

(* A row that stands at a number, and the one after the last. *)
LEMMA ProjectedNumber ==
    ASSUME StreamTypeOK, NEW m \in Event
    PROVE  /\ Projected(m) \in Projection
           /\ Projected(m).id = m.id /\ Projected(m).run = m.run /\ Projected(m).at = m.at
           /\ SameNumber(m) => m.seq < Projected(m).seq
           /\ ~SameNumber(m) => Projected(m).seq = m.seq
  <1>1. IsFiniteSet(stored) /\ stored \subseteq Projection
    BY DEF StreamTypeOK
  <1>2. \A r \in stored : r.seq \in Nat
    BY <1>1 DEF Projection
  <1>3. IsFiniteSet({r.seq : r \in stored}) /\ {r.seq : r \in stored} \in SUBSET Nat
    BY <1>1, <1>2, FiniteNumbers
  <1>4. PICK h \in Nat : h = Highest({r.seq : r \in stored}) /\ \A r \in stored : r.seq <= h
    BY <1>3, HighestIs
  <1>5. Projected(m) = [id |-> m.id, run |-> m.run, at |-> m.at,
                          seq |-> IF SameNumber(m) THEN h + 1 ELSE m.seq]
    BY <1>4 DEF Projected
  <1>6. SameNumber(m) => m.seq <= h
    BY <1>4 DEF SameNumber
  <1> QED BY <1>2, <1>4, <1>5, <1>6 DEF Event, Projection

(* The watermark is only raised. *)
LEMMA RaisedIs ==
    ASSUME NEW s \in Database, NEW n \in Nat
    PROVE  /\ Raised(s, n) \in Database
           /\ Raised(s, n).rows = s.rows
           /\ s.counter <= Raised(s, n).counter /\ n <= Raised(s, n).counter
  <1>1. PICK h \in Nat : h = Highest({s.counter, n}) /\ s.counter <= h /\ n <= h
    BY HighestOfTwo, Fields
  <1>2. Raised(s, n) = [s EXCEPT !.counter = h]
    BY <1>1 DEF Raised
  <1> QED BY <1>1, <1>2 DEF Database

(* Rows and the last number of the table change together. *)
LEMMA TableGrows ==
    ASSUME NEW X, NEW Y, NEW Z, NEW s \in [rows : X, rowid : Y, counter : Z], NEW a \in X, NEW b \in Y
    PROVE  /\ [s EXCEPT !.rows = a, !.rowid = b] \in [rows : X, rowid : Y, counter : Z]
           /\ [s EXCEPT !.rows = a, !.rowid = b].rows = a
           /\ [s EXCEPT !.rows = a, !.rowid = b].counter = s.counter
  OBVIOUS

(* A step of the agent that numbers nothing: the watermark may rise. *)
Quiet ==
    /\ store.counter <= store'.counter
    /\ UNCHANGED <<seq, taken, topic, clock, stored, offset>> /\ count'.taken = count.taken

(* Event n gets its number in thread t. *)
Taking(t, n) ==
    /\ n \in Event /\ n.id = count.taken + 1 /\ seq < n.seq
    /\ n.saved => n.seq <= store'.counter
    /\ Free(t) /\ taken' = [taken EXCEPT ![t] = n] /\ seq' = n.seq
    /\ count'.taken = count.taken + 1 /\ store.counter <= store'.counter
    /\ UNCHANGED <<topic, clock, stored, offset>>

(* A restart finds a number that is not below the watermark. *)
Restarting ==
    /\ clock' = clock + 1 /\ store.counter <= seq' /\ seq' \in Nat
    /\ taken' = [t \in Threads |-> Nothing]
    /\ UNCHANGED <<store, topic, stored, offset, count>>

(* What an action on numbers comes to. *)
LEMMA UpdateIsQuiet ==
    ASSUME StreamTypeOK, NEW run \in Run, NEW n \in 1 .. 2, UpdateRun(run, n)
    PROVE  StreamTypeOK' /\ Quiet
  <1> DEFINE fresh == {[seq |-> i, run |-> run] : i \in store.rowid + 1 .. store.rowid + n}
             T == Database
             s == [store EXCEPT !.rows = @ \cup fresh, !.rowid = @ + n]
  <1>1. store \in T /\ IsFiniteSet(store.rows) /\ store.rowid \in Nat /\ n \in Nat
    BY Fields DEF StreamTypeOK
  <1>2. fresh \in SUBSET [seq : Nat, run : Run]
    BY <1>1
  <1>3. IsFiniteSet(fresh)
    <2> DEFINE f == [i \in store.rowid + 1 .. store.rowid + n |-> [seq |-> i, run |-> run]]
    <2>1. IsFiniteSet(store.rowid + 1 .. store.rowid + n)
      BY <1>1, FS_Interval
    <2>2. /\ fresh = {f[i] : i \in store.rowid + 1 .. store.rowid + n}
          /\ f \in [store.rowid + 1 .. store.rowid + n -> {f[i] : i \in store.rowid + 1 .. store.rowid + n}]
      OBVIOUS
    <2> HIDE DEF f, fresh
    <2> QED BY <2>1, <2>2, FiniteValues
  <1>4. s \in T /\ s.rows = store.rows \cup fresh /\ s.counter = store.counter
    <2>1. /\ store.rows \cup fresh \in SUBSET [seq : Nat, run : Run]
          /\ store.rowid + n \in Nat
      BY <1>1, <1>2, Fields
    <2> HIDE DEF fresh
    <2> QED BY <1>1, <2>1, TableGrows DEF Database
  <1>5. IsFiniteSet(s.rows)
    BY <1>1, <1>3, <1>4, FS_Union
  <1>6. store' = Raised(s, store.rowid + n)
    BY DEF UpdateRun, Appended
  <1>7. store' \in T /\ store'.rows = s.rows /\ store.counter <= store'.counter
    <2> HIDE DEF s
    <2>1. store.rowid + n \in Nat
      BY <1>1
    <2> QED BY <1>4, <1>6, <2>1, RaisedIs
  <1>8. backlog' \in Seq(Run)
    BY DEF UpdateRun, FanOut
  <1>9. UNCHANGED <<seq, taken, topic, trimmed, clock, stored, offset, count>>
    BY DEF UpdateRun, host
  <1> HIDE DEF s, fresh
  <1>10. StreamTypeOK'
    BY <1>5, <1>7, <1>8, <1>9, Fields DEF StreamTypeOK
  <1> QED BY <1>7, <1>9, <1>10 DEF Quiet

(* Events and numbers that are not saved are counted together. *)
LEMMA CountGrows ==
    ASSUME NEW X, NEW Y, NEW Z, NEW s \in [taken : X, unsaved : Y, rewinds : Z], NEW a \in X, NEW b \in Y
    PROVE  /\ [s EXCEPT !.taken = a, !.unsaved = b] \in [taken : X, unsaved : Y, rewinds : Z]
           /\ [s EXCEPT !.taken = a, !.unsaved = b].taken = a
  OBVIOUS

(* What PublishRow, Heartbeat and AiStep do: the event takes the next number. *)
LEMMA TakesIs ==
    ASSUME StreamTypeOK, NEW t \in Threads, NEW run \in Run \cup {NoRun}, NEW saved \in BOOLEAN,
           Takes(t, run, saved), backlog' \in Seq(Run)
    PROVE  StreamTypeOK' /\ \E n \in Event : Taking(t, n)
  <1> DEFINE T == Database
             C == Counts
             n == [id |-> count.taken + 1, seq |-> NextSeq(saved).seq, run |-> run, saved |-> saved, at |-> 0]
  <1>1. /\ store \in T /\ seq \in Nat /\ IsFiniteSet(store.rows)
        /\ count \in C /\ taken \in [Threads -> Event]
        /\ store.counter \in Nat /\ count.taken \in Nat /\ count.unsaved \in Nat
    BY Fields DEF StreamTypeOK
  <1>2. /\ Free(t) /\ taken' = [taken EXCEPT ![t] = n] /\ seq' = NextSeq(saved).seq
        /\ store' = NextSeq(saved).store /\ UNCHANGED <<topic, trimmed, clock, stored, offset>>
    BY DEF Takes, host
  <1>3. /\ seq' \in Nat /\ seq < seq' /\ store' \in T /\ store'.rows = store.rows
        /\ store.counter <= store'.counter /\ (saved => seq' <= store'.counter)
    <2>1. PICK s \in T : /\ s = Raised(store, seq + 1) /\ s.rows = store.rows
                         /\ store.counter <= s.counter /\ seq + 1 <= s.counter
                         /\ s.counter \in Nat
      <3>1. seq + 1 \in Nat
        BY <1>1
      <3> QED BY <1>1, <3>1, RaisedIs, Fields
    <2>2. CASE saved
      <3>1. seq' = s.counter /\ store' = s
        BY <1>2, <2>1, <2>2 DEF NextSeq
      <3> QED BY <1>1, <2>1, <3>1
    <2>3. CASE ~saved
      <3>1. seq' = seq + 1 /\ store' = store
        BY <1>2, <2>3 DEF NextSeq
      <3> QED BY <1>1, <2>3, <3>1
    <2> QED BY <2>2, <2>3
  <1>4. n \in Event /\ n.id = count.taken + 1 /\ n.seq = seq' /\ n.saved = saved
    <2>1. NextSeq(saved).seq \in Nat /\ count.taken + 1 \in Nat
      BY <1>1, <1>2, <1>3
    <2> QED BY <1>2, <2>1 DEF Event
  <1>5. count' \in C /\ count'.taken = count.taken + 1
    <2>1. count' = [count EXCEPT !.taken = @ + 1, !.unsaved = IF saved THEN @ ELSE @ + 1]
      BY DEF Takes
    <2>2. PICK u \in Nat : u = IF saved THEN count.unsaved ELSE count.unsaved + 1
      BY <1>1
    <2>3. count' = [count EXCEPT !.taken = count.taken + 1, !.unsaved = u]
      BY <2>1, <2>2, Zenon
    <2>4. count.taken + 1 \in Nat
      BY <1>1
    <2> QED BY <1>1, <2>2, <2>3, <2>4, CountGrows DEF Counts
  <1> HIDE DEF n
  <1>6. taken' \in [Threads -> Event]
    BY <1>1, <1>2, <1>4
  <1>7. StreamTypeOK'
    BY <1>1, <1>2, <1>3, <1>5, <1>6, Fields DEF StreamTypeOK
  <1>8. Taking(t, n)
    BY <1>2, <1>3, <1>4, <1>5 DEF Taking
  <1> QED BY <1>4, <1>7, <1>8

(* Whoever publishes, an event takes a number. *)
LEMMA PublishIs ==
    ASSUME StreamTypeOK, NEW saved \in BOOLEAN, PublishRow(saved) \/ HeartbeatLoop(saved) \/ AiStep(saved)
    PROVE  StreamTypeOK' /\ \E t \in Threads, n \in Event : Taking(t, n)
  <1>1. "engine" \in Threads /\ "pulse" \in Threads /\ NoRun \in Run \cup {NoRun} /\ backlog \in Seq(Run)
    BY Fields DEF Threads, StreamTypeOK
  <1>2. CASE PublishRow(saved)
    <2>1. backlog # <<>> /\ Takes("engine", Head(backlog), saved) /\ backlog' = Tail(backlog)
      BY <1>2 DEF PublishRow
    <2>2. Head(backlog) \in Run \cup {NoRun} /\ backlog' \in Seq(Run)
      BY <1>1, <2>1, HeadTail
    <2> QED BY <1>1, <2>1, <2>2, TakesIs
  <1>3. CASE HeartbeatLoop(saved)
    <2>1. Takes("pulse", NoRun, saved) /\ backlog' = backlog
      BY <1>3 DEF HeartbeatLoop, PublishLoose
    <2> QED BY <1>1, <2>1, TakesIs
  <1>4. CASE AiStep(saved)
    <2>1. Takes("engine", NoRun, saved) /\ backlog' = backlog
      BY <1>4 DEF AiStep, PublishLoose
    <2> QED BY <1>1, <2>1, TakesIs
  <1> QED BY <1>2, <1>3, <1>4

(* A thread that has no number. *)
LEMMA NothingIsEvent == Nothing \in Event /\ Nothing.id = 0 /\ Nothing.seq = 0 /\ ~Nothing.saved
  BY DEF Nothing, Event

(* A record is written in the second it is sent in. *)
Sending(t, m) ==
    /\ m \in Event /\ m.id = taken[t].id /\ m.seq = taken[t].seq /\ m.run = taken[t].run
    /\ m.saved = taken[t].saved /\ m.at = clock
    /\ ~Free(t) /\ topic' = Append(topic, m) /\ taken' = [taken EXCEPT ![t] = Nothing]
    /\ UNCHANGED <<store, seq, clock, stored, offset, count>>

(* A send writes the record the thread had numbered. *)
LEMMA SendIs ==
    ASSUME StreamTypeOK, NEW t \in Threads, Send(t)
    PROVE  StreamTypeOK' /\ \E m \in Event : Sending(t, m)
  <1> DEFINE m == [taken[t] EXCEPT !.at = clock]
  <1>1. taken \in [Threads -> Event] /\ topic \in Seq(Event) /\ clock \in Nat
    BY Fields DEF StreamTypeOK
  <1>2. /\ m \in Event /\ m.id = taken[t].id /\ m.seq = taken[t].seq /\ m.run = taken[t].run
        /\ m.saved = taken[t].saved /\ m.at = clock
    BY <1>1 DEF Event
  <1>3. /\ ~Free(t) /\ topic' = Append(topic, m) /\ taken' = [taken EXCEPT ![t] = Nothing]
        /\ UNCHANGED <<store, seq, backlog, trimmed, clock, stored, offset, count>>
    BY DEF Send, host
  <1> HIDE DEF m
  <1>4. topic' \in Seq(Event) /\ Len(topic') = Len(topic) + 1
    BY <1>1, <1>2, <1>3, AppendFacts
  <1>5. taken' \in [Threads -> Event]
    BY <1>1, <1>3, NothingIsEvent
  <1>6. StreamTypeOK'
    <2>1. offset \in 0 .. Len(topic') /\ trimmed \in 0 .. offset
      BY <1>1, <1>4, Fields DEF StreamTypeOK
    <2> QED BY <1>3, <1>4, <1>5, <2>1, Fields DEF StreamTypeOK
  <1> QED BY <1>2, <1>3, <1>6 DEF Sending

(* A number that is spent without a record. *)
Failing(t) ==
    /\ taken' = [taken EXCEPT ![t] = Nothing]
    /\ UNCHANGED <<store, seq, topic, clock, stored, offset, count>>

(* A send that fails spends its number. *)
LEMMA SendFailsIs ==
    ASSUME StreamTypeOK, NEW t \in Threads, SendFails(t)
    PROVE  StreamTypeOK' /\ Failing(t)
  <1>1. /\ taken' = [taken EXCEPT ![t] = Nothing]
        /\ UNCHANGED <<store, seq, backlog, topic, trimmed, clock, stored, offset, count>>
    BY DEF SendFails, host
  <1>2. taken' \in [Threads -> Event]
    BY <1>1, NothingIsEvent, Fields DEF StreamTypeOK
  <1> QED BY <1>1, <1>2, Fields DEF StreamTypeOK, Failing

(* Whatever the scan of the topic finds, the new counter is not below the watermark. *)
LEMMA RestartIs ==
    ASSUME StreamTypeOK, NEW read \in trimmed .. Len(topic), Restart(read)
    PROVE  StreamTypeOK' /\ Restarting
  <1> DEFINE N == {store.counter} \cup {r.seq : r \in store.rows}
                      \cup {topic[i].seq : i \in trimmed + 1 .. read}
  <1>1. /\ store.counter \in Nat /\ IsFiniteSet(store.rows) /\ \A r \in store.rows : r.seq \in Nat
        /\ topic \in Seq(Event) /\ trimmed \in Nat /\ read \in Nat /\ read <= Len(topic)
    BY Fields DEF StreamTypeOK
  <1>2. IsFiniteSet({r.seq : r \in store.rows}) /\ {r.seq : r \in store.rows} \in SUBSET Nat
    BY <1>1, FiniteNumbers
  <1>3. /\ IsFiniteSet({topic[i].seq : i \in trimmed + 1 .. read})
        /\ {topic[i].seq : i \in trimmed + 1 .. read} \in SUBSET Nat
    <2> DEFINE f == [i \in trimmed + 1 .. read |-> topic[i].seq]
    <2>1. IsFiniteSet(trimmed + 1 .. read)
      BY <1>1, FS_Interval
    <2>2. {f[i] : i \in trimmed + 1 .. read} = {topic[i].seq : i \in trimmed + 1 .. read}
      OBVIOUS
    <2>3. f \in [trimmed + 1 .. read -> {f[i] : i \in trimmed + 1 .. read}]
      OBVIOUS
    <2>4. \A i \in trimmed + 1 .. read : topic[i] \in Event
      BY <1>1
    <2>5. {topic[i].seq : i \in trimmed + 1 .. read} \in SUBSET Nat
      BY <2>4 DEF Event
    <2> HIDE DEF f
    <2>6. IsFiniteSet({f[i] : i \in trimmed + 1 .. read})
      BY <2>1, <2>3, FiniteValues
    <2> QED BY <2>2, <2>5, <2>6
  <1>4. IsFiniteSet({store.counter}) /\ {store.counter} \in SUBSET Nat
    BY <1>1, FS_Singleton
  <1>5. IsFiniteSet(N) /\ N \in SUBSET Nat /\ store.counter \in N
    BY <1>2, <1>3, <1>4, FS_Union
  <1>6. seq' = Highest(N)
    BY DEF Restart, Seed
  <1> HIDE DEF N
  <1>7. seq' \in Nat /\ store.counter <= seq'
    BY <1>5, <1>6, HighestIs
  <1>8. /\ clock' = clock + 1 /\ taken' = [t \in Threads |-> Nothing] /\ backlog' = <<>>
        /\ UNCHANGED <<store, topic, trimmed, stored, offset, count>>
    BY DEF Restart, host
  <1>9. taken' \in [Threads -> Event] /\ backlog' \in Seq(Run) /\ clock' \in Nat \ {0}
    BY <1>8, NothingIsEvent, Fields DEF StreamTypeOK
  <1>10. StreamTypeOK'
    BY <1>7, <1>8, <1>9, Fields DEF StreamTypeOK
  <1> QED BY <1>7, <1>8, <1>10 DEF Restarting

(* Collection leaves the watermark. *)
LEMMA CollectIs ==
    ASSUME StreamTypeOK, NEW run \in Run, Collect(run)
    PROVE  StreamTypeOK' /\ Quiet
  <1>1. /\ store' = [store EXCEPT !.rows = {r \in store.rows : r.run # run}]
        /\ UNCHANGED <<seq, backlog, taken, topic, trimmed, clock, stored, offset, count>>
    BY DEF Collect, host
  <1>2. /\ store \in Database
        /\ IsFiniteSet(store.rows)
    BY Fields DEF StreamTypeOK
  <1>3. PICK R \in SUBSET store.rows : R = {r \in store.rows : r.run # run}
    OBVIOUS
  <1>4. IsFiniteSet(R) /\ R \in SUBSET [seq : Nat, run : Run]
    BY <1>2, <1>3, FS_Subset, Fields
  <1>5. store' = [store EXCEPT !.rows = R, !.rowid = store.rowid]
    BY <1>1, <1>2, <1>3 DEF Database
  <1>6. store.rowid \in Nat /\ store.counter \in Nat
    BY <1>2, Fields
  <1>7. /\ store' \in Database
        /\ store'.rows = R /\ store'.counter = store.counter
    BY <1>2, <1>4, <1>5, <1>6, TableGrows DEF Database
  <1>8. StreamTypeOK'
    BY <1>1, <1>4, <1>7, Fields DEF StreamTypeOK
  <1> QED BY <1>1, <1>6, <1>7, <1>8 DEF Quiet

(* Retention touches nothing the invariants are about. *)
LEMMA TrimIs ==
    ASSUME StreamTypeOK, Trim
    PROVE  StreamTypeOK' /\ Quiet
  <1>1. /\ trimmed' = offset
        /\ UNCHANGED <<store, seq, backlog, taken, topic, clock, stored, offset, count>>
    BY DEF Trim, host, agent
  <1>2. StreamTypeOK'
    BY <1>1, Fields DEF StreamTypeOK
  <1>3. store.counter \in Nat
    BY Fields DEF StreamTypeOK
  <1> QED BY <1>1, <1>2, <1>3 DEF Quiet

(* A second passes. *)
Ticking == clock' = clock + 1 /\ UNCHANGED <<store, seq, taken, topic, stored, offset, count>>

(* Nothing else changes. *)
LEMMA TickIs ==
    ASSUME StreamTypeOK, Tick
    PROVE  StreamTypeOK' /\ Ticking
  <1>1. clock' = clock + 1 /\ UNCHANGED <<store, seq, backlog, taken, topic, trimmed, stored, offset, count>>
    BY DEF Tick, host, agent
  <1> QED BY <1>1, Fields DEF StreamTypeOK, Ticking

(* The host reads the next record. *)
Reading ==
    /\ offset + 1 \in 1 .. Len(topic) /\ offset' = offset + 1
    /\ stored' = IF Repeats(topic[offset + 1]) THEN stored
                 ELSE stored \cup {Projected(topic[offset + 1])}
    /\ UNCHANGED <<store, seq, taken, topic, clock, count>>

(* What the consumer's transaction does with it. *)
LEMMA OnEventIs ==
    ASSUME StreamTypeOK, OnEvent
    PROVE  StreamTypeOK' /\ Reading
  <1>1. /\ offset < Len(topic) /\ offset' = offset + 1
        /\ stored' = IF Repeats(topic[offset + 1]) THEN stored
                     ELSE stored \cup {Projected(topic[offset + 1])}
        /\ UNCHANGED <<store, seq, backlog, taken, topic, trimmed, clock, count>>
    BY DEF OnEvent, agent
  <1>2. offset \in Nat /\ trimmed \in Nat /\ Len(topic) \in Nat /\ topic \in Seq(Event) /\ trimmed <= offset
    BY Fields DEF StreamTypeOK
  <1>3. offset + 1 \in 1 .. Len(topic) /\ offset' \in 0 .. Len(topic) /\ trimmed \in 0 .. offset'
    BY <1>1, <1>2
  <1>4. topic[offset + 1] \in Event
    BY <1>2, <1>3
  <1>5. stored \subseteq Projection /\ IsFiniteSet(stored)
    BY Fields DEF StreamTypeOK
  <1>6. stored' \subseteq Projection /\ IsFiniteSet(stored')
    <2>1. Projected(topic[offset + 1]) \in Projection
      BY <1>4, ProjectedNumber
    <2>2. IsFiniteSet(stored \cup {Projected(topic[offset + 1])})
      BY <1>5, FS_AddElement
    <2> QED BY <1>1, <1>5, <2>1, <2>2
  <1>7. StreamTypeOK'
    BY <1>1, <1>3, <1>6, Fields DEF StreamTypeOK
  <1> QED BY <1>1, <1>3, <1>7 DEF Reading

(* It is to read a record again. *)
Rereading ==
    /\ offset \in 1 .. Len(topic) /\ offset' = offset - 1 /\ count'.taken = count.taken
    /\ UNCHANGED <<store, seq, taken, topic, clock, stored>>

(* The row of the record stays. *)
LEMMA RedeliverIs ==
    ASSUME StreamTypeOK, Redeliver
    PROVE  StreamTypeOK' /\ Rereading
  <1>1. /\ offset > trimmed /\ offset' = offset - 1 /\ count' = [count EXCEPT !.rewinds = @ + 1]
        /\ UNCHANGED <<store, seq, backlog, taken, topic, trimmed, clock, stored>>
    BY DEF Redeliver, agent
  <1>2. offset \in 0 .. Len(topic) /\ trimmed \in 0 .. offset /\ Len(topic) \in Nat
    BY Fields DEF StreamTypeOK
  <1>3. offset \in 1 .. Len(topic) /\ offset' \in 0 .. Len(topic) /\ trimmed \in 0 .. offset'
    BY <1>1, <1>2
  <1>4. count' \in Counts /\ count'.taken = count.taken
    <2>1. count \in Counts
      BY DEF StreamTypeOK
    <2> QED BY <1>1, <2>1 DEF Counts
  <1>5. StreamTypeOK'
    BY <1>1, <1>3, <1>4, Fields DEF StreamTypeOK
  <1> QED BY <1>1, <1>3, <1>4, <1>5 DEF Rereading

(* Every step of the stream is one of these. *)
StreamStep ==
    \/ Quiet
    \/ \E t \in Threads, n \in Event : Taking(t, n)
    \/ \E t \in Threads, m \in Event : Sending(t, m)
    \/ \E t \in Threads : Failing(t)
    \/ Restarting \/ Ticking \/ Reading \/ Rereading

(* Action by action. *)
LEMMA NextIsStep ==
    ASSUME StreamTypeOK, [EventNext]_eventVars
    PROVE  StreamTypeOK' /\ StreamStep
  <1>1. ASSUME NEW run \in Run, Collect(run) PROVE StreamTypeOK' /\ StreamStep
    BY <1>1, CollectIs DEF StreamStep
  <1>2. ASSUME NEW run \in Run, NEW n \in 1 .. 2, UpdateRun(run, n) PROVE StreamTypeOK' /\ StreamStep
    BY <1>2, UpdateIsQuiet DEF StreamStep
  <1>3. ASSUME NEW saved \in BOOLEAN, PublishRow(saved) \/ HeartbeatLoop(saved) \/ AiStep(saved)
        PROVE  StreamTypeOK' /\ StreamStep
    BY <1>3, PublishIs DEF StreamStep
  <1>4. ASSUME NEW t \in Threads, Send(t) PROVE StreamTypeOK' /\ StreamStep
    BY <1>4, SendIs DEF StreamStep
  <1>5. ASSUME NEW t \in Threads, SendFails(t) PROVE StreamTypeOK' /\ StreamStep
    BY <1>5, SendFailsIs DEF StreamStep
  <1>6. ASSUME NEW read \in trimmed .. Len(topic), Restart(read) PROVE StreamTypeOK' /\ StreamStep
    BY <1>6, RestartIs DEF StreamStep
  <1>7. Trim => StreamTypeOK' /\ StreamStep
    BY TrimIs DEF StreamStep
  <1>8. Tick => StreamTypeOK' /\ StreamStep
    BY TickIs DEF StreamStep
  <1>9. OnEvent => StreamTypeOK' /\ StreamStep
    BY OnEventIs DEF StreamStep
  <1>10. Redeliver => StreamTypeOK' /\ StreamStep
    BY RedeliverIs DEF StreamStep
  <1>11. ASSUME UNCHANGED eventVars PROVE StreamTypeOK' /\ StreamStep
    <2>1. UNCHANGED <<store, seq, backlog, taken, topic, trimmed, clock, stored, offset, count>>
      BY <1>11 DEF eventVars
    <2>2. store.counter \in Nat
      BY Fields DEF StreamTypeOK
    <2> QED BY <2>1, <2>2, Fields DEF StreamTypeOK, StreamStep, Quiet
  <1> QED BY <1>1, <1>2, <1>3, <1>4, <1>5, <1>6, <1>7, <1>8, <1>9, <1>10, <1>11 DEF EventNext

(* The types at the start. *)
LEMMA StreamTypeInit ==
    ASSUME EventInit
    PROVE  StreamTypeOK
  <1>1. stored = {[id |-> 0, seq |-> n, run |-> NoRun, at |-> 0] : n \in Island}
    BY DEF EventInit
  <1>2. Island \in SUBSET Nat /\ IsFiniteSet(Island)
    BY EventStreamAssumption
  <1>3. stored \subseteq Projection
    BY <1>1, <1>2 DEF Projection
  <1>4. IsFiniteSet(stored)
    <2> DEFINE f == [n \in Island |-> [id |-> 0, seq |-> n, run |-> NoRun, at |-> 0]]
    <2>1. stored = {f[n] : n \in Island} /\ f \in [Island -> {f[n] : n \in Island}]
      BY <1>1
    <2> HIDE DEF f
    <2> QED BY <1>2, <2>1, FiniteValues
  <1>5. IsFiniteSet(store.rows) /\ store \in Database
    <2>1. store = [rows |-> {}, rowid |-> 0, counter |-> 0] /\ {} \in SUBSET [seq : Nat, run : Run]
      BY DEF EventInit
    <2> QED BY <2>1, FS_EmptySet DEF Database
  <1>6. /\ seq \in Nat /\ backlog \in Seq(Run) /\ topic \in Seq(Event)
        /\ offset \in 0 .. Len(topic) /\ trimmed \in 0 .. offset /\ clock \in Nat \ {0}
        /\ count \in Counts
    BY DEF EventInit, Counts
  <1>7. taken \in [Threads -> Event]
    BY NothingIsEvent DEF EventInit
  <1> QED BY <1>3, <1>4, <1>5, <1>6, <1>7, Fields DEF StreamTypeOK

(* What holds of the agent's side. *)
AgentInv == IdInv /\ SavedInv /\ NumbersAdvance /\ SecondInv

(* What has a number is in the topic or in a thread. *)
LEMMA NumberedIs ==
    ASSUME StreamTypeOK
    PROVE  /\ Numbered \subseteq Event
           /\ \A m : m \in Numbered <=>
                 /\ m # Nothing
                 /\ (\E i \in 1 .. Len(topic) : m = topic[i]) \/ (\E t \in Threads : m = taken[t])
  <1>1. taken \in [Threads -> Event] /\ topic \in Seq(Event)
    BY Fields DEF StreamTypeOK
  <1> QED BY <1>1 DEF Numbered, Records

(* It is one of those counted. *)
LEMMA NumberedWhole ==
    ASSUME StreamTypeOK, IdInv, NEW m \in Numbered
    PROVE  m \in Event /\ m.id \in 1 .. count.taken
  <1>1. m \in Event /\ m # Nothing
    BY NumberedIs
  <1>2. (\E i \in 1 .. Len(topic) : m = topic[i]) \/ (\E t \in Threads : m = taken[t])
    BY NumberedIs
  <1> QED BY <1>1, <1>2 DEF IdInv

(* Fewer numbers are under way, none is new, and the counters have not gone back. *)
LEMMA FewerNumbers ==
    ASSUME SavedInv, NumbersAdvance, StreamTypeOK, StreamTypeOK', Numbered' \subseteq Numbered,
           count'.taken = count.taken, store.counter <= store'.counter,
           seq <= seq' \/ store.counter <= seq'
    PROVE  SavedInv' /\ NumbersAdvance'
  <1>1. NumbersAdvance'
    BY DEF NumbersAdvance
  <1>2. /\ seq \in Nat /\ seq' \in Nat /\ store.counter \in Nat /\ store'.counter \in Nat
        /\ count.taken \in Nat
    BY Fields DEF StreamTypeOK
  <1>3. ASSUME NEW m \in Numbered'
        PROVE  m.id <= count'.taken /\ (m.saved => m.seq <= seq' /\ m.seq <= store'.counter)
    <2>1. m \in Numbered /\ m \in Event
      BY NumberedIs
    <2>2. m.id <= count.taken /\ (m.saved => m.seq <= seq /\ m.seq <= store.counter)
      BY <2>1 DEF SavedInv
    <2>3. m.seq \in Nat
      BY <2>1 DEF Event
    <2> QED BY <1>2, <2>2, <2>3
  <1> QED BY <1>1, <1>3 DEF SavedInv

(* Steps that change nothing of what has a number. *)
LEMMA SameNumbers ==
    ASSUME StreamTypeOK, StreamTypeOK', AgentInv, UNCHANGED <<seq, taken, topic, clock>>,
           count'.taken = count.taken, store.counter <= store'.counter
    PROVE  AgentInv'
  <1>1. Numbered' = Numbered
    BY DEF Numbered, Records
  <1>2. seq \in Nat
    BY Fields DEF StreamTypeOK
  <1>3. SavedInv' /\ NumbersAdvance'
    BY <1>1, <1>2, FewerNumbers DEF AgentInv
  <1>4. IdInv'
    BY DEF IdInv, AgentInv, Free
  <1>5. SecondInv'
    BY DEF SecondInv, AgentInv, Free
  <1> QED BY <1>3, <1>4, <1>5 DEF AgentInv

(* A second passes, and maybe a process dies: nothing is written yet in the new one. *)
LEMMA NewSecond ==
    ASSUME StreamTypeOK, StreamTypeOK', AgentInv, clock' = clock + 1, UNCHANGED <<store, topic, count>>,
           \/ UNCHANGED <<seq, taken>>
           \/ store.counter <= seq' /\ taken' = [t \in Threads |-> Nothing]
    PROVE  AgentInv'
  <1>1. \A t \in Threads : taken'[t] = Nothing \/ taken'[t] = taken[t]
    OBVIOUS
  <1>2. /\ topic \in Seq(Event) /\ seq \in Nat /\ store.counter \in Nat /\ clock \in Nat
        /\ taken \in [Threads -> Event] /\ Len(topic) \in Nat /\ count.taken \in Nat /\ seq' \in Nat
    BY Fields DEF StreamTypeOK
  <1>3. Numbered' \subseteq Numbered
    BY <1>1, NumberedIs DEF Numbered, Records
  <1>4. SavedInv' /\ NumbersAdvance'
    BY <1>2, <1>3, FewerNumbers DEF AgentInv
  <1>5. IdInv'
    <2>1. \A i \in 1 .. Len(topic) : topic[i].id \in 1 .. count.taken /\ topic[i].at \in 1 .. clock + 1
      BY <1>2 DEF IdInv, AgentInv
    <2>2. \A t \in Threads, i \in 1 .. Len(topic) : taken'[t].id # topic[i].id
      BY <1>1, <1>2, <2>1, NothingIsEvent DEF IdInv, AgentInv
    <2>3. \A t \in Threads : taken'[t] = Nothing \/ taken'[t].id \in 1 .. count.taken
      BY <1>1 DEF IdInv, AgentInv
    <2>4. \A t, u \in Threads : taken'[t].id = taken'[u].id => t = u \/ taken'[t] = Nothing
      BY <1>1 DEF IdInv, AgentInv, Free
    <2> QED BY <2>1, <2>2, <2>3, <2>4 DEF IdInv, AgentInv, Free
  <1>6. SecondInv'
    <2>1. \A i \in 1 .. Len(topic) : topic[i].at # clock + 1
      BY <1>2 DEF IdInv, AgentInv
    <2>2. \A t \in Threads : taken'[t].seq <= seq'
      BY <1>1, <1>2, NothingIsEvent DEF SecondInv, AgentInv
    <2>3. \A t, u \in Threads :
             taken'[t].seq = taken'[u].seq => t = u \/ taken'[t] = Nothing \/ taken'[u] = Nothing
      BY <1>1 DEF SecondInv, AgentInv, Free
    <2> QED BY <2>1, <2>2, <2>3 DEF SecondInv, AgentInv, Free
  <1> QED BY <1>4, <1>5, <1>6 DEF AgentInv

(* A thread that drops its number, or hands it to the topic. *)
LEMMA DropsNumber ==
    ASSUME StreamTypeOK, StreamTypeOK', AgentInv, NEW t \in Threads, Failing(t)
    PROVE  AgentInv'
  <1>1. \A u \in Threads : taken'[u] = Nothing \/ taken'[u] = taken[u]
    BY Fields DEF Failing, StreamTypeOK
  <1>2. /\ topic \in Seq(Event) /\ seq \in Nat /\ store.counter \in Nat
        /\ taken \in [Threads -> Event] /\ Len(topic) \in Nat /\ count.taken \in Nat
    BY Fields DEF StreamTypeOK
  <1>3. UNCHANGED <<store, seq, topic, clock, stored, offset, count>>
    BY DEF Failing
  <1>4. Numbered' \subseteq Numbered
    BY <1>1, <1>3, NumberedIs DEF Numbered, Records
  <1>5. SavedInv' /\ NumbersAdvance'
    BY <1>2, <1>3, <1>4, FewerNumbers DEF AgentInv
  <1>6. IdInv'
    <2>1. \A i \in 1 .. Len(topic) : topic[i].id \in 1 .. count.taken
      BY DEF IdInv, AgentInv
    <2>2. \A u \in Threads, i \in 1 .. Len(topic) : taken'[u].id # topic[i].id
      BY <1>1, <1>2, <2>1, NothingIsEvent DEF IdInv, AgentInv
    <2>3. \A u \in Threads : taken'[u] = Nothing \/ taken'[u].id \in 1 .. count.taken
      BY <1>1 DEF IdInv, AgentInv
    <2>4. \A u, v \in Threads : taken'[u].id = taken'[v].id => u = v \/ taken'[u] = Nothing
      <3>1. \A u, v \in Threads : taken[u].id = taken[v].id => u = v \/ taken[u] = Nothing
        BY DEF IdInv, AgentInv, Free
      <3>2. \A u \in Threads : taken[u] = Nothing \/ taken[u].id # 0
        BY <1>2 DEF IdInv, AgentInv
      <3> QED BY <1>1, <3>1, <3>2, NothingIsEvent
    <2> QED BY <1>3, <2>2, <2>3, <2>4 DEF IdInv, AgentInv, Free
  <1>7. SecondInv'
    <2>1. \A u \in Threads : taken'[u].seq <= seq
      BY <1>1, <1>2, NothingIsEvent DEF SecondInv, AgentInv
    <2>2. \A u \in Threads, i \in 1 .. Len(topic) :
              topic[i].at = clock /\ taken'[u].seq = topic[i].seq => taken'[u] = Nothing
      BY <1>1 DEF SecondInv, AgentInv, Free
    <2>3. \A u, v \in Threads :
             taken'[u].seq = taken'[v].seq => u = v \/ taken'[u] = Nothing \/ taken'[v] = Nothing
      BY <1>1 DEF SecondInv, AgentInv, Free
    <2> QED BY <1>3, <2>1, <2>2, <2>3 DEF SecondInv, AgentInv, Free
  <1> QED BY <1>5, <1>6, <1>7 DEF AgentInv

(* The parts of an event. *)
LEMMA EventFields ==
    \A e \in Event : e.id \in Nat /\ e.seq \in Nat /\ e.at \in Nat /\ e.run \in Run \cup {NoRun}
  BY DEF Event

(* A number under way is one of the numbers taken; a saved one is not above the counters. *)
LEMMA NumberedBounds ==
    ASSUME StreamTypeOK, AgentInv, NEW m \in Numbered
    PROVE  m.id \in 1 .. count.taken /\ m.seq \in Nat
             /\ (m.saved => m.seq <= seq /\ m.seq <= store.counter)
  <1>1. m \in Event /\ m.id \in 1 .. count.taken
    BY NumberedWhole DEF AgentInv
  <1>2. m.saved => m.seq <= seq /\ m.seq <= store.counter
    BY DEF SavedInv, AgentInv
  <1> QED BY <1>1, <1>2, EventFields

(* A new event has the highest number of its second, and of all that reached the watermark. *)
LEMMA TakesNumber ==
    ASSUME StreamTypeOK, StreamTypeOK', AgentInv, NEW t \in Threads, NEW n \in Event, Taking(t, n)
    PROVE  AgentInv'
  <1>1. /\ topic \in Seq(Event) /\ seq \in Nat /\ store.counter \in Nat /\ store'.counter \in Nat
        /\ taken \in [Threads -> Event] /\ Len(topic) \in Nat /\ count.taken \in Nat
        /\ n.id \in Nat /\ n.seq \in Nat
    <2>1. n.id \in Nat /\ n.seq \in Nat
      BY EventFields
    <2> QED BY <2>1, Fields DEF StreamTypeOK
  <1>2. /\ n.id = count.taken + 1 /\ seq < n.seq /\ (n.saved => n.seq <= store'.counter)
        /\ Free(t) /\ taken' = [taken EXCEPT ![t] = n] /\ seq' = n.seq
        /\ count'.taken = count.taken + 1 /\ store.counter <= store'.counter
        /\ UNCHANGED <<topic, clock, stored, offset>>
    BY DEF Taking
  <1>3. taken'[t] = n /\ \A u \in Threads : u # t => taken'[u] = taken[u]
    BY <1>1, <1>2
  <1>4. \A m \in Numbered' : m = n \/ m \in Numbered
    BY <1>2, <1>3, NumberedIs DEF Numbered, Records
  <1>5. /\ seq \in Nat /\ store.counter \in Nat /\ store'.counter \in Nat /\ count.taken \in Nat
         /\ n.id = count.taken + 1 /\ count'.taken = count.taken + 1 /\ n.seq \in Nat /\ seq' = n.seq
         /\ seq < n.seq /\ store.counter <= store'.counter /\ (n.saved => n.seq <= store'.counter)
    BY <1>1, <1>2
  <1>6. SavedInv'
    <2> SUFFICES ASSUME NEW m \in Numbered'
                 PROVE  m.id <= count'.taken /\ (m.saved => m.seq <= seq' /\ m.seq <= store'.counter)
      BY DEF SavedInv
    <2>1. CASE m = n
      BY <1>5, <2>1
    <2>2. CASE m \in Numbered
      <3>1. /\ m.id \in 1 .. count.taken /\ m.seq \in Nat
            /\ (m.saved => m.seq <= seq /\ m.seq <= store.counter)
        BY <2>2, NumberedBounds
      <3> QED BY <1>5, <3>1
    <2> QED BY <1>4, <2>1, <2>2
  <1>7. NumbersAdvance'
    <2> SUFFICES ASSUME NEW m \in Numbered', NEW k \in Numbered', m.saved, m.id < k.id
                 PROVE  m.seq < k.seq
      BY DEF NumbersAdvance
    <2>1. CASE m \in Numbered /\ k \in Numbered
      BY <2>1 DEF NumbersAdvance, AgentInv
    <2>2. CASE m \in Numbered /\ k = n
      <3>1. m.seq \in Nat /\ m.seq <= seq
        BY <2>2, NumberedBounds
      <3> QED BY <1>5, <2>2, <3>1
    <2>3. CASE m = n /\ k \in Numbered
      <3>1. k.id \in 1 .. count.taken
        BY <2>3, NumberedBounds
      <3> QED BY <1>5, <2>3, <3>1
    <2>4. CASE m = n /\ k = n
      BY <1>5, <2>4
    <2> QED BY <1>4, <2>1, <2>2, <2>3, <2>4
  <1>8. IdInv'
    <2>1. \A i \in 1 .. Len(topic) : topic[i].id \in 1 .. count.taken + 1 /\ topic[i].at \in 1 .. clock
      BY <1>1 DEF IdInv, AgentInv
    <2>2. \A u \in Threads, i \in 1 .. Len(topic) : taken'[u].id # topic[i].id
      <3>1. \A i \in 1 .. Len(topic) : topic[i].id # n.id
        BY <1>1, <1>2 DEF IdInv, AgentInv
      <3> QED BY <1>3, <3>1 DEF IdInv, AgentInv
    <2>3. \A u \in Threads : taken[u] = Nothing \/ taken[u].id \in 1 .. count.taken
      BY DEF IdInv, AgentInv
    <2>4. \A u \in Threads : taken'[u] = Nothing \/ taken'[u].id \in 1 .. count.taken + 1
      BY <1>1, <1>2, <1>3, <2>3
    <2>5. \A u \in Threads : u # t => taken'[u].id # n.id
      BY <1>1, <1>2, <1>3, <2>3, NothingIsEvent
    <2>6. \A u, v \in Threads : taken'[u].id = taken'[v].id => u = v \/ taken'[u] = Nothing
      BY <1>3, <2>5 DEF IdInv, AgentInv, Free
    <2> QED BY <1>2, <2>1, <2>2, <2>4, <2>6 DEF IdInv, AgentInv, Free
  <1>9. SecondInv'
    <2>1. \A u \in Threads : taken[u].seq \in Nat /\ taken[u].seq <= seq
      BY <1>1, EventFields DEF SecondInv, AgentInv
    <2>2. \A u \in Threads : taken'[u].seq <= seq'
      BY <1>1, <1>2, <1>3, <2>1
    <2>3. \A i \in 1 .. Len(topic) : topic[i].at = clock => topic[i].seq < n.seq
      <3>1. \A i \in 1 .. Len(topic) : topic[i].seq \in Nat
        BY <1>1, EventFields
      <3> QED BY <1>1, <1>2, <3>1 DEF SecondInv, AgentInv
    <2>4. \A i \in 1 .. Len(topic) : topic[i].seq \in Nat
      BY <1>1, EventFields
    <2>5. \A u \in Threads, i \in 1 .. Len(topic) :
              topic[i].at = clock /\ taken'[u].seq = topic[i].seq => taken'[u] = Nothing
      <3> SUFFICES ASSUME NEW u \in Threads, NEW i \in 1 .. Len(topic),
                          topic[i].at = clock, taken'[u].seq = topic[i].seq
                   PROVE  taken'[u] = Nothing
        OBVIOUS
      <3>1. u # t
        BY <1>1, <1>3, <2>3, <2>4
      <3> QED BY <1>3, <3>1 DEF SecondInv, AgentInv, Free
    <2>6. \A u, v \in Threads :
             taken'[u].seq = taken'[v].seq => u = v \/ taken'[u] = Nothing \/ taken'[v] = Nothing
      <3>1. \A u \in Threads : u # t => taken'[u].seq # n.seq
        BY <1>1, <1>2, <1>3, <2>1
      <3> QED BY <1>3, <3>1 DEF SecondInv, AgentInv, Free
    <2>7. \A i \in 1 .. Len(topic) : topic[i].at = clock => topic[i].seq <= seq'
      BY <1>1, <1>2, <2>3, <2>4
    <2> QED BY <1>2, <2>2, <2>5, <2>6, <2>7 DEF SecondInv, AgentInv, Free
  <1> QED BY <1>6, <1>7, <1>8, <1>9 DEF AgentInv

(* The topic with one record more. *)
LEMMA Sent ==
    ASSUME StreamTypeOK, NEW t \in Threads, NEW m \in Event, Sending(t, m)
    PROVE  /\ Len(topic) \in Nat /\ Len(topic') = Len(topic) + 1 /\ topic'[Len(topic) + 1] = m
           /\ \A i \in 1 .. Len(topic) : topic'[i] = topic[i]
           /\ \A i \in 1 .. Len(topic') : i \in 1 .. Len(topic) \/ i = Len(topic) + 1
  <1>1. topic \in Seq(Event) /\ topic' = Append(topic, m)
    BY Fields DEF StreamTypeOK, Sending
  <1> QED BY <1>1, AppendFacts

(* The record has the thread's number, in the present second. *)
LEMMA SendsNumber ==
    ASSUME StreamTypeOK, StreamTypeOK', AgentInv, NEW t \in Threads, NEW m \in Event, Sending(t, m)
    PROVE  AgentInv'
  <1>1. /\ topic \in Seq(Event) /\ seq \in Nat /\ store.counter \in Nat /\ clock \in Nat \ {0}
        /\ taken \in [Threads -> Event] /\ Len(topic) \in Nat /\ count.taken \in Nat
        /\ m.id \in Nat /\ m.seq \in Nat
    <2>1. m.id \in Nat /\ m.seq \in Nat
      BY EventFields
    <2> QED BY <2>1, Fields DEF StreamTypeOK
  <1>2. /\ m.id = taken[t].id /\ m.seq = taken[t].seq /\ m.saved = taken[t].saved /\ m.at = clock
        /\ taken[t] # Nothing /\ taken' = [taken EXCEPT ![t] = Nothing]
        /\ UNCHANGED <<store, seq, clock, stored, offset, count>>
    BY DEF Sending, Free
  <1>3. taken'[t] = Nothing /\ \A u \in Threads : u # t => taken'[u] = taken[u]
    BY <1>1, <1>2
  <1>4. /\ Len(topic') = Len(topic) + 1 /\ topic'[Len(topic) + 1] = m
        /\ \A i \in 1 .. Len(topic) : topic'[i] = topic[i]
        /\ \A i \in 1 .. Len(topic') : i \in 1 .. Len(topic) \/ i = Len(topic) + 1
    BY Sent
  <1>5. taken[t] \in Numbered
    BY <1>2, NumberedIs
  <1>6. \A k \in Numbered' : \E j \in Numbered : k.id = j.id /\ k.seq = j.seq /\ k.saved = j.saved
    <2> SUFFICES ASSUME NEW k \in Numbered'
                 PROVE  \E j \in Numbered : k.id = j.id /\ k.seq = j.seq /\ k.saved = j.saved
      OBVIOUS
    <2>1. /\ k # Nothing
          /\ (\E i \in 1 .. Len(topic') : k = topic'[i]) \/ (\E u \in Threads : k = taken'[u])
      BY <1>1, <1>3, NumberedIs DEF Numbered, Records, Threads
    <2>2. k = m \/ k \in Numbered
      BY <1>3, <1>4, <2>1, NumberedIs
    <2> QED BY <1>2, <1>5, <2>2
  <1>7. SavedInv'
    BY <1>2, <1>6 DEF SavedInv, AgentInv
  <1>8. NumbersAdvance'
    <2> SUFFICES ASSUME NEW k \in Numbered', NEW l \in Numbered', k.saved, k.id < l.id
                 PROVE  k.seq < l.seq
      BY DEF NumbersAdvance
    <2>1. PICK a \in Numbered : k.id = a.id /\ k.seq = a.seq /\ k.saved = a.saved
      BY <1>6
    <2>2. PICK b \in Numbered : l.id = b.id /\ l.seq = b.seq
      BY <1>6
    <2> QED BY <2>1, <2>2 DEF NumbersAdvance, AgentInv
  <1>9. IdInv'
    <2>1. m.id \in 1 .. count.taken /\ m.at \in 1 .. clock
      BY <1>1, <1>2 DEF IdInv, AgentInv
    <2>2. \A i \in 1 .. Len(topic) : topic[i].id # m.id
      BY <1>2 DEF IdInv, AgentInv
    <2>3. \A i \in 1 .. Len(topic') : topic'[i].id \in 1 .. count.taken /\ topic'[i].at \in 1 .. clock
      BY <1>4, <2>1 DEF IdInv, AgentInv
    <2>4. \A i, j \in 1 .. Len(topic') : topic'[i].id = topic'[j].id => i = j
      <3>1. \A i, j \in 1 .. Len(topic) : topic[i].id = topic[j].id => i = j
        BY DEF IdInv, AgentInv
      <3> QED BY <1>4, <2>2, <3>1
    <2>5. \A u \in Threads : u # t => taken'[u].id # m.id
      BY <1>2, <1>3 DEF IdInv, AgentInv, Free
    <2>6. \A u \in Threads, i \in 1 .. Len(topic') : taken'[u].id # topic'[i].id
      <3>1. \A u \in Threads, i \in 1 .. Len(topic) : taken[u].id # topic[i].id
        BY DEF IdInv, AgentInv
      <3>2. \A i \in 1 .. Len(topic') : topic'[i].id # 0
        BY <2>3
      <3> QED BY <1>3, <1>4, <2>5, <3>1, <3>2, NothingIsEvent
    <2>7. \A u \in Threads : taken'[u] = Nothing \/ taken'[u].id \in 1 .. count.taken
      BY <1>3 DEF IdInv, AgentInv
    <2>8. \A u, v \in Threads : taken'[u].id = taken'[v].id => u = v \/ taken'[u] = Nothing
      <3>1. \A u, v \in Threads : taken[u].id = taken[v].id => u = v \/ taken[u] = Nothing
        BY DEF IdInv, AgentInv, Free
      <3>2. \A u \in Threads : taken[u] = Nothing \/ taken[u].id # 0
        BY <1>1 DEF IdInv, AgentInv
      <3> QED BY <1>3, <3>1, <3>2, NothingIsEvent
    <2> QED BY <1>2, <2>3, <2>4, <2>6, <2>7, <2>8 DEF IdInv, Free
  <1>10. SecondInv'
    <2>1. m.seq <= seq
      BY <1>2 DEF SecondInv, AgentInv
    <2>2. \A i \in 1 .. Len(topic') : topic'[i].at = clock => topic'[i].seq <= seq
      BY <1>4, <2>1 DEF SecondInv, AgentInv
    <2>3. \A i \in 1 .. Len(topic) : ~(topic[i].at = m.at /\ topic[i].seq = m.seq)
      BY <1>2 DEF SecondInv, AgentInv, Free
    <2>4. \A i, j \in 1 .. Len(topic') : topic'[i].at = topic'[j].at /\ topic'[i].seq = topic'[j].seq => i = j
      <3>1. \A i, j \in 1 .. Len(topic) : topic[i].at = topic[j].at /\ topic[i].seq = topic[j].seq => i = j
        BY DEF SecondInv, AgentInv
      <3> QED BY <1>4, <2>3, <3>1
    <2>5. \A u \in Threads : taken'[u].seq <= seq
      BY <1>1, <1>3, NothingIsEvent DEF SecondInv, AgentInv
    <2>6. \A u \in Threads : u # t => taken'[u] = Nothing \/ taken'[u].seq # m.seq
      BY <1>2, <1>3 DEF SecondInv, AgentInv, Free
    <2>7. \A u \in Threads, i \in 1 .. Len(topic') :
              topic'[i].at = clock /\ taken'[u].seq = topic'[i].seq => taken'[u] = Nothing
      <3>1. \A u \in Threads, i \in 1 .. Len(topic) :
                topic[i].at = clock /\ taken[u].seq = topic[i].seq => taken[u] = Nothing
        BY DEF SecondInv, AgentInv, Free
      <3> QED BY <1>3, <1>4, <2>6, <3>1
    <2>8. \A u, v \in Threads :
             taken'[u].seq = taken'[v].seq => u = v \/ taken'[u] = Nothing \/ taken'[v] = Nothing
      <3>1. \A u, v \in Threads :
               taken[u].seq = taken[v].seq => u = v \/ taken[u] = Nothing \/ taken[v] = Nothing
        BY DEF SecondInv, AgentInv, Free
      <3> QED BY <1>3, <3>1
    <2> QED BY <1>2, <2>2, <2>4, <2>5, <2>7, <2>8 DEF SecondInv, Free
  <1> QED BY <1>7, <1>8, <1>9, <1>10 DEF AgentInv

(* What holds of the host's side. *)
HostInv == OriginInv /\ CopyInv /\ LostInv

(* The host does nothing. *)
LEMMA HostIdles ==
    ASSUME HostInv, UNCHANGED <<topic, stored, offset>>
    PROVE  HostInv'
  BY DEF HostInv, OriginInv, CopyInv, LostInv, Seen, Twin, Kept, SameNumber

(* A record that is written now is not read yet. *)
LEMMA HostHears ==
    ASSUME StreamTypeOK, AgentInv', HostInv, NEW t \in Threads, NEW m \in Event, Sending(t, m)
    PROVE  HostInv'
  <1>1. /\ Len(topic) \in Nat /\ Len(topic') = Len(topic) + 1 /\ topic'[Len(topic) + 1] = m
        /\ \A i \in 1 .. Len(topic) : topic'[i] = topic[i]
        /\ \A i \in 1 .. Len(topic') : i \in 1 .. Len(topic) \/ i = Len(topic) + 1
    BY Sent
  <1>2. stored' = stored /\ offset' = offset /\ offset \in 0 .. Len(topic)
    BY Fields DEF Sending, StreamTypeOK
  <1>3. \A i \in 1 .. Len(topic') : topic'[i].id # 0
    BY DEF IdInv, AgentInv
  <1>4. \A i, j \in 1 .. Len(topic') : topic'[i].id = topic'[j].id => i = j
    BY DEF IdInv, AgentInv
  <1>5. \A r \in stored : r.id # m.id
    <2> SUFFICES ASSUME NEW r \in stored, r.id = m.id PROVE FALSE
      OBVIOUS
    <2>1. m.id # 0
      BY <1>1, <1>3
    <2>2. PICK i \in 1 .. Len(topic) : topic[i].id = r.id
      BY <2>1 DEF OriginInv, HostInv
    <2>3. topic'[i].id = topic'[Len(topic) + 1].id
      BY <1>1, <2>2
    <2> QED BY <1>1, <1>4, <2>3
  <1>6. OriginInv'
    BY <1>1, <1>2 DEF OriginInv, HostInv
  <1>7. \A i \in 1 .. Len(topic') : \A r \in stored : r.id = topic'[i].id => i \in 1 .. Len(topic)
    BY <1>1, <1>5
  <1>8. CopyInv'
    <2>1. \A i \in 1 .. Len(topic') :
             (\E r \in stored : r.id = topic'[i].id) => \E r \in stored : r.seq = topic'[i].seq
      BY <1>1, <1>7 DEF CopyInv, HostInv, Kept, SameNumber
    <2>2. \A r, q \in stored :
             r.id = q.id /\ r # q /\ r.id # 0 =>
                 r.run = NoRun /\ \A i \in 1 .. Len(topic') : topic'[i].id = r.id => r.seq # topic'[i].seq
      BY <1>1, <1>7 DEF CopyInv, HostInv
    <2> QED BY <1>2, <2>1, <2>2 DEF CopyInv, Kept, SameNumber
  <1>9. ASSUME NEW i \in 1 .. Len(topic'), Seen(i)'
        PROVE  Kept(topic[i])' \/ \E j \in 1 .. i - 1, r \in stored' : Twin(i, j, r)'
    <2>1. i \in 1 .. Len(topic) /\ Seen(i)
      <3>1. CASE i <= offset
        BY <1>1, <1>2, <3>1 DEF Seen
      <3>2. CASE ~(i <= offset)
        <4>1. PICK j \in i .. Len(topic'), r \in stored : r.id = topic'[j].id
          BY <1>2, <1>9, <3>2 DEF Seen, Kept
        <4>2. j \in 1 .. Len(topic) /\ j \in i .. Len(topic) /\ topic'[j] = topic[j]
          BY <1>1, <1>7, <4>1
        <4> QED BY <1>1, <4>1, <4>2 DEF Seen, Kept
      <3> QED BY <3>1, <3>2
    <2>2. topic'[i] = topic[i] /\ \A j \in 1 .. i - 1 : topic'[j] = topic[j]
      BY <1>1, <2>1
    <2>3. Kept(topic[i]) \/ \E j \in 1 .. i - 1, r \in stored : Twin(i, j, r)
      BY <2>1 DEF LostInv, HostInv
    <2>4. CASE Kept(topic[i])
      BY <1>2, <2>2, <2>4 DEF Kept
    <2>5. ASSUME NEW j \in 1 .. i - 1, NEW r \in stored, Twin(i, j, r)
          PROVE  r \in stored' /\ Twin(i, j, r)'
      BY <1>2, <2>2, <2>5 DEF Twin
    <2> QED BY <2>3, <2>4, <2>5
  <1> QED BY <1>6, <1>8, <1>9 DEF HostInv, LostInv

(* A record that is to be read again counts as read. *)
LEMMA HostRereads ==
    ASSUME StreamTypeOK, HostInv, Rereading
    PROVE  HostInv'
  <1>1. UNCHANGED <<topic, stored>> /\ offset' = offset - 1 /\ offset \in Int
    BY Fields DEF Rereading, StreamTypeOK
  <1>2. OriginInv' /\ CopyInv'
    BY <1>1 DEF HostInv, OriginInv, CopyInv, Kept, SameNumber
  <1>3. ASSUME NEW i \in 1 .. Len(topic), Seen(i)' PROVE Seen(i)
    BY <1>1, <1>3 DEF Seen, Kept
  <1>4. LostInv'
    BY <1>1, <1>3 DEF HostInv, LostInv, Twin, Kept
  <1> QED BY <1>2, <1>4 DEF HostInv

(* A record that is taken for a repetition: it is one, or lost to its twin. *)
LEMMA HostSkips ==
    ASSUME StreamTypeOK, AgentInv, HostInv, Reading, Repeats(topic[offset + 1])
    PROVE  HostInv'
  <1> DEFINE k == offset + 1
  <1>1. /\ k \in 1 .. Len(topic) /\ offset' = k /\ UNCHANGED <<topic, stored>>
        /\ offset \in Nat /\ Len(topic) \in Nat
    BY Fields DEF Reading, StreamTypeOK
  <1>2. OriginInv' /\ CopyInv'
    BY <1>1 DEF HostInv, OriginInv, CopyInv, Kept, SameNumber
  <1>3. PICK r \in stored : /\ r.at = topic[k].at
                            /\ r.seq = topic[k].seq \/ (topic[k].run # NoRun /\ r.run = topic[k].run)
    BY DEF Repeats
  <1>4. PICK j \in 1 .. Len(topic) : topic[j].id = r.id /\ topic[j].run = r.run /\ topic[j].at = r.at
    <2>1. topic[k].at # 0
      BY <1>1 DEF AgentInv, IdInv
    <2> QED BY <1>3, <2>1 DEF HostInv, OriginInv
  <1> HIDE DEF k
  <1>5. ~Seen(k) => j \in 1 .. k - 1 /\ Twin(k, j, r)
    <2> SUFFICES ASSUME ~Seen(k) PROVE j \in 1 .. k - 1 /\ Twin(k, j, r)
      OBVIOUS
    <2>1. ~(j \in k .. Len(topic))
      BY <1>4 DEF Seen, Kept
    <2>2. j \in 1 .. k - 1 /\ j # k
      BY <1>1, <1>4, <2>1
    <2>3. r.seq = topic[k].seq => topic[j].seq # r.seq
      BY <1>1, <1>3, <1>4, <2>2 DEF AgentInv, SecondInv
    <2> QED BY <1>3, <1>4, <2>2, <2>3 DEF Twin
  <1>6. ASSUME NEW i \in 1 .. Len(topic), Seen(i)'
        PROVE  Kept(topic[i]) \/ \E l \in 1 .. i - 1, q \in stored : Twin(i, l, q)
    <2>1. CASE Seen(i)
      BY <2>1 DEF HostInv, LostInv
    <2>2. CASE ~Seen(i)
      <3>1. i = k
        BY <1>1, <1>6, <2>2 DEF Seen, Kept, k
      <3> QED BY <1>5, <2>2, <3>1
    <2> QED BY <2>1, <2>2
  <1>7. LostInv'
    BY <1>1, <1>6 DEF LostInv, Twin, Kept
  <1> QED BY <1>2, <1>7 DEF HostInv

(* A record that is none becomes a row. *)
LEMMA HostStores ==
    ASSUME StreamTypeOK, AgentInv, HostInv, Reading, ~Repeats(topic[offset + 1])
    PROVE  HostInv'
  <1>1. PICK k \in 1 .. Len(topic) : k = offset + 1
    BY DEF Reading
  <1>2. PICK y : y = Projected(topic[k])
    OBVIOUS
  <1>3. /\ offset' = k /\ topic' = topic /\ stored' = stored \cup {y}
        /\ offset \in Nat /\ Len(topic) \in Nat /\ topic \in Seq(Event) /\ topic[k] \in Event
    BY <1>1, <1>2, Fields DEF Reading, StreamTypeOK
  <1>4. /\ y.id = topic[k].id /\ y.run = topic[k].run /\ y.at = topic[k].at
        /\ y.seq \in Nat /\ topic[k].seq \in Nat
        /\ SameNumber(topic[k]) => topic[k].seq < y.seq
        /\ ~SameNumber(topic[k]) => y.seq = topic[k].seq
    BY <1>2, <1>3, ProjectedNumber, EventFields DEF Projection
  <1>5. \A i, j \in 1 .. Len(topic) : topic[i].id = topic[j].id => i = j
    BY DEF IdInv, AgentInv
  <1>6. \A r \in stored :
           ~(r.at = topic[k].at /\ (r.seq = topic[k].seq \/ (topic[k].run # NoRun /\ r.run = topic[k].run)))
    BY <1>1 DEF Repeats
  <1>7. OriginInv'
    BY <1>3, <1>4 DEF HostInv, OriginInv
  <1>8. \A i \in 1 .. Len(topic) : Kept(topic[i])' => i = k \/ Kept(topic[i])
    BY <1>3, <1>4, <1>5 DEF Kept
  <1>9. \A i \in 1 .. Len(topic) : SameNumber(topic[i]) => SameNumber(topic[i])'
    BY <1>3 DEF SameNumber
  <1>10. \A i \in 1 .. Len(topic) : Kept(topic[i])' => SameNumber(topic[i])'
    <2>1. SameNumber(topic[k])'
      <3>1. CASE SameNumber(topic[k])
        BY <1>9, <3>1
      <3>2. CASE ~SameNumber(topic[k])
        BY <1>3, <1>4, <3>2 DEF SameNumber
      <3> QED BY <3>1, <3>2
    <2>2. \A i \in 1 .. Len(topic) : Kept(topic[i]) => SameNumber(topic[i])
      BY DEF HostInv, CopyInv
    <2> QED BY <1>8, <1>9, <2>1, <2>2
  <1>11. ASSUME NEW q \in stored, q.id = topic[k].id
         PROVE  q.run = NoRun /\ y.run = NoRun /\ q.seq # topic[k].seq /\ y.seq # topic[k].seq
    <2>1. topic[k].id # 0
      BY DEF IdInv, AgentInv
    <2>2. q.run = topic[k].run /\ q.at = topic[k].at
      BY <1>5, <1>11, <2>1 DEF HostInv, OriginInv
    <2>3. SameNumber(topic[k])
      BY <1>11 DEF HostInv, CopyInv, Kept
    <2> QED BY <1>4, <1>6, <2>2, <2>3
  <1>12. ASSUME NEW r \in stored', NEW q \in stored', r.id = q.id, r # q, r.id # 0,
                NEW i \in 1 .. Len(topic)
         PROVE  r.run = NoRun /\ (topic[i].id = r.id => r.seq # topic[i].seq)
    <2>1. CASE r \in stored /\ q \in stored
      BY <1>12, <2>1 DEF HostInv, CopyInv
    <2>2. CASE r = y /\ q \in stored
      BY <1>4, <1>5, <1>11, <1>12, <2>2
    <2>3. CASE r \in stored /\ q = y
      BY <1>4, <1>5, <1>11, <1>12, <2>3
    <2> QED BY <1>3, <1>12, <2>1, <2>2, <2>3
  <1>13. CopyInv'
    <2>1. \A r, q \in stored' :
             r.id = q.id /\ r # q /\ r.id # 0 =>
                 r.run = NoRun /\ \A i \in 1 .. Len(topic) : topic[i].id = r.id => r.seq # topic[i].seq
      BY <1>12
    <2>2. UNCHANGED <<topic>>
      BY <1>3
    <2> QED BY <1>10, <2>1, <2>2 DEF CopyInv, Kept, SameNumber
  <1>14. ASSUME NEW i \in 1 .. Len(topic), Seen(i)'
         PROVE  Kept(topic[i])' \/ \E j \in 1 .. i - 1, r \in stored : Twin(i, j, r)
    <2>1. CASE i = k
      BY <1>3, <1>4, <2>1 DEF Kept
    <2>2. CASE i # k
      <3>1. Seen(i)
        <4>1. CASE i <= k
          BY <1>1, <1>3, <2>2, <4>1 DEF Seen
        <4>2. CASE k < i
          <5>1. PICK j \in i .. Len(topic) : Kept(topic[j])'
            BY <1>3, <1>14, <4>2 DEF Seen, Kept
          <5>2. j \in 1 .. Len(topic) /\ j # k
            BY <1>3, <4>2
          <5> QED BY <1>8, <5>1, <5>2 DEF Seen
        <4> QED BY <1>3, <4>1, <4>2
      <3>2. Kept(topic[i]) => Kept(topic[i])'
        BY <1>3 DEF Kept
      <3> QED BY <3>1, <3>2 DEF HostInv, LostInv
    <2> QED BY <2>1, <2>2
  <1>15. LostInv'
    BY <1>3, <1>14 DEF LostInv, Twin, Kept
  <1> QED BY <1>7, <1>13, <1>15 DEF HostInv

StreamIInv == StreamTypeOK /\ AgentInv /\ HostInv

(* It holds at the start, and every step keeps it. *)
LEMMA StreamInit ==
    ASSUME EventInit
    PROVE  StreamIInv
  <1>1. StreamTypeOK
    BY StreamTypeInit
  <1>2. /\ topic = <<>> /\ taken = [t \in Threads |-> Nothing] /\ seq = 0 /\ offset = 0
        /\ stored = {[id |-> 0, seq |-> n, run |-> NoRun, at |-> 0] : n \in Island}
    BY DEF EventInit
  <1>3. Len(topic) = 0 /\ 1 .. Len(topic) = {} /\ \A t \in Threads : taken[t] = Nothing
    BY <1>2
  <1>4. Numbered = {}
    BY <1>1, <1>3, NumberedIs
  <1>5. SavedInv /\ NumbersAdvance
    BY <1>4 DEF SavedInv, NumbersAdvance
  <1>6. IdInv /\ SecondInv
    BY <1>2, <1>3, NothingIsEvent DEF IdInv, SecondInv, Free
  <1>7. OriginInv /\ CopyInv /\ LostInv
    <2>1. \A r \in stored : r.id = 0 /\ r.at = 0
      BY <1>2
    <2> QED BY <1>3, <2>1 DEF OriginInv, CopyInv, LostInv
  <1> QED BY <1>1, <1>5, <1>6, <1>7 DEF StreamIInv, AgentInv, HostInv

(* One case for each kind of step. *)
LEMMA StreamNext ==
    ASSUME StreamIInv, [EventNext]_eventVars
    PROVE  StreamIInv'
  <1>1. StreamTypeOK /\ AgentInv /\ HostInv
    BY DEF StreamIInv
  <1>2. StreamTypeOK' /\ StreamStep
    BY <1>1, NextIsStep
  <1>3. store.counter \in Nat /\ store.counter <= store.counter
    BY <1>1, Fields DEF StreamTypeOK
  <1>4. CASE Quiet
    <2>1. AgentInv'
      BY <1>1, <1>2, <1>4, SameNumbers DEF Quiet
    <2>2. HostInv'
      BY <1>1, <1>4, HostIdles DEF Quiet
    <2> QED BY <1>2, <2>1, <2>2 DEF StreamIInv
  <1>5. ASSUME NEW t \in Threads, NEW n \in Event, Taking(t, n) PROVE StreamIInv'
    <2>1. AgentInv'
      BY <1>1, <1>2, <1>5, TakesNumber
    <2>2. HostInv'
      BY <1>1, <1>5, HostIdles DEF Taking
    <2> QED BY <1>2, <2>1, <2>2 DEF StreamIInv
  <1>6. ASSUME NEW t \in Threads, NEW m \in Event, Sending(t, m) PROVE StreamIInv'
    <2>1. AgentInv'
      BY <1>1, <1>2, <1>6, SendsNumber
    <2>2. HostInv'
      BY <1>1, <1>6, <2>1, HostHears
    <2> QED BY <1>2, <2>1, <2>2 DEF StreamIInv
  <1>7. ASSUME NEW t \in Threads, Failing(t) PROVE StreamIInv'
    <2>1. AgentInv'
      BY <1>1, <1>2, <1>7, DropsNumber
    <2>2. HostInv'
      BY <1>1, <1>7, HostIdles DEF Failing
    <2> QED BY <1>2, <2>1, <2>2 DEF StreamIInv
  <1>8. CASE Restarting \/ Ticking
    <2>1. AgentInv'
      BY <1>1, <1>2, <1>8, NewSecond DEF Restarting, Ticking
    <2>2. HostInv'
      BY <1>1, <1>8, HostIdles DEF Restarting, Ticking
    <2> QED BY <1>2, <2>1, <2>2 DEF StreamIInv
  <1>9. CASE Reading
    <2>1. AgentInv'
      BY <1>1, <1>2, <1>3, <1>9, SameNumbers DEF Reading
    <2>2. HostInv'
      BY <1>1, <1>9, HostSkips, HostStores
    <2> QED BY <1>2, <2>1, <2>2 DEF StreamIInv
  <1>10. CASE Rereading
    <2>1. AgentInv'
      BY <1>1, <1>2, <1>3, <1>10, SameNumbers DEF Rereading
    <2>2. HostInv'
      BY <1>1, <1>10, HostRereads
    <2> QED BY <1>2, <2>1, <2>2 DEF StreamIInv
  <1> QED BY <1>2, <1>4, <1>5, <1>6, <1>7, <1>8, <1>9, <1>10 DEF StreamStep

(* The invariant holds in every behaviour. *)
LEMMA StreamHolds == EventSpec => []StreamIInv
  BY StreamInit, StreamNext, PTL DEF EventSpec

(* Whatever the table, the topic and the collection leave to a restart, a number that reached
   the watermark is below every number taken later: the counter is seeded from the watermark
   before anything else (agent_service.py; "LIVE-1"). *)
THEOREM NumbersOnlyAdvance == EventSpec => []NumbersAdvance
  <1>1. StreamIInv => NumbersAdvance
    BY DEF StreamIInv, AgentInv
  <1> QED BY <1>1, StreamHolds, PTL

(* What is read and not kept was read after its twin. *)
LEMMA LostOnly ==
    ASSUME StreamIInv
    PROVE  LostOnlyToTwins
  <1>1. /\ offset \in 0 .. Len(topic) /\ Len(topic) \in Nat
        /\ \A i, j \in 1 .. Len(topic) : topic[i].id = topic[j].id => i = j
    <2>1. offset \in 0 .. Len(topic) /\ Len(topic) \in Nat
      BY Fields DEF StreamIInv, StreamTypeOK
    <2> QED BY <2>1 DEF StreamIInv, AgentInv, IdInv
  <1> SUFFICES ASSUME NEW i \in 1 .. offset, ~Kept(topic[i])
               PROVE  \E r \in stored :
                         /\ r.at = topic[i].at /\ r.id # topic[i].id
                         /\ \/ topic[i].run # NoRun /\ r.run = topic[i].run
                            \/ r.seq = topic[i].seq /\ Rekeyed(r)
    BY DEF LostOnlyToTwins, Read
  <1>2. i \in 1 .. Len(topic) /\ Seen(i)
    BY <1>1 DEF Seen
  <1>3. PICK j \in 1 .. i - 1, r \in stored : Twin(i, j, r)
    BY <1>2 DEF StreamIInv, HostInv, LostInv
  <1>4. j \in 1 .. offset /\ j \in 1 .. Len(topic) /\ j # i
    BY <1>1
  <1>5. topic[j].id # topic[i].id /\ topic[j] \in Read
    BY <1>1, <1>2, <1>4 DEF Read
  <1> QED BY <1>3, <1>5 DEF Twin, Rekeyed

(* An event the host has read is kept, or lost to a row of its second: of its run, or moved
   off its number; a counter that goes back loses nothing (KafkaEventConsumer, "LIVE-1"). *)
THEOREM LosesOnlyToTwins == EventSpec => []LostOnlyToTwins
  BY LostOnly, StreamHolds, PTL

(* A record that is delivered again is projected again only where its number was not free, and
   never for the event of a run. *)
THEOREM ProjectsOnce == EventSpec => []StoredOnce
  <1>1. ASSUME StreamIInv PROVE StoredOnce
    <2> SUFFICES ASSUME NEW r \in stored, NEW q \in stored, r.id = q.id, r # q, r.id # 0
                 PROVE  r.run = NoRun /\ \A m \in Read : m.id = r.id => r.seq # m.seq
      BY DEF StoredOnce
    <2>1. r.run = NoRun /\ \A i \in 1 .. Len(topic) : topic[i].id = r.id => r.seq # topic[i].seq
      BY <1>1 DEF StreamIInv, HostInv, CopyInv
    <2>2. \A m \in Read : \E i \in 1 .. Len(topic) : m = topic[i]
      BY <1>1, Fields DEF StreamIInv, StreamTypeOK, Read
    <2> QED BY <2>1, <2>2
  <1> QED BY <1>1, StreamHolds, PTL

-------------------------------------------------------------------------------
(***************************************************************************)
(* AiTimeline, for any number of retries, losses, repetitions and crashes. *)
(* That the timeline is closed and that a task runs by its own steps are   *)
(* inductive.  The third needs to know why an attempt                      *)
(* has no second publication: until the task succeeds every publication is *)
(* the agent's fifth step, a repetition of which is recognised by its      *)
(* number; the command that succeeds is the only live one, and of its      *)
(* attempt; and while it is live nothing has closed that step.             *)
(***************************************************************************)
IsRecord(r) == r = Record(r.attempt, r.sequence, r.step, r.status)
Publishes(r, a) == r.attempt = a /\ r.step = "RESULT_PUBLISH"

(* What closing leaves alone: the shape of records, their attempts, and which publish. *)
Shaped(R, n) == \A r \in R : IsRecord(r) /\ r.attempt \in Nat /\ r.attempt <= n
OnePublication(R) == \A r, q \in R : \A a : Publishes(r, a) /\ Publishes(q, a) => r = q
PublishedFifth(R) == \A r \in R : r.step = "RESULT_PUBLISH" => r.sequence = 5

ClosedRecord(r, status) == IF Unfinished(r) THEN [r EXCEPT !.status = status] ELSE r

(* A closed record is the record with another status. *)
LEMMA ClosedRecordIs ==
    ASSUME NEW r, IsRecord(r), NEW status
    PROVE  ClosedRecord(r, status) =
               Record(r.attempt, r.sequence, r.step, IF Unfinished(r) THEN status ELSE r.status)
  BY DEF IsRecord, Record, ClosedRecord

(* Where the records come from that closing leaves. *)
LEMMA ClosedFrom ==
    ASSUME NEW R, NEW status, NEW x \in Closed(R, status)
    PROVE  \E r \in R : x = ClosedRecord(r, status)
  BY DEF Closed, ClosedRecord

(* The same of closing the records of one attempt up to a step. *)
LEMMA ClosedUpToFrom ==
    ASSUME NEW R, NEW a, NEW n, NEW status, NEW x \in ClosedUpTo(R, a, n, status)
    PROVE  \E r \in R : x = IF r.attempt = a /\ r.sequence <= n THEN ClosedRecord(r, status) ELSE r
  BY ClosedFrom DEF ClosedUpTo

(* Closing all records of a set, or some of them, keeps what is known of the set. *)
LEMMA ClosedKeeps ==
    ASSUME NEW R, NEW n, Shaped(R, n), NEW status
    PROVE  /\ Shaped(Closed(R, status), n)
           /\ OnePublication(R) => OnePublication(Closed(R, status))
           /\ PublishedFifth(R) => PublishedFifth(Closed(R, status))
  <1>1. \A x \in Closed(R, status) : \E r \in R :
            /\ x = ClosedRecord(r, status)
            /\ IsRecord(x) /\ x.attempt = r.attempt /\ x.sequence = r.sequence /\ x.step = r.step
    BY ClosedFrom, ClosedRecordIs DEF Shaped, Record, IsRecord
  <1>2. Shaped(Closed(R, status), n)
    BY <1>1 DEF Shaped
  <1>3. OnePublication(R) => OnePublication(Closed(R, status))
    BY <1>1 DEF OnePublication, Publishes
  <1>4. PublishedFifth(R) => PublishedFifth(Closed(R, status))
    BY <1>1 DEF PublishedFifth
  <1> QED BY <1>2, <1>3, <1>4

(* The same of closing some of them: the others stay as they are. *)
LEMMA ClosedUpToKeeps ==
    ASSUME NEW R, NEW n, Shaped(R, n), NEW a, NEW k, NEW status
    PROVE  /\ Shaped(ClosedUpTo(R, a, k, status), n)
           /\ OnePublication(R) => OnePublication(ClosedUpTo(R, a, k, status))
           /\ PublishedFifth(R) => PublishedFifth(ClosedUpTo(R, a, k, status))
  <1> DEFINE C(r) == IF r.attempt = a /\ r.sequence <= k THEN ClosedRecord(r, status) ELSE r
  <1>1. \A x \in ClosedUpTo(R, a, k, status) : \E r \in R : x = C(r)
    BY ClosedUpToFrom
  <1>2. \A r \in R : /\ IsRecord(C(r)) /\ C(r).attempt = r.attempt
                     /\ C(r).sequence = r.sequence /\ C(r).step = r.step
    BY ClosedRecordIs DEF Shaped, Record, IsRecord
  <1> HIDE DEF C
  <1>3. Shaped(ClosedUpTo(R, a, k, status), n)
    BY <1>1, <1>2 DEF Shaped
  <1>4. OnePublication(R) => OnePublication(ClosedUpTo(R, a, k, status))
    BY <1>1, <1>2 DEF OnePublication, Publishes
  <1>5. PublishedFifth(R) => PublishedFifth(ClosedUpTo(R, a, k, status))
    BY <1>1, <1>2 DEF PublishedFifth
  <1> QED BY <1>3, <1>4, <1>5

(* Closing everything leaves nothing open. *)
LEMMA ClosedIsClosed ==
    ASSUME NEW R, NEW n, Shaped(R, n), NEW status \in {"SUCCEEDED", "FAILED", "SKIPPED"},
           NEW x \in Closed(R, status)
    PROVE  ~Unfinished(x)
  <1>1. PICK r \in R : x = ClosedRecord(r, status)
    BY ClosedFrom
  <1>2. x.status = IF Unfinished(r) THEN status ELSE r.status
    BY <1>1, ClosedRecordIs DEF Shaped, Record
  <1> QED BY <1>2 DEF Unfinished

-------------------------------------------------------------------------------
(* The invariant. *)

Statuses == {"PENDING", "DISPATCHING", "RUNNING", "RETRYING"} \cup Terminal

TaskShape ==
    /\ task = [status |-> task.status, retries |-> task.retries,
               retryable |-> task.retryable, stale |-> task.stale]
    /\ task.status \in Statuses /\ task.retries \in Nat

StepEvents == [attempt : Nat, step : 1 .. 5]

Shapes ==
    /\ TaskShape
    /\ command = [a \in Attempts |-> command[a]]
    /\ job \in [attempt : Nat, step : 0 .. 5]
    /\ events \in Seq(StepEvents)

(* Only the command of the present attempt is waited for, and only while the task is open. *)
LiveIsCurrent == \A a \in Attempts : Live(a) => a = Attempt /\ task.status \notin Terminal

(* Of an attempt whose command is waited for, the publication that was reported is running. *)
PublicationRuns ==
    \A a \in Attempts : Live(a) => \A r \in records : Publishes(r, a) => r.status = "RUNNING"

TimelineInv ==
    /\ Shapes
    /\ Shaped(records, Attempt) /\ OnePublication(records)
    /\ task.status # "SUCCEEDED" => PublishedFifth(records)
    /\ LiveIsCurrent /\ PublicationRuns
    /\ EndedIsClosed /\ RunsByOwnSteps /\ PublishedOnce

(* Attempts are numbers. *)
LEMMA AttemptsAreNumbers == Attempts \subseteq Nat
  BY AiTimelineAssumption DEF Attempts

(* A new task has a placeholder, which publishes nothing. *)
LEMMA TimelineInvInit == TimelineInit => TimelineInv
  <1> SUFFICES ASSUME TimelineInit PROVE TimelineInv
    OBVIOUS
  <1>1. Shapes
    <2>1. command = [a \in Attempts |-> command[a]]
      BY DEF TimelineInit
    <2>2. TaskShape
      <3>1. task = [status |-> "PENDING", retries |-> 0, retryable |-> FALSE, stale |-> FALSE]
        BY DEF TimelineInit
      <3> QED BY <3>1 DEF TaskShape, Statuses
    <2>3. job \in [attempt : Nat, step : 0 .. 5] /\ events \in Seq(StepEvents)
      <3>1. job = [attempt |-> 0, step |-> 0] /\ events = << >>
        BY DEF TimelineInit, NoJob
      <3> QED BY <3>1
    <2> QED BY <2>1, <2>2, <2>3 DEF Shapes
  <1>2. Attempt = 1 /\ task.status = "PENDING" /\ records = {Record(1, 0, "INPUT_VALIDATE", "PENDING")}
    BY DEF TimelineInit, Attempt, Placeholder
  <1>3. Shaped(records, Attempt) /\ OnePublication(records) /\ PublishedFifth(records)
    BY <1>2 DEF Shaped, IsRecord, Record, OnePublication, PublishedFifth
  <1>4. LiveIsCurrent /\ PublicationRuns
    BY <1>2 DEF TimelineInit, LiveIsCurrent, PublicationRuns, Publishes, Record, Live, Terminal
  <1>5. EndedIsClosed /\ RunsByOwnSteps /\ PublishedOnce
    BY <1>2 DEF EndedIsClosed, RunsByOwnSteps, PublishedOnce, Terminal
  <1> QED BY <1>1, <1>3, <1>4, <1>5 DEF TimelineInv

(* What the agent does is no matter of the host's until it is read. *)
LEMMA HostUnchanged ==
    ASSUME TimelineInv, UNCHANGED hostVars, Shapes'
    PROVE  TimelineInv'
  BY DEF TimelineInv, hostVars, Shaped, OnePublication, PublishedFifth, LiveIsCurrent, PublicationRuns, Attempt,
         EndedIsClosed, RunsByOwnSteps, PublishedOnce, Live

(* The agent's own steps leave the host alone and report steps that exist. *)
LEMMA AgentKeeps ==
    ASSUME TimelineInv,
           \/ \E a \in Attempts : Begin(a)
           \/ \E b \in BOOLEAN : Report(b) \/ Crash(b)
           \/ \E verdict \in Failures \cup {"ok"} : Execute(verdict)
           \/ PublishResult
    PROVE  TimelineInv'
  <1>1. UNCHANGED hostVars
    BY DEF Begin, Report, Crash, Execute, PublishResult
  <1>2. job' \in [attempt : Nat, step : 0 .. 5]
    BY AttemptsAreNumbers DEF TimelineInv, Shapes, Begin, Report, Crash, Execute, PublishResult, NoJob, Step
  <1>3. events' \in Seq(StepEvents)
    <2>1. CASE events' = Append(events, job') /\ job'.step \in 1 .. 5
      <3>1. job' \in StepEvents
        BY <1>2, <2>1 DEF StepEvents
      <3> QED BY <2>1, <3>1 DEF TimelineInv, Shapes, TaskShape
    <2>2. CASE events' = events
      BY <2>2 DEF TimelineInv, Shapes, TaskShape
    <2>3. \/ events' = Append(events, job') /\ job'.step \in 1 .. 5
          \/ events' = events
      BY DEF TimelineInv, Shapes, Begin, Report, Crash, Execute, PublishResult, Step
    <2> QED BY <2>1, <2>2, <2>3
  <1>4. Shapes'
    BY <1>1, <1>2, <1>3 DEF TimelineInv, Shapes, TaskShape, hostVars
  <1> QED BY <1>1, <1>4, HostUnchanged

-------------------------------------------------------------------------------
(* What the host does, one lemma an action. *)

(* The parts of the invariant that are not about the records. *)
LEMMA CommandsAndTask ==
    ASSUME TimelineInv
    PROVE  /\ Attempt \in Nat /\ task.status \in Statuses /\ task.retries \in Nat
           /\ \A a \in Attempts : Live(a) => a = Attempt /\ task.status \notin Terminal
  BY DEF TimelineInv, Shapes, TaskShape, LiveIsCurrent, Attempt

(* Sending a command makes no difference to the timeline. *)
LEMMA DispatchKeeps ==
    ASSUME TimelineInv, NEW a \in Attempts, NEW commits \in BOOLEAN, Dispatch(a, commits)
    PROVE  TimelineInv'
  <1>1. CASE ~commits
    BY <1>1, HostUnchanged DEF Dispatch, hostVars, agentVars, TimelineInv, Shapes, TaskShape
  <1>2. CASE commits
    <2>1. /\ command' = [command EXCEPT ![a] = "published"]
          /\ task' = [task EXCEPT !.status = IF @ = "PENDING" THEN "DISPATCHING" ELSE @]
          /\ UNCHANGED <<records, job, events>> /\ Live(a)
      BY <1>2 DEF Dispatch, agentVars, Live
    <2>2. /\ task'.retries = task.retries /\ task'.stale = task.stale
          /\ task'.status = (IF task.status = "PENDING" THEN "DISPATCHING" ELSE task.status)
          /\ TaskShape'
      BY <2>1 DEF TimelineInv, Shapes, TaskShape, Statuses
    <2>3. Shapes'
      BY <2>1, <2>2 DEF TimelineInv, Shapes, TaskShape
    <2>4. \A b \in Attempts : Live(b)' => Live(b)
      BY <2>1 DEF Live, TimelineInv, Shapes, TaskShape
    <2>5. Attempt' = Attempt
      BY <2>2 DEF Attempt
    <2>6. LiveIsCurrent' /\ PublicationRuns'
      BY <2>1, <2>2, <2>4, <2>5 DEF TimelineInv, LiveIsCurrent, PublicationRuns, Terminal
    <2>7. EndedIsClosed' /\ RunsByOwnSteps' /\ PublishedOnce'
      BY <2>1, <2>2, <2>5 DEF TimelineInv, EndedIsClosed, RunsByOwnSteps, PublishedOnce, Terminal
    <2>8. Shaped(records, Attempt)' /\ OnePublication(records)'
          /\ (task.status # "SUCCEEDED" => PublishedFifth(records))'
      BY <2>1, <2>2, <2>5 DEF TimelineInv
    <2> QED BY <2>3, <2>6, <2>7, <2>8 DEF TimelineInv
  <1> QED BY <1>1, <1>2

(* A command that is sent again changes what the agent will read, and nothing else. *)
LEMMA RepublishKeeps ==
    ASSUME TimelineInv, NEW a \in Attempts, Republish(a)
    PROVE  TimelineInv'
  <1>1. UNCHANGED <<task, command, records, job, events>>
    BY DEF Republish, hostVars, agentVars
  <1>2. UNCHANGED hostVars /\ Shapes'
    BY <1>1 DEF hostVars, TimelineInv, Shapes, TaskShape
  <1> QED BY <1>2, HostUnchanged

(* A step that counts is of the open task's attempt, and new. *)
LEMMA ReportedKeeps ==
    ASSUME TimelineInv, NEW m \in StepEvents, StepCounts(m),
           ~\E r \in records : r.attempt = m.attempt /\ r.sequence = m.step
    PROVE  /\ Shaped(ReportedRecords(m), Attempt)
           /\ OnePublication(ReportedRecords(m)) /\ PublishedFifth(ReportedRecords(m))
           /\ \A r \in ReportedRecords(m) : Publishes(r, Attempt) =>
                  (r.status = "RUNNING" \/ r \in records)
           /\ \E r \in ReportedRecords(m) : r.attempt = Attempt /\ r.sequence > 0
  <1> DEFINE C == ClosedUpTo(records, m.attempt, 0, "SUCCEEDED")
             x == Record(m.attempt, m.step, StepOf(m.step), StatusOf(m.step))
  <1>1. m.attempt = Attempt /\ task.status \notin Terminal /\ Attempt \in Nat
    BY CommandsAndTask DEF StepCounts
  <1>2. Shaped(records, Attempt) /\ OnePublication(records) /\ PublishedFifth(records)
    BY <1>1 DEF TimelineInv, Terminal
  <1>3. Shaped(C, Attempt) /\ OnePublication(C) /\ PublishedFifth(C)
    BY <1>2, ClosedUpToKeeps
  <1>4. /\ IsRecord(x) /\ x.attempt = Attempt /\ x.sequence = m.step
        /\ x.step = "RESULT_PUBLISH" => m.step = 5 /\ x.status = "RUNNING"
    BY <1>1 DEF StepEvents, IsRecord, Record, StepOf, StatusOf
  <1>5. \A r \in C : r.sequence = 5 => r \in records
    <2>1. TAKE r \in C
    <2>2. PICK q \in records :
              r = IF q.attempt = m.attempt /\ q.sequence <= 0 THEN ClosedRecord(q, "SUCCEEDED") ELSE q
      BY ClosedUpToFrom
    <2>3. r.sequence = q.sequence
      BY <2>2, <1>2, ClosedRecordIs DEF Shaped, Record
    <2> QED BY <2>2, <2>3
  <1>6. \A r \in C : r.step = "RESULT_PUBLISH" => r \in records /\ r.sequence = 5
    BY <1>3, <1>5 DEF PublishedFifth
  <1>7. ReportedRecords(m) = C \cup {x}
    BY DEF ReportedRecords
  <1> HIDE DEF C, x
  <1>8. Shaped(C \cup {x}, Attempt)
    BY <1>1, <1>3, <1>4 DEF Shaped
  <1>9. OnePublication(C \cup {x})
    <2>1. x.step = "RESULT_PUBLISH" => \A r \in C : ~Publishes(r, x.attempt)
      BY <1>1, <1>4, <1>6 DEF Publishes
    <2> QED BY <1>3, <2>1 DEF OnePublication, Publishes
  <1>10. PublishedFifth(C \cup {x})
    BY <1>3, <1>4 DEF PublishedFifth
  <1>11. \A r \in C \cup {x} : Publishes(r, Attempt) => (r.status = "RUNNING" \/ r \in records)
    BY <1>4, <1>6 DEF Publishes
  <1>12. \E r \in C \cup {x} : r.attempt = Attempt /\ r.sequence > 0
    BY <1>4 DEF StepEvents
  <1> QED BY <1>7, <1>8, <1>9, <1>10, <1>11, <1>12

(* What a queue gives and leaves. *)
LEMMA HeadAndTail ==
    ASSUME NEW S, NEW s \in Seq(S), s # << >>
    PROVE  Head(s) \in S /\ Tail(s) \in Seq(S)
  OBVIOUS

(* A step that is read changes the timeline only when it counts. *)
LEMMA ApplyStepKeeps ==
    ASSUME TimelineInv, NEW again \in BOOLEAN, ApplyStep(again)
    PROVE  TimelineInv'
  <1> DEFINE m == Head(events)
             known == \E r \in records : r.attempt = m.attempt /\ r.sequence = m.step
  <1>1. m \in StepEvents /\ events' \in Seq(StepEvents)
    <2>1. events # << >> /\ events \in Seq(StepEvents)
      BY DEF ApplyStep, TimelineInv, Shapes, TaskShape
    <2>2. events' = events \/ events' = Tail(events)
      BY DEF ApplyStep
    <2>3. m \in StepEvents /\ Tail(events) \in Seq(StepEvents)
      BY <2>1, HeadAndTail
    <2>4. events' \in Seq(StepEvents)
      BY <2>1, <2>2, <2>3
    <2> QED BY <2>3, <2>4
  <1>2. UNCHANGED <<command, job>>
    BY DEF ApplyStep, agentVars
  <1>3. CASE ~(StepCounts(m) /\ ~known)
    <2>1. UNCHANGED hostVars /\ Shapes'
      BY <1>1, <1>2, <1>3 DEF ApplyStep, hostVars, TimelineInv, Shapes, TaskShape
    <2> QED BY <2>1, HostUnchanged
  <1>4. CASE StepCounts(m) /\ ~known
    <2>1. records' = ReportedRecords(m) /\ task' = [task EXCEPT !.status = "RUNNING"]
      BY <1>4 DEF ApplyStep
    <2>2. /\ task'.retries = task.retries /\ task'.status = "RUNNING"
          /\ TaskShape'
      BY <2>1 DEF TimelineInv, Shapes, TaskShape, Statuses
    <2>3. Attempt' = Attempt /\ task.status \notin Terminal
      BY <2>2, <1>4 DEF Attempt, StepCounts
    <2>4. Shapes'
      BY <1>1, <1>2, <2>2 DEF TimelineInv, Shapes, TaskShape
    <2>5. /\ Shaped(ReportedRecords(m), Attempt)
          /\ OnePublication(ReportedRecords(m)) /\ PublishedFifth(ReportedRecords(m))
          /\ \A r \in ReportedRecords(m) : Publishes(r, Attempt) =>
                 (r.status = "RUNNING" \/ r \in records)
          /\ \E r \in ReportedRecords(m) : r.attempt = Attempt /\ r.sequence > 0
      BY <1>1, <1>4, ReportedKeeps
    <2>6. Shaped(records, Attempt)' /\ OnePublication(records)' /\ PublishedFifth(records)'
      BY <2>1, <2>3, <2>5
    <2>7. LiveIsCurrent'
      BY <1>2, <2>2, <2>3, CommandsAndTask DEF LiveIsCurrent, Live, Terminal
    <2>8. PublicationRuns'
      BY <1>2, <2>1, <2>5, CommandsAndTask DEF TimelineInv, PublicationRuns, Live
    <2>9. EndedIsClosed' /\ RunsByOwnSteps' /\ PublishedOnce'
      BY <2>1, <2>2, <2>3, <2>5 DEF EndedIsClosed, RunsByOwnSteps, PublishedOnce, Terminal
    <2> QED BY <2>4, <2>6, <2>7, <2>8, <2>9 DEF TimelineInv
  <1> QED BY <1>3, <1>4

(* The records of a success are closed, and hold its one publication, over. *)
LEMMA ReconciledIs ==
    ASSUME TimelineInv, NEW a \in Attempts, Live(a)
    PROVE  /\ Shaped(Reconciled(a), Attempt) /\ OnePublication(Reconciled(a))
           /\ \A r \in Reconciled(a) : ~Unfinished(r)
           /\ \E r \in Reconciled(a) : Publishes(r, a)
           /\ \A r \in Reconciled(a) : Publishes(r, a) => r.status = "SUCCEEDED"
  <1> DEFINE C == ClosedAttempt(records, a, "SUCCEEDED")
             D == Closed(C, "SKIPPED")
             x == Record(a, NextSequence(D, a), "RESULT_PUBLISH", "SUCCEEDED")
  <1>1. a = Attempt /\ Attempt \in Nat /\ task.status \notin Terminal
    BY CommandsAndTask
  <1>2. Shaped(records, Attempt) /\ OnePublication(records) /\ PublishedFifth(records)
    BY <1>1 DEF TimelineInv, Terminal
  <1>3. Shaped(C, Attempt) /\ OnePublication(C)
    BY <1>2, ClosedUpToKeeps DEF ClosedAttempt
  <1>4. \A r \in C : Publishes(r, a) => r.status = "SUCCEEDED"
    <2>1. TAKE r \in C
    <2>2. PICK q \in records :
              r = IF q.attempt = a /\ q.sequence <= 5 THEN ClosedRecord(q, "SUCCEEDED") ELSE q
      BY ClosedUpToFrom DEF ClosedAttempt
    <2>3. /\ IsRecord(q)
          /\ ClosedRecord(q, "SUCCEEDED") =
                 Record(q.attempt, q.sequence, q.step, IF Unfinished(q) THEN "SUCCEEDED" ELSE q.status)
      BY <1>2, ClosedRecordIs DEF Shaped
    <2>4. r.attempt = q.attempt /\ r.step = q.step
      BY <2>2, <2>3 DEF Record
    <2>5. Publishes(r, a) => q.sequence = 5 /\ q.status = "RUNNING" /\ Publishes(q, a)
      BY <1>2, <2>4 DEF Publishes, PublishedFifth, TimelineInv, PublicationRuns
    <2> QED BY <2>2, <2>3, <2>5 DEF Publishes, Record, Unfinished
  <1>5. Shaped(D, Attempt) /\ OnePublication(D)
    BY <1>3, ClosedKeeps
  <1>6. \A r \in D : ~Unfinished(r)
    BY <1>3, ClosedIsClosed
  <1>7. \A r \in D : Publishes(r, a) => r.status = "SUCCEEDED"
    <2>1. TAKE r \in D
    <2>2. PICK q \in C : r = ClosedRecord(q, "SKIPPED")
      BY ClosedFrom
    <2>3. /\ IsRecord(q)
          /\ r = Record(q.attempt, q.sequence, q.step, IF Unfinished(q) THEN "SKIPPED" ELSE q.status)
      BY <1>3, <2>2, ClosedRecordIs DEF Shaped
    <2> QED BY <1>4, <2>3 DEF Publishes, Record, Unfinished
  <1>8. Reconciled(a) = IF \E r \in D : Publishes(r, a) THEN D ELSE D \cup {x}
    BY DEF Reconciled, WithPublication, Publishes
  <1>9. IsRecord(x) /\ x.attempt = Attempt /\ Publishes(x, a) /\ x.status = "SUCCEEDED" /\ ~Unfinished(x)
    BY <1>1 DEF IsRecord, Record, Publishes, Unfinished
  <1> HIDE DEF C, D, x
  <1>10. CASE \E r \in D : Publishes(r, a)
    BY <1>5, <1>6, <1>7, <1>8, <1>10
  <1>11. CASE ~\E r \in D : Publishes(r, a)
    <2>1. Shaped(D \cup {x}, Attempt)
      BY <1>1, <1>5, <1>9 DEF Shaped
    <2>2. OnePublication(D \cup {x})
      BY <1>5, <1>9, <1>11 DEF OnePublication, Publishes
    <2> QED BY <2>1, <2>2, <1>6, <1>8, <1>9, <1>11
  <1> QED BY <1>10, <1>11

(* A success ends the one live command: nothing touches the timeline after it. *)
LEMMA SucceedKeeps ==
    ASSUME TimelineInv, NEW a \in Attempts, Succeed(a)
    PROVE  TimelineInv'
  <1>1. /\ command' = [command EXCEPT ![a] = "completed"]
        /\ task' = [task EXCEPT !.status = "SUCCEEDED", !.retryable = FALSE]
        /\ records' = Reconciled(a) /\ UNCHANGED <<job, events>> /\ Live(a)
    BY DEF Succeed, agentVars
  <1>2. /\ task'.retries = task.retries /\ task'.status = "SUCCEEDED"
        /\ TaskShape'
    BY <1>1 DEF TimelineInv, Shapes, TaskShape, Statuses, Terminal
  <1>3. Attempt' = Attempt /\ a = Attempt
    BY <1>1, <1>2, CommandsAndTask DEF Attempt
  <1>4. Shapes'
    BY <1>1, <1>2 DEF TimelineInv, Shapes, TaskShape
  <1>5. /\ Shaped(Reconciled(a), Attempt) /\ OnePublication(Reconciled(a))
        /\ \A r \in Reconciled(a) : ~Unfinished(r)
        /\ \E r \in Reconciled(a) : Publishes(r, a)
        /\ \A r \in Reconciled(a) : Publishes(r, a) => r.status = "SUCCEEDED"
    BY <1>1, ReconciledIs
  <1>6. \A b \in Attempts : ~Live(b)'
    BY <1>1, CommandsAndTask DEF Live, TimelineInv, Shapes, TaskShape
  <1>7. Shaped(records, Attempt)' /\ OnePublication(records)'
    BY <1>1, <1>3, <1>5
  <1>8. LiveIsCurrent' /\ PublicationRuns'
    BY <1>6 DEF LiveIsCurrent, PublicationRuns
  <1>9. EndedIsClosed' /\ RunsByOwnSteps'
    BY <1>1, <1>2, <1>5 DEF EndedIsClosed, RunsByOwnSteps
  <1>10. PublishedOnce'
    BY <1>1, <1>3, <1>5 DEF PublishedOnce, OnePublication, Publishes
  <1> QED BY <1>2, <1>4, <1>7, <1>8, <1>9, <1>10 DEF TimelineInv

(* The records of a failure are closed, and have no publication the task had not. *)
LEMMA FailedIs ==
    ASSUME TimelineInv, NEW a \in Attempts, Live(a)
    PROVE  /\ Shaped(FailedRecords(a), Attempt)
           /\ OnePublication(FailedRecords(a)) /\ PublishedFifth(FailedRecords(a))
           /\ \A r \in FailedRecords(a) : ~Unfinished(r)
  <1> DEFINE C == ClosedAttempt(records, a, "FAILED")
             x == Record(a, NextSequence(C, a), "INPUT_VALIDATE", "FAILED")
             F == IF C = records THEN records \cup {x} ELSE C
  <1>1. a = Attempt /\ Attempt \in Nat /\ task.status \notin Terminal
    BY CommandsAndTask
  <1>2. Shaped(records, Attempt) /\ OnePublication(records) /\ PublishedFifth(records)
    BY <1>1 DEF TimelineInv, Terminal
  <1>3. Shaped(C, Attempt) /\ OnePublication(C) /\ PublishedFifth(C)
    BY <1>2, ClosedUpToKeeps DEF ClosedAttempt
  <1>4. IsRecord(x) /\ x.attempt = Attempt /\ x.step # "RESULT_PUBLISH"
    BY <1>1 DEF IsRecord, Record
  <1>5. FailedRecords(a) = Closed(F, "SKIPPED")
    BY DEF FailedRecords
  <1> HIDE DEF C, x
  <1>6. Shaped(F, Attempt)
    BY <1>1, <1>2, <1>3, <1>4 DEF Shaped
  <1>7. OnePublication(F) /\ PublishedFifth(F)
    BY <1>2, <1>3, <1>4 DEF OnePublication, PublishedFifth, Publishes
  <1> HIDE DEF F
  <1> QED BY <1>5, <1>6, <1>7, ClosedKeeps, ClosedIsClosed

(* A new attempt begins with its placeholder, and no publication. *)
LEMMA NewAttempt ==
    ASSUME NEW R, NEW n \in Nat, Shaped(R, n), OnePublication(R), PublishedFifth(R)
    PROVE  /\ Shaped(R \cup {Placeholder(n + 1)}, n + 1)
           /\ OnePublication(R \cup {Placeholder(n + 1)}) /\ PublishedFifth(R \cup {Placeholder(n + 1)})
           /\ \A r \in R \cup {Placeholder(n + 1)} : ~Publishes(r, n + 1)
  <1>1. /\ IsRecord(Placeholder(n + 1)) /\ Placeholder(n + 1).attempt = n + 1
        /\ Placeholder(n + 1).step # "RESULT_PUBLISH"
    BY DEF Placeholder, Record, IsRecord
  <1>2. Shaped(R \cup {Placeholder(n + 1)}, n + 1)
    BY <1>1 DEF Shaped
  <1>3. OnePublication(R \cup {Placeholder(n + 1)}) /\ PublishedFifth(R \cup {Placeholder(n + 1)})
    BY <1>1 DEF OnePublication, PublishedFifth, Publishes
  <1>4. \A r \in R \cup {Placeholder(n + 1)} : ~Publishes(r, n + 1)
    BY <1>1 DEF Shaped, Publishes
  <1> QED BY <1>2, <1>3, <1>4

(* A failure ends the task, or begins the next attempt with the timeline closed behind it. *)
LEMMA FailsKeeps ==
    ASSUME TimelineInv, NEW a \in Attempts, Live(a), NEW retryable \in BOOLEAN, NEW automatic \in BOOLEAN,
           Fails(a, retryable, automatic), UNCHANGED <<job, events>>
    PROVE  TimelineInv'
  <1> DEFINE may == MayRetry(retryable)
             next == IF may /\ automatic THEN a + 1 ELSE a
  <1>1. /\ task' = [task EXCEPT !.status = IF next = a THEN "FAILED" ELSE "RETRYING",
                                !.retries = next - 1, !.retryable = may /\ next = a]
        /\ records' = IF next = a THEN FailedRecords(a) ELSE FailedRecords(a) \cup {Placeholder(next)}
        /\ command' = [b \in Attempts |-> IF b = a THEN "failed" ELSE IF b = next THEN "accepted" ELSE command[b]]
    BY DEF Fails
  <1>2. a = Attempt /\ Attempt \in Nat /\ a >= 1 /\ next \in {a, a + 1}
    BY CommandsAndTask, AiTimelineAssumption DEF Attempts
  <1>3. (may /\ next = a) \in BOOLEAN
    OBVIOUS
  <1> HIDE DEF may, next
  <1>4. /\ task'.retries = next - 1 /\ task'.stale = task.stale
        /\ task'.status = (IF next = a THEN "FAILED" ELSE "RETRYING")
        /\ TaskShape'
    <2>1. TaskShape /\ next - 1 \in Nat
      BY <1>2 DEF TimelineInv, Shapes
    <2>2. /\ task'.retries = next - 1 /\ task'.stale = task.stale
          /\ task'.status = (IF next = a THEN "FAILED" ELSE "RETRYING")
      BY <1>1, <2>1 DEF TaskShape
    <2>3. task' = [status |-> task'.status, retries |-> task'.retries,
                   retryable |-> task'.retryable, stale |-> task'.stale]
      BY <1>1, <2>1 DEF TaskShape
    <2> QED BY <2>1, <2>2, <2>3 DEF TaskShape, Statuses, Terminal
  <1>5. Attempt' = next
    BY <1>2, <1>4 DEF Attempt
  <1>6. Shapes'
    BY <1>1, <1>4 DEF TimelineInv, Shapes, TaskShape
  <1>7. /\ Shaped(FailedRecords(a), Attempt) /\ OnePublication(FailedRecords(a))
        /\ PublishedFifth(FailedRecords(a)) /\ \A r \in FailedRecords(a) : ~Unfinished(r)
    BY FailedIs
  <1>8. \A b \in Attempts : Live(b)' => b = next /\ next # a
    BY <1>1, CommandsAndTask DEF Live
  <1>9. Shaped(records, Attempt)' /\ OnePublication(records)' /\ PublishedFifth(records)'
    BY <1>1, <1>2, <1>5, <1>7, NewAttempt
  <1>10. PublicationRuns'
    <2>1. ASSUME next # a PROVE \A r \in records' : ~Publishes(r, next)
      <3>1. next = Attempt + 1 /\ records' = FailedRecords(a) \cup {Placeholder(Attempt + 1)}
        BY <1>1, <1>2, <2>1
      <3> QED BY <1>2, <1>7, <3>1, NewAttempt
    <2> QED BY <1>8, <2>1 DEF PublicationRuns
  <1>11. LiveIsCurrent'
    BY <1>4, <1>5, <1>8 DEF LiveIsCurrent, Terminal
  <1>12. EndedIsClosed' /\ RunsByOwnSteps' /\ PublishedOnce'
    BY <1>1, <1>4, <1>7 DEF EndedIsClosed, RunsByOwnSteps, PublishedOnce, Terminal
  <1> QED BY <1>6, <1>9, <1>10, <1>11, <1>12 DEF TimelineInv

(* Whether the agent, the comparison or the host's patience fails. *)
LEMMA FailureKeeps ==
    ASSUME TimelineInv, NEW a \in Attempts, Fail(a) \/ Refuse(a) \/ GiveUp(a)
    PROVE  TimelineInv'
  <1>1. UNCHANGED <<job, events>> /\ Live(a)
    BY DEF Fail, Refuse, GiveUp, agentVars
  <1>2. \E retryable \in BOOLEAN, automatic \in BOOLEAN : Fails(a, retryable, automatic)
    BY DEF Fail, Refuse, GiveUp
  <1> QED BY <1>1, <1>2, FailsKeeps

(* A retry by the buyer begins an attempt that no record is of. *)
LEMMA RetryKeeps ==
    ASSUME TimelineInv, Retry
    PROVE  TimelineInv'
  <1>1. /\ task' = [task EXCEPT !.status = "RETRYING", !.retries = @ + 1, !.retryable = FALSE]
        /\ command' = [command EXCEPT ![Attempt + 1] = "accepted"]
        /\ records' = records \cup {Placeholder(Attempt + 1)}
        /\ UNCHANGED <<job, events>> /\ task.status = "FAILED"
    BY DEF Retry, agentVars
  <1>2. /\ task'.retries = task.retries + 1 /\ task'.status = "RETRYING"
        /\ TaskShape'
    <2>1. TaskShape /\ task.retries + 1 \in Nat
      BY DEF TimelineInv, Shapes, TaskShape
    <2>2. task'.retries = task.retries + 1 /\ task'.status = "RETRYING"
      BY <1>1, <2>1 DEF TaskShape
    <2>3. task' = [status |-> task'.status, retries |-> task'.retries,
                   retryable |-> task'.retryable, stale |-> task'.stale]
      BY <1>1, <2>1 DEF TaskShape
    <2> QED BY <2>1, <2>2, <2>3 DEF TaskShape, Statuses
  <1>3. Attempt' = Attempt + 1 /\ Attempt \in Nat
    BY <1>2, CommandsAndTask DEF Attempt
  <1>4. Shapes'
    BY <1>1, <1>2 DEF TimelineInv, Shapes, TaskShape
  <1>5. Shaped(records, Attempt) /\ OnePublication(records) /\ PublishedFifth(records)
    BY <1>1 DEF TimelineInv
  <1>6. Shaped(records, Attempt)' /\ OnePublication(records)' /\ PublishedFifth(records)'
    BY <1>1, <1>3, <1>5, NewAttempt
  <1>7. \A b \in Attempts : Live(b)' => b = Attempt + 1
    BY <1>1, CommandsAndTask DEF Live, Terminal, TimelineInv, Shapes, TaskShape
  <1>8. PublicationRuns'
    <2>1. \A r \in records' : ~Publishes(r, Attempt + 1)
      BY <1>1, <1>3, <1>5, NewAttempt
    <2> QED BY <1>7, <2>1 DEF PublicationRuns
  <1>9. LiveIsCurrent' /\ EndedIsClosed' /\ RunsByOwnSteps' /\ PublishedOnce'
    BY <1>2, <1>3, <1>7 DEF LiveIsCurrent, EndedIsClosed, RunsByOwnSteps, PublishedOnce, Terminal
  <1> QED BY <1>4, <1>6, <1>8, <1>9 DEF TimelineInv

(* A cancelled or stale task waits for no command. *)
LEMMA WithdrawnIs ==
    ASSUME command' = Withdrawn
    PROVE  (\A a \in Attempts : ~Live(a)') /\ command' = [a \in Attempts |-> command'[a]]
  BY DEF Withdrawn, Live

(* A cancellation closes the timeline and withdraws the command. *)
LEMMA CancelKeeps ==
    ASSUME TimelineInv, Cancel
    PROVE  TimelineInv'
  <1>1. /\ task' = [task EXCEPT !.status = "CANCELLED", !.retryable = FALSE]
        /\ command' = Withdrawn /\ records' = Closed(records, "SKIPPED")
        /\ UNCHANGED <<job, events>> /\ task.status # "SUCCEEDED"
    BY DEF Cancel, ClosedTask, agentVars
  <1>2. /\ task'.retries = task.retries /\ task'.status = "CANCELLED"
        /\ TaskShape'
    BY <1>1 DEF TimelineInv, Shapes, TaskShape, Statuses, Terminal
  <1>3. Attempt' = Attempt
    BY <1>2 DEF Attempt
  <1>4. Shapes'
    BY <1>1, <1>2, WithdrawnIs DEF TimelineInv, Shapes, TaskShape
  <1>5. Shaped(records, Attempt) /\ OnePublication(records) /\ PublishedFifth(records)
    BY <1>1 DEF TimelineInv
  <1>6. Shaped(records, Attempt)' /\ OnePublication(records)' /\ PublishedFifth(records)'
    BY <1>1, <1>3, <1>5, ClosedKeeps
  <1>7. LiveIsCurrent' /\ PublicationRuns'
    BY <1>1, WithdrawnIs DEF LiveIsCurrent, PublicationRuns
  <1>8. EndedIsClosed' /\ RunsByOwnSteps' /\ PublishedOnce'
    BY <1>1, <1>2, <1>5, ClosedIsClosed DEF EndedIsClosed, RunsByOwnSteps, PublishedOnce
  <1> QED BY <1>4, <1>6, <1>7, <1>8 DEF TimelineInv

(* A change of inputs withdraws the command; the timeline is left as it is. *)
LEMMA MarkStaleKeeps ==
    ASSUME TimelineInv, MarkStale
    PROVE  TimelineInv'
  <1>1. /\ task' = [task EXCEPT !.stale = TRUE, !.retryable = FALSE,
                                !.status = IF @ = "SUCCEEDED" THEN @ ELSE "CANCELLED"]
        /\ command' = Withdrawn /\ UNCHANGED <<records, job, events>>
    BY DEF MarkStale, agentVars
  <1>2. /\ task'.retries = task.retries /\ task'.stale = TRUE
        /\ task'.status = (IF task.status = "SUCCEEDED" THEN "SUCCEEDED" ELSE "CANCELLED")
        /\ TaskShape'
    BY <1>1 DEF TimelineInv, Shapes, TaskShape, Statuses, Terminal
  <1>3. Attempt' = Attempt
    BY <1>2 DEF Attempt
  <1>4. Shapes'
    BY <1>1, <1>2, WithdrawnIs DEF TimelineInv, Shapes, TaskShape
  <1>5. /\ Shaped(records, Attempt)' /\ OnePublication(records)'
        /\ (task.status # "SUCCEEDED" => PublishedFifth(records))'
    BY <1>1, <1>2, <1>3 DEF TimelineInv
  <1>6. LiveIsCurrent' /\ PublicationRuns'
    BY <1>1, WithdrawnIs DEF LiveIsCurrent, PublicationRuns
  <1>7. EndedIsClosed' /\ RunsByOwnSteps' /\ PublishedOnce'
    BY <1>1, <1>2, <1>3 DEF TimelineInv, EndedIsClosed, RunsByOwnSteps, PublishedOnce
  <1> QED BY <1>4, <1>5, <1>6, <1>7 DEF TimelineInv

-------------------------------------------------------------------------------
(* Every step keeps the invariant. *)
LEMMA TimelineInvStep == TimelineInv /\ [TimelineNext]_timelineVars => TimelineInv'
  <1> SUFFICES ASSUME TimelineInv, [TimelineNext]_timelineVars PROVE TimelineInv'
    OBVIOUS
  <1>1. CASE UNCHANGED timelineVars
    <2>1. UNCHANGED <<task, command, records, job, events>>
      BY <1>1 DEF timelineVars
    <2>2. UNCHANGED hostVars /\ Shapes'
      BY <2>1 DEF hostVars, TimelineInv, Shapes, TaskShape
    <2> QED BY <2>2, HostUnchanged
  <1>2. ASSUME NEW a \in Attempts,
               Begin(a) \/ Republish(a) \/ Succeed(a) \/ Fail(a) \/ Refuse(a) \/ GiveUp(a)
                   \/ \E commits \in BOOLEAN : Dispatch(a, commits)
        PROVE  TimelineInv'
    BY <1>2, AgentKeeps, RepublishKeeps, SucceedKeeps, FailureKeeps, DispatchKeeps
  <1>3. ASSUME NEW b \in BOOLEAN, Report(b) \/ Crash(b) \/ ApplyStep(b)
        PROVE  TimelineInv'
    BY <1>3, AgentKeeps, ApplyStepKeeps
  <1>4. CASE PublishResult \/ \E verdict \in Failures \cup {"ok"} : Execute(verdict)
    BY <1>4, AgentKeeps
  <1>5. CASE Retry \/ Cancel \/ MarkStale
    BY <1>5, RetryKeeps, CancelKeeps, MarkStaleKeeps
  <1> QED BY <1>1, <1>2, <1>3, <1>4, <1>5 DEF TimelineNext

(* So the invariant always holds. *)
LEMMA TimelineInvHolds == TimelineSpec => []TimelineInv
  BY TimelineInvInit, TimelineInvStep, PTL DEF TimelineSpec

(* A task that has ended, and was not made stale, shows no open step, however late, lost or
   repeated the agent's steps and results are and however often it was retried
   (AiTaskRecord.close, AiTaskService.applyStepEvent). *)
THEOREM EndedShowsNoOpenStep == TimelineSpec => []EndedIsClosed
  <1>1. TimelineInv => EndedIsClosed
    BY DEF TimelineInv
  <1> QED BY <1>1, TimelineInvHolds, PTL

(* No step of an earlier attempt makes a task run (AiTaskService.applyStepEvent). *)
THEOREM RunsOnlyByOwnSteps == TimelineSpec => []RunsByOwnSteps
  <1>1. TimelineInv => RunsByOwnSteps
    BY DEF TimelineInv
  <1> QED BY <1>1, TimelineInvHolds, PTL

(* A succeeded task has its result's publication on its timeline exactly once
   (AiTaskService.reconcileTimelineOnSuccess). *)
THEOREM SuccessIsPublishedOnce == TimelineSpec => []PublishedOnce
  <1>1. TimelineInv => PublishedOnce
    BY DEF TimelineInv
  <1> QED BY <1>1, TimelineInvHolds, PTL

===============================================================================
