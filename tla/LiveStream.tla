------------------------------- MODULE LiveStream -------------------------------
(***************************************************************************)
(* The agent's own stream of events to an open page (api/server.py): a     *)
(* connection subscribes to the engine, replays the rows after its cursor  *)
(* page by page, and then sends what it hears, skipping what lies at or    *)
(* below the cursor; when it hears nothing for two seconds it reads the    *)
(* table once.  The page (useAgentStream.ts) opens a new connection when   *)
(* one breaks, after the last event it received.                           *)
(*                                                                         *)
(* Not every row is heard of: the engine announces the rows it appends on  *)
(* the loop (engine/events.py), the sweep of expired leases and another    *)
(* process on the same data directory do not.                              *)
(***************************************************************************)
EXTENDS Integers, Sequences

CONSTANTS
    PageSize,   \* rows a read of the table returns at most
    MaxRows,    \* bound: rows appended
    MaxLoose,   \* bound: numbers taken by events that have no row
    MaxBreaks   \* bound: connections that break

ASSUME LiveStreamAssumption ==
    PageSize \in Nat \ {0} /\ {MaxRows, MaxLoose, MaxBreaks} \subseteq Nat

VARIABLES
    rows,     \* the events table; a row's number is its place
    loose,    \* by how much the watermark is above the rows
    phase,    \* where the connection's generator stands
    cursor,   \* its cursor
    fetched,  \* the numbers of the page it has read and not yet sent
    queue,    \* the numbers it has heard of
    wire,     \* the numbers it sent and the page has not received
    last,     \* the page's lastSequence
    from,     \* history: the last row when the page's present sequence of events began
    shown,    \* history: the numbers the page received
    breaks    \* history: connections that broke

table == <<rows, loose>>
conn == <<phase, cursor, fetched, queue>>
page == <<last, shown>>
vars == <<table, conn, wire, page, from, breaks>>

Init ==
    /\ rows = <<>> /\ loose = 0
    /\ phase = "closed" /\ cursor = 0 /\ fetched = <<>> /\ queue = <<>>
    /\ wire = <<>> /\ last = 0 /\ from = 0 /\ shown = {} /\ breaks = 0

(* Mutant: a cursor taken from the watermark. *)
MaxGlobalSeq == Len(rows) + loose
(* The last row's number. *)
MaxEventSeq == Len(rows)

(* Mutant: subscribed after the replay. *)
SubscribedLate == phase \in {"live", "poll", "polled"}
(* A generator is subscribed from before its replay to its end. *)
Subscribed == phase \notin {"closed", "accepted"}

(* A row of a type the page listens to, or of another. *)
Row(live, listened) == [live |-> live, listened |-> listened]

(* The engine commits a row and announces it, in one piece of the loop's work. *)
Emit(listened) ==
    /\ Len(rows) < MaxRows
    /\ rows' = Append(rows, Row(TRUE, listened))
    /\ queue' = IF Subscribed THEN Append(queue, Len(rows) + 1) ELSE queue
    /\ UNCHANGED <<loose, phase, cursor, fetched, wire, page, from, breaks>>

(* A thread that ends runs with expired leases, or another process, commits a row. *)
Store(listened) ==
    /\ Len(rows) < MaxRows
    /\ rows' = Append(rows, Row(FALSE, listened))
    /\ UNCHANGED <<loose, conn, wire, page, from, breaks>>

(* A heartbeat or a gateway event takes a number and leaves no row. *)
TakeLoose ==
    /\ loose < MaxLoose /\ loose' = loose + 1
    /\ UNCHANGED <<rows, conn, wire, page, from, breaks>>

(* The page names the last event it received; without one the stream starts at its end. *)
Accept ==
    /\ phase = "closed" /\ phase' = "accepted"
    /\ cursor' = IF last > 0 THEN last ELSE MaxEventSeq
    /\ from' = IF last > 0 THEN from ELSE Len(rows)
    /\ UNCHANGED <<table, fetched, queue, wire, page, breaks>>

Subscribe ==
    /\ phase = "accepted" /\ phase' = "replay"
    /\ UNCHANGED <<table, cursor, fetched, queue, wire, page, from, breaks>>

Least(a, b) == IF a < b THEN a ELSE b
(* The rows after the cursor, a page of them. *)
GetEvents == [i \in 1 .. Least(PageSize, Len(rows) - cursor) |-> cursor + i]
(* A thread reads while the loop goes on. *)
ReadPage ==
    /\ \/ phase = "replay" /\ phase' = "replayed"
       \/ phase = "poll" /\ phase' = "polled"
    /\ fetched' = GetEvents
    /\ UNCHANGED <<table, cursor, queue, wire, page, from, breaks>>

(* What was read is sent.  A full page of the replay is followed by another. *)
SendPage ==
    /\ phase \in {"replayed", "polled"}
    /\ wire' = wire \o fetched
    /\ cursor' = cursor + Len(fetched)
    /\ phase' = IF phase = "replayed" /\ Len(fetched) = PageSize THEN "replay" ELSE "live"
    /\ fetched' = <<>>
    /\ UNCHANGED <<table, queue, page, from, breaks>>

(* Mutant: everything heard of is news. *)
NewsAlways(n) == TRUE
(* What the cursor has passed has been sent already. *)
News(n) == n > cursor

Deliver ==
    /\ phase = "live" /\ queue # <<>>
    /\ queue' = Tail(queue)
    /\ wire' = IF News(Head(queue)) THEN Append(wire, Head(queue)) ELSE wire
    /\ cursor' = IF News(Head(queue)) THEN Head(queue) ELSE cursor
    /\ UNCHANGED <<table, phase, fetched, page, from, breaks>>

(* Mutant: a heartbeat that reads nothing. *)
HeartbeatOnly == phase = "live" /\ queue = <<>> /\ UNCHANGED vars
(* Two seconds without an event. *)
Heartbeat ==
    /\ phase = "live" /\ queue = <<>>
    /\ phase' = "poll"
    /\ UNCHANGED <<table, cursor, fetched, queue, wire, page, from, breaks>>

(* The browser calls a listener only for the types it is registered for. *)
Receive ==
    /\ wire # <<>>
    /\ wire' = Tail(wire)
    /\ IF rows[Head(wire)].listened /\ Head(wire) > last
       THEN last' = Head(wire) /\ shown' = shown \cup {Head(wire)}
       ELSE UNCHANGED page
    /\ UNCHANGED <<table, conn, from, breaks>>

(* The connection breaks, or its process dies: what is under way is lost. *)
Break ==
    /\ phase # "closed" /\ breaks < MaxBreaks
    /\ phase' = "closed" /\ cursor' = 0 /\ fetched' = <<>> /\ queue' = <<>>
    /\ wire' = <<>> /\ breaks' = breaks + 1
    /\ UNCHANGED <<table, page, from>>

Stream == Accept \/ Subscribe \/ ReadPage \/ SendPage \/ Deliver \/ Heartbeat

Next ==
    \/ \E listened \in BOOLEAN : Emit(listened) \/ Store(listened)
    \/ TakeLoose \/ Stream \/ Receive \/ Break

(* The loop runs what is ready, a queue that stays empty times out, the page reconnects. *)
Fairness == WF_vars(Stream) /\ WF_vars(Receive)

Spec == Init /\ [][Next]_vars
FairSpec == Spec /\ Fairness

-------------------------------------------------------------------------------

TypeOK ==
    /\ rows \in Seq([live : BOOLEAN, listened : BOOLEAN]) /\ loose \in Nat /\ breaks \in Nat
    /\ phase \in {"closed", "accepted", "replay", "replayed", "live", "poll", "polled"}
    /\ {cursor, last, from} \subseteq 0 .. Len(rows)
    /\ {fetched, queue, wire} \subseteq Seq(1 .. Len(rows))
    /\ shown \subseteq 1 .. Len(rows)

(* The rows the page has gone past. *)
Passed == from + 1 .. last

(* A page that has gone past a row has received it, over replay, live events, page limits,
   polls and broken connections; unless nobody announced the row, and one that was announced
   overtook it. *)
SkippedOnlySilently ==
    \A n \in Passed : rows[n].listened /\ n \notin shown =>
        /\ ~rows[n].live
        /\ \E m \in n + 1 .. last : rows[m].live

(* A connection sends every row once, in the order of the numbers, though the replay, the
   poll and the queue may each hold the same row. *)
SendsForward ==
    [][\A i \in Len(wire) + 1 .. Len(wire') :
          /\ wire'[i] > cursor
          /\ \A j \in 1 .. i - 1 : wire'[j] < wire'[i]]_vars

(* A row of the page's sequence of events that its stream still has to bring. *)
Owed(n) == n \in from + 1 .. Len(rows) /\ phase # "closed" /\ rows[n].listened

(* Nobody announces the row, and a later one is announced. *)
PassedBy(n) == n \in DOMAIN rows /\ ~rows[n].live /\ \E m \in n + 1 .. Len(rows) : rows[m].live

(* A row reaches the page, through any number of broken connections, unless the page loses
   its connection before it has received its first event, or nobody announces the row and an
   announced one overtakes it. *)
RowsShown ==
    \A n \in 1 .. MaxRows :
        Owed(n) ~> n \in shown \/ n <= from \/ PassedBy(n)
===============================================================================
