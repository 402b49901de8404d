------------------------------- MODULE ModelTurn -------------------------------
(***************************************************************************)
(* One turn of the model: the stream of provider events, the adapter that  *)
(* normalises it (providers/openai_adapter.py, _ToolCallAccumulator) and   *)
(* the loop of the run that consumes the items (engine/runtime.py).        *)
(*                                                                         *)
(* The provider is any endpoint that speaks the two protocols, well or     *)
(* badly: ids may come late, two calls may interleave, a name or an id may *)
(* change, the stream may end anywhere.  The adapter is a generator: it    *)
(* reads an event only when the loop has consumed what the last one gave,  *)
(* and a stop or the time limit may come between any two items.            *)
(*                                                                         *)
(* A text of arguments is the number of pieces it was sent in; those that  *)
(* are a JSON object are Objects.  None stands for a Python None.          *)
(***************************************************************************)
EXTENDS Integers, Sequences, SequencesExt

CONSTANTS
    Key,              \* what the provider indexes a call by: item id or index
    Id, Name,         \* ids and names of calls
    Objects,          \* the lengths at which a text of arguments is a JSON object
    MaxBytes,         \* max_tool_argument_bytes, in pieces
    CallsPerTurn,     \* the largest max_tool_calls_per_turn
    CallsPerRun,      \* max_tool_calls
    MaxOutput,        \* max_output_length
    ProviderRetries,  \* provider_retry.max_retries
    None,
    MaxEvents         \* bound: events of one stream

ASSUME TurnAssumption ==
    /\ None \notin Id \cup Name \cup Key \cup Nat
    /\ None \notin {"stop", "length", "fatal", "connection", "timeout", "protocol", "budget",
                   "interrupt", "cancelled", "interrupted", "failed", "calls", "answer"}
    /\ Objects \subseteq Nat \ {0}
    /\ {MaxBytes, CallsPerTurn, CallsPerRun, MaxOutput, MaxEvents} \subseteq Nat \ {0}
    /\ ProviderRetries \in Nat

VARIABLES
    mode,      \* api_mode of the adapter: "responses" or "chat"
    custom,    \* the endpoint is a custom gateway
    truncate,  \* truncate_excess_tool_calls_per_turn
    perTurn,   \* max_tool_calls_per_turn
    before,    \* the calls the run has made before this turn
    stream,    \* the provider's stream: "none", "open" or "closed"
    calls,     \* _states: what the adapter knows of a call
    known,     \* the keys of _states in the order they came
    owner,     \* _call_owners
    finish,    \* finish_reason of a chat
    payload,   \* saw_payload
    items,     \* yielded and not yet consumed
    events,    \* events this stream has sent
    order,     \* the calls of the turn in order
    call,      \* tool_acc: the raw text and the arguments of each
    ended,     \* ended_tool_ids
    ignored,   \* ignored_tool_ids
    counted,   \* tool_call_count of the run
    written,   \* output_length and streamed_length
    hadOutput, \* had_provider_output
    targetAttempt,  \* target_attempt
    outcome,   \* how the turn ended
    pending,   \* the calls it leaves in the checkpoint
    heard      \* history: the streams something of which was consumed

adapter == <<stream, calls, known, owner, finish, payload, events>>
batch == <<order, call, ended, ignored>>
config == <<custom, truncate, perTurn, before>>
ends == <<outcome, pending>>
turnVars ==
    <<mode, config, adapter, items, batch, counted, written, hadOutput, targetAttempt, ends, heard>>

NoCall == [id |-> None, name |-> None, parts |-> 0, sent |-> 0, final |-> None,
           started |-> FALSE, ended |-> FALSE]

NoStream(s) ==
    /\ stream' = s
    /\ calls' = [k \in Key |-> NoCall] /\ known' = <<>> /\ owner' = [i \in Id |-> None]
    /\ finish' = None /\ payload' = FALSE /\ events' = 0

TurnInit ==
    /\ mode \in {"responses", "chat"} /\ custom \in BOOLEAN /\ truncate \in BOOLEAN
    /\ perTurn \in 1 .. CallsPerTurn /\ before \in 0 .. CallsPerRun
    /\ stream = "none"
    /\ calls = [k \in Key |-> NoCall] /\ known = <<>> /\ owner = [i \in Id |-> None]
    /\ finish = None /\ payload = FALSE /\ events = 0
    /\ items = <<>>
    /\ order = <<>> /\ call = [i \in Id |-> [raw |-> 0, arguments |-> None]]
    /\ ended = {} /\ ignored = {}
    /\ counted = before /\ written = 0 /\ hadOutput = FALSE /\ targetAttempt = 1
    /\ outcome = None /\ pending = {} /\ heard = 0

-----------------------------------------------------------------------------
(* Items the adapter yields. *)

Text(n) == [type |-> "text", size |-> n]
Start(i) == [type |-> "start", id |-> i]
Delta(i) == [type |-> "delta", id |-> i]
End(i, n) == [type |-> "end", id |-> i, arguments |-> n]
Error(kind) == [type |-> "error", kind |-> kind]
Done == [type |-> "done"]

Asking == outcome = None

\* The stream gives its next event.
Event ==
    /\ Asking /\ stream = "open" /\ items = <<>> /\ events < MaxEvents
    /\ events' = events + 1

\* The generator ends with these items.
Closes(last) ==
    /\ items' = last
    /\ stream' = "closed"
    /\ UNCHANGED <<calls, known, owner, finish, payload>>

consumer == <<batch, counted, written, hadOutput, targetAttempt, ends, heard>>

-----------------------------------------------------------------------------
(* _ToolCallAccumulator. *)

\* What observe adds to a call: an id, a name or a piece of its arguments, each may be missing.
Observed(k, id, name, n) ==
    [calls[k] EXCEPT !.id = IF id = None THEN @ ELSE id,
                     !.name = IF name = None THEN @ ELSE name,
                     !.parts = @ + n]

ObserveBreaks(k, id, name, n) ==
    \/ calls[k].ended /\ n > 0
    \/ id # None /\ (calls[k].id \notin {None, id} \/ owner[id] \notin {None, k})
    \/ name # None /\ calls[k].name \notin {None, name}

\* Mutant: a fragment sent before the id is emitted again with the next one.
ReadyFromStart(c) ==
    IF c.id = None THEN <<>>
    ELSE (IF c.started THEN <<>> ELSE <<Start(c.id)>>)
         \o [n \in 1 .. c.parts |-> Delta(c.id)]
         \o (IF c.final # None /\ ~c.ended THEN <<End(c.id, c.final)>> ELSE <<>>)

\* _emit_ready: nothing before the id is known, then the start, what was not sent yet, and the end.
Ready(c) ==
    IF c.id = None THEN <<>>
    ELSE (IF c.started THEN <<>> ELSE <<Start(c.id)>>)
         \o [n \in 1 .. c.parts - c.sent |-> Delta(c.id)]
         \o (IF c.final # None /\ ~c.ended THEN <<End(c.id, c.final)>> ELSE <<>>)

Emitted(c) ==
    IF c.id = None THEN c
    ELSE [c EXCEPT !.started = TRUE, !.sent = c.parts, !.ended = @ \/ c.final # None]

EmitBreaks(c) ==
    c.id # None /\ c.final # None /\ ~c.ended /\ (c.name = None \/ c.final \notin Objects)

\* The call of key k becomes c, and what is ready of it is yielded.
Becomes(k, c) ==
    /\ calls' = [calls EXCEPT ![k] = Emitted(c)]
    /\ known' = IF Contains(known, k) THEN known ELSE Append(known, k)
    /\ owner' = IF c.id = None THEN owner ELSE [owner EXCEPT ![c.id] = k]
    /\ items' = Ready(c)
    /\ UNCHANGED stream

\* One exception of the accumulator ends the stream: what it had ready is lost.
Observe(k, id, name, n) ==
    IF ObserveBreaks(k, id, name, n) \/ EmitBreaks(Observed(k, id, name, n))
    THEN Closes(<<Error("protocol")>>)
    ELSE Becomes(k, Observed(k, id, name, n)) /\ UNCHANGED <<finish, payload>>

\* arguments_done: the first final text counts, a different one is an error.
ArgumentsDone(k, raw, id, name) ==
    LET c == [Observed(k, id, name, 0) EXCEPT !.final = IF @ = None THEN raw ELSE @]
    IN IF ObserveBreaks(k, id, name, 0) \/ c.final # raw \/ EmitBreaks(c)
       THEN Closes(<<Error("protocol")>>)
       ELSE Becomes(k, c) /\ UNCHANGED <<finish, payload>>

\* Mutant: a stream that is complete ends the turn whatever is open.
UnfinishedNone == {}

\* finalize: the calls that are not whole.
Unfinished == {k \in ToSet(known) : ~calls[k].ended}

\* complete_buffered: in a chat the arguments are whole when the stream is.
Buffered(k) == [calls[k] EXCEPT !.final = IF @ = None THEN calls[k].parts ELSE @]

-----------------------------------------------------------------------------
(* The Responses protocol. *)

\* None or a member.
Maybe(S) == S \cup {None}

Responds == mode = "responses" /\ Event /\ UNCHANGED <<mode, config, consumer>>

ItemAdded(k) ==
    Responds /\ \E id \in Maybe(Id), name \in Maybe(Name) : Observe(k, id, name, 0)

ArgumentsDelta(k) == Responds /\ Observe(k, None, None, 1)

TextDone(k) ==
    Responds /\ \E raw \in 0 .. MaxBytes + 1, name \in Maybe(Name) : ArgumentsDone(k, raw, None, name)

ItemDone(k) ==
    Responds /\ \E raw \in 0 .. MaxBytes + 1, id \in Maybe(Id), name \in Maybe(Name) :
        ArgumentsDone(k, raw, id, name)

\* completed, or incomplete, cancelled, failed, the end of the stream, an exception.
ResponseCompleted ==
    Responds /\ Closes(<<IF Unfinished = {} THEN Done ELSE Error("protocol")>>)

Kinds == {"fatal", "connection", "timeout", "stop"}

ResponseFails == Responds /\ \E kind \in Kinds : Closes(<<Error(kind)>>)

-----------------------------------------------------------------------------
(* The Chat protocol. *)

Chats == mode = "chat" /\ Event /\ UNCHANGED <<mode, config, consumer>>

\* A chunk with a fragment of a call.
ChatChunk(k) ==
    /\ Chats
    /\ \E id \in Maybe(Id), name \in Maybe(Name), n \in 0 .. 1 :
        IF ObserveBreaks(k, id, name, n)
        THEN Closes(<<Error("protocol")>>)
        ELSE Becomes(k, Observed(k, id, name, n)) /\ payload' = TRUE /\ UNCHANGED finish

ChatFinishReason ==
    /\ Chats
    /\ \E reason \in {"stop", "length"} :
        IF finish \notin {None, reason}
        THEN Closes(<<Error("protocol")>>)
        ELSE finish' = reason /\ payload' = TRUE /\ UNCHANGED <<stream, calls, known, owner, items>>

\* Calls whose id is known and whose end was not sent, at their places in known.
Closing == {n \in DOMAIN known : calls[known[n]].id # None /\ ~calls[known[n]].ended}

\* The places S from the first to the last.
InOrder(S) == {p \in [1 .. Cardinality(S) -> S] : \A m, n \in DOMAIN p : m < n => p[m] < p[n]}

\* The stream ends: too early, cut off, or complete.
ChatEnds ==
    /\ Chats
    /\ \E p \in InOrder(Closing) :
        LET last == [n \in DOMAIN p |-> End(calls[known[p[n]]].id, Buffered(known[p[n]]).final)]
        IN Closes(IF finish = None /\ ~(payload /\ custom) THEN <<Error("connection")>>
                  ELSE IF finish = "length" THEN <<Error("fatal")>>
                  ELSE IF \E k \in ToSet(known) : EmitBreaks(Buffered(k)) THEN <<Error("protocol")>>
                  ELSE IF \E k \in ToSet(known) : calls[k].id = None THEN last \o <<Error("protocol")>>
                  ELSE last \o <<Done>>)

ChatFails == Chats /\ \E kind \in Kinds : Closes(<<Error(kind)>>)

TextDelta ==
    /\ Event /\ UNCHANGED <<mode, config, consumer, stream, calls, known, owner, finish>>
    /\ payload' = (mode = "chat")
    /\ \E n \in 1 .. 2 : items' = <<Text(n)>>

-----------------------------------------------------------------------------
(* The loop asks the provider. *)

MayAsk == Asking /\ stream = "none"

Opens == MayAsk /\ NoStream("open") /\ UNCHANGED <<mode, config, items, consumer>>

\* Only a 404 at the start of a response makes the adapter a chat, for good.
NotFound ==
    /\ MayAsk /\ mode = "responses"
    /\ mode' = "chat"
    /\ UNCHANGED <<config, adapter, items, consumer>>

OpenFails ==
    /\ MayAsk
    /\ \E kind \in Kinds : Closes(<<Error(kind)>>)
    /\ UNCHANGED <<mode, config, events, consumer>>

-----------------------------------------------------------------------------
(* The loop consumes an item. *)

\* A call that has not ended when the stream has is an error of the provider.  A provider that
\* says it was cancelled ends the run as if somebody had cancelled it.
Outcome(kind) ==
    IF kind = "stop" THEN "cancelled"
    ELSE IF kind \in {"interrupt", "timeout"} THEN "interrupted"
    ELSE IF kind # None \/ ToSet(order) \ ended # {} THEN "failed"
    ELSE IF order # <<>> THEN "calls" ELSE "answer"

\* The turn is over: its calls are in the checkpoint, and finish() drops those of a failed run.
TurnEnds(kind) ==
    /\ outcome' = Outcome(kind)
    /\ pending' = IF outcome' = "failed" THEN {} ELSE ToSet(order)
    /\ UNCHANGED <<mode, adapter, items, batch, hadOutput, targetAttempt>>

Retryable == {"connection", "timeout"}

\* Mutant: only the text of an attempt counts as its output.
ReplayableText == written = 0 /\ targetAttempt <= ProviderRetries

Replayable == ~hadOutput /\ targetAttempt <= ProviderRetries

\* An attempt that has shown nothing is repeated with everything of it forgotten.
Again ==
    /\ NoStream("none") /\ items' = <<>>
    /\ order' = <<>> /\ call' = [i \in Id |-> [raw |-> 0, arguments |-> None]]
    /\ ended' = {} /\ ignored' = {} /\ hadOutput' = FALSE
    /\ targetAttempt' = targetAttempt + 1
    /\ UNCHANGED <<mode, ends>>

Head1 == Head(items)

Takes(type) ==
    /\ Asking /\ items # <<>> /\ Head1.type = type
    /\ UNCHANGED config

\* The item counts as output, and is the first of its stream or not.
Hears ==
    /\ hadOutput' = TRUE
    /\ heard' = IF hadOutput THEN heard ELSE heard + 1
    /\ items' = Tail(items)
    /\ UNCHANGED <<mode, adapter, targetAttempt, ends>>

Breaks == TurnEnds("budget") /\ UNCHANGED heard

TakeText ==
    /\ Takes("text")
    /\ LET room == MaxOutput - written
           n == Head1.size
       IN /\ written' = IF n > room THEN MaxOutput ELSE written + n
          /\ IF n > room THEN Breaks ELSE Hears
    /\ UNCHANGED <<batch, counted>>

Accept(i) ==
    /\ order' = Append(order, i)
    /\ call' = [call EXCEPT ![i] = [raw |-> 0, arguments |-> None]]
    /\ counted' = counted + 1
    /\ UNCHANGED <<ended, ignored>>

\* The limit of the turn comes first: beyond it a call is ignored if that is asked for.
TakeStart ==
    /\ Takes("start")
    /\ LET i == Head1.id
           full == Len(order) >= perTurn
       IN IF full /\ truncate
          THEN ignored' = ignored \cup {i} /\ Hears /\ UNCHANGED <<order, call, ended, counted>>
          ELSE IF full \/ counted >= CallsPerRun
          THEN Breaks /\ UNCHANGED counted
          ELSE Accept(i) /\ Hears
    /\ UNCHANGED written

TakeDelta ==
    /\ Takes("delta")
    /\ LET i == Head1.id
       IN IF i \notin ignored /\ call[i].raw + 1 > MaxBytes
          THEN Breaks
          ELSE /\ call' = IF i \in ignored THEN call ELSE [call EXCEPT ![i].raw = @ + 1]
               /\ Hears /\ UNCHANGED <<order, ended, ignored>>
    /\ UNCHANGED <<counted, written>>

TakeEnd ==
    /\ Takes("end")
    /\ LET i == Head1.id
       IN IF i \notin ignored /\ Head1.arguments > MaxBytes
          THEN Breaks
          ELSE /\ call' = IF i \in ignored THEN call ELSE [call EXCEPT ![i].arguments = Head1.arguments]
               /\ ended' = IF i \in ignored THEN ended ELSE ended \cup {i}
               /\ Hears /\ UNCHANGED <<order, ignored>>
    /\ UNCHANGED <<counted, written>>

TakeError ==
    /\ Takes("error")
    /\ IF Head1.kind \in Retryable /\ Replayable THEN Again ELSE TurnEnds(Head1.kind)
    /\ UNCHANGED <<counted, written, heard>>

\* The limits of tokens and costs are looked at when the stream is complete.
TakeDone ==
    /\ Takes("done")
    /\ \E kind \in {None, "budget"} : TurnEnds(kind)
    /\ UNCHANGED <<counted, written, heard>>

\* The run is cancelled or interrupted: the next item, or the wait for it, ends the turn.
Stopped ==
    /\ Asking
    /\ \E kind \in {"stop", "interrupt"} : TurnEnds(kind)
    /\ UNCHANGED <<config, counted, written, heard>>

-----------------------------------------------------------------------------
Responses == ResponseCompleted \/ ResponseFails
             \/ \E k \in Key : ItemAdded(k) \/ ArgumentsDelta(k) \/ TextDone(k) \/ ItemDone(k)

Chat == ChatFinishReason \/ ChatEnds \/ ChatFails \/ \E k \in Key : ChatChunk(k)

Consume == TakeText \/ TakeStart \/ TakeDelta \/ TakeEnd \/ TakeError \/ TakeDone

TurnNext == Opens \/ NotFound \/ OpenFails \/ Responses \/ Chat \/ TextDelta \/ Consume \/ Stopped

TurnSpec == TurnInit /\ [][TurnNext]_turnVars

-----------------------------------------------------------------------------
(* Properties. *)

\* The key whose call has id i.
KeyOf(i) == CHOOSE k \in Key : calls[k].id = i

\* When a turn ends with calls to make, each has a name, an id no other call of the provider
\* has, and the arguments the provider completed it with; and every call the provider began
\* is one of them or was ignored because the turn was full.
CallsAreWhole ==
    outcome = "calls" =>
        /\ \A i \in ToSet(order) :
              LET k == KeyOf(i)
              IN /\ \A j \in Key : calls[j].id = i => j = k
                 /\ calls[k].name # None
                 /\ call[i].arguments \in Objects
                 /\ mode = "responses" => call[i].arguments = calls[k].final
                 /\ mode = "chat" => call[i].arguments = calls[k].parts
        /\ {calls[k].id : k \in ToSet(known)} = ToSet(order) \cup ignored

\* Every piece of the arguments reaches the call once and in order, also those that came
\* before its id: what the loop has and what is on its way is what the adapter has seen.
FragmentsOnce ==
    \A k \in Key :
        LET i == calls[k].id
        IN outcome = None /\ i \in ToSet(order) =>
              call[i].raw + Cardinality({n \in DOMAIN items : items[n] = Delta(i)}) = calls[k].parts

\* Whatever the protocols do, nothing the user has seen comes from two streams: neither the
\* retry of an attempt nor the fallback to the chat protocol follows output.
OneStreamHeard == heard <= 1

===============================================================================
