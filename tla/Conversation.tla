------------------------------ MODULE Conversation ------------------------------
(***************************************************************************)
(* The conversation of a run: the messages in memory, in the checkpoint    *)
(* and in the messages table, what of them a model turn is sent            *)
(* (engine/context.py), what is folded into the rolling summary            *)
(* (engine/compaction.py), and the messages that verification adds         *)
(* (engine/verification.py), through stops, dying processes and resumes    *)
(* (engine/runtime.py, engine/lifecycle.py, storage/messages.py).          *)
(*                                                                         *)
(* A message is a number, a role and a size; tool call <<m, j>> is the     *)
(* j-th call of message m.  Sizes are in tokens of the model; what is said *)
(* is left out.  Which calls run when and what becomes of calls nobody     *)
(* knows the outcome of is DurableRun's matter: here a batch gives its     *)
(* results one after the other, or stops.                                  *)
(***************************************************************************)
EXTENDS Integers, Sequences, SequencesExt, FiniteSetsExt

CONSTANTS
    Splice,       \* how many messages the earlier runs of the session may give
    Sizes,        \* sizes of a tool result
    Large,        \* from this size on a result may be replaced by a pointer to an artifact
    Pointer,      \* the size of the pointer
    Prefix,       \* the size of the system text and the tool schemas
    Summary,      \* the size of the rolling summary
    Budget,       \* max_context_tokens
    Threshold,    \* context_compact_ratio * max_context_tokens
    MinCover,     \* _MIN_COVER_TOKENS
    KeepRecent,   \* context_compact_keep_recent
    MaxCalls,     \* max_tool_calls_per_turn
    MaxRetries,   \* max_retries of the verification policy
    MaxMessages,  \* bound: messages of the run
    MaxCrashes,   \* bound: processes that die
    MaxStops,     \* bound: stop requests
    MaxResumes    \* bound: times the run is resumed

ASSUME ConversationAssumption ==
    /\ Splice \subseteq Nat /\ Sizes \subseteq Nat \ {0}
    /\ {Large, Pointer, Summary, Budget, MaxCalls} \subseteq Nat \ {0}
    /\ {Prefix, Threshold, MinCover, KeepRecent, MaxRetries} \subseteq Nat
    /\ {MaxMessages, MaxCrashes, MaxStops, MaxResumes} \subseteq Nat
    /\ Pointer <= Large

VARIABLES
    messages,  \* the list in memory
    rows,      \* the messages table, ordered by seq and then as inserted
    cp,        \* the checkpoint
    folded,    \* summarized_message_ids of the context state in memory
    attempt,   \* ctx.verification_attempt
    pending,   \* ctx.pending_tool_calls
    done,      \* ctx.completed_tool_ids
    todo,      \* calls of the batch that have no result yet
    stopping,  \* the cancel event
    status,    \* runs.status
    pc,        \* where the work on the run is
    last,      \* history: messages so far
    count      \* history: how often the process died, was stopped, resumed the run

memory == <<messages, folded, attempt, pending, done, todo, stopping>>
vars == <<memory, rows, cp, status, pc, last, count>>

Resumable == {"interrupted", "cancelled", "waiting_approval", "require_human"}

NoCall == <<0, 0>>

Message(id, role, calls, answers, size) ==
    [id |-> id, role |-> role, calls |-> calls, answers |-> answers, size |-> size]

User(id) == Message(id, "user", 0, NoCall, 1)

\* What the completed runs of the session said: a goal and its answers.
Earlier(n) ==
    [i \in 1 .. n |-> IF i = 1 THEN User(i) ELSE Message(i, "assistant", 0, NoCall, 1)]

\* run: the goal has seq 0, whatever is spliced before it, and is in the first checkpoint.
Init ==
    \E n \in Splice :
        /\ messages = Append(Earlier(n), User(n + 1))
        /\ rows = <<[seq |-> 0, m |-> User(n + 1)]>>
        /\ cp = [messages |-> messages, folded |-> {}, attempt |-> 0, pending |-> {}, done |-> {},
                 phase |-> "model_turn", spliced |-> n]
        /\ folded = {} /\ attempt = 0 /\ pending = {} /\ done = {} /\ todo = {}
        /\ stopping = FALSE /\ status = "running" /\ pc = "top" /\ last = n + 1
        /\ count = [crashes |-> 0, stops |-> 0, resumes |-> 0]

-----------------------------------------------------------------------------
(* Groups: a message, or an assistant message with the results right after it. *)

CallsOf(m) == {m.id} \X (1 .. m.calls)

\* Position k belongs to the group that the calls at position i open.
Within(s, i, k) == i < k /\ \A n \in i + 1 .. k : s[n].answers \in CallsOf(s[i])

Groups(s) ==
    {{i} \cup {k \in DOMAIN s : Within(s, i, k)} : i \in {k \in DOMAIN s : \A j \in 1 .. k - 1 : ~Within(s, j, k)}}

\* Mutant: calls are whole with any of their results.
ValidSome(s, g) ==
    LET m == s[Min(g)]
    IN m.role # "tool" /\ (m.calls > 0 => Cardinality(g) > 1)

\* A group can be sent when all calls have their results; a result alone never.
Valid(s, g) ==
    LET m == s[Min(g)]
    IN m.role # "tool" /\ CallsOf(m) = {s[k].answers : k \in g \ {Min(g)}}

Covered(s, g, ids) == \A k \in g : s[k].id \in ids

\* Groups that are neither broken nor in the summary.
Live(s, ids) == {g \in Groups(s) : Valid(s, g) /\ ~Covered(s, g, ids)}

Tokens(s, gs) == MapThenSumSet(LAMBDA k : s[k].size, UNION gs)

LastUser(s) == Max({i \in DOMAIN s : s[i].role = "user"})

-----------------------------------------------------------------------------
(* The budget of a model turn (_budget_messages). *)

Base(ids) == Prefix + IF ids = {} THEN 0 ELSE Summary

\* The oldest groups before the newest goal go to an artifact, as long as it is too much.
Dropped(s, ids) ==
    LET old == {g \in Live(s, ids) : Max(g) < LastUser(s)}
        Rest(g) == Live(s, ids) \ {h \in old : Max(h) < Min(g)}
    IN {g \in old : Base(ids) + Tokens(s, Rest(g)) > Budget}

Sent(s, ids) == Live(s, ids) \ Dropped(s, ids)

\* Then the large results of the groups that stay, the oldest first, become pointers.
Shrunk(s, gs) ==
    MapThenSumSet(LAMBDA k : IF s[k].role = "tool" /\ s[k].size >= Large THEN Pointer ELSE s[k].size, UNION gs)

Size(s, ids) ==
    LET gs == Sent(s, ids)
        Before(g) == {h \in gs : Max(h) < Min(g)}
        bare == {g \in gs : Base(ids) + Shrunk(s, Before(g)) + Tokens(s, gs \ Before(g)) > Budget}
    IN Base(ids) + Shrunk(s, bare) + Tokens(s, gs \ bare)

-----------------------------------------------------------------------------
(* What compaction folds into the summary (plan_compaction). *)

Newest(gs) == {g \in gs : Cardinality({h \in gs : Min(h) >= Min(g)}) <= KeepRecent}

\* Mutant: only the newest groups are protected.
FoldsGoal(s, ids) ==
    LET live == Live(s, ids)
        old == live \ Newest(live)
    IN IF Tokens(s, live) <= Threshold \/ Tokens(s, old) < MinCover THEN {} ELSE old

\* The goal that is worked on and the newest groups stay as they are.
Folds(s, ids) ==
    LET live == Live(s, ids)
        old == {g \in live \ Newest(live) : LastUser(s) \notin g}
    IN IF Tokens(s, live) <= Threshold \/ Tokens(s, old) < MinCover THEN {} ELSE old

Ids(s, gs) == {s[k].id : k \in UNION gs}

-----------------------------------------------------------------------------
(* Writing. *)

\* save_message: equal numbers keep the order in which they were inserted.
Inserted(n, m) ==
    InsertAt(rows, 1 + Max({0} \cup {i \in DOMAIN rows : rows[i].seq <= n}), [seq |-> n, m |-> m])

Stored == [i \in DOMAIN rows |-> rows[i].m]

\* A message is appended to the list and saved.
Says(m) ==
    /\ m.id <= MaxMessages
    /\ messages' = Append(messages, m)
    /\ rows' = Inserted(Len(messages) + 1, m)
    /\ last' = m.id

\* The longer of the two lists on disk; as a mutant of Longest: the list in memory is not counted.
LongestOnDisk == IF Len(cp.messages) >= Len(rows) THEN cp.messages ELSE Stored

\* checkpoint_messages: the first of the longest lists there are.
Longest ==
    IF Len(messages) >= Len(cp.messages) /\ Len(messages) >= Len(rows) THEN messages
    ELSE LongestOnDisk

Checkpoint(phase, list, calls) ==
    cp' = [cp EXCEPT !.messages = list, !.folded = folded, !.attempt = attempt, !.pending = calls,
                     !.done = done, !.phase = phase]

\* The run leaves memory.
Leaves(st) ==
    /\ status' = st /\ pc' = "idle"
    /\ messages' = <<>> /\ folded' = {} /\ attempt' = 0
    /\ pending' = {} /\ done' = {} /\ todo' = {} /\ stopping' = FALSE

\* finish: the calls that are left stay pending in a run that may be resumed.
Finish(st) ==
    /\ Checkpoint(IF st = "completed" THEN "terminal" ELSE "tool_batch", Longest,
                  IF st \notin Resumable THEN {}
                  ELSE (IF pending # {} THEN pending ELSE cp.pending) \ (done \cup cp.done))
    /\ Leaves(st)
    /\ UNCHANGED <<rows, last, count>>

At(place) == pc = place /\ UNCHANGED <<status, count>>

-----------------------------------------------------------------------------
(* A model turn. *)

Stopped == {"cancelled", "interrupted"}

StopsAtTop == pc = "top" /\ stopping /\ \E st \in Stopped : Finish(st)

\* A limit of the run is found reached before a turn, its time is up while it waits.
LimitReached ==
    /\ (pc = "top" /\ ~stopping) \/ pc \in {"asking", "batch", "check", "redo"}
    /\ Finish("failed")

\* _maybe_compact: the summary is made or not; a stop meanwhile leaves the list as it is.
\* What the summarizer raises other than its own error ends the run.
Compact ==
    /\ pc = "top" /\ ~stopping
    /\ LET new == Ids(messages, Folds(messages, folded))
       IN /\ new # {}
          /\ \/ /\ folded' = folded \cup new
                /\ pc' = "plan"
                /\ cp' = [cp EXCEPT !.messages = messages, !.folded = folded', !.attempt = attempt,
                                    !.pending = {}, !.done = done, !.phase = "model_turn"]
                /\ UNCHANGED <<messages, attempt, pending, done, todo, stopping, status>>
             \/ pc' = "plan" /\ UNCHANGED <<memory, cp, status>>
             \/ Leaves("failed") /\ UNCHANGED cp
    /\ UNCHANGED <<rows, last, count>>

\* ContextPlanner.plan: what cannot fit ends the run, without another checkpoint.
Plan ==
    /\ pc = "plan" \/ (pc = "top" /\ ~stopping /\ Folds(messages, folded) = {})
    /\ IF Size(messages, folded) <= Budget
       THEN pc' = "asking" /\ UNCHANGED <<memory, status>>
       ELSE Leaves("failed")
    /\ UNCHANGED <<rows, cp, last, count>>

\* The model answers, with calls or without, whole or not (ModelTurn).
Answers ==
    /\ At("asking")
    /\ \E n \in 0 .. MaxCalls : Says(Message(last + 1, "assistant", n, NoCall, 1))
    /\ pc' = "answered"
    /\ UNCHANGED <<cp, folded, attempt, pending, done, todo, stopping>>

Newly == CallsOf(Last(messages))

TurnSaved ==
    /\ At("answered")
    /\ Checkpoint("model_turn", messages, Newly)
    /\ pc' \in {"ending", IF Newly = {} THEN "verify" ELSE "calls"}
    /\ UNCHANGED <<memory, rows, last>>

\* A turn that was stopped or failed is saved before the run ends.
TurnEnds == pc = "ending" /\ \E st \in Stopped \cup {"failed"} : Finish(st)

-----------------------------------------------------------------------------
(* A batch of calls: of the turn, of a command validator, or one that a resume takes up. *)

BatchStarts ==
    /\ pc \in {"calls", "checking", "resumed"} /\ UNCHANGED <<status, count>>
    /\ LET batch == IF pc = "resumed" THEN pending ELSE Newly
       IN /\ Checkpoint("tool_batch", messages, batch)
          /\ pending' = batch /\ todo' = batch
    /\ pc' = IF pc = "calls" THEN "batch" ELSE IF pc = "checking" THEN "check" ELSE "redo"
    /\ UNCHANGED <<messages, folded, attempt, done, stopping, rows, last>>

HasResult(c) == \E i \in DOMAIN messages : messages[i].answers = c

InBatch == pc \in {"batch", "check", "redo"} /\ UNCHANGED <<status, count>>

\* A result is appended unless the list has it.  Those of refused calls are not yet
\* recorded as completed.
Result(c) ==
    /\ InBatch /\ c \in todo
    /\ todo' = todo \ {c}
    /\ done' \in {done, done \cup {c}}
    /\ IF HasResult(c)
       THEN UNCHANGED <<messages, rows, last>>
       ELSE \E n \in Sizes : Says(Message(last + 1, "tool", 0, c, n))
    /\ UNCHANGED <<pc, cp, folded, attempt, pending, stopping>>

\* All calls have results, or the run is stopped and the rest stay pending.  A verification
\* also goes on when nobody knows how its command ended.
BatchEnds ==
    /\ InBatch /\ (todo = {} \/ stopping \/ pc = "check")
    /\ pending' = todo /\ done' = done \cup (pending \ todo) /\ todo' = {}
    /\ cp' = [cp EXCEPT !.messages = messages, !.folded = folded, !.attempt = attempt,
                        !.pending = todo, !.done = done', !.phase = "tool_batch"]
    /\ pc' = IF pc = "batch" THEN "batched" ELSE IF pc = "check" THEN "verify" ELSE "top"
    /\ UNCHANGED <<messages, folded, attempt, stopping, rows, last>>

\* Nobody knows how a call ended: the run waits for a person.
Uncertain ==
    /\ pc \in {"batch", "redo"} /\ todo # {}
    /\ Finish("require_human")

GoesOn ==
    /\ At("batched")
    /\ pc' \in {"top", "verify"}
    /\ UNCHANGED <<memory, rows, cp, last>>

-----------------------------------------------------------------------------
(* Verification of an answer. *)

\* governed_command: the validator's command is a call like any other.  A policy may have
\* several, and what is verified may also be the output of a tool.
CheckCommand ==
    /\ At("verify") /\ ~stopping
    /\ Says(Message(last + 1, "assistant", 1, NoCall, 1))
    /\ pc' = "checking"
    /\ UNCHANGED <<cp, folded, attempt, pending, done, todo, stopping>>

\* The answer is rejected: what is wrong with it is said as if by the user.
Retry ==
    /\ At("verify") /\ attempt < MaxRetries
    /\ Says(User(last + 1))
    /\ attempt' = attempt + 1
    /\ pc' = "corrected"
    /\ UNCHANGED <<cp, folded, pending, done, todo, stopping>>

RetrySaved ==
    /\ At("corrected")
    /\ Checkpoint("model_turn", messages, {})
    /\ pc' = "top"
    /\ UNCHANGED <<memory, rows, last>>

\* The answer is good, or not to be corrected.
Verified == pc = "verify" /\ \E st \in {"completed", "failed"} : Finish(st)

\* A person is to look at the answer, or at what a tool asks for.
Pause ==
    /\ pc \in {"verify", "batched"}
    /\ \E st \in {"require_human", "waiting_approval"} :
        /\ pc = "verify" => st = "require_human"
        /\ Checkpoint(IF st = "waiting_approval" THEN st ELSE "model_turn", messages, {})
        /\ Leaves(st)
    /\ UNCHANGED <<rows, last, count>>

-----------------------------------------------------------------------------
(* Stops, crashes and resumes. *)

Counts(what, bound) ==
    /\ count[what] < bound
    /\ count' = [count EXCEPT ![what] = @ + 1]

\* Mutant: what was folded comes from memory as well.
PreservedFromMemory ==
    [cp EXCEPT !.messages = Longest, !.folded = folded, !.attempt = attempt,
               !.pending = IF pending # {} THEN pending ELSE @ \ (done \cup cp.done),
               !.done = @ \cup done, !.phase = "tool_batch"]

\* preserve_checkpoint, which takes the attempts from memory also when nothing is there.
Preserved ==
    [cp EXCEPT !.messages = Longest, !.folded = IF pc = "idle" THEN @ ELSE folded, !.attempt = attempt,
               !.pending = IF pending # {} THEN pending ELSE @ \ (done \cup cp.done),
               !.done = @ \cup done, !.phase = "tool_batch"]

\* A stop request: of this process, which preserves the checkpoint, or of another.
Stop ==
    /\ pc # "idle" /\ ~stopping
    /\ Counts("stops", MaxStops)
    /\ stopping' = TRUE
    /\ cp' \in {cp, Preserved}
    /\ UNCHANGED <<messages, rows, folded, attempt, pending, done, todo, status, pc, last>>

\* cancel of a run that waits for a person.
CancelWaiting ==
    /\ pc = "idle" /\ status \in {"waiting_approval", "require_human"}
    /\ Counts("stops", MaxStops)
    /\ cp' = Preserved
    /\ status' = IF status = "waiting_approval" THEN "cancelled" ELSE status
    /\ UNCHANGED <<memory, rows, pc, last>>

\* The task that works on the run is cancelled.
Interrupted ==
    /\ pc # "idle"
    /\ Counts("stops", MaxStops)
    /\ cp' = Preserved
    /\ Leaves("interrupted")
    /\ UNCHANGED <<rows, last>>

Crash ==
    /\ pc # "idle"
    /\ Counts("crashes", MaxCrashes)
    /\ Leaves("interrupted")
    /\ UNCHANGED <<rows, cp, last>>

\* resume: the list is that of the checkpoint, and a new message is saved with it.
Resume ==
    /\ pc = "idle" /\ status \in Resumable
    /\ Counts("resumes", MaxResumes)
    /\ \/ messages' = cp.messages /\ UNCHANGED <<rows, last>>
       \/ /\ last < MaxMessages
          /\ messages' = Append(cp.messages, User(last + 1))
          /\ rows' = Inserted(Len(cp.messages) + 1, User(last + 1))
          /\ last' = last + 1
    /\ folded' = cp.folded /\ attempt' = cp.attempt /\ done' = cp.done
    /\ pending' = cp.pending \ cp.done
    /\ pc' = IF pending' # {} /\ cp.phase # "model_turn" THEN "resumed" ELSE "top"
    /\ status' = "running"
    /\ UNCHANGED <<cp, todo, stopping>>

-----------------------------------------------------------------------------
Turn == StopsAtTop \/ LimitReached \/ Compact \/ Plan \/ Answers \/ TurnSaved \/ TurnEnds

Batch == BatchStarts \/ BatchEnds \/ Uncertain \/ GoesOn \/ \E c \in todo : Result(c)

Verification == CheckCommand \/ Retry \/ RetrySaved \/ Verified \/ Pause

Next == Turn \/ Batch \/ Verification \/ Stop \/ CancelWaiting \/ Interrupted \/ Crash \/ Resume

Spec == Init /\ [][Next]_vars

-----------------------------------------------------------------------------
(* Properties. *)

\* What a model turn is sent holds the goal that is worked on, also after compactions, budget
\* cuts and resumes.
GoalIsSent == pc = "asking" => \E g \in Sent(messages, folded) : LastUser(messages) \in g

\* Every call in what is sent has its result, and every result its call.
PairsAreWhole ==
    pc = "asking" =>
        LET k == UNION Sent(messages, folded)
        IN UNION {CallsOf(messages[i]) : i \in k} = {messages[i].answers : i \in k} \ {NoCall}

\* What was folded into the summary stays so in the checkpoint, whoever writes it, and as long
\* as no process dies it is never sent again, in this or a later resume of the run.
FoldedStaysFolded ==
    [][/\ cp.folded \subseteq cp'.folded
       /\ pc' = "asking" /\ count'.crashes = 0 =>
             (folded' \cup cp'.folded) \cap Ids(messages', Sent(messages', folded')) = {}]_vars

\* A run that leaves memory and may be resumed leaves in the checkpoint all it has said: only
\* a process that dies does not.
LeavesAllItSaid ==
    [][pc # "idle" /\ pc' = "idle" /\ status' \in Resumable /\ count'.crashes = count.crashes =>
          \A i \in DOMAIN messages : messages[i].id > cp.spliced => Contains(cp'.messages, messages[i])]_vars

===============================================================================
