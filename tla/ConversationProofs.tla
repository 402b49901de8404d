--------------------------- MODULE ConversationProofs ---------------------------
(***************************************************************************)
(* Conversation proved for every budget, limit and set of sizes, and any   *)
(* number of messages, stops, deaths and resumes: what a turn is sent      *)
(* holds the goal and whole calls, what was folded stays folded, and a run *)
(* that leaves memory leaves what it said.                                 *)
(*                                                                         *)
(* The list is in memory, in the checkpoint and in the table.  The         *)
(* invariant says how the three agree; each step adds one message, writes  *)
(* one of the lists over another, or folds, and each of the three keeps it.*)
(***************************************************************************)
EXTENDS Conversation, FiniteSetTheorems, SequenceTheorems, TLAPS

(* A message is what its role says: only an assistant makes calls, only a tool answers one. *)
RealCall == (Nat \ {0}) \X (Nat \ {0})
Plain ==
    {m \in [id : Nat \ {0}, role : {"user", "assistant", "tool"}, calls : Nat,
            answers : RealCall \cup {NoCall}, size : Nat] :
        /\ m.role = "tool" <=> m.answers # NoCall
        /\ m.role # "assistant" => m.calls = 0}

(* What is in memory, in the checkpoint and in the table. *)
Phases == {"model_turn", "tool_batch", "terminal", "waiting_approval"}

Checkpoints ==
    [messages : Seq(Plain), folded : SUBSET Nat, attempt : Nat, pending : SUBSET RealCall,
     done : SUBSET RealCall, phase : Phases, spliced : Nat]

Types ==
    /\ messages \in Seq(Plain) /\ rows \in Seq([seq : Nat, m : Plain])
    /\ cp \in Checkpoints
    /\ folded \subseteq Nat /\ attempt \in Nat
    /\ pending \subseteq RealCall /\ done \subseteq RealCall /\ todo \subseteq RealCall
    /\ count \in [crashes : Nat, stops : Nat, resumes : Nat] /\ last \in Nat

Running == pc # "idle"

(* The list that is worked on, or that a resume would take up. *)
Now == IF Running THEN messages ELSE cp.messages

(* The loop knows the summary of the checkpoint, and a run that left has nothing in memory. *)
MemoryInv ==
    /\ Running => folded = cp.folded
    /\ ~Running => messages = <<>> /\ folded = {}

(* In a list no message comes twice, and what users said comes in the order they said it. *)
Users(s) == {i \in 1 .. Len(s) : s[i].role = "user"}
Told(s) ==
    /\ \A i, j \in 1 .. Len(s) : s[i].id = s[j].id => i = j
    /\ \A i, j \in Users(s) : i < j => s[i].id < s[j].id
    /\ Users(s) # {}

(* The goal of a list: the last that a user said. *)
Goal(s) == s[LastUser(s)].id

(* Of s none is above l, those of the run are in t, and no user spoke after the goal of t. *)
Known(s, t, l, sp) ==
    \A m \in s : /\ m.id <= l
                 /\ m.id > sp => m \in ToSet(t)
                 /\ m.role = "user" => m.id <= Goal(t)

(* List s, checkpoint c and table t tell one story: a number is one message, none is above l,
   those of the run are in the table, the newest goal is there, and no goal is folded. *)
Agree(s, c, t, ids, l, sp) ==
    LET said == ToSet(s) \cup ToSet(c) \cup ToSet(t)
    IN /\ Told(s) /\ Told(c) /\ Told(t)
       /\ Known(said, t, l, sp)
       /\ \A m, n \in said : m.id = n.id => m = n
       /\ Goal(s) \notin ids /\ Goal(c) \notin ids /\ Goal(t) \notin ids
       /\ \A id \in ids : id <= l

AgreeInv == Agree(Now, cp.messages, Stored, cp.folded, last, cp.spliced)

(* What users said is saved before what is said after list s. *)
Early(r, n) == \A i \in 1 .. Len(r) : r[i].m.role = "user" => r[i].seq <= n + 1
RowsInv ==
    /\ Early(rows, Len(Now)) /\ Early(rows, Len(cp.messages))
    /\ pc \in {"verify", "batched"} => Len(Now) <= Len(cp.messages)

(* A checkpoint longer than the list in memory is the table, as it was when nothing more was said. *)
LongerInv ==
    Len(cp.messages) > Len(Now) =>
        /\ Len(cp.messages) <= Len(rows)
        /\ Len(cp.messages) = Len(rows) =>
              \A m \in ToSet(Now) : m.id > cp.spliced => m \in ToSet(cp.messages)

(* A group of which one message is folded is folded whole, and its calls have their results. *)
Whole(s, ids) ==
    \A g \in Groups(s) : (\E k \in g : s[k].id \in ids) => Covered(s, g, ids) /\ Valid(s, g)

(* As long as no process dies, neither the checkpoint nor the table is longer than the list,
   and what is folded are whole groups. *)
Quiet == count.crashes = 0 /\ (Running \/ status \in Resumable)
QuietInv ==
    Quiet => /\ Len(cp.messages) <= Len(Now) /\ Len(rows) <= Len(Now)
             /\ Whole(Now, cp.folded)

ConvInv == Types /\ MemoryInv /\ AgreeInv /\ RowsInv /\ LongerInv /\ QuietInv
-------------------------------------------------------------------------------
(* Lists of messages. *)

(* What a message is. *)
LEMMA MessageParts ==
    \A m \in Plain :
        /\ m.id \in Nat \ {0} /\ m.role \in {"user", "assistant", "tool"} /\ m.calls \in Nat
        /\ m.answers \in RealCall \cup {NoCall} /\ m.size \in Nat
        /\ (m.role = "tool" <=> m.answers # NoCall) /\ (m.role # "assistant" => m.calls = 0)
  BY DEF Plain

(* A call is none that is not. *)
LEMMA CallsAreReal ==
    /\ NoCall \notin RealCall
    /\ \A m \in Plain : CallsOf(m) \subseteq RealCall /\ (m.calls = 0 => CallsOf(m) = {})
    /\ \A m \in Plain : \A c \in CallsOf(m) : c \in RealCall
  <1>1. NoCall \notin RealCall
    BY DEF NoCall, RealCall
  <1>2. ASSUME NEW m \in Plain
        PROVE  CallsOf(m) \subseteq RealCall /\ (m.calls = 0 => CallsOf(m) = {})
    <2>1. m.id \in Nat \ {0} /\ m.calls \in Nat
      BY MessageParts
    <2>2. CallsOf(m) \subseteq RealCall
      BY <2>1 DEF CallsOf, RealCall
    <2>3. ASSUME m.calls = 0 PROVE CallsOf(m) = {}
      <3>1. 1 .. m.calls = {}
        BY <2>3
      <3> QED BY <3>1 DEF CallsOf
    <2> QED BY <2>2, <2>3
  <1> QED BY <1>1, <1>2

(* What is said is a message. *)
LEMMA Sayings ==
    /\ \A id \in Nat \ {0} : User(id) \in Plain /\ User(id).id = id /\ User(id).role = "user"
    /\ \A id \in Nat \ {0}, n \in Nat :
          LET m == Message(id, "assistant", n, NoCall, 1)
          IN m \in Plain /\ m.id = id /\ m.role = "assistant" /\ m.calls = n
    /\ \A id \in Nat \ {0}, c \in RealCall, n \in Nat :
          LET m == Message(id, "tool", 0, c, n)
          IN m \in Plain /\ m.id = id /\ m.role = "tool" /\ m.answers = c
  BY CallsAreReal DEF User, Message, Plain

(* A set of places in a list has a last. *)
LEMMA MaxIs ==
    ASSUME NEW n \in Nat, NEW S \in SUBSET (0 .. n), S # {}
    PROVE  Max(S) \in S /\ Max(S) \in Nat /\ \A x \in S : x <= Max(S)
  <1> DEFINE Above == {m \in Nat : \A x \in S : x <= m}
  <1>1. n \in Above
    OBVIOUS
  <1>2. PICK m \in Above : \A l \in Above : ~(<<l, m>> \in OpToRel(<, Nat))
    <2> HIDE DEF Above
    <2>1. Above \subseteq Nat
      BY DEF Above
    <2> QED BY <1>1, <2>1, WFMin, NatLessThanWellFounded
  <1>3. m \in Nat /\ \A x \in S : x <= m
    OBVIOUS
  <1>4. m \in S
    <2> SUFFICES ASSUME m \notin S PROVE FALSE
      OBVIOUS
    <2>1. PICK x \in S : TRUE
      OBVIOUS
    <2>2. \A y \in S : y \in Nat /\ y < m
      BY <1>3
    <2>3. m - 1 \in Nat /\ \A y \in S : y <= m - 1
      BY <1>3, <2>1, <2>2
    <2>4. <<m - 1, m>> \in OpToRel(<, Nat)
      BY <1>3, <2>3 DEF OpToRel
    <2> QED BY <1>2, <2>3, <2>4
  <1>5. \E x \in S : \A y \in S : x >= y
    BY <1>3, <1>4
  <1>6. Max(S) \in S /\ \A y \in S : Max(S) >= y
    BY <1>5 DEF Max
  <1>7. \A x \in S : x \in Nat
    OBVIOUS
  <1> QED BY <1>6, <1>7

(* The goal of a list is its last user's, and the highest number of a user. *)
LEMMA GoalIs ==
    ASSUME NEW s \in Seq(Plain), Told(s)
    PROVE  /\ LastUser(s) \in Users(s) /\ LastUser(s) \in 1 .. Len(s) /\ Goal(s) = s[LastUser(s)].id
           /\ Goal(s) \in Nat /\ s[LastUser(s)].role = "user"
           /\ \A i \in Users(s) : i <= LastUser(s) /\ s[i].id <= Goal(s)
  <1>1. Len(s) \in Nat /\ DOMAIN s = 1 .. Len(s) /\ \A i \in 1 .. Len(s) : s[i] \in Plain
    OBVIOUS
  <1>2. Users(s) \in SUBSET (0 .. Len(s)) /\ Users(s) # {}
    BY <1>1 DEF Users, Told
  <1>3. LastUser(s) = Max(Users(s))
    BY <1>1 DEF LastUser, Users
  <1>4. LastUser(s) \in Users(s) /\ \A i \in Users(s) : i <= LastUser(s)
    BY <1>1, <1>2, <1>3, MaxIs
  <1>5. LastUser(s) \in 1 .. Len(s) /\ s[LastUser(s)].role = "user"
    BY <1>4 DEF Users
  <1>6. Goal(s) = s[LastUser(s)].id /\ Goal(s) \in Nat
    BY <1>1, <1>5, MessageParts DEF Goal
  <1>7. ASSUME NEW i \in Users(s) PROVE s[i].id <= Goal(s)
    <2>1. i \in 1 .. Len(s) /\ s[i].id \in Nat
      BY <1>1, MessageParts DEF Users
    <2>2. CASE i = LastUser(s)
      BY <1>6, <2>2
    <2>3. CASE i < LastUser(s)
      <3>1. \A j \in Users(s) : i < j => s[i].id < s[j].id
        BY DEF Told
      <3>2. s[i].id < Goal(s)
        BY <1>4, <1>6, <2>3, <3>1
      <3> QED BY <1>6, <2>1, <3>2
    <2> QED BY <1>4, <1>5, <2>1, <2>2, <2>3
  <1> QED BY <1>4, <1>5, <1>6, <1>7

(* List t is s with m put in at place p. *)
With(s, t, p, m) ==
    /\ p \in 1 .. Len(s) + 1 /\ Len(t) = Len(s) + 1
    /\ \A i \in 1 .. Len(t) : t[i] = IF i < p THEN s[i] ELSE IF i = p THEN m ELSE s[i - 1]

(* Where the members of s are in t. *)
LEMMA WithPlaces ==
    ASSUME NEW S, NEW s \in Seq(S), NEW t \in Seq(S), NEW p, NEW m \in S, With(s, t, p, m)
    PROVE  /\ Len(s) \in Nat /\ p \in 1 .. Len(t) /\ t[p] = m /\ p \in Nat
           /\ \A i \in 1 .. Len(s) : i < p => i \in 1 .. Len(t) /\ t[i] = s[i]
           /\ \A i \in 1 .. Len(s) : i >= p => i + 1 \in 1 .. Len(t) /\ t[i + 1] = s[i]
           /\ \A i \in 1 .. Len(t) : i < p => i \in 1 .. Len(s) /\ t[i] = s[i]
           /\ \A i \in 1 .. Len(t) : i > p => i - 1 \in 1 .. Len(s) /\ t[i] = s[i - 1]
           /\ ToSet(t) = ToSet(s) \cup {m}
  <1>1. /\ Len(s) \in Nat /\ p \in 1 .. Len(s) + 1 /\ Len(t) = Len(s) + 1
        /\ DOMAIN s = 1 .. Len(s) /\ DOMAIN t = 1 .. Len(s) + 1
        /\ \A i \in 1 .. Len(s) + 1 : t[i] = IF i < p THEN s[i] ELSE IF i = p THEN m ELSE s[i - 1]
    BY DEF With
  <1>2. p \in 1 .. Len(t) /\ t[p] = m
    BY <1>1
  <1>3. \A i \in 1 .. Len(s) : i < p => i \in 1 .. Len(t) /\ t[i] = s[i]
    BY <1>1
  <1>4. ASSUME NEW i \in 1 .. Len(s), i >= p PROVE i + 1 \in 1 .. Len(t) /\ t[i + 1] = s[i]
    <2>1. PICK j \in 1 .. Len(s) + 1 : j = i + 1 /\ ~(j < p) /\ j # p /\ j - 1 = i
      BY <1>1, <1>4
    <2>2. t[j] = s[j - 1]
      BY <1>1, <2>1
    <2> QED BY <1>1, <2>1, <2>2
  <1>5. \A i \in 1 .. Len(t) : i < p => i \in 1 .. Len(s) /\ t[i] = s[i]
    BY <1>1
  <1>6. \A i \in 1 .. Len(t) : i > p => i - 1 \in 1 .. Len(s) /\ t[i] = s[i - 1]
    BY <1>1
  <1>7. ToSet(t) \subseteq ToSet(s) \cup {m}
    <2> SUFFICES ASSUME NEW i \in 1 .. Len(t) PROVE t[i] \in ToSet(s) \cup {m}
      BY <1>1 DEF ToSet
    <2>1. CASE i < p
      BY <1>1, <1>5, <2>1 DEF ToSet
    <2>2. CASE i = p
      BY <1>2, <2>2
    <2>3. CASE i > p
      BY <1>1, <1>6, <2>3 DEF ToSet
    <2> QED BY <1>1, <2>1, <2>2, <2>3
  <1>8. ToSet(s) \subseteq ToSet(t)
    <2> SUFFICES ASSUME NEW i \in 1 .. Len(s) PROVE s[i] \in ToSet(t)
      BY <1>1 DEF ToSet
    <2>1. CASE i < p
      BY <1>1, <1>3, <2>1 DEF ToSet
    <2>2. CASE i >= p
      <3>1. PICK j \in 1 .. Len(t) : t[j] = s[i]
        BY <1>4, <2>2
      <3> QED BY <1>1, <3>1 DEF ToSet
    <2> QED BY <1>1, <2>1, <2>2
  <1>9. m \in ToSet(t)
    BY <1>1, <1>2 DEF ToSet
  <1> QED BY <1>1, <1>2, <1>3, <1>4, <1>5, <1>6, <1>7, <1>8, <1>9

(* To append a message is to put it in at the end. *)
LEMMA AppendIs ==
    ASSUME NEW S, NEW s \in Seq(S), NEW m \in S
    PROVE  Append(s, m) \in Seq(S) /\ With(s, Append(s, m), Len(s) + 1, m)
  <1>1. /\ Append(s, m) \in Seq(S) /\ Len(s) \in Nat /\ Len(Append(s, m)) = Len(s) + 1
        /\ \A i \in 1 .. Len(s) : Append(s, m)[i] = s[i]
        /\ Append(s, m)[Len(s) + 1] = m
    OBVIOUS
  <1>2. ASSUME NEW i \in 1 .. Len(s) + 1
        PROVE  Append(s, m)[i] = IF i < Len(s) + 1 THEN s[i] ELSE IF i = Len(s) + 1 THEN m ELSE s[i - 1]
    <2>1. CASE i \in 1 .. Len(s)
      BY <1>1, <2>1
    <2>2. CASE i = Len(s) + 1
      BY <1>1, <2>2
    <2> QED BY <1>1, <2>1, <2>2
  <1> QED BY <1>1, <1>2 DEF With

(* A sequence of three parts, the middle one a single element. *)
LEMMA ThreeParts ==
    ASSUME NEW S, NEW a \in Seq(S), NEW b \in Seq(S), NEW c \in Seq(S), Len(b) = 1
    PROVE  LET r == (a \o b) \o c
           IN /\ r \in Seq(S) /\ Len(r) = Len(a) + 1 + Len(c)
              /\ \A j \in 1 .. Len(a) : r[j] = a[j]
              /\ r[Len(a) + 1] = b[1]
              /\ \A j \in 1 .. Len(c) : r[Len(a) + 1 + j] = c[j]
  <1>1. PICK h \in Seq(S) : h = a \o b
    BY ConcatProperties
  <1>2. /\ Len(h) = Len(a) + 1
        /\ \A j \in 1 .. Len(a) + 1 : h[j] = IF j <= Len(a) THEN a[j] ELSE b[j - Len(a)]
    <2>1. /\ Len(a \o b) = Len(a) + Len(b)
          /\ \A j \in 1 .. Len(a) + Len(b) : (a \o b)[j] = IF j <= Len(a) THEN a[j] ELSE b[j - Len(a)]
      BY ConcatProperties
    <2>2. Len(a) + Len(b) = Len(a) + 1
      OBVIOUS
    <2> QED BY <1>1, <2>1, <2>2
  <1>3. PICK r \in Seq(S) : r = h \o c
    BY ConcatProperties
  <1>4. /\ Len(r) = Len(h) + Len(c)
        /\ \A j \in 1 .. Len(h) + Len(c) : r[j] = IF j <= Len(h) THEN h[j] ELSE c[j - Len(h)]
    BY <1>3, ConcatProperties
  <1>5. Len(a) \in Nat /\ Len(c) \in Nat
    OBVIOUS
  <1>6. \A j \in 1 .. Len(a) : r[j] = a[j]
    BY <1>2, <1>4, <1>5
  <1>7. r[Len(a) + 1] = b[1]
    <2>1. /\ Len(a) + 1 \in 1 .. Len(a) + 1 /\ ~(Len(a) + 1 <= Len(a))
          /\ Len(a) + 1 - Len(a) = 1 /\ Len(a) + 1 \in 1 .. Len(h) + Len(c) /\ Len(a) + 1 <= Len(h)
      BY <1>2, <1>5
    <2>2. r[Len(a) + 1] = h[Len(a) + 1]
      BY <1>4, <2>1
    <2>3. h[Len(a) + 1] = b[Len(a) + 1 - Len(a)]
      BY <1>2, <2>1
    <2> QED BY <2>1, <2>2, <2>3
  <1>8. ASSUME NEW j \in 1 .. Len(c) PROVE r[Len(a) + 1 + j] = c[j]
    <2>1. j \in Nat /\ 1 <= j /\ j <= Len(c) /\ Len(h) = Len(a) + 1
      BY <1>2, <1>5
    <2>2. PICK k \in Nat : k = Len(a) + 1 + j
      BY <1>5, <2>1
    <2>3. k \in 1 .. Len(h) + Len(c) /\ ~(k <= Len(h)) /\ k - Len(h) = j
      BY <1>5, <2>1, <2>2
    <2>4. r[k] = c[k - Len(h)]
      BY <1>4, <2>3
    <2> QED BY <2>2, <2>3, <2>4
  <1>9. r = (a \o b) \o c
    BY <1>1, <1>3
  <1> QED BY <1>2, <1>3, <1>4, <1>6, <1>7, <1>8, <1>9

(* InsertAt puts an element in where it says. *)
LEMMA InsertIs ==
    ASSUME NEW S, NEW s \in Seq(S), NEW p \in 1 .. Len(s) + 1, NEW m \in S
    PROVE  InsertAt(s, p, m) \in Seq(S) /\ With(s, InsertAt(s, p, m), p, m)
  <1>1. PICK a \in Seq(S) : a = SubSeq(s, 1, p - 1) /\ Len(a) = p - 1 /\ \A j \in 1 .. p - 1 : a[j] = s[j]
    <2>1. /\ SubSeq(s, 1, p - 1) \in Seq(S) /\ Len(SubSeq(s, 1, p - 1)) = p - 1
          /\ \A j \in 1 .. p - 1 : SubSeq(s, 1, p - 1)[j] = s[j]
      OBVIOUS
    <2> QED BY <2>1
  <1>2. PICK c \in Seq(S) : /\ c = SubSeq(s, p, Len(s)) /\ Len(c) = Len(s) - p + 1
                            /\ \A j \in 1 .. Len(s) - p + 1 : c[j] = s[j + p - 1]
    <2>1. /\ SubSeq(s, p, Len(s)) \in Seq(S) /\ Len(SubSeq(s, p, Len(s))) = Len(s) - p + 1
          /\ \A j \in 1 .. Len(s) - p + 1 : SubSeq(s, p, Len(s))[j] = s[j + p - 1]
      OBVIOUS
    <2> QED BY <2>1
  <1>3. PICK b \in Seq(S) : b = <<m>> /\ Len(b) = 1 /\ b[1] = m
    <2>1. <<m>> \in Seq(S) /\ Len(<<m>>) = 1 /\ <<m>>[1] = m
      OBVIOUS
    <2> QED BY <2>1
  <1>4. InsertAt(s, p, m) = (a \o b) \o c
    BY <1>1, <1>2, <1>3 DEF InsertAt
  <1>5. PICK r \in Seq(S) :
            /\ r = InsertAt(s, p, m) /\ Len(r) = Len(a) + 1 + Len(c)
            /\ \A j \in 1 .. Len(a) : r[j] = a[j]
            /\ r[Len(a) + 1] = b[1]
            /\ \A j \in 1 .. Len(c) : r[Len(a) + 1 + j] = c[j]
    <2> DEFINE R == (a \o b) \o c
    <2>1. /\ R \in Seq(S) /\ Len(R) = Len(a) + 1 + Len(c)
          /\ \A j \in 1 .. Len(a) : R[j] = a[j]
          /\ R[Len(a) + 1] = b[1]
          /\ \A j \in 1 .. Len(c) : R[Len(a) + 1 + j] = c[j]
      BY <1>3, ThreeParts
    <2> HIDE DEF R
    <2>2. R = InsertAt(s, p, m)
      BY <1>4 DEF R
    <2> QED BY <2>1, <2>2
  <1>6. Len(s) \in Nat /\ p \in Nat /\ p \in 1 .. Len(s) + 1 /\ Len(r) = Len(s) + 1
    BY <1>1, <1>2, <1>5
  <1>7. ASSUME NEW j \in 1 .. Len(r)
        PROVE  r[j] = IF j < p THEN s[j] ELSE IF j = p THEN m ELSE s[j - 1]
    <2>1. CASE j < p
      <3>1. j \in 1 .. p - 1
        BY <1>6, <2>1
      <3> QED BY <1>1, <1>5, <2>1, <3>1
    <2>2. CASE j = p
      <3>1. Len(a) + 1 = p /\ ~(j < p)
        BY <1>1, <1>6, <2>2
      <3> QED BY <1>3, <1>5, <2>2, <3>1
    <2>3. CASE j > p
      <3>1. PICK i \in 1 .. Len(c) : j = Len(a) + 1 + i /\ i \in 1 .. Len(s) - p + 1 /\ i + p - 1 = j - 1
        <4>1. j - p \in 1 .. Len(c) /\ j = Len(a) + 1 + (j - p) /\ (j - p) + p - 1 = j - 1
          BY <1>1, <1>2, <1>6, <2>3
        <4> QED BY <1>2, <4>1
      <3>2. r[j] = c[i] /\ c[i] = s[j - 1]
        BY <1>2, <1>5, <3>1
      <3>3. ~(j < p) /\ j # p
        BY <1>6, <2>3
      <3> QED BY <3>2, <3>3
    <2> QED BY <1>6, <2>1, <2>2, <2>3
  <1> QED BY <1>5, <1>6, <1>7 DEF With

(* The goal is the user's message with the highest number. *)
LEMMA GoalHighest ==
    ASSUME NEW s \in Seq(Plain), Told(s), NEW k \in Users(s), \A i \in Users(s) : s[i].id <= s[k].id
    PROVE  Goal(s) = s[k].id
  <1>1. LastUser(s) \in Users(s) /\ Goal(s) = s[LastUser(s)].id /\ Goal(s) \in Nat /\ s[k].id <= Goal(s)
    BY GoalIs
  <1>2. k \in 1 .. Len(s) /\ s[k] \in Plain
    BY DEF Users
  <1>3. s[k].id \in Nat /\ Goal(s) <= s[k].id
    BY <1>1, <1>2, MessageParts
  <1> QED BY <1>1, <1>3

(* Every message has a place. *)
LEMMA Places ==
    \A s \in Seq(Plain) :
        /\ Len(s) \in Nat /\ DOMAIN s = 1 .. Len(s)
        /\ \A m : m \in ToSet(s) <=> \E i \in 1 .. Len(s) : s[i] = m
        /\ \A i \in 1 .. Len(s) : s[i] \in Plain /\ s[i] \in ToSet(s)
        /\ ToSet(s) \subseteq Plain
  BY DEF ToSet

(* A message with a number above all others, a user's after all users', keeps the story told. *)
LEMMA ToldWith ==
    ASSUME NEW s \in Seq(Plain), NEW t \in Seq(Plain), NEW p, NEW m \in Plain, With(s, t, p, m), Told(s),
           \A i \in 1 .. Len(s) : s[i].id < m.id,
           m.role = "user" => \A i \in Users(s) : i < p
    PROVE  /\ Told(t)
           /\ m.role = "user" => Goal(t) = m.id
           /\ m.role # "user" => Goal(t) = Goal(s)
  <1>1. /\ Len(s) \in Nat /\ p \in 1 .. Len(t) /\ t[p] = m /\ p \in Nat /\ Len(t) \in Nat
        /\ \A i \in 1 .. Len(s) : i < p => i \in 1 .. Len(t) /\ t[i] = s[i]
        /\ \A i \in 1 .. Len(s) : i >= p => i + 1 \in 1 .. Len(t) /\ t[i + 1] = s[i]
        /\ \A i \in 1 .. Len(t) : i < p => i \in 1 .. Len(s) /\ t[i] = s[i]
        /\ \A i \in 1 .. Len(t) : i > p => i - 1 \in 1 .. Len(s) /\ t[i] = s[i - 1]
    BY WithPlaces, Places
  <1>2. m.id \in Nat /\ \A i \in 1 .. Len(s) : s[i].id \in Nat /\ s[i].id # m.id
    BY Places, MessageParts
  <1> DEFINE Old(i, k) == /\ k \in 1 .. Len(s) /\ t[i] = s[k] /\ i # p
                          /\ (i < p /\ k = i) \/ (i > p /\ i = k + 1)
  <1>3. ASSUME NEW i \in 1 .. Len(t), i # p PROVE \E k \in 1 .. Len(s) : Old(i, k)
    <2>1. CASE i < p
      BY <1>1, <1>3, <2>1
    <2>2. CASE i > p
      <3>1. i - 1 \in 1 .. Len(s) /\ t[i] = s[i - 1] /\ i = (i - 1) + 1
        BY <1>1, <2>2
      <3> QED BY <1>3, <2>2, <3>1
    <2> QED BY <1>1, <1>3, <2>1, <2>2
  <1>4. ASSUME NEW k \in 1 .. Len(s) PROVE \E i \in 1 .. Len(t) : Old(i, k)
    <2>1. CASE k < p
      BY <1>1, <2>1
    <2>2. CASE k >= p
      <3>1. k + 1 \in 1 .. Len(t) /\ t[k + 1] = s[k] /\ k + 1 > p
        BY <1>1, <2>2
      <3> QED BY <1>1, <3>1
    <2> QED BY <1>1, <2>1, <2>2
  <1>5. ASSUME NEW i \in 1 .. Len(t), NEW j \in 1 .. Len(t), NEW k \in 1 .. Len(s), NEW l \in 1 .. Len(s),
               Old(i, k), Old(j, l)
        PROVE  (i = j <=> k = l) /\ (i < j <=> k < l)
    BY <1>1, <1>5
  <1>6. ASSUME NEW i \in 1 .. Len(t), NEW j \in 1 .. Len(t), t[i].id = t[j].id PROVE i = j
    <2>1. CASE i = p /\ j # p
      <3>1. PICK l \in 1 .. Len(s) : t[j] = s[l]
        BY <1>3, <2>1
      <3> QED BY <1>1, <1>2, <1>6, <2>1, <3>1
    <2>2. CASE i # p /\ j = p
      <3>1. PICK l \in 1 .. Len(s) : t[i] = s[l]
        BY <1>3, <2>2
      <3> QED BY <1>1, <1>2, <1>6, <2>2, <3>1
    <2>3. CASE i # p /\ j # p
      <3>1. PICK k \in 1 .. Len(s) : Old(i, k)
        BY <1>3, <2>3
      <3>2. PICK l \in 1 .. Len(s) : Old(j, l)
        BY <1>3, <2>3
      <3>3. s[k].id = s[l].id
        BY <1>6, <3>1, <3>2
      <3>4. k = l
        BY <3>3 DEF Told
      <3> HIDE DEF Old
      <3> QED BY <1>5, <3>1, <3>2, <3>4
    <2> QED BY <2>1, <2>2, <2>3
  <1>7. \A i \in 1 .. Len(t) : i \in Users(t) <=> t[i].role = "user"
    BY DEF Users
  <1>8. \A i \in 1 .. Len(s) : i \in Users(s) <=> s[i].role = "user"
    BY DEF Users
  <1>9. Users(t) \subseteq 1 .. Len(t) /\ Users(s) \subseteq 1 .. Len(s)
    BY DEF Users
  <1>10. ASSUME NEW i \in Users(t), NEW j \in Users(t), i < j PROVE t[i].id < t[j].id
    <2>1. CASE i = p
      <3>1. PICK l \in 1 .. Len(s) : Old(j, l)
        BY <1>1, <1>3, <1>9, <1>10, <2>1
      <3>2. l \in Users(s) /\ m.role = "user" /\ l < p
        BY <1>1, <1>7, <1>8, <1>9, <2>1, <3>1
      <3> QED BY <1>1, <1>9, <1>10, <2>1, <3>1, <3>2
    <2>2. CASE i # p /\ j = p
      <3>1. PICK l \in 1 .. Len(s) : t[i] = s[l]
        BY <1>3, <1>9, <2>2
      <3> QED BY <1>1, <2>2, <3>1
    <2>3. CASE i # p /\ j # p
      <3>1. PICK k \in 1 .. Len(s) : Old(i, k)
        BY <1>3, <1>9, <2>3
      <3>2. PICK l \in 1 .. Len(s) : Old(j, l)
        BY <1>3, <1>9, <2>3
      <3>3. k < l
        <4> HIDE DEF Old
        <4> QED BY <1>5, <1>9, <1>10, <3>1, <3>2
      <3>4. k \in Users(s) /\ l \in Users(s)
        BY <1>7, <1>8, <1>9, <3>1, <3>2
      <3> QED BY <3>1, <3>2, <3>3, <3>4 DEF Told
    <2> QED BY <2>1, <2>2, <2>3
  <1>11. PICK u \in Users(s) : u = LastUser(s) /\ Goal(s) = s[u].id /\ \A i \in Users(s) : s[i].id <= Goal(s)
    BY GoalIs
  <1>12. PICK v \in 1 .. Len(t) : Old(v, u)
    BY <1>4, <1>9
  <1>13. v \in Users(t) /\ t[v].id = Goal(s) /\ v # p
    BY <1>7, <1>8, <1>9, <1>11, <1>12
  <1>14. Told(t)
    BY <1>6, <1>9, <1>10, <1>13 DEF Told
  <1>15. \A i \in Users(t) : i = p \/ \E k \in Users(s) : t[i] = s[k]
    <2> SUFFICES ASSUME NEW i \in Users(t), i # p PROVE \E k \in Users(s) : t[i] = s[k]
      OBVIOUS
    <2>1. PICK k \in 1 .. Len(s) : t[i] = s[k]
      BY <1>3, <1>9
    <2> QED BY <1>7, <1>8, <1>9, <2>1
  <1>16. ASSUME m.role = "user" PROVE Goal(t) = m.id
    <2>1. p \in Users(t)
      BY <1>1, <1>7, <1>16
    <2>2. ASSUME NEW i \in Users(t) PROVE t[i].id <= t[p].id
      <3>1. CASE i = p
        BY <1>1, <1>2, <3>1
      <3>2. CASE i # p
        <4>1. PICK k \in 1 .. Len(s) : t[i].id = s[k].id
          BY <1>9, <1>15, <3>2
        <4>2. s[k].id < m.id /\ s[k].id \in Nat
          BY <1>2
        <4>3. s[k].id <= m.id
          BY <1>2, <4>2
        <4> QED BY <1>1, <4>1, <4>3
      <3> QED BY <3>1, <3>2
    <2> QED BY <1>1, <1>14, <2>1, <2>2, GoalHighest
  <1>17. ASSUME m.role # "user" PROVE Goal(t) = Goal(s)
    <2>1. p \notin Users(t)
      BY <1>1, <1>7, <1>17
    <2>2. \A i \in Users(t) : t[i].id <= t[v].id
      BY <1>11, <1>13, <1>15, <2>1
    <2> QED BY <1>13, <1>14, <2>2, GoalHighest
  <1> QED BY <1>14, <1>16, <1>17


-------------------------------------------------------------------------------
(* Groups. *)

(* The message at i is in nobody's group, and what follows it in its own. *)
Leads(s, i) == \A j \in 1 .. i - 1 : ~Within(s, j, i)
Group(s, i) == {i} \cup {k \in 1 .. Len(s) : Within(s, i, k)}

(* A result is in the group of the call it answers, and makes no calls. *)
LEMMA ResultsAnswer ==
    ASSUME NEW s \in Seq(Plain), NEW i \in 1 .. Len(s), NEW k \in 1 .. Len(s), Within(s, i, k)
    PROVE  /\ i < k /\ s[k].answers \in CallsOf(s[i]) /\ s[k].answers \in RealCall /\ s[k].answers # NoCall
           /\ s[k].role = "tool" /\ s[k].role # "user" /\ CallsOf(s[k]) = {}
           /\ \A n \in i + 1 .. k : s[n].answers \in CallsOf(s[i])
  <1>1. Len(s) \in Nat /\ s[i] \in Plain /\ s[k] \in Plain
    BY Places
  <1>2. i < k /\ \A n \in i + 1 .. k : s[n].answers \in CallsOf(s[i])
    BY DEF Within
  <1>3. k \in i + 1 .. k
    BY <1>1, <1>2
  <1>4. s[k].answers \in CallsOf(s[i])
    BY <1>2, <1>3
  <1>5. s[k].answers \in RealCall /\ s[k].answers # NoCall
    BY <1>1, <1>4, CallsAreReal
  <1>6. s[k].role = "tool" /\ s[k].calls = 0 /\ s[k].role # "user"
    BY <1>1, <1>5, MessageParts
  <1>7. CallsOf(s[k]) = {}
    BY <1>1, <1>6, CallsAreReal
  <1> QED BY <1>2, <1>4, <1>5, <1>6, <1>7

(* What a group is. *)
LEMMA GroupParts ==
    ASSUME NEW s \in Seq(Plain), NEW g \in Groups(s)
    PROVE  \E i \in 1 .. Len(s) :
              /\ Leads(s, i) /\ g = Group(s, i) /\ i \in g /\ g \subseteq 1 .. Len(s) /\ Min(g) = i
              /\ \A k \in g : i <= k /\ (k = i \/ Within(s, i, k))
  <1>1. Len(s) \in Nat /\ DOMAIN s = 1 .. Len(s)
    BY Places
  <1>2. PICK i \in 1 .. Len(s) : Leads(s, i) /\ g = {i} \cup {k \in DOMAIN s : Within(s, i, k)}
    BY <1>1 DEF Groups, Leads
  <1>3. g = Group(s, i) /\ i \in g /\ g \subseteq 1 .. Len(s)
    BY <1>1, <1>2 DEF Group
  <1>4. \A k \in g : k \in 1 .. Len(s) /\ i <= k /\ (k = i \/ Within(s, i, k))
    <2> SUFFICES ASSUME NEW k \in g PROVE k \in 1 .. Len(s) /\ i <= k /\ (k = i \/ Within(s, i, k))
      OBVIOUS
    <2>1. k \in 1 .. Len(s) /\ (k = i \/ Within(s, i, k))
      BY <1>1, <1>2
    <2>2. CASE k = i
      BY <1>1, <2>1, <2>2
    <2>3. CASE Within(s, i, k)
      <3>1. i < k
        BY <2>1, <2>3, ResultsAnswer
      <3> QED BY <1>1, <2>1, <3>1
    <2> QED BY <2>1, <2>2, <2>3
  <1>5. Min(g) = i
    <2>1. Min(g) \in g /\ \A k \in g : Min(g) <= k
      BY <1>3, <1>4 DEF Min
    <2>2. Min(g) \in 1 .. Len(s) /\ Min(g) <= i /\ i <= Min(g)
      BY <1>3, <1>4, <2>1
    <2> QED BY <1>1, <2>2
  <1> QED BY <1>2, <1>3, <1>4, <1>5

(* Groups are what their leaders make them. *)
LEMMA LeadersLead ==
    ASSUME NEW s \in Seq(Plain), NEW i \in 1 .. Len(s), Leads(s, i)
    PROVE  Group(s, i) \in Groups(s)
  <1>1. DOMAIN s = 1 .. Len(s)
    BY Places
  <1> QED BY <1>1 DEF Groups, Group, Leads

(* A message is in one group. *)
LEMMA GroupsApart ==
    ASSUME NEW s \in Seq(Plain), NEW g \in Groups(s), NEW h \in Groups(s), NEW k, k \in g, k \in h
    PROVE  g = h
  <1>1. PICK i \in 1 .. Len(s) : /\ Leads(s, i) /\ g = Group(s, i) /\ g \subseteq 1 .. Len(s)
                                /\ \A n \in g : i <= n /\ (n = i \/ Within(s, i, n))
    BY GroupParts
  <1>2. PICK j \in 1 .. Len(s) : /\ Leads(s, j) /\ h = Group(s, j)
                                /\ \A n \in h : j <= n /\ (n = j \/ Within(s, j, n))
    BY GroupParts
  <1>3. k \in 1 .. Len(s) /\ i <= k /\ j <= k /\ (k = i \/ Within(s, i, k)) /\ (k = j \/ Within(s, j, k))
    BY <1>1, <1>2
  <1>4. Len(s) \in Nat
    BY Places
  <1>5. ASSUME NEW a \in 1 .. Len(s), NEW b \in 1 .. Len(s), a < b, b <= k, Leads(s, b), k = a \/ Within(s, a, k)
        PROVE  FALSE
    <2>1. Within(s, a, k)
      BY <1>3, <1>4, <1>5
    <2>2. \A n \in a + 1 .. k : s[n].answers \in CallsOf(s[a])
      BY <2>1 DEF Within
    <2>3. \A n \in a + 1 .. b : n \in a + 1 .. k
      BY <1>3, <1>4, <1>5
    <2>4. Within(s, a, b)
      BY <1>5, <2>2, <2>3 DEF Within
    <2>5. a \in 1 .. b - 1
      BY <1>4, <1>5
    <2> QED BY <1>5, <2>4, <2>5 DEF Leads
  <1>6. ~(i < j) /\ ~(j < i)
    BY <1>1, <1>2, <1>3, <1>5
  <1>7. i = j
    BY <1>4, <1>6
  <1> QED BY <1>1, <1>2, <1>7

(* What a user said is a group by itself, which can be sent. *)
LEMMA UsersAlone ==
    ASSUME NEW s \in Seq(Plain), NEW i \in Users(s)
    PROVE  {i} \in Groups(s) /\ Valid(s, {i}) /\ Max({i}) = i /\ Min({i}) = i
  <1>1. Len(s) \in Nat /\ DOMAIN s = 1 .. Len(s) /\ i \in 1 .. Len(s) /\ s[i] \in Plain /\ s[i].role = "user"
    BY Places DEF Users
  <1>2. CallsOf(s[i]) = {}
    <2>1. s[i].calls = 0
      BY <1>1, MessageParts
    <2> QED BY <1>1, <2>1, CallsAreReal
  <1>3. Leads(s, i)
    <2> SUFFICES ASSUME NEW j \in 1 .. i - 1, Within(s, j, i) PROVE FALSE
      BY DEF Leads
    <2>1. j \in 1 .. Len(s)
      BY <1>1
    <2> QED BY <1>1, <2>1, ResultsAnswer
  <1>4. \A k \in 1 .. Len(s) : ~Within(s, i, k)
    <2> SUFFICES ASSUME NEW k \in 1 .. Len(s), Within(s, i, k) PROVE FALSE
      OBVIOUS
    <2>1. s[k].answers \in CallsOf(s[i])
      BY <1>1, ResultsAnswer
    <2> QED BY <1>2, <2>1
  <1>5. Group(s, i) = {i}
    BY <1>4 DEF Group
  <1>6. {i} \in Groups(s)
    BY <1>1, <1>3, <1>5, LeadersLead
  <1>7. Max({i}) = i /\ Min({i}) = i
    <2>1. i <= i /\ i >= i
      BY <1>1
    <2> QED BY <2>1 DEF Max, Min
  <1>8. {s[k].answers : k \in {i} \ {Min({i})}} = {}
    BY <1>7
  <1>9. s[Min({i})].role # "tool" /\ CallsOf(s[Min({i})]) = {}
    BY <1>1, <1>2, <1>7
  <1>10. Valid(s, {i})
    BY <1>8, <1>9 DEF Valid
  <1> QED BY <1>6, <1>7, <1>10


(* The goal that is worked on is sent, unless it was folded: no budget takes it away. *)
LEMMA GoalStays ==
    ASSUME NEW s \in Seq(Plain), Told(s), NEW ids, Goal(s) \notin ids
    PROVE  {LastUser(s)} \in Sent(s, ids)
  <1>1. PICK u \in Users(s) : u = LastUser(s) /\ Goal(s) = s[u].id
    BY GoalIs
  <1>2. {u} \in Groups(s) /\ Valid(s, {u}) /\ Max({u}) = u
    BY UsersAlone
  <1>3. ~Covered(s, {u}, ids)
    BY <1>1 DEF Covered
  <1>4. {u} \in Live(s, ids)
    BY <1>2, <1>3 DEF Live
  <1>5. u \in Nat
    BY <1>1, Places DEF Users
  <1>6. ~(Max({u}) < LastUser(s))
    BY <1>1, <1>2, <1>5
  <1>7. {u} \notin Dropped(s, ids)
    BY <1>6 DEF Dropped
  <1> QED BY <1>1, <1>4, <1>7 DEF Sent

(* What is sent are groups that can be sent and that the summary does not cover. *)
LEMMA SentIsLive ==
    ASSUME NEW s, NEW ids
    PROVE  \A g \in Sent(s, ids) : g \in Groups(s) /\ Valid(s, g) /\ ~Covered(s, g, ids)
  BY DEF Sent, Live

(* Whole groups hold the results of all their calls and no others. *)
LEMMA ValidPairs ==
    ASSUME NEW s \in Seq(Plain), NEW G \in SUBSET Groups(s), \A g \in G : Valid(s, g)
    PROVE  LET k == UNION G
           IN UNION {CallsOf(s[i]) : i \in k} = {s[i].answers : i \in k} \ {NoCall}
  <1> DEFINE Led(g, i) == /\ s[i].answers = NoCall
                          /\ CallsOf(s[i]) = {s[k].answers : k \in g \ {i}}
                          /\ \A k \in g \ {i} : CallsOf(s[k]) = {} /\ s[k].answers # NoCall
  <1>1. ASSUME NEW g \in G
        PROVE  \E i \in g : Led(g, i)
    <2>1. PICK i \in 1 .. Len(s) : /\ i \in g /\ g \subseteq 1 .. Len(s) /\ Min(g) = i
                                  /\ \A k \in g : k = i \/ Within(s, i, k)
      BY GroupParts
    <2>2. s[i].role # "tool" /\ CallsOf(s[i]) = {s[k].answers : k \in g \ {i}}
      BY <1>1, <2>1 DEF Valid
    <2>3. s[i] \in Plain
      BY <2>1, Places
    <2>4. s[i].answers = NoCall
      BY <2>2, <2>3, MessageParts
    <2>5. \A k \in g \ {i} : CallsOf(s[k]) = {} /\ s[k].answers # NoCall
      BY <2>1, ResultsAnswer
    <2>6. Led(g, i)
      BY <2>2, <2>4, <2>5
    <2> HIDE DEF Led
    <2> QED BY <2>1, <2>6
  <1>2. ASSUME NEW g \in G, NEW n \in g, NEW c \in CallsOf(s[n])
        PROVE  c # NoCall /\ \E k \in g : s[k].answers = c
    <2>1. PICK i \in g : Led(g, i)
      <3> HIDE DEF Led
      <3> QED BY <1>1
    <2>2. n = i
      BY <1>2, <2>1
    <2>3. c \in {s[k].answers : k \in g \ {i}}
      BY <1>2, <2>1, <2>2
    <2> QED BY <2>1, <2>3
  <1>3. ASSUME NEW g \in G, NEW n \in g, s[n].answers # NoCall
        PROVE  \E k \in g : s[n].answers \in CallsOf(s[k])
    <2>1. PICK i \in g : Led(g, i)
      <3> HIDE DEF Led
      <3> QED BY <1>1
    <2>2. n \in g \ {i}
      BY <1>3, <2>1
    <2> QED BY <2>1, <2>2
  <1> DEFINE k == UNION G
  <1>4. ASSUME NEW c \in UNION {CallsOf(s[i]) : i \in k} PROVE c \in {s[i].answers : i \in k} \ {NoCall}
    <2>1. PICK g \in G : \E n \in g : c \in CallsOf(s[n])
      BY <1>4
    <2>2. c # NoCall /\ \E i \in g : s[i].answers = c
      BY <1>2, <2>1
    <2> QED BY <2>2
  <1>5. ASSUME NEW c \in {s[i].answers : i \in k} \ {NoCall} PROVE c \in UNION {CallsOf(s[i]) : i \in k}
    <2>1. PICK g \in G : \E n \in g : c = s[n].answers
      BY <1>5
    <2>2. \E i \in g : c \in CallsOf(s[i])
      BY <1>3, <1>5, <2>1
    <2> QED BY <2>2
  <1>6. UNION {CallsOf(s[i]) : i \in k} = {s[i].answers : i \in k} \ {NoCall}
    <2> HIDE DEF k
    <2> QED BY <1>4, <1>5
  <1> QED BY <1>6

(* A message that answers no call, or one that has no result yet, and that is not folded
   changes no group that is. *)
LEMMA AppendWhole ==
    ASSUME NEW s \in Seq(Plain), NEW m \in Plain, NEW ids, Whole(s, ids), m.id \notin ids,
           m.answers # NoCall => \A i \in 1 .. Len(s) : s[i].answers # m.answers
    PROVE  Whole(Append(s, m), ids)
  <1>1. PICK t \in Seq(Plain) :
            /\ t = Append(s, m) /\ Len(t) = Len(s) + 1 /\ t[Len(s) + 1] = m
            /\ \A i \in 1 .. Len(s) : t[i] = s[i]
    <2>1. /\ Append(s, m) \in Seq(Plain) /\ Len(Append(s, m)) = Len(s) + 1
          /\ \A i \in 1 .. Len(s) : Append(s, m)[i] = s[i]
          /\ Append(s, m)[Len(s) + 1] = m
      OBVIOUS
    <2> QED BY <2>1
  <1>2. Len(s) \in Nat
    BY Places
  <1>3. ASSUME NEW i \in 1 .. Len(s), NEW k \in 1 .. Len(s)
        PROVE  Within(t, i, k) <=> Within(s, i, k)
    <2>1. \A n \in i + 1 .. k : t[n] = s[n]
      BY <1>1, <1>2, <1>3
    <2>2. t[i] = s[i]
      BY <1>1, <1>3
    <2> QED BY <2>1, <2>2 DEF Within
  <1> SUFFICES ASSUME NEW g \in Groups(t), NEW k \in g, t[k].id \in ids
               PROVE  Covered(t, g, ids) /\ Valid(t, g)
    BY <1>1 DEF Whole
  <1>4. PICK i \in 1 .. Len(t) :
            /\ Leads(t, i) /\ g = Group(t, i) /\ i \in g /\ g \subseteq 1 .. Len(t) /\ Min(g) = i
            /\ \A n \in g : i <= n /\ (n = i \/ Within(t, i, n))
    BY GroupParts
  <1>5. k \in 1 .. Len(s) /\ i \in 1 .. Len(s)
    <2>1. k # Len(s) + 1
      BY <1>1
    <2>2. k \in 1 .. Len(s) + 1 /\ i <= k /\ i \in 1 .. Len(s) + 1
      BY <1>1, <1>4
    <2> QED BY <1>2, <2>1, <2>2
  <1>6. Leads(s, i)
    <2> SUFFICES ASSUME NEW j \in 1 .. i - 1, Within(s, j, i) PROVE FALSE
      BY DEF Leads
    <2>1. j \in 1 .. Len(s)
      BY <1>2, <1>5
    <2>2. Within(t, j, i)
      BY <1>3, <1>5, <2>1
    <2> QED BY <1>4, <2>2 DEF Leads
  <1>7. PICK h \in Groups(s) : h = Group(s, i)
    BY <1>5, <1>6, LeadersLead
  <1>8. /\ h \subseteq 1 .. Len(s) /\ i \in h /\ Min(h) = i /\ k \in h
    <2>1. h \subseteq 1 .. Len(s) /\ i \in h
      BY <1>5, <1>7 DEF Group
    <2>2. PICK j \in 1 .. Len(s) : h = Group(s, j) /\ j \in h /\ Min(h) = j /\ \A n \in h : j <= n
      BY GroupParts
    <2>3. j = i
      <3>1. j = i \/ Within(s, i, j)
        BY <1>7, <2>2 DEF Group
      <3>2. Within(s, i, j) => i < j
        BY <1>5, ResultsAnswer
      <3>3. j <= i
        BY <2>1, <2>2
      <3> QED BY <1>2, <1>5, <3>1, <3>2, <3>3
    <2>4. k = i \/ Within(s, i, k)
      BY <1>3, <1>4, <1>5
    <2>5. k \in h
      BY <1>5, <1>7, <2>4 DEF Group
    <2> QED BY <2>1, <2>2, <2>3, <2>5
  <1>9. Covered(s, h, ids) /\ Valid(s, h)
    <2>1. s[k].id \in ids
      BY <1>1, <1>5
    <2> QED BY <1>7, <1>8, <2>1 DEF Whole
  <1>10. s[i].role # "tool" /\ CallsOf(s[i]) = {s[n].answers : n \in h \ {i}}
    BY <1>8, <1>9 DEF Valid
  <1>11. Len(s) + 1 \notin g
    <2> SUFFICES ASSUME Len(s) + 1 \in g PROVE FALSE
      OBVIOUS
    <2>1. Len(s) + 1 # i
      BY <1>2, <1>5
    <2>2. Within(t, i, Len(s) + 1) /\ Len(s) + 1 \in 1 .. Len(t)
      BY <1>4, <2>1
    <2>3. t[Len(s) + 1].answers \in CallsOf(t[i]) /\ t[Len(s) + 1].answers # NoCall
      BY <2>2, ResultsAnswer
    <2>4. m.answers \in CallsOf(s[i]) /\ m.answers # NoCall
      BY <1>1, <1>5, <2>3
    <2>5. PICK n \in h : m.answers = s[n].answers
      BY <1>10, <2>4
    <2> QED BY <1>8, <2>4, <2>5
  <1>12. g = h
    <2>1. g \subseteq 1 .. Len(s)
      <3> SUFFICES ASSUME NEW n \in g PROVE n \in 1 .. Len(s)
        OBVIOUS
      <3>1. n \in 1 .. Len(s) + 1 /\ n # Len(s) + 1
        BY <1>1, <1>4, <1>11
      <3> QED BY <1>2, <3>1
    <2>2. g = {i} \cup {n \in 1 .. Len(t) : Within(t, i, n)}
      BY <1>4 DEF Group
    <2>3. h = {i} \cup {n \in 1 .. Len(s) : Within(s, i, n)}
      BY <1>7 DEF Group
    <2>4. 1 .. Len(s) \subseteq 1 .. Len(t)
      BY <1>1, <1>2
    <2>5. \A n \in 1 .. Len(s) : Within(t, i, n) <=> Within(s, i, n)
      BY <1>3, <1>5
    <2>6. \A n \in 1 .. Len(s) : n \in g <=> n \in h
      BY <2>2, <2>3, <2>4, <2>5
    <2> QED BY <1>8, <2>1, <2>6
  <1>13. \A n \in g : t[n] = s[n]
    BY <1>1, <1>8, <1>12
  <1>14. Covered(t, g, ids)
    BY <1>9, <1>12, <1>13 DEF Covered
  <1>15. {t[n].answers : n \in g \ {i}} = {s[n].answers : n \in h \ {i}}
    BY <1>12, <1>13
  <1>16. t[i] = s[i]
    BY <1>1, <1>5
  <1>17. Valid(t, g)
    BY <1>4, <1>10, <1>15, <1>16 DEF Valid
  <1> QED BY <1>14, <1>17

(* Compaction folds groups that can be sent, and never that of the goal. *)
LEMMA FoldsAre ==
    ASSUME NEW s, NEW ids
    PROVE  \A g \in Folds(s, ids) : g \in Groups(s) /\ Valid(s, g) /\ LastUser(s) \notin g
  BY DEF Folds, Live

(* The numbers that are folded are those of messages in the groups that are. *)
LEMMA FoldedIds ==
    ASSUME NEW s \in Seq(Plain), NEW G \in SUBSET Groups(s)
    PROVE  \A id \in Ids(s, G) : \E g \in G : \E k \in g : k \in 1 .. Len(s) /\ s[k].id = id
  <1> SUFFICES ASSUME NEW id \in Ids(s, G)
               PROVE  \E g \in G : \E k \in g : k \in 1 .. Len(s) /\ s[k].id = id
    OBVIOUS
  <1>1. PICK g \in G : \E k \in g : s[k].id = id
    BY DEF Ids
  <1>2. g \subseteq 1 .. Len(s)
    BY GroupParts
  <1> QED BY <1>1, <1>2

(* What was folded in whole groups still is after a compaction. *)
LEMMA FoldsWhole ==
    ASSUME NEW s \in Seq(Plain), Told(s), NEW ids, Whole(s, ids)
    PROVE  Whole(s, ids \cup Ids(s, Folds(s, ids)))
  <1> DEFINE F == Folds(s, ids)
             new == Ids(s, F)
  <1>1. \A g \in F : g \in Groups(s) /\ Valid(s, g)
    BY FoldsAre
  <1> HIDE DEF F
  <1> SUFFICES ASSUME NEW g \in Groups(s), NEW k \in g, s[k].id \in ids \cup new
               PROVE  Covered(s, g, ids \cup new) /\ Valid(s, g)
    BY DEF Whole, F
  <1>2. CASE s[k].id \in ids
    <2>1. Covered(s, g, ids) /\ Valid(s, g)
      BY <1>2 DEF Whole
    <2>2. Covered(s, g, ids \cup new)
      BY <2>1 DEF Covered
    <2> QED BY <2>1, <2>2
  <1>3. CASE s[k].id \in new
    <2>1. PICK h \in F : \E n \in h : n \in 1 .. Len(s) /\ s[n].id = s[k].id
      BY <1>1, <1>3, FoldedIds
    <2>2. k \in 1 .. Len(s)
      BY GroupParts
    <2>3. k \in h
      BY <2>1, <2>2 DEF Told
    <2>4. g = h /\ Valid(s, g)
      BY <1>1, <2>1, <2>3, GroupsApart
    <2>5. Covered(s, g, ids \cup new)
      BY <2>1, <2>4 DEF Covered, Ids
    <2> QED BY <2>4, <2>5
  <1> QED BY <1>2, <1>3


-------------------------------------------------------------------------------
(* What is known of the lists, step by step. *)

(* A message with the next number that is appended to the list and put in the table. *)
LEMMA AgreeAppend ==
    ASSUME NEW s \in Seq(Plain), NEW c \in Seq(Plain), NEW t \in Seq(Plain), NEW u \in Seq(Plain),
           NEW ids \in SUBSET Nat, NEW l \in Nat, NEW sp, NEW m \in Plain, m.id = l + 1, NEW p, With(t, u, p, m),
           Agree(s, c, t, ids, l, sp), m.role = "user" => \A i \in Users(t) : i < p
    PROVE  Agree(Append(s, m), c, u, ids, l + 1, sp)
  <1> DEFINE said == ToSet(s) \cup ToSet(c) \cup ToSet(t)
  <1>1. /\ Told(s) /\ Told(c) /\ Told(t)
        /\ Known(said, t, l, sp)
        /\ \A x, y \in said : x.id = y.id => x = y
        /\ Goal(s) \notin ids /\ Goal(c) \notin ids /\ Goal(t) \notin ids
        /\ \A id \in ids : id <= l
    BY DEF Agree
  <1>2. PICK r \in Seq(Plain) : \E q : q = Len(s) + 1 /\ r = Append(s, m) /\ With(s, r, q, m)
    BY AppendIs
  <1> PICK q : q = Len(s) + 1 /\ With(s, r, q, m)
    BY <1>2
  <1>3. ToSet(r) = ToSet(s) \cup {m} /\ ToSet(u) = ToSet(t) \cup {m}
    <2>1. ToSet(r) = ToSet(s) \cup {m}
      BY WithPlaces
    <2>2. ToSet(u) = ToSet(t) \cup {m}
      BY WithPlaces
    <2> QED BY <2>1, <2>2
  <1>4. said \subseteq Plain
    BY Places
  <1>5. \A x \in said : x.id \in Nat /\ x.id <= l /\ x.id < m.id /\ x.id # m.id /\ x.id <= l + 1
    <2> SUFFICES ASSUME NEW x \in said
                 PROVE  x.id \in Nat /\ x.id <= l /\ x.id < m.id /\ x.id # m.id /\ x.id <= l + 1
      OBVIOUS
    <2>1. x.id \in Nat
      BY <1>4, MessageParts
    <2>2. x.id <= l
      BY <1>1 DEF Known
    <2> QED BY <2>1, <2>2
  <1>6. (\A i \in 1 .. Len(s) : s[i].id < m.id) /\ (\A i \in 1 .. Len(t) : t[i].id < m.id)
    BY <1>5, Places
  <1>7. \A i \in Users(s) : i < q
    BY Places DEF Users
  <1>8. Told(r) /\ (m.role = "user" => Goal(r) = m.id) /\ (m.role # "user" => Goal(r) = Goal(s))
    BY <1>1, <1>6, <1>7, ToldWith
  <1>9. Told(u) /\ (m.role = "user" => Goal(u) = m.id) /\ (m.role # "user" => Goal(u) = Goal(t))
    BY <1>1, <1>6, ToldWith
  <1>10. m.id \notin ids
    <2>1. ~(m.id <= l)
      OBVIOUS
    <2> QED BY <1>1, <2>1
  <1>11. \A id \in ids : id <= l + 1
    <2> SUFFICES ASSUME NEW id \in ids PROVE id <= l + 1
      OBVIOUS
    <2>1. id <= l /\ id \in Nat
      BY <1>1
    <2> QED BY <2>1
  <1> DEFINE more == said \cup {m}
  <1>12. Known(more, u, l + 1, sp)
    <2> SUFFICES ASSUME NEW x \in more
                 PROVE  x.id <= l + 1 /\ (x.id > sp => x \in ToSet(u)) /\ (x.role = "user" => x.id <= Goal(u))
      BY DEF Known
    <2>1. CASE x = m
      <3>1. x.id <= x.id
        BY <2>1
      <3> QED BY <1>3, <1>9, <2>1, <3>1
    <2>2. CASE x \in said
      <3>1. x.id <= l + 1 /\ (x.id > sp => x \in ToSet(u))
        BY <1>1, <1>3, <1>5, <2>2 DEF Known
      <3>2. x.role = "user" => x.id <= Goal(u)
        BY <1>1, <1>5, <1>9, <2>2 DEF Known
      <3> QED BY <3>1, <3>2
    <2> QED BY <2>1, <2>2
  <1>13. \A x, y \in more : x.id = y.id => x = y
    BY <1>1, <1>5
  <1>14. ToSet(r) \cup ToSet(c) \cup ToSet(u) = more
    BY <1>3
  <1>15. Goal(r) \notin ids /\ Goal(u) \notin ids
    BY <1>1, <1>8, <1>9, <1>10
  <1> HIDE DEF said, more
  <1>16. Agree(r, c, u, ids, l + 1, sp)
    BY <1>1, <1>8, <1>9, <1>11, <1>12, <1>13, <1>14, <1>15 DEF Agree
  <1> QED BY <1>2, <1>16

(* Of lists that agree any may be worked on and any may be the checkpoint. *)
LEMMA AgreeWrites ==
    ASSUME NEW s, NEW c, NEW t, NEW ids, NEW l, NEW sp, Agree(s, c, t, ids, l, sp),
           NEW x \in {s, c, t}, NEW y \in {s, c, t}
    PROVE  Agree(x, y, t, ids, l, sp)
  <1> DEFINE said == ToSet(s) \cup ToSet(c) \cup ToSet(t)
             less == ToSet(x) \cup ToSet(y) \cup ToSet(t)
  <1>1. /\ Told(s) /\ Told(c) /\ Told(t)
        /\ Known(said, t, l, sp)
        /\ \A m, n \in said : m.id = n.id => m = n
        /\ Goal(s) \notin ids /\ Goal(c) \notin ids /\ Goal(t) \notin ids
        /\ \A id \in ids : id <= l
    BY DEF Agree
  <1>2. less \subseteq said
    OBVIOUS
  <1>3. Told(x) /\ Told(y) /\ Goal(x) \notin ids /\ Goal(y) \notin ids
    BY <1>1
  <1> HIDE DEF said, less
  <1>4. Known(less, t, l, sp)
    BY <1>1, <1>2 DEF Known
  <1>5. \A m, n \in less : m.id = n.id => m = n
    BY <1>1, <1>2
  <1> QED BY <1>1, <1>3, <1>4, <1>5 DEF Agree, less

(* No goal is folded: neither the one that is worked on, nor a newer one that only the table has. *)
LEMMA AgreeFolds ==
    ASSUME NEW s \in Seq(Plain), NEW c \in Seq(Plain), NEW t \in Seq(Plain), NEW ids, NEW l \in Nat, NEW sp,
           Agree(s, c, t, ids, l, sp)
    PROVE  Agree(s, s, t, ids \cup Ids(s, Folds(s, ids)), l, sp)
  <1> DEFINE F == Folds(s, ids)
             new == Ids(s, F)
             said == ToSet(s) \cup ToSet(c) \cup ToSet(t)
  <1>1. /\ Told(s) /\ Told(c) /\ Told(t)
        /\ Known(said, t, l, sp)
        /\ \A x, y \in said : x.id = y.id => x = y
        /\ Goal(s) \notin ids /\ Goal(c) \notin ids /\ Goal(t) \notin ids
        /\ \A id \in ids : id <= l
    BY DEF Agree
  <1>2. F \subseteq Groups(s) /\ \A g \in F : LastUser(s) \notin g
    BY FoldsAre
  <1>3. LastUser(s) \in Users(s) /\ LastUser(s) \in 1 .. Len(s) /\ Goal(s) = s[LastUser(s)].id /\ Goal(s) \in Nat
        /\ \A i \in Users(s) : s[i].id <= Goal(s)
    BY <1>1, GoalIs
  <1>4. LastUser(t) \in 1 .. Len(t) /\ Goal(t) = t[LastUser(t)].id /\ t[LastUser(t)].role = "user" /\ Goal(t) \in Nat
    BY <1>1, GoalIs
  <1> HIDE DEF F
  <1>5. \A id \in new : \E k \in 1 .. Len(s) : s[k].id = id /\ k # LastUser(s)
    BY <1>2, FoldedIds
  <1>6. Goal(s) \notin new
    <2> SUFFICES ASSUME Goal(s) \in new PROVE FALSE
      OBVIOUS
    <2>1. PICK k \in 1 .. Len(s) : s[k].id = Goal(s) /\ k # LastUser(s)
      BY <1>5
    <2> QED BY <1>1, <1>3, <2>1 DEF Told
  <1>7. Goal(t) \notin new
    <2> SUFFICES ASSUME Goal(t) \in new PROVE FALSE
      OBVIOUS
    <2>1. PICK k \in 1 .. Len(s) : s[k].id = Goal(t)
      BY <1>5
    <2>2. s[k] \in said /\ t[LastUser(t)] \in said
      BY <1>4, Places
    <2>3. s[k] = t[LastUser(t)]
      BY <1>1, <1>4, <2>1, <2>2
    <2>4. k \in Users(s)
      BY <1>4, <2>3 DEF Users
    <2>5. Goal(t) <= Goal(s)
      BY <1>3, <2>1, <2>4
    <2>6. s[LastUser(s)] \in said /\ s[LastUser(s)].role = "user"
      BY <1>3, Places DEF Users
    <2>7. Goal(s) <= Goal(t)
      BY <1>1, <1>3, <2>6 DEF Known
    <2>8. Goal(s) = Goal(t)
      BY <1>3, <1>4, <2>5, <2>7
    <2> QED BY <1>6, <2>8
  <1>8. \A id \in new : id <= l
    <2> SUFFICES ASSUME NEW id \in new PROVE id <= l
      OBVIOUS
    <2>1. PICK k \in 1 .. Len(s) : s[k].id = id
      BY <1>5
    <2>2. s[k] \in said
      BY Places
    <2> QED BY <1>1, <2>1, <2>2 DEF Known
  <1>9. Agree(s, s, t, ids, l, sp)
    BY AgreeWrites
  <1> HIDE DEF new
  <1>10. Agree(s, s, t, ids \cup new, l, sp)
    BY <1>1, <1>6, <1>7, <1>8, <1>9 DEF Agree
  <1> QED BY <1>10 DEF new, F

(* Where a message goes in the table: behind all with a number that is not higher. *)
LEMMA SavedIs ==
    ASSUME rows \in Seq([seq : Nat, m : Plain]), NEW n \in Nat, NEW m \in Plain, rows' = Inserted(n, m)
    PROVE  /\ rows' \in Seq([seq : Nat, m : Plain]) /\ Stored \in Seq(Plain) /\ Stored' \in Seq(Plain)
           /\ Len(Stored) = Len(rows) /\ Len(rows') = Len(rows) + 1
           /\ \E p : /\ With(Stored, Stored', p, m) /\ With(rows, rows', p, [seq |-> n, m |-> m])
                     /\ \A i \in 1 .. Len(rows) : rows[i].seq <= n => i < p
  <1> DEFINE R == [seq : Nat, m : Plain]
             r == [seq |-> n, m |-> m]
             low == {0} \cup {i \in DOMAIN rows : rows[i].seq <= n}
             p == 1 + Max(low)
  <1>1. Len(rows) \in Nat /\ DOMAIN rows = 1 .. Len(rows) /\ \A i \in 1 .. Len(rows) : rows[i] \in R
    <2> HIDE DEF low, p, r
    <2>1. rows \in Seq(R)
      OBVIOUS
    <2> HIDE DEF R
    <2> QED BY <2>1
  <1>2. low \in SUBSET (0 .. Len(rows)) /\ low # {}
    BY <1>1
  <1>3. Max(low) \in low /\ Max(low) \in Nat /\ \A i \in low : i <= Max(low)
    BY <1>1, <1>2, MaxIs
  <1>4. p \in 1 .. Len(rows) + 1 /\ r \in R
    BY <1>1, <1>2, <1>3
  <1>5. \A i \in 1 .. Len(rows) : rows[i].seq <= n => i < p
    BY <1>1, <1>3
  <1>6. rows' = InsertAt(rows, p, r)
    BY DEF Inserted
  <1> HIDE DEF p, r, R
  <1>7. rows' \in Seq(R) /\ With(rows, rows', p, r)
    <2>1. rows \in Seq(R)
      BY DEF R
    <2> QED BY <1>4, <1>6, <2>1, InsertIs
  <1>8. r.m = m
    BY DEF r
  <1>9. /\ Len(rows') = Len(rows) + 1 /\ DOMAIN rows' = 1 .. Len(rows')
        /\ \A i \in 1 .. Len(rows') : /\ rows'[i] \in R
                                      /\ rows'[i] = IF i < p THEN rows[i] ELSE IF i = p THEN r ELSE rows[i - 1]
    BY <1>7 DEF With
  <1>10. \A x \in R : x.m \in Plain
    BY DEF R
  <1>11. Stored \in Seq(Plain) /\ Len(Stored) = Len(rows) /\ \A i \in 1 .. Len(rows) : Stored[i] = rows[i].m
    BY <1>1, <1>10 DEF Stored, R
  <1>12. Stored' \in Seq(Plain) /\ Len(Stored') = Len(rows') /\ \A i \in 1 .. Len(rows') : Stored'[i] = rows'[i].m
    BY <1>9, <1>10 DEF Stored, R
  <1>13. ASSUME NEW i \in 1 .. Len(Stored')
         PROVE  Stored'[i] = IF i < p THEN Stored[i] ELSE IF i = p THEN m ELSE Stored[i - 1]
    <2>1. i \in 1 .. Len(rows') /\ i \in 1 .. Len(rows) + 1 /\ p \in 1 .. Len(rows) + 1
      BY <1>4, <1>9, <1>12
    <2>2. Stored'[i] = rows'[i].m
      BY <1>12, <2>1
    <2>3. CASE i < p
      <3>1. i \in 1 .. Len(rows)
        BY <1>1, <2>1, <2>3
      <3> QED BY <1>9, <1>11, <2>1, <2>2, <2>3, <3>1
    <2>4. CASE i = p
      <3>1. ~(i < p)
        BY <2>1, <2>4
      <3> QED BY <1>8, <1>9, <2>1, <2>2, <2>4, <3>1
    <2>5. CASE i > p
      <3>1. i - 1 \in 1 .. Len(rows) /\ ~(i < p) /\ i # p
        BY <1>1, <2>1, <2>5
      <3> QED BY <1>9, <1>11, <2>1, <2>2, <3>1
    <2> QED BY <2>1, <2>3, <2>4, <2>5
  <1>14. With(Stored, Stored', p, m)
    BY <1>4, <1>9, <1>11, <1>12, <1>13 DEF With
  <1> QED BY <1>5, <1>7, <1>9, <1>11, <1>12, <1>14 DEF R, r


-------------------------------------------------------------------------------
(* The kinds of steps. *)

(* A message is said: at the end of the list and in the table, not yet in the checkpoint. *)
AddsOne(m) ==
    /\ m.id = last + 1 /\ last' = last + 1
    /\ Now' = Append(Now, m) /\ rows' = Inserted(Len(Now) + 1, m)
    /\ m.answers # NoCall => \A i \in 1 .. Len(Now) : Now[i].answers # m.answers
    /\ m.role = "user" => Len(Now) <= Len(cp.messages)
Adds ==
    /\ \E m \in Plain : AddsOne(m)
    /\ cp' = cp /\ folded' = cp.folded /\ Running' /\ pc' \notin {"verify", "batched"}
    /\ count'.crashes = count.crashes /\ (Running \/ status \in Resumable)

(* Nothing is said: the checkpoint stays or takes one of the lists, and the list stays or is
   from now on the checkpoint's. *)
Writes ==
    /\ rows' = rows /\ last' = last /\ cp'.folded = cp.folded /\ cp'.spliced = cp.spliced
    /\ cp'.messages \in {cp.messages, Now, Longest} /\ Now' \in {Now, cp'.messages}
    /\ MemoryInv'
    /\ pc' \in {"verify", "batched"} =>
          /\ Now' = Now
          /\ (cp'.messages = cp.messages /\ pc \in {"verify", "batched"}) \/ cp'.messages \in {Now, Longest}
    /\ Quiet' => /\ Quiet
                 /\ cp'.messages \in {Now, Longest} \/ (cp'.messages = cp.messages /\ Now' = Now)
    /\ Running /\ ~Running' /\ status' \in Resumable /\ count'.crashes = count.crashes =>
          cp'.messages \in {Now, Longest}

(* Compaction. *)
Folding ==
    /\ rows' = rows /\ last' = last /\ cp'.spliced = cp.spliced /\ Running /\ Running'
    /\ cp'.messages = Now /\ Now' = Now /\ cp'.folded = cp.folded \cup Ids(Now, Folds(Now, cp.folded))
    /\ folded' = cp'.folded /\ pc' \notin {"verify", "batched"} /\ count'.crashes = count.crashes

Kind == Types' /\ (Adds \/ Writes \/ Folding)

(* The lists there are. *)
LEMMA ListsTyped ==
    ASSUME Types
    PROVE  /\ Now \in Seq(Plain) /\ cp.messages \in Seq(Plain) /\ Stored \in Seq(Plain)
           /\ messages \in Seq(Plain) /\ Longest \in Seq(Plain)
           /\ Len(Stored) = Len(rows) /\ Len(Stored) \in Nat /\ Len(Now) \in Nat /\ Len(cp.messages) \in Nat
           /\ Len(messages) \in Nat /\ Len(rows) \in Nat
           /\ cp.folded \in SUBSET Nat /\ cp.spliced \in Nat /\ last \in Nat
           /\ cp.attempt \in Nat /\ cp.pending \subseteq RealCall /\ cp.done \subseteq RealCall
           /\ \A i \in 1 .. Len(rows) : Stored[i] = rows[i].m /\ rows[i].seq \in Nat
  <1>1. /\ cp.messages \in Seq(Plain) /\ cp.folded \in SUBSET Nat /\ cp.spliced \in Nat
        /\ cp.attempt \in Nat /\ cp.pending \subseteq RealCall /\ cp.done \subseteq RealCall
    BY DEF Types, Checkpoints
  <1>2. messages \in Seq(Plain) /\ last \in Nat /\ rows \in Seq([seq : Nat, m : Plain])
    BY DEF Types
  <1>3. Now \in Seq(Plain)
    BY <1>1, <1>2 DEF Now
  <1> DEFINE R == [seq : Nat, m : Plain]
  <1>4. Len(rows) \in Nat /\ DOMAIN rows = 1 .. Len(rows) /\ \A i \in 1 .. Len(rows) : rows[i] \in R
    <2>1. rows \in Seq(R)
      BY <1>2
    <2> HIDE DEF R
    <2> QED BY <2>1
  <1>5. \A x \in R : x.m \in Plain /\ x.seq \in Nat
    OBVIOUS
  <1> HIDE DEF R
  <1>6. Stored \in Seq(Plain) /\ Len(Stored) = Len(rows) /\ \A i \in 1 .. Len(rows) : Stored[i] = rows[i].m
    BY <1>4, <1>5 DEF Stored
  <1>7. Longest \in Seq(Plain)
    BY <1>1, <1>2, <1>6 DEF Longest, LongestOnDisk
  <1>8. Len(Now) \in Nat /\ Len(cp.messages) \in Nat /\ Len(messages) \in Nat
    BY <1>1, <1>2, <1>3
  <1> QED BY <1>1, <1>2, <1>3, <1>4, <1>5, <1>6, <1>7, <1>8

(* No list is empty. *)
LEMMA ListsTold ==
    ASSUME Types, AgreeInv
    PROVE  /\ Told(Now) /\ Told(cp.messages) /\ Told(Stored)
           /\ Len(Now) > 0 /\ Len(cp.messages) > 0 /\ Len(rows) > 0
  <1>1. Told(Now) /\ Told(cp.messages) /\ Told(Stored)
    BY DEF AgreeInv, Agree
  <1>2. ASSUME NEW s \in Seq(Plain), Told(s) PROVE Len(s) > 0
    <2>1. \E i \in 1 .. Len(s) : TRUE
      BY <1>2 DEF Told, Users
    <2> QED BY <2>1, Places
  <1>3. Len(Now) > 0 /\ Len(cp.messages) > 0 /\ Len(Stored) > 0 /\ Len(Stored) = Len(rows)
    BY <1>1, <1>2, ListsTyped
  <1> QED BY <1>1, <1>3

(* What the longest list is. *)
LEMMA LongestIs ==
    ASSUME Types, MemoryInv, AgreeInv
    PROVE  /\ \/ Longest = Now /\ Len(Now) >= Len(cp.messages) /\ Len(Now) >= Len(rows)
              \/ Longest = cp.messages /\ Len(cp.messages) >= Len(rows) /\ Len(cp.messages) > Len(Now)
              \/ Longest = Stored /\ Len(rows) > Len(cp.messages) /\ Len(rows) > Len(Now)
           /\ Longest \in {Now, cp.messages, Stored}
           /\ Len(Longest) >= Len(Now) /\ Len(Longest) >= Len(cp.messages)
  <1>1. /\ Len(Now) \in Nat /\ Len(cp.messages) \in Nat /\ Len(rows) \in Nat /\ Len(Stored) = Len(rows)
        /\ Len(cp.messages) > 0
    BY ListsTyped, ListsTold
  <1>2. \/ Longest = Now /\ Len(Now) >= Len(cp.messages) /\ Len(Now) >= Len(rows)
        \/ Longest = cp.messages /\ Len(cp.messages) >= Len(rows) /\ Len(cp.messages) > Len(Now)
        \/ Longest = Stored /\ Len(rows) > Len(cp.messages) /\ Len(rows) > Len(Now)
    <2>1. CASE Running
      <3>1. Now = messages
        BY <2>1 DEF Now
      <3> QED BY <1>1, <3>1 DEF Longest, LongestOnDisk
    <2>2. CASE ~Running
      <3>1. Now = cp.messages /\ messages = <<>>
        BY <2>2 DEF Now, MemoryInv
      <3>2. Len(messages) = 0
        BY <3>1
      <3> QED BY <1>1, <3>1, <3>2 DEF Longest, LongestOnDisk
    <2> QED BY <2>1, <2>2
  <1> QED BY <1>1, <1>2

(* The calls of the last answer are calls. *)
LEMMA NewCalls ==
    ASSUME Types, AgreeInv, Running
    PROVE  Newly \subseteq RealCall
  <1>1. messages \in Seq(Plain) /\ Len(messages) \in Nat /\ Len(messages) > 0
    BY ListsTyped, ListsTold DEF Now
  <1>2. messages[Len(messages)] \in Plain
    BY <1>1
  <1> QED BY <1>2, CallsAreReal DEF Newly, Last

(* A checkpoint written with list and with the folded numbers f. *)
Wrote(list, f) ==
    cp' \in Checkpoints /\ cp'.messages = list /\ cp'.folded = f /\ cp'.spliced = cp.spliced

(* What a write of the checkpoint leaves there. *)
LEMMA Written ==
    ASSUME cp \in Checkpoints, NEW list \in Seq(Plain), NEW f \in SUBSET Nat, NEW a \in Nat,
           NEW p \in SUBSET RealCall, NEW d \in SUBSET RealCall, NEW ph \in Phases,
           cp' = [cp EXCEPT !.messages = list, !.folded = f, !.attempt = a, !.pending = p, !.done = d, !.phase = ph]
    PROVE  Wrote(list, f)
  BY DEF Checkpoints, Wrote

(* A step of a run that stays in memory and says nothing. *)
LEMMA Stays ==
    ASSUME Types, MemoryInv, Running, Running', UNCHANGED <<messages, folded, rows, last>>,
           NEW list \in {cp.messages, messages, Longest}, Wrote(list, cp.folded),
           count'.crashes = count.crashes,
           pc' \in {"verify", "batched"} => list \in {messages, Longest} \/ pc \in {"verify", "batched"}
    PROVE  Writes
  <1>1. Now = messages /\ Now' = Now /\ folded = cp.folded
    BY DEF Now, MemoryInv
  <1>2. MemoryInv'
    BY <1>1 DEF MemoryInv, Wrote
  <1>3. Quiet' => Quiet
    BY DEF Quiet
  <1>4. list \in {cp.messages, Now, Longest}
    BY <1>1
  <1> QED BY <1>1, <1>2, <1>3, <1>4 DEF Writes, Wrote

(* A step with which a run leaves memory. *)
LEMMA Leaving ==
    ASSUME Types, MemoryInv, Running, NEW st, Leaves(st), UNCHANGED <<rows, last>>,
           NEW list \in {cp.messages, messages, Longest}, Wrote(list, cp.folded),
           st \in Resumable =>
              \/ list \in {messages, Longest} /\ count'.crashes = count.crashes
              \/ count'.crashes # 0 /\ count'.crashes # count.crashes
    PROVE  Writes /\ messages' \in Seq(Plain) /\ folded' \subseteq Nat /\ attempt' \in Nat
           /\ pending' \subseteq RealCall /\ done' \subseteq RealCall /\ todo' \subseteq RealCall
  <1>1. Now = messages /\ ~Running' /\ status' = st /\ messages' = <<>> /\ folded' = {} /\ attempt' = 0
        /\ pending' = {} /\ done' = {} /\ todo' = {} /\ pc' = "idle"
    BY DEF Now, Leaves, Running
  <1>2. Now' = cp'.messages
    BY <1>1 DEF Now
  <1>3. MemoryInv'
    BY <1>1 DEF MemoryInv
  <1>4. Quiet' => Quiet /\ list \in {messages, Longest}
    BY <1>1 DEF Quiet
  <1>5. Writes
    BY <1>1, <1>2, <1>3, <1>4 DEF Writes, Wrote
  <1>6. messages' \in Seq(Plain)
    BY <1>1
  <1> QED BY <1>1, <1>5, <1>6


(* A step of a run in memory that says message m. *)
LEMMA Speaks ==
    ASSUME Types, MemoryInv, Running, Running', NEW m \in Plain, m.id = last + 1, Says(m),
           cp' = cp, folded' = folded, count' = count, pc' \notin {"verify", "batched"},
           m.answers # NoCall => ~HasResult(m.answers),
           m.role = "user" => Len(messages) <= Len(cp.messages)
    PROVE  Adds /\ messages' \in Seq(Plain) /\ rows' \in Seq([seq : Nat, m : Plain]) /\ last' \in Nat
  <1>1. Now = messages /\ Now' = messages' /\ folded' = cp.folded
    BY DEF Now, MemoryInv
  <1>2. messages' = Append(messages, m) /\ rows' = Inserted(Len(messages) + 1, m) /\ last' = last + 1
    BY DEF Says
  <1>3. messages \in Seq(Plain) /\ Len(messages) \in Nat /\ last \in Nat /\ DOMAIN messages = 1 .. Len(messages)
    BY ListsTyped
  <1>4. rows' \in Seq([seq : Nat, m : Plain])
    <2>1. rows \in Seq([seq : Nat, m : Plain])
      BY DEF Types
    <2>2. PICK n \in Nat : n = Len(messages) + 1
      BY <1>3
    <2> QED BY <1>2, <2>1, <2>2, SavedIs
  <1>5. m.answers # NoCall => \A i \in 1 .. Len(messages) : messages[i].answers # m.answers
    BY <1>3 DEF HasResult
  <1>6. AddsOne(m)
    BY <1>1, <1>2, <1>5 DEF AddsOne
  <1>7. Adds
    BY <1>1, <1>6 DEF Adds
  <1>8. messages' \in Seq(Plain)
    BY <1>2, <1>3, AppendIs
  <1> QED BY <1>2, <1>3, <1>4, <1>7, <1>8

(* The end of a run writes the longest list. *)
LEMMA FinishKind ==
    ASSUME Types, MemoryInv, AgreeInv, Running, NEW st, Finish(st)
    PROVE  Kind
  <1>1. folded = cp.folded /\ Longest \in Seq(Plain) /\ cp.folded \in SUBSET Nat
        /\ cp.pending \subseteq RealCall /\ cp.done \subseteq RealCall
    BY ListsTyped DEF MemoryInv
  <1>2. Leaves(st) /\ rows' = rows /\ last' = last /\ count' = count
    BY DEF Finish
  <1>3. PICK ph \in Phases, p \in SUBSET RealCall : Checkpoint(ph, Longest, p)
    <2> DEFINE ph == IF st = "completed" THEN "terminal" ELSE "tool_batch"
               p == IF st \notin Resumable THEN {}
                    ELSE (IF pending # {} THEN pending ELSE cp.pending) \ (done \cup cp.done)
    <2>1. ph \in Phases
      BY DEF Phases
    <2>2. p \in SUBSET RealCall
      BY <1>1 DEF Types
    <2>3. Checkpoint(ph, Longest, p)
      BY DEF Finish
    <2> HIDE DEF ph, p
    <2> QED BY <2>1, <2>2, <2>3
  <1>4. Wrote(Longest, cp.folded)
    <2>1. cp \in Checkpoints /\ attempt \in Nat /\ done \in SUBSET RealCall
      BY DEF Types
    <2>2. cp' = [cp EXCEPT !.messages = Longest, !.folded = folded, !.attempt = attempt, !.pending = p,
                           !.done = done, !.phase = ph]
      BY <1>3 DEF Checkpoint
    <2> QED BY <1>1, <2>1, <2>2, Written
  <1>5. Writes /\ messages' \in Seq(Plain) /\ folded' \subseteq Nat /\ attempt' \in Nat
        /\ pending' \subseteq RealCall /\ done' \subseteq RealCall /\ todo' \subseteq RealCall
    BY <1>2, <1>4, Leaving
  <1>6. Types'
    BY <1>2, <1>4, <1>5 DEF Types, Wrote
  <1> QED BY <1>5, <1>6 DEF Kind

(* Compaction folds, or leaves all as it is, or ends the run. *)
LEMMA CompactKind ==
    ASSUME Types, MemoryInv, AgreeInv, Compact
    PROVE  Kind
  <1> DEFINE new == Ids(messages, Folds(messages, folded))
  <1>1. Running /\ Now = messages /\ folded = cp.folded
    BY DEF Compact, Running, Now, MemoryInv
  <1>2. messages \in Seq(Plain) /\ cp.folded \in SUBSET Nat /\ cp \in Checkpoints /\ attempt \in Nat
        /\ done \in SUBSET RealCall
    BY ListsTyped DEF Types
  <1>3. new \subseteq Nat
    <2>1. \A g \in Folds(messages, folded) : g \in Groups(messages)
      BY FoldsAre
    <2>2. \A id \in new : \E k \in 1 .. Len(messages) : messages[k].id = id
      BY <1>2, <2>1, FoldedIds
    <2> QED BY <1>2, <2>2, Places, MessageParts
  <1> HIDE DEF new
  <1>4. rows' = rows /\ last' = last /\ count' = count
    BY DEF Compact
  <1>5. CASE /\ folded' = folded \cup new
             /\ pc' = "plan"
             /\ cp' = [cp EXCEPT !.messages = messages, !.folded = folded', !.attempt = attempt,
                                 !.pending = {}, !.done = done, !.phase = "model_turn"]
             /\ UNCHANGED <<messages, attempt, pending, done, todo, stopping, status>>
    <2>1. folded' \in SUBSET Nat
      BY <1>1, <1>2, <1>3, <1>5
    <2>2. Wrote(messages, folded')
      <3>1. "model_turn" \in Phases /\ {} \in SUBSET RealCall
        BY DEF Phases
      <3> HIDE DEF Wrote
      <3> QED BY <1>2, <1>5, <2>1, <3>1, Written
    <2>3. Running' /\ Now' = Now
      BY <1>1, <1>5 DEF Running, Now
    <2>4. Folding
      BY <1>1, <1>4, <1>5, <2>2, <2>3 DEF Folding, Wrote, new
    <2>5. Types'
      BY <1>4, <1>5, <2>1, <2>2 DEF Types, Wrote
    <2> QED BY <2>4, <2>5 DEF Kind
  <1>6. CASE pc' = "plan" /\ UNCHANGED <<memory, cp, status>>
    <2>1. Running' /\ UNCHANGED <<messages, folded, rows, last>> /\ pc' \notin {"verify", "batched"}
      BY <1>4, <1>6 DEF Running, memory
    <2>2. Wrote(cp.messages, cp.folded)
      BY <1>2, <1>6 DEF Wrote
    <2>3. Writes
      BY <1>1, <1>4, <2>1, <2>2, Stays
    <2>4. Types'
      BY <1>4, <1>6 DEF Types, memory
    <2> QED BY <2>3, <2>4 DEF Kind
  <1>7. CASE Leaves("failed") /\ UNCHANGED cp
    <2>1. Wrote(cp.messages, cp.folded)
      BY <1>2, <1>7 DEF Wrote
    <2>2. "failed" \notin Resumable
      BY DEF Resumable
    <2>3. Writes /\ messages' \in Seq(Plain) /\ folded' \subseteq Nat /\ attempt' \in Nat
          /\ pending' \subseteq RealCall /\ done' \subseteq RealCall /\ todo' \subseteq RealCall
      BY <1>1, <1>4, <1>7, <2>1, <2>2, Leaving
    <2>4. Types'
      BY <1>4, <1>7, <2>3 DEF Types
    <2> QED BY <2>3, <2>4 DEF Kind
  <1> QED BY <1>5, <1>6, <1>7 DEF Compact, new

(* The other steps of a model turn. *)
LEMMA TurnKind ==
    ASSUME Types, MemoryInv, AgreeInv, Turn
    PROVE  Kind
  <1>1. cp \in Checkpoints /\ attempt \in Nat /\ done \in SUBSET RealCall /\ cp.folded \in SUBSET Nat
        /\ (Running => folded = cp.folded) /\ last \in Nat
    BY ListsTyped DEF Types, MemoryInv
  <1>2. CASE StopsAtTop
    BY <1>2, FinishKind DEF StopsAtTop, Running
  <1>3. CASE LimitReached
    BY <1>3, FinishKind DEF LimitReached, Running
  <1>4. CASE Compact
    BY <1>4, CompactKind
  <1>5. CASE Plan
    <2>1. Running /\ UNCHANGED <<rows, cp, last, count>>
      BY <1>5 DEF Plan, Running
    <2>2. Wrote(cp.messages, cp.folded)
      BY <1>1, <2>1 DEF Wrote
    <2>3. CASE pc' = "asking" /\ UNCHANGED <<memory, status>>
      <3>1. Running' /\ UNCHANGED <<messages, folded>> /\ pc' \notin {"verify", "batched"}
        BY <2>3 DEF Running, memory
      <3>2. Writes
        BY <2>1, <2>2, <3>1, Stays
      <3>3. Types'
        BY <2>1, <2>3 DEF Types, memory
      <3> QED BY <3>2, <3>3 DEF Kind
    <2>4. CASE Leaves("failed")
      <3>1. "failed" \notin Resumable
        BY DEF Resumable
      <3>2. Writes /\ messages' \in Seq(Plain) /\ folded' \subseteq Nat /\ attempt' \in Nat
            /\ pending' \subseteq RealCall /\ done' \subseteq RealCall /\ todo' \subseteq RealCall
        BY <2>1, <2>2, <2>4, <3>1, Leaving
      <3>3. Types'
        BY <2>1, <3>2 DEF Types
      <3> QED BY <3>2, <3>3 DEF Kind
    <2> QED BY <1>5, <2>3, <2>4 DEF Plan
  <1>6. CASE Answers
    <2>1. PICK n \in 0 .. MaxCalls : Says(Message(last + 1, "assistant", n, NoCall, 1))
      BY <1>6 DEF Answers
    <2>2. PICK m : m = Message(last + 1, "assistant", n, NoCall, 1) /\ Says(m)
      BY <2>1
    <2>3. m \in Plain /\ m.id = last + 1 /\ m.role # "user" /\ m.answers = NoCall
      <3>1. last + 1 \in Nat \ {0} /\ n \in Nat
        BY <1>1
      <3>2. m \in Plain /\ m.id = last + 1 /\ m.role = "assistant"
        BY <2>2, <3>1, Sayings
      <3> QED BY <3>2, MessageParts
    <2>4. /\ Running /\ Running' /\ UNCHANGED <<cp, folded, count, attempt, pending, done, todo>>
          /\ pc' \notin {"verify", "batched"}
      BY <1>6 DEF Answers, At, Running
    <2>5. Adds /\ messages' \in Seq(Plain) /\ rows' \in Seq([seq : Nat, m : Plain]) /\ last' \in Nat
      BY <2>2, <2>3, <2>4, Speaks
    <2>6. Types'
      BY <2>4, <2>5 DEF Types
    <2> QED BY <2>5, <2>6 DEF Kind
  <1>7. CASE TurnSaved
    <2>1. /\ Running /\ Running' /\ UNCHANGED <<messages, folded, rows, last, count, attempt, pending, done, todo>>
      BY <1>7 DEF TurnSaved, At, Running, memory
    <2>2. Newly \in SUBSET RealCall
      BY <2>1, NewCalls
    <2>3. Wrote(messages, cp.folded)
      <3>1. "model_turn" \in Phases /\ messages \in Seq(Plain)
        BY ListsTyped DEF Phases
      <3>2. cp' = [cp EXCEPT !.messages = messages, !.folded = folded, !.attempt = attempt, !.pending = Newly,
                             !.done = done, !.phase = "model_turn"]
        BY <1>7 DEF TurnSaved, Checkpoint
      <3> QED BY <1>1, <2>1, <2>2, <3>1, <3>2, Written
    <2>4. Writes
      BY <2>1, <2>3, Stays
    <2>5. Types'
      BY <2>1, <2>3 DEF Types, Wrote
    <2> QED BY <2>4, <2>5 DEF Kind
  <1>8. CASE TurnEnds
    BY <1>8, FinishKind DEF TurnEnds, Running
  <1> QED BY <1>2, <1>3, <1>4, <1>5, <1>6, <1>7, <1>8 DEF Turn


(* The steps of a batch of calls. *)
LEMMA BatchKind ==
    ASSUME Types, MemoryInv, AgreeInv, Batch
    PROVE  Kind
  <1>1. /\ cp \in Checkpoints /\ attempt \in Nat /\ done \in SUBSET RealCall /\ cp.folded \in SUBSET Nat
        /\ (Running => folded = cp.folded) /\ last \in Nat /\ messages \in Seq(Plain)
        /\ pending \in SUBSET RealCall /\ todo \in SUBSET RealCall /\ "tool_batch" \in Phases
    BY ListsTyped DEF Types, MemoryInv, Phases
  <1>2. CASE BatchStarts
    <2> DEFINE batch == IF pc = "resumed" THEN pending ELSE Newly
    <2>1. /\ Running /\ Running' /\ UNCHANGED <<messages, folded, rows, last, count, attempt, done>>
          /\ pc' \notin {"verify", "batched"}
      BY <1>2 DEF BatchStarts, Running
    <2>2. batch \in SUBSET RealCall
      BY <1>1, <2>1, NewCalls
    <2>3. Checkpoint("tool_batch", messages, batch) /\ pending' = batch /\ todo' = batch
      BY <1>2 DEF BatchStarts
    <2> HIDE DEF batch
    <2>4. Wrote(messages, cp.folded)
      <3>1. cp' = [cp EXCEPT !.messages = messages, !.folded = folded, !.attempt = attempt, !.pending = batch,
                             !.done = done, !.phase = "tool_batch"]
        BY <2>3 DEF Checkpoint
      <3> QED BY <1>1, <2>1, <2>2, <3>1, Written
    <2>5. Writes
      BY <2>1, <2>4, Stays
    <2>6. Types'
      BY <2>1, <2>2, <2>3, <2>4 DEF Types, Wrote
    <2> QED BY <2>5, <2>6 DEF Kind
  <1>3. CASE BatchEnds
    <2>1. /\ Running /\ Running' /\ UNCHANGED <<messages, folded, rows, last, count, attempt>>
          /\ pending' = todo /\ done' = done \cup (pending \ todo) /\ todo' = {}
      BY <1>3 DEF BatchEnds, InBatch, Running
    <2>2. done' \in SUBSET RealCall
      BY <1>1, <2>1
    <2>3. Wrote(messages, cp.folded)
      <3>1. cp' = [cp EXCEPT !.messages = messages, !.folded = folded, !.attempt = attempt,
                             !.pending = todo, !.done = done', !.phase = "tool_batch"]
        BY <1>3 DEF BatchEnds
      <3> QED BY <1>1, <2>1, <2>2, <3>1, Written
    <2>4. Writes
      BY <2>1, <2>3, Stays
    <2>5. Types'
      BY <1>1, <2>1, <2>2, <2>3 DEF Types, Wrote
    <2> QED BY <2>4, <2>5 DEF Kind
  <1>4. CASE Uncertain
    BY <1>4, FinishKind DEF Uncertain, Running
  <1>5. CASE GoesOn
    <2>1. /\ Running /\ Running'
          /\ UNCHANGED <<cp, messages, folded, rows, last, count, attempt, pending, done, todo>>
          /\ pc = "batched"
      BY <1>5 DEF GoesOn, At, Running, memory
    <2>2. Wrote(cp.messages, cp.folded)
      BY <1>1, <2>1 DEF Wrote
    <2>3. Writes
      BY <2>1, <2>2, Stays
    <2>4. Types'
      BY <2>1 DEF Types
    <2> QED BY <2>3, <2>4 DEF Kind
  <1>6. ASSUME NEW c \in todo, Result(c) PROVE Kind
    <2>1. /\ Running /\ Running' /\ UNCHANGED <<cp, folded, count, attempt, pending>>
          /\ pc' \notin {"verify", "batched"} /\ todo' \subseteq todo /\ done' \in {done, done \cup {c}}
      BY <1>6 DEF Result, InBatch, Running
    <2>2. done' \subseteq RealCall /\ todo' \subseteq RealCall /\ c \in RealCall /\ c # NoCall
      BY <1>1, <1>6, <2>1, CallsAreReal
    <2>3. CASE HasResult(c)
      <3>1. UNCHANGED <<messages, rows, last>>
        BY <1>6, <2>3 DEF Result
      <3>2. Wrote(cp.messages, cp.folded)
        BY <1>1, <2>1 DEF Wrote
      <3>3. Writes
        BY <2>1, <3>1, <3>2, Stays
      <3>4. Types'
        BY <2>1, <2>2, <3>1 DEF Types
      <3> QED BY <3>3, <3>4 DEF Kind
    <2>4. CASE ~HasResult(c)
      <3>1. PICK n \in Sizes : Says(Message(last + 1, "tool", 0, c, n))
        BY <1>6, <2>4 DEF Result
      <3>2. PICK m : m = Message(last + 1, "tool", 0, c, n) /\ Says(m)
        BY <3>1
      <3>3. m \in Plain /\ m.id = last + 1 /\ m.role # "user" /\ m.answers = c
        <4>1. last + 1 \in Nat \ {0} /\ n \in Nat
          BY <1>1, ConversationAssumption
        <4>2. m \in Plain /\ m.id = last + 1 /\ m.role = "tool" /\ m.answers = c
          BY <2>2, <3>2, <4>1, Sayings
        <4> QED BY <4>2
      <3>4. Adds /\ messages' \in Seq(Plain) /\ rows' \in Seq([seq : Nat, m : Plain]) /\ last' \in Nat
        BY <2>1, <2>4, <3>2, <3>3, Speaks
      <3>5. Types'
        BY <2>1, <2>2, <3>4 DEF Types
      <3> QED BY <3>4, <3>5 DEF Kind
    <2> QED BY <2>3, <2>4
  <1> QED BY <1>2, <1>3, <1>4, <1>5, <1>6 DEF Batch

(* The steps of verification: an answer is checked once the checkpoint has all of the list. *)
LEMMA VerificationKind ==
    ASSUME Types, MemoryInv, AgreeInv, RowsInv, Verification
    PROVE  Kind
  <1>1. /\ cp \in Checkpoints /\ attempt \in Nat /\ done \in SUBSET RealCall /\ cp.folded \in SUBSET Nat
        /\ (Running => folded = cp.folded) /\ last \in Nat /\ messages \in Seq(Plain)
        /\ {} \in SUBSET RealCall /\ "model_turn" \in Phases /\ "waiting_approval" \in Phases
    BY ListsTyped DEF Types, MemoryInv, Phases
  <1>2. last + 1 \in Nat \ {0}
    BY <1>1
  <1>3. CASE CheckCommand
    <2>1. PICK m : m = Message(last + 1, "assistant", 1, NoCall, 1) /\ Says(m)
      BY <1>3 DEF CheckCommand
    <2>2. m \in Plain /\ m.id = last + 1 /\ m.role # "user" /\ m.answers = NoCall
      <3>1. m \in Plain /\ m.id = last + 1 /\ m.role = "assistant"
        BY <1>2, <2>1, Sayings
      <3> QED BY <3>1, MessageParts
    <2>3. /\ Running /\ Running' /\ UNCHANGED <<cp, folded, count, attempt, pending, done, todo>>
          /\ pc' \notin {"verify", "batched"}
      BY <1>3 DEF CheckCommand, At, Running
    <2>4. Adds /\ messages' \in Seq(Plain) /\ rows' \in Seq([seq : Nat, m : Plain]) /\ last' \in Nat
      BY <2>1, <2>2, <2>3, Speaks
    <2>5. Types'
      BY <2>3, <2>4 DEF Types
    <2> QED BY <2>4, <2>5 DEF Kind
  <1>4. CASE Retry
    <2>1. PICK m : m = User(last + 1) /\ Says(m)
      BY <1>4 DEF Retry
    <2>2. m \in Plain /\ m.id = last + 1 /\ m.answers = NoCall
      <3>1. m \in Plain /\ m.id = last + 1 /\ m.role = "user"
        BY <1>2, <2>1, Sayings
      <3> QED BY <3>1, MessageParts
    <2>3. /\ Running /\ Running' /\ UNCHANGED <<cp, folded, count, pending, done, todo>>
          /\ pc' \notin {"verify", "batched"} /\ pc = "verify" /\ attempt' \in Nat
      BY <1>1, <1>4 DEF Retry, At, Running
    <2>4. Len(messages) <= Len(cp.messages)
      BY <2>3 DEF RowsInv, Now
    <2>5. Adds /\ messages' \in Seq(Plain) /\ rows' \in Seq([seq : Nat, m : Plain]) /\ last' \in Nat
      BY <2>1, <2>2, <2>3, <2>4, Speaks
    <2>6. Types'
      BY <2>3, <2>5 DEF Types
    <2> QED BY <2>5, <2>6 DEF Kind
  <1>5. CASE RetrySaved
    <2>1. /\ Running /\ Running' /\ UNCHANGED <<messages, folded, rows, last, count, attempt, pending, done, todo>>
          /\ pc' \notin {"verify", "batched"}
      BY <1>5 DEF RetrySaved, At, Running, memory
    <2>2. Wrote(messages, cp.folded)
      <3>1. cp' = [cp EXCEPT !.messages = messages, !.folded = folded, !.attempt = attempt, !.pending = {},
                             !.done = done, !.phase = "model_turn"]
        BY <1>5 DEF RetrySaved, Checkpoint
      <3> QED BY <1>1, <2>1, <3>1, Written
    <2>3. Writes
      BY <2>1, <2>2, Stays
    <2>4. Types'
      BY <2>1, <2>2 DEF Types, Wrote
    <2> QED BY <2>3, <2>4 DEF Kind
  <1>6. CASE Verified
    BY <1>6, FinishKind DEF Verified, Running
  <1>7. CASE Pause
    <2>1. Running /\ UNCHANGED <<rows, last, count>>
      BY <1>7 DEF Pause, Running
    <2>2. PICK st \in {"require_human", "waiting_approval"} :
              /\ Checkpoint(IF st = "waiting_approval" THEN st ELSE "model_turn", messages, {})
              /\ Leaves(st)
      BY <1>7 DEF Pause
    <2>3. PICK ph \in Phases : Checkpoint(ph, messages, {})
      BY <1>1, <2>2
    <2>4. Wrote(messages, cp.folded)
      <3>1. cp' = [cp EXCEPT !.messages = messages, !.folded = folded, !.attempt = attempt, !.pending = {},
                             !.done = done, !.phase = ph]
        BY <2>3 DEF Checkpoint
      <3> QED BY <1>1, <2>1, <3>1, Written
    <2>5. Writes /\ messages' \in Seq(Plain) /\ folded' \subseteq Nat /\ attempt' \in Nat
          /\ pending' \subseteq RealCall /\ done' \subseteq RealCall /\ todo' \subseteq RealCall
      BY <2>1, <2>2, <2>4, Leaving
    <2>6. Types'
      BY <2>1, <2>4, <2>5 DEF Types, Wrote
    <2> QED BY <2>5, <2>6 DEF Kind
  <1> QED BY <1>3, <1>4, <1>5, <1>6, <1>7 DEF Verification

(* What preserve_checkpoint writes: the longest list, and nothing else of what is folded. *)
LEMMA PreservedWrites ==
    ASSUME Types, MemoryInv, AgreeInv, cp' = Preserved
    PROVE  Wrote(Longest, cp.folded)
  <1>1. /\ cp \in Checkpoints /\ attempt \in Nat /\ cp.folded \in SUBSET Nat /\ Longest \in Seq(Plain)
        /\ "tool_batch" \in Phases /\ cp.pending \subseteq RealCall /\ cp.done \subseteq RealCall
        /\ pending \subseteq RealCall /\ done \subseteq RealCall
    BY ListsTyped DEF Types, Phases
  <1>2. PICK f \in SUBSET Nat : f = cp.folded /\ f = IF pc = "idle" THEN cp.folded ELSE folded
    BY <1>1 DEF MemoryInv, Running
  <1>3. PICK p \in SUBSET RealCall : p = IF pending # {} THEN pending ELSE cp.pending \ (done \cup cp.done)
    BY <1>1
  <1>4. PICK d \in SUBSET RealCall : d = cp.done \cup done
    BY <1>1
  <1>5. cp' = [cp EXCEPT !.messages = Longest, !.folded = f, !.attempt = attempt, !.pending = p,
                         !.done = d, !.phase = "tool_batch"]
    BY <1>2, <1>3, <1>4 DEF Preserved
  <1>6. cp \in Checkpoints /\ attempt \in Nat /\ Longest \in Seq(Plain) /\ "tool_batch" \in Phases
    BY <1>1
  <1>7. PICK l \in Seq(Plain) : l = Longest
    BY <1>6
  <1>8. cp' = [cp EXCEPT !.messages = l, !.folded = f, !.attempt = attempt, !.pending = p,
                         !.done = d, !.phase = "tool_batch"]
    BY <1>5, <1>7
  <1>9. cp' \in Checkpoints
    BY <1>6, <1>8 DEF Checkpoints
  <1>10. cp'.messages = l /\ cp'.folded = f /\ cp'.spliced = cp.spliced
    BY <1>6, <1>8 DEF Checkpoints
  <1>11. Wrote(l, f)
    BY <1>9, <1>10 DEF Wrote
  <1> QED BY <1>2, <1>7, <1>11

(* A count goes up, the others stay. *)
LEMMA Counting ==
    ASSUME Types, NEW what \in {"crashes", "stops", "resumes"}, NEW bound, Counts(what, bound)
    PROVE  /\ count' \in [crashes : Nat, stops : Nat, resumes : Nat]
           /\ what # "crashes" => count'.crashes = count.crashes
           /\ what = "crashes" => count'.crashes # 0 /\ count'.crashes # count.crashes
  BY DEF Types, Counts

(* Stops, crashes and resumes. *)
LEMMA StopsKind ==
    ASSUME Types, MemoryInv, AgreeInv, RowsInv, Stop \/ CancelWaiting \/ Interrupted \/ Crash \/ Resume
    PROVE  Kind
  <1>1. /\ cp \in Checkpoints /\ cp.folded \in SUBSET Nat /\ (Running => folded = cp.folded)
        /\ last \in Nat /\ messages \in Seq(Plain) /\ cp.messages \in Seq(Plain) /\ Len(cp.messages) \in Nat
        /\ cp.attempt \in Nat /\ cp.done \subseteq RealCall /\ cp.pending \subseteq RealCall
    BY ListsTyped DEF Types, MemoryInv
  <1>2. CASE Stop
    <2>1. /\ Running /\ Running' /\ UNCHANGED <<messages, folded, rows, last, attempt, pending, done, todo, pc>>
          /\ Counts("stops", MaxStops) /\ cp' \in {cp, Preserved}
      BY <1>2 DEF Stop, Running
    <2>2. count' \in [crashes : Nat, stops : Nat, resumes : Nat] /\ count'.crashes = count.crashes
      BY <2>1, Counting
    <2>3. PICK list \in {cp.messages, Longest} :
              /\ Wrote(list, cp.folded)
              /\ pc' \in {"verify", "batched"} => list = Longest \/ pc \in {"verify", "batched"}
      <3>1. CASE cp' = cp
        BY <1>1, <2>1, <3>1 DEF Wrote
      <3>2. CASE cp' = Preserved
        BY <3>2, PreservedWrites
      <3> QED BY <2>1, <3>1, <3>2
    <2>4. Writes
      BY <2>1, <2>2, <2>3, Stays
    <2>5. Types'
      BY <2>1, <2>2, <2>3 DEF Types, Wrote
    <2> QED BY <2>4, <2>5 DEF Kind
  <1>3. CASE CancelWaiting
    <2>1. /\ ~Running /\ ~Running' /\ status \in Resumable /\ UNCHANGED <<memory, rows, last, pc>>
          /\ Counts("stops", MaxStops) /\ cp' = Preserved
      BY <1>3 DEF CancelWaiting, Running, Resumable
    <2>2. count' \in [crashes : Nat, stops : Nat, resumes : Nat] /\ count'.crashes = count.crashes
      BY <2>1, Counting
    <2>3. Wrote(Longest, cp.folded)
      BY <2>1, PreservedWrites
    <2>4. Now = cp.messages /\ Now' = cp'.messages
      BY <2>1 DEF Now
    <2>5. MemoryInv'
      BY <2>1 DEF MemoryInv, memory
    <2>6. Quiet' => Quiet
      BY <2>1, <2>2 DEF Quiet
    <2>7. pc' \notin {"verify", "batched"}
      BY <2>1 DEF Running
    <2>8. Writes
      BY <2>1, <2>3, <2>4, <2>5, <2>6, <2>7 DEF Writes, Wrote
    <2>9. Types'
      BY <2>1, <2>2, <2>3 DEF Types, Wrote, memory
    <2> QED BY <2>8, <2>9 DEF Kind
  <1>4. CASE Interrupted
    <2>1. /\ Running /\ UNCHANGED <<rows, last>> /\ Counts("stops", MaxStops) /\ cp' = Preserved
          /\ Leaves("interrupted")
      BY <1>4 DEF Interrupted, Running
    <2>2. count' \in [crashes : Nat, stops : Nat, resumes : Nat] /\ count'.crashes = count.crashes
      BY <2>1, Counting
    <2>3. Wrote(Longest, cp.folded)
      BY <2>1, PreservedWrites
    <2>4. Writes /\ messages' \in Seq(Plain) /\ folded' \subseteq Nat /\ attempt' \in Nat
          /\ pending' \subseteq RealCall /\ done' \subseteq RealCall /\ todo' \subseteq RealCall
      BY <2>1, <2>2, <2>3, Leaving
    <2>5. Types'
      BY <2>1, <2>2, <2>3, <2>4 DEF Types, Wrote
    <2> QED BY <2>4, <2>5 DEF Kind
  <1>5. CASE Crash
    <2>1. Running /\ UNCHANGED <<rows, cp, last>> /\ Counts("crashes", MaxCrashes) /\ Leaves("interrupted")
      BY <1>5 DEF Crash, Running
    <2>2. /\ count' \in [crashes : Nat, stops : Nat, resumes : Nat]
          /\ count'.crashes # 0 /\ count'.crashes # count.crashes
      BY <2>1, Counting
    <2>3. Wrote(cp.messages, cp.folded)
      BY <1>1, <2>1 DEF Wrote
    <2>4. Writes /\ messages' \in Seq(Plain) /\ folded' \subseteq Nat /\ attempt' \in Nat
          /\ pending' \subseteq RealCall /\ done' \subseteq RealCall /\ todo' \subseteq RealCall
      BY <2>1, <2>2, <2>3, Leaving
    <2>5. Types'
      BY <2>1, <2>2, <2>4 DEF Types
    <2> QED BY <2>4, <2>5 DEF Kind
  <1>6. CASE Resume
    <2>1. /\ ~Running /\ status \in Resumable /\ Counts("resumes", MaxResumes)
          /\ folded' = cp.folded /\ attempt' = cp.attempt /\ done' = cp.done /\ pending' = cp.pending \ cp.done
          /\ UNCHANGED <<cp, todo>> /\ pc' \in {"resumed", "top"}
      BY <1>6 DEF Resume, Running
    <2>2. count' \in [crashes : Nat, stops : Nat, resumes : Nat] /\ count'.crashes = count.crashes
      BY <2>1, Counting
    <2>3. Running' /\ pc' \notin {"verify", "batched"} /\ Now = cp.messages /\ Now' = messages'
      BY <2>1 DEF Running, Now
    <2>4. MemoryInv'
      BY <2>1, <2>3 DEF MemoryInv
    <2>5. CASE messages' = cp.messages /\ UNCHANGED <<rows, last>>
      <3>1. Quiet' => Quiet
        BY <2>1, <2>2 DEF Quiet
      <3>2. cp' = cp /\ Now' = Now
        BY <2>1, <2>3, <2>5
      <3>3. Writes
        BY <2>1, <2>3, <2>4, <2>5, <3>1, <3>2 DEF Writes
      <3>4. Types'
        BY <1>1, <2>1, <2>2, <2>5 DEF Types
      <3> QED BY <3>3, <3>4 DEF Kind
    <2>6. CASE /\ last < MaxMessages
               /\ messages' = Append(cp.messages, User(last + 1))
               /\ rows' = Inserted(Len(cp.messages) + 1, User(last + 1))
               /\ last' = last + 1
      <3>1. PICK m : m = User(last + 1)
        OBVIOUS
      <3>2. m \in Plain /\ m.id = last + 1 /\ m.answers = NoCall
        <4>1. last + 1 \in Nat \ {0}
          BY <1>1
        <4>2. m \in Plain /\ m.id = last + 1 /\ m.role = "user"
          BY <3>1, <4>1, Sayings
        <4> QED BY <4>2, MessageParts
      <3>3. Len(Now) <= Len(cp.messages)
        BY <1>1, <2>3
      <3>4. AddsOne(m)
        BY <2>3, <2>6, <3>1, <3>2, <3>3 DEF AddsOne
      <3>5. Adds
        BY <2>1, <2>2, <2>3, <3>2, <3>4 DEF Adds
      <3>6. rows' \in Seq([seq : Nat, m : Plain])
        <4>1. PICK n \in Nat : n = Len(cp.messages) + 1
          BY <1>1
        <4>2. rows \in Seq([seq : Nat, m : Plain])
          BY DEF Types
        <4> QED BY <2>6, <3>1, <3>2, <4>1, <4>2, SavedIs
      <3>7. messages' \in Seq(Plain) /\ last' \in Nat
        BY <1>1, <2>6, <3>1, <3>2, AppendIs
      <3>8. Types'
        BY <1>1, <2>1, <2>2, <3>6, <3>7 DEF Types
      <3> QED BY <3>5, <3>8 DEF Kind
    <2> QED BY <1>6, <2>5, <2>6 DEF Resume
  <1> QED BY <1>2, <1>3, <1>4, <1>5, <1>6

(* Every step is of a kind. *)
LEMMA StepKind ==
    ASSUME Types, MemoryInv, AgreeInv, RowsInv, [Next]_vars
    PROVE  Kind
  <1>1. CASE UNCHANGED vars
    <2>1. UNCHANGED <<messages, folded, attempt, pending, done, todo, rows, cp, status, pc, last, count>>
      BY <1>1 DEF vars, memory
    <2>2. Now' = Now /\ MemoryInv' /\ (Quiet' => Quiet) /\ (Running' <=> Running)
      BY <2>1 DEF Now, MemoryInv, Running, Quiet
    <2>3. Writes
      BY <2>1, <2>2 DEF Writes
    <2>4. Types'
      BY <2>1 DEF Types
    <2> QED BY <2>3, <2>4 DEF Kind
  <1>2. CASE Turn
    BY <1>2, TurnKind
  <1>3. CASE Batch
    BY <1>3, BatchKind
  <1>4. CASE Verification
    BY <1>4, VerificationKind
  <1>5. CASE Stop \/ CancelWaiting \/ Interrupted \/ Crash \/ Resume
    BY <1>5, StopsKind
  <1> QED BY <1>1, <1>2, <1>3, <1>4, <1>5 DEF Next


-------------------------------------------------------------------------------
(* Each kind of step keeps the invariant. *)

(* What is early for a list is early for a longer one. *)
LEMMA EarlyMore ==
    ASSUME Types, NEW n \in Nat, Early(rows, n), NEW k \in Nat, n <= k
    PROVE  Early(rows, k)
  <1> SUFFICES ASSUME NEW i \in 1 .. Len(rows), rows[i].m.role = "user" PROVE rows[i].seq <= k + 1
    BY DEF Early
  <1>1. rows[i].seq \in Nat
    BY ListsTyped
  <1>2. rows[i].seq <= n + 1
    BY DEF Early
  <1> QED BY <1>1, <1>2

(* A row that is put in is early if its number is not too high. *)
LEMMA EarlyWith ==
    ASSUME NEW r \in Seq([seq : Nat, m : Plain]), NEW q \in Seq([seq : Nat, m : Plain]), NEW p, NEW n \in Nat,
           NEW x \in Plain, With(r, q, p, [seq |-> n, m |-> x]), NEW k \in Nat, Early(r, k),
           x.role = "user" => n <= k + 1
    PROVE  Early(q, k)
  <1> DEFINE R == [seq : Nat, m : Plain]
  <1>1. PICK row \in R : row = [seq |-> n, m |-> x] /\ row.seq = n /\ row.m = x
    OBVIOUS
  <1>2. With(r, q, p, row) /\ r \in Seq(R) /\ q \in Seq(R)
    BY <1>1
  <1> HIDE DEF R
  <1>3. /\ q[p] = row /\ p \in Nat /\ Len(r) \in Nat /\ Len(q) \in Nat
        /\ \A i \in 1 .. Len(q) : i < p => i \in 1 .. Len(r) /\ q[i] = r[i]
        /\ \A i \in 1 .. Len(q) : i > p => i - 1 \in 1 .. Len(r) /\ q[i] = r[i - 1]
    BY <1>2, WithPlaces
  <1> SUFFICES ASSUME NEW i \in 1 .. Len(q), q[i].m.role = "user" PROVE q[i].seq <= k + 1
    BY DEF Early
  <1>4. CASE i = p
    BY <1>1, <1>3, <1>4
  <1>5. CASE i < p
    BY <1>3, <1>5 DEF Early
  <1>6. CASE i > p
    <2>1. PICK j \in 1 .. Len(r) : q[i] = r[j]
      BY <1>3, <1>6
    <2> QED BY <2>1 DEF Early
  <1> QED BY <1>3, <1>4, <1>5, <1>6

(* To say something. *)
LEMMA AddsKeeps ==
    ASSUME ConvInv, Adds
    PROVE  MemoryInv' /\ AgreeInv' /\ RowsInv' /\ LongerInv' /\ QuietInv'
  <1>1. PICK m \in Plain : AddsOne(m)
    BY DEF Adds
  <1>2. /\ m.id = last + 1 /\ last' = last + 1
        /\ Now' = Append(Now, m) /\ rows' = Inserted(Len(Now) + 1, m)
        /\ m.answers # NoCall => \A i \in 1 .. Len(Now) : Now[i].answers # m.answers
        /\ m.role = "user" => Len(Now) <= Len(cp.messages)
    BY <1>1 DEF AddsOne
  <1>3. cp' = cp /\ folded' = cp.folded /\ Running' /\ pc' \notin {"verify", "batched"}
        /\ count'.crashes = count.crashes /\ (Running \/ status \in Resumable)
    BY DEF Adds
  <1>4. /\ Now \in Seq(Plain) /\ cp.messages \in Seq(Plain) /\ Stored \in Seq(Plain)
        /\ Len(Stored) = Len(rows) /\ Len(Now) \in Nat /\ Len(cp.messages) \in Nat /\ Len(rows) \in Nat
        /\ cp.folded \in SUBSET Nat /\ last \in Nat
        /\ \A i \in 1 .. Len(rows) : Stored[i] = rows[i].m /\ rows[i].seq \in Nat
    BY ListsTyped DEF ConvInv
  <1>5. rows \in Seq([seq : Nat, m : Plain])
    BY DEF ConvInv, Types
  <1>6. PICK n \in Nat : n = Len(Now) + 1
    BY <1>4
  <1>7. rows' = Inserted(n, m)
    BY <1>2, <1>6
  <1>8. /\ rows' \in Seq([seq : Nat, m : Plain]) /\ Stored' \in Seq(Plain) /\ Len(rows') = Len(rows) + 1
        /\ \E p : /\ With(Stored, Stored', p, m) /\ With(rows, rows', p, [seq |-> n, m |-> m])
                  /\ \A i \in 1 .. Len(rows) : rows[i].seq <= n => i < p
    BY <1>5, <1>7, SavedIs
  <1>9. PICK p : /\ With(Stored, Stored', p, m) /\ With(rows, rows', p, [seq |-> n, m |-> m])
                 /\ \A i \in 1 .. Len(rows) : rows[i].seq <= n => i < p
    BY <1>8
  <1>10. Early(rows, Len(Now)) /\ Early(rows, Len(cp.messages))
    BY DEF ConvInv, RowsInv
  <1>11. \A i \in Users(Stored) : i < p
    <2> SUFFICES ASSUME NEW i \in Users(Stored) PROVE i < p
      OBVIOUS
    <2>1. i \in 1 .. Len(rows) /\ rows[i].m.role = "user"
      BY <1>4 DEF Users
    <2>2. rows[i].seq <= n
      BY <1>6, <1>10, <2>1 DEF Early
    <2> QED BY <1>9, <2>1, <2>2
  <1>12. Len(Now') = Len(Now) + 1 /\ Len(Now') \in Nat
    BY <1>2, <1>4
  <1>13. MemoryInv'
    BY <1>3 DEF MemoryInv
  <1>14. AgreeInv'
    <2>1. Agree(Now, cp.messages, Stored, cp.folded, last, cp.spliced)
      BY DEF ConvInv, AgreeInv
    <2>2. PICK u \in Seq(Plain) : u = Stored' /\ With(Stored, u, p, m)
      BY <1>8, <1>9
    <2>3. Agree(Append(Now, m), cp.messages, u, cp.folded, last + 1, cp.spliced)
      BY <1>2, <1>4, <1>11, <2>1, <2>2, AgreeAppend
    <2>4. Agree(Now', cp'.messages, Stored', cp'.folded, last', cp'.spliced)
      BY <1>2, <1>3, <2>2, <2>3
    <2> QED BY <2>4 DEF AgreeInv
  <1>15. RowsInv'
    <2>1. PICK k \in Nat : k = Len(Now) + 1
      BY <1>4
    <2>2. Early(rows, k)
      BY <1>4, <1>10, <2>1, EarlyMore DEF ConvInv
    <2>3. PICK q \in Seq([seq : Nat, m : Plain]) : q = rows' /\ With(rows, q, p, [seq |-> n, m |-> m])
      BY <1>8, <1>9
    <2>4. Early(q, k)
      <3>1. n <= k + 1
        BY <1>6, <2>1
      <3> QED BY <1>5, <2>2, <2>3, <3>1, EarlyWith
    <2>5. Early(q, Len(cp.messages))
      <3>1. PICK l \in Nat : l = Len(cp.messages)
        BY <1>4
      <3>2. m.role = "user" => n <= l + 1
        BY <1>2, <1>4, <1>6, <3>1
      <3>3. Early(q, l)
        BY <1>5, <1>10, <2>3, <3>1, <3>2, EarlyWith
      <3> QED BY <3>1, <3>3
    <2> QED BY <1>3, <1>12, <2>1, <2>3, <2>4, <2>5 DEF RowsInv
  <1>16. LongerInv'
    <2> SUFFICES ASSUME Len(cp.messages) > Len(Now')
                 PROVE  Len(cp.messages) <= Len(rows') /\ Len(cp.messages) # Len(rows')
      BY <1>3 DEF LongerInv
    <2>1. Len(cp.messages) > Len(Now)
      BY <1>4, <1>12
    <2>2. Len(cp.messages) <= Len(rows)
      BY <2>1 DEF ConvInv, LongerInv
    <2> QED BY <1>4, <1>8, <2>2
  <1>17. QuietInv'
    <2> SUFFICES ASSUME Quiet'
                 PROVE  /\ Len(cp.messages) <= Len(Now') /\ Len(rows') <= Len(Now')
                        /\ Whole(Now', cp.folded)
      BY <1>3 DEF QuietInv
    <2>1. Quiet
      BY <1>3 DEF Quiet
    <2>2. Len(cp.messages) <= Len(Now) /\ Len(rows) <= Len(Now) /\ Whole(Now, cp.folded)
      BY <2>1 DEF ConvInv, QuietInv
    <2>3. m.id \notin cp.folded
      <3>1. \A id \in cp.folded : id <= last
        BY DEF ConvInv, AgreeInv, Agree
      <3>2. ~(m.id <= last)
        BY <1>2, <1>4
      <3> QED BY <3>1, <3>2
    <2>4. Whole(Append(Now, m), cp.folded)
      BY <1>2, <1>4, <2>2, <2>3, AppendWhole
    <2> QED BY <1>2, <1>4, <1>8, <1>12, <2>2, <2>4
  <1> QED BY <1>13, <1>14, <1>15, <1>16, <1>17

(* To write the checkpoint, to leave memory and to come back. *)
LEMMA WritesKeeps ==
    ASSUME ConvInv, Writes
    PROVE  MemoryInv' /\ AgreeInv' /\ RowsInv' /\ LongerInv' /\ QuietInv'
  <1> DEFINE list == cp'.messages
  <1>1. /\ rows' = rows /\ last' = last /\ cp'.folded = cp.folded /\ cp'.spliced = cp.spliced
        /\ list \in {cp.messages, Now, Longest} /\ Now' \in {Now, list}
        /\ MemoryInv'
    BY DEF Writes
  <1>2. /\ Len(Stored) = Len(rows) /\ Len(Now) \in Nat /\ Len(cp.messages) \in Nat /\ Len(rows) \in Nat
        /\ Len(Longest) \in Nat /\ Now \in Seq(Plain)
    <2>1. Longest \in Seq(Plain)
      BY ListsTyped DEF ConvInv
    <2> QED BY <2>1, ListsTyped DEF ConvInv
  <1>3. /\ \/ Longest = Now /\ Len(Now) >= Len(cp.messages) /\ Len(Now) >= Len(rows)
           \/ Longest = cp.messages /\ Len(cp.messages) >= Len(rows) /\ Len(cp.messages) > Len(Now)
           \/ Longest = Stored /\ Len(rows) > Len(cp.messages) /\ Len(rows) > Len(Now)
        /\ Longest \in {Now, cp.messages, Stored}
        /\ Len(Longest) >= Len(Now) /\ Len(Longest) >= Len(cp.messages)
    BY LongestIs DEF ConvInv
  <1>4. Agree(Now, cp.messages, Stored, cp.folded, last, cp.spliced)
    BY DEF ConvInv, AgreeInv
  <1>5. Early(rows, Len(Now)) /\ Early(rows, Len(cp.messages))
        /\ (pc \in {"verify", "batched"} => Len(Now) <= Len(cp.messages))
    BY DEF ConvInv, RowsInv
  <1>6. Stored' = Stored
    BY <1>1 DEF Stored
  <1>7. AgreeInv'
    <2>1. list \in {Now, cp.messages, Stored} /\ Now' \in {Now, cp.messages, Stored}
      BY <1>1, <1>3
    <2>2. PICK x \in {Now, cp.messages, Stored}, y \in {Now, cp.messages, Stored} : x = Now' /\ y = list
      BY <2>1
    <2>3. Agree(x, y, Stored, cp.folded, last, cp.spliced)
      BY <1>4, AgreeWrites
    <2>4. Agree(Now', cp'.messages, Stored', cp'.folded, last', cp'.spliced)
      BY <1>1, <1>6, <2>2, <2>3
    <2> QED BY <2>4 DEF AgreeInv
  <1>8. RowsInv'
    <2>1. Early(rows, Len(Longest))
      BY <1>2, <1>3, <1>5, EarlyMore DEF ConvInv
    <2>2. Early(rows, Len(list)) /\ Early(rows, Len(Now'))
      BY <1>1, <1>5, <2>1
    <2>3. ASSUME pc' \in {"verify", "batched"} PROVE Len(Now') <= Len(list)
      <3>1. /\ Now' = Now
            /\ (list = cp.messages /\ pc \in {"verify", "batched"}) \/ list \in {Now, Longest}
        BY <2>3 DEF Writes
      <3>2. CASE list = cp.messages /\ pc \in {"verify", "batched"}
        BY <1>5, <3>1, <3>2
      <3>3. CASE list = Now
        BY <1>2, <3>1, <3>3
      <3>4. CASE list = Longest
        BY <1>2, <1>3, <3>1, <3>4
      <3> QED BY <3>1, <3>2, <3>3, <3>4
    <2> QED BY <1>1, <2>2, <2>3 DEF RowsInv
  <1>9. LongerInv'
    <2> SUFFICES ASSUME Len(list) > Len(Now')
                 PROVE  /\ Len(list) <= Len(rows)
                        /\ Len(list) = Len(rows) => \A m \in ToSet(Now') : m.id > cp.spliced => m \in ToSet(list)
      BY <1>1 DEF LongerInv
    <2>1. Len(list) \in Nat
      BY <1>1, <1>2
    <2>2. Now' = Now /\ list # Now
      BY <1>1, <2>1
    <2>3. CASE list = cp.messages
      BY <2>2, <2>3 DEF ConvInv, LongerInv
    <2>4. CASE list = Stored
      <3>1. \A m \in ToSet(Now) : m.id > cp.spliced => m \in ToSet(Stored)
        BY <1>4 DEF Agree, Known
      <3> QED BY <1>2, <2>2, <2>4, <3>1
    <2> QED BY <1>1, <1>3, <2>2, <2>3, <2>4
  <1>10. QuietInv'
    <2> SUFFICES ASSUME Quiet'
                 PROVE  Len(list) <= Len(Now') /\ Len(rows) <= Len(Now') /\ Whole(Now', cp.folded)
      BY <1>1 DEF QuietInv
    <2>1. Quiet /\ (list \in {Now, Longest} \/ (list = cp.messages /\ Now' = Now))
      BY DEF Writes
    <2>2. Len(cp.messages) <= Len(Now) /\ Len(rows) <= Len(Now) /\ Whole(Now, cp.folded)
      BY <2>1 DEF ConvInv, QuietInv
    <2>3. Longest = Now
      BY <1>2, <1>3, <2>2
    <2>4. Now' = Now /\ list \in {Now, cp.messages}
      BY <1>1, <2>1, <2>3
    <2> QED BY <1>2, <2>2, <2>4
  <1> QED BY <1>1, <1>7, <1>8, <1>9, <1>10

(* To compact. *)
LEMMA FoldingKeeps ==
    ASSUME ConvInv, Folding
    PROVE  MemoryInv' /\ AgreeInv' /\ RowsInv' /\ LongerInv' /\ QuietInv'
  <1>1. /\ rows' = rows /\ last' = last /\ cp'.spliced = cp.spliced /\ Running /\ Running'
        /\ cp'.messages = Now /\ Now' = Now /\ cp'.folded = cp.folded \cup Ids(Now, Folds(Now, cp.folded))
        /\ folded' = cp'.folded /\ pc' \notin {"verify", "batched"} /\ count'.crashes = count.crashes
    BY DEF Folding
  <1>2. /\ Now \in Seq(Plain) /\ cp.messages \in Seq(Plain) /\ Stored \in Seq(Plain)
        /\ Len(Now) \in Nat /\ Len(rows) \in Nat /\ last \in Nat
    BY ListsTyped DEF ConvInv
  <1>3. Agree(Now, cp.messages, Stored, cp.folded, last, cp.spliced)
    BY DEF ConvInv, AgreeInv
  <1>4. MemoryInv'
    BY <1>1 DEF MemoryInv
  <1>5. AgreeInv'
    <2>1. Agree(Now, Now, Stored, cp.folded \cup Ids(Now, Folds(Now, cp.folded)), last, cp.spliced)
      BY <1>2, <1>3, AgreeFolds
    <2>2. Stored' = Stored
      BY <1>1 DEF Stored
    <2>3. Agree(Now', cp'.messages, Stored', cp'.folded, last', cp'.spliced)
      BY <1>1, <2>1, <2>2
    <2> QED BY <2>3 DEF AgreeInv
  <1>6. RowsInv'
    BY <1>1, <1>2 DEF ConvInv, RowsInv
  <1>7. LongerInv'
    BY <1>1, <1>2 DEF LongerInv
  <1>8. QuietInv'
    <2> SUFFICES ASSUME Quiet'
                 PROVE  Len(cp'.messages) <= Len(Now') /\ Len(rows') <= Len(Now') /\ Whole(Now', cp'.folded)
      BY DEF QuietInv
    <2>1. Quiet
      BY <1>1 DEF Quiet
    <2>2. Len(rows) <= Len(Now) /\ Whole(Now, cp.folded)
      BY <2>1 DEF ConvInv, QuietInv
    <2>3. Told(Now)
      BY <1>3 DEF Agree
    <2>4. Whole(Now, cp.folded \cup Ids(Now, Folds(Now, cp.folded)))
      BY <1>2, <2>2, <2>3, FoldsWhole
    <2> QED BY <1>1, <1>2, <2>2, <2>4
  <1> QED BY <1>4, <1>5, <1>6, <1>7, <1>8

(* Every step keeps the invariant. *)
LEMMA ConvStep ==
    ASSUME ConvInv, [Next]_vars
    PROVE  ConvInv'
  <1>1. Kind
    BY StepKind DEF ConvInv
  <1>2. CASE Adds
    BY <1>1, <1>2, AddsKeeps DEF ConvInv, Kind
  <1>3. CASE Writes
    BY <1>1, <1>3, WritesKeeps DEF ConvInv, Kind
  <1>4. CASE Folding
    BY <1>1, <1>4, FoldingKeeps DEF ConvInv, Kind
  <1> QED BY <1>1, <1>2, <1>3, <1>4 DEF Kind


(* The first list: what was said before and the goal, numbered in order. *)
LEMMA FirstList ==
    ASSUME NEW n \in Nat
    PROVE  LET s == Append(Earlier(n), User(n + 1))
           IN /\ s \in Seq(Plain) /\ Len(s) = n + 1 /\ s[n + 1] = User(n + 1)
              /\ \A i \in 1 .. n + 1 : s[i].id = i
  <1> DEFINE e(i) == IF i = 1 THEN User(i) ELSE Message(i, "assistant", 0, NoCall, 1)
  <1>1. ASSUME NEW i \in 1 .. n PROVE e(i) \in Plain /\ e(i).id = i
    <2>1. i \in Nat \ {0}
      BY <1>1
    <2>2. User(i) \in Plain /\ User(i).id = i
      BY <2>1, Sayings
    <2>3. PICK m : m = Message(i, "assistant", 0, NoCall, 1)
      OBVIOUS
    <2>4. m \in Plain /\ m.id = i
      BY <2>1, <2>3, Sayings
    <2> QED BY <2>2, <2>3, <2>4
  <1>2. PICK s \in Seq(Plain) : s = Earlier(n) /\ Len(s) = n /\ \A i \in 1 .. n : s[i] = e(i)
    <2>1. Earlier(n) = [i \in 1 .. n |-> e(i)]
      BY DEF Earlier
    <2> HIDE DEF e
    <2>2. Earlier(n) \in Seq(Plain) /\ Len(Earlier(n)) = n /\ \A i \in 1 .. n : Earlier(n)[i] = e(i)
      BY <1>1, <2>1
    <2> QED BY <2>2
  <1> HIDE DEF e
  <1>3. PICK m \in Plain : m = User(n + 1) /\ m.id = n + 1
    <2>1. n + 1 \in Nat \ {0}
      OBVIOUS
    <2> QED BY <2>1, Sayings
  <1>4. PICK t \in Seq(Plain) : t = Append(s, m) /\ Len(t) = n + 1 /\ t[n + 1] = m /\ \A i \in 1 .. n : t[i] = s[i]
    <2>1. /\ Append(s, m) \in Seq(Plain) /\ Len(Append(s, m)) = Len(s) + 1
          /\ \A i \in 1 .. Len(s) : Append(s, m)[i] = s[i]
          /\ Append(s, m)[Len(s) + 1] = m
      OBVIOUS
    <2> QED BY <1>2, <2>1
  <1>5. ASSUME NEW i \in 1 .. n + 1 PROVE t[i].id = i
    <2>1. CASE i \in 1 .. n
      BY <1>1, <1>2, <1>4, <2>1
    <2>2. CASE i = n + 1
      BY <1>3, <1>4, <2>2
    <2> QED BY <2>1, <2>2
  <1> QED BY <1>2, <1>3, <1>4, <1>5

(* The invariant holds at first. *)
LEMMA ConvInit == Init => ConvInv
  <1> SUFFICES ASSUME Init PROVE ConvInv
    OBVIOUS
  <1>1. PICK n \in Splice :
        /\ messages = Append(Earlier(n), User(n + 1))
        /\ rows = <<[seq |-> 0, m |-> User(n + 1)]>>
        /\ cp = [messages |-> messages, folded |-> {}, attempt |-> 0, pending |-> {}, done |-> {},
                 phase |-> "model_turn", spliced |-> n]
        /\ folded = {} /\ attempt = 0 /\ pending = {} /\ done = {} /\ todo = {}
        /\ stopping = FALSE /\ status = "running" /\ pc = "top" /\ last = n + 1
        /\ count = [crashes |-> 0, stops |-> 0, resumes |-> 0]
    BY DEF Init
  <1>2. n \in Nat /\ n + 1 \in Nat \ {0}
    BY ConversationAssumption
  <1>3. /\ messages \in Seq(Plain) /\ Len(messages) = n + 1 /\ messages[n + 1] = User(n + 1)
        /\ \A i \in 1 .. n + 1 : messages[i].id = i
    BY <1>1, <1>2, FirstList
  <1>4. PICK m \in Plain : m = User(n + 1) /\ m.id = n + 1 /\ m.role = "user"
    BY <1>2, Sayings
  <1>5. Running /\ Now = messages /\ cp.messages = messages /\ cp.folded = {} /\ cp.spliced = n
    BY <1>1 DEF Running, Now
  <1>6. Types
    <2>1. rows \in Seq([seq : Nat, m : Plain])
      <3>1. PICK r \in [seq : Nat, m : Plain] : r = [seq |-> 0, m |-> m]
        OBVIOUS
      <3>2. rows = <<r>>
        BY <1>1, <1>4, <3>1
      <3> QED BY <3>2
    <2>2. cp \in Checkpoints
      BY <1>1, <1>2, <1>3 DEF Checkpoints, Phases
    <2> QED BY <1>1, <1>2, <1>3, <2>1, <2>2 DEF Types
  <1>7. Len(rows) = 1 /\ DOMAIN rows = 1 .. 1 /\ rows[1].m = m /\ rows[1].seq = 0
    BY <1>1, <1>4
  <1>8. Stored \in Seq(Plain) /\ Len(Stored) = 1 /\ Stored[1] = m
    BY <1>6, <1>7, ListsTyped DEF Stored
  <1>9. Told(messages)
    <2>1. \A i, j \in 1 .. Len(messages) : messages[i].id = messages[j].id => i = j
      BY <1>3
    <2>2. \A i, j \in Users(messages) : i < j => messages[i].id < messages[j].id
      BY <1>3 DEF Users
    <2>3. n + 1 \in Users(messages)
      BY <1>2, <1>3, <1>4 DEF Users
    <2> QED BY <2>1, <2>2, <2>3 DEF Told
  <1>10. Users(Stored) = {1}
    BY <1>4, <1>8 DEF Users
  <1>11. Told(Stored)
    BY <1>8, <1>10 DEF Told
  <1>12. Goal(Stored) = n + 1
    <2>1. 1 \in Users(Stored) /\ \A i \in Users(Stored) : Stored[i].id <= Stored[1].id
      BY <1>2, <1>4, <1>8, <1>10
    <2> QED BY <1>4, <1>8, <1>11, <2>1, GoalHighest
  <1>13. ToSet(Stored) = {m} /\ ToSet(messages) = {messages[i] : i \in 1 .. n + 1} /\ m \in ToSet(messages)
    <2>1. DOMAIN messages = 1 .. n + 1 /\ DOMAIN Stored = 1 .. 1
      BY <1>3, <1>8
    <2>2. ToSet(Stored) = {m}
      BY <1>8, <2>1 DEF ToSet
    <2>3. n + 1 \in 1 .. n + 1
      BY <1>2
    <2> QED BY <1>3, <1>4, <2>1, <2>2, <2>3 DEF ToSet
  <1>14. AgreeInv
    <2>1. \A x \in ToSet(messages) : x.id <= n + 1 /\ (x.id > n => x = m)
      <3> SUFFICES ASSUME NEW i \in 1 .. n + 1
                   PROVE  messages[i].id <= n + 1 /\ (messages[i].id > n => messages[i] = m)
        BY <1>13
      <3>1. messages[i].id = i
        BY <1>3
      <3>2. i > n => i = n + 1
        BY <1>2
      <3> QED BY <1>2, <1>3, <1>4, <3>1, <3>2
    <2>2. Known(ToSet(messages), Stored, n + 1, n)
      BY <1>12, <1>13, <2>1 DEF Known
    <2>3. \A x, y \in ToSet(messages) : x.id = y.id => x = y
      BY <1>3, <1>13
    <2>4. ToSet(messages) \cup ToSet(messages) \cup ToSet(Stored) = ToSet(messages)
      BY <1>13
    <2>5. Agree(messages, messages, Stored, {}, n + 1, n)
      BY <1>9, <1>11, <2>2, <2>3, <2>4 DEF Agree
    <2> QED BY <1>1, <1>5, <2>5 DEF AgreeInv
  <1>15. MemoryInv
    BY <1>1, <1>5 DEF MemoryInv
  <1>16. RowsInv
    BY <1>1, <1>2, <1>3, <1>5, <1>7 DEF RowsInv, Early
  <1>17. LongerInv
    BY <1>2, <1>3, <1>5 DEF LongerInv
  <1>18. QuietInv
    <2>1. Whole(Now, cp.folded)
      BY <1>5 DEF Whole
    <2> QED BY <1>2, <1>3, <1>5, <1>7, <2>1 DEF QuietInv
  <1> QED BY <1>6, <1>14, <1>15, <1>16, <1>17, <1>18 DEF ConvInv

-------------------------------------------------------------------------------
(* The theorems. *)

(* The lists stay in step through every turn, batch, check, stop, crash and resume. *)
THEOREM ConversationTypes == Spec => []ConvInv
  <1>1. Init => ConvInv
    BY ConvInit
  <1>2. ConvInv /\ [Next]_vars => ConvInv'
    BY ConvStep
  <1> QED BY <1>1, <1>2, PTL DEF Spec

(* What a model turn is sent holds the goal that is worked on: no compaction folds it, no budget
   drops it, and no resume takes up a list whose goal was folded. *)
THEOREM GoalsAreSent == Spec => []GoalIsSent
  <1>1. ConvInv => GoalIsSent
    <2> SUFFICES ASSUME ConvInv, pc = "asking"
                 PROVE  \E g \in Sent(messages, folded) : LastUser(messages) \in g
      BY DEF GoalIsSent
    <2>1. Running /\ Now = messages /\ folded = cp.folded
      BY DEF Running, Now, ConvInv, MemoryInv
    <2>2. Told(messages) /\ Goal(messages) \notin folded /\ messages \in Seq(Plain)
      BY <2>1, ListsTyped DEF ConvInv, AgreeInv, Agree
    <2>3. {LastUser(messages)} \in Sent(messages, folded)
      BY <2>2, GoalStays
    <2> QED BY <2>3
  <1> QED BY <1>1, ConversationTypes, PTL

(* What a model turn is sent has the results of all its calls and the calls of all its results. *)
THEOREM PairsStayWhole == Spec => []PairsAreWhole
  <1>1. ConvInv => PairsAreWhole
    <2> SUFFICES ASSUME ConvInv
                 PROVE  LET k == UNION Sent(messages, folded)
                        IN UNION {CallsOf(messages[i]) : i \in k} = {messages[i].answers : i \in k} \ {NoCall}
      BY DEF PairsAreWhole
    <2>1. messages \in Seq(Plain)
      BY ListsTyped DEF ConvInv
    <2>2. Sent(messages, folded) \in SUBSET Groups(messages) /\ \A g \in Sent(messages, folded) : Valid(messages, g)
      BY SentIsLive
    <2> QED BY <2>1, <2>2, ValidPairs
  <1> QED BY <1>1, ConversationTypes, PTL

(* What was folded stays so in the checkpoint, and without a crash is never sent again. *)
THEOREM FoldsAreKept == Spec => FoldedStaysFolded
  <1> DEFINE Unsent ==
          pc = "asking" /\ count.crashes = 0 =>
              (folded \cup cp.folded) \cap Ids(messages, Sent(messages, folded)) = {}
  <1>1. ConvInv => Unsent
    <2> SUFFICES ASSUME ConvInv, pc = "asking", count.crashes = 0,
                        NEW id \in folded \cup cp.folded, id \in Ids(messages, Sent(messages, folded))
                 PROVE  FALSE
      OBVIOUS
    <2>1. Running /\ Now = messages /\ folded = cp.folded /\ Quiet /\ messages \in Seq(Plain)
      BY ListsTyped DEF Running, Now, ConvInv, MemoryInv, Quiet
    <2>2. Whole(messages, folded)
      BY <2>1 DEF ConvInv, QuietInv
    <2>3. Sent(messages, folded) \in SUBSET Groups(messages)
      BY SentIsLive
    <2>4. PICK g \in Sent(messages, folded) : \E k \in g : messages[k].id = id
      BY <2>1, <2>3, FoldedIds
    <2>5. g \in Groups(messages) /\ ~Covered(messages, g, folded)
      BY SentIsLive
    <2> QED BY <2>1, <2>2, <2>4, <2>5 DEF Whole
  <1>2. ConvInv /\ [Next]_vars => cp.folded \subseteq cp'.folded
    <2> SUFFICES ASSUME ConvInv, [Next]_vars PROVE cp.folded \subseteq cp'.folded
      OBVIOUS
    <2>1. Kind
      BY StepKind DEF ConvInv
    <2> QED BY <2>1 DEF Kind, Adds, Writes, Folding
  <1>3. ConvInv' => Unsent'
    BY <1>1, PTL
  <1> HIDE DEF Unsent
  <1>4. ConvInv /\ [Next]_vars => ConvInv'
    BY ConvStep
  <1>5. ConvInv /\ ConvInv' /\ [Next]_vars
        => [/\ cp.folded \subseteq cp'.folded
            /\ pc' = "asking" /\ count'.crashes = 0 =>
                  (folded' \cup cp'.folded) \cap Ids(messages', Sent(messages', folded')) = {}]_vars
    BY <1>2, <1>3 DEF Unsent
  <1> QED BY <1>4, <1>5, ConversationTypes, PTL DEF Spec, FoldedStaysFolded

(* A run that leaves memory and may be resumed leaves in the checkpoint all it has said. *)
THEOREM AllIsLeft == Spec => LeavesAllItSaid
  <1> DEFINE Left ==
          pc # "idle" /\ pc' = "idle" /\ status' \in Resumable /\ count'.crashes = count.crashes =>
             \A i \in DOMAIN messages : messages[i].id > cp.spliced => Contains(cp'.messages, messages[i])
  <1>1. ConvInv /\ [Next]_vars => Left
    <2> SUFFICES ASSUME ConvInv, [Next]_vars, pc # "idle", pc' = "idle", status' \in Resumable,
                        count'.crashes = count.crashes,
                        NEW i \in DOMAIN messages, messages[i].id > cp.spliced
                 PROVE  Contains(cp'.messages, messages[i])
      OBVIOUS
    <2>1. Running /\ ~Running' /\ Now = messages
      BY DEF Running, Now
    <2>2. Kind
      BY StepKind DEF ConvInv
    <2>3. cp'.messages \in {Now, Longest}
      BY <2>1, <2>2 DEF Kind, Adds, Writes, Folding
    <2>4. /\ Now \in Seq(Plain) /\ cp.messages \in Seq(Plain) /\ Stored \in Seq(Plain) /\ Len(Stored) = Len(rows)
          /\ Len(cp.messages) \in Nat /\ Len(rows) \in Nat
      BY ListsTyped DEF ConvInv
    <2>5. i \in 1 .. Len(Now) /\ messages[i] \in ToSet(Now)
      BY <2>1, <2>4, Places
    <2>6. messages[i] \in ToSet(cp'.messages) /\ cp'.messages \in Seq(Plain)
      <3>1. CASE cp'.messages = Now
        BY <2>4, <2>5, <3>1
      <3>2. CASE cp'.messages = Stored
        <4>1. messages[i] \in ToSet(Stored)
          BY <2>5 DEF ConvInv, AgreeInv, Agree, Known
        <4> QED BY <2>4, <3>2, <4>1
      <3>3. CASE Longest = cp.messages /\ Len(cp.messages) >= Len(rows) /\ Len(cp.messages) > Len(Now)
                 /\ cp'.messages = Longest
        <4>1. Len(cp.messages) = Len(rows)
          BY <2>4, <3>3 DEF ConvInv, LongerInv
        <4>2. messages[i] \in ToSet(cp.messages)
          BY <2>5, <3>3, <4>1 DEF ConvInv, LongerInv
        <4> QED BY <2>4, <3>3, <4>2
      <3> QED BY <2>3, <3>1, <3>2, <3>3, LongestIs DEF ConvInv
    <2> QED BY <2>6, Places DEF Contains
  <1> HIDE DEF Left
  <1>2. ConvInv /\ [Next]_vars => [Left]_vars
    BY <1>1
  <1>3. Spec => [][Left]_vars
    BY <1>2, ConversationTypes, PTL DEF Spec
  <1> QED BY <1>3 DEF LeavesAllItSaid, Left


===============================================================================
