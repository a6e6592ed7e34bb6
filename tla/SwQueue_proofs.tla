---------------------------- MODULE SwQueue_proofs ----------------------------
(***************************************************************************)
(* Proofs about SwQueue, for every set of operations and every bound.      *)
(*                                                                         *)
(* Where an operation is on its way through the worker is told by one      *)
(* number: i > 0 is a message on its way to the worker, 0 the worker's     *)
(* queue.  What becomes of it is decided by the next EXECUTE or CLEAR      *)
(* behind that place.                                                      *)
(***************************************************************************)
EXTENDS SwQueue, TLAPS, SequenceTheorems

Enq(o)       == [type |-> "ENQUEUE", op |-> o]
Occurs(s, o) == \E i \in 1 .. Len(s) : s[i] = o
NoRepeat(s)  == \A i, j \in 1 .. Len(s) : s[i] = s[j] => i = j

\* With the messages w on their way to the worker and the worker's queue q,
\* operation o is at place i.
At(q, w, o, i) == IF i = 0 THEN Occurs(q, o) ELSE i \in 1 .. Len(w) /\ w[i] = Enq(o)

\* No message of type t follows place i; the next of type t comes before any of
\* type u.
NoneAfter(w, i, t) == \A k \in 1 .. Len(w) : k > i => w[k].type # t
FirstOf(w, i, t, u) ==
  \E j \in 1 .. Len(w) :
    /\ j > i /\ w[j].type = t
    /\ \A k \in 1 .. Len(w) : k > i /\ k < j => w[k].type # u

-----------------------------------------------------------------------------
(* The invariants. *)

\* Only a page with a controller has given the worker anything, and only
\* operations it has enqueued with one.
WorkerHasPosted ==
  /\ controller # "active" => toWorker = <<>> /\ queue = <<>> /\ running = <<>>
  /\ \A o \in Op : \A i \in Nat : At(queue, toWorker, o, i) => o \in enqueued \ unposted
  /\ \A o \in Op : Occurs(running, o) => o \in enqueued \ unposted
  /\ unposted \cup early \cup swept \cup lost \subseteq enqueued /\ drained \subseteq enqueued \ unposted

\* An operation is at one place of the worker at most.
OnePlace ==
  /\ NoRepeat(running) /\ NoRepeat(queue)
  /\ \A o \in Op : \A i \in Nat : Occurs(running, o) => ~At(queue, toWorker, o, i)
  /\ \A o \in Op : \A i, j \in Nat : At(queue, toWorker, o, i) /\ At(queue, toWorker, o, j) => i = j

\* What the worker has of operations posted to a ready page was not run and will
\* not be fetched; what is fetched directly was not run before.
RunsOnce ==
  \A o \in Op \ early :
    /\ Occurs(running, o) \/ (\E i \in Nat : At(queue, toWorker, o, i)) =>
         Available /\ calls[o] = 0 /\ fetching[o] = "no"
    /\ fetching[o] = "sent" => calls[o] = 0
    /\ calls[o] <= 1
    /\ promise[o] = "none" /\ ~Available => calls[o] = 0

\* An operation nobody executed is run only by the worker, when an EXECUTE came
\* behind it.
NotDrained ==
  /\ \A o \in Op : promise[o] = "none" => fetching[o] = "no"
  /\ \A o \in Op : fetching[o] = "answered" => calls[o] > 0
  /\ \A o \in Op : calls[o] > 0 \/ promise[o] # "none" \/ fetching[o] # "no" => o \in enqueued
  /\ \A o \in Op \ drained :
       /\ ~Occurs(running, o)
       /\ promise[o] = "none" => calls[o] = 0
       /\ \A i \in Nat : At(queue, toWorker, o, i) => NoneAfter(toWorker, i, "EXECUTE")

\* What was swept meets a CLEAR before any EXECUTE.
SweptIsDoomed ==
  \A o \in swept :
    /\ calls[o] = 0 /\ fetching[o] = "no" /\ o \notin localOps
    /\ ~Occurs(running, o)
    /\ \A i \in Nat : At(queue, toWorker, o, i) => FirstOf(toWorker, i, "CLEAR", "EXECUTE")

\* What is not lost is still in _localOps until it is executed, with the worker
\* or about to reach it without a CLEAR behind it; once executed, it is fetched or
\* meets an EXECUTE before any CLEAR.
NotLost ==
  \A o \in enqueued \ lost :
    /\ promise[o] = "none" => o \in localOps
    /\ o \notin unposted \cup NoEndpoint /\ calls[o] = 0 /\ fetching[o] = "no" =>
         \/ Occurs(running, o)
         \/ \E i \in Nat : /\ At(queue, toWorker, o, i)
                           /\ IF promise[o] = "none" THEN NoneAfter(toWorker, i, "CLEAR")
                              ELSE FirstOf(toWorker, i, "EXECUTE", "CLEAR")

QueueInv ==
  /\ TypeOK /\ WorkerHasPosted /\ OnePlace /\ RunsOnce /\ NotDrained /\ SweptIsDoomed /\ NotLost

-----------------------------------------------------------------------------
(* Sequences without repetitions, and places. *)

LEMMA OccursAppend ==
  ASSUME NEW T, NEW s \in Seq(T), NEW e \in T, NEW o
  PROVE  Occurs(Append(s, e), o) <=> Occurs(s, o) \/ e = o
BY DEF Occurs

LEMMA OccursTail ==
  ASSUME NEW T, NEW s \in Seq(T), s # <<>>, NEW o
  PROVE  Occurs(s, o) <=> Occurs(Tail(s), o) \/ Head(s) = o
BY DEF Occurs

LEMMA OccursConcat ==
  ASSUME NEW T, NEW s \in Seq(T), NEW t \in Seq(T), NEW o
  PROVE  Occurs(s \o t, o) <=> Occurs(s, o) \/ Occurs(t, o)
<1>. DEFINE c == s \o t
<1>1. /\ Len(s) \in Nat /\ Len(t) \in Nat /\ Len(c) = Len(s) + Len(t)
      /\ \A i \in 1 .. Len(s) + Len(t) : c[i] = IF i <= Len(s) THEN s[i] ELSE t[i - Len(s)]
  BY ConcatProperties
<1>. HIDE DEF c
<1>2. ASSUME Occurs(c, o) PROVE Occurs(s, o) \/ Occurs(t, o)
  <2>1. PICK i \in 1 .. Len(c) : c[i] = o
    BY <1>2 DEF Occurs
  <2>2. CASE i <= Len(s)
    BY <1>1, <2>1, <2>2 DEF Occurs
  <2>3. CASE i > Len(s)
    <3>1. i - Len(s) \in 1 .. Len(t) /\ t[i - Len(s)] = o
      BY <1>1, <2>1, <2>3
    <3>. QED
      BY <3>1 DEF Occurs
  <2>. QED
    BY <1>1, <2>2, <2>3
<1>3. ASSUME Occurs(s, o) PROVE Occurs(c, o)
  BY <1>1, <1>3 DEF Occurs
<1>4. ASSUME Occurs(t, o) PROVE Occurs(c, o)
  <2>1. PICK i \in 1 .. Len(t) : t[i] = o
    BY <1>4 DEF Occurs
  <2>2. Len(s) + i \in 1 .. Len(c) /\ c[Len(s) + i] = o
    BY <1>1, <2>1
  <2>. QED
    BY <2>2 DEF Occurs
<1>. QED
  BY <1>2, <1>3, <1>4 DEF c

LEMMA NoRepeatAppend ==
  ASSUME NEW T, NEW s \in Seq(T), NEW e \in T, NoRepeat(s), ~Occurs(s, e)
  PROVE  NoRepeat(Append(s, e))
BY DEF Occurs, NoRepeat

LEMMA NoRepeatTail ==
  ASSUME NEW T, NEW s \in Seq(T), s # <<>>, NoRepeat(s)
  PROVE  NoRepeat(Tail(s)) /\ ~Occurs(Tail(s), Head(s))
BY DEF Occurs, NoRepeat

LEMMA NoRepeatConcat ==
  ASSUME NEW T, NEW s \in Seq(T), NEW t \in Seq(T), NoRepeat(s), NoRepeat(t),
         \A o \in T : Occurs(s, o) => ~Occurs(t, o)
  PROVE  NoRepeat(s \o t)
<1>. DEFINE c == s \o t
<1>1. /\ Len(s) \in Nat /\ Len(t) \in Nat /\ Len(c) = Len(s) + Len(t)
      /\ \A i \in 1 .. Len(s) + Len(t) : c[i] = IF i <= Len(s) THEN s[i] ELSE t[i - Len(s)]
      /\ \A i \in 1 .. Len(s) : s[i] \in T
  BY ConcatProperties, ElementOfSeq
<1>. HIDE DEF c
<1>2. ASSUME NEW i \in 1 .. Len(s), NEW j \in Len(s) + 1 .. Len(c), c[i] = c[j] PROVE FALSE
  <2>1. j - Len(s) \in 1 .. Len(t) /\ t[j - Len(s)] = s[i]
    BY <1>1, <1>2
  <2>. QED
    BY <1>1, <2>1 DEF Occurs
<1>. SUFFICES ASSUME NEW i \in 1 .. Len(c), NEW j \in 1 .. Len(c), c[i] = c[j] PROVE i = j
  BY DEF NoRepeat, c
<1>3. CASE i <= Len(s) /\ j <= Len(s)
  BY <1>1, <1>3 DEF NoRepeat
<1>4. CASE i > Len(s) /\ j > Len(s)
  <2>1. i - Len(s) \in 1 .. Len(t) /\ j - Len(s) \in 1 .. Len(t) /\ t[i - Len(s)] = t[j - Len(s)]
    BY <1>1, <1>4
  <2>2. i - Len(s) = j - Len(s)
    BY <2>1 DEF NoRepeat
  <2>. QED
    BY <1>1, <2>2
<1>. QED
  BY <1>1, <1>2, <1>3, <1>4

\* A message m is posted.
LEMMA Posted ==
  ASSUME NEW q, NEW w \in Seq(Message), NEW m \in Message, NEW i \in Nat
  PROVE  /\ \A o : At(q, Append(w, m), o, i) <=> At(q, w, o, i) \/ (i = Len(w) + 1 /\ m = Enq(o))
         /\ \A o : At(q, w, o, i) => i <= Len(w)
         /\ \A t : NoneAfter(w, i, t) /\ m.type # t => NoneAfter(Append(w, m), i, t)
         /\ \A t : i > Len(w) => NoneAfter(Append(w, m), i, t)
         /\ \A t, u : FirstOf(w, i, t, u) => FirstOf(Append(w, m), i, t, u)
         /\ \A t, u : i <= Len(w) /\ NoneAfter(w, i, u) /\ m.type = t => FirstOf(Append(w, m), i, t, u)
<1>. DEFINE x == Append(w, m)
<1>0. /\ Len(w) \in Nat /\ Len(x) = Len(w) + 1 /\ x[Len(w) + 1] = m
      /\ \A k \in 1 .. Len(w) : x[k] = w[k]
  BY AppendProperties
<1>. HIDE DEF x
<1>1. \A o : At(q, x, o, i) <=> At(q, w, o, i) \/ (i = Len(w) + 1 /\ m = Enq(o))
  BY <1>0 DEF At
<1>2. \A o : At(q, w, o, i) => i <= Len(w)
  BY <1>0 DEF At
<1>3. \A t : NoneAfter(w, i, t) /\ m.type # t => NoneAfter(x, i, t)
  BY <1>0 DEF NoneAfter
<1>4. \A t : i > Len(w) => NoneAfter(x, i, t)
  BY <1>0 DEF NoneAfter
<1>5. ASSUME NEW t, NEW u, FirstOf(w, i, t, u) PROVE FirstOf(x, i, t, u)
  BY <1>0, <1>5 DEF FirstOf
<1>6. ASSUME NEW t, NEW u, i <= Len(w), NoneAfter(w, i, u), m.type = t PROVE FirstOf(x, i, t, u)
  <2>1. Len(w) + 1 \in 1 .. Len(x) /\ Len(w) + 1 > i
    BY <1>0, <1>6
  <2>2. \A k \in 1 .. Len(x) : k > i /\ k < Len(w) + 1 => x[k].type # u
    BY <1>0, <1>6 DEF NoneAfter
  <2>. QED
    BY <1>0, <1>6, <2>1, <2>2 DEF FirstOf
<1>. QED
  BY <1>1, <1>2, <1>3, <1>4, <1>5, <1>6 DEF x

\* The worker takes the first message.
LEMMA Taken ==
  ASSUME NEW q, NEW w \in Seq(Message), w # <<>>, NEW i \in Nat
  PROVE  /\ \A o, p : i > 0 => (At(p, Tail(w), o, i) <=> At(q, w, o, i + 1))
         /\ \A t : NoneAfter(w, i + 1, t) => NoneAfter(Tail(w), i, t)
         /\ \A t, u : FirstOf(w, i + 1, t, u) => FirstOf(Tail(w), i, t, u)
         /\ \A t : NoneAfter(w, 0, t) => NoneAfter(Tail(w), 0, t) /\ Head(w).type # t
         /\ \A t, u : FirstOf(w, 0, t, u) =>
              Head(w).type = t \/ (Head(w).type # u /\ FirstOf(Tail(w), 0, t, u))
<1>. DEFINE x == Tail(w)
<1>0. /\ Len(w) \in Nat \ {0} /\ Len(x) = Len(w) - 1 /\ Head(w) = w[1]
      /\ \A k \in 1 .. Len(w) - 1 : x[k] = w[k + 1]
  BY HeadTailProperties, EmptySeq
<1>. HIDE DEF x
<1>1. \A o, p : i > 0 => (At(p, x, o, i) <=> At(q, w, o, i + 1))
  BY <1>0 DEF At
<1>2. \A t : NoneAfter(w, i + 1, t) => NoneAfter(x, i, t)
  BY <1>0 DEF NoneAfter
<1>3. ASSUME NEW n \in {0, i + 1}, NEW t, NEW u, FirstOf(w, n, t, u),
             n = 0 => Head(w).type # t
      PROVE  FirstOf(x, IF n = 0 THEN 0 ELSE n - 1, t, u) /\ (n = 0 => Head(w).type # u)
  <2>1. PICK j \in 1 .. Len(w) : /\ j > n /\ w[j].type = t
                                 /\ \A k \in 1 .. Len(w) : k > n /\ k < j => w[k].type # u
    BY <1>3 DEF FirstOf
  <2>2. j > 1
    BY <1>0, <1>3, <2>1
  <2>3. j - 1 \in 1 .. Len(x) /\ x[j - 1].type = t
    BY <1>0, <2>1, <2>2
  <2>4. \A k \in 1 .. Len(x) : k > (IF n = 0 THEN 0 ELSE n - 1) /\ k < j - 1 => x[k].type # u
    BY <1>0, <2>1, <2>2
  <2>5. n = 0 => Head(w).type # u
    BY <1>0, <2>1, <2>2
  <2>. QED
    BY <2>1, <2>2, <2>3, <2>4, <2>5 DEF FirstOf
<1>4. \A t, u : FirstOf(w, i + 1, t, u) => FirstOf(x, i, t, u)
  BY <1>3
<1>5. \A t : NoneAfter(w, 0, t) => NoneAfter(x, 0, t) /\ Head(w).type # t
  BY <1>0 DEF NoneAfter
<1>6. \A t, u : FirstOf(w, 0, t, u) =>
         Head(w).type = t \/ (Head(w).type # u /\ FirstOf(x, 0, t, u))
  BY <1>3
<1>. QED
  BY <1>1, <1>2, <1>4, <1>5, <1>6 DEF x

-----------------------------------------------------------------------------
(* Type correctness. *)

LEMMA InitType == Init => TypeOK
<1>. SUFFICES ASSUME Init PROVE TypeOK
  OBVIOUS
<1>1. <<>> \in Seq(Message) /\ <<>> \in Seq(Op)
  BY EmptySeq
<1>2. pending = {o \in Op : promise[o] = "waiting"} /\ pending \subseteq Op
  BY DEF Init
<1>3. /\ promise \in [Op -> {"none", "waiting", "resolved", "rejected", "timeout", "cancelled"}]
      /\ fetching \in [Op -> {"no", "sent", "answered"}] /\ calls \in [Op -> Nat]
  BY DEF Init
<1>4. clears \in 0 .. MaxClears /\ stops \in 0 .. MaxStops
  BY QueueAssumption DEF Init
<1>. QED
  BY <1>1, <1>2, <1>3, <1>4 DEF Init, TypeOK

LEMMA PostType ==
  ASSUME TypeOK, NEW m \in Message, PostMessage(m)
  PROVE  toWorker' \in Seq(Message)
BY AppendProperties DEF TypeOK, PostMessage

LEMMA MessageType ==
  /\ \A o \in Op : Enq(o) \in Message
  /\ [type |-> "EXECUTE"] \in Message /\ [type |-> "CLEAR"] \in Message
  /\ \A o : Enq(o).type = "ENQUEUE" /\ Enq(o).op = o
BY DEF Message, Enq

LEMMA MessageKinds ==
  ASSUME NEW m \in Message
  PROVE  /\ m.type \in {"ENQUEUE", "EXECUTE", "CLEAR"}
         /\ m.type = "ENQUEUE" => m.op \in Op /\ m = Enq(m.op)
BY DEF Message, Enq

LEMMA SettleType ==
  ASSUME TypeOK, NEW o \in Op,
         NEW how \in {"resolved", "rejected", "timeout", "cancelled"}, Settle(o, how)
  PROVE  /\ promise' \in [Op -> {"none", "waiting", "resolved", "rejected", "timeout", "cancelled"}]
         /\ pending' \subseteq Op /\ pending' = {x \in Op : promise'[x] = "waiting"}
BY DEF TypeOK, Settle

\* The three messages.
LEMMA TakesEffect ==
  ASSUME WorkerTakes
  PROVE  /\ Head(toWorker).type = "ENQUEUE" =>
              queue' = Append(queue, Head(toWorker).op) /\ running' = running
         /\ Head(toWorker).type = "EXECUTE" => queue' = <<>> /\ running' = running \o queue
         /\ Head(toWorker).type = "CLEAR" => queue' = <<>> /\ running' = running
<1>. DEFINE t == Head(toWorker).type
<1>1. ASSUME t = "ENQUEUE" PROVE queue' = Append(queue, Head(toWorker).op) /\ running' = running
  <2>1. t # "EXECUTE" /\ t # "CLEAR"
    BY <1>1
  <2>. QED
    BY <1>1, <2>1, Zenon DEF WorkerTakes
<1>2. ASSUME t = "EXECUTE" PROVE queue' = <<>> /\ running' = running \o queue
  <2>1. t # "ENQUEUE" /\ t # "CLEAR"
    BY <1>2
  <2>. QED
    BY <1>2, <2>1, Zenon DEF WorkerTakes
<1>3. ASSUME t = "CLEAR" PROVE queue' = <<>> /\ running' = running
  <2>1. t # "ENQUEUE" /\ t # "EXECUTE"
    BY <1>3
  <2>. QED
    BY <1>3, <2>1, Zenon DEF WorkerTakes
<1>. QED
  BY <1>1, <1>2, <1>3

LEMMA NextType == TypeOK /\ [Next]_vars => TypeOK'
<1>. SUFFICES ASSUME TypeOK, [Next]_vars PROVE TypeOK'
  OBVIOUS
<1>. USE QueueAssumption DEF TypeOK, page, worker, history
<1>1. CASE RegisterFails
  BY <1>1 DEF RegisterFails
<1>2. CASE Register
  BY <1>2 DEF Register
<1>3. CASE Claim
  BY <1>3 DEF Claim
<1>4. CASE Ready
  BY <1>4 DEF Ready
<1>5. ASSUME NEW o \in Op, Enqueue(o) PROVE TypeOK'
  <2>1. toWorker' \in Seq(Message)
    BY <1>5, PostType, MessageType DEF Enqueue, Enq
  <2>. QED
    BY <1>5, <2>1 DEF Enqueue
<1>6. ASSUME NEW S \in SUBSET Op, Execute(S) PROVE TypeOK'
  <2>1. toWorker' \in Seq(Message)
    BY <1>6, PostType, MessageType DEF Execute
  <2>2. /\ promise' \in [Op -> {"none", "waiting", "resolved", "rejected", "timeout", "cancelled"}]
        /\ pending' \subseteq Op /\ pending' = {x \in Op : promise'[x] = "waiting"}
    BY <1>6 DEF Execute
  <2>3. fetching' \in [Op -> {"no", "sent", "answered"}]
    BY <1>6 DEF Execute
  <2>. QED
    BY <1>6, <2>1, <2>2, <2>3 DEF Execute
<1>7. ASSUME NEW o \in Op, Timeout(o) PROVE TypeOK'
  BY <1>7, SettleType DEF Timeout
<1>8. CASE Clear
  <2>1. toWorker' \in Seq(Message)
    BY <1>8, PostType, MessageType DEF Clear
  <2>. QED
    BY <1>8, <2>1 DEF Clear
<1>9. CASE OnMessage
  <2>1. Head(toPage) \in Op /\ toPage' \in Seq(Op)
    BY <1>9, HeadTailProperties DEF OnMessage
  <2>2. /\ promise' \in [Op -> {"none", "waiting", "resolved", "rejected", "timeout", "cancelled"}]
        /\ pending' \subseteq Op /\ pending' = {x \in Op : promise'[x] = "waiting"}
    BY <1>9, <2>1, SettleType DEF OnMessage
  <2>. QED
    BY <1>9, <2>1, <2>2 DEF OnMessage
<1>10. ASSUME NEW o \in Op, Fetch(o) PROVE TypeOK'
  BY <1>10 DEF Fetch
<1>11. ASSUME NEW o \in Op, Fetched(o) PROVE TypeOK'
  <2>1. /\ promise' \in [Op -> {"none", "waiting", "resolved", "rejected", "timeout", "cancelled"}]
        /\ pending' \subseteq Op /\ pending' = {x \in Op : promise'[x] = "waiting"}
    BY <1>11, SettleType DEF Fetched
  <2>. QED
    BY <1>11, <2>1 DEF Fetched
<1>12. CASE WorkerTakes
  <2>1. Head(toWorker) \in Message /\ toWorker' \in Seq(Message)
    BY <1>12, HeadTailProperties DEF WorkerTakes
  <2>2. queue' \in Seq(Op) /\ running' \in Seq(Op)
    <3>1. CASE Head(toWorker).type = "ENQUEUE"
      <4>1. queue' = Append(queue, Head(toWorker).op) /\ running' = running
        BY <1>12, <3>1, TakesEffect
      <4>. QED
        BY <2>1, <3>1, <4>1, MessageKinds, AppendProperties
    <3>2. CASE Head(toWorker).type = "EXECUTE"
      <4>1. queue' = <<>> /\ running' = running \o queue
        BY <1>12, <3>2, TakesEffect
      <4>. QED
        BY <4>1, ConcatProperties, EmptySeq
    <3>3. CASE Head(toWorker).type = "CLEAR"
      <4>1. queue' = <<>> /\ running' = running
        BY <1>12, <3>3, TakesEffect
      <4>. QED
        BY <4>1, EmptySeq
    <3>4. Head(toWorker).type \in {"ENQUEUE", "EXECUTE", "CLEAR"}
      BY <2>1, MessageKinds
    <3>. QED
      BY <3>1, <3>2, <3>3, <3>4
  <2>. QED
    BY <1>12, <2>1, <2>2 DEF WorkerTakes
<1>13. CASE WorkerRuns
  <2>1. Head(running) \in Op /\ running' \in Seq(Op)
    BY <1>13, HeadTailProperties DEF WorkerRuns
  <2>2. toPage' \in Seq(Op) /\ calls' \in [Op -> Nat]
    BY <1>13, <2>1, AppendProperties DEF WorkerRuns
  <2>. QED
    BY <1>13, <2>1, <2>2 DEF WorkerRuns
<1>14. CASE WorkerStops
  <2>1. ToSet(queue) \subseteq Op /\ ToSet(running) \subseteq Op
    BY ElementOfSeq DEF ToSet
  <2>. QED
    BY <1>14, <2>1, EmptySeq DEF WorkerStops
<1>15. CASE UNCHANGED vars
  BY <1>15 DEF vars
<1>. QED
  BY <1>1, <1>2, <1>3, <1>4, <1>5, <1>6, <1>7, <1>8, <1>9, <1>10, <1>11, <1>12, <1>13, <1>14,
     <1>15 DEF Next

\* Every variable keeps its type, and an entry of _pending with its timer is
\* there exactly as long as its promise waits.
THEOREM TypeCorrect == Spec => []TypeOK
BY InitType, NextType, PTL DEF Spec

-----------------------------------------------------------------------------
(* What the steps of the worker do to the places. *)

\* Posting a message that is no ENQUEUE moves nothing.
LEMMA PostMoves ==
  ASSUME TypeOK, NEW m \in Message, m.type # "ENQUEUE", PostMessage(m), queue' = queue,
         NEW o \in Op, NEW i \in Nat
  PROVE  At(queue', toWorker', o, i) <=> At(queue, toWorker, o, i)
<1>1. m # Enq(o)
  BY MessageType
<1>. QED
  BY <1>1, Posted DEF PostMessage, TypeOK

LEMMA EnqueueMoves ==
  ASSUME TypeOK, NEW x \in Op, Enqueue(x), NEW o \in Op, NEW i \in Nat
  PROVE  /\ At(queue, toWorker, o, i) => At(queue', toWorker', o, i)
         /\ At(queue', toWorker', o, i) => At(queue, toWorker, o, i)
               \/ (controller = "active" /\ o = x /\ i = Len(toWorker) + 1)
         /\ controller = "active" => At(queue', toWorker', x, Len(toWorker) + 1)
         /\ At(queue, toWorker, o, i) => i <= Len(toWorker)
<1>1. Enq(x) \in Message /\ toWorker \in Seq(Message) /\ Len(toWorker) + 1 \in Nat
  BY MessageType DEF TypeOK
<1>2. queue' = queue
      /\ toWorker' = IF controller = "active" THEN Append(toWorker, Enq(x)) ELSE toWorker
  BY DEF Enqueue, PostMessage, Enq
<1>3. Enq(x) = Enq(o) => x = o
  BY MessageType
<1>. QED
  BY <1>1, <1>2, <1>3, Posted

\* Where an operation came from when the worker took a message.
LEMMA TakenFrom ==
  ASSUME TypeOK, WorkerTakes, NEW o \in Op, NEW i \in Nat, At(queue', toWorker', o, i)
  PROVE  \E n \in Nat :
           /\ At(queue, toWorker, o, n)
           /\ IF i > 0 THEN n = i + 1 ELSE n \in {0, 1} /\ Head(toWorker).type = "ENQUEUE"
           /\ \A t \in {"EXECUTE", "CLEAR"} :
                /\ NoneAfter(toWorker, n, t) => NoneAfter(toWorker', i, t)
                /\ \A u : FirstOf(toWorker, n, t, u) => FirstOf(toWorker', i, t, u)
<1>. DEFINE h == Head(toWorker)
<1>1. toWorker \in Seq(Message) /\ toWorker # <<>> /\ toWorker' = Tail(toWorker)
  BY DEF TypeOK, WorkerTakes
<1>2. h \in Message /\ h = toWorker[1] /\ 1 \in 1 .. Len(toWorker)
  BY <1>1, HeadTailProperties, EmptySeq
<1>3. CASE i > 0
  <2>1. At(queue', Tail(toWorker), o, i) <=> At(queue, toWorker, o, i + 1)
    BY <1>1, <1>3, Taken
  <2>2. \A t \in {"EXECUTE", "CLEAR"} :
          /\ NoneAfter(toWorker, i + 1, t) => NoneAfter(toWorker', i, t)
          /\ \A u : FirstOf(toWorker, i + 1, t, u) => FirstOf(toWorker', i, t, u)
    BY <1>1, Taken
  <2>. QED
    BY <1>1, <1>3, <2>1, <2>2
<1>4. CASE i = 0
  <2>1. Occurs(queue', o)
    BY <1>4 DEF At
  <2>2. h.type \in {"ENQUEUE", "EXECUTE", "CLEAR"}
    BY <1>2, MessageKinds
  <2>3. h.type = "ENQUEUE"
    BY <2>1, <2>2, TakesEffect DEF Occurs
  <2>4. h.op \in Op /\ h = Enq(h.op)
    BY <1>2, <2>3, MessageKinds
  <2>5. Occurs(queue, o) \/ h.op = o
    <3>1. queue' = Append(queue, h.op) /\ queue \in Seq(Op)
      BY <2>3, TakesEffect DEF TypeOK
    <3>. QED
      BY <2>1, <2>4, <3>1, OccursAppend
  <2>6. CASE Occurs(queue, o)
    <3>1. At(queue, toWorker, o, 0)
      BY <2>6 DEF At
    <3>2. h.type # "EXECUTE" /\ h.type # "CLEAR"
      BY <2>3
    <3>3. \A t \in {"EXECUTE", "CLEAR"} :
            /\ NoneAfter(toWorker, 0, t) => NoneAfter(toWorker', 0, t)
            /\ \A u : FirstOf(toWorker, 0, t, u) => FirstOf(toWorker', 0, t, u)
      BY <1>1, <3>2, Taken
    <3>. QED
      BY <1>4, <2>3, <3>1, <3>3
  <2>7. CASE h.op = o
    <3>1. At(queue, toWorker, o, 1)
      BY <1>2, <2>4, <2>7 DEF At
    <3>2. \A t \in {"EXECUTE", "CLEAR"} :
            /\ NoneAfter(toWorker, 1, t) => NoneAfter(toWorker', 0, t)
            /\ \A u : FirstOf(toWorker, 1, t, u) => FirstOf(toWorker', 0, t, u)
      BY <1>1, Taken
    <3>. QED
      BY <1>4, <2>3, <3>1, <3>2
  <2>. QED
    BY <2>5, <2>6, <2>7
<1>. QED
  BY <1>3, <1>4

\* Where it goes.
LEMMA TakenTo ==
  ASSUME TypeOK, WorkerTakes, NEW o \in Op, NEW n \in Nat, At(queue, toWorker, o, n)
  PROVE  \/ n = 0 /\ Head(toWorker).type = "CLEAR"
         \/ n = 0 /\ Head(toWorker).type = "EXECUTE" /\ Occurs(running', o)
         \/ \E i \in Nat :
              /\ At(queue', toWorker', o, i)
              /\ NoneAfter(toWorker, n, "CLEAR") => NoneAfter(toWorker', i, "CLEAR")
              /\ FirstOf(toWorker, n, "EXECUTE", "CLEAR") => FirstOf(toWorker', i, "EXECUTE", "CLEAR")
<1>. DEFINE h == Head(toWorker)
<1>1. toWorker \in Seq(Message) /\ toWorker # <<>> /\ toWorker' = Tail(toWorker)
  BY DEF TypeOK, WorkerTakes
<1>2. h \in Message /\ h = toWorker[1]
  BY <1>1, HeadTailProperties
<1>3. h.type \in {"ENQUEUE", "EXECUTE", "CLEAR"}
  BY <1>2, MessageKinds
<1>4. CASE n > 1
  <2>1. n - 1 \in Nat /\ n - 1 > 0 /\ (n - 1) + 1 = n
    BY <1>4
  <2>2. At(queue', toWorker', o, n - 1)
    <3>1. At(queue', Tail(toWorker), o, n - 1) <=> At(queue, toWorker, o, (n - 1) + 1)
      BY <1>1, <2>1, Taken
    <3>. QED
      BY <1>1, <2>1, <3>1
  <2>3. /\ NoneAfter(toWorker, n, "CLEAR") => NoneAfter(toWorker', n - 1, "CLEAR")
        /\ FirstOf(toWorker, n, "EXECUTE", "CLEAR") => FirstOf(toWorker', n - 1, "EXECUTE", "CLEAR")
    <3>1. /\ NoneAfter(toWorker, (n - 1) + 1, "CLEAR") => NoneAfter(toWorker', n - 1, "CLEAR")
          /\ FirstOf(toWorker, (n - 1) + 1, "EXECUTE", "CLEAR") => FirstOf(toWorker', n - 1, "EXECUTE", "CLEAR")
      BY <1>1, <2>1, Taken
    <3>. QED
      BY <2>1, <3>1
  <2>. QED
    BY <2>1, <2>2, <2>3
<1>5. CASE n = 1
  <2>1. h = Enq(o) /\ h.type = "ENQUEUE" /\ h.op = o
    BY <1>2, <1>5, MessageType DEF At
  <2>2. Occurs(queue', o)
    <3>1. queue' = Append(queue, o) /\ queue \in Seq(Op)
      BY <2>1, TakesEffect DEF TypeOK
    <3>. QED
      BY <3>1, OccursAppend
  <2>3. At(queue', toWorker', o, 0)
    BY <2>2 DEF At
  <2>4. /\ NoneAfter(toWorker, 1, "CLEAR") => NoneAfter(toWorker', 0, "CLEAR")
        /\ FirstOf(toWorker, 1, "EXECUTE", "CLEAR") => FirstOf(toWorker', 0, "EXECUTE", "CLEAR")
    BY <1>1, Taken
  <2>. QED
    BY <1>5, <2>3, <2>4
<1>6. CASE n = 0
  <2>1. Occurs(queue, o)
    BY <1>6 DEF At
  <2>2. CASE h.type = "ENQUEUE"
    <3>1. h.op \in Op
      BY <1>2, <2>2, MessageKinds
    <3>2. Occurs(queue', o)
      <4>1. queue' = Append(queue, h.op) /\ queue \in Seq(Op)
        BY <2>2, TakesEffect DEF TypeOK
      <4>. QED
        BY <2>1, <3>1, <4>1, OccursAppend
    <3>3. At(queue', toWorker', o, 0)
      BY <3>2 DEF At
    <3>4. /\ NoneAfter(toWorker, 0, "CLEAR") => NoneAfter(toWorker', 0, "CLEAR")
          /\ FirstOf(toWorker, 0, "EXECUTE", "CLEAR") => FirstOf(toWorker', 0, "EXECUTE", "CLEAR")
      <4>1. h.type # "EXECUTE"
        BY <2>2
      <4>. QED
        BY <1>1, <4>1, Taken
    <3>. QED
      BY <1>6, <3>3, <3>4
  <2>3. CASE h.type = "EXECUTE"
    <3>1. Occurs(running', o)
      <4>1. running' = running \o queue /\ queue \in Seq(Op) /\ running \in Seq(Op)
        BY <2>3, TakesEffect DEF TypeOK
      <4>. QED
        BY <2>1, <4>1, OccursConcat
    <3>. QED
      BY <1>6, <2>3, <3>1
  <2>. QED
    BY <1>3, <1>6, <2>2, <2>3
<1>. QED
  BY <1>4, <1>5, <1>6

\* What it has drained.
LEMMA TakenRunning ==
  ASSUME TypeOK, WorkerTakes, NEW o \in Op
  PROVE  /\ Occurs(running, o) => Occurs(running', o)
         /\ Occurs(running', o) =>
              Occurs(running, o) \/ (At(queue, toWorker, o, 0) /\ Head(toWorker).type = "EXECUTE")
<1>1. Head(toWorker).type \in {"ENQUEUE", "EXECUTE", "CLEAR"}
  BY HeadTailProperties, MessageKinds DEF TypeOK, WorkerTakes
<1>2. CASE Head(toWorker).type = "EXECUTE"
  <2>1. Occurs(running', o) <=> Occurs(running, o) \/ Occurs(queue, o)
    <3>1. running' = running \o queue /\ queue \in Seq(Op) /\ running \in Seq(Op)
      BY <1>2, TakesEffect DEF TypeOK
    <3>. QED
      BY <3>1, OccursConcat
  <2>. QED
    BY <1>2, <2>1 DEF At
<1>3. CASE Head(toWorker).type # "EXECUTE"
  BY <1>1, <1>3, TakesEffect
<1>. QED
  BY <1>2, <1>3

-----------------------------------------------------------------------------
(* The worker's places. *)

LEMMA PostedStep ==
  ASSUME TypeOK, TypeOK', WorkerHasPosted, Next
  PROVE  WorkerHasPosted'
<1>. DEFINE Sources == /\ \A o \in Op : \A i \in Nat :
                            At(queue', toWorker', o, i) => o \in enqueued' \ unposted'
                       /\ \A o \in Op : Occurs(running', o) => o \in enqueued' \ unposted'
            Empty == controller' # "active" => toWorker' = <<>> /\ queue' = <<>> /\ running' = <<>>
            Sets == /\ unposted' \cup early' \cup swept' \cup lost' \subseteq enqueued'
                    /\ drained' \subseteq enqueued' \ unposted'
<1>. SUFFICES Sources /\ Empty /\ Sets
  BY DEF WorkerHasPosted
<1>1. ASSUME UNCHANGED <<worker, enqueued, early, unposted, drained, swept, lost>>,
             controller' # "active" => controller # "active"
      PROVE  Sources /\ Empty /\ Sets
  BY <1>1 DEF WorkerHasPosted, worker
<1>2. CASE RegisterFails \/ Register \/ Claim \/ Ready
  BY <1>1, <1>2 DEF RegisterFails, Register, Claim, Ready, worker, history
<1>3. ASSUME NEW x \in Op, Enqueue(x) PROVE Sources /\ Empty /\ Sets
  <2>1. /\ enqueued' = IF controller = "unsupported" THEN enqueued ELSE enqueued \cup {x}
        /\ early' = IF controller = "active" /\ ~ready THEN early \cup {x} ELSE early
        /\ unposted' = IF controller = "none" THEN unposted \cup {x} ELSE unposted
        /\ x \notin enqueued
        /\ UNCHANGED <<controller, queue, running, drained, swept, lost>>
    BY <1>3 DEF Enqueue
  <2>2. Sets
    BY <2>1 DEF WorkerHasPosted, TypeOK
  <2>3. \A o \in Op : o \in enqueued \ unposted => o \in enqueued' \ unposted'
    BY <2>1
  <2>4. Empty
    BY <1>3, <2>1 DEF WorkerHasPosted, Enqueue, PostMessage
  <2>5. Sources
    BY <1>3, <2>1, <2>3, EnqueueMoves DEF WorkerHasPosted
  <2>. QED
    BY <2>2, <2>4, <2>5
<1>4. ASSUME NEW S \in SUBSET Op, Execute(S) PROVE Sources /\ Empty /\ Sets
  <2>1. UNCHANGED <<controller, queue, running, enqueued, early, unposted, swept, lost>>
        /\ drained' = IF Available THEN enqueued \ unposted ELSE drained
    BY <1>4 DEF Execute
  <2>2. \A o \in Op : \A i \in Nat :
          At(queue', toWorker', o, i) <=> At(queue, toWorker, o, i)
    BY <1>4, <2>1, PostMoves, MessageType DEF Execute
  <2>3. Empty
    BY <1>4, <2>1 DEF WorkerHasPosted, Execute, PostMessage
  <2>. QED
    BY <2>1, <2>2, <2>3 DEF WorkerHasPosted
<1>5. ASSUME NEW o \in Op, Timeout(o) \/ Fetch(o) \/ Fetched(o) PROVE Sources /\ Empty /\ Sets
  BY <1>1, <1>5 DEF Timeout, Fetch, Fetched, worker, history
<1>6. CASE Clear
  <2>1. UNCHANGED <<controller, queue, running, enqueued, early, unposted, drained>>
        /\ swept' \subseteq swept \cup enqueued /\ lost' \subseteq lost \cup enqueued
        /\ PostMessage([type |-> "CLEAR"])
    BY <1>6 DEF Clear
  <2>2. \A o \in Op : \A i \in Nat :
          At(queue', toWorker', o, i) <=> At(queue, toWorker, o, i)
    BY <2>1, PostMoves, MessageType
  <2>3. Empty
    BY <2>1 DEF WorkerHasPosted, PostMessage
  <2>. QED
    BY <2>1, <2>2, <2>3 DEF WorkerHasPosted
<1>7. CASE OnMessage
  <2>1. UNCHANGED <<toWorker, queue, running, enqueued, controller, history>>
    BY <1>7 DEF OnMessage
  <2>. QED
    BY <2>1 DEF WorkerHasPosted, history
<1>8. CASE WorkerTakes
  <2>1. UNCHANGED <<controller, enqueued, early, unposted, drained, swept, lost>>
    BY <1>8 DEF WorkerTakes, page, history
  <2>2. controller = "active"
    BY <1>8 DEF WorkerHasPosted, WorkerTakes
  <2>3. Sources
    BY <1>8, <2>1, TakenFrom, TakenRunning DEF WorkerHasPosted
  <2>. QED
    BY <2>1, <2>2, <2>3 DEF WorkerHasPosted
<1>9. CASE WorkerRuns
  <2>1. UNCHANGED <<controller, enqueued, early, unposted, drained, swept, lost, queue, toWorker>>
        /\ running # <<>> /\ running' = Tail(running)
    BY <1>9 DEF WorkerRuns, page
  <2>2. \A o \in Op : Occurs(running', o) => Occurs(running, o)
    BY <2>1, OccursTail DEF TypeOK
  <2>. QED
    BY <2>1, <2>2 DEF WorkerHasPosted
<1>10. CASE WorkerStops
  <2>1. /\ UNCHANGED <<controller, enqueued, early, unposted, drained, swept, toWorker>>
        /\ queue' = <<>> /\ running' = <<>> /\ lost' = lost \cup ToSet(queue) \cup ToSet(running)
    BY <1>10 DEF WorkerStops, page
  <2>2. \A o : ~Occurs(<<>>, o)
    BY DEF Occurs
  <2>3. \A o \in Op : \A i \in Nat :
          At(queue', toWorker', o, i) => At(queue, toWorker, o, i)
    BY <2>1, <2>2 DEF At
  <2>4. ToSet(queue) \cup ToSet(running) \subseteq enqueued
    <3>1. \A o \in ToSet(queue) : o \in Op /\ At(queue, toWorker, o, 0)
      BY DEF ToSet, At, Occurs, TypeOK
    <3>2. \A o \in ToSet(running) : o \in Op /\ Occurs(running, o)
      BY DEF ToSet, Occurs, TypeOK
    <3>. QED
      BY <3>1, <3>2 DEF WorkerHasPosted
  <2>. QED
    BY <2>1, <2>2, <2>3, <2>4 DEF WorkerHasPosted
<1>. QED
  BY <1>2, <1>3, <1>4, <1>5, <1>6, <1>7, <1>8, <1>9, <1>10 DEF Next

LEMMA OnePlaceStep ==
  ASSUME TypeOK, WorkerHasPosted, OnePlace, Next
  PROVE  OnePlace'
<1>. DEFINE Lines == NoRepeat(running') /\ NoRepeat(queue')
            Apart == /\ \A o \in Op : \A i \in Nat : Occurs(running', o) => ~At(queue', toWorker', o, i)
                     /\ \A o \in Op : \A i, j \in Nat :
                          At(queue', toWorker', o, i) /\ At(queue', toWorker', o, j) => i = j
<1>. SUFFICES Lines /\ Apart
  BY DEF OnePlace
<1>1. CASE UNCHANGED worker
  BY <1>1 DEF OnePlace, worker
<1>2. CASE RegisterFails \/ Register \/ Claim \/ Ready
  BY <1>1, <1>2 DEF RegisterFails, Register, Claim, Ready, worker
<1>3. ASSUME NEW x \in Op, Enqueue(x) PROVE Lines /\ Apart
  <2>1. UNCHANGED <<queue, running>> /\ x \notin enqueued
    BY <1>3 DEF Enqueue
  <2>2. ~Occurs(running, x) /\ \A i \in Nat : ~At(queue, toWorker, x, i)
    BY <2>1 DEF WorkerHasPosted
  <2>3. Lines
    BY <2>1 DEF OnePlace
  <2>4. Apart
    BY <1>3, <2>1, <2>2, EnqueueMoves DEF OnePlace
  <2>. QED
    BY <2>3, <2>4
<1>4. ASSUME NEW S \in SUBSET Op, Execute(S) PROVE Lines /\ Apart
  <2>1. UNCHANGED <<queue, running>>
    BY <1>4 DEF Execute
  <2>2. \A o \in Op : \A i \in Nat :
          At(queue', toWorker', o, i) <=> At(queue, toWorker, o, i)
    BY <1>4, <2>1, PostMoves, MessageType DEF Execute
  <2>. QED
    BY <2>1, <2>2 DEF OnePlace
<1>5. ASSUME NEW o \in Op, Timeout(o) \/ Fetch(o) \/ Fetched(o) PROVE Lines /\ Apart
  BY <1>1, <1>5 DEF Timeout, Fetch, Fetched, worker
<1>6. CASE Clear
  <2>1. UNCHANGED <<queue, running>> /\ PostMessage([type |-> "CLEAR"])
    BY <1>6 DEF Clear
  <2>2. \A o \in Op : \A i \in Nat :
          At(queue', toWorker', o, i) <=> At(queue, toWorker, o, i)
    BY <2>1, PostMoves, MessageType
  <2>. QED
    BY <2>1, <2>2 DEF OnePlace
<1>7. CASE OnMessage
  <2>1. UNCHANGED <<toWorker, queue, running>>
    BY <1>7 DEF OnMessage
  <2>. QED
    BY <2>1 DEF OnePlace
<1>8. CASE WorkerTakes
  <2>1. Lines
    <3>0. toWorker \in Seq(Message) /\ toWorker # <<>> /\ queue \in Seq(Op) /\ running \in Seq(Op)
      BY <1>8 DEF WorkerTakes, TypeOK
    <3>1. Head(toWorker) \in Message /\ Head(toWorker) = toWorker[1] /\ 1 \in 1 .. Len(toWorker)
      BY <3>0, HeadTailProperties, EmptySeq
    <3>2. CASE Head(toWorker).type = "ENQUEUE"
      <4>1. Head(toWorker).op \in Op /\ toWorker[1] = Enq(Head(toWorker).op)
        BY <3>1, <3>2, MessageKinds
      <4>2. At(queue, toWorker, Head(toWorker).op, 1)
        BY <3>1, <4>1 DEF At
      <4>3. ~At(queue, toWorker, Head(toWorker).op, 0)
        BY <4>1, <4>2 DEF OnePlace
      <4>4. queue' = Append(queue, Head(toWorker).op) /\ running' = running
        BY <1>8, <3>2, TakesEffect
      <4>. QED
        BY <3>0, <4>1, <4>3, <4>4, NoRepeatAppend DEF OnePlace, At
    <3>3. CASE Head(toWorker).type = "EXECUTE"
      <4>1. queue' = <<>> /\ running' = running \o queue
        BY <1>8, <3>3, TakesEffect
      <4>2. \A o \in Op : Occurs(running, o) => ~Occurs(queue, o)
        BY DEF OnePlace, At
      <4>3. NoRepeat(running')
        BY <3>0, <4>1, <4>2, NoRepeatConcat DEF OnePlace
      <4>4. NoRepeat(<<>>)
        BY DEF NoRepeat
      <4>. QED
        BY <4>1, <4>3, <4>4
    <3>4. CASE Head(toWorker).type = "CLEAR"
      <4>1. queue' = <<>> /\ running' = running
        BY <1>8, <3>4, TakesEffect
      <4>2. NoRepeat(<<>>)
        BY DEF NoRepeat
      <4>. QED
        BY <4>1, <4>2 DEF OnePlace
    <3>5. Head(toWorker).type \in {"ENQUEUE", "EXECUTE", "CLEAR"}
      BY <3>1, MessageKinds
    <3>. QED
      BY <3>2, <3>3, <3>4, <3>5
  <2>2. ASSUME NEW o \in Op, NEW i \in Nat, Occurs(running', o), At(queue', toWorker', o, i) PROVE FALSE
    <3>1. PICK n \in Nat :
            /\ At(queue, toWorker, o, n)
            /\ IF i > 0 THEN n = i + 1 ELSE n \in {0, 1} /\ Head(toWorker).type = "ENQUEUE"
      BY <1>8, <2>2, TakenFrom
    <3>2. ~Occurs(running, o)
      BY <3>1 DEF OnePlace
    <3>3. At(queue, toWorker, o, 0) /\ Head(toWorker).type = "EXECUTE"
      BY <1>8, <2>2, <3>2, TakenRunning
    <3>4. n = 0
      BY <3>1, <3>3 DEF OnePlace
    <3>. QED
      BY <3>1, <3>3, <3>4
  <2>3. ASSUME NEW o \in Op, NEW i \in Nat, NEW j \in Nat,
               At(queue', toWorker', o, i), At(queue', toWorker', o, j) PROVE i = j
    <3>1. PICK n \in Nat :
            /\ At(queue, toWorker, o, n)
            /\ IF i > 0 THEN n = i + 1 ELSE n \in {0, 1} /\ Head(toWorker).type = "ENQUEUE"
      BY <1>8, <2>3, TakenFrom
    <3>2. PICK m \in Nat :
            /\ At(queue, toWorker, o, m)
            /\ IF j > 0 THEN m = j + 1 ELSE m \in {0, 1} /\ Head(toWorker).type = "ENQUEUE"
      BY <1>8, <2>3, TakenFrom
    <3>3. n = m
      BY <3>1, <3>2 DEF OnePlace
    <3>. QED
      BY <3>1, <3>2, <3>3
  <2>. QED
    BY <2>1, <2>2, <2>3
<1>9. CASE WorkerRuns
  <2>1. UNCHANGED <<queue, toWorker>> /\ running # <<>> /\ running' = Tail(running)
    BY <1>9 DEF WorkerRuns
  <2>2. (\A o \in Op : Occurs(running', o) => Occurs(running, o)) /\ NoRepeat(running')
    BY <2>1, OccursTail, NoRepeatTail DEF TypeOK, OnePlace
  <2>. QED
    BY <2>1, <2>2 DEF OnePlace
<1>10. CASE WorkerStops
  <2>1. UNCHANGED toWorker /\ queue' = <<>> /\ running' = <<>>
    BY <1>10 DEF WorkerStops
  <2>2. NoRepeat(<<>>) /\ \A o : ~Occurs(<<>>, o)
    BY DEF Occurs, NoRepeat
  <2>3. \A o \in Op : \A i \in Nat :
          At(queue', toWorker', o, i) => At(queue, toWorker, o, i)
    BY <2>1, <2>2 DEF At
  <2>. QED
    BY <2>1, <2>2, <2>3 DEF OnePlace
<1>. QED
  BY <1>2, <1>3, <1>4, <1>5, <1>6, <1>7, <1>8, <1>9, <1>10 DEF Next

-----------------------------------------------------------------------------
(* How often an operation is run. *)

LEMMA RunsOnceStep ==
  ASSUME TypeOK, WorkerHasPosted, OnePlace, NotDrained, RunsOnce, Next
  PROVE  RunsOnce'
<1>. SUFFICES ASSUME NEW o \in Op, o \notin early'
     PROVE  /\ Occurs(running', o) \/ (\E i \in Nat : At(queue', toWorker', o, i)) =>
                 Available' /\ calls'[o] = 0 /\ fetching'[o] = "no"
            /\ fetching'[o] = "sent" => calls'[o] = 0
            /\ calls'[o] <= 1
            /\ promise'[o] = "none" /\ ~Available' => calls'[o] = 0
  BY DEF RunsOnce
<1>. DEFINE P == /\ Occurs(running', o) \/ (\E i \in Nat : At(queue', toWorker', o, i)) =>
                      Available' /\ calls'[o] = 0 /\ fetching'[o] = "no"
                 /\ fetching'[o] = "sent" => calls'[o] = 0
                 /\ calls'[o] <= 1
                 /\ promise'[o] = "none" /\ ~Available' => calls'[o] = 0
<1>0. /\ o \notin early
      /\ Available => Available'
      /\ calls[o] \in Nat /\ fetching[o] \in {"no", "sent", "answered"}
  <2>1. o \notin early
    BY DEF Next, RegisterFails, Register, Claim, Ready, Enqueue, Execute, Timeout, Clear, OnMessage,
           Fetch, Fetched, WorkerTakes, WorkerRuns, WorkerStops, history
  <2>2. ready => ready'
    BY DEF Next, RegisterFails, Register, Claim, Ready, Enqueue, Execute, Timeout, Clear, OnMessage,
           Fetch, Fetched, WorkerTakes, WorkerRuns, WorkerStops, page
  <2>3. controller = "active" => controller' = "active"
    BY DEF Next, RegisterFails, Register, Claim, Ready, Enqueue, Execute, Timeout, Clear, OnMessage,
           Fetch, Fetched, WorkerTakes, WorkerRuns, WorkerStops, page
  <2>. QED
    BY <2>1, <2>2, <2>3 DEF Available, TypeOK
<1>1. /\ Occurs(running, o) \/ (\E i \in Nat : At(queue, toWorker, o, i)) =>
           Available /\ calls[o] = 0 /\ fetching[o] = "no"
      /\ fetching[o] = "sent" => calls[o] = 0
      /\ calls[o] <= 1
      /\ promise[o] = "none" /\ ~Available => calls[o] = 0
      /\ promise[o] = "none" => fetching[o] = "no"
      /\ fetching[o] = "answered" => calls[o] > 0
  BY <1>0 DEF RunsOnce, NotDrained
<1>2. ASSUME UNCHANGED <<toWorker, queue, running, calls, fetching>>,
             promise'[o] = "none" => promise[o] = "none"
      PROVE  P
  BY <1>0, <1>1, <1>2
<1>3. CASE RegisterFails \/ Register \/ Claim \/ Ready
  BY <1>2, <1>3 DEF RegisterFails, Register, Claim, Ready, worker, history
<1>4. ASSUME NEW x \in Op, Enqueue(x) PROVE P
  <2>1. UNCHANGED <<queue, running, calls, fetching, promise, ready, controller>> /\ x \notin enqueued
    BY <1>4 DEF Enqueue
  <2>2. CASE o = x /\ controller = "active"
    <3>1. Available'
      BY <1>4, <2>1, <2>2 DEF Enqueue, Available
    <3>2. calls[o] = 0 /\ fetching[o] = "no"
      BY <1>0, <2>1, <2>2 DEF NotDrained
    <3>. QED
      BY <2>1, <3>1, <3>2
  <2>3. CASE ~(o = x /\ controller = "active")
    <3>1. \A i \in Nat : At(queue', toWorker', o, i) => At(queue, toWorker, o, i)
      BY <1>4, <2>3, EnqueueMoves
    <3>. QED
      BY <1>0, <1>1, <2>1, <3>1
  <2>. QED
    BY <2>2, <2>3
<1>5. ASSUME NEW S \in SUBSET Op, Execute(S) PROVE P
  <2>1. UNCHANGED <<queue, running, calls, ready, controller>>
    BY <1>5 DEF Execute
  <2>2. \A i \in Nat : At(queue', toWorker', o, i) <=> At(queue, toWorker, o, i)
    BY <1>5, <2>1, PostMoves, MessageType DEF Execute
  <2>3. CASE Available \/ o \notin S
    <3>1. fetching'[o] = fetching[o] /\ (promise'[o] = "none" => promise[o] = "none")
      BY <1>5, <2>3 DEF Execute, TypeOK
    <3>. QED
      BY <1>0, <1>1, <2>1, <2>2, <3>1
  <2>4. CASE ~Available /\ o \in S
    <3>1. promise[o] = "none" /\ promise'[o] \in {"rejected", "waiting"}
      BY <1>5, <2>4 DEF Execute, TypeOK
    <3>2. calls[o] = 0
      BY <1>1, <2>4, <3>1
    <3>. QED
      BY <1>1, <2>1, <2>2, <2>4, <3>1, <3>2
  <2>. QED
    BY <2>3, <2>4
<1>6. ASSUME NEW x \in Op, Timeout(x) PROVE P
  <2>1. promise'[o] = "none" => promise[o] = "none"
    BY <1>6 DEF Timeout, Settle, TypeOK
  <2>. QED
    BY <1>2, <1>6, <2>1 DEF Timeout, worker, history
<1>7. ASSUME NEW x \in Op, Fetch(x) PROVE P
  <2>1. UNCHANGED <<toWorker, queue, running, promise, ready, controller>> /\ fetching[x] = "sent"
        /\ fetching' = [fetching EXCEPT ![x] = "answered"] /\ calls' = [calls EXCEPT ![x] = @ + 1]
    BY <1>7 DEF Fetch, worker
  <2>2. CASE o = x
    <3>1. calls'[o] = 1 /\ fetching'[o] = "answered"
      BY <1>1, <2>1, <2>2 DEF TypeOK
    <3>. QED
      BY <1>1, <2>1, <2>2, <3>1
  <2>3. CASE o # x
    <3>1. calls'[o] = calls[o] /\ fetching'[o] = fetching[o]
      BY <2>1, <2>3 DEF TypeOK
    <3>. QED
      BY <1>0, <1>1, <2>1, <3>1
  <2>. QED
    BY <2>2, <2>3
<1>8. ASSUME NEW x \in Op, Fetched(x) PROVE P
  <2>1. UNCHANGED <<toWorker, queue, running, calls, ready, controller>> /\ fetching[x] = "answered"
        /\ fetching' = [fetching EXCEPT ![x] = "no"]
    BY <1>8 DEF Fetched, worker, history
  <2>2. promise'[o] = "none" => promise[o] = "none"
    BY <1>8 DEF Fetched, Settle, TypeOK
  <2>3. fetching'[o] = IF o = x THEN "no" ELSE fetching[o]
    BY <2>1 DEF TypeOK
  <2>. QED
    BY <1>0, <1>1, <2>1, <2>2, <2>3
<1>9. CASE Clear
  <2>1. UNCHANGED <<queue, running, calls, fetching, ready, controller>> /\ PostMessage([type |-> "CLEAR"])
    BY <1>9 DEF Clear
  <2>2. \A i \in Nat : At(queue', toWorker', o, i) <=> At(queue, toWorker, o, i)
    BY <2>1, PostMoves, MessageType
  <2>3. promise'[o] = "none" => promise[o] = "none"
    BY <1>9 DEF Clear, TypeOK
  <2>. QED
    BY <1>0, <1>1, <2>1, <2>2, <2>3
<1>10. CASE OnMessage
  <2>1. UNCHANGED <<toWorker, queue, running, calls, fetching>>
    BY <1>10 DEF OnMessage, history
  <2>2. promise'[o] = "none" => promise[o] = "none"
    BY <1>10 DEF OnMessage, Settle, TypeOK
  <2>. QED
    BY <1>2, <2>1, <2>2
<1>11. CASE WorkerTakes
  <2>1. UNCHANGED <<calls, fetching, promise>>
    BY <1>11 DEF WorkerTakes, page, history
  <2>2. Occurs(running', o) \/ (\E i \in Nat : At(queue', toWorker', o, i)) =>
          Occurs(running, o) \/ (\E i \in Nat : At(queue, toWorker, o, i))
    BY <1>11, TakenFrom, TakenRunning
  <2>. QED
    BY <1>0, <1>1, <2>1, <2>2
<1>12. CASE WorkerRuns
  <2>1. UNCHANGED <<toWorker, queue, fetching, promise>> /\ running # <<>> /\ running' = Tail(running)
        /\ Head(running) \in Op
        /\ calls' = IF Head(running) \in NoEndpoint THEN calls
                    ELSE [calls EXCEPT ![Head(running)] = @ + 1]
    BY <1>12, HeadTailProperties DEF WorkerRuns, page, TypeOK
  <2>2. Occurs(running', o) => Occurs(running, o)
    BY <2>1, OccursTail DEF TypeOK
  <2>3. CASE o = Head(running)
    <3>1. Occurs(running, o) /\ ~Occurs(running', o)
      BY <2>1, <2>3, OccursTail, NoRepeatTail DEF TypeOK, OnePlace
    <3>2. \A i \in Nat : ~At(queue', toWorker', o, i)
      BY <2>1, <3>1 DEF OnePlace
    <3>3. Available /\ calls[o] = 0 /\ fetching[o] = "no"
      BY <1>1, <3>1
    <3>4. calls'[o] \in {0, 1}
      BY <2>1, <2>3, <3>3 DEF TypeOK
    <3>. QED
      BY <1>0, <2>1, <3>1, <3>2, <3>3, <3>4
  <2>4. CASE o # Head(running)
    <3>1. calls'[o] = calls[o]
      BY <2>1, <2>4 DEF TypeOK
    <3>. QED
      BY <1>0, <1>1, <2>1, <2>2, <3>1
  <2>. QED
    BY <2>3, <2>4
<1>13. CASE WorkerStops
  <2>1. UNCHANGED <<toWorker, calls, fetching, promise>> /\ queue' = <<>> /\ running' = <<>>
    BY <1>13 DEF WorkerStops, page
  <2>2. \A x : ~Occurs(<<>>, x)
    BY DEF Occurs
  <2>3. \A i \in Nat : At(queue', toWorker', o, i) => At(queue, toWorker, o, i)
    BY <2>1, <2>2 DEF At
  <2>. QED
    BY <1>0, <1>1, <2>1, <2>2, <2>3
<1>. QED
  BY <1>3, <1>4, <1>5, <1>6, <1>7, <1>8, <1>9, <1>10, <1>11, <1>12, <1>13 DEF Next

-----------------------------------------------------------------------------
(* What was cleared, and what was lost. *)

LEMMA NotDrainedStep ==
  ASSUME TypeOK, WorkerHasPosted, OnePlace, NotDrained, Next
  PROVE  NotDrained'
<1>. SUFFICES ASSUME NEW o \in Op
     PROVE  /\ promise'[o] = "none" => fetching'[o] = "no"
            /\ fetching'[o] = "answered" => calls'[o] > 0
            /\ calls'[o] > 0 \/ promise'[o] # "none" \/ fetching'[o] # "no" => o \in enqueued'
            /\ o \notin drained' =>
                 /\ ~Occurs(running', o)
                 /\ promise'[o] = "none" => calls'[o] = 0
                 /\ \A i \in Nat : At(queue', toWorker', o, i) => NoneAfter(toWorker', i, "EXECUTE")
  BY DEF NotDrained
<1>. DEFINE P == /\ promise'[o] = "none" => fetching'[o] = "no"
                 /\ fetching'[o] = "answered" => calls'[o] > 0
                 /\ calls'[o] > 0 \/ promise'[o] # "none" \/ fetching'[o] # "no" => o \in enqueued'
            Q == o \notin drained' =>
                 /\ ~Occurs(running', o)
                 /\ promise'[o] = "none" => calls'[o] = 0
                 /\ \A i \in Nat : At(queue', toWorker', o, i) => NoneAfter(toWorker', i, "EXECUTE")
<1>. SUFFICES P /\ Q
  OBVIOUS
<1>1. /\ promise[o] = "none" => fetching[o] = "no"
      /\ fetching[o] = "answered" => calls[o] > 0
      /\ calls[o] > 0 \/ promise[o] # "none" \/ fetching[o] # "no" => o \in enqueued
      /\ o \notin drained =>
           /\ ~Occurs(running, o)
           /\ promise[o] = "none" => calls[o] = 0
           /\ \A i \in Nat : At(queue, toWorker, o, i) => NoneAfter(toWorker, i, "EXECUTE")
      /\ calls[o] \in Nat
  BY DEF NotDrained, TypeOK
<1>2. ASSUME UNCHANGED <<toWorker, queue, running, calls, fetching, enqueued, drained>>,
             promise'[o] = "none" <=> promise[o] = "none"
      PROVE  P /\ Q
  BY <1>1, <1>2
<1>3. CASE RegisterFails \/ Register \/ Claim \/ Ready
  BY <1>2, <1>3 DEF RegisterFails, Register, Claim, Ready, worker, history
<1>4. ASSUME NEW x \in Op, Enqueue(x) PROVE P /\ Q
  <2>1. UNCHANGED <<queue, running, calls, fetching, promise, drained>> /\ x \notin enqueued
        /\ enqueued \subseteq enqueued'
    BY <1>4 DEF Enqueue
  <2>2. ASSUME NEW i \in Nat, o \notin drained, At(queue', toWorker', o, i)
        PROVE  NoneAfter(toWorker', i, "EXECUTE")
    <3>1. /\ toWorker' = IF controller = "active" THEN Append(toWorker, Enq(x)) ELSE toWorker
          /\ Enq(x) \in Message /\ Enq(x).type # "EXECUTE" /\ toWorker \in Seq(Message)
      BY <1>4, MessageType DEF Enqueue, PostMessage, Enq, TypeOK
    <3>2. CASE At(queue, toWorker, o, i)
      BY <1>1, <2>2, <3>1, <3>2, Posted
    <3>3. CASE controller = "active" /\ i = Len(toWorker) + 1
      <4>1. Len(toWorker) \in Nat /\ i > Len(toWorker)
        BY <3>1, <3>3
      <4>. QED
        BY <3>1, <3>3, <4>1, Posted
    <3>. QED
      BY <1>4, <2>2, <3>2, <3>3, EnqueueMoves
  <2>. QED
    BY <1>1, <2>1, <2>2
<1>5. ASSUME NEW S \in SUBSET Op, Execute(S) PROVE P /\ Q
  <2>1. UNCHANGED <<queue, running, calls, enqueued>> /\ S \subseteq enqueued
        /\ drained' = IF Available THEN enqueued \ unposted ELSE drained
    BY <1>5 DEF Execute
  <2>2. P
    <3>1. o \notin S => promise'[o] = promise[o] /\ fetching'[o] = fetching[o]
      BY <1>5 DEF Execute, TypeOK
    <3>2. o \in S => promise'[o] # "none" /\ fetching'[o] \in {fetching[o], "sent"}
      BY <1>5 DEF Execute, TypeOK
    <3>. QED
      BY <1>1, <2>1, <3>1, <3>2
  <2>3. promise'[o] = "none" => promise[o] = "none"
    BY <1>5 DEF Execute, TypeOK
  <2>4. CASE Available
    <3>1. \A i \in Nat : At(queue', toWorker', o, i) <=> At(queue, toWorker, o, i)
      BY <1>5, <2>1, <2>4, PostMoves, MessageType DEF Execute
    <3>2. o \notin drained' => ~Occurs(running', o) /\ \A i \in Nat : ~At(queue', toWorker', o, i)
      BY <2>1, <2>4, <3>1 DEF WorkerHasPosted
    <3>3. o \notin drained' => o \notin drained
      BY <2>1, <2>4 DEF WorkerHasPosted
    <3>. QED
      BY <1>1, <2>1, <2>2, <2>3, <3>2, <3>3
  <2>5. CASE ~Available
    <3>1. UNCHANGED toWorker
      BY <1>5, <2>5 DEF Execute
    <3>. QED
      BY <1>1, <2>1, <2>2, <2>3, <2>5, <3>1
  <2>. QED
    BY <2>4, <2>5
<1>6. ASSUME NEW x \in Op, Timeout(x) PROVE P /\ Q
  <2>1. promise'[o] = "none" <=> promise[o] = "none"
    BY <1>6 DEF Timeout, Settle, TypeOK
  <2>. QED
    BY <1>2, <1>6, <2>1 DEF Timeout, worker, history
<1>7. ASSUME NEW x \in Op, Fetch(x) PROVE P /\ Q
  <2>1. UNCHANGED <<toWorker, queue, running, promise, enqueued, drained>> /\ fetching[x] = "sent"
        /\ fetching' = [fetching EXCEPT ![x] = "answered"] /\ calls' = [calls EXCEPT ![x] = @ + 1]
    BY <1>7 DEF Fetch, worker
  <2>2. CASE o = x
    <3>1. calls'[o] = calls[o] + 1 /\ fetching'[o] = "answered" /\ promise[o] # "none"
      BY <1>1, <2>1, <2>2 DEF TypeOK
    <3>. QED
      BY <1>1, <2>1, <2>2, <3>1
  <2>3. CASE o # x
    <3>1. calls'[o] = calls[o] /\ fetching'[o] = fetching[o]
      BY <2>1, <2>3 DEF TypeOK
    <3>. QED
      BY <1>1, <2>1, <3>1
  <2>. QED
    BY <2>2, <2>3
<1>8. ASSUME NEW x \in Op, Fetched(x) PROVE P /\ Q
  <2>1. UNCHANGED <<toWorker, queue, running, calls, enqueued, drained>> /\ fetching[x] = "answered"
        /\ fetching' = [fetching EXCEPT ![x] = "no"]
    BY <1>8 DEF Fetched, worker, history
  <2>2. promise'[o] = "none" <=> promise[o] = "none"
    BY <1>8 DEF Fetched, Settle, TypeOK
  <2>3. fetching'[o] = IF o = x THEN "no" ELSE fetching[o]
    BY <2>1 DEF TypeOK
  <2>. QED
    BY <1>1, <2>1, <2>2, <2>3
<1>9. CASE Clear
  <2>1. UNCHANGED <<queue, running, calls, fetching, enqueued, drained>> /\ PostMessage([type |-> "CLEAR"])
    BY <1>9 DEF Clear
  <2>2. \A i \in Nat : At(queue', toWorker', o, i) <=> At(queue, toWorker, o, i)
    BY <2>1, PostMoves, MessageType
  <2>3. promise'[o] = "none" <=> promise[o] = "none"
    BY <1>9 DEF Clear, TypeOK
  <2>4. \A i \in Nat : NoneAfter(toWorker, i, "EXECUTE") => NoneAfter(toWorker', i, "EXECUTE")
    BY <2>1, Posted, MessageType DEF PostMessage, TypeOK
  <2>. QED
    BY <1>1, <2>1, <2>2, <2>3, <2>4
<1>10. CASE OnMessage
  <2>1. UNCHANGED <<toWorker, queue, running, calls, fetching, enqueued, drained>>
    BY <1>10 DEF OnMessage, history
  <2>2. promise'[o] = "none" <=> promise[o] = "none"
    BY <1>10 DEF OnMessage, Settle, TypeOK
  <2>. QED
    BY <1>2, <2>1, <2>2
<1>11. CASE WorkerTakes
  <2>1. UNCHANGED <<calls, fetching, promise, enqueued, drained>>
    BY <1>11 DEF WorkerTakes, page, history
  <2>2. ASSUME NEW i \in Nat, o \notin drained, At(queue', toWorker', o, i)
        PROVE  NoneAfter(toWorker', i, "EXECUTE")
    BY <1>1, <1>11, <2>2, TakenFrom
  <2>3. ASSUME o \notin drained, Occurs(running', o) PROVE FALSE
    <3>1. At(queue, toWorker, o, 0) /\ Head(toWorker).type = "EXECUTE"
      BY <1>1, <1>11, <2>3, TakenRunning
    <3>2. NoneAfter(toWorker, 0, "EXECUTE")
      BY <1>1, <2>3, <3>1
    <3>3. Head(toWorker).type # "EXECUTE"
      BY <1>11, <3>2, Taken DEF WorkerTakes, TypeOK
    <3>. QED
      BY <3>1, <3>3
  <2>. QED
    BY <1>1, <2>1, <2>2, <2>3
<1>12. CASE WorkerRuns
  <2>1. UNCHANGED <<toWorker, queue, fetching, promise, enqueued, drained>> /\ running # <<>>
        /\ running' = Tail(running) /\ Head(running) \in Op
        /\ calls' = IF Head(running) \in NoEndpoint THEN calls
                    ELSE [calls EXCEPT ![Head(running)] = @ + 1]
    BY <1>12, HeadTailProperties DEF WorkerRuns, page, TypeOK
  <2>2. Occurs(running', o) => Occurs(running, o)
    BY <2>1, OccursTail DEF TypeOK
  <2>3. CASE o = Head(running)
    <3>1. Occurs(running, o)
      BY <2>1, <2>3, OccursTail DEF TypeOK
    <3>2. o \in drained /\ o \in enqueued
      BY <1>1, <3>1 DEF WorkerHasPosted
    <3>3. calls'[o] \in {calls[o], calls[o] + 1}
      BY <2>1, <2>3 DEF TypeOK
    <3>. QED
      BY <1>1, <2>1, <3>2, <3>3
  <2>4. CASE o # Head(running)
    <3>1. calls'[o] = calls[o]
      BY <2>1, <2>4 DEF TypeOK
    <3>. QED
      BY <1>1, <2>1, <2>2, <3>1
  <2>. QED
    BY <2>3, <2>4
<1>13. CASE WorkerStops
  <2>1. UNCHANGED <<toWorker, calls, fetching, promise, enqueued, drained>>
        /\ queue' = <<>> /\ running' = <<>>
    BY <1>13 DEF WorkerStops, page
  <2>2. \A x : ~Occurs(<<>>, x)
    BY DEF Occurs
  <2>3. \A i \in Nat : At(queue', toWorker', o, i) => At(queue, toWorker, o, i)
    BY <2>1, <2>2 DEF At
  <2>. QED
    BY <1>1, <2>1, <2>2, <2>3
<1>. QED
  BY <1>3, <1>4, <1>5, <1>6, <1>7, <1>8, <1>9, <1>10, <1>11, <1>12, <1>13 DEF Next

LEMMA SweptStep ==
  ASSUME TypeOK, WorkerHasPosted, OnePlace, NotDrained, SweptIsDoomed, Next
  PROVE  SweptIsDoomed'
<1>. SUFFICES ASSUME NEW o \in swept'
     PROVE  /\ calls'[o] = 0 /\ fetching'[o] = "no" /\ o \notin localOps'
            /\ ~Occurs(running', o)
            /\ \A i \in Nat : At(queue', toWorker', o, i) => FirstOf(toWorker', i, "CLEAR", "EXECUTE")
  BY DEF SweptIsDoomed
<1>. DEFINE P == /\ calls'[o] = 0 /\ fetching'[o] = "no" /\ o \notin localOps'
                 /\ ~Occurs(running', o)
                 /\ \A i \in Nat : At(queue', toWorker', o, i) => FirstOf(toWorker', i, "CLEAR", "EXECUTE")
<1>1. ASSUME o \in swept
      PROVE  /\ calls[o] = 0 /\ fetching[o] = "no" /\ o \notin localOps
             /\ ~Occurs(running, o)
             /\ \A i \in Nat : At(queue, toWorker, o, i) => FirstOf(toWorker, i, "CLEAR", "EXECUTE")
             /\ o \in Op /\ o \in enqueued
  BY <1>1 DEF SweptIsDoomed, TypeOK, WorkerHasPosted
<1>2. ASSUME UNCHANGED <<toWorker, queue, running, calls, fetching, swept, localOps>>
      PROVE  P
  BY <1>1, <1>2
<1>3. CASE RegisterFails \/ Register \/ Claim \/ Ready
  BY <1>2, <1>3 DEF RegisterFails, Register, Claim, Ready, worker, history
<1>4. ASSUME NEW x \in Op, Enqueue(x) PROVE P
  <2>1. UNCHANGED <<queue, running, calls, fetching, swept>> /\ x \notin enqueued
        /\ localOps' = localOps \cup {x}
    BY <1>4 DEF Enqueue
  <2>2. o # x /\ o \in Op
    BY <1>1, <2>1
  <2>3. \A i \in Nat : At(queue', toWorker', o, i) => At(queue, toWorker, o, i)
    BY <1>4, <2>2, EnqueueMoves
  <2>4. /\ toWorker' = IF controller = "active" THEN Append(toWorker, Enq(x)) ELSE toWorker
        /\ Enq(x) \in Message /\ toWorker \in Seq(Message)
    BY <1>4, MessageType DEF Enqueue, PostMessage, Enq, TypeOK
  <2>5. \A i \in Nat : FirstOf(toWorker, i, "CLEAR", "EXECUTE") => FirstOf(toWorker', i, "CLEAR", "EXECUTE")
    BY <2>4, Posted
  <2>. QED
    BY <1>1, <2>1, <2>2, <2>3, <2>5
<1>5. ASSUME NEW S \in SUBSET Op, Execute(S) PROVE P
  <2>1. UNCHANGED <<queue, running, calls, swept>> /\ localOps' = localOps \ S
        /\ (toWorker' = toWorker \/ PostMessage([type |-> "EXECUTE"]))
    BY <1>5 DEF Execute
  <2>2. \A i \in Nat : At(queue', toWorker', o, i) <=> At(queue, toWorker, o, i)
    BY <1>1, <2>1, PostMoves, MessageType
  <2>3. \A i \in Nat : FirstOf(toWorker, i, "CLEAR", "EXECUTE") => FirstOf(toWorker', i, "CLEAR", "EXECUTE")
    BY <2>1, Posted, MessageType DEF PostMessage, TypeOK
  <2>4. fetching'[o] = fetching[o]
    BY <1>1, <1>5, <2>1 DEF Execute, TypeOK
  <2>. QED
    BY <1>1, <2>1, <2>2, <2>3, <2>4
<1>6. ASSUME NEW x \in Op, Timeout(x) PROVE P
  BY <1>2, <1>6 DEF Timeout, worker, history
<1>7. ASSUME NEW x \in Op, Fetch(x) PROVE P
  <2>1. UNCHANGED <<toWorker, queue, running, localOps, swept>> /\ fetching[x] = "sent"
        /\ fetching' = [fetching EXCEPT ![x] = "answered"] /\ calls' = [calls EXCEPT ![x] = @ + 1]
    BY <1>7 DEF Fetch, worker
  <2>2. o # x
    BY <1>1, <2>1
  <2>3. calls'[o] = calls[o] /\ fetching'[o] = fetching[o]
    BY <1>1, <2>1, <2>2 DEF TypeOK
  <2>. QED
    BY <1>1, <2>1, <2>3
<1>8. ASSUME NEW x \in Op, Fetched(x) PROVE P
  <2>1. UNCHANGED <<toWorker, queue, running, calls, localOps, swept>>
        /\ fetching' = [fetching EXCEPT ![x] = "no"]
    BY <1>8 DEF Fetched, worker, history
  <2>2. fetching'[o] = "no"
    BY <1>1, <2>1 DEF TypeOK
  <2>. QED
    BY <1>1, <2>1, <2>2
<1>9. CASE Clear
  <2>1. UNCHANGED <<queue, running, calls, fetching, enqueued>> /\ PostMessage([type |-> "CLEAR"])
        /\ localOps' = {}
        /\ swept' = swept \cup {x \in enqueued \ drained : promise[x] = "none"}
    BY <1>9 DEF Clear
  <2>2. o \in Op
    BY <2>1 DEF TypeOK
  <2>3. \A i \in Nat : At(queue', toWorker', o, i) <=> At(queue, toWorker, o, i)
    BY <2>1, <2>2, PostMoves, MessageType
  <2>4. CASE o \in swept
    <3>1. \A i \in Nat : FirstOf(toWorker, i, "CLEAR", "EXECUTE") => FirstOf(toWorker', i, "CLEAR", "EXECUTE")
      BY <2>1, Posted, MessageType DEF PostMessage, TypeOK
    <3>. QED
      BY <1>1, <2>1, <2>3, <2>4, <3>1
  <2>5. CASE o \in enqueued \ drained /\ promise[o] = "none"
    <3>1. /\ calls[o] = 0 /\ fetching[o] = "no" /\ ~Occurs(running, o)
          /\ \A i \in Nat : At(queue, toWorker, o, i) => NoneAfter(toWorker, i, "EXECUTE")
      BY <2>2, <2>5 DEF NotDrained
    <3>2. ASSUME NEW i \in Nat, At(queue, toWorker, o, i) PROVE FirstOf(toWorker', i, "CLEAR", "EXECUTE")
      <4>1. controller = "active"
        BY <2>2, <3>2 DEF WorkerHasPosted, At, Occurs
      <4>2. toWorker' = Append(toWorker, [type |-> "CLEAR"]) /\ toWorker \in Seq(Message)
        BY <2>1, <4>1 DEF PostMessage, TypeOK
      <4>3. i <= Len(toWorker)
        BY <3>2, <4>2, Posted, MessageType
      <4>. QED
        BY <3>1, <3>2, <4>2, <4>3, Posted, MessageType
    <3>. QED
      BY <2>1, <2>3, <3>1, <3>2
  <2>. QED
    BY <2>1, <2>4, <2>5
<1>10. CASE OnMessage
  <2>1. UNCHANGED <<toWorker, queue, running, calls, fetching, swept, localOps>>
    BY <1>10 DEF OnMessage, history
  <2>. QED
    BY <1>2, <2>1
<1>11. CASE WorkerTakes
  <2>1. UNCHANGED <<calls, fetching, localOps, swept>>
    BY <1>11 DEF WorkerTakes, page, history
  <2>2. ASSUME NEW i \in Nat, At(queue', toWorker', o, i)
        PROVE  FirstOf(toWorker', i, "CLEAR", "EXECUTE")
    BY <1>1, <1>11, <2>1, <2>2, TakenFrom
  <2>3. ASSUME Occurs(running', o) PROVE FALSE
    <3>1. At(queue, toWorker, o, 0) /\ Head(toWorker).type = "EXECUTE"
      BY <1>1, <1>11, <2>1, <2>3, TakenRunning
    <3>2. FirstOf(toWorker, 0, "CLEAR", "EXECUTE")
      BY <1>1, <2>1, <3>1
    <3>3. Head(toWorker).type # "EXECUTE"
      BY <1>11, <3>2, Taken DEF WorkerTakes, TypeOK
    <3>. QED
      BY <3>1, <3>3
  <2>. QED
    BY <1>1, <2>1, <2>2, <2>3
<1>12. CASE WorkerRuns
  <2>1. UNCHANGED <<toWorker, queue, fetching, localOps, swept>> /\ running # <<>>
        /\ running' = Tail(running) /\ Head(running) \in Op
        /\ calls' = IF Head(running) \in NoEndpoint THEN calls
                    ELSE [calls EXCEPT ![Head(running)] = @ + 1]
    BY <1>12, HeadTailProperties DEF WorkerRuns, page, TypeOK
  <2>2. Occurs(running', o) => Occurs(running, o)
    BY <2>1, OccursTail DEF TypeOK
  <2>3. o # Head(running)
    BY <1>1, <2>1, OccursTail DEF TypeOK
  <2>4. calls'[o] = calls[o]
    BY <1>1, <2>1, <2>3 DEF TypeOK
  <2>. QED
    BY <1>1, <2>1, <2>2, <2>4
<1>13. CASE WorkerStops
  <2>1. UNCHANGED <<toWorker, calls, fetching, localOps, swept>> /\ queue' = <<>> /\ running' = <<>>
    BY <1>13 DEF WorkerStops, page
  <2>2. \A x : ~Occurs(<<>>, x)
    BY DEF Occurs
  <2>3. \A i \in Nat : At(queue', toWorker', o, i) => At(queue, toWorker, o, i)
    BY <2>1, <2>2 DEF At
  <2>. QED
    BY <1>1, <2>1, <2>2, <2>3
<1>. QED
  BY <1>3, <1>4, <1>5, <1>6, <1>7, <1>8, <1>9, <1>10, <1>11, <1>12, <1>13 DEF Next

LEMMA NotLostStep ==
  ASSUME TypeOK, WorkerHasPosted, OnePlace, NotDrained, NotLost, Next
  PROVE  NotLost'
<1>. DEFINE Coming(x, n, q, w) ==
              /\ At(q, w, x, n)
              /\ IF promise[x] = "none" THEN NoneAfter(w, n, "CLEAR") ELSE FirstOf(w, n, "EXECUTE", "CLEAR")
            ComingThen(x, n) ==
              /\ At(queue', toWorker', x, n)
              /\ IF promise'[x] = "none" THEN NoneAfter(toWorker', n, "CLEAR")
                 ELSE FirstOf(toWorker', n, "EXECUTE", "CLEAR")
<1>. SUFFICES ASSUME NEW o \in enqueued', o \notin lost'
     PROVE  /\ promise'[o] = "none" => o \in localOps'
            /\ o \notin unposted' \cup NoEndpoint /\ calls'[o] = 0 /\ fetching'[o] = "no" =>
                 Occurs(running', o) \/ \E n \in Nat : ComingThen(o, n)
  BY DEF NotLost
<1>. DEFINE P == promise'[o] = "none" => o \in localOps'
            Q == o \notin unposted' \cup NoEndpoint /\ calls'[o] = 0 /\ fetching'[o] = "no" =>
                   Occurs(running', o) \/ \E n \in Nat : ComingThen(o, n)
<1>. SUFFICES P /\ Q
  OBVIOUS
<1>1. ASSUME o \in enqueued, o \notin lost
      PROVE  /\ o \in Op
             /\ promise[o] = "none" => o \in localOps
             /\ o \notin unposted \cup NoEndpoint /\ calls[o] = 0 /\ fetching[o] = "no" =>
                  Occurs(running, o) \/ \E n \in Nat : Coming(o, n, queue, toWorker)
             /\ fetching[o] = "answered" => calls[o] > 0
             /\ calls[o] \in Nat
  BY <1>1 DEF NotLost, NotDrained, TypeOK
<1>2. ASSUME UNCHANGED <<toWorker, queue, running, calls, enqueued, lost, localOps, unposted>>,
             fetching'[o] = fetching[o],
             promise'[o] = "none" <=> promise[o] = "none"
      PROVE  P /\ Q
  BY <1>1, <1>2
<1>3. CASE RegisterFails \/ Register \/ Claim \/ Ready
  BY <1>2, <1>3 DEF RegisterFails, Register, Claim, Ready, worker, history
<1>4. ASSUME NEW x \in Op, Enqueue(x) PROVE P /\ Q
  <2>1. /\ UNCHANGED <<queue, running, calls, fetching, promise, lost>> /\ x \notin enqueued
        /\ localOps' = localOps \cup {x}
        /\ enqueued' = IF controller = "unsupported" THEN enqueued ELSE enqueued \cup {x}
        /\ unposted' = IF controller = "none" THEN unposted \cup {x} ELSE unposted
    BY <1>4 DEF Enqueue
  <2>2. /\ toWorker' = IF controller = "active" THEN Append(toWorker, Enq(x)) ELSE toWorker
        /\ Enq(x) \in Message /\ Enq(x).type # "CLEAR" /\ toWorker \in Seq(Message)
    BY <1>4, MessageType DEF Enqueue, PostMessage, Enq, TypeOK
  <2>3. CASE o = x
    <3>1. controller \in {"none", "active"}
      BY <2>1, <2>3 DEF TypeOK
    <3>2. promise[x] = "none"
      BY <2>1 DEF NotDrained
    <3>3. CASE controller = "active"
      <4>1. Len(toWorker) + 1 \in Nat /\ Len(toWorker) + 1 > Len(toWorker)
        BY <2>2
      <4>2. At(queue', toWorker', x, Len(toWorker) + 1)
        BY <1>4, <3>3, <4>1, EnqueueMoves
      <4>3. NoneAfter(toWorker', Len(toWorker) + 1, "CLEAR")
        BY <2>2, <3>3, <4>1, Posted
      <4>4. ComingThen(o, Len(toWorker) + 1)
        BY <2>1, <2>3, <3>2, <4>2, <4>3
      <4>. QED
        BY <2>1, <2>3, <4>1, <4>4
    <3>. QED
      BY <2>1, <2>3, <3>1, <3>3
  <2>4. CASE o # x
    <3>1. o \in enqueued /\ o \notin lost
      BY <2>1, <2>4
    <3>2. ASSUME NEW n \in Nat, Coming(o, n, queue, toWorker) PROVE ComingThen(o, n)
      <4>1. At(queue', toWorker', o, n)
        BY <1>1, <1>4, <3>1, <3>2, EnqueueMoves
      <4>2. NoneAfter(toWorker, n, "CLEAR") => NoneAfter(toWorker', n, "CLEAR")
        BY <2>2, Posted
      <4>3. FirstOf(toWorker, n, "EXECUTE", "CLEAR") => FirstOf(toWorker', n, "EXECUTE", "CLEAR")
        BY <2>2, Posted
      <4>. QED
        BY <2>1, <3>2, <4>1, <4>2, <4>3
    <3>. HIDE DEF ComingThen, Coming
    <3>. QED
      BY <1>1, <2>1, <2>4, <3>1, <3>2
  <2>. QED
    BY <2>3, <2>4
<1>5. ASSUME NEW S \in SUBSET Op, Execute(S) PROVE P /\ Q
  <2>1. UNCHANGED <<queue, running, calls, enqueued, lost, unposted>> /\ localOps' = localOps \ S
        /\ o \in enqueued /\ o \notin lost /\ o \in Op
    BY <1>5 DEF Execute, TypeOK
  <2>2. /\ o \in S => promise[o] = "none" /\ promise'[o] # "none"
        /\ o \notin S => promise'[o] = promise[o] /\ fetching'[o] = fetching[o]
    BY <1>5, <2>1 DEF Execute, TypeOK
  <2>3. P
    BY <1>1, <2>1, <2>2
  <2>4. CASE Available
    <3>1. /\ toWorker' = Append(toWorker, [type |-> "EXECUTE"]) /\ toWorker \in Seq(Message)
          /\ [type |-> "EXECUTE"] \in Message
      BY <1>5, <2>4, MessageType DEF Execute, Available, PostMessage, TypeOK
    <3>2. fetching'[o] = fetching[o]
      BY <1>5, <2>1, <2>4 DEF Execute, TypeOK
    <3>3. ASSUME NEW n \in Nat, Coming(o, n, queue, toWorker) PROVE ComingThen(o, n)
      <4>1. At(queue', toWorker', o, n) /\ n <= Len(toWorker)
        BY <2>1, <3>1, <3>3, Posted
      <4>2. NoneAfter(toWorker, n, "CLEAR") =>
              NoneAfter(toWorker', n, "CLEAR") /\ FirstOf(toWorker', n, "EXECUTE", "CLEAR")
        BY <3>1, <4>1, Posted
      <4>3. FirstOf(toWorker, n, "EXECUTE", "CLEAR") => FirstOf(toWorker', n, "EXECUTE", "CLEAR")
        BY <3>1, Posted
      <4>. QED
        BY <2>2, <3>3, <4>1, <4>2, <4>3
    <3>. HIDE DEF ComingThen, Coming
    <3>. QED
      BY <1>1, <2>1, <2>3, <3>2, <3>3
  <2>5. CASE ~Available /\ o \in S
    <3>1. o \in localOps
      BY <1>1, <2>1, <2>2, <2>5
    <3>2. o \notin NoEndpoint => fetching'[o] = "sent"
      BY <1>5, <2>1, <2>5, <3>1 DEF Execute
    <3>. QED
      BY <2>3, <3>2
  <2>6. CASE ~Available /\ o \notin S
    <3>1. UNCHANGED toWorker
      BY <1>5, <2>6 DEF Execute
    <3>. QED
      BY <1>1, <2>1, <2>2, <2>3, <2>6, <3>1
  <2>. QED
    BY <2>4, <2>5, <2>6
<1>6. ASSUME NEW x \in Op, Timeout(x) PROVE P /\ Q
  <2>1. promise'[o] = "none" <=> promise[o] = "none"
    BY <1>6 DEF Timeout, Settle, TypeOK
  <2>. QED
    BY <1>2, <1>6, <2>1 DEF Timeout, worker, history
<1>7. ASSUME NEW x \in Op, Fetch(x) PROVE P /\ Q
  <2>1. UNCHANGED <<toWorker, queue, running, promise, enqueued, localOps, lost, unposted>>
        /\ fetching' = [fetching EXCEPT ![x] = "answered"] /\ calls' = [calls EXCEPT ![x] = @ + 1]
        /\ o \in enqueued /\ o \notin lost
    BY <1>7 DEF Fetch, worker
  <2>2. CASE o = x
    <3>1. calls'[o] # 0
      BY <1>1, <2>1, <2>2 DEF TypeOK
    <3>. QED
      BY <1>1, <2>1, <3>1
  <2>3. CASE o # x
    <3>1. calls'[o] = calls[o] /\ fetching'[o] = fetching[o]
      BY <1>1, <2>1, <2>3 DEF TypeOK
    <3>. QED
      BY <1>1, <2>1, <3>1
  <2>. QED
    BY <2>2, <2>3
<1>8. ASSUME NEW x \in Op, Fetched(x) PROVE P /\ Q
  <2>1. UNCHANGED <<toWorker, queue, running, calls, enqueued, localOps, lost, unposted>>
        /\ fetching[x] = "answered" /\ fetching' = [fetching EXCEPT ![x] = "no"]
        /\ o \in enqueued /\ o \notin lost
    BY <1>8 DEF Fetched, worker, history
  <2>2. promise'[o] = "none" <=> promise[o] = "none"
    BY <1>8 DEF Fetched, Settle, TypeOK
  <2>3. o = x => calls'[o] # 0
    BY <1>1, <2>1
  <2>4. o # x => fetching'[o] = fetching[o]
    BY <1>1, <2>1 DEF TypeOK
  <2>. QED
    BY <1>1, <2>1, <2>2, <2>3, <2>4
<1>9. CASE Clear
  <2>1. UNCHANGED <<queue, running, calls, fetching, enqueued, unposted>> /\ PostMessage([type |-> "CLEAR"])
        /\ lost' = lost \cup {x \in enqueued : promise[x] = "none"}
    BY <1>9 DEF Clear
  <2>2. o \in enqueued /\ o \notin lost /\ promise[o] # "none" /\ o \in Op
    BY <2>1 DEF TypeOK
  <2>3. promise'[o] # "none"
    BY <1>9, <2>2 DEF Clear, TypeOK
  <2>4. ASSUME NEW n \in Nat, Coming(o, n, queue, toWorker) PROVE ComingThen(o, n)
    <3>1. At(queue', toWorker', o, n)
      BY <2>1, <2>2, <2>4, PostMoves, MessageType
    <3>2. FirstOf(toWorker', n, "EXECUTE", "CLEAR")
      BY <2>1, <2>2, <2>4, Posted, MessageType DEF PostMessage, TypeOK
    <3>. QED
      BY <2>3, <3>1, <3>2
  <2>. HIDE DEF ComingThen, Coming
  <2>. QED
    BY <1>1, <2>1, <2>2, <2>3, <2>4
<1>10. CASE OnMessage
  <2>1. UNCHANGED <<toWorker, queue, running, calls, fetching, enqueued, lost, localOps, unposted>>
    BY <1>10 DEF OnMessage, history
  <2>2. promise'[o] = "none" <=> promise[o] = "none"
    BY <1>10 DEF OnMessage, Settle, TypeOK
  <2>. QED
    BY <1>2, <2>1, <2>2
<1>11. CASE WorkerTakes
  <2>1. UNCHANGED <<calls, fetching, promise, enqueued, lost, localOps, unposted>>
    BY <1>11 DEF WorkerTakes, page, history
  <2>2. o \in enqueued /\ o \notin lost /\ o \in Op
    BY <2>1 DEF TypeOK
  <2>3. Occurs(running, o) => Occurs(running', o)
    BY <1>11, <2>2, TakenRunning
  <2>4. ASSUME NEW n \in Nat, Coming(o, n, queue, toWorker)
        PROVE  Occurs(running', o) \/ \E i \in Nat : ComingThen(o, i)
    <3>1. ~(n = 0 /\ Head(toWorker).type = "CLEAR")
      <4>1. toWorker \in Seq(Message) /\ toWorker # <<>>
        BY <1>11 DEF WorkerTakes, TypeOK
      <4>2. NoneAfter(toWorker, 0, "CLEAR") => Head(toWorker).type # "CLEAR"
        BY <4>1, Taken
      <4>3. FirstOf(toWorker, 0, "EXECUTE", "CLEAR") =>
              Head(toWorker).type = "EXECUTE" \/ Head(toWorker).type # "CLEAR"
        BY <4>1, Taken
      <4>. QED
        BY <2>4, <4>2, <4>3
    <3>2. CASE \E i \in Nat :
                 /\ At(queue', toWorker', o, i)
                 /\ NoneAfter(toWorker, n, "CLEAR") => NoneAfter(toWorker', i, "CLEAR")
                 /\ FirstOf(toWorker, n, "EXECUTE", "CLEAR") => FirstOf(toWorker', i, "EXECUTE", "CLEAR")
      BY <2>1, <2>4, <3>2
    <3>. QED
      BY <1>11, <2>2, <2>4, <3>1, <3>2, TakenTo
  <2>. HIDE DEF ComingThen, Coming
  <2>. QED
    BY <1>1, <2>1, <2>2, <2>3, <2>4
<1>12. CASE WorkerRuns
  <2>1. UNCHANGED <<toWorker, queue, fetching, promise, enqueued, lost, localOps, unposted>>
        /\ running # <<>> /\ running' = Tail(running) /\ Head(running) \in Op
        /\ calls' = IF Head(running) \in NoEndpoint THEN calls
                    ELSE [calls EXCEPT ![Head(running)] = @ + 1]
    BY <1>12, HeadTailProperties DEF WorkerRuns, page, TypeOK
  <2>2. o \in enqueued /\ o \notin lost
    BY <2>1
  <2>3. CASE o = Head(running)
    <3>1. o \notin NoEndpoint => calls'[o] # 0
      BY <1>1, <2>1, <2>2, <2>3 DEF TypeOK
    <3>. QED
      BY <1>1, <2>1, <2>2, <3>1
  <2>4. CASE o # Head(running)
    <3>1. calls'[o] = calls[o]
      BY <1>1, <2>1, <2>2, <2>4 DEF TypeOK
    <3>2. Occurs(running, o) => Occurs(running', o)
      BY <2>1, <2>4, OccursTail DEF TypeOK
    <3>. QED
      BY <1>1, <2>1, <2>2, <3>1, <3>2
  <2>. QED
    BY <2>3, <2>4
<1>13. CASE WorkerStops
  <2>1. /\ UNCHANGED <<toWorker, calls, fetching, promise, enqueued, localOps, unposted>>
        /\ queue' = <<>> /\ running' = <<>> /\ lost' = lost \cup ToSet(queue) \cup ToSet(running)
    BY <1>13 DEF WorkerStops, page
  <2>2. o \in enqueued /\ o \notin lost
    BY <2>1
  <2>3. ~Occurs(queue, o) /\ ~Occurs(running, o)
    BY <2>1 DEF ToSet, Occurs, TypeOK
  <2>4. ASSUME NEW n \in Nat, Coming(o, n, queue, toWorker) PROVE ComingThen(o, n)
    BY <2>1, <2>3, <2>4 DEF At
  <2>. HIDE DEF ComingThen, Coming
  <2>. QED
    BY <1>1, <2>1, <2>2, <2>3, <2>4
<1>. QED
  BY <1>3, <1>4, <1>5, <1>6, <1>7, <1>8, <1>9, <1>10, <1>11, <1>12, <1>13 DEF Next

-----------------------------------------------------------------------------
(* The theorems. *)

LEMMA InitQueueInv == Init => QueueInv
<1>. SUFFICES ASSUME Init PROVE QueueInv
  OBVIOUS
<1>1. TypeOK
  BY InitType
<1>2. /\ queue = <<>> /\ toWorker = <<>> /\ running = <<>> /\ Len(<<>>) = 0
      /\ enqueued = {} /\ early = {} /\ unposted = {} /\ drained = {} /\ swept = {} /\ lost = {}
      /\ \A o \in Op : promise[o] = "none" /\ fetching[o] = "no" /\ calls[o] = 0
  BY DEF Init
<1>3. /\ \A o \in Op : ~Occurs(running, o) /\ \A i \in Nat : ~At(queue, toWorker, o, i)
      /\ NoRepeat(running) /\ NoRepeat(queue)
  BY <1>2 DEF At, Occurs, NoRepeat
<1>. QED
  BY <1>1, <1>2, <1>3 DEF QueueInv, WorkerHasPosted, OnePlace, RunsOnce, NotDrained, SweptIsDoomed,
     NotLost

LEMMA NextQueueInv == QueueInv /\ [Next]_vars => QueueInv'
<1>. SUFFICES ASSUME QueueInv, [Next]_vars PROVE QueueInv'
  OBVIOUS
<1>1. CASE Next
  <2>1. TypeOK'
    BY NextType DEF QueueInv
  <2>. QED
    BY <1>1, <2>1, PostedStep, OnePlaceStep, RunsOnceStep, NotDrainedStep, SweptStep, NotLostStep
       DEF QueueInv
<1>2. CASE UNCHANGED vars
  <2>1. UNCHANGED <<controller, ready, enqueued, localOps, promise, fetching, toWorker, queue, running,
                    calls, early, unposted, drained, swept, lost>>
    BY <1>2 DEF vars, page, worker, history
  <2>2. TypeOK'
    BY NextType DEF QueueInv
  <2>. QED
    BY <2>1, <2>2 DEF QueueInv, WorkerHasPosted, OnePlace, RunsOnce, Available, NotDrained,
       SweptIsDoomed, NotLost
<1>. QED
  BY <1>1, <1>2

LEMMA QueueInvariant == Spec => []QueueInv
BY InitQueueInv, NextQueueInv, PTL DEF Spec

\* However messages, fetches, clears and ends of the worker interleave, only an
\* operation posted before the page was ready can be run twice.
THEOREM NothingRunsTwice == Spec => []RunsAtMostOnce
<1>1. QueueInv => RunsAtMostOnce
  <2>. SUFFICES ASSUME QueueInv, NEW o \in Op, o \notin early, calls[o] > 1 PROVE FALSE
    BY DEF RunsAtMostOnce
  <2>1. calls[o] <= 1 /\ calls[o] \in Nat
    BY DEF QueueInv, RunsOnce, TypeOK
  <2>. QED
    BY <2>1
<1>. QED
  BY <1>1, QueueInvariant, PTL

\* What was cleared before anything was executed is never run, since a CLEAR
\* reaches the worker before any EXECUTE does.
THEOREM ClearedIsForgotten == Spec => []ClearedNeverRuns
<1>1. QueueInv => ClearedNeverRuns
  BY DEF QueueInv, SweptIsDoomed, ClearedNeverRuns
<1>. QED
  BY <1>1, QueueInvariant, PTL

\* An operation that is executed reaches the server, or it was cleared, was in a
\* worker that ended, or was enqueued without a controller: no other timeout is
\* without a request.
THEOREM TimeoutsAreExplained == Spec => []TimeoutIsExplained
<1>1. QueueInv => TimeoutIsExplained
  <2>. SUFFICES ASSUME QueueInv, Quiet, NEW o \in Op \ NoEndpoint,
                       promise[o] = "timeout", calls[o] = 0, fetching[o] = "no",
                       o \notin lost \cup unposted
                PROVE  FALSE
    BY DEF TimeoutIsExplained
  <2>1. o \in enqueued \ lost
    BY DEF QueueInv, NotDrained
  <2>2. Occurs(running, o) \/ \E i \in Nat : FirstOf(toWorker, i, "EXECUTE", "CLEAR")
    BY <2>1 DEF QueueInv, NotLost
  <2>3. running = <<>> /\ toWorker = <<>> /\ Len(<<>>) = 0
    BY DEF Quiet
  <2>. QED
    BY <2>2, <2>3 DEF Occurs, FirstOf
<1>. QED
  BY <1>1, QueueInvariant, PTL
=============================================================================
