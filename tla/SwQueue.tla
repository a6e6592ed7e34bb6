------------------------------- MODULE SwQueue -------------------------------
(***************************************************************************)
(* The client's queue of file operations (src/sw-queue.js).  A page hands  *)
(* operations to its service worker with ENQUEUE and has them run with     *)
(* EXECUTE; while the worker is not available it keeps them itself and     *)
(* fetches them directly.  Every operation that is executed gets a promise *)
(* with a timer of a minute.                                               *)
(*                                                                         *)
(* A function of the class runs to its end or its first await: it is one   *)
(* step.  The worker's script is part of the host application; of it the   *)
(* model has what the page relies on: messages arrive in order, ENQUEUE    *)
(* appends, EXECUTE drains the queue, CLEAR empties it, and every          *)
(* operation that was run is answered once.  The browser may end the       *)
(* worker and start it again, and its queue is then empty.                 *)
(***************************************************************************)
EXTENDS Naturals, Sequences, SequencesExt

CONSTANTS
  Op,          \* operations, each enqueued at most once
  NoEndpoint,  \* those of a kind that ENDPOINTS does not list
  MaxClears,   \* BOUND: calls of clear
  MaxStops     \* BOUND: how often the browser ends the worker

ASSUME QueueAssumption ==
  NoEndpoint \subseteq Op /\ MaxClears \in Nat /\ MaxStops \in Nat

VARIABLES
  controller,  \* navigator.serviceWorker: unsupported, none (no controller) or active
  init,        \* where init() is: start, claim, hello or over
  ready,       \* _ready
  enqueued,    \* the operations whose id enqueue returned
  localOps,    \* _localOps
  pending,     \* _pending, with the timer of each entry
  promise,     \* promise[o]: none, waiting, resolved, rejected, timeout, cancelled
  fetching,    \* fetching[o]: where _executeDirect is: no, sent or answered
  toWorker,    \* messages to the worker
  queue,       \* the worker's queue
  running,     \* what it drained and has yet to run
  toPage,      \* answers to the page
  calls,       \* history: how often a request for o was made
  early,       \* history: posted to the worker before the page was ready
  unposted,    \* history: enqueued without a controller
  drained,     \* history: an EXECUTE was posted after their ENQUEUE
  swept,       \* history: cleared before any EXECUTE and before execute(o)
  lost,        \* history: in the worker when the browser ended it, or cleared before execute(o)
  clears, stops

page    == <<controller, init, ready, enqueued, localOps, pending, promise, fetching>>
worker  == <<toWorker, queue, running, toPage>>
history == <<calls, early, unposted, drained, swept, lost, clears, stops>>
vars    == <<page, worker, history>>

Message == [type : {"ENQUEUE"}, op : Op] \cup [type : {"EXECUTE", "CLEAR"}]

\* A promise that waits has an entry, and with it a timer that will settle it.
TypeOK ==
  /\ controller \in {"unsupported", "none", "active"}
  /\ init \in {"start", "claim", "hello", "over"} /\ ready \in BOOLEAN
  /\ enqueued \subseteq Op /\ localOps \subseteq Op /\ pending \subseteq Op
  /\ promise \in [Op -> {"none", "waiting", "resolved", "rejected", "timeout", "cancelled"}]
  /\ pending = {o \in Op : promise[o] = "waiting"}
  /\ fetching \in [Op -> {"no", "sent", "answered"}]
  /\ toWorker \in Seq(Message) /\ toPage \in Seq(Op)
  /\ queue \in Seq(Op) /\ running \in Seq(Op)
  /\ calls \in [Op -> Nat]
  /\ \A s \in {early, unposted, drained, swept, lost} : s \subseteq Op
  /\ clears \in 0 .. MaxClears /\ stops \in 0 .. MaxStops

Init ==
  /\ controller \in {"unsupported", "none", "active"}
  /\ init = "start" /\ ready = FALSE
  /\ enqueued = {} /\ localOps = {} /\ pending = {}
  /\ promise = [o \in Op |-> "none"] /\ fetching = [o \in Op |-> "no"]
  /\ toWorker = <<>> /\ queue = <<>> /\ running = <<>> /\ toPage = <<>>
  /\ calls = [o \in Op |-> 0]
  /\ early = {} /\ unposted = {} /\ drained = {} /\ swept = {} /\ lost = {}
  /\ clears = 0 /\ stops = 0

-----------------------------------------------------------------------------
(* init(). *)

\* register() fails, or there are no service workers: direct fetches for good.
RegisterFails ==
  /\ init = "start"
  /\ init' = "over"
  /\ UNCHANGED <<controller, ready, enqueued, localOps, pending, promise, fetching,
                 worker, history>>

Register ==
  /\ init = "start" /\ controller # "unsupported"
  /\ init' = IF controller = "active" THEN "hello" ELSE "claim"
  /\ UNCHANGED <<controller, ready, enqueued, localOps, pending, promise, fetching,
                 worker, history>>

\* controllerchange, and _sendInit posts INIT.
Claim ==
  /\ init = "claim"
  /\ controller' = "active" /\ init' = "hello"
  /\ UNCHANGED <<ready, enqueued, localOps, pending, promise, fetching, worker, history>>

\* READY, or two seconds without it.
Ready ==
  /\ init = "hello"
  /\ ready' = TRUE /\ init' = "over"
  /\ UNCHANGED <<controller, enqueued, localOps, pending, promise, fetching, worker, history>>

-----------------------------------------------------------------------------
(* The page. *)

\* _available.
Available == ready /\ controller = "active"

\* controller?.postMessage.
PostMessage(m) ==
  toWorker' = IF controller = "active" THEN Append(toWorker, m) ELSE toWorker

\* Without service workers the access to controller throws: the operation is
\* in _localOps, and the caller has no id for it.
Enqueue(o) ==
  /\ o \notin enqueued \cup localOps
  /\ localOps' = localOps \cup {o}
  /\ enqueued' = IF controller = "unsupported" THEN enqueued ELSE enqueued \cup {o}
  /\ PostMessage([type |-> "ENQUEUE", op |-> o])
  /\ early' = IF controller = "active" /\ ~ready THEN early \cup {o} ELSE early
  /\ unposted' = IF controller = "none" THEN unposted \cup {o} ELSE unposted
  /\ UNCHANGED <<controller, init, ready, pending, promise, fetching, queue, running, toPage,
                 calls, drained, swept, lost, clears, stops>>

\* Mutation: execute() that lacks the else of its fallback.
ExecuteBoth(S) ==
  /\ S # {} /\ S \subseteq enqueued /\ \A o \in S : promise[o] = "none"
  /\ LET fetched == (S \cap localOps) \ NoEndpoint IN
     /\ fetching' = [o \in Op |-> IF o \in fetched THEN "sent" ELSE fetching[o]]
     /\ promise' = [o \in Op |-> IF o \in S THEN "waiting" ELSE promise[o]]
  /\ pending' = pending \cup S
  /\ localOps' = localOps \ S
  /\ IF Available THEN PostMessage([type |-> "EXECUTE"]) ELSE UNCHANGED toWorker
  /\ drained' = IF Available THEN enqueued \ unposted ELSE drained
  /\ UNCHANGED <<controller, init, ready, enqueued, queue, running, toPage,
                 calls, early, unposted, swept, lost, clears, stops>>

\* Mutation: the fallback forgets to fetch what it takes from _localOps.
ExecuteForgets(S) ==
  /\ S # {} /\ S \subseteq enqueued /\ \A o \in S : promise[o] = "none"
  /\ promise' = [o \in Op |-> IF o \in S THEN "waiting" ELSE promise[o]]
  /\ pending' = pending \cup S
  /\ localOps' = localOps \ S
  /\ IF Available THEN PostMessage([type |-> "EXECUTE"]) ELSE UNCHANGED toWorker
  /\ drained' = IF Available THEN enqueued \ unposted ELSE drained
  /\ UNCHANGED <<controller, init, ready, enqueued, fetching, queue, running, toPage,
                 calls, early, unposted, swept, lost, clears, stops>>

\* execute(opIds), with the part of _executeDirect before its first await.  (Left
\* out: an empty list, which only posts EXECUTE as any list does, and an id that
\* was executed before.)
Execute(S) ==
  /\ S # {} /\ S \subseteq enqueued /\ \A o \in S : promise[o] = "none"
  /\ LET direct  == IF Available THEN {} ELSE S \cap localOps
         unknown == direct \cap NoEndpoint IN
     /\ promise' = [o \in Op |-> IF o \in unknown THEN "rejected"
                                 ELSE IF o \in S THEN "waiting" ELSE promise[o]]
     /\ pending' = (pending \cup S) \ unknown
     /\ fetching' = [o \in Op |-> IF o \in direct \ unknown THEN "sent" ELSE fetching[o]]
  /\ localOps' = localOps \ S
  /\ IF Available THEN PostMessage([type |-> "EXECUTE"]) ELSE UNCHANGED toWorker
  /\ drained' = IF Available THEN enqueued \ unposted ELSE drained
  /\ UNCHANGED <<controller, init, ready, enqueued, queue, running, toPage,
                 calls, early, unposted, swept, lost, clears, stops>>

\* Mutation: the promise is settled and its entry stays.
SettleKeeps(o, how) ==
  /\ o \in pending
  /\ promise' = [promise EXCEPT ![o] = how]
  /\ pending' = pending

\* An entry of _pending is taken out and its promise settled.
Settle(o, how) ==
  /\ o \in pending
  /\ promise' = [promise EXCEPT ![o] = how]
  /\ pending' = pending \ {o}

\* The timer of execute().
Timeout(o) ==
  /\ Settle(o, "timeout")
  /\ UNCHANGED <<controller, init, ready, enqueued, localOps, fetching, worker, history>>

\* Mutation: the worker is not told.
ClearPageOnly ==
  /\ clears < MaxClears /\ clears' = clears + 1
  /\ promise' = [o \in Op |-> IF o \in pending THEN "cancelled" ELSE promise[o]]
  /\ pending' = {} /\ localOps' = {}
  /\ swept' = swept \cup {o \in enqueued \ drained : promise[o] = "none"}
  /\ lost' = lost \cup {o \in enqueued : promise[o] = "none"}
  /\ UNCHANGED <<controller, init, ready, enqueued, fetching, worker,
                 calls, early, unposted, drained, stops>>

Clear ==
  /\ clears < MaxClears /\ clears' = clears + 1
  /\ promise' = [o \in Op |-> IF o \in pending THEN "cancelled" ELSE promise[o]]
  /\ pending' = {} /\ localOps' = {}
  /\ PostMessage([type |-> "CLEAR"])
  /\ swept' = swept \cup {o \in enqueued \ drained : promise[o] = "none"}
  /\ lost' = lost \cup {o \in enqueued : promise[o] = "none"}
  /\ UNCHANGED <<controller, init, ready, enqueued, fetching, queue, running, toPage,
                 calls, early, unposted, drained, stops>>

\* _onMessage: an answer nobody waits for is dropped.
OnMessage ==
  /\ toPage # <<>> /\ toPage' = Tail(toPage)
  /\ IF Head(toPage) \in pending
     THEN \E how \in {"resolved", "rejected"} : Settle(Head(toPage), how)
     ELSE UNCHANGED <<promise, pending>>
  /\ UNCHANGED <<controller, init, ready, enqueued, localOps, fetching,
                 toWorker, queue, running, history>>

\* The request of _executeDirect, whether or not it reaches the server.
Fetch(o) ==
  /\ fetching[o] = "sent"
  /\ fetching' = [fetching EXCEPT ![o] = "answered"]
  /\ calls' = [calls EXCEPT ![o] = @ + 1]
  /\ UNCHANGED <<controller, init, ready, enqueued, localOps, pending, promise, worker,
                 early, unposted, drained, swept, lost, clears, stops>>

\* The rest of _executeDirect: requires_elevation and missing_tool resolve,
\* other errors reject; after a timeout or a clear nothing is left to do.
Fetched(o) ==
  /\ fetching[o] = "answered"
  /\ fetching' = [fetching EXCEPT ![o] = "no"]
  /\ IF o \in pending
     THEN \E how \in {"resolved", "rejected"} : Settle(o, how)
     ELSE UNCHANGED <<promise, pending>>
  /\ UNCHANGED <<controller, init, ready, enqueued, localOps, worker, history>>

-----------------------------------------------------------------------------
(* The worker (external). *)

WorkerTakes ==
  /\ toWorker # <<>> /\ toWorker' = Tail(toWorker)
  /\ LET m == Head(toWorker) IN
     CASE m.type = "ENQUEUE" -> queue' = Append(queue, m.op) /\ UNCHANGED running
       [] m.type = "EXECUTE" -> running' = running \o queue /\ queue' = <<>>
       [] m.type = "CLEAR"   -> queue' = <<>> /\ UNCHANGED running
  /\ UNCHANGED <<page, toPage, history>>

\* An operation without an endpoint is answered with an error and not tried.
WorkerRuns ==
  /\ running # <<>> /\ running' = Tail(running)
  /\ LET o == Head(running) IN
     /\ toPage' = Append(toPage, o)
     /\ calls' = IF o \in NoEndpoint THEN calls ELSE [calls EXCEPT ![o] = @ + 1]
  /\ UNCHANGED <<page, toWorker, queue, early, unposted, drained, swept, lost, clears, stops>>

WorkerStops ==
  /\ stops < MaxStops /\ stops' = stops + 1
  /\ lost' = lost \cup ToSet(queue) \cup ToSet(running)
  /\ queue' = <<>> /\ running' = <<>>
  /\ UNCHANGED <<page, toWorker, toPage, calls, early, unposted, drained, swept, clears>>

-----------------------------------------------------------------------------
Next ==
  \/ RegisterFails \/ Register \/ Claim \/ Ready
  \/ \E o \in Op : Enqueue(o) \/ Timeout(o) \/ Fetch(o) \/ Fetched(o)
  \/ \E S \in SUBSET Op : Execute(S)
  \/ Clear \/ OnMessage \/ WorkerTakes \/ WorkerRuns \/ WorkerStops

Spec == Init /\ [][Next]_vars

-----------------------------------------------------------------------------
(* Properties. *)

\* The worker and the direct fetch may each run an operation, so an operation
\* can only run twice when the worker got it while the page was not ready:
\* once execute() has gone through the worker it never falls back.
RunsAtMostOnce == \A o \in Op : calls[o] > 1 => o \in early

\* What was cleared before anything was executed never reaches the server,
\* whatever is on its way to the worker and whatever is executed later.
ClearedNeverRuns == \A o \in swept : calls[o] = 0

\* Nothing is on its way any more.
Quiet == toWorker = <<>> /\ running = <<>> /\ toPage = <<>>

\* An operation whose promise times out without any request having been made
\* was cleared, was in a worker that ended, or is one of those the worker never
\* got because there was no controller when it was enqueued.
TimeoutIsExplained ==
  Quiet => \A o \in Op \ NoEndpoint :
    promise[o] = "timeout" /\ calls[o] = 0 /\ fetching[o] = "no" =>
      o \in lost \cup unposted
=============================================================================
