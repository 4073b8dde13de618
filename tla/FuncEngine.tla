----------------------------- MODULE FuncEngine -----------------------------
(***************************************************************************)
(* The function runtime on one engine node: Engine, one Dispatcher per     *)
(* function, WorkerManager, Tracer's table of calls, the message           *)
(* connections of the function workers, the contexts EngineBase keeps for  *)
(* the calls, the launchers that start worker processes, and the worker    *)
(* libraries: func_worker.go, the C++ FuncWorker, and the                  *)
(* EventDrivenWorker under Node.js and Python.                             *)
(*                                                                         *)
(* Every handler of the engine is one step: its critical sections touch    *)
(* the data of its own call and one dispatcher, under that dispatcher's    *)
(* lock, so handlers of different calls commute.  Time, load estimates and *)
(* the contents of inputs and outputs are abstracted: a concurrency limit  *)
(* is any value the clamp allows, a call is large (it travels in shared    *)
(* memory) or small.                                                       *)
(***************************************************************************)
EXTENDS Integers, Sequences, FiniteSets, FiniteSetsExt, TLC

CONSTANTS
  Funcs,          \* functions of func_config
  Nests,          \* Nests[f]: the functions the handler of f invokes
  MinWorkers,     \* per function, from func_config; -1 where it is not set
  MaxWorkers,     \* per function, from func_config
  DefaultMinWorkers,  \* kDefaultMinWorkersPerFunc
  ExtCalls,       \* the calls the gateway dispatches to this engine
  Flags,          \* the settings of the engine, see flags
  MaxClientId,    \* bound: client ids handed out
  MaxNested,      \* bound: calls one worker invokes
  MaxLogOps,      \* bound: log operations of one call
  MaxProgress,    \* bound: metalog progress of the log
  MaxExits        \* bound: launchers or worker processes that exit

ASSUME FuncAssumption ==
  /\ \A f \in Funcs : /\ Nests[f] \subseteq Funcs
                      /\ MinWorkers[f] \in Nat \cup {-1}
                      /\ MaxWorkers[f] \in Nat \ {0} /\ MinWorkers[f] <= MaxWorkers[f]
  /\ DefaultMinWorkers \in Nat
  /\ \A x \in ExtCalls : x.cl = 0 /\ x.fn \in Funcs
  /\ \A g \in Flags : /\ g.delay => g.fifo
                      /\ \A f \in Funcs : g.library[f] \in {"go", "cpp", "event"}
                      /\ {g.fifo, g.delay, g.registered} \subseteq BOOLEAN

Clients == 1 .. MaxClientId

\* A FuncCall: client_id 0 for a call from the gateway, else the caller.
NestedCalls ==
  [cl : Clients, id : 0 .. MaxNested - 1, fn : Funcs, big : BOOLEAN, async : BOOLEAN]

VARIABLES
  flags,             \* use_fifo_for_nested_call, max_relative_queueing_delay > 0,
                     \* registered_, and the worker library of each function
  dispatched,        \* DISPATCH_FUNC_CALL messages of the gateway, on their way
  answers,           \* answers[x]: the answers sent to the gateway
  inflight,          \* inflight_external_requests_
  dispatchers,       \* dispatchers_
  func_call_infos,   \* the tracer's table
  async_func_calls,  \* async_func_calls_
  fn_call_ctx,       \* fn_call_ctx_: call -> metalog progress of its session
  log_ops,           \* shared log operations under way
  launchers,         \* launcher_connections_
  next_client_id,    \* next_client_id_
  client_fn,         \* the function a client id was requested for
  func_workers,      \* func_workers_
  conn,              \* state_ of the message connection of a worker
  pending_messages,  \* messages written before the handshake is done
  to_launcher,       \* CREATE_FUNC_WORKER messages
  to_worker,         \* messages in the input FIFO of a worker
  from_worker,       \* messages in the output FIFO of a worker
  proc,              \* the process side of a worker
  exec,              \* the calls workers execute: currentCall, incoming_func_calls_
  outgoing,          \* outgoingFuncCalls: calls a worker waits for
  next_call_id,      \* nextCallId of a worker
  shm,               \* shared memory regions: <<"in" or "out", call>>
  fifo,              \* output FIFOs that have a reader: call -> what is in it
  fatal,             \* the engine has hit a FATAL
  exits,             \* launchers and processes that exited
  floor,             \* history: progress the parent had seen at the invocation
  abandoned          \* history: outputs that were there when their caller timed out

gwVars == <<dispatched, answers, inflight>>
callVars == <<func_call_infos, async_func_calls, fn_call_ctx, log_ops>>
wmVars == <<launchers, next_client_id, client_fn, func_workers, to_launcher>>
pipeVars == <<conn, pending_messages, to_worker>>
procVars == <<from_worker, proc, exec, outgoing, next_call_id, floor>>
ipcVars == <<shm, fifo>>
vars == <<flags, gwVars, dispatchers, callVars, wmVars, pipeVars, procVars,
          ipcVars, fatal, exits, abandoned>>

NoFunction == [x \in {} |-> 0]
Without(F, S) == [x \in DOMAIN F \ S |-> F[x]]

Init ==
  /\ flags \in Flags
  /\ dispatched = ExtCalls
  /\ answers = [x \in ExtCalls |-> <<>>]
  /\ inflight = 0
  /\ dispatchers = [f \in Funcs |->
       [workers |-> {}, running |-> NoFunction, assigned |-> NoFunction,
        idle |-> <<>>, requested |-> {}, pending |-> <<>>,
        zero |-> {}]]  \* history: calls queued while the concurrency limit was 0
  /\ func_call_infos = {} /\ async_func_calls = {}
  /\ fn_call_ctx = NoFunction /\ log_ops = {}
  /\ launchers = {} /\ next_client_id = 1 /\ client_fn = NoFunction
  /\ func_workers = {} /\ to_launcher = [f \in Funcs |-> <<>>]
  /\ conn = [c \in Clients |-> "created"]
  /\ pending_messages = [c \in Clients |-> <<>>]
  /\ to_worker = [c \in Clients |-> <<>>]
  /\ from_worker = [c \in Clients |-> <<>>]
  /\ proc = [c \in Clients |-> "none"]
  /\ exec = NoFunction
  /\ outgoing = [c \in Clients |-> {}]
  /\ next_call_id = [c \in Clients |-> 0]
  /\ shm = {} /\ fifo = NoFunction
  /\ fatal = FALSE /\ exits = 0 /\ floor = NoFunction /\ abandoned = {}

-----------------------------------------------------------------------------
(* Messages between the engine and its workers.                            *)

NewDispatchFuncCall(x) == [type |-> "DISPATCH", call |-> x]
NewInvokeFunc(x, parent) == [type |-> "INVOKE", call |-> x, parent |-> parent]
NewFuncCallComplete(x) == [type |-> "COMPLETE", call |-> x]
NewFuncCallFailed(x) == [type |-> "FAILED", call |-> x]
NewSharedLogOp(x) == [type |-> "LOG_OP", call |-> x]
NewSharedLogOpSucceeded(p) == [type |-> "LOG_OK", progress |-> p]

-----------------------------------------------------------------------------
(* The dispatcher of a function, as operators on its record d.             *)

DispatchFuncCall(d, c, x) ==
  [d EXCEPT !.assigned = (x :> c) @@ @, !.running = (c :> x) @@ @]

\* The calls that may be discarded before one is dispatched: a prefix of
\* calls from other functions that waited too long.
QueueingTooLong(d) ==
  {k \in 0 .. Len(d.pending) :
     \A i \in 1 .. k : flags.delay /\ d.pending[i].cl # 0}

\* Seeded fault: the call is popped from the queue, its worker set idle.
PopsPendingFuncCall(d, c, k) ==
  [d EXCEPT !.pending = SubSeq(@, k + 2, Len(@)), !.idle = Append(@, c)]

DispatchPendingFuncCall(d, c, k) ==
  IF k < Len(d.pending)
  THEN DispatchFuncCall([d EXCEPT !.pending = SubSeq(@, k + 2, Len(@))], c, d.pending[k + 1])
  ELSE [d EXCEPT !.pending = <<>>, !.idle = Append(@, c)]

OnFuncWorkerConnected(d, c, k) ==
  DispatchPendingFuncCall(
    [d EXCEPT !.workers = @ \cup {c}, !.requested = @ \ {c}], c, k)

OnFuncWorkerDisconnected(d, c) == [d EXCEPT !.workers = @ \ {c}]

FuncWorkerFinished(d, c, k) ==
  DispatchPendingFuncCall([d EXCEPT !.running = Without(@, {c})], c, k)

\* OnFuncCallCompleted and OnFuncCallFailed of the dispatcher.
OnFuncCallFinished(d, x, k) ==
  IF x \notin DOMAIN d.assigned THEN d
  ELSE LET c == d.assigned[x]
           e == IF c \in d.workers THEN FuncWorkerFinished(d, c, k) ELSE d
       IN  [e EXCEPT !.assigned = Without(@, {x})]

UsableIdle(d) ==
  {i \in DOMAIN d.idle : d.idle[i] \in d.workers \ DOMAIN d.running}

\* The outcome of PickIdleWorker: 0 when every idle worker is gone or the
\* concurrency limit is reached.
PickIdleWorker(d, limit) ==
  IF Cardinality(DOMAIN d.running) >= limit \/ UsableIdle(d) = {}
  THEN 0 ELSE Max(UsableIdle(d))

\* min_workers_ of the dispatcher: 0 unless the configuration sets it.
min_workers_(f) == IF MinWorkers[f] > 0 THEN MinWorkers[f] ELSE 0

\* Seeded fault: the estimate is not raised to the minimum of workers.
UnclampedConcurrencyLimit(f) == 0 .. MaxWorkers[f]

DetermineConcurrencyLimit(f) == min_workers_(f) .. MaxWorkers[f]

\* ask: the interval and the expected concurrency allow a request.
MayRequestNewFuncWorker(f, d, limit, ask) ==
  /\ ask
  /\ Cardinality(DOMAIN d.running) < limit /\ UsableIdle(d) = {}
  /\ Cardinality(d.workers) + Cardinality(d.requested) < MaxWorkers[f]
  /\ f \in launchers
  /\ next_client_id <= MaxClientId

OnNewFuncCall(f, d, x, limit, ask) ==
  LET i == PickIdleWorker(d, limit)
      full == Cardinality(DOMAIN d.running) >= limit
      e == [d EXCEPT !.pending = Append(@, x), !.idle = IF full THEN @ ELSE <<>>,
                     !.zero = IF limit = 0 THEN @ \cup {x} ELSE @]
  IN  IF i # 0
      THEN DispatchFuncCall([d EXCEPT !.idle = SubSeq(@, 1, i - 1)], d.idle[i], x)
      ELSE IF MayRequestNewFuncWorker(f, d, limit, ask)
      THEN [e EXCEPT !.requested = @ \cup {next_client_id}]
      ELSE e

\* The DISPATCH_FUNC_CALL messages that take the dispatcher from d to e.
DispatchMessages(d, e) ==
  [c \in Clients |->
     IF c \in DOMAIN e.running /\ (c \notin DOMAIN d.running \/ d.running[c] # e.running[c])
     THEN <<NewDispatchFuncCall(e.running[c])>> ELSE <<>>]

-----------------------------------------------------------------------------
(* Messages to workers, and what a discarded call leaves to do.            *)

\* WriteMessage: a message waits for the end of the handshake; on a closing
\* connection it stays unsent.
WriteMessages(out) ==
  /\ to_worker' = [c \in Clients |->
       IF conn[c] = "running" THEN to_worker[c] \o out[c] ELSE to_worker[c]]
  /\ pending_messages' = [c \in Clients |->
       IF conn[c] = "running" THEN pending_messages[c] ELSE pending_messages[c] \o out[c]]
  /\ UNCHANGED conn

\* SendFuncWorkerMessage: nothing is sent to a worker that is gone.
SendFuncWorkerMessage(c, m) ==
  [d \in Clients |-> IF d = c /\ c \in func_workers THEN <<m>> ELSE <<>>]

Both(a, b) == [c \in Clients |-> a[c] \o b[c]]

\* The tracer's entries: one from OnNewFuncCall to the end or the discard.
TracerOnNewFuncCall(x) == func_call_infos \cup {x}
TracerOnFuncCallFinished(x) == func_call_infos \ {x}
DiscardFuncCallInfo(infos, S) == infos \ S

\* OnRecvMessage of a running connection.
Received(c, type) ==
  /\ ~fatal
  /\ conn[c] = "running" /\ from_worker[c] # <<>>
  /\ Head(from_worker[c]).type = type
  /\ from_worker' = [from_worker EXCEPT ![c] = Tail(@)]

\* The calls DispatchPendingFuncCall discards, k of them; they are calls of
\* other functions, and the caller finds a failure in its FIFO.
Discarded(d, k) == {d.pending[i] : i \in 1 .. k}

ProcessDiscardedFuncCall(S) ==
  fifo' = [x \in DOMAIN fifo |-> IF x \in S THEN Append(fifo[x], "FAILED") ELSE fifo[x]]

-----------------------------------------------------------------------------
(* Launchers and the connections of workers.                               *)

RequestNewFuncWorker(f, n) ==
  LET ids == [i \in 1 .. n |-> next_client_id + i - 1]
  IN  /\ next_client_id' = next_client_id + n
      /\ client_fn' = [c \in {ids[i] : i \in 1 .. n} |-> f] @@ client_fn
      /\ to_launcher' = [to_launcher EXCEPT ![f] = @ \o ids]

\* A launcher is asked for the configured number of workers, or the default.
OnLauncherConnected(f) ==
  LET n == IF MinWorkers[f] = -1 THEN DefaultMinWorkers ELSE MinWorkers[f]
  IN  /\ ~fatal
      /\ f \notin launchers
      /\ next_client_id + n - 1 <= MaxClientId
      /\ \A c \in DOMAIN client_fn : client_fn[c] # f
      /\ launchers' = launchers \cup {f}
      /\ RequestNewFuncWorker(f, n)
      /\ UNCHANGED <<flags, abandoned, gwVars, dispatchers, callVars, func_workers,
                     pipeVars, procVars, ipcVars, fatal, exits>>

\* Launcher::OnRecvMessage: the process of a worker, or a thread of the one
\* process of the function, starts with the client id.
LauncherOnRecvMessage(f) ==
  /\ to_launcher[f] # <<>> /\ f \in launchers
  /\ proc' = [proc EXCEPT ![Head(to_launcher[f])] = "starting"]
  /\ to_launcher' = [to_launcher EXCEPT ![f] = Tail(@)]
  /\ UNCHANGED <<flags, abandoned, gwVars, dispatchers, callVars, launchers, next_client_id,
                 client_fn, func_workers, pipeVars, from_worker, exec, outgoing,
                 next_call_id, floor, ipcVars, fatal, exits>>

\* OnFuncWorkerConnected of the worker manager, then of the dispatcher, which
\* may have a call for the worker already.
OnNewHandshake(c) ==
  LET f == client_fn[c]
      d == dispatchers[f]
  IN  /\ c \notin func_workers
      /\ func_workers' = func_workers \cup {c}
      /\ \E k \in QueueingTooLong(d) :
           LET e == OnFuncWorkerConnected(d, c, k)
           IN  /\ dispatchers' = [dispatchers EXCEPT ![f] = e]
               /\ func_call_infos' = DiscardFuncCallInfo(func_call_infos, Discarded(d, k))
               /\ pending_messages' = [pending_messages EXCEPT ![c] = DispatchMessages(d, e)[c]]
               /\ ProcessDiscardedFuncCall(Discarded(d, k))

\* The dispatcher takes the worker in before the handshake is answered.
RecvHandshakeMessage(c) ==
  /\ ~fatal
  /\ proc[c] = "starting" /\ conn[c] = "created"
  /\ conn' = [conn EXCEPT ![c] = "handshake"]
  /\ OnNewHandshake(c)
  /\ UNCHANGED <<flags, abandoned, gwVars, async_func_calls, fn_call_ctx, log_ops, launchers,
                 next_client_id, client_fn, to_launcher, to_worker, procVars, shm,
                 fatal, exits>>

SendPendingMessages(c) ==
  /\ to_worker' = [to_worker EXCEPT ![c] = @ \o pending_messages[c]]
  /\ pending_messages' = [pending_messages EXCEPT ![c] = <<>>]

\* The answer of the handshake reaches the worker, and the messages written
\* meanwhile are sent.
HandshakeDone(c) ==
  /\ ~fatal
  /\ conn[c] = "handshake" /\ proc[c] = "starting"
  /\ conn' = [conn EXCEPT ![c] = "running"]
  /\ proc' = [proc EXCEPT ![c] = "up"]
  /\ SendPendingMessages(c)
  /\ UNCHANGED <<flags, abandoned, gwVars, dispatchers, callVars, wmVars, from_worker, exec,
                 outgoing, next_call_id, floor, ipcVars, fatal, exits>>

\* OnFuncProcessExit, the stop of a launcher and what both do to the workers:
\* in C++ mode one process ends, else the launcher dies with its process.
OnFuncProcessExit(f, c) ==
  LET cpp == flags.library[f] = "cpp"
      gone == IF cpp THEN {c}
              ELSE {b \in DOMAIN client_fn : client_fn[b] = f}
  IN  /\ f \in launchers /\ exits < MaxExits
      /\ c \in DOMAIN client_fn /\ client_fn[c] = f /\ proc[c] # "none"
      /\ exits' = exits + 1
      /\ proc' = [b \in Clients |-> IF b \in gone THEN "dead" ELSE proc[b]]
      /\ exec' = Without(exec, gone)
      /\ outgoing' = [b \in Clients |-> IF b \in gone THEN {} ELSE outgoing[b]]
      /\ fifo' = Without(fifo, {x \in DOMAIN fifo : x.cl \in gone})
      /\ launchers' = IF cpp THEN launchers ELSE launchers \ {f}
      /\ UNCHANGED <<flags, abandoned, gwVars, dispatchers, callVars, next_client_id,
                     client_fn, func_workers, to_launcher, pipeVars, from_worker,
                     next_call_id, floor, shm, fatal>>

\* A worker that ends during a call stops the engine.
ManagerOnFuncWorkerDisconnected(f, c) ==
  /\ func_workers' = func_workers \ {c}
  /\ fatal' = (c \in DOMAIN dispatchers[f].running)
  /\ dispatchers' = IF fatal' THEN dispatchers
                    ELSE [dispatchers EXCEPT ![f] = OnFuncWorkerDisconnected(@, c)]

\* The connection of a worker that ended is closed; one whose handshake was
\* not done leaves its worker with the dispatcher.
OnLocalIpcConnClosed(c) ==
  /\ ~fatal
  /\ proc[c] = "dead" /\ conn[c] \in {"handshake", "running"}
  /\ conn' = [conn EXCEPT ![c] = "closed"]
  /\ IF conn[c] = "handshake"
     THEN UNCHANGED <<func_workers, dispatchers, fatal>>
     ELSE ManagerOnFuncWorkerDisconnected(client_fn[c], c)
  /\ UNCHANGED <<flags, abandoned, gwVars, callVars, launchers, next_client_id, client_fn,
                 to_launcher, pending_messages, to_worker, procVars, ipcVars, exits>>

-----------------------------------------------------------------------------
(* Calls reach the engine.                                                 *)

\* What OnNewFuncCall of the dispatcher does to the engine: the tracer's
\* entry, the message to a worker, a request for a new worker.
DispatcherOnNewFuncCall(x, ack) ==
  LET f == x.fn
      d == dispatchers[f]
  IN  \E limit \in DetermineConcurrencyLimit(f), ask \in BOOLEAN :
        LET e == OnNewFuncCall(f, d, x, limit, ask)
        IN  /\ dispatchers' = [dispatchers EXCEPT ![f] = e]
            /\ func_call_infos' = TracerOnNewFuncCall(x)
            /\ WriteMessages(Both(DispatchMessages(d, e), ack))
            /\ IF e.requested # d.requested THEN RequestNewFuncWorker(f, 1)
               ELSE UNCHANGED <<next_client_id, client_fn, to_launcher>>

NoMessage == [c \in Clients |-> <<>>]

OnExternalFuncCall(x) ==
  /\ ~fatal
  /\ x \in dispatched
  /\ dispatched' = dispatched \ {x}
  /\ inflight' = inflight + 1
  /\ shm' = IF x.big THEN shm \cup {<<"in", x>>} ELSE shm
  /\ fn_call_ctx' = (x :> 0) @@ fn_call_ctx
  /\ DispatcherOnNewFuncCall(x, NoMessage)
  /\ UNCHANGED <<flags, abandoned, answers, async_func_calls, log_ops, launchers, func_workers,
                 procVars, fifo, fatal, exits>>

\* No shared memory for the input: the call fails at once.
ExternalFuncCallRefused(x) ==
  /\ ~fatal
  /\ x \in dispatched /\ x.big
  /\ dispatched' = dispatched \ {x}
  /\ answers' = [answers EXCEPT ![x] = Append(@, "FAILED")]
  /\ UNCHANGED <<flags, abandoned, inflight, dispatchers, callVars, wmVars, pipeVars, procVars,
                 ipcVars, fatal, exits>>

\* The context a call inherits: the progress its parent has reached.
OnNewInternalFuncCall(x, parent) == (x :> fn_call_ctx[parent]) @@ fn_call_ctx

\* EngineBase dies on a call it knows, or on a parent it does not know.
UnknownParent(x, parent) ==
  x \in DOMAIN fn_call_ctx \/ parent \notin DOMAIN fn_call_ctx

HandleInvokeFuncMessage(c) ==
  LET m == Head(from_worker[c])
      x == m.call
      ack == IF x.async
             THEN SendFuncWorkerMessage(x.cl, NewFuncCallComplete(x))
             ELSE NoMessage
  IN  /\ Received(c, "INVOKE")
      /\ IF UnknownParent(x, m.parent)
         THEN /\ fatal' = TRUE
              /\ UNCHANGED <<dispatchers, callVars, wmVars, pipeVars>>
         ELSE /\ async_func_calls' = IF x.async THEN async_func_calls \cup {x}
                                     ELSE async_func_calls
              /\ fn_call_ctx' = OnNewInternalFuncCall(x, m.parent)
              /\ DispatcherOnNewFuncCall(x, ack)
              /\ UNCHANGED <<log_ops, launchers, func_workers, fatal>>
      /\ UNCHANGED <<flags, abandoned, gwVars, proc, exec, outgoing, next_call_id, floor,
                     ipcVars, exits>>

(* Calls end.  HandleFuncCallCompleteMessage, HandleFuncCallFailedMessage  *)
(* and what they send: the answer to the gateway, the message to the       *)
(* caller, or nothing when the caller reads a FIFO or does not wait.       *)

\* The regions the handler removes: the input the engine created or took
\* over, and the output it copied to the gateway or has no reader for.
RegionsDropped(x) ==
  IF x.cl = 0 \/ x \in async_func_calls THEN {<<"in", x>>, <<"out", x>>} ELSE {}

\* A large output that cannot be opened turns the answer into a failure.
ExternalFuncCallFinished(x, ok) ==
  /\ answers' = [answers EXCEPT ![x] =
       Append(@, IF ok /\ (x.big => <<"out", x>> \in shm) THEN "COMPLETE" ELSE "FAILED")]
  /\ inflight' = inflight - 1

HandleFuncCallFinished(c, ok) ==
  LET m == Head(from_worker[c])
      x == m.call
      f == x.fn
      d == dispatchers[f]
      caller == IF x.cl # 0 /\ x \notin async_func_calls /\ ~flags.fifo
                THEN SendFuncWorkerMessage(x.cl, m) ELSE NoMessage
  IN  /\ Received(c, IF ok THEN "COMPLETE" ELSE "FAILED")
      /\ shm' = shm \ RegionsDropped(x)
      /\ async_func_calls' = async_func_calls \ {x}
      /\ IF x \notin DOMAIN fn_call_ctx
         THEN /\ fatal' = TRUE
              /\ UNCHANGED <<dispatchers, func_call_infos, fn_call_ctx, pipeVars,
                             answers, inflight, fifo>>
         ELSE /\ fn_call_ctx' = Without(fn_call_ctx, {x})
              /\ fatal' = FALSE
              /\ IF x \notin func_call_infos
                 THEN UNCHANGED <<dispatchers, func_call_infos, pipeVars, answers,
                                  inflight, fifo>>
                 ELSE \E k \in QueueingTooLong(d) :
                        LET e == OnFuncCallFinished(d, x, k)
                            S == IF e.pending = d.pending THEN {} ELSE Discarded(d, k)
                        IN  /\ dispatchers' = [dispatchers EXCEPT ![f] = e]
                            /\ func_call_infos' = DiscardFuncCallInfo(TracerOnFuncCallFinished(x), S)
                            /\ WriteMessages(Both(DispatchMessages(d, e), caller))
                            /\ ProcessDiscardedFuncCall(S)
                            /\ IF x.cl = 0 THEN ExternalFuncCallFinished(x, ok)
                               ELSE UNCHANGED <<answers, inflight>>
      /\ UNCHANGED <<flags, abandoned, dispatched, log_ops, wmVars, proc, exec, outgoing,
                     next_call_id, floor, exits>>

HandleFuncCallCompleteMessage(c) == HandleFuncCallFinished(c, TRUE)
HandleFuncCallFailedMessage(c) == HandleFuncCallFinished(c, FALSE)

(* Shared log operations of a call.                                        *)

\* OnMessageFromFuncWorker: an operation of an unknown call is dropped, and
\* an engine that is not registered answers at once.
OnMessageFromFuncWorker(c) ==
  LET m == Head(from_worker[c])
  IN  /\ Received(c, "LOG_OP")
      /\ IF m.call \notin DOMAIN fn_call_ctx
         THEN UNCHANGED <<log_ops, pipeVars>>
         ELSE IF ~flags.registered
         THEN /\ WriteMessages(SendFuncWorkerMessage(c, NewSharedLogOpSucceeded(0)))
              /\ UNCHANGED log_ops
         ELSE /\ log_ops' = log_ops \cup {[call |-> m.call, cl |-> c,
                                           progress |-> fn_call_ctx[m.call],
                                           ended |-> FALSE]}
              /\ UNCHANGED pipeVars
      /\ UNCHANGED <<flags, abandoned, gwVars, dispatchers, func_call_infos, async_func_calls,
                     fn_call_ctx, wmVars, proc, exec, outgoing, next_call_id, floor,
                     ipcVars, fatal, exits>>

\* Seeded fault: the context keeps the progress of the operation's start.
StaleOpProgress(op, p) == fn_call_ctx

OpProgress(op, p) ==
  IF op.call \in DOMAIN fn_call_ctx /\ p > fn_call_ctx[op.call]
  THEN [fn_call_ctx EXCEPT ![op.call] = p] ELSE fn_call_ctx

\* FinishLocalOpWithResponse: the context is raised under its lock, and the
\* worker is told after that.
RaiseCtxProgress(op) ==
  /\ ~fatal
  /\ op \in log_ops /\ ~op.ended
  /\ \E p \in op.progress .. MaxProgress :
       /\ fn_call_ctx' = OpProgress(op, p)
       /\ log_ops' = (log_ops \ {op}) \cup {[op EXCEPT !.progress = p, !.ended = TRUE]}
  /\ UNCHANGED <<flags, abandoned, gwVars, dispatchers, func_call_infos, async_func_calls,
                 wmVars, pipeVars, procVars, ipcVars, fatal, exits>>

FinishLocalOpWithResponse(op) ==
  /\ ~fatal
  /\ op \in log_ops /\ op.ended
  /\ WriteMessages(SendFuncWorkerMessage(op.cl, NewSharedLogOpSucceeded(op.progress)))
  /\ log_ops' = log_ops \ {op}
  /\ UNCHANGED <<flags, abandoned, gwVars, dispatchers, func_call_infos, async_func_calls,
                 fn_call_ctx, wmVars, procVars, ipcVars, fatal, exits>>

-----------------------------------------------------------------------------
(* The worker libraries.  A worker has one call at a time; a Go handler    *)
(* blocks while it waits for a call or a log operation, an event-driven    *)
(* one may go on.                                                          *)

Up(c, lib) == proc[c] = "up" /\ flags.library[client_fn[c]] = lib

Running(x) ==
  [call |-> x, ops |-> 0, seen |-> 0, blocked |-> FALSE, kept |-> {}, output |-> "none"]

\* The handler of the call runs; later the worker writes its output.
Handling(c) == c \in DOMAIN exec /\ exec[c].output = "none"
Writing(c) == c \in DOMAIN exec /\ exec[c].output # "none"

\* Seeded fault: the worker goes on after it has reported the failure.
ReportAndStart(c, x) ==
  /\ from_worker' = IF x.big /\ <<"in", x>> \notin shm
       THEN [from_worker EXCEPT ![c] = Append(@, NewFuncCallFailed(x))]
       ELSE from_worker
  /\ exec' = (c :> Running(x)) @@ exec

\* A worker that gets a call starts it, or reports its failure when the
\* region of its input cannot be opened.
StartCall(c, x) ==
  IF x.big /\ <<"in", x>> \notin shm
  THEN /\ from_worker' = [from_worker EXCEPT ![c] = Append(@, NewFuncCallFailed(x))]
       /\ UNCHANGED exec
  ELSE /\ exec' = (c :> Running(x)) @@ exec
       /\ UNCHANGED from_worker


\* What a caller removes when a call it made returns; the input of an
\* asynchronous call belongs to the engine by then.
InputRemoved(x) == IF x.async THEN {} ELSE {<<"in", x>>, <<"out", x>>}

\* Messages the Run loop of a Go worker reads from its input FIFO.
GoRun(c) ==
  LET m == Head(to_worker[c])
  IN  /\ ~fatal
      /\ Up(c, "go") /\ to_worker[c] # <<>>
      /\ m.type = "DISPATCH" => c \notin DOMAIN exec
      /\ to_worker' = [to_worker EXCEPT ![c] = Tail(@)]
      /\ CASE m.type = "DISPATCH" ->
                /\ StartCall(c, m.call)
                /\ UNCHANGED <<outgoing, shm>>
           [] m.type = "LOG_OK" ->
                /\ exec' = IF c \notin DOMAIN exec THEN exec
                           ELSE [exec EXCEPT ![c].blocked = FALSE,
                                 ![c].seen = IF m.progress > @ THEN m.progress ELSE @]
                /\ UNCHANGED <<from_worker, outgoing, shm>>
           [] OTHER ->
                /\ m.call \in outgoing[c]
                /\ outgoing' = [outgoing EXCEPT ![c] = @ \ {m.call}]
                /\ shm' = shm \ InputRemoved(m.call)
                /\ UNCHANGED <<from_worker, exec>>
      /\ UNCHANGED <<flags, abandoned, gwVars, dispatchers, callVars, wmVars, conn, pending_messages,
                     proc, next_call_id, floor, fifo, fatal, exits>>

\* Messages an event-driven worker reads.
OnEnginePipeReadable(c) ==
  LET m == Head(to_worker[c])
  IN  /\ ~fatal
      /\ Up(c, "event") /\ to_worker[c] # <<>> /\ ~Writing(c)
      /\ to_worker' = [to_worker EXCEPT ![c] = Tail(@)]
      /\ IF m.type = "DISPATCH"
         THEN /\ StartCall(c, m.call)
              /\ UNCHANGED <<outgoing, shm>>
         ELSE /\ outgoing' = [outgoing EXCEPT ![c] = @ \ {m.call}]
              /\ shm' = shm \ InputRemoved(m.call)
              /\ UNCHANGED <<from_worker, exec>>
      /\ UNCHANGED <<flags, abandoned, gwVars, dispatchers, callVars, wmVars, conn, pending_messages,
                     proc, next_call_id, floor, fifo, fatal, exits>>

\* Messages a C++ worker reads: between calls MainServingLoop, during one
\* WaitInvokeFunc.  The outputs of the calls it made are kept until
\* ReclaimInvokeFuncResources.
CppReceive(c) ==
  LET m == Head(to_worker[c])
  IN  /\ ~fatal
      /\ Up(c, "cpp") /\ to_worker[c] # <<>> /\ ~Writing(c)
      /\ to_worker' = [to_worker EXCEPT ![c] = Tail(@)]
      /\ IF m.type = "DISPATCH"
         THEN /\ StartCall(c, m.call)
              /\ UNCHANGED <<outgoing, shm>>
         ELSE /\ outgoing' = [outgoing EXCEPT ![c] = @ \ {m.call}]
              /\ exec' = [exec EXCEPT ![c].kept = @ \cup {m.call}]
              /\ shm' = shm \ {<<"in", m.call>>}
              /\ UNCHANGED from_worker
      /\ UNCHANGED <<flags, abandoned, gwVars, dispatchers, callVars, wmVars, conn, pending_messages,
                     proc, next_call_id, floor, fifo, fatal, exits>>

\* All libraries: a new call of worker c, its region, its FIFO and the
\* INVOKE_FUNC message.
PrepareNewFuncCall(c, g, big, async) ==
  LET x == [cl |-> c, id |-> next_call_id[c], fn |-> g, big |-> big, async |-> async]
  IN  /\ next_call_id[c] < MaxNested
      /\ next_call_id' = [next_call_id EXCEPT ![c] = @ + 1]
      /\ shm' = IF big THEN shm \cup {<<"in", x>>} ELSE shm
      /\ fifo' = IF flags.fifo THEN (x :> <<>>) @@ fifo ELSE fifo
      /\ outgoing' = [outgoing EXCEPT ![c] = @ \cup {x}]
      /\ floor' = (x :> exec[c].seen) @@ floor
      /\ from_worker' = [from_worker EXCEPT ![c] =
           Append(@, NewInvokeFunc(x, exec[c].call))]
      /\ UNCHANGED <<flags, abandoned, gwVars, dispatchers, callVars, wmVars, pipeVars, proc, exec,
                     fatal, exits>>

NotWaiting(c) == Handling(c) /\ ~exec[c].blocked /\ outgoing[c] = {}

InvokeFunc(c, g, big) ==
  /\ ~fatal
  /\ Up(c, "go") /\ NotWaiting(c) /\ g \in Nests[client_fn[c]]
  /\ PrepareNewFuncCall(c, g, big, FALSE)

CppInvokeFunc(c, g, big) ==
  /\ ~fatal
  /\ Up(c, "cpp") /\ NotWaiting(c) /\ g \in Nests[client_fn[c]]
  /\ PrepareNewFuncCall(c, g, big, FALSE)

\* Not with FIFOs: the worker ends with a fatal error.
InvokeFuncAsync(c, g, big) ==
  /\ ~fatal
  /\ Up(c, "go") /\ NotWaiting(c) /\ g \in Nests[client_fn[c]] /\ ~flags.fifo
  /\ PrepareNewFuncCall(c, g, big, TRUE)

NewOutgoingFuncCall(c, g, big) ==
  /\ ~fatal
  /\ Up(c, "event") /\ Handling(c) /\ g \in Nests[client_fn[c]]
  /\ PrepareNewFuncCall(c, g, big, FALSE)

\* The caller finds the outcome of its call in the FIFO it made for it.
ReadFifo(c, x) ==
  /\ x \in outgoing[c] /\ x \in DOMAIN fifo /\ fifo[x] # <<>>
  /\ outgoing' = [outgoing EXCEPT ![c] = @ \ {x}]
  /\ fifo' = Without(fifo, {x})
  /\ shm' = shm \ InputRemoved(x)
  /\ UNCHANGED <<flags, abandoned, gwVars, dispatchers, callVars, wmVars, pipeVars, from_worker,
                 proc, exec, next_call_id, floor, fatal, exits>>

GoReadFifo(c, x) == ~fatal /\ Up(c, "go") /\ ReadFifo(c, x)

\* FifoWaitInvokeFunc of a C++ worker: the outcome, or the timeout of the
\* poll, which may be over when the outcome comes.  Its FIFO and its input
\* region are gone on return either way.
FifoWaitInvokeFunc(c, x) ==
  /\ ~fatal
  /\ Up(c, "cpp") /\ x \in outgoing[c] /\ x \in DOMAIN fifo
  /\ outgoing' = [outgoing EXCEPT ![c] = @ \ {x}]
  /\ \/ /\ fifo[x] # <<>>
        /\ exec' = [exec EXCEPT ![c].kept = @ \cup {x}]
        /\ UNCHANGED abandoned
     \/ /\ abandoned' = abandoned \cup (shm \cap {<<"out", x>>})
        /\ UNCHANGED exec
  /\ fifo' = Without(fifo, {x})
  /\ shm' = shm \ {<<"in", x>>}
  /\ UNCHANGED <<flags, gwVars, dispatchers, callVars, wmVars, pipeVars, from_worker,
                 proc, next_call_id, floor, fatal, exits>>

OnOutputPipeReadable(c, x) == ~fatal /\ Up(c, "event") /\ ~Writing(c) /\ ReadFifo(c, x)

\* ReclaimInvokeFuncResources.
Reclaimed(c) == shm \ {<<"out", x>> : x \in exec[c].kept}

OutputRegion(x, ok) == IF ok /\ x.big THEN {<<"out", x>>} ELSE {}

Answer(c, ok) ==
  /\ from_worker' = [from_worker EXCEPT ![c] =
       Append(@, IF ok THEN NewFuncCallComplete(exec[c].call)
                 ELSE NewFuncCallFailed(exec[c].call))]
  /\ exec' = Without(exec, {c})

\* The answer of a worker when FIFOs are used: for a call of another worker
\* the FIFO is opened, and a large output put in a region, before the FIFO is
\* written; without the FIFO the engine is told of a failure at once.
FifoFuncCallFinished(c, ok) ==
  LET x == exec[c].call
  IN  /\ IF x.cl = 0
         THEN Answer(c, ok) /\ shm' = Reclaimed(c) \cup OutputRegion(x, ok)
         ELSE IF x \in DOMAIN fifo
         THEN /\ exec' = [exec EXCEPT ![c].output = IF ok THEN "COMPLETE" ELSE "FAILED",
                                      ![c].kept = {}]
              /\ shm' = Reclaimed(c) \cup OutputRegion(x, ok)
              /\ UNCHANGED from_worker
         ELSE Answer(c, FALSE) /\ shm' = Reclaimed(c)
      /\ UNCHANGED fifo

\* The write to the FIFO that was opened, and the answer to the engine.  When
\* the caller is gone meanwhile the write fails; a C++ process does not
\* ignore the signal this raises and ends.
WriteOutputToFifo(c) ==
  LET x == exec[c].call
      read == x \in DOMAIN fifo
  IN  /\ ~fatal
      /\ proc[c] = "up" /\ Writing(c)
      /\ fifo' = IF read THEN [fifo EXCEPT ![x] = Append(@, exec[c].output)] ELSE fifo
      /\ IF read \/ ~Up(c, "cpp")
         THEN Answer(c, read /\ exec[c].output = "COMPLETE") /\ UNCHANGED proc
         ELSE /\ proc' = [proc EXCEPT ![c] = "dead"]
              /\ exec' = Without(exec, {c})
              /\ UNCHANGED from_worker
      /\ UNCHANGED <<flags, abandoned, gwVars, dispatchers, callVars, wmVars, pipeVars,
                     outgoing, next_call_id, floor, shm, fatal, exits>>

FuncCallFinished(c, ok) ==
  /\ Answer(c, ok)
  /\ shm' = Reclaimed(c) \cup OutputRegion(exec[c].call, ok)
  /\ UNCHANGED fifo

CallFinished(c, ok) ==
  /\ IF flags.fifo THEN FifoFuncCallFinished(c, ok) ELSE FuncCallFinished(c, ok)
  /\ UNCHANGED <<flags, abandoned, gwVars, dispatchers, callVars, wmVars, pipeVars, proc,
                 outgoing, next_call_id, floor, fatal, exits>>

GoExecuteFuncEnds(c, ok) == ~fatal /\ Up(c, "go") /\ NotWaiting(c) /\ CallFinished(c, ok)

CppExecuteFuncEnds(c, ok) == ~fatal /\ Up(c, "cpp") /\ NotWaiting(c) /\ CallFinished(c, ok)

\* The handler may end with calls of its own still under way.
OnFuncExecutionFinished(c, ok) ==
  ~fatal /\ Up(c, "event") /\ Handling(c) /\ CallFinished(c, ok)

\* SharedLogAppend, the reads and SharedLogSetAuxData of a Go worker.
SharedLogOp(c) ==
  /\ ~fatal
  /\ Up(c, "go") /\ NotWaiting(c) /\ exec[c].ops < MaxLogOps
  /\ from_worker' = [from_worker EXCEPT ![c] =
       Append(@, NewSharedLogOp(exec[c].call))]
  /\ exec' = [exec EXCEPT ![c].ops = @ + 1, ![c].blocked = TRUE]
  /\ UNCHANGED <<flags, abandoned, gwVars, dispatchers, callVars, wmVars, pipeVars, proc, outgoing,
                 next_call_id, floor, ipcVars, fatal, exits>>

-----------------------------------------------------------------------------
LauncherStep(f) ==
  \/ OnLauncherConnected(f)
  \/ LauncherOnRecvMessage(f)
  \/ \E c \in Clients : OnFuncProcessExit(f, c)

EngineStep(c) ==
  \/ RecvHandshakeMessage(c) \/ HandshakeDone(c) \/ OnLocalIpcConnClosed(c)
  \/ HandleInvokeFuncMessage(c)
  \/ HandleFuncCallCompleteMessage(c) \/ HandleFuncCallFailedMessage(c)
  \/ OnMessageFromFuncWorker(c)

WorkerStep(c) ==
  \/ GoRun(c) \/ CppReceive(c) \/ OnEnginePipeReadable(c) \/ SharedLogOp(c)
  \/ \E g \in Funcs, big \in BOOLEAN :
       \/ InvokeFunc(c, g, big) \/ InvokeFuncAsync(c, g, big)
       \/ CppInvokeFunc(c, g, big) \/ NewOutgoingFuncCall(c, g, big)
  \/ \E x \in outgoing[c] :
       GoReadFifo(c, x) \/ FifoWaitInvokeFunc(c, x) \/ OnOutputPipeReadable(c, x)
  \/ \E ok \in BOOLEAN :
       \/ GoExecuteFuncEnds(c, ok) \/ CppExecuteFuncEnds(c, ok)
       \/ OnFuncExecutionFinished(c, ok)
  \/ WriteOutputToFifo(c)

Next ==
  \/ \E x \in ExtCalls : OnExternalFuncCall(x) \/ ExternalFuncCallRefused(x)
  \/ \E op \in log_ops : RaiseCtxProgress(op) \/ FinishLocalOpWithResponse(op)
  \/ \E f \in Funcs : LauncherStep(f)
  \/ \E c \in DOMAIN client_fn : EngineStep(c) \/ WorkerStep(c)

Spec == Init /\ [][Next]_vars

-----------------------------------------------------------------------------
(* Properties.                                                             *)

Queued(x) == \E i \in DOMAIN dispatchers[x.fn].pending : dispatchers[x.fn].pending[i] = x
Assigned(x) == x \in DOMAIN dispatchers[x.fn].assigned
Holds(q, types, x) == \E i \in DOMAIN q : q[i].type \in types /\ q[i].call = x
CallsOf(q, types) == {q[i].call : i \in {j \in DOMAIN q : q[j].type \in types}}

Service == INSTANCE EngineService WITH
  Calls <- ExtCalls,
  taken <- {x \in ExtCalls : Queued(x) \/ Assigned(x)},
  answered <- [x \in ExtCalls |-> Len(answers[x])]

\* The engine keeps the promise of EngineService: through pending queues,
\* worker assignments, exits and discards a call of the gateway is never
\* dropped, never in two places and never answered twice.
EngineImplementsService == Service!Spec

\* Calls wait only while a worker of their function runs, whose end hands it
\* the next one, or while no worker is connected, when the next one to
\* connect takes it: OnNewFuncCall never looks at the queue again.  Where
\* the configuration sets no minimum of workers the limit may come out as 0,
\* and only the calls that came then wait beside idle workers.
QueuedCallsMove ==
  \A f \in Funcs :
    LET d == dispatchers[f]
    IN  d.pending # <<>> /\ d.workers # {} =>
          \/ DOMAIN d.running # {}
          \/ min_workers_(f) = 0 /\ \A i \in DOMAIN d.pending : d.pending[i] \in d.zero

\* The engine dies (a FATAL of the dispatcher or of EngineBase) only when a
\* worker ended during a call: late, discarded, timed out and asynchronous
\* calls never make it meet a call it does not know.
FatalNeedsDeadWorker ==
  fatal => \E c \in DOMAIN client_fn :
             proc[c] = "dead" /\ c \in DOMAIN dispatchers[client_fn[c]].running

\* A call is never left in a queue that nobody looks at, nor by an engine that
\* dies although its workers live.
NoStrandedCall == QueuedCallsMove /\ FatalNeedsDeadWorker

\* A nested call works on a log at least as new as the one its caller had
\* seen when it made the call: the context is raised before the caller is
\* told of its log operation, and copied before the caller can end.
ChildSeesParent ==
  \A x \in DOMAIN floor : x \in DOMAIN fn_call_ctx => fn_call_ctx[x] >= floor[x]

=============================================================================
