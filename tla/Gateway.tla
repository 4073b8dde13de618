------------------------------ MODULE Gateway ------------------------------
(***************************************************************************)
(* The gateway: HTTP and gRPC connections, Server's tables of pending,     *)
(* running and discarded calls, NodeManager and the egress hubs to the     *)
(* engines.  IO workers run in parallel; a worker runs one handler at a    *)
(* time, and a handler is cut into steps at every point where it takes     *)
(* mu_ or the lock of NodeManager, hands a message to an engine, or hands  *)
(* a result to another worker.  A function scheduled on the worker that    *)
(* schedules it runs at once (IOWorker::ScheduleFunction).                 *)
(*                                                                         *)
(* The engines behave as EngineService says, and may crash and restart.    *)
(* A gRPC stream is named by the call it carries.  A request for an        *)
(* unknown function, or one that does not parse, is answered on the spot   *)
(* and touches nothing shared: it is left out.  A client sends its next    *)
(* HTTP request when it has the response to the last one.                  *)
(***************************************************************************)
EXTENDS Integers, Sequences, FiniteSets, FiniteSetsExt

CONSTANTS
  HttpConns, GrpcConns,  \* client connections
  Nodes,                 \* engine nodes
  Workers,               \* IO workers
  ConnWorker,            \* the worker of a client connection
  NodeWorker,            \* the worker of an engine's ingress connection
  MaxRunningRequests,    \* FLAGS_max_running_requests; 0: no limit
  Budgets,               \* bounds: function calls and faults; a fault is a closed
                         \* stream or connection, a request with a bad tail, or
                         \* an engine that crashes or is scaled in
  MaxContexts,           \* bound: objects in the pool of a gRPC connection
  MaxStarts              \* bound: starts of one engine

Conns == HttpConns \cup GrpcConns
Calls == 1 .. Max({b.calls : b \in Budgets})
NoConn == "no connection"     \* connection_id of an asynchronous call
NoNode == "no node"

\* FuncCallContext objects: the member of an HTTP connection, the pool of a
\* gRPC connection.
GrpcContexts == GrpcConns \X (1 .. MaxContexts)
HttpContext(c) == <<c, 0>>
Contexts == {HttpContext(c) : c \in HttpConns} \cup GrpcContexts
ConnOf(k) == k[1]

\* A pool makes a new object when none is free, so the contexts never run out:
\* there are as many as calls.  The type is part of the id of a connection, and
\* no connection has the id -1 that marks an asynchronous call.
ASSUME GatewayAssumption ==
  /\ ConnWorker \in [Conns -> Workers] /\ NodeWorker \in [Nodes -> Workers]
  /\ {MaxRunningRequests, MaxContexts, MaxStarts} \subseteq Nat
  /\ Budgets \subseteq [calls : 1 .. MaxContexts, faults : Nat]
  /\ HttpConns \cap GrpcConns = {} /\ NoConn \notin Conns

VARIABLES
  \* connections
  conn_state,            \* state_ of a connection
  recv,                  \* keep_recv_data_ of an HTTP connection
  context,               \* what a FuncCallContext holds
  free,                  \* func_call_contexts_ of the gRPC connections
  grpc_calls,            \* grpc_calls_: stream -> context
  responses,             \* responses[x]: what was sent to the client of call x
  \* Server
  next_call_id,          \* next_call_id_
  state,                 \* FuncCallState of a call: its connection and context
  pending_func_calls, running_func_calls, discarded_func_calls,
  connections,           \* connections_
  registering,           \* the connection that Server's thread is about to enter there
  async_results,         \* results pushed to async_call_results_
  \* NodeManager
  connected_nodes, connected_node_list, max_running_requests,
  running_requests, inflight_requests,
  \* IO workers
  task,                  \* the handler a worker is in
  scheduled,             \* OnFuncCallFinishedInternal scheduled: <<connection, stream>>
  tries,                 \* TryDispatchingPendingFuncCalls scheduled on a worker
  hubs,                  \* egress hub of a worker to a node: the start it is for
  \* engines and the node watcher
  node_addr,             \* node_addr_
  starts, alive,         \* how often a node started, and if it runs
  dispatched, taken, answered,   \* EngineService
  \* history
  lost,                  \* <<node, call>> that died with an engine or its hub
  handled,               \* <<node, call>> whose answer was received
  overtaken,             \* calls answered before they were entered as running
  dropped,               \* calls given up: asynchronous ones from the queue that could
                         \* not be sent, and calls of a connection not yet entered
  wild,                  \* a node that was scaled in has been picked
  budget                 \* calls and faults that may still happen

connVars == <<conn_state, recv, context, free, grpc_calls, responses>>
callVars == <<next_call_id, state, pending_func_calls, running_func_calls,
              discarded_func_calls, connections, registering, async_results>>
nodeVars == <<connected_nodes, connected_node_list, max_running_requests,
              running_requests, inflight_requests>>
workVars == <<task, scheduled, tries, hubs>>
engineVars == <<node_addr, starts, alive, dispatched, taken, answered>>
histVars == <<lost, handled, overtaken, dropped, wild, budget>>
vars == <<connVars, callVars, nodeVars, workVars, engineVars, histVars>>

Engine == INSTANCE EngineService WITH Calls <- Nodes \X Calls

Idle == [pc |-> "idle"]
Created == [call |-> 0, stream |-> 0, async |-> FALSE, status |-> "created", out |-> <<>>]
Fault == budget.faults > 0 /\ budget' = [budget EXCEPT !.faults = @ - 1]
Listed(s) == {s[i] : i \in DOMAIN s}
Put(f, x, v) == [y \in DOMAIN f \cup {x} |-> IF y = x THEN v ELSE f[y]]

Init ==
  /\ conn_state = [c \in Conns |-> "created"]
  /\ recv = [c \in HttpConns |-> FALSE]
  /\ context = [k \in Contexts |-> Created]
  /\ free = GrpcContexts
  /\ grpc_calls = <<>>
  /\ responses = [x \in Calls |-> <<>>]
  /\ next_call_id = 1
  /\ state = <<>>
  /\ pending_func_calls = <<>> /\ running_func_calls = {} /\ discarded_func_calls = {}
  /\ connections = {} /\ registering = {} /\ async_results = {}
  /\ connected_nodes = {} /\ connected_node_list = {} /\ max_running_requests = 0
  /\ running_requests = {} /\ inflight_requests = [n \in Nodes |-> 0]
  /\ task = [w \in Workers |-> Idle]
  /\ scheduled = {} /\ tries = [w \in Workers |-> 0]
  /\ hubs = [w \in Workers |-> [n \in Nodes |-> 0]]
  /\ node_addr = {} /\ starts = [n \in Nodes |-> 0] /\ alive = {}
  /\ dispatched = {} /\ taken = {} /\ answered = [p \in Nodes \X Calls |-> 0]
  /\ lost = {} /\ handled = {} /\ overtaken = {} /\ dropped = {}
  /\ wild = FALSE /\ budget \in Budgets

-----------------------------------------------------------------------------
(* NodeManager, under its own lock. *)

\* The node is any of the list: round robin, least load and random choice
\* differ in which one.  A node that was scaled in is still in the list, its
\* object freed: the id read from it is arbitrary.
CanPick == /\ connected_node_list # {}
           /\ ~ (max_running_requests > 0
                   /\ Cardinality(running_requests) > max_running_requests)

PickNodeForNewFuncCall(x, n) ==
  /\ CanPick
  /\ \E m \in connected_node_list :
       /\ n \in IF m \in connected_nodes THEN {m} ELSE Nodes \cup {NoNode}
       /\ inflight_requests' = IF m \in connected_nodes
                                 THEN [inflight_requests EXCEPT ![m] = @ + 1]
                                 ELSE inflight_requests
       /\ wild' = (wild \/ m \notin connected_nodes)
  /\ running_requests' = running_requests \cup {x}
  /\ UNCHANGED <<connected_nodes, connected_node_list, max_running_requests>>

\* inflight_requests is a size_t; -1 stands for the value zero wraps to when
\* an answer of the previous start of a node arrives.
FuncCallFinished(x, n) ==
  /\ running_requests' = running_requests \ {x}
  /\ inflight_requests' =
       IF x \in running_requests /\ n \in connected_nodes
         THEN [inflight_requests EXCEPT ![n] = @ - 1] ELSE inflight_requests
  /\ UNCHANGED <<connected_nodes, connected_node_list, max_running_requests>>

OnNodeOnline(n) ==
  /\ connected_nodes' = connected_nodes \cup {n}
  /\ connected_node_list' = connected_node_list \cup {n}
  /\ max_running_requests' = MaxRunningRequests * Cardinality(connected_nodes')
  /\ inflight_requests' = [inflight_requests EXCEPT ![n] = 0]
  /\ UNCHANGED running_requests

OnNodeOffline(n) ==
  /\ connected_nodes' = connected_nodes \ {n}
  /\ connected_node_list' = connected_nodes'
  /\ max_running_requests' = MaxRunningRequests * Cardinality(connected_nodes')
  /\ UNCHANGED <<running_requests, inflight_requests>>

OnEngineNodeOnline == \E w \in Workers : tries' = [tries EXCEPT ![w] = @ + 1]

\* An engine starts.  The node watcher enters its address; then NodeManager
\* and Server learn of it.
OnZNodeCreated(n) ==
  /\ n \notin alive \cup node_addr /\ starts[n] < MaxStarts
  /\ alive' = alive \cup {n} /\ starts' = [starts EXCEPT ![n] = @ + 1]
  /\ node_addr' = node_addr \cup {n}
  /\ OnNodeOnline(n) /\ OnEngineNodeOnline
  /\ UNCHANGED <<connVars, callVars, task, scheduled, hubs, dispatched, taken, answered,
                 histVars>>

\* The session of a crashed engine ends.  Its hubs are closed by HubDown.
OnZNodeDeleted(n) ==
  /\ n \notin alive /\ n \in node_addr
  /\ node_addr' = node_addr \ {n}
  /\ OnNodeOffline(n)
  /\ UNCHANGED <<connVars, callVars, workVars, starts, alive, dispatched, taken, answered,
                 histVars>>

OnNodeScaled(n) ==
  /\ n \in connected_nodes /\ Fault
  /\ connected_nodes' = connected_nodes \ {n}
  /\ UNCHANGED <<connVars, callVars, connected_node_list, max_running_requests,
                 running_requests, inflight_requests, workVars, engineVars,
                 lost, handled, overtaken, dropped, wild>>

-----------------------------------------------------------------------------
(* The end of a call at its connection. *)

Response(k) == [status |-> k.status, out |-> k.out]

\* Reading starts again when the response is written.
SendHttpResponse(c, x, r) ==
  /\ responses' = [responses EXCEPT ![x] = Append(@, r)]
  /\ recv' = [recv EXCEPT ![c] = TRUE]

\* HttpConnection::OnFuncCallFinishedInternal: the context is the member.
HttpFinished(c, cx) ==
  /\ LET k == cx[HttpContext(c)]
     IN IF conn_state[c] = "running"
          THEN SendHttpResponse(c, k.call, Response(k))
          ELSE UNCHANGED <<responses, recv>>
  /\ UNCHANGED <<free, grpc_calls>>

H2SendResponse(s, r) == responses' = [responses EXCEPT ![s] = Append(@, r)]

\* GrpcConnection::OnFuncCallFinishedInternal
GrpcFinished(s, cx) ==
  /\ IF s \in DOMAIN grpc_calls
       THEN LET k == grpc_calls[s]
            IN /\ H2SendResponse(s, Response(cx[k]))
               /\ free' = free \cup {k}
               /\ grpc_calls' = [t \in DOMAIN grpc_calls \ {s} |-> grpc_calls[t]]
       ELSE UNCHANGED <<responses, free, grpc_calls>>
  /\ UNCHANGED recv

FinishedInternal(c, s, cx) ==
  IF c \in HttpConns THEN HttpFinished(c, cx) ELSE GrpcFinished(s, cx)

\* Run by worker w for connection c: at once if it is the worker of c.
ScheduleFunction(w, c, s, cx) ==
  IF ConnWorker[c] = w
    THEN FinishedInternal(c, s, cx) /\ UNCHANGED scheduled
    ELSE /\ scheduled' = scheduled \cup {<<c, s>>}
         /\ UNCHANGED <<recv, free, grpc_calls, responses>>

\* Worker w hands over the call of context k; cx is what the contexts hold.
FinishFuncCall(w, k, cx) ==
  /\ context' = cx
  /\ ScheduleFunction(w, ConnOf(k), cx[k].stream, cx)

NotFinished == UNCHANGED <<context, recv, free, grpc_calls, responses, scheduled>>

\* A function whose connection is closed is not run.
InvokeFunction(c, s) ==
  IF conn_state[c] = "closed" THEN UNCHANGED <<recv, free, grpc_calls, responses>>
  ELSE FinishedInternal(c, s, context)

RunScheduledFunctions(w) ==
  /\ task[w] = Idle
  /\ \E f \in scheduled :
       /\ ConnWorker[f[1]] = w
       /\ scheduled' = scheduled \ {f}
       /\ InvokeFunction(f[1], f[2])
  /\ UNCHANGED <<conn_state, context, callVars, nodeVars, task, tries, hubs,
                 engineVars, histVars>>

-----------------------------------------------------------------------------
(* New calls. *)

\* bad: bytes after the request do not parse, and the connection is closed
\* when the handler is done.
Handler(pc, from, x, n, bad) ==
  [pc |-> pc, from |-> from, call |-> x, node |-> n, bad |-> bad]

\* The request is in; the context is reset and filled, the call numbered, and
\* a node picked.  st is the FuncCallState made of it.
OnNewFuncCall(w, c, k, st, async, bad) ==
  LET x == next_call_id
  IN /\ next_call_id' = x + 1
     /\ state' = Put(state, x, st)
     /\ context' = [context EXCEPT ![k] =
                      [Created EXCEPT !.call = x, !.async = async,
                                      !.stream = IF c \in HttpConns THEN 0 ELSE x]]
     /\ \/ \E n \in Nodes \cup {NoNode} :
             /\ PickNodeForNewFuncCall(x, n)
             /\ task' = [task EXCEPT ![w] = Handler("send", "new", x, n, bad)]
        \/ /\ ~CanPick
           /\ task' = [task EXCEPT ![w] = Handler("queue", "new", x, NoNode, bad)]
           /\ UNCHANGED <<nodeVars, wild>>

\* The connection has parsed a request; it stops reading.
HttpRequestIn(w, c) ==
  /\ task[w] = Idle /\ ConnWorker[c] = w
  /\ conn_state[c] = "running" /\ recv[c]
  /\ recv' = [recv EXCEPT ![c] = FALSE]

OnNewHttpRequest(w, c, async, bad) ==
  /\ HttpRequestIn(w, c) /\ next_call_id <= budget.calls
  /\ OnNewFuncCall(w, c, HttpContext(c),
                   [conn |-> IF async THEN NoConn ELSE c, ctx |-> HttpContext(c)], async, bad)
  /\ IF bad THEN Fault ELSE UNCHANGED budget
  /\ UNCHANGED <<conn_state, free, grpc_calls, responses, pending_func_calls,
                 running_func_calls, discarded_func_calls, connections, registering, async_results,
                 scheduled, tries, hubs, engineVars, lost, handled, overtaken, dropped>>

\* The frames of a request have made a stream whose headers and body are right.
H2RequestIn(w, c) == task[w] = Idle /\ ConnWorker[c] = w /\ conn_state[c] = "running"

\* SimpleObjectPool::Get: an object that was returned, or a new one.
GetContext(c) ==
  LET mine == {k \in free : k[1] = c}
  IN CHOOSE k \in mine : \A j \in mine : k[2] <= j[2]

OnNewGrpcCall(w, c) ==
  LET k == GetContext(c)
  IN /\ H2RequestIn(w, c) /\ next_call_id <= budget.calls
     /\ free' = free \ {k}
     /\ grpc_calls' = Put(grpc_calls, next_call_id, k)
     /\ OnNewFuncCall(w, c, k, [conn |-> c, ctx |-> k], FALSE, FALSE)
     /\ UNCHANGED <<conn_state, recv, responses, pending_func_calls,
                    running_func_calls, discarded_func_calls, connections, registering,
                    async_results, scheduled, tries, hubs, engineVars, lost, handled,
                    overtaken, dropped, budget>>

\* The end of OnNewFuncCallCommon, and of the OnRecvData that called it.
EndNew(w) ==
  LET t == task[w]
  IN /\ task' = [task EXCEPT ![w] = Idle]
     /\ conn_state' = IF t.bad THEN [conn_state EXCEPT ![ConnOf(state[t.call].ctx)] = "closing"]
                      ELSE conn_state

\* No node was picked: the call waits.  An asynchronous one is acknowledged.
QueueNew(w) ==
  LET t == task[w]
      k == state[t.call].ctx
  IN /\ t.pc = "queue"
     /\ pending_func_calls' = Append(pending_func_calls, t.call)
     /\ EndNew(w)
     /\ IF context[k].async
          THEN FinishFuncCall(w, k, [context EXCEPT ![k].status = "ok"])
          ELSE NotFinished
     /\ UNCHANGED <<next_call_id, state, running_func_calls, discarded_func_calls,
                    connections, registering, async_results, nodeVars, tries, hubs, engineVars, histVars>>

-----------------------------------------------------------------------------
(* Sending to an engine. *)

\* Without a hub, one is made if the node watcher has the address.
HasHub(w, n) == n \in Nodes /\ (hubs[w][n] > 0 \/ n \in node_addr)

\* EgressHub::SendMessage: the hub for start h of node n takes the message; it
\* arrives if that engine still runs.
HubSendMessage(h, n, x) ==
  IF n \in alive /\ h = starts[n]
    THEN dispatched' = dispatched \cup {<<n, x>>} /\ UNCHANGED lost
    ELSE lost' = lost \cup {<<n, x>>} /\ UNCHANGED dispatched

SendMessageToEngine(w, x, n) ==
  LET h == IF hubs[w][n] > 0 THEN hubs[w][n] ELSE starts[n]
  IN /\ hubs' = [hubs EXCEPT ![w][n] = h]
     /\ HubSendMessage(h, n, x)

\* DispatchFuncCall and DispatchAsyncFuncCall with the code around them.
Dispatched(w) ==
  LET t == task[w]
      k == state[t.call].ctx
  IN /\ t.pc = "send" /\ HasHub(w, t.node)
     /\ SendMessageToEngine(w, t.call, t.node)
     /\ task' = [task EXCEPT ![w].pc = "insert"]
     /\ IF t.from = "new" /\ state[t.call].conn = NoConn
          THEN FinishFuncCall(w, k, [context EXCEPT ![k].status = "ok"])
          ELSE NotFinished
     /\ UNCHANGED <<conn_state, callVars, nodeVars, tries, node_addr, starts, alive,
                    taken, answered, handled, overtaken, dropped, wild, budget>>

\* Seeded fault: a call that could not be sent stays in running_requests_.
NotDispatchedKeepingRequest(w) ==
  LET t == task[w]
      k == state[t.call].ctx
  IN /\ t.pc = "send" /\ ~HasHub(w, t.node)
     /\ UNCHANGED nodeVars
     /\ IF t.from = "new" THEN EndNew(w)
        ELSE task' = [task EXCEPT ![w].pc = "try"] /\ UNCHANGED conn_state
     /\ IF state[t.call].conn # NoConn \/ t.from = "new"
          THEN FinishFuncCall(w, k, [context EXCEPT ![k].status = "notfound"])
               /\ UNCHANGED dropped
          ELSE NotFinished /\ dropped' = dropped \cup {t.call}
     /\ UNCHANGED <<callVars, tries, hubs, engineVars, lost, handled, overtaken,
                    wild, budget>>

\* Sending failed: the client is told, except for an asynchronous call that
\* comes from the queue.
NotDispatched(w) ==
  LET t == task[w]
      k == state[t.call].ctx
  IN /\ t.pc = "send" /\ ~HasHub(w, t.node)
     /\ FuncCallFinished(t.call, t.node)
     /\ IF t.from = "new" THEN EndNew(w)
        ELSE task' = [task EXCEPT ![w].pc = "try"] /\ UNCHANGED conn_state
     /\ IF state[t.call].conn # NoConn \/ t.from = "new"
          THEN FinishFuncCall(w, k, [context EXCEPT ![k].status = "notfound"])
               /\ UNCHANGED dropped
          ELSE NotFinished /\ dropped' = dropped \cup {t.call}
     /\ UNCHANGED <<callVars, tries, hubs, engineVars, lost, handled, overtaken,
                    wild, budget>>

InsertNew(w) ==
  /\ task[w].pc = "insert" /\ task[w].from = "new"
  /\ running_func_calls' = running_func_calls \cup {task[w].call}
  /\ EndNew(w)
  /\ UNCHANGED <<recv, context, free, grpc_calls, responses, next_call_id, state,
                 pending_func_calls, discarded_func_calls, connections, registering, async_results,
                 nodeVars, scheduled, tries, hubs, engineVars, histVars>>

-----------------------------------------------------------------------------
(* TryDispatchingPendingFuncCalls *)

\* Calls the loop passes over while it holds mu_: discarded ones, and those
\* whose connection is gone.
Skips(x) == \/ x \in discarded_func_calls
            \/ state[x].conn # NoConn /\ state[x].conn \notin connections

\* A call of a connection that runs and that Server has not entered yet.
NotEntered(x) == x \notin discarded_func_calls /\ state[x].conn \in registering

\* One critical section: take the first call that is not passed over.
PopPending(w) ==
  LET P == pending_func_calls
      stay == {i \in DOMAIN P : ~Skips(P[i])}
      first == IF stay = {} THEN Len(P) + 1 ELSE Min(stay)
  IN /\ pending_func_calls' = SubSeq(P, first + 1, Len(P))
     /\ discarded_func_calls' =
          discarded_func_calls \ {P[i] : i \in 1 .. first - 1}
     /\ dropped' = dropped \cup {P[i] : i \in {j \in 1 .. first - 1 : NotEntered(P[j])}}
     /\ task' = [task EXCEPT ![w] =
                   IF stay = {} THEN Idle
                   ELSE Handler("pick", "try", P[first], NoNode, FALSE)]

\* The loop is entered after an answer, or as a scheduled function.
TryPop(w) ==
  /\ \/ task[w].pc = "try" /\ UNCHANGED tries
     \/ task[w] = Idle /\ tries[w] > 0 /\ tries' = [tries EXCEPT ![w] = @ - 1]
  /\ PopPending(w)
  /\ UNCHANGED <<connVars, next_call_id, state, running_func_calls, connections, registering,
                 async_results, nodeVars, scheduled, hubs, engineVars, lost, handled,
                 overtaken, wild, budget>>

TryPick(w) ==
  LET x == task[w].call
  IN /\ task[w].pc = "pick"
     /\ \/ \E n \in Nodes \cup {NoNode} :
             /\ PickNodeForNewFuncCall(x, n)
             /\ task' = [task EXCEPT ![w].pc = "send", ![w].node = n]
        \/ /\ ~CanPick
           /\ task' = [task EXCEPT ![w].pc = "back"]
           /\ UNCHANGED <<nodeVars, wild>>
     /\ UNCHANGED <<connVars, callVars, scheduled, tries, hubs, engineVars, lost,
                    handled, overtaken, dropped, budget>>

\* Seeded fault: the call for which no node was found is not put back.
TryBackForgets(w) ==
  /\ task[w].pc = "back"
  /\ task' = [task EXCEPT ![w] = Idle]
  /\ UNCHANGED <<connVars, callVars, nodeVars, scheduled, tries, hubs, engineVars, histVars>>

TryBack(w) ==
  /\ task[w].pc = "back"
  /\ pending_func_calls' = <<task[w].call>> \o pending_func_calls
  /\ task' = [task EXCEPT ![w] = Idle]
  /\ UNCHANGED <<connVars, next_call_id, state, running_func_calls,
                 discarded_func_calls, connections, registering, async_results, nodeVars,
                 scheduled, tries, hubs, engineVars, histVars>>

\* The call is entered as running and the next one taken under the same lock.
TryInsert(w) ==
  /\ task[w].pc = "insert" /\ task[w].from = "try"
  /\ running_func_calls' = running_func_calls \cup {task[w].call}
  /\ PopPending(w)
  /\ UNCHANGED <<connVars, next_call_id, state, connections, registering, async_results, nodeVars,
                 scheduled, tries, hubs, engineVars, lost, handled, overtaken, wild,
                 budget>>

-----------------------------------------------------------------------------
(* Answers: HandleFuncCallCompleteOrFailedMessage *)

InFlight == {p \in Nodes \X Calls : answered[p] > 0 /\ p \notin handled \cup lost}

OnRecvEngineMessage(w) ==
  /\ task[w] = Idle
  /\ \E p \in InFlight, ok \in BOOLEAN :
       /\ NodeWorker[p[1]] = w
       /\ handled' = handled \cup {p}
       /\ FuncCallFinished(p[2], p[1])
       /\ task' = [task EXCEPT ![w] = [pc |-> "answer", call |-> p[2], ok |-> ok]]
  /\ UNCHANGED <<connVars, callVars, scheduled, tries, hubs, engineVars,
                 lost, overtaken, dropped, wild, budget>>

\* The result of a discarded call, or of one whose connection is gone, is
\* dropped.
AnswerRunning(w) ==
  LET t == task[w]
      x == t.call
      st == state[x]
      async == st.conn = NoConn
      to == ~async /\ x \notin discarded_func_calls /\ st.conn \in connections
  IN /\ t.pc = "answer"
     /\ IF x \notin running_func_calls
          THEN /\ task' = [task EXCEPT ![w] = Idle]
               /\ overtaken' = overtaken \cup {x}
               /\ UNCHANGED <<running_func_calls, discarded_func_calls, async_results, dropped>>
          ELSE /\ running_func_calls' = running_func_calls \ {x}
               /\ discarded_func_calls' = discarded_func_calls \ {x}
               /\ async_results' = IF async THEN async_results \cup {x} ELSE async_results
               /\ dropped' = IF ~to /\ NotEntered(x) THEN dropped \cup {x} ELSE dropped
               /\ task' = [task EXCEPT ![w].pc = IF to THEN "finish" ELSE "try"]
               /\ UNCHANGED overtaken
     /\ UNCHANGED <<connVars, next_call_id, state, pending_func_calls, connections, registering,
                    nodeVars, scheduled, tries, hubs, engineVars, lost, handled,
                    wild, budget>>

\* The context is written outside the lock, through the pointer read under it.
AnswerFinish(w) ==
  LET t == task[w]
      k == state[t.call].ctx
      cx == IF t.ok THEN [context EXCEPT ![k].status = "ok", ![k].out = Append(@, t.call)]
            ELSE [context EXCEPT ![k].status = "failed"]
  IN /\ t.pc = "finish"
     /\ FinishFuncCall(w, k, cx)
     /\ task' = [task EXCEPT ![w].pc = "try"]
     /\ UNCHANGED <<conn_state, callVars, nodeVars, tries, hubs, engineVars, histVars>>

-----------------------------------------------------------------------------
(* Connections. *)

\* RegisterConnection hands the connection to its worker, which starts it.
Start(c) ==
  /\ conn_state' = [conn_state EXCEPT ![c] = "running"]
  /\ recv' = [x \in HttpConns |-> recv[x] \/ x = c]

\* OnNewHttpConnection and OnNewGrpcConnection, on Server's thread: the
\* connection is handed to its worker, ...
OnNewConnection(c) ==
  /\ conn_state[c] = "created" /\ registering = {}
  /\ Start(c)
  /\ registering' = {c}
  /\ UNCHANGED <<context, free, grpc_calls, responses, next_call_id, state,
                 pending_func_calls, running_func_calls, discarded_func_calls,
                 connections, async_results, nodeVars, workVars, engineVars, histVars>>

\* ... and entered, under mu_, after that.
EnterConnection(c) ==
  /\ registering = {c}
  /\ connections' = connections \cup {c}
  /\ registering' = {}
  /\ UNCHANGED <<connVars, next_call_id, state, pending_func_calls, running_func_calls,
                 discarded_func_calls, async_results, nodeVars, workVars, engineVars,
                 histVars>>

\* Seeded fault: the context of a closed stream goes back to the pool.
H2OnStreamCloseReturning(w, s) ==
  /\ task[w] = Idle /\ s \in DOMAIN grpc_calls /\ ConnWorker[state[s].conn] = w
  /\ Fault
  /\ free' = free \cup {grpc_calls[s]}
  /\ discarded_func_calls' = discarded_func_calls \cup {s}
  /\ grpc_calls' = [t \in DOMAIN grpc_calls \ {s} |-> grpc_calls[t]]
  /\ UNCHANGED <<conn_state, recv, context, responses, next_call_id, state,
                 pending_func_calls, running_func_calls, connections, registering, async_results,
                 nodeVars, workVars, engineVars, lost, handled, overtaken, dropped,
                 wild>>

\* The client resets the stream of a call that is not answered: the call is
\* discarded; its context is not returned to the pool.
H2OnStreamClose(w, s) ==
  /\ task[w] = Idle /\ s \in DOMAIN grpc_calls /\ ConnWorker[state[s].conn] = w
  /\ Fault
  /\ discarded_func_calls' = discarded_func_calls \cup {s}
  /\ grpc_calls' = [t \in DOMAIN grpc_calls \ {s} |-> grpc_calls[t]]
  /\ UNCHANGED <<conn_state, recv, context, free, responses, next_call_id, state,
                 pending_func_calls, running_func_calls, connections, registering, async_results,
                 nodeVars, workVars, engineVars, lost, handled, overtaken, dropped,
                 wild>>

\* The client closes the connection, or reading or writing fails.  An HTTP
\* connection sees that only while it reads.
HttpScheduleClose(w, c) ==
  /\ task[w] = Idle /\ ConnWorker[c] = w /\ conn_state[c] = "running" /\ recv[c]
  /\ Fault
  /\ conn_state' = [conn_state EXCEPT ![c] = "closing"]
  /\ UNCHANGED <<recv, context, free, grpc_calls, responses, callVars, nodeVars,
                 workVars, engineVars, lost, handled, overtaken, dropped, wild>>

\* A gRPC connection discards its calls.
GrpcScheduleClose(w, c) ==
  LET mine == {s \in DOMAIN grpc_calls : state[s].conn = c}
  IN /\ task[w] = Idle /\ ConnWorker[c] = w /\ conn_state[c] = "running"
     /\ Fault
     /\ conn_state' = [conn_state EXCEPT ![c] = "closing"]
     /\ discarded_func_calls' = discarded_func_calls \cup mine
     /\ grpc_calls' = [t \in DOMAIN grpc_calls \ mine |-> grpc_calls[t]]
     /\ UNCHANGED <<recv, context, free, responses, next_call_id, state,
                    pending_func_calls, running_func_calls, connections, registering, async_results,
                    nodeVars, workVars, engineVars, lost, handled, overtaken, dropped,
                    wild>>

\* The socket is closed: the worker gives the connection back ...
WorkerOnConnectionClose(c) ==
  /\ conn_state[c] = "closing"
  /\ conn_state' = [conn_state EXCEPT ![c] = "closed"]
  /\ UNCHANGED <<recv, context, free, grpc_calls, responses, callVars, nodeVars,
                 workVars, engineVars, histVars>>

\* ... and Server, on its own thread, forgets it.
OnConnectionClose(c) ==
  /\ conn_state[c] = "closed" /\ c \in connections /\ registering = {}
  /\ connections' = connections \ {c}
  /\ UNCHANGED <<connVars, next_call_id, state, pending_func_calls, running_func_calls,
                 discarded_func_calls, registering, async_results, nodeVars, workVars, engineVars,
                 histVars>>

-----------------------------------------------------------------------------
(* Engines. *)

EngineWorks ==
  /\ \E p \in Nodes \X Calls : Engine!Take(p) \/ Engine!Refuse(p) \/ Engine!Answer(p)
  /\ UNCHANGED <<connVars, callVars, nodeVars, workVars, node_addr, starts, alive, histVars>>

\* What the engine holds is lost, and any of its answers on their way.
EngineCrash(n) ==
  /\ n \in alive /\ Fault
  /\ alive' = alive \ {n}
  /\ dispatched' = {p \in dispatched : p[1] # n}
  /\ taken' = {p \in taken : p[1] # n}
  /\ \E L \in SUBSET {p \in InFlight : p[1] = n} :
       lost' = lost \cup L \cup {p \in dispatched \cup taken : p[1] = n}
  /\ UNCHANGED <<connVars, callVars, nodeVars, workVars, node_addr, starts, answered,
                 handled, overtaken, dropped, wild>>

\* The sockets of a hub are closed: the engine is gone, or went offline.
HubDown(w, n) ==
  /\ task[w] = Idle /\ hubs[w][n] > 0
  /\ n \notin alive \/ hubs[w][n] # starts[n]
  /\ hubs' = [hubs EXCEPT ![w][n] = 0]
  /\ UNCHANGED <<connVars, callVars, nodeVars, task, scheduled, tries, engineVars, histVars>>

Next ==
  \/ \E w \in Workers :
       \/ \E c \in HttpConns, async, bad \in BOOLEAN : OnNewHttpRequest(w, c, async, bad)
       \/ \E c \in GrpcConns : OnNewGrpcCall(w, c)
       \/ QueueNew(w) \/ Dispatched(w) \/ NotDispatched(w) \/ InsertNew(w)
       \/ TryPop(w) \/ TryPick(w) \/ TryBack(w) \/ TryInsert(w)
       \/ OnRecvEngineMessage(w) \/ AnswerRunning(w) \/ AnswerFinish(w)
       \/ RunScheduledFunctions(w)
       \/ \E s \in Calls : H2OnStreamClose(w, s)
       \/ \E c \in HttpConns : HttpScheduleClose(w, c)
       \/ \E c \in GrpcConns : GrpcScheduleClose(w, c)
       \/ \E n \in Nodes : HubDown(w, n)
  \/ \E c \in Conns : \/ OnNewConnection(c) \/ EnterConnection(c)
                      \/ WorkerOnConnectionClose(c) \/ OnConnectionClose(c)
  \/ \E n \in Nodes : OnZNodeCreated(n) \/ OnZNodeDeleted(n) \/ OnNodeScaled(n) \/ EngineCrash(n)
  \/ EngineWorks

Spec == Init /\ [][Next]_vars

-----------------------------------------------------------------------------
(* Properties. *)

Sync(x) == state[x].conn # NoConn

\* A client gets at most one response to a request, and it is the outcome of
\* that very call: the output of the call and nothing else when it completed,
\* no output when it failed or could not be sent.  Contexts are written by
\* the worker of an engine while the worker of the connection resets and
\* reuses them (server.cpp:326, grpc_connection.cpp:424, http_connection.cpp:291).
ResponseIsOfItsCall ==
  \A x \in DOMAIN state :
    /\ Len(responses[x]) <= 1
    /\ \A i \in DOMAIN responses[x] :
         LET r == responses[x][i]
         IN /\ r.status \in {"ok", "failed", "notfound"}
            /\ r.out = IF r.status = "ok" /\ Sync(x) THEN <<x>> ELSE <<>>

\* The client still waits for the outcome of call x.
Awaited(x) ==
  IF Sync(x) THEN /\ responses[x] = <<>>
                  /\ conn_state[state[x].conn] = "running"
                  /\ state[x].conn \in GrpcConns => x \in DOMAIN grpc_calls
  ELSE responses[x] # <<>> /\ responses[x][1].status = "ok" /\ x \notin async_results

InHand(x) == \E w \in Workers : task[w].pc \notin {"idle", "try", "answer"} /\ task[w].call = x
AtEngine(x) == \E n \in Nodes : <<n, x>> \in dispatched \cup taken \cup InFlight
Answering(x) == \E w \in Workers : task[w].pc = "answer" /\ task[w].call = x

\* No call is forgotten: a call that a client waits for is queued, in the
\* hands of a handler, or running with an answer to come, or its end is
\* scheduled.  Four ways to lose one are known: its engine crashed; its
\* answer was handled before the call was entered as running; it was taken
\* from the queue, or answered, before its connection was entered in
\* connections_; and, for an asynchronous call from the queue, sending failed.
NoCallForgotten ==
  \A x \in DOMAIN state :
    Awaited(x) =>
      \/ x \in Listed(pending_func_calls) \/ InHand(x)
      \/ x \in running_func_calls /\ (AtEngine(x) \/ Answering(x))
      \/ Sync(x) /\ <<state[x].conn, context[state[x].ctx].stream>> \in scheduled
      \/ x \in overtaken \cup dropped \/ \E n \in Nodes : <<n, x>> \in lost

\* Calls that hold a place at node n: sent there and not answered, or about
\* to be sent.
Holding(n) ==
  {x \in DOMAIN state :
     \/ <<n, x>> \in dispatched \cup taken \cup InFlight \cup lost
     \/ \E w \in Workers : task[w].pc = "send" /\ task[w].call = x /\ task[w].node = n}

\* The load that NodeManager compares with its limits is that of calls really
\* under way, whichever handler fails or finishes them: running_requests_ has
\* them all, and inflight_requests counts them per node.  Both keep the calls
\* of a crashed engine; the count of a node that came back does not match.
LoadIsReal ==
  /\ running_requests = UNION {Holding(n) : n \in Nodes \cup {NoNode}}
  /\ \A n \in connected_nodes :
       ~wild /\ starts[n] = 1 => inflight_requests[n] = Cardinality(Holding(n))
=============================================================================
