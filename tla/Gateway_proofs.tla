--------------------------- MODULE Gateway_proofs ---------------------------
(***************************************************************************)
(* Proofs about Gateway: what a client is told, that no call is forgotten, *)
(* and that NodeManager counts what is really under way.  The argument     *)
(* goes through these inductive invariants.                                *)
(*                                                                         *)
(* PlaceInv: a call is in one place at a time - queued, in the hands of    *)
(* one handler, or sent, to one node and once - and the answer of an       *)
(* engine is handled once.                                                 *)
(*                                                                         *)
(* PoolOK: the pool of a gRPC connection always has a context for the next *)
(* call.                                                                   *)
(*                                                                         *)
(* LoadOK, Load1, Load2: what NodeManager has is what is held by place.    *)
(*                                                                         *)
(* ContextInv: as long as the end of a call is still to come its context   *)
(* is its own, whatever happens to the connection.                         *)
(*                                                                         *)
(* ProgressInv: every call is somewhere, or has ended.                     *)
(***************************************************************************)
EXTENDS Gateway, FiniteSetTheorems, SequenceTheorems, WellFoundedInduction, TLAPS

\* The steps of a handler that has a call which is not sent.
Early == {"queue", "send", "pick", "back"}

Handlers ==
  [pc : Early \cup {"insert", "try"}, from : {"new", "try"}, call : Calls,
   node : Nodes \cup {NoNode}, bad : BOOLEAN]
AnswerHandlers == [pc : {"answer", "finish", "try"}, call : Calls, ok : BOOLEAN]

\* A FuncCallState: an HTTP connection has one context, a gRPC connection a
\* pool, and only HTTP calls are asynchronous.
CallOK(st) ==
  /\ DOMAIN st = {"conn", "ctx"}
  /\ \/ /\ ConnOf(st.ctx) \in HttpConns /\ st.ctx = HttpContext(ConnOf(st.ctx))
        /\ st.conn \in {NoConn, ConnOf(st.ctx)}
     \/ /\ ConnOf(st.ctx) \in GrpcConns /\ st.ctx \in GrpcContexts
        /\ st.conn = ConnOf(st.ctx)

CallsOK ==
  /\ budget \in [calls : 1 .. MaxContexts, faults : Nat]
  /\ \E b \in Budgets : b.calls = budget.calls
  /\ next_call_id \in 1 .. budget.calls + 1
  /\ DOMAIN state = 1 .. next_call_id - 1
  /\ \A x \in DOMAIN state : CallOK(state[x])

TasksOK ==
  /\ DOMAIN task = Workers
  /\ \A w \in Workers : \/ task[w] = Idle
                        \/ /\ task[w] \in Handlers \cup AnswerHandlers
                           /\ task[w].call \in 1 .. next_call_id - 1

PlacesOK ==
  /\ pending_func_calls \in Seq(1 .. next_call_id - 1)
  /\ running_func_calls \subseteq 1 .. next_call_id - 1
  /\ dispatched \subseteq Nodes \X (1 .. next_call_id - 1)
  /\ taken \subseteq Nodes \X (1 .. next_call_id - 1)
  /\ lost \subseteq Nodes \X (1 .. next_call_id - 1)
  /\ handled \subseteq Nodes \X (1 .. next_call_id - 1)
  /\ answered \in [Nodes \X Calls -> Nat]
  /\ \A n \in Nodes, x \in Calls : answered[<<n, x>>] > 0 => x \in 1 .. next_call_id - 1

Carries(w, x) == task[w].pc \in Early \cup {"insert"} /\ task[w].call = x
Reports(w, x) == task[w].pc \in {"answer", "finish"} /\ task[w].call = x

\* Call x was sent to node n.
Sent(n, x) ==
  \/ <<n, x>> \in dispatched \cup taken \cup lost \cup handled
  \/ answered[<<n, x>>] > 0

\* A call has one handler, and one place in the queue.
OnePlace ==
  /\ \A w, v \in Workers, x \in Calls : Carries(w, x) /\ Carries(v, x) => w = v
  /\ \A i, j \in DOMAIN pending_func_calls :
       pending_func_calls[i] = pending_func_calls[j] => i = j
  /\ \A w \in Workers, x \in Calls : Carries(w, x) =>
       x \notin Listed(pending_func_calls) /\ x \notin running_func_calls
  /\ \A x \in running_func_calls : x \notin Listed(pending_func_calls)

\* A call is sent once, to one node, when it is in no queue any more.
SentOnce ==
  /\ \A n \in Nodes, w \in Workers, x \in Calls :
       Carries(w, x) /\ task[w].pc \in Early => ~Sent(n, x)
  /\ \A n \in Nodes, x \in Listed(pending_func_calls) : ~Sent(n, x)
  /\ \A n, m \in Nodes, x \in Calls : Sent(n, x) /\ Sent(m, x) => n = m

\* An engine answers a call once, and the answer is handled once.
AnsweredOnce ==
  /\ \A n \in Nodes, x \in Calls :
       /\ <<n, x>> \in dispatched => <<n, x>> \notin taken
       /\ <<n, x>> \in dispatched \cup taken =>
            answered[<<n, x>>] = 0 /\ <<n, x>> \notin lost \cup handled
       /\ <<n, x>> \in handled => answered[<<n, x>>] > 0 /\ <<n, x>> \notin lost
  /\ \A w \in Workers, x \in Calls : Reports(w, x) => \E n \in Nodes : <<n, x>> \in handled
  /\ \A w, v \in Workers, x \in Calls : Reports(w, x) /\ Reports(v, x) => w = v

\* The pools of the gRPC connections: a connection has taken no more contexts
\* than there are calls.
PoolOK ==
  /\ free \subseteq GrpcContexts
  /\ \A c \in GrpcConns, i \in 1 .. MaxContexts : <<c, i>> \notin free => i < next_call_id
  /\ \A s \in DOMAIN grpc_calls : grpc_calls[s] \in GrpcContexts

PlaceInv == CallsOK /\ TasksOK /\ PlacesOK /\ OnePlace /\ SentOnce /\ AnsweredOnce

-----------------------------------------------------------------------------
\* What is known about nodes besides the load.
LoadOK ==
  /\ connected_nodes \subseteq Nodes /\ connected_node_list \subseteq Nodes
  /\ node_addr \subseteq Nodes
  /\ starts \in [Nodes -> Nat] /\ hubs \in [Workers -> [Nodes -> Nat]]
  /\ inflight_requests \in [Nodes -> Int]
  /\ \A n \in connected_nodes \cup connected_node_list \cup node_addr : starts[n] > 0
  /\ \A w \in Workers, n \in Nodes : hubs[w][n] > 0 => starts[n] > 0
  /\ \A n \in Nodes, x \in Calls : Sent(n, x) => starts[n] > 0
  /\ wild \in BOOLEAN
  /\ \A w \in Workers : task[w].pc = "send" /\ ~wild =>
       task[w].node \in Nodes /\ starts[task[w].node] > 0

-----------------------------------------------------------------------------
Outcomes == {"ok", "failed", "notfound"}
Fields == {"call", "stream", "async", "status", "out"}

\* The end of call x is still to come: its handler has not answered the
\* client, or the answer of an engine, with x in hand, may still arrive.
Open(x) ==
  \/ \E w \in Workers : Carries(w, x) /\ task[w].pc \in Early /\ (task[w].from = "new" \/ Sync(x))
  \/ /\ Sync(x)
     /\ \/ x \in Listed(pending_func_calls)
        \/ \E n \in Nodes : Sent(n, x) /\ <<n, x>> \notin handled
        \/ \E w \in Workers : Reports(w, x)

Stream(x) == IF ConnOf(state[x].ctx) \in HttpConns THEN 0 ELSE x

\* The context of call x belongs to it.
Owns(x) ==
  /\ context[state[x].ctx].call = x /\ context[state[x].ctx].stream = Stream(x)
  /\ ConnOf(state[x].ctx) \in HttpConns => ~recv[ConnOf(state[x].ctx)]
  /\ state[x].ctx \notin free
  /\ responses[x] = <<>>

\* What a finished context of call x holds.
OutcomeOf(x, k) ==
  /\ k.status \in Outcomes
  /\ k.out = IF k.status = "ok" /\ Sync(x) THEN <<x>> ELSE <<>>

ContextsOK ==
  /\ DOMAIN context = Contexts
  /\ \A k \in Contexts : DOMAIN context[k] = Fields
  /\ recv \in [HttpConns -> BOOLEAN]
  /\ conn_state \in [Conns -> {"created", "running", "closing", "closed"}]
  /\ DOMAIN responses = Calls
  /\ \A x \in Calls : x \notin DOMAIN state => responses[x] = <<>>
  /\ DOMAIN grpc_calls \subseteq DOMAIN state
  /\ \A x \in DOMAIN state : conn_state[ConnOf(state[x].ctx)] # "created"

\* A handler that queues a call has just read it, and one that hands over an
\* answer does so for a client that waits.
HandlersOK ==
  \A w \in Workers : /\ task[w].pc = "queue" => task[w].from = "new"
                     /\ task[w].pc = "finish" => Sync(task[w].call)

\* A stream that is open has its context.
StreamsOK ==
  \A s \in DOMAIN grpc_calls :
    /\ state[s].ctx \in GrpcContexts /\ grpc_calls[s] = state[s].ctx /\ Owns(s)

\* Until the end of a call its context is not written.
OpenOK ==
  \A x \in DOMAIN state : Open(x) =>
    /\ Owns(x)
    /\ context[state[x].ctx].out = <<>>
    /\ context[state[x].ctx].async <=> ~Sync(x)
    /\ <<ConnOf(state[x].ctx), Stream(x)>> \notin scheduled

\* The end of a call that is scheduled.
ScheduledOK ==
  \A f \in scheduled :
    \E x \in DOMAIN state :
      /\ f = <<ConnOf(state[x].ctx), Stream(x)>>
      /\ Owns(x) /\ OutcomeOf(x, context[state[x].ctx])

\* A client that waits at an HTTP connection waits for its last request.
WaitingOK ==
  \A x \in DOMAIN state :
    ConnOf(state[x].ctx) \in HttpConns /\ responses[x] = <<>> => Owns(x)

ContextInv ==
  /\ ContextsOK /\ HandlersOK /\ StreamsOK /\ OpenOK /\ ScheduledOK /\ WaitingOK
  /\ ResponseIsOfItsCall

-----------------------------------------------------------------------------
\* Call x has been with an engine.
Reached(x) == \/ AtEngine(x) \/ Answering(x)
              \/ x \in overtaken \/ \E n \in Nodes : <<n, x>> \in lost

\* Where a call that is not finished may be.
Somewhere(x) ==
  \/ x \in Listed(pending_func_calls) \/ InHand(x)
  \/ x \in running_func_calls /\ Reached(x)
  \/ x \in overtaken \cup dropped \/ \E n \in Nodes : <<n, x>> \in lost

\* The client of an asynchronous call was told, or will be, that it failed.
NotFound(x) ==
  IF responses[x] = <<>> THEN context[state[x].ctx].status = "notfound"
  ELSE responses[x][1].status = "notfound"

\* The end of call x is scheduled, or nobody waits for it any more.
Due(x) == <<ConnOf(state[x].ctx), Stream(x)>> \in scheduled
Ended(x) == IF Sync(x) THEN Due(x) \/ ~Awaited(x) ELSE x \in async_results \/ NotFound(x)

\* A call that is being entered as running has been with an engine.
InsertOK == \A w \in Workers : task[w].pc = "insert" => Reached(task[w].call)

\* Server knows the connections that run, or is about to enter them, and discards only calls that no
\* stream waits for.
ConnsOK ==
  /\ \A c \in Conns : conn_state[c] = "running" => c \in connections \cup registering
  /\ \A x \in discarded_func_calls :
       x \in DOMAIN state /\ Sync(x) /\ state[x].conn \in GrpcConns /\ x \notin DOMAIN grpc_calls

ProgressInv == InsertOK /\ ConnsOK /\ \A x \in DOMAIN state : Somewhere(x) \/ Ended(x)
-----------------------------------------------------------------------------
(* Numbers of calls. *)

\* A non-empty set of natural numbers has a least element.
LEMMA LeastNat ==
  ASSUME NEW S \in SUBSET Nat, S # {}
  PROVE  \E s \in S : \A x \in S : s <= x
<1> DEFINE R == {ss \in Nat \X Nat : ss[1] < ss[2]}
<1>1. IsWellFoundedOn(R, Nat)
  BY NatLessThanWellFounded DEF OpToRel
<1> HIDE DEF R
<1>2. PICK s \in S : \A x \in S : ~(<<x, s>> \in R)
  BY <1>1, WFMin
<1>3. \A x \in S : ~(x < s)
  BY <1>2 DEF R
<1> QED
  BY <1>3

\* The calls of every budget are numbers of calls.
LEMMA BudgetCalls ==
  ASSUME NEW b \in Budgets
  PROVE  Calls \subseteq Nat /\ 1 .. b.calls \subseteq Calls
<1> DEFINE S == {d.calls : d \in Budgets}
           T == {MaxContexts - s : s \in S}
<1>1. MaxContexts \in Nat /\ S \in SUBSET (1 .. MaxContexts) /\ b.calls \in S
  BY GatewayAssumption
<1>0. Calls = 1 .. Max(S)
  BY DEF Calls
<1> HIDE DEF S
<1>a. PICK B \in S : B = b.calls
  BY <1>1
<1>b. \A s \in S : s \in Nat /\ s <= MaxContexts
  BY <1>1
<1>2. T \in SUBSET Nat /\ T # {}
  <2>1. T # {}
    BY <1>a
  <2>2. \A t \in T : t \in Nat
    BY <1>1, <1>b
  <2> QED
    BY <2>1, <2>2
<1>3. PICK t \in T : \A x \in T : t <= x
  BY <1>2, LeastNat
<1>4. PICK m \in S : t = MaxContexts - m
  OBVIOUS
<1>5. \A s \in S : m >= s
  <2> SUFFICES ASSUME NEW s \in S PROVE m >= s
    OBVIOUS
  <2>1. MaxContexts - s \in T
    OBVIOUS
  <2>2. t <= MaxContexts - s
    BY <1>3, <2>1
  <2>3. MaxContexts \in Nat /\ s \in Nat /\ m \in Nat
    BY <1>1, <1>b
  <2> QED
    BY <1>4, <2>2, <2>3
<1>6. Max(S) \in S /\ \A s \in S : Max(S) >= s
  BY <1>5 DEF Max
<1>7. Max(S) \in Nat /\ B <= Max(S) /\ B \in Nat
  BY <1>b, <1>6
<1> HIDE DEF T
<1> QED
  BY <1>0, <1>7, <1>a

\* The calls so far, and the next one, are numbers of calls.
LEMMA KnownCalls ==
  ASSUME CallsOK
  PROVE  /\ next_call_id \in Nat \ {0} /\ budget.calls \in Nat /\ Calls \subseteq Nat
         /\ 1 .. next_call_id - 1 \subseteq Calls
         /\ next_call_id <= budget.calls => next_call_id \in Calls
         /\ next_call_id \notin 1 .. next_call_id - 1
<1>1. PICK b \in Budgets : b.calls = budget.calls
  BY DEF CallsOK
<1>2. budget.calls \in Nat /\ next_call_id \in 1 .. budget.calls + 1
  BY GatewayAssumption DEF CallsOK
<1>3. Calls \subseteq Nat /\ 1 .. budget.calls \subseteq Calls
  BY <1>1, BudgetCalls
<1> QED
  BY <1>2, <1>3

\* What a queue of elements of S lists is in S.
LEMMA ListedElements ==
  ASSUME NEW S, NEW s \in Seq(S)
  PROVE  Listed(s) \subseteq S
BY LenProperties, ElementOfSeq DEF Listed

\* An element put at either end of a queue is listed besides the others.
LEMMA ListedGrows ==
  ASSUME NEW S, NEW s \in Seq(S), NEW x \in S, NEW q, q = Append(s, x) \/ q = <<x>> \o s
  PROVE  Listed(q) = Listed(s) \cup {x}
<1>1. Len(s) \in Nat /\ DOMAIN s = 1 .. Len(s)
  BY LenProperties
<1>2. CASE q = Append(s, x)
  <2>1. /\ DOMAIN q = 1 .. Len(s) + 1 /\ q[Len(s) + 1] = x
        /\ \A i \in 1 .. Len(s) : q[i] = s[i]
    BY <1>1, <1>2
  <2>2. \A i \in 1 .. Len(s) + 1 : i \in 1 .. Len(s) \/ i = Len(s) + 1
    BY <1>1
  <2>3. 1 .. Len(s) \subseteq 1 .. Len(s) + 1 /\ Len(s) + 1 \in 1 .. Len(s) + 1
    BY <1>1
  <2> QED
    BY <1>1, <2>1, <2>2, <2>3, Zenon DEF Listed
<1>3. CASE q = <<x>> \o s
  <2>1. /\ DOMAIN q = 1 .. Len(s) + 1 /\ q[1] = x
        /\ \A i \in 1 .. Len(s) : q[i + 1] = s[i]
    BY <1>1, <1>3
  <2>2. \A i \in 1 .. Len(s) + 1 : i = 1 \/ \E j \in 1 .. Len(s) : i = j + 1
    <3>1. \A i \in 1 .. Len(s) + 1 : i # 1 => i - 1 \in 1 .. Len(s) /\ i = (i - 1) + 1
      BY <1>1
    <3> QED
      BY <3>1
  <2>3. 1 \in 1 .. Len(s) + 1 /\ \A j \in 1 .. Len(s) : j + 1 \in 1 .. Len(s) + 1
    BY <1>1
  <2>4. Listed(q) \subseteq Listed(s) \cup {x}
    <3>1. \A i \in 1 .. Len(s) + 1 : q[i] = x \/ \E j \in 1 .. Len(s) : q[i] = s[j]
      BY <2>1, <2>2
    <3>2. \A y \in Listed(q) : \E i \in 1 .. Len(s) + 1 : y = q[i]
      BY <2>1, Zenon DEF Listed
    <3>3. \A j \in 1 .. Len(s) : s[j] \in Listed(s)
      BY <1>1, Zenon DEF Listed
    <3> QED
      BY <3>1, <3>2, <3>3, ZenonT(60)
  <2>5. Listed(s) \cup {x} \subseteq Listed(q)
    BY <1>1, <2>1, <2>3, ZenonT(60) DEF Listed
  <2> QED
    BY <2>4, <2>5
<1> QED
  BY <1>2, <1>3

\* Only known calls are queued.
LEMMA ListedKnown ==
  ASSUME PlacesOK
  PROVE  Listed(pending_func_calls) \subseteq 1 .. next_call_id - 1
BY ListedElements DEF PlacesOK

\* What a handler is, by its step.
LEMMA TaskFacts ==
  ASSUME TasksOK, NEW w \in Workers
  PROVE  /\ task[w].pc \in Early \cup {"insert"} =>
              task[w] \in Handlers /\ task[w].call \in 1 .. next_call_id - 1
         /\ task[w].pc \in {"answer", "finish"} =>
              task[w] \in AnswerHandlers /\ task[w].call \in 1 .. next_call_id - 1
         /\ task[w] = Idle => task[w].pc = "idle"
         /\ task[w].pc = "idle" => task[w] = Idle
<1>1. Idle.pc = "idle"
  BY DEF Idle
<1>2. \A t \in Handlers : t.pc \in Early \cup {"insert", "try"}
  BY DEF Handlers
<1>3. \A t \in AnswerHandlers : t.pc \in {"answer", "finish", "try"}
  BY DEF AnswerHandlers
<1> QED
  BY <1>1, <1>2, <1>3 DEF TasksOK, Early

-----------------------------------------------------------------------------
(* Steps, by what they do to the places of calls. *)

rest == <<dispatched, taken, answered, lost, handled>>
BudgetStep ==
  /\ budget'.calls = budget.calls
  /\ budget' \in [calls : 1 .. MaxContexts, faults : Nat]

\* A step that takes a fault at most keeps the budget of calls.
LEMMA FaultBudget ==
  ASSUME CallsOK, UNCHANGED budget \/ Fault
  PROVE  BudgetStep
BY DEF CallsOK, Fault, BudgetStep

\* A step that makes no call keeps CallsOK.
LEMMA CallsSame ==
  ASSUME CallsOK, BudgetStep, UNCHANGED <<next_call_id, state>>
  PROVE  CallsOK'
BY DEF CallsOK, BudgetStep

\* A step that moves no call keeps PlaceInv.
LEMMA PlaceQuiet ==
  ASSUME PlaceInv, BudgetStep, UNCHANGED <<next_call_id, state, task, rest>>,
         UNCHANGED <<pending_func_calls, running_func_calls>>
  PROVE  PlaceInv'
<1>1. CallsOK'
  BY CallsSame DEF PlaceInv
<1> QED
  BY <1>1, ZenonT(60) DEF PlaceInv, TasksOK, PlacesOK, OnePlace, SentOnce, AnsweredOnce, Carries, Reports,
              Sent, rest

\* A new call, in the hands of the handler that read it.
LEMMA PlaceNew ==
  ASSUME PlaceInv, BudgetStep, NEW w \in Workers, NEW h \in Handlers, NEW st,
         task[w] = Idle, next_call_id <= budget.calls, CallOK(st),
         next_call_id' = next_call_id + 1, state' = Put(state, next_call_id, st),
         h.call = next_call_id, h.pc \in {"queue", "send"},
         task' = [task EXCEPT ![w] = h],
         UNCHANGED <<rest, pending_func_calls, running_func_calls>>
  PROVE  PlaceInv'
<1> DEFINE x == next_call_id
           Old == 1 .. next_call_id - 1
<1>1. /\ x \in Nat \ {0} /\ budget.calls \in Nat /\ Calls \subseteq Nat /\ Old \subseteq Calls
      /\ x \in Calls /\ x \notin Old /\ x' = x + 1
  BY KnownCalls DEF PlaceInv
<1>2. 1 .. next_call_id' - 1 = Old \cup {x}
  BY <1>1
<1>3. CallsOK'
  <2>1. budget' \in [calls : 1 .. MaxContexts, faults : Nat] /\ budget'.calls = budget.calls
    BY DEF BudgetStep
  <2>2. \E b \in Budgets : b.calls = budget'.calls
    BY <2>1 DEF PlaceInv, CallsOK
  <2>3. next_call_id' \in 1 .. budget'.calls + 1
    BY <1>1, <2>1
  <2>4. DOMAIN state' = 1 .. next_call_id' - 1
    BY <1>2 DEF PlaceInv, CallsOK, Put
  <2>5. \A y \in DOMAIN state' : CallOK(state'[y])
    BY DEF PlaceInv, CallsOK, Put
  <2> QED
    BY <2>1, <2>2, <2>3, <2>4, <2>5 DEF CallsOK, CallOK, HttpContext, ConnOf
<1>4. TasksOK'
  BY <1>2 DEF PlaceInv, TasksOK
<1>5. PlacesOK'
  <2>1. pending_func_calls \in Seq(Old \cup {x})
    <3>1. pending_func_calls \in Seq(Old)
      BY DEF PlaceInv, PlacesOK
    <3> HIDE DEF Old, x
    <3> QED
      BY <3>1, SeqMonotonic
  <2> QED
    BY <1>2, <2>1, ZenonT(60) DEF PlaceInv, PlacesOK, rest
<1> HIDE DEF x, Old
<1>6. \A n \in Nodes, y \in Calls : Sent(n, y)' = Sent(n, y)
  BY DEF Sent, rest
<1>7. \A n \in Nodes : ~Sent(n, x)
  BY <1>1, Zenon DEF PlaceInv, PlacesOK, Sent, x, Old
<1>8. x \notin Listed(pending_func_calls) /\ x \notin running_func_calls
  BY <1>1 DEF PlaceInv, PlacesOK, Listed, x, Old
<1>9. DOMAIN task = Workers /\ task[w].pc = "idle"
  BY TaskFacts DEF PlaceInv, TasksOK
<1>10. \A v \in Workers, y \in Calls : Carries(v, y) => y # x
  BY <1>1, TaskFacts DEF PlaceInv, Carries, x, Old
<1>11. \A v \in Workers, y \in Calls :
         /\ v # w => Carries(v, y)' = Carries(v, y) /\ Reports(v, y)' = Reports(v, y)
         /\ v # w => task'[v] = task[v]
         /\ Carries(w, y)' <=> y = x
         /\ ~Reports(w, y)'
         /\ task'[w].pc \in Early
  BY <1>9 DEF Carries, Reports, Early, x
<1>12. OnePlace'
  BY <1>8, <1>10, <1>11 DEF PlaceInv, OnePlace
<1>13. SentOnce'
  <2>1. \A n \in Nodes, v \in Workers, y \in Calls :
          Carries(v, y)' /\ task'[v].pc \in Early => ~Sent(n, y)
    BY <1>7, <1>11 DEF PlaceInv, SentOnce
  <2>2. Listed(pending_func_calls)' = Listed(pending_func_calls)
    OBVIOUS
  <2>3. \A y \in Listed(pending_func_calls) : y \in Calls
    BY <1>1, ListedKnown DEF PlaceInv, Old
  <2> QED
    BY <1>6, <2>1, <2>2, <2>3 DEF PlaceInv, SentOnce
<1>14. AnsweredOnce'
  BY <1>11 DEF PlaceInv, AnsweredOnce, rest
<1> QED
  BY <1>3, <1>4, <1>5, <1>12, <1>13, <1>14 DEF PlaceInv

\* A handler goes on with its call, without sending it, or lets it go.
LEMMA PlaceTask ==
  ASSUME PlaceInv, BudgetStep, NEW w \in Workers, NEW h \in {Idle} \cup Handlers \cup AnswerHandlers,
         UNCHANGED <<next_call_id, state, rest, pending_func_calls>>,
         running_func_calls' \subseteq running_func_calls,
         task' = [task EXCEPT ![w] = h],
         h # Idle => h.call = task[w].call /\ task[w] # Idle,
         h.pc \in Early \cup {"insert"} => h.pc \in Early /\ task[w].pc \in Early,
         h.pc \in {"answer", "finish"} => task[w].pc \in {"answer", "finish"}
  PROVE  PlaceInv'
<1>1. CallsOK'
  BY CallsSame DEF PlaceInv
<1>2. TasksOK'
  BY DEF PlaceInv, TasksOK
<1>3. PlacesOK'
  BY DEF PlaceInv, PlacesOK, rest
<1>4. DOMAIN task = Workers
  BY DEF PlaceInv, TasksOK
<1>5. Idle.pc = "idle"
  BY DEF Idle
<1>6. \A v \in Workers, y \in Calls :
        /\ Carries(v, y)' => Carries(v, y)
        /\ Carries(v, y)' /\ task'[v].pc \in Early => task[v].pc \in Early
        /\ Reports(v, y)' => Reports(v, y)
  BY <1>4, <1>5 DEF Carries, Reports, Early
<1>7. \A n \in Nodes, y \in Calls : Sent(n, y)' = Sent(n, y)
  BY DEF Sent, rest
<1>8. Listed(pending_func_calls)' = Listed(pending_func_calls)
  OBVIOUS
<1>9. \A y \in Listed(pending_func_calls) : y \in Calls
  BY ListedKnown, KnownCalls DEF PlaceInv
<1>10. OnePlace'
  BY <1>6, <1>8 DEF PlaceInv, OnePlace
<1>11. SentOnce'
  BY <1>6, <1>7, <1>8, <1>9 DEF PlaceInv, SentOnce
<1>12. AnsweredOnce'
  BY <1>6 DEF PlaceInv, AnsweredOnce, rest
<1> QED
  BY <1>1, <1>2, <1>3, <1>10, <1>11, <1>12 DEF PlaceInv

\* A queue that gets a new element, at one of its ends.
LEMMA QueueGrows ==
  ASSUME NEW S, NEW p \in Seq(S), NEW q \in Seq(S), NEW x \in S, NEW o \in {0, 1},
         \A i, j \in DOMAIN p : p[i] = p[j] => i = j, x \notin Listed(p),
         Len(q) = Len(p) + 1,
         q[IF o = 0 THEN Len(p) + 1 ELSE 1] = x,
         \A i \in 1 .. Len(p) : q[i + o] = p[i]
  PROVE  /\ Listed(q) = Listed(p) \cup {x}
         /\ \A i, j \in DOMAIN q : q[i] = q[j] => i = j
<1>1. Len(p) \in Nat /\ DOMAIN p = 1 .. Len(p) /\ DOMAIN q = 1 .. Len(p) + 1
  BY LenProperties
<1> DEFINE k == IF o = 0 THEN Len(p) + 1 ELSE 1
<1>2. k \in DOMAIN q /\ q[k] = x
  BY <1>1
<1>3. \A i \in DOMAIN q : i # k => i - o \in DOMAIN p /\ q[i] = p[i - o]
  BY <1>1
<1>4. \A i \in DOMAIN p : p[i] # x
  BY DEF Listed
<1>5. \A i \in DOMAIN p : i + o \in DOMAIN q /\ q[i + o] = p[i]
  BY <1>1
<1>6. Listed(p) \subseteq Listed(q) /\ x \in Listed(q)
  BY <1>2, <1>5 DEF Listed
<1>7. Listed(q) \subseteq Listed(p) \cup {x}
  BY <1>2, <1>3 DEF Listed
<1>8. ASSUME NEW i \in DOMAIN q, NEW j \in DOMAIN q, q[i] = q[j]
      PROVE  i = j
  <2>1. CASE i = k \/ j = k
    BY <1>2, <1>3, <1>4, <1>8, <2>1
  <2>2. CASE i # k /\ j # k
    <3>1. i - o = j - o
      BY <1>3, <1>8, <2>2
    <3> QED
      BY <1>1, <3>1
  <2> QED
    BY <2>1, <2>2
<1> QED
  BY <1>6, <1>7, <1>8

\* A handler puts its call into the queue.
LEMMA PlaceQueue ==
  ASSUME PlaceInv, BudgetStep, NEW w \in Workers, task[w].pc \in Early,
         UNCHANGED <<next_call_id, state, rest, running_func_calls>>,
         task' = [task EXCEPT ![w] = Idle],
         \/ pending_func_calls' = Append(pending_func_calls, task[w].call)
         \/ pending_func_calls' = <<task[w].call>> \o pending_func_calls
  PROVE  PlaceInv'
<1> DEFINE P == pending_func_calls
           x == task[w].call
           Old == 1 .. next_call_id - 1
<1>1. CallsOK'
  BY CallsSame DEF PlaceInv
<1>2. DOMAIN task = Workers /\ x \in Old /\ x \in Calls /\ Carries(w, x)
  BY TaskFacts, KnownCalls DEF PlaceInv, TasksOK, Carries
<1>3. P \in Seq(Old) /\ Old \subseteq Calls
  BY KnownCalls DEF PlaceInv, PlacesOK
<1> HIDE DEF P, x, Old
<1>4. /\ P' \in Seq(Old) /\ Listed(P') = Listed(P) \cup {x}
      /\ (\A i, j \in DOMAIN P' : P'[i] = P'[j] => i = j)
  <2>0. PICK q : q = P'
    OBVIOUS
  <2>1. Len(P) \in Nat /\ DOMAIN P = 1 .. Len(P)
    BY <1>3, LenProperties
  <2>2. x \notin Listed(P) /\ \A i, j \in DOMAIN P : P[i] = P[j] => i = j
    BY <1>2 DEF PlaceInv, OnePlace, P
  <2>4. CASE P' = Append(P, x)
    <3>1. /\ q \in Seq(Old) /\ Len(q) = Len(P) + 1 /\ q[Len(P) + 1] = x
          /\ \A i \in 1 .. Len(P) : q[i + 0] = P[i]
      BY <1>2, <1>3, <2>1, <2>0, <2>4, AppendProperties
    <3>2. PICK o \in {0, 1} : o = 0
      OBVIOUS
    <3>3. q[IF o = 0 THEN Len(P) + 1 ELSE 1] = x /\ \A i \in 1 .. Len(P) : q[i + o] = P[i]
      BY <3>1, <3>2
    <3>4. Listed(q) = Listed(P) \cup {x} /\ \A i, j \in DOMAIN q : q[i] = q[j] => i = j
      BY <1>2, <1>3, <2>2, <3>1, <3>3, QueueGrows, ZenonT(60)
    <3> QED
      BY <2>0, <3>1, <3>4
  <2>5. CASE P' = <<x>> \o P
    <3>0. <<x>> \in Seq(Old) /\ Len(<<x>>) = 1 /\ <<x>>[1] = x
      BY <1>2
    <3>1. /\ q \in Seq(Old) /\ Len(q) = Len(P) + 1 /\ q[1] = x
          /\ \A i \in 1 .. Len(P) : q[i + 1] = P[i]
      BY <1>3, <2>1, <2>0, <2>5, <3>0, ConcatProperties
    <3>2. PICK o \in {0, 1} : o = 1
      OBVIOUS
    <3>3. q[IF o = 0 THEN Len(P) + 1 ELSE 1] = x /\ \A i \in 1 .. Len(P) : q[i + o] = P[i]
      BY <3>1, <3>2
    <3>4. Listed(q) = Listed(P) \cup {x} /\ \A i, j \in DOMAIN q : q[i] = q[j] => i = j
      BY <1>2, <1>3, <2>2, <3>1, <3>3, QueueGrows, ZenonT(60)
    <3> QED
      BY <2>0, <3>1, <3>4
  <2> QED
    BY <2>4, <2>5 DEF P, x
<1>5. TasksOK'
  BY DEF PlaceInv, TasksOK
<1>6. PlacesOK'
  BY <1>4 DEF PlaceInv, PlacesOK, rest, P, Old
<1>7. \A n \in Nodes, y \in Calls : Sent(n, y)' = Sent(n, y)
  BY DEF Sent, rest
<1>8. \A v \in Workers, y \in Calls :
        /\ Carries(v, y)' => Carries(v, y) /\ v # w /\ task'[v] = task[v]
        /\ Reports(v, y)' => Reports(v, y)
  BY <1>2 DEF Carries, Reports, Idle, Early
<1>9. \A v \in Workers, y \in Calls : Carries(v, y)' => y # x
  BY <1>2, <1>8 DEF PlaceInv, OnePlace
<1>10. OnePlace'
  <2>1. \A y \in running_func_calls : y # x
    BY <1>2 DEF PlaceInv, OnePlace
  <2> QED
    BY <1>4, <1>8, <1>9, <2>1 DEF PlaceInv, OnePlace, P
<1>11. SentOnce'
  <2>1. \A n \in Nodes : ~Sent(n, x)
    BY <1>2 DEF PlaceInv, SentOnce, x
  <2>2. \A y \in Listed(P) : y \in Calls
    BY <1>3, ListedElements
  <2> QED
    BY <1>2, <1>4, <1>7, <1>8, <2>1, <2>2 DEF PlaceInv, SentOnce, P
<1>12. AnsweredOnce'
  BY <1>8 DEF PlaceInv, AnsweredOnce, rest
<1> QED
  BY <1>1, <1>5, <1>6, <1>10, <1>11, <1>12 DEF PlaceInv

\* A handler sends its call to node n.
LEMMA PlaceSend ==
  ASSUME PlaceInv, BudgetStep, NEW w \in Workers, NEW n \in Nodes, task[w].pc = "send",
         task' = [task EXCEPT ![w].pc = "insert"],
         \/ dispatched' = dispatched \cup {<<n, task[w].call>>} /\ UNCHANGED lost
         \/ lost' = lost \cup {<<n, task[w].call>>} /\ UNCHANGED dispatched,
         UNCHANGED <<next_call_id, state, taken, answered, handled, pending_func_calls,
                     running_func_calls>>
  PROVE  PlaceInv'
<1> DEFINE x == task[w].call
           Old == 1 .. next_call_id - 1
<1>1. CallsOK'
  BY CallsSame DEF PlaceInv
<1>2. DOMAIN task = Workers /\ task[w] \in Handlers /\ x \in Old /\ Old \subseteq Calls
  BY TaskFacts, KnownCalls DEF PlaceInv, TasksOK, Early
<1>3. /\ Carries(w, x) /\ task[w].pc \in Early
      /\ task'[w] \in Handlers /\ task'[w].pc = "insert" /\ task'[w].call = x
      /\ \A v \in Workers : v # w => task'[v] = task[v]
  BY <1>2 DEF Carries, Early, Handlers
<1>4. TasksOK'
  BY <1>2, <1>3 DEF PlaceInv, TasksOK
<1>5. PlacesOK'
  BY <1>2 DEF PlaceInv, PlacesOK
<1>6. \A m \in Nodes, y \in Calls : Sent(m, y)' <=> Sent(m, y) \/ (m = n /\ y = x)
  BY DEF Sent
<1>7. \A v \in Workers, y \in Calls :
        /\ Carries(v, y)' <=> Carries(v, y)
        /\ Carries(v, y)' /\ task'[v].pc \in Early => v # w /\ task'[v] = task[v]
        /\ Reports(v, y)' => Reports(v, y)
  BY <1>3 DEF Carries, Reports, Early
<1>8. \A m \in Nodes : ~Sent(m, x)
  BY <1>2, <1>3 DEF PlaceInv, SentOnce
<1>9. x \notin Listed(pending_func_calls)
  BY <1>2, <1>3 DEF PlaceInv, OnePlace
<1>10. \A v \in Workers : Carries(v, x) => v = w
  BY <1>2, <1>3 DEF PlaceInv, OnePlace
<1>11. \A y \in Listed(pending_func_calls) : y \in Calls
  BY ListedKnown, KnownCalls DEF PlaceInv
<1>12. /\ <<n, x>> \notin dispatched /\ <<n, x>> \notin taken /\ <<n, x>> \notin handled
       /\ <<n, x>> \notin lost /\ answered[<<n, x>>] = 0
  <2>1. answered[<<n, x>>] \in Nat
    BY <1>2 DEF PlaceInv, PlacesOK
  <2> QED
    BY <1>8, <2>1 DEF Sent
<1> HIDE DEF x, Old
<1>13. OnePlace'
  <2>1. Listed(pending_func_calls)' = Listed(pending_func_calls)
    OBVIOUS
  <2> QED
    BY <1>7, <2>1 DEF PlaceInv, OnePlace
<1>14. SentOnce'
  <2>1. Listed(pending_func_calls)' = Listed(pending_func_calls)
    OBVIOUS
  <2>2. \A m \in Nodes, v \in Workers, y \in Calls :
          Carries(v, y)' /\ task'[v].pc \in Early => ~Sent(m, y) /\ y # x
    BY <1>7, <1>10 DEF PlaceInv, SentOnce
  <2>3. \A m \in Nodes, y \in Listed(pending_func_calls) : ~Sent(m, y) /\ y # x
    BY <1>9 DEF PlaceInv, SentOnce
  <2>4. \A l, m \in Nodes, y \in Calls : Sent(l, y)' /\ Sent(m, y)' => l = m
    BY <1>6, <1>8 DEF PlaceInv, SentOnce
  <2> QED
    BY <1>6, <1>11, <2>1, <2>2, <2>3, <2>4 DEF SentOnce
<1>15. AnsweredOnce'
  <2>1. \A m \in Nodes, y \in Calls :
          /\ <<m, y>> \in dispatched' => <<m, y>> \notin taken
          /\ <<m, y>> \in dispatched' \cup taken =>
               answered[<<m, y>>] = 0 /\ <<m, y>> \notin lost' \cup handled
          /\ <<m, y>> \in handled => answered[<<m, y>>] > 0 /\ <<m, y>> \notin lost'
    <3> SUFFICES ASSUME NEW m \in Nodes, NEW y \in Calls
                 PROVE  /\ <<m, y>> \in dispatched' => <<m, y>> \notin taken
                        /\ <<m, y>> \in dispatched' \cup taken =>
                             answered[<<m, y>>] = 0 /\ <<m, y>> \notin lost' \cup handled
                        /\ <<m, y>> \in handled =>
                             answered[<<m, y>>] > 0 /\ <<m, y>> \notin lost'
      BY ZenonT(60)
    <3> DEFINE p == <<m, y>>
               q == <<n, x>>
    <3>1. /\ p \in dispatched => p \notin taken
          /\ p \in dispatched \cup taken => answered[p] = 0 /\ p \notin lost \cup handled
          /\ p \in handled => answered[p] > 0 /\ p \notin lost
      BY DEF PlaceInv, AnsweredOnce
    <3>2. /\ q \notin dispatched /\ q \notin taken /\ q \notin handled /\ q \notin lost
          /\ answered[q] = 0
      BY <1>12
    <3>3. \/ dispatched' = dispatched \cup {q} /\ lost' = lost
          \/ lost' = lost \cup {q} /\ dispatched' = dispatched
      BY DEF x
    <3> HIDE DEF p, q
    <3>4. /\ p \in dispatched' => p \notin taken
          /\ p \in dispatched' \cup taken => answered[p] = 0 /\ p \notin lost' \cup handled
          /\ p \in handled => answered[p] > 0 /\ p \notin lost'
      BY <3>1, <3>2, <3>3
    <3> QED
      BY <3>4 DEF p
  <2>2. UNCHANGED <<taken, answered, handled>>
    OBVIOUS
  <2> QED
    BY <1>7, <2>1, <2>2 DEF PlaceInv, AnsweredOnce
<1> QED
  BY <1>1, <1>4, <1>5, <1>13, <1>14, <1>15 DEF PlaceInv

\* A handler enters its call as running, takes one from the queue, or both.
LEMMA PlacePop ==
  ASSUME PlaceInv, BudgetStep, NEW w \in Workers, NEW h \in {Idle} \cup Handlers,
         UNCHANGED <<next_call_id, state, rest>>,
         task' = [task EXCEPT ![w] = h],
         h # Idle => /\ h.pc = "pick" /\ h.call \in Listed(pending_func_calls)
                     /\ h.call \notin Listed(pending_func_calls'),
         pending_func_calls' \in Seq(1 .. next_call_id - 1),
         Listed(pending_func_calls') \subseteq Listed(pending_func_calls),
         \A i, j \in DOMAIN pending_func_calls' :
           pending_func_calls'[i] = pending_func_calls'[j] => i = j,
         \/ UNCHANGED running_func_calls
         \/ /\ task[w].pc = "insert"
            /\ running_func_calls' = running_func_calls \cup {task[w].call}
  PROVE  PlaceInv'
<1> DEFINE x == task[w].call
           Old == 1 .. next_call_id - 1
<1>1. CallsOK'
  BY CallsSame DEF PlaceInv
<1>2. /\ DOMAIN task = Workers /\ Old \subseteq Calls
      /\ task[w].pc = "insert" => x \in Old /\ Carries(w, x)
  BY TaskFacts, KnownCalls DEF PlaceInv, TasksOK, Early, Carries
<1>3. \A y \in Listed(pending_func_calls) : y \in Old
  BY ListedKnown DEF PlaceInv
<1>4. TasksOK'
  BY <1>2, <1>3 DEF PlaceInv, TasksOK
<1>5. PlacesOK'
  BY <1>2 DEF PlaceInv, PlacesOK, rest
<1>6. \A n \in Nodes, y \in Calls : Sent(n, y)' = Sent(n, y)
  BY DEF Sent, rest
<1>7. \A v \in Workers, y \in Calls :
        /\ Carries(v, y)' => \/ v # w /\ Carries(v, y)
                             \/ v = w /\ h # Idle /\ y = h.call
        /\ v # w => task'[v] = task[v]
        /\ Reports(v, y)' => Reports(v, y)
  BY <1>2 DEF Carries, Reports, Idle, Early
<1>8. \A v \in Workers : v # w /\ task[w].pc = "insert" => ~Carries(v, x)
  BY <1>2 DEF PlaceInv, OnePlace
<1>9. \A v \in Workers : h # Idle => ~Carries(v, h.call)
  BY <1>2, <1>3 DEF PlaceInv, OnePlace
<1>10. h # Idle => h.call \notin running_func_calls /\ (task[w].pc = "insert" => h.call # x)
  BY <1>2, <1>3, <1>9 DEF PlaceInv, OnePlace
<1>11. task[w].pc = "insert" => x \notin Listed(pending_func_calls)
  BY <1>2 DEF PlaceInv, OnePlace
<1> HIDE DEF Old
<1>12. OnePlace'
  <2>1. \A v, u \in Workers, y \in Calls : Carries(v, y)' /\ Carries(u, y)' => v = u
    BY <1>7, <1>9 DEF PlaceInv, OnePlace
  <2>2. ASSUME NEW v \in Workers, NEW y \in Calls, Carries(v, y)'
        PROVE  y \notin Listed(pending_func_calls') /\ y \notin running_func_calls'
    <3>1. CASE v # w /\ Carries(v, y)
      <4>1. y \notin Listed(pending_func_calls) /\ y \notin running_func_calls
        BY <3>1 DEF PlaceInv, OnePlace
      <4>2. task[w].pc = "insert" => y # x
        BY <1>8, <3>1
      <4> QED
        BY <4>1, <4>2
    <3>2. CASE v = w /\ h # Idle /\ y = h.call
      BY <1>10, <3>2
    <3> QED
      BY <1>7, <2>2, <3>1, <3>2
  <2>3. \A y \in running_func_calls' : y \notin Listed(pending_func_calls')
    BY <1>11 DEF PlaceInv, OnePlace
  <2> QED
    BY <2>1, <2>2, <2>3 DEF OnePlace
<1>13. SentOnce'
  <2>1. \A n \in Nodes, v \in Workers, y \in Calls :
          Carries(v, y)' /\ task'[v].pc \in Early => ~Sent(n, y)
    BY <1>7 DEF PlaceInv, SentOnce
  <2>2. \A n \in Nodes, y \in Listed(pending_func_calls') : ~Sent(n, y) /\ y \in Calls
    BY <1>2, <1>3 DEF PlaceInv, SentOnce
  <2> QED
    BY <1>6, <2>1, <2>2 DEF PlaceInv, SentOnce
<1>14. AnsweredOnce'
  BY <1>7 DEF PlaceInv, AnsweredOnce, rest
<1> QED
  BY <1>1, <1>4, <1>5, <1>12, <1>13, <1>14 DEF PlaceInv

\* The answer of an engine is received.
LEMMA PlaceRecv ==
  ASSUME PlaceInv, BudgetStep, NEW w \in Workers, NEW n \in Nodes, NEW x \in Calls,
         NEW ok \in BOOLEAN, task[w] = Idle, <<n, x>> \in InFlight,
         handled' = handled \cup {<<n, x>>},
         task' = [task EXCEPT ![w] = [pc |-> "answer", call |-> x, ok |-> ok]],
         UNCHANGED <<next_call_id, state, dispatched, taken, answered, lost,
                     pending_func_calls, running_func_calls>>
  PROVE  PlaceInv'
<1> DEFINE h == [pc |-> "answer", call |-> x, ok |-> ok]
           Old == 1 .. next_call_id - 1
<1>1. CallsOK'
  BY CallsSame DEF PlaceInv
<1>2. /\ answered[<<n, x>>] > 0 /\ <<n, x>> \notin handled /\ <<n, x>> \notin lost
      /\ x \in Old /\ Old \subseteq Calls /\ DOMAIN task = Workers /\ task[w].pc = "idle"
  BY TaskFacts, KnownCalls DEF PlaceInv, PlacesOK, TasksOK, InFlight
<1>3. h \in AnswerHandlers /\ h.call \in Old /\ h.pc = "answer"
  BY <1>2 DEF AnswerHandlers
<1>4. TasksOK'
  BY <1>2, <1>3 DEF PlaceInv, TasksOK
<1>5. PlacesOK'
  BY <1>2 DEF PlaceInv, PlacesOK
<1>6. \A m \in Nodes, y \in Calls : Sent(m, y)' <=> Sent(m, y)
  BY <1>2 DEF Sent
<1>7. \A v \in Workers, y \in Calls :
        /\ Carries(v, y)' => Carries(v, y) /\ task'[v] = task[v]
        /\ Reports(v, y)' => \/ v # w /\ Reports(v, y)
                             \/ v = w /\ y = x
  BY <1>2 DEF Carries, Reports, Early
<1>8. Listed(pending_func_calls)' = Listed(pending_func_calls)
  OBVIOUS
<1>9. \A y \in Listed(pending_func_calls) : y \in Calls
  BY ListedKnown, KnownCalls DEF PlaceInv
<1>10. \A v \in Workers : ~Reports(v, x)
  <2> SUFFICES ASSUME NEW v \in Workers, Reports(v, x) PROVE FALSE
    OBVIOUS
  <2>1. PICK m \in Nodes : <<m, x>> \in handled
    BY DEF PlaceInv, AnsweredOnce
  <2>2. m = n
    BY <1>2, <2>1 DEF PlaceInv, SentOnce, Sent
  <2> QED
    BY <1>2, <2>1, <2>2
<1> HIDE DEF h, Old
<1>11. OnePlace'
  BY <1>7, <1>8 DEF PlaceInv, OnePlace
<1>12. SentOnce'
  BY <1>6, <1>7, <1>8, <1>9 DEF PlaceInv, SentOnce
<1>13. AnsweredOnce'
  <2>1. <<n, x>> \notin dispatched \cup taken
    BY <1>2 DEF PlaceInv, AnsweredOnce
  <2>2. \A m \in Nodes, y \in Calls :
          /\ <<m, y>> \in dispatched => <<m, y>> \notin taken
          /\ <<m, y>> \in dispatched \cup taken =>
               answered[<<m, y>>] = 0 /\ <<m, y>> \notin lost \cup handled'
          /\ <<m, y>> \in handled' => answered[<<m, y>>] > 0 /\ <<m, y>> \notin lost
    BY <1>2, <2>1, ZenonT(60) DEF PlaceInv, AnsweredOnce
  <2>3. \A v \in Workers, y \in Calls : Reports(v, y)' => \E m \in Nodes : <<m, y>> \in handled'
    BY <1>7 DEF PlaceInv, AnsweredOnce
  <2>4. \A v, u \in Workers, y \in Calls : Reports(v, y)' /\ Reports(u, y)' => v = u
    BY <1>7, <1>10 DEF PlaceInv, AnsweredOnce
  <2> QED
    BY <2>2, <2>3, <2>4 DEF AnsweredOnce
<1> QED
  BY <1>1, <1>4, <1>5, <1>11, <1>12, <1>13 DEF PlaceInv

\* An engine takes in a call, refuses one or answers one.
LEMMA PlaceEngine ==
  ASSUME PlaceInv, BudgetStep, NEW n \in Nodes, NEW x \in Calls,
         Engine!Take(<<n, x>>) \/ Engine!Refuse(<<n, x>>) \/ Engine!Answer(<<n, x>>),
         UNCHANGED <<next_call_id, state, lost, handled, task, pending_func_calls,
                     running_func_calls>>
  PROVE  PlaceInv' /\ \A m \in Nodes, y \in Calls : Sent(m, y)' <=> Sent(m, y)
<1> DEFINE q == <<n, x>>
<1>1. CallsOK'
  BY CallsSame DEF PlaceInv
<1>2. q \in dispatched \cup taken /\ q \in Nodes \X Calls
  BY DEF Engine!Take, Engine!Refuse, Engine!Answer
<1>3. /\ answered \in [Nodes \X Calls -> Nat] /\ answered[q] = 0 /\ q \notin lost
      /\ q \notin handled /\ x \in 1 .. next_call_id - 1
      /\ (q \in dispatched => q \notin taken)
  BY <1>2 DEF PlaceInv, PlacesOK, AnsweredOnce
<1>4. /\ answered' \in [Nodes \X Calls -> Nat]
      /\ \A p \in Nodes \X Calls : p # q => answered'[p] = answered[p]
      /\ \A p \in Nodes \X Calls :
           p # q => /\ (p \in dispatched' <=> p \in dispatched)
                    /\ (p \in taken' <=> p \in taken)
      /\ dispatched' \subseteq dispatched /\ taken' \subseteq taken \cup {q}
      /\ \/ q \notin dispatched' /\ q \in taken' /\ answered'[q] = 0
         \/ q \notin dispatched' /\ q \notin taken' /\ answered'[q] = 1
  <2>1. CASE Engine!Take(q)
    BY <1>2, <1>3, <2>1 DEF Engine!Take
  <2>2. CASE Engine!Refuse(q)
    BY <1>2, <1>3, <2>2 DEF Engine!Refuse
  <2>3. CASE Engine!Answer(q)
    BY <1>2, <1>3, <2>3 DEF Engine!Answer
  <2> QED
    BY <2>1, <2>2, <2>3
<1> HIDE DEF q
<1>5. TasksOK'
  BY DEF PlaceInv, TasksOK
<1>6. PlacesOK'
  <2>1. dispatched' \subseteq Nodes \X (1 .. next_call_id - 1)
    BY <1>4 DEF PlaceInv, PlacesOK
  <2>2. taken' \subseteq Nodes \X (1 .. next_call_id - 1)
    BY <1>3, <1>4 DEF PlaceInv, PlacesOK, q
  <2>3. \A m \in Nodes, y \in Calls : answered'[<<m, y>>] > 0 => y \in 1 .. next_call_id - 1
    BY <1>3, <1>4 DEF PlaceInv, PlacesOK, q
  <2> QED
    BY <1>4, <2>1, <2>2, <2>3 DEF PlaceInv, PlacesOK
<1>7. \A m \in Nodes, y \in Calls : Sent(m, y)' <=> Sent(m, y)
  <2> SUFFICES ASSUME NEW m \in Nodes, NEW y \in Calls PROVE Sent(m, y)' <=> Sent(m, y)
    OBVIOUS
  <2>1. CASE <<m, y>> = q
    BY <1>2, <1>4, <2>1 DEF Sent
  <2>2. CASE <<m, y>> # q
    BY <1>4, <2>2 DEF Sent
  <2> QED
    BY <2>1, <2>2
<1>8. /\ \A v \in Workers, y \in Calls :
           (Carries(v, y)' <=> Carries(v, y)) /\ (Reports(v, y)' <=> Reports(v, y))
      /\ Listed(pending_func_calls)' = Listed(pending_func_calls)
  BY DEF Carries, Reports
<1>9. \A y \in Listed(pending_func_calls) : y \in Calls
  BY ListedKnown, KnownCalls DEF PlaceInv
<1>10. OnePlace'
  BY <1>8 DEF PlaceInv, OnePlace
<1>11. SentOnce'
  BY <1>7, <1>8, <1>9 DEF PlaceInv, SentOnce
<1>12. AnsweredOnce'
  <2>1. ASSUME NEW m \in Nodes, NEW y \in Calls
        PROVE  /\ <<m, y>> \in dispatched' => <<m, y>> \notin taken'
               /\ <<m, y>> \in dispatched' \cup taken' =>
                    answered'[<<m, y>>] = 0 /\ <<m, y>> \notin lost \cup handled
               /\ <<m, y>> \in handled => answered'[<<m, y>>] > 0 /\ <<m, y>> \notin lost
    <3>1. CASE <<m, y>> = q
      BY <1>3, <1>4, <3>1
    <3>2. CASE <<m, y>> # q
      BY <1>4, <3>2 DEF PlaceInv, AnsweredOnce
    <3> QED
      BY <3>1, <3>2
  <2>2. \A m \in Nodes, y \in Calls :
               /\ <<m, y>> \in dispatched' => <<m, y>> \notin taken'
               /\ <<m, y>> \in dispatched' \cup taken' =>
                    answered'[<<m, y>>] = 0 /\ <<m, y>> \notin lost' \cup handled'
               /\ <<m, y>> \in handled' => answered'[<<m, y>>] > 0 /\ <<m, y>> \notin lost'
    BY <2>1, ZenonT(60)
  <2> QED
    BY <1>8, <2>2 DEF PlaceInv, AnsweredOnce
<1> QED
  BY <1>1, <1>5, <1>6, <1>7, <1>10, <1>11, <1>12 DEF PlaceInv

\* An engine crashes.
LEMMA PlaceCrash ==
  ASSUME PlaceInv, BudgetStep, NEW n \in Nodes, NEW L \in SUBSET {p \in InFlight : p[1] = n},
         dispatched' = {p \in dispatched : p[1] # n},
         taken' = {p \in taken : p[1] # n},
         lost' = lost \cup L \cup {p \in dispatched \cup taken : p[1] = n},
         UNCHANGED <<next_call_id, state, answered, handled, task, pending_func_calls,
                     running_func_calls>>
  PROVE  PlaceInv' /\ \A m \in Nodes, y \in Calls : Sent(m, y)' <=> Sent(m, y)
<1>1. CallsOK'
  BY CallsSame DEF PlaceInv
<1>2. TasksOK'
  BY DEF PlaceInv, TasksOK
<1>3. \A p \in L : /\ p \in Nodes \X Calls /\ answered[p] > 0 /\ p \notin handled /\ p \notin lost
  BY DEF InFlight
<1>4. PlacesOK'
  <2>1. \A p \in L : p \in Nodes \X (1 .. next_call_id - 1)
    BY <1>3 DEF PlaceInv, PlacesOK
  <2> QED
    BY <2>1 DEF PlaceInv, PlacesOK
<1>5. \A m \in Nodes, y \in Calls : Sent(m, y)' <=> Sent(m, y)
  BY <1>3 DEF Sent
<1>6. /\ \A v \in Workers, y \in Calls :
           (Carries(v, y)' <=> Carries(v, y)) /\ (Reports(v, y)' <=> Reports(v, y))
      /\ Listed(pending_func_calls)' = Listed(pending_func_calls)
  BY DEF Carries, Reports
<1>7. \A y \in Listed(pending_func_calls) : y \in Calls
  BY ListedKnown, KnownCalls DEF PlaceInv
<1>8. OnePlace'
  BY <1>6 DEF PlaceInv, OnePlace
<1>9. SentOnce'
  BY <1>5, <1>6, <1>7 DEF PlaceInv, SentOnce
<1>10. AnsweredOnce'
  <2>1. ASSUME NEW m \in Nodes, NEW y \in Calls
        PROVE  /\ <<m, y>> \in dispatched' => <<m, y>> \notin taken'
               /\ <<m, y>> \in dispatched' \cup taken' =>
                    answered[<<m, y>>] = 0 /\ <<m, y>> \notin lost' \cup handled
               /\ <<m, y>> \in handled => answered[<<m, y>>] > 0 /\ <<m, y>> \notin lost'
    <3>1. /\ <<m, y>> \in dispatched => <<m, y>> \notin taken
          /\ <<m, y>> \in dispatched \cup taken =>
               answered[<<m, y>>] = 0 /\ <<m, y>> \notin lost \cup handled
          /\ <<m, y>> \in handled => answered[<<m, y>>] > 0 /\ <<m, y>> \notin lost
      BY DEF PlaceInv, AnsweredOnce
    <3>2. \A p \in L : p[1] = n
      OBVIOUS
    <3> QED
      BY <1>3, <3>1, <3>2
  <2> QED
    BY <1>6, <2>1 DEF PlaceInv, AnsweredOnce
<1> QED
  BY <1>1, <1>2, <1>4, <1>5, <1>8, <1>9, <1>10 DEF PlaceInv

\* What is left of a sequence after its element k.
IsRest(q, p, k) == q = SubSeq(p, k + 1, Len(p))
NoneTwice(p) == \A i, j \in DOMAIN p : p[i] = p[j] => i = j

\* What is left of the queue when a handler has passed its first k calls.
LEMMA Remainder ==
  ASSUME NEW S, NEW p \in Seq(S), NEW k \in 0 .. Len(p) + 1, NEW q,
         IsRest(q, p, k), NoneTwice(p)
  PROVE  /\ q \in Seq(S)
         /\ \A i \in k + 1 .. Len(p) : p[i] \in Listed(q)
         /\ \A y \in Listed(q) : \E i \in k + 1 .. Len(p) : y = p[i]
         /\ NoneTwice(q)
<1>0. PICK l \in Nat : l = Len(p)
  BY LenProperties
<1>a. /\ q = SubSeq(p, k + 1, l) /\ \A i, j \in DOMAIN p : p[i] = p[j] => i = j
      /\ k \in Nat /\ k <= l + 1
  BY <1>0 DEF IsRest, NoneTwice
<1>1. DOMAIN p = 1 .. l /\ \A i \in 1 .. l : p[i] \in S
  BY <1>0, LenProperties, ElementOfSeq
<1>2. CASE k <= l
  <2>1. k + 1 \in Int /\ l \in Int /\ \A i \in k + 1 .. l : p[i] \in S
    BY <1>1, <1>2, <1>a
  <2>2. /\ q \in Seq(S) /\ Len(q) = IF k + 1 <= l THEN l - (k + 1) + 1 ELSE 0
        /\ \A i \in 1 .. l - (k + 1) + 1 : q[i] = p[(k + 1) + i - 1]
    BY <2>1, <1>a, SubSeqProperties
  <2>3. DOMAIN q = 1 .. l - k
    <3>1. Len(q) = l - k
      BY <1>2, <1>a, <2>2
    <3> QED
      BY <2>2, <3>1, LenProperties
  <2>4. \A i \in 1 .. l - k : q[i] = p[k + i] /\ k + i \in k + 1 .. l
    <3> SUFFICES ASSUME NEW i \in 1 .. l - k PROVE q[i] = p[k + i] /\ k + i \in k + 1 .. l
      OBVIOUS
    <3>1. i \in 1 .. l - (k + 1) + 1 /\ (k + 1) + i - 1 = k + i
      BY <1>a
    <3> QED
      BY <2>2, <3>1
  <2>5. \A i \in k + 1 .. l : i - k \in 1 .. l - k /\ q[i - k] = p[i]
    <3> SUFFICES ASSUME NEW i \in k + 1 .. l PROVE i - k \in 1 .. l - k /\ q[i - k] = p[i]
      OBVIOUS
    <3>1. i - k \in 1 .. l - k /\ k + (i - k) = i
      BY <1>a
    <3> QED
      BY <2>4, <3>1
  <2>6. /\ \A i \in k + 1 .. l : p[i] \in Listed(q)
        /\ \A y \in Listed(q) : \E i \in k + 1 .. l : y = p[i]
    <3>1. ASSUME NEW i \in k + 1 .. l PROVE p[i] \in Listed(q)
      <4>1. i - k \in DOMAIN q /\ q[i - k] = p[i]
        BY <2>3, <2>5, Zenon
      <4> QED
        BY <4>1, Zenon DEF Listed
    <3>2. ASSUME NEW y \in Listed(q) PROVE \E i \in k + 1 .. l : y = p[i]
      <4>1. PICK i \in DOMAIN q : y = q[i]
        BY Zenon DEF Listed
      <4>2. y = p[k + i] /\ k + i \in k + 1 .. l
        BY <2>3, <2>4, <4>1, Zenon
      <4> QED
        BY <4>2, Zenon
    <3> QED
      BY <3>1, <3>2
  <2>7. ASSUME NEW i \in 1 .. l - k, NEW j \in 1 .. l - k, q[i] = q[j]
        PROVE  i = j
    <3>1. p[k + i] = p[k + j]
      BY <2>4, <2>7
    <3>2. k + i \in 1 .. l /\ k + j \in 1 .. l
      BY <1>a
    <3>3. k + i = k + j
      BY <1>1, <1>a, <3>1, <3>2, Zenon
    <3> QED
      BY <1>a, <3>3
  <2> QED
    BY <1>0, <2>2, <2>3, <2>6, <2>7 DEF NoneTwice
<1>3. CASE k = l + 1
  <2>1. q = <<>>
    BY <1>3, <1>a, SubSeqEmpty
  <2>2. k + 1 .. l = {}
    BY <1>3
  <2>3. q \in Seq(S) /\ DOMAIN q = {}
    BY <2>1
  <2> QED
    BY <1>0, <2>2, <2>3 DEF Listed, NoneTwice
<1> QED
  BY <1>2, <1>3, <1>a

\* The loop over the queue: the call that is taken, if there is one, is not
\* passed over, and those that are gone from the queue are.
LEMMA PopFacts ==
  ASSUME PlaceInv, NEW w \in Workers, PopPending(w)
  PROVE  \E h \in {Idle} \cup Handlers :
           /\ task' = [task EXCEPT ![w] = h]
           /\ h # Idle => /\ h.pc = "pick" /\ h.from = "try" /\ h.call \in Listed(pending_func_calls)
                          /\ h.call \notin Listed(pending_func_calls') /\ ~Skips(h.call)
           /\ pending_func_calls' \in Seq(1 .. next_call_id - 1)
           /\ Listed(pending_func_calls') \subseteq Listed(pending_func_calls)
           /\ \A i, j \in DOMAIN pending_func_calls' :
                pending_func_calls'[i] = pending_func_calls'[j] => i = j
           /\ \A y \in Listed(pending_func_calls) :
                y \in Listed(pending_func_calls') \/ (h # Idle /\ y = h.call) \/ Skips(y)
           /\ discarded_func_calls' \subseteq discarded_func_calls
           /\ dropped \subseteq dropped'
           /\ \A y \in Listed(pending_func_calls) :
                \/ y \in Listed(pending_func_calls') \/ (h # Idle /\ y = h.call)
                \/ ~NotEntered(y) \/ y \in dropped'
<1> DEFINE P == pending_func_calls
           Old == 1 .. next_call_id - 1
           stay == {i \in DOMAIN P : ~Skips(P[i])}
           first == IF stay = {} THEN Len(P) + 1 ELSE Min(stay)
           h == IF stay = {} THEN Idle ELSE Handler("pick", "try", P[first], NoNode, FALSE)
<1>1. /\ pending_func_calls' = SubSeq(P, first + 1, Len(P))
      /\ discarded_func_calls' \subseteq discarded_func_calls
      /\ dropped' = dropped \cup {P[i] : i \in {j \in 1 .. first - 1 : NotEntered(P[j])}}
      /\ task' = [task EXCEPT ![w] = h]
  BY DEF PopPending
<1>2. /\ P \in Seq(Old) /\ Len(P) \in Nat /\ DOMAIN P = 1 .. Len(P)
      /\ \A i, j \in DOMAIN P : P[i] = P[j] => i = j
      /\ \A i \in DOMAIN P : P[i] \in Old
  <2>1. P \in Seq(Old) /\ \A i, j \in DOMAIN P : P[i] = P[j] => i = j
    BY DEF PlaceInv, PlacesOK, OnePlace
  <2> HIDE DEF P, Old
  <2> QED
    BY <2>1, LenProperties, ElementOfSeq
<1>a. PICK l \in Nat : l = Len(P)
  BY <1>2, ZenonT(60)
<1>3. first \in Nat /\ first <= l + 1 /\ first >= 1 /\ (stay # {} => first \in DOMAIN P /\ ~Skips(P[first]))
      /\ \A i \in 1 .. first - 1 : Skips(P[i])
  <2> HIDE DEF P
  <2>1. CASE stay = {}
    BY <1>2, <1>a, <2>1
  <2>2. CASE stay # {}
    <3>1. stay \in SUBSET Nat
      BY <1>2
    <3>2. PICK i \in stay : \A j \in stay : i <= j
      BY <2>2, <3>1, LeastNat
    <3>3. first \in stay /\ \A j \in stay : first <= j
      BY <2>2, <3>2 DEF Min
    <3> HIDE DEF first
    <3> QED
      BY <1>2, <1>a, <2>2, <3>3
  <2> QED
    BY <2>1, <2>2
<1> HIDE DEF first, P
<1>4. PICK q : q = pending_func_calls'
  OBVIOUS
<1>5. /\ q \in Seq(Old)
      /\ \A i \in first + 1 .. l : P[i] \in Listed(q)
      /\ \A y \in Listed(q) : \E i \in first + 1 .. l : y = P[i]
      /\ \A i, j \in DOMAIN q : q[i] = q[j] => i = j
  <2>1. q = SubSeq(P, first + 1, l)
    BY <1>1, <1>4, <1>a
  <2>2. PICK p \in Seq(Old) : p = P
    BY <1>2
  <2>3. PICK k \in 0 .. Len(p) + 1 : k = first
    BY <1>3, <1>a, <2>2
  <2>4. IsRest(q, p, k) /\ NoneTwice(p)
    BY <1>2, <1>3, <1>a, <2>1, <2>2, <2>3 DEF IsRest, NoneTwice
  <2> HIDE DEF Old
  <2>5. /\ q \in Seq(Old)
        /\ \A i \in k + 1 .. Len(p) : p[i] \in Listed(q)
        /\ \A y \in Listed(q) : \E i \in k + 1 .. Len(p) : y = p[i]
        /\ NoneTwice(q)
    BY <2>4, Remainder, Zenon
  <2> QED
    BY <1>a, <2>2, <2>3, <2>5 DEF NoneTwice
<1>6. h \in {Idle} \cup Handlers
  <2>1. stay # {} => P[first] \in Calls
    BY <1>2, <1>3, KnownCalls DEF PlaceInv
  <2> QED
    BY <2>1 DEF Handlers, Handler, Early
<1>7. h # Idle => stay # {} /\ h.pc = "pick" /\ h.from = "try" /\ h.call = P[first]
  BY DEF Handler
<1>8. stay # {} => P[first] \in Listed(P) /\ P[first] \notin Listed(q) /\ ~Skips(P[first])
  <2>1. ASSUME stay # {}, P[first] \in Listed(q)
        PROVE  FALSE
    <3>1. PICK i \in first + 1 .. l : P[first] = P[i]
      BY <1>5, <2>1
    <3>2. i \in DOMAIN P /\ i # first
      BY <1>2, <1>3, <1>a
    <3> QED
      BY <1>2, <1>3, <2>1, <3>1, <3>2, Zenon
  <2> QED
    BY <1>3, <2>1 DEF Listed
<1>9. Listed(q) \subseteq Listed(P)
  <2>1. \A i \in first + 1 .. l : i \in DOMAIN P
    BY <1>2, <1>3, <1>a
  <2> QED
    BY <1>5, <2>1, Zenon DEF Listed
<1>10. ASSUME NEW y \in Listed(P)
       PROVE  \/ y \in Listed(q) \/ (h # Idle /\ y = h.call)
              \/ Skips(y) /\ (~NotEntered(y) \/ y \in dropped')
  <2>1. PICK i \in DOMAIN P : y = P[i]
    BY DEF Listed
  <2>2. CASE i < first
    <3>1. i \in 1 .. first - 1
      BY <1>2, <1>3, <2>2
    <3>2. NotEntered(P[i]) => P[i] \in dropped'
      BY <1>1, <3>1, Zenon
    <3> QED
      BY <1>3, <2>1, <3>1, <3>2, Zenon
  <2>3. CASE i > first
    <3>1. i \in first + 1 .. l
      BY <1>2, <1>3, <1>a, <2>3
    <3> QED
      BY <1>5, <2>1, <3>1, Zenon
  <2>4. CASE i = first
    <3>1. stay # {}
      BY <1>2, <1>a, <2>4 DEF first
    <3>2. h # Idle /\ h.call = P[first]
      <4>1. h.pc = "pick" /\ h.call = P[first] /\ Idle.pc = "idle"
        BY <3>1 DEF Handler, Idle
      <4> QED
        BY <4>1
    <3> QED
      BY <2>1, <2>4, <3>2
  <2> QED
    <3>1. i \in Nat /\ first \in Nat
      BY <1>2, <1>3, <1>a
    <3>2. i < first \/ i > first \/ i = first
      BY <3>1
    <3> QED
      BY <3>2, <2>2, <2>3, <2>4, Zenon
<1>11. PICK g \in {Idle} \cup Handlers : g = h
  BY <1>6
<1>12. /\ \A y \in Listed(P) : y \in Listed(q) \/ (g # Idle /\ y = g.call) \/ Skips(y)
       /\ \A y \in Listed(P) : \/ y \in Listed(q) \/ (g # Idle /\ y = g.call)
                               \/ ~NotEntered(y) \/ y \in dropped'
       /\ dropped \subseteq dropped'
  BY <1>1, <1>10, <1>11
<1>13. g # Idle => /\ g.pc = "pick" /\ g.from = "try" /\ g.call \in Listed(P)
                   /\ g.call \notin Listed(q) /\ ~Skips(g.call)
  BY <1>7, <1>8, <1>11
<1>14. task' = [task EXCEPT ![w] = g]
  BY <1>1, <1>11
<1> HIDE DEF h, stay
<1> QED
  BY <1>1, <1>4, <1>5, <1>9, <1>12, <1>13, <1>14, ZenonT(60) DEF P

-----------------------------------------------------------------------------
(* A call is in one place at a time. *)

\* The client connections, the contexts and NodeManager are not places.
Quiet(w) ==
  \/ RunScheduledFunctions(w)
  \/ \E s \in Calls : H2OnStreamClose(w, s)
  \/ \E c \in HttpConns : HttpScheduleClose(w, c)
  \/ \E c \in GrpcConns : GrpcScheduleClose(w, c)
  \/ \E n \in Nodes : HubDown(w, n)

\* Steps that move no call, on a worker and elsewhere.
LEMMA QuietFacts ==
  ASSUME NEW w \in Workers, Quiet(w)
  PROVE  /\ UNCHANGED <<next_call_id, state, task, rest, pending_func_calls, running_func_calls>>
         /\ UNCHANGED budget \/ Fault
<1>1. CASE RunScheduledFunctions(w)
  BY <1>1, Zenon DEF RunScheduledFunctions, callVars, engineVars, histVars, rest
<1>2. CASE \E s \in Calls : H2OnStreamClose(w, s)
  BY <1>2, Zenon DEF H2OnStreamClose, workVars, engineVars, rest
<1>3. CASE \E c \in HttpConns : HttpScheduleClose(w, c)
  BY <1>3, Zenon DEF HttpScheduleClose, callVars, workVars, engineVars, rest
<1>4. CASE \E c \in GrpcConns : GrpcScheduleClose(w, c)
  BY <1>4, Zenon DEF GrpcScheduleClose, workVars, engineVars, rest
<1>5. CASE \E n \in Nodes : HubDown(w, n)
  BY <1>5, Zenon DEF HubDown, callVars, engineVars, histVars, rest
<1> QED
  BY <1>1, <1>2, <1>3, <1>4, <1>5 DEF Quiet

QuietConn(c) == \/ OnNewConnection(c) \/ EnterConnection(c)
                \/ WorkerOnConnectionClose(c) \/ OnConnectionClose(c)
QuietNode(n) == OnZNodeCreated(n) \/ OnZNodeDeleted(n) \/ OnNodeScaled(n)

\* Connections and nodes that come and go move no call.
LEMMA QuietElsewhere ==
  ASSUME \/ \E c \in Conns : QuietConn(c)
         \/ \E n \in Nodes : QuietNode(n)
         \/ UNCHANGED vars
  PROVE  /\ UNCHANGED <<next_call_id, state, task, rest, pending_func_calls, running_func_calls>>
         /\ UNCHANGED budget \/ Fault
<1>1. ASSUME NEW c \in Conns, OnNewConnection(c)
      PROVE  /\ UNCHANGED <<next_call_id, state, task, rest, pending_func_calls, running_func_calls>>
             /\ UNCHANGED budget
  BY <1>1, Zenon DEF OnNewConnection, workVars, engineVars, histVars, rest
<1>8. ASSUME NEW c \in Conns, EnterConnection(c)
      PROVE  /\ UNCHANGED <<next_call_id, state, task, rest, pending_func_calls, running_func_calls>>
             /\ UNCHANGED budget
  BY <1>8, Zenon DEF EnterConnection, workVars, engineVars, histVars, rest
<1>2. ASSUME NEW c \in Conns, WorkerOnConnectionClose(c)
      PROVE  /\ UNCHANGED <<next_call_id, state, task, rest, pending_func_calls, running_func_calls>>
             /\ UNCHANGED budget
  BY <1>2, Zenon DEF WorkerOnConnectionClose, callVars, workVars, engineVars, histVars, rest
<1>3. ASSUME NEW c \in Conns, OnConnectionClose(c)
      PROVE  /\ UNCHANGED <<next_call_id, state, task, rest, pending_func_calls, running_func_calls>>
             /\ UNCHANGED budget
  BY <1>3, Zenon DEF OnConnectionClose, workVars, engineVars, histVars, rest
<1>4. ASSUME NEW n \in Nodes, OnZNodeCreated(n)
      PROVE  /\ UNCHANGED <<next_call_id, state, task, rest, pending_func_calls, running_func_calls>>
             /\ UNCHANGED budget
  BY <1>4, Zenon DEF OnZNodeCreated, callVars, histVars, rest
<1>5. ASSUME NEW n \in Nodes, OnZNodeDeleted(n)
      PROVE  /\ UNCHANGED <<next_call_id, state, task, rest, pending_func_calls, running_func_calls>>
             /\ UNCHANGED budget
  BY <1>5, Zenon DEF OnZNodeDeleted, callVars, workVars, histVars, rest
<1>6. ASSUME NEW n \in Nodes, OnNodeScaled(n)
      PROVE  /\ UNCHANGED <<next_call_id, state, task, rest, pending_func_calls, running_func_calls>>
             /\ Fault
  BY <1>6, Zenon DEF OnNodeScaled, callVars, workVars, engineVars, rest
<1>7. ASSUME UNCHANGED vars
      PROVE  /\ UNCHANGED <<next_call_id, state, task, rest, pending_func_calls, running_func_calls>>
             /\ UNCHANGED budget
  BY <1>7, Zenon DEF vars, callVars, workVars, engineVars, histVars, rest
<1> QED
  BY <1>1, <1>2, <1>3, <1>4, <1>5, <1>6, <1>7, <1>8, Zenon DEF QuietConn, QuietNode

\* A new call: the handler it is given to, and its FuncCallState.
Flag == BOOLEAN
MayCall == next_call_id <= budget.calls
HttpCallState(c, async) == [conn |-> IF async THEN NoConn ELSE c, ctx |-> HttpContext(c)]

NewCall(h, w, c, k, st, async, bad) ==
  /\ next_call_id' = next_call_id + 1 /\ state' = Put(state, next_call_id, st)
  /\ h.call = next_call_id /\ h.pc \in {"queue", "send"} /\ h.from = "new" /\ h.bad = bad
  /\ task' = [task EXCEPT ![w] = h]
  /\ context' = [context EXCEPT ![k] =
                   [Created EXCEPT !.call = next_call_id, !.async = async,
                                   !.stream = IF c \in HttpConns THEN 0 ELSE next_call_id]]
  /\ \/ h.pc = "send" /\ PickNodeForNewFuncCall(next_call_id, h.node)
     \/ h.pc = "queue" /\ UNCHANGED <<nodeVars, wild>>

\* What a new call does: it is queued, or gets a handler that sends it.
LEMMA NewFacts ==
  ASSUME PlaceInv, NEW w \in Workers, NEW c \in Conns, NEW k, NEW st, NEW async, NEW bad \in Flag,
         MayCall,
         OnNewFuncCall(w, c, k, st, async, bad)
  PROVE  \E h \in Handlers : NewCall(h, w, c, k, st, async, bad)
<1> DEFINE x == next_call_id
<1>1. x \in Calls
  BY KnownCalls DEF PlaceInv, MayCall
<1>2. \A n \in Nodes \cup {NoNode} : /\ Handler("send", "new", x, n, bad) \in Handlers
                                     /\ Handler("queue", "new", x, n, bad) \in Handlers
  BY <1>1 DEF Handlers, Handler, Early, Flag
<1>3. /\ next_call_id' = x + 1 /\ state' = Put(state, x, st)
      /\ context' = [context EXCEPT ![k] =
                       [Created EXCEPT !.call = x, !.async = async,
                                       !.stream = IF c \in HttpConns THEN 0 ELSE x]]
      /\ \/ \E n \in Nodes \cup {NoNode} :
              /\ PickNodeForNewFuncCall(x, n)
              /\ task' = [task EXCEPT ![w] = Handler("send", "new", x, n, bad)]
         \/ /\ task' = [task EXCEPT ![w] = Handler("queue", "new", x, NoNode, bad)]
            /\ UNCHANGED <<nodeVars, wild>>
  BY Zenon DEF OnNewFuncCall
<1>4. CASE \E n \in Nodes \cup {NoNode} :
              /\ PickNodeForNewFuncCall(x, n)
              /\ task' = [task EXCEPT ![w] = Handler("send", "new", x, n, bad)]
  <2>1. PICK n \in Nodes \cup {NoNode} :
              /\ PickNodeForNewFuncCall(x, n)
              /\ task' = [task EXCEPT ![w] = Handler("send", "new", x, n, bad)]
    BY <1>4
  <2>2. PICK h \in Handlers : h = Handler("send", "new", x, n, bad)
    BY <1>2
  <2>3. h.call = x /\ h.pc = "send" /\ h.from = "new" /\ h.bad = bad /\ h.node = n
    BY <2>2 DEF Handler
  <2> QED
    BY <1>3, <2>1, <2>2, <2>3, Zenon DEF NewCall
<1>5. CASE /\ task' = [task EXCEPT ![w] = Handler("queue", "new", x, NoNode, bad)]
           /\ UNCHANGED <<nodeVars, wild>>
  <2>2. PICK h \in Handlers : h = Handler("queue", "new", x, NoNode, bad)
    BY <1>2
  <2>3. h.call = x /\ h.pc = "queue" /\ h.from = "new" /\ h.bad = bad
    BY <2>2 DEF Handler
  <2> QED
    BY <1>3, <1>5, <2>2, <2>3, Zenon DEF NewCall
<1> QED
  BY <1>3, <1>4, <1>5

-----------------------------------------------------------------------------
(* The contexts of gRPC connections. *)

\* What the end of a call, or of a stream, does to the pools.
PoolStep ==
  /\ free \subseteq free'
  /\ \A k \in free' : k \in free \/ \E s \in DOMAIN grpc_calls : k = grpc_calls[s]
  /\ DOMAIN grpc_calls' \subseteq DOMAIN grpc_calls
  /\ \A s \in DOMAIN grpc_calls' : grpc_calls'[s] = grpc_calls[s]

\* A step that leaves the pools alone.
LEMMA PoolUnchanged ==
  ASSUME UNCHANGED <<free, grpc_calls>>
  PROVE  PoolStep
BY DEF PoolStep

\* The context of a finished stream goes back to its pool.
LEMMA PoolFinished ==
  ASSUME NEW c, NEW s, NEW cx, FinishedInternal(c, s, cx)
  PROVE  PoolStep
<1>1. \/ UNCHANGED <<free, grpc_calls>>
      \/ /\ s \in DOMAIN grpc_calls /\ free' = free \cup {grpc_calls[s]}
         /\ grpc_calls' = [t \in DOMAIN grpc_calls \ {s} |-> grpc_calls[t]]
  BY Zenon DEF FinishedInternal, HttpFinished, GrpcFinished
<1>2. CASE UNCHANGED <<free, grpc_calls>>
  BY <1>2, PoolUnchanged
<1>3. CASE /\ s \in DOMAIN grpc_calls /\ free' = free \cup {grpc_calls[s]}
           /\ grpc_calls' = [t \in DOMAIN grpc_calls \ {s} |-> grpc_calls[t]]
  BY <1>3 DEF PoolStep
<1> QED
  BY <1>1, <1>2, <1>3

\* Handing over the end of a call changes the pools at most so.
LEMMA PoolHandedOver ==
  ASSUME NEW w, NEW k, NEW cx, FinishFuncCall(w, k, cx) \/ NotFinished
  PROVE  PoolStep
<1>1. \/ UNCHANGED <<free, grpc_calls>>
      \/ FinishedInternal(ConnOf(k), cx[k].stream, cx)
  BY Zenon DEF FinishFuncCall, ScheduleFunction, NotFinished
<1> QED
  BY <1>1, PoolUnchanged, PoolFinished

\* The context of a new call of a gRPC connection.
LEMMA GetContextFacts ==
  ASSUME CallsOK, PoolOK, NEW c \in GrpcConns, next_call_id <= budget.calls
  PROVE  /\ GetContext(c) \in free /\ GetContext(c) \in GrpcContexts
         /\ GetContext(c)[1] = c /\ GetContext(c)[2] <= next_call_id
<1> DEFINE x == next_call_id
           I == {i \in 1 .. MaxContexts : <<c, i>> \in free}
           mine == {k \in free : k[1] = c}
<1>1. MaxContexts \in Nat /\ x \in Nat /\ x \in 1 .. MaxContexts
  BY GatewayAssumption, KnownCalls DEF CallsOK
<1>2. <<c, x>> \in free /\ x \in I
  BY <1>1 DEF PoolOK
<1>3. PICK i \in I : \A j \in I : i <= j
  <2>1. I \in SUBSET Nat /\ I # {}
    BY <1>1, <1>2
  <2> QED
    BY <2>1, LeastNat
<1>4. \A k \in mine : k[2] \in I /\ k = <<c, k[2]>>
  BY DEF PoolOK, GrpcContexts
<1>5. \A i_1 \in I : <<c, i_1>> \in mine
  OBVIOUS
<1>6. GetContext(c) = CHOOSE k \in mine : \A j \in mine : k[2] <= j[2]
  BY DEF GetContext
<1>7. <<c, i>> \in mine /\ <<c, i>>[2] = i
  BY <1>3, <1>5
<1> HIDE DEF mine
<1>8. \A j \in mine : <<c, i>>[2] <= j[2]
  BY <1>3, <1>4, <1>7
<1>9. GetContext(c) \in mine /\ \A j \in mine : GetContext(c)[2] <= j[2]
  BY <1>6, <1>7, <1>8
<1>10. <<c, x>> \in mine /\ <<c, x>>[2] = x
  BY <1>2, <1>5
<1> QED
  BY <1>9, <1>10 DEF mine, PoolOK

\* Returning contexts keeps PoolOK.
LEMMA PoolKept ==
  ASSUME PoolOK, PoolStep, UNCHANGED next_call_id
  PROVE  PoolOK'
BY DEF PoolOK, PoolStep

\* A call that takes no context from a pool keeps PoolOK.
LEMMA PoolGrows ==
  ASSUME CallsOK, PoolOK, UNCHANGED <<free, grpc_calls>>, next_call_id' = next_call_id + 1
  PROVE  PoolOK'
<1>1. next_call_id \in Nat
  BY KnownCalls
<1>2. \A c \in GrpcConns, i \in 1 .. MaxContexts : <<c, i>> \notin free => i < next_call_id + 1
  BY <1>1 DEF PoolOK
<1> QED
  BY <1>2 DEF PoolOK

\* A call that takes the first free context of a pool keeps PoolOK.
LEMMA PoolTaken ==
  ASSUME CallsOK, PoolOK, NEW c \in GrpcConns, next_call_id <= budget.calls,
         next_call_id' = next_call_id + 1, free' = free \ {GetContext(c)},
         grpc_calls' = Put(grpc_calls, next_call_id, GetContext(c))
  PROVE  PoolOK'
<1>1. PICK k : k = GetContext(c)
  OBVIOUS
<1>2. k \in free /\ k \in GrpcContexts /\ k[1] = c /\ k[2] <= next_call_id
  BY <1>1, GetContextFacts
<1>3. next_call_id \in Nat
  BY KnownCalls
<1>4. ASSUME NEW d \in GrpcConns, NEW i \in 1 .. MaxContexts, <<d, i>> \notin free'
      PROVE  i < next_call_id + 1
  <2>1. CASE <<d, i>> = k
    <3>1. k[2] = i
      BY <2>1
    <3> QED
      BY <1>2, <1>3, <3>1
  <2>2. CASE <<d, i>> # k
    <3>1. <<d, i>> \notin free
      BY <1>1, <1>4, <2>2
    <3> QED
      BY <1>3, <3>1 DEF PoolOK
  <2> QED
    BY <2>1, <2>2
<1>5. \A s \in DOMAIN grpc_calls' : grpc_calls'[s] \in GrpcContexts
  BY <1>1, <1>2 DEF PoolOK, Put
<1> QED
  BY <1>4, <1>5 DEF PoolOK

-----------------------------------------------------------------------------
(* Every step keeps PlaceInv and PoolOK. *)

\* What the request of an HTTP client does.
LEMMA HttpRequestFacts ==
  ASSUME PlaceInv, NEW w \in Workers, NEW c \in HttpConns, NEW async, NEW bad,
         OnNewHttpRequest(w, c, async, bad)
  PROVE  LET st == HttpCallState(c, async)
         IN /\ task[w] = Idle /\ ConnWorker[c] = w /\ conn_state[c] = "running" /\ recv[c]
            /\ recv' = [recv EXCEPT ![c] = FALSE]
            /\ MayCall
            /\ OnNewFuncCall(w, c, HttpContext(c), st, async, bad) /\ CallOK(st)
            /\ UNCHANGED budget \/ Fault
            /\ UNCHANGED <<rest, pending_func_calls, running_func_calls, free, grpc_calls,
                           conn_state, responses, scheduled, discarded_func_calls, connections, registering,
                           async_results, overtaken, dropped, starts, hubs, node_addr>>
<1> DEFINE st == HttpCallState(c, async)
<1>1. CallOK(st)
  BY DEF CallOK, HttpContext, ConnOf, HttpCallState
<1> HIDE DEF st
<1>2. /\ task[w] = Idle /\ ConnWorker[c] = w /\ conn_state[c] = "running" /\ recv[c]
      /\ recv' = [recv EXCEPT ![c] = FALSE]
      /\ MayCall
      /\ OnNewFuncCall(w, c, HttpContext(c), st, async, bad)
      /\ UNCHANGED budget \/ Fault
      /\ UNCHANGED <<rest, pending_func_calls, running_func_calls, free, grpc_calls,
                     conn_state, responses, scheduled, discarded_func_calls, connections, registering,
                     async_results, overtaken, dropped, starts, hubs, node_addr>>
  BY Zenon DEF OnNewHttpRequest, HttpRequestIn, engineVars, rest, st, HttpCallState, MayCall
<1> QED
  BY <1>1, <1>2, Zenon DEF st

\* What the call of a gRPC client does.
LEMMA GrpcCallFacts ==
  ASSUME PlaceInv, PoolOK, NEW w \in Workers, NEW c \in GrpcConns, OnNewGrpcCall(w, c)
  PROVE  LET k == GetContext(c)
             st == [conn |-> c, ctx |-> k]
         IN /\ task[w] = Idle /\ ConnWorker[c] = w /\ conn_state[c] = "running"
            /\ MayCall
            /\ free' = free \ {k} /\ grpc_calls' = Put(grpc_calls, next_call_id, k)
            /\ OnNewFuncCall(w, c, k, st, FALSE, FALSE) /\ CallOK(st)
            /\ UNCHANGED <<rest, pending_func_calls, running_func_calls, recv, budget,
                           conn_state, responses, scheduled, discarded_func_calls, connections, registering,
                           async_results, overtaken, dropped, starts, hubs, node_addr>>
<1> DEFINE k == GetContext(c)
           st == [conn |-> c, ctx |-> k]
<1>2. /\ task[w] = Idle /\ ConnWorker[c] = w /\ conn_state[c] = "running"
      /\ MayCall
      /\ free' = free \ {k} /\ grpc_calls' = Put(grpc_calls, next_call_id, k)
      /\ OnNewFuncCall(w, c, k, st, FALSE, FALSE)
      /\ UNCHANGED <<rest, pending_func_calls, running_func_calls, recv, budget,
                     conn_state, responses, scheduled, discarded_func_calls, connections, registering,
                     async_results, overtaken, dropped, starts, hubs, node_addr>>
  BY Zenon DEF OnNewGrpcCall, H2RequestIn, engineVars, rest, MayCall
<1>3. k \in GrpcContexts /\ k[1] = c
  BY <1>2, GetContextFacts DEF PlaceInv, MayCall
<1> HIDE DEF k
<1>1. CallOK(st)
  BY <1>3 DEF CallOK, ConnOf
<1> HIDE DEF st
<1> QED
  BY <1>1, <1>2, Zenon DEF st, k

\* The handlers of a call, by the step they take.
LEMMA PlaceHandler ==
  ASSUME PlaceInv, PoolOK, NEW w \in Workers,
         \/ \E c \in HttpConns, async, bad \in BOOLEAN : OnNewHttpRequest(w, c, async, bad)
         \/ \E c \in GrpcConns : OnNewGrpcCall(w, c)
         \/ QueueNew(w) \/ Dispatched(w) \/ NotDispatched(w) \/ InsertNew(w)
  PROVE  PlaceInv' /\ PoolOK'
<1>0. CallsOK
  BY DEF PlaceInv
<1>1. ASSUME NEW c \in HttpConns, NEW async \in BOOLEAN, NEW bad \in BOOLEAN,
             OnNewHttpRequest(w, c, async, bad)
      PROVE  PlaceInv' /\ PoolOK'
  <2>1. PICK k, st : k = HttpContext(c) /\ st = HttpCallState(c, async)
    OBVIOUS
  <2>2. /\ task[w] = Idle /\ MayCall
        /\ OnNewFuncCall(w, c, k, st, async, bad) /\ CallOK(st)
        /\ UNCHANGED budget \/ Fault
        /\ UNCHANGED <<rest, pending_func_calls, running_func_calls, free, grpc_calls>>
    BY <1>1, <2>1, HttpRequestFacts, Zenon
  <2>a. bad \in Flag
    BY DEF Flag
  <2>3. PICK h \in Handlers : NewCall(h, w, c, k, st, async, bad)
    <3>1. c \in Conns
      BY DEF Conns
    <3> QED
      BY <2>2, <2>a, <3>1, NewFacts, Zenon
  <2>4. BudgetStep
    BY <1>0, <2>2, FaultBudget
  <2>b. /\ next_call_id' = next_call_id + 1 /\ state' = Put(state, next_call_id, st)
        /\ h.call = next_call_id /\ h.pc \in {"queue", "send"}
        /\ task' = [task EXCEPT ![w] = h]
    BY <2>3 DEF NewCall
  <2>5. PlaceInv'
    BY <2>2, <2>b, <2>4, PlaceNew DEF MayCall
  <2> QED
    BY <1>0, <2>2, <2>b, <2>5, PoolGrows
<1>2. ASSUME NEW c \in GrpcConns, OnNewGrpcCall(w, c)
      PROVE  PlaceInv' /\ PoolOK'
  <2>1. PICK k, st : k = GetContext(c) /\ st = [conn |-> c, ctx |-> k]
    OBVIOUS
  <2>2. /\ task[w] = Idle /\ MayCall
        /\ free' = free \ {GetContext(c)}
        /\ grpc_calls' = Put(grpc_calls, next_call_id, GetContext(c))
        /\ OnNewFuncCall(w, c, k, st, FALSE, FALSE) /\ CallOK(st)
        /\ UNCHANGED <<rest, pending_func_calls, running_func_calls, budget>>
    BY <1>2, <2>1, GrpcCallFacts, Zenon
  <2>3. PICK h \in Handlers : NewCall(h, w, c, k, st, FALSE, FALSE)
    <3>1. c \in Conns
      BY DEF Conns
    <3>2. FALSE \in Flag
      BY DEF Flag
    <3> QED
      BY <2>2, <3>1, <3>2, NewFacts, Zenon
  <2>4. BudgetStep
    BY <1>0, <2>2, FaultBudget
  <2>b. /\ next_call_id' = next_call_id + 1 /\ state' = Put(state, next_call_id, st)
        /\ h.call = next_call_id /\ h.pc \in {"queue", "send"}
        /\ task' = [task EXCEPT ![w] = h]
    BY <2>3 DEF NewCall
  <2>5. PlaceInv'
    BY <2>2, <2>b, <2>4, PlaceNew DEF MayCall
  <2> QED
    BY <1>0, <2>2, <2>b, <2>5, PoolTaken DEF MayCall
<1>3. ASSUME QueueNew(w)
      PROVE  PlaceInv' /\ PoolOK'
  <2>1. /\ task[w].pc = "queue" /\ UNCHANGED <<next_call_id, state, rest, running_func_calls, budget>>
        /\ pending_func_calls' = Append(pending_func_calls, task[w].call)
        /\ task' = [task EXCEPT ![w] = Idle]
    BY <1>3, Zenon DEF QueueNew, EndNew, engineVars, histVars, rest
  <2>2. task[w].pc \in Early
    BY <2>1 DEF Early
  <2>3. \E k, cx : FinishFuncCall(w, k, cx) \/ NotFinished
    BY <1>3, Zenon DEF QueueNew
  <2>4. BudgetStep
    BY <1>0, <2>1, FaultBudget
  <2>5. PlaceInv'
    BY <2>1, <2>2, <2>4, PlaceQueue
  <2> QED
    BY <2>1, <2>3, <2>5, PoolHandedOver, PoolKept
<1>4. ASSUME Dispatched(w)
      PROVE  PlaceInv' /\ PoolOK'
  <2>1. /\ task[w].pc = "send" /\ task[w].node \in Nodes
        /\ task' = [task EXCEPT ![w].pc = "insert"]
        /\ \/ dispatched' = dispatched \cup {<<task[w].node, task[w].call>>} /\ UNCHANGED lost
           \/ lost' = lost \cup {<<task[w].node, task[w].call>>} /\ UNCHANGED dispatched
        /\ UNCHANGED <<next_call_id, state, taken, answered, handled, pending_func_calls,
                       running_func_calls, budget>>
    BY <1>4, Zenon DEF Dispatched, HasHub, SendMessageToEngine, HubSendMessage, callVars
  <2>2. PICK n \in Nodes : n = task[w].node
    BY <2>1
  <2>3. \E k, cx : FinishFuncCall(w, k, cx) \/ NotFinished
    BY <1>4, Zenon DEF Dispatched
  <2>4. BudgetStep
    BY <1>0, <2>1, FaultBudget
  <2>5. PlaceInv'
    BY <2>1, <2>2, <2>4, PlaceSend
  <2> QED
    BY <2>1, <2>3, <2>5, PoolHandedOver, PoolKept
<1>5. ASSUME NotDispatched(w)
      PROVE  PlaceInv' /\ PoolOK'
  <2>1. /\ task[w].pc = "send"
        /\ \/ task' = [task EXCEPT ![w] = Idle]
           \/ task' = [task EXCEPT ![w].pc = "try"]
        /\ UNCHANGED <<next_call_id, state, rest, pending_func_calls,
                       running_func_calls, budget>>
    BY <1>5, Zenon DEF NotDispatched, EndNew, callVars, engineVars, rest
  <2>2. task[w] \in Handlers
    BY <2>1, TaskFacts DEF PlaceInv, Early
  <2>3. \E k, cx : FinishFuncCall(w, k, cx) \/ NotFinished
    BY <1>5, Zenon DEF NotDispatched
  <2>4. BudgetStep
    BY <1>0, <2>1, FaultBudget
  <2>5. PICK h \in {Idle} \cup Handlers :
          /\ task' = [task EXCEPT ![w] = h]
          /\ h # Idle => h.call = task[w].call /\ h.pc = "try"
          /\ h.pc \in {"idle", "try"}
    <3>1. [task[w] EXCEPT !.pc = "try"] \in Handlers
      BY <2>2 DEF Handlers
    <3>2. CASE task' = [task EXCEPT ![w] = Idle]
      <4>1. Idle.pc = "idle"
        BY DEF Idle
      <4> QED
        BY <3>2, <4>1, Zenon
    <3>3. CASE task' = [task EXCEPT ![w].pc = "try"]
      <4>1. PICK h \in Handlers : h = [task[w] EXCEPT !.pc = "try"]
        BY <3>1
      <4>2. h.pc = "try" /\ h.call = task[w].call
        BY <2>2, <4>1 DEF Handlers
      <4>3. task' = [task EXCEPT ![w] = h]
        BY <3>3, <4>1
      <4> QED
        BY <4>2, <4>3, Zenon
    <3> QED
      BY <2>1, <3>2, <3>3
  <2>6. task[w] # Idle
    BY <2>1 DEF Idle
  <2>7. PlaceInv'
    BY <2>1, <2>4, <2>5, <2>6, PlaceTask DEF Early
  <2> QED
    BY <2>1, <2>3, <2>7, PoolHandedOver, PoolKept
<1>6. ASSUME InsertNew(w)
      PROVE  PlaceInv' /\ PoolOK'
  <2>1. /\ task[w].pc = "insert" /\ task' = [task EXCEPT ![w] = Idle]
        /\ running_func_calls' = running_func_calls \cup {task[w].call}
        /\ UNCHANGED <<next_call_id, state, rest, pending_func_calls, free, grpc_calls, budget>>
    BY <1>6, Zenon DEF InsertNew, EndNew, engineVars, histVars, rest
  <2>2. /\ pending_func_calls' \in Seq(1 .. next_call_id - 1)
        /\ Listed(pending_func_calls') \subseteq Listed(pending_func_calls)
        /\ \A i, j \in DOMAIN pending_func_calls' :
             pending_func_calls'[i] = pending_func_calls'[j] => i = j
    BY <2>1 DEF PlaceInv, PlacesOK, OnePlace
  <2>3. BudgetStep
    BY <1>0, <2>1, FaultBudget
  <2>4. PICK h \in {Idle} \cup Handlers : h = Idle
    OBVIOUS
  <2>5. PlaceInv'
    BY <2>1, <2>2, <2>3, <2>4, PlacePop
  <2> QED
    BY <2>1, <2>5, PoolUnchanged, PoolKept
<1> QED
  BY <1>1, <1>2, <1>3, <1>4, <1>5, <1>6, Zenon

\* The handlers that send calls from the queue.
LEMMA PlaceTry ==
  ASSUME PlaceInv, PoolOK, NEW w \in Workers,
         TryPop(w) \/ TryPick(w) \/ TryBack(w) \/ TryInsert(w)
  PROVE  PlaceInv' /\ PoolOK'
<1>0. CallsOK
  BY DEF PlaceInv
<1>1. ASSUME TryPop(w) \/ TryInsert(w)
      PROVE  PlaceInv' /\ PoolOK'
  <2>1. /\ PopPending(w)
        /\ UNCHANGED <<next_call_id, state, rest, free, grpc_calls, budget>>
        /\ \/ UNCHANGED running_func_calls
           \/ /\ task[w].pc = "insert"
              /\ running_func_calls' = running_func_calls \cup {task[w].call}
    BY <1>1, Zenon DEF TryPop, TryInsert, connVars, engineVars, histVars, rest
  <2>2. PICK h \in {Idle} \cup Handlers :
           /\ task' = [task EXCEPT ![w] = h]
           /\ h # Idle => /\ h.pc = "pick" /\ h.call \in Listed(pending_func_calls)
                          /\ h.call \notin Listed(pending_func_calls')
           /\ pending_func_calls' \in Seq(1 .. next_call_id - 1)
           /\ Listed(pending_func_calls') \subseteq Listed(pending_func_calls)
           /\ \A i, j \in DOMAIN pending_func_calls' :
                pending_func_calls'[i] = pending_func_calls'[j] => i = j
    BY <2>1, PopFacts
  <2>3. BudgetStep
    BY <1>0, <2>1, FaultBudget
  <2>4. PlaceInv'
    BY <2>1, <2>2, <2>3, PlacePop
  <2> QED
    BY <2>1, <2>4, PoolUnchanged, PoolKept
<1>2. ASSUME TryPick(w)
      PROVE  PlaceInv' /\ PoolOK'
  <2>1. /\ task[w].pc = "pick"
        /\ UNCHANGED <<next_call_id, state, rest, pending_func_calls, running_func_calls,
                       free, grpc_calls, budget>>
        /\ \/ \E n \in Nodes \cup {NoNode} :
                task' = [task EXCEPT ![w].pc = "send", ![w].node = n]
           \/ task' = [task EXCEPT ![w].pc = "back"]
    BY <1>2, Zenon DEF TryPick, connVars, callVars, engineVars, rest
  <2>2. task[w] \in Handlers
    BY <2>1, TaskFacts DEF PlaceInv, Early
  <2>3. PICK h \in Handlers :
          task' = [task EXCEPT ![w] = h] /\ h.call = task[w].call /\ h.pc \in {"send", "back"}
    <3>1. ASSUME NEW n \in Nodes \cup {NoNode},
                 task' = [task EXCEPT ![w].pc = "send", ![w].node = n]
          PROVE  \E h \in Handlers : task' = [task EXCEPT ![w] = h] /\ h.call = task[w].call
                                     /\ h.pc \in {"send", "back"}
      <4>1. PICK h : h = [task[w] EXCEPT !.pc = "send", !.node = n]
        OBVIOUS
      <4>2. h \in Handlers /\ h.pc = "send" /\ h.call = task[w].call
        BY <2>2, <4>1 DEF Handlers, Early
      <4>3. task' = [task EXCEPT ![w] = h]
        BY <2>2, <3>1, <4>1 DEF PlaceInv, TasksOK
      <4> QED
        BY <4>2, <4>3
    <3>2. ASSUME task' = [task EXCEPT ![w].pc = "back"]
          PROVE  \E h \in Handlers : task' = [task EXCEPT ![w] = h] /\ h.call = task[w].call
                                     /\ h.pc \in {"send", "back"}
      <4>1. PICK h : h = [task[w] EXCEPT !.pc = "back"]
        OBVIOUS
      <4>2. h \in Handlers /\ h.pc = "back" /\ h.call = task[w].call
        BY <2>2, <4>1 DEF Handlers, Early
      <4>3. task' = [task EXCEPT ![w] = h]
        BY <3>2, <4>1
      <4> QED
        BY <4>2, <4>3
    <3> QED
      BY <2>1, <3>1, <3>2, Zenon
  <2>4. BudgetStep
    BY <1>0, <2>1, FaultBudget
  <2>5. task[w] # Idle /\ h.pc \in Early /\ task[w].pc \in Early /\ h.pc \notin {"answer", "finish"}
    BY <2>1, <2>3 DEF Idle, Early
  <2>6. PlaceInv'
    BY <2>1, <2>3, <2>4, <2>5, PlaceTask
  <2> QED
    BY <2>1, <2>6, PoolUnchanged, PoolKept
<1>3. ASSUME TryBack(w)
      PROVE  PlaceInv' /\ PoolOK'
  <2>1. /\ task[w].pc = "back" /\ UNCHANGED <<next_call_id, state, rest, running_func_calls, budget>>
        /\ pending_func_calls' = <<task[w].call>> \o pending_func_calls
        /\ task' = [task EXCEPT ![w] = Idle]
        /\ UNCHANGED <<free, grpc_calls>>
    BY <1>3, Zenon DEF TryBack, connVars, engineVars, histVars, rest
  <2>2. task[w].pc \in Early
    BY <2>1 DEF Early
  <2>3. BudgetStep
    BY <1>0, <2>1, FaultBudget
  <2>4. PlaceInv'
    BY <2>1, <2>2, <2>3, PlaceQueue
  <2> QED
    BY <2>1, <2>4, PoolUnchanged, PoolKept
<1> QED
  BY <1>1, <1>2, <1>3

\* The handlers of an answer of an engine.
LEMMA PlaceAnswer ==
  ASSUME PlaceInv, PoolOK, NEW w \in Workers,
         OnRecvEngineMessage(w) \/ AnswerRunning(w) \/ AnswerFinish(w)
  PROVE  PlaceInv' /\ PoolOK'
<1>0. CallsOK
  BY DEF PlaceInv
<1>1. ASSUME OnRecvEngineMessage(w)
      PROVE  PlaceInv' /\ PoolOK'
  <2>1. PICK p \in InFlight, ok \in BOOLEAN :
          /\ task[w] = Idle /\ handled' = handled \cup {p}
          /\ task' = [task EXCEPT ![w] = [pc |-> "answer", call |-> p[2], ok |-> ok]]
          /\ UNCHANGED <<next_call_id, state, dispatched, taken, answered, lost,
                         pending_func_calls, running_func_calls, free, grpc_calls, budget>>
    BY <1>1 DEF OnRecvEngineMessage, connVars, callVars, engineVars
  <2>2. PICK n \in Nodes, x \in Calls : p = <<n, x>>
    BY DEF InFlight
  <2>3. p[2] = x
    BY <2>2
  <2>4. BudgetStep
    BY <1>0, <2>1, FaultBudget
  <2>5. PlaceInv'
    BY <2>1, <2>2, <2>3, <2>4, PlaceRecv
  <2> QED
    BY <2>1, <2>5, PoolUnchanged, PoolKept
<1>2. ASSUME AnswerRunning(w)
      PROVE  PlaceInv' /\ PoolOK'
  <2>1. /\ task[w].pc = "answer"
        /\ UNCHANGED <<next_call_id, state, rest, pending_func_calls, free, grpc_calls, budget>>
        /\ running_func_calls' \subseteq running_func_calls
        /\ \/ task' = [task EXCEPT ![w] = Idle]
           \/ \E pc \in {"finish", "try"} : task' = [task EXCEPT ![w].pc = pc]
    BY <1>2 DEF AnswerRunning, connVars, engineVars, rest
  <2>2. task[w] \in AnswerHandlers
    BY <2>1, TaskFacts DEF PlaceInv
  <2>3. PICK h \in {Idle} \cup AnswerHandlers :
          /\ task' = [task EXCEPT ![w] = h]
          /\ h # Idle => h.call = task[w].call
          /\ h.pc \in {"idle", "finish", "try"}
    <3>1. CASE task' = [task EXCEPT ![w] = Idle]
      <4>1. Idle.pc = "idle"
        BY DEF Idle
      <4> QED
        BY <3>1, <4>1, Zenon
    <3>2. ASSUME NEW pc \in {"finish", "try"}, task' = [task EXCEPT ![w].pc = pc]
          PROVE  \E h \in AnswerHandlers : /\ task' = [task EXCEPT ![w] = h]
                                           /\ h.call = task[w].call
                                           /\ h.pc \in {"idle", "finish", "try"}
      <4>1. PICK h : h = [task[w] EXCEPT !.pc = pc]
        OBVIOUS
      <4>2. h \in AnswerHandlers /\ h.pc \in {"idle", "finish", "try"} /\ h.call = task[w].call
        BY <2>2, <4>1 DEF AnswerHandlers
      <4>3. task' = [task EXCEPT ![w] = h]
        BY <3>2, <4>1
      <4> QED
        BY <4>2, <4>3
    <3> QED
      BY <2>1, <3>1, <3>2, Zenon
  <2>4. BudgetStep
    BY <1>0, <2>1, FaultBudget
  <2>5. task[w] # Idle /\ h.pc \notin Early \cup {"insert"}
    BY <2>1, <2>3 DEF Idle, Early
  <2>6. PlaceInv'
    BY <2>1, <2>3, <2>4, <2>5, PlaceTask
  <2> QED
    BY <2>1, <2>6, PoolUnchanged, PoolKept
<1>3. ASSUME AnswerFinish(w)
      PROVE  PlaceInv' /\ PoolOK'
  <2>1. /\ task[w].pc = "finish" /\ task' = [task EXCEPT ![w].pc = "try"]
        /\ UNCHANGED <<next_call_id, state, rest, pending_func_calls, running_func_calls, budget>>
    BY <1>3, Zenon DEF AnswerFinish, callVars, engineVars, histVars, rest
  <2>2. task[w] \in AnswerHandlers
    BY <2>1, TaskFacts DEF PlaceInv
  <2>3. PICK h : h = [task[w] EXCEPT !.pc = "try"]
    OBVIOUS
  <2>4. h \in AnswerHandlers /\ h.pc = "try" /\ h.call = task[w].call
    BY <2>2, <2>3 DEF AnswerHandlers
  <2>5. task' = [task EXCEPT ![w] = h]
    BY <2>1, <2>3
  <2>6. BudgetStep
    BY <1>0, <2>1, FaultBudget
  <2>7. task[w] # Idle /\ h.pc \notin Early \cup {"insert"} /\ h.pc \notin {"answer", "finish"}
    BY <2>1, <2>4 DEF Idle, Early
  <2>8. PlaceInv'
    BY <2>1, <2>4, <2>5, <2>6, <2>7, PlaceTask
  <2>9. \E k, cx : FinishFuncCall(w, k, cx)
    BY <1>3, Zenon DEF AnswerFinish
  <2> QED
    BY <2>1, <2>8, <2>9, PoolHandedOver, PoolKept
<1> QED
  BY <1>1, <1>2, <1>3

\* The steps of an engine move a call that is sent, and send none.
LEMMA PlaceElsewhere ==
  ASSUME PlaceInv, PoolOK, EngineWorks \/ \E n \in Nodes : EngineCrash(n)
  PROVE  /\ PlaceInv' /\ PoolOK'
         /\ \A m \in Nodes, y \in Calls : Sent(m, y)' <=> Sent(m, y)
<1>0. CallsOK
  BY DEF PlaceInv
<1>1. CASE EngineWorks
  <2>1. PICK p \in Nodes \X Calls : Engine!Take(p) \/ Engine!Refuse(p) \/ Engine!Answer(p)
    BY <1>1 DEF EngineWorks
  <2>2. UNCHANGED <<next_call_id, state, lost, handled, task, pending_func_calls,
                    running_func_calls, free, grpc_calls, budget>>
    BY <1>1, Zenon DEF EngineWorks, connVars, callVars, workVars, histVars
  <2>3. PICK n \in Nodes, x \in Calls : p = <<n, x>>
    OBVIOUS
  <2>4. Engine!Take(<<n, x>>) \/ Engine!Refuse(<<n, x>>) \/ Engine!Answer(<<n, x>>)
    BY <2>1, <2>3
  <2>5. BudgetStep
    BY <1>0, <2>2, FaultBudget
  <2> QED
    BY <2>2, <2>4, <2>5, PlaceEngine, PoolUnchanged, PoolKept
<1>2. CASE \E n \in Nodes : EngineCrash(n)
  <2>1. PICK n \in Nodes : EngineCrash(n)
    BY <1>2
  <2>2. /\ dispatched' = {p \in dispatched : p[1] # n} /\ taken' = {p \in taken : p[1] # n}
        /\ \E L \in SUBSET {p \in InFlight : p[1] = n} :
             lost' = lost \cup L \cup {p \in dispatched \cup taken : p[1] = n}
        /\ UNCHANGED <<next_call_id, state, answered, handled, task, pending_func_calls,
                       running_func_calls, free, grpc_calls>>
        /\ Fault
    BY <2>1, Zenon DEF EngineCrash, connVars, callVars, workVars
  <2>3. PICK L \in SUBSET {p \in InFlight : p[1] = n} :
             lost' = lost \cup L \cup {p \in dispatched \cup taken : p[1] = n}
    BY <2>2
  <2>4. BudgetStep
    BY <1>0, <2>2, FaultBudget
  <2> QED
    BY <2>2, <2>3, <2>4, PlaceCrash, PoolUnchanged, PoolKept
<1> QED
  BY <1>1, <1>2

\* Closing a stream or a connection takes streams out of grpc_calls_.
LEMMA PoolQuiet ==
  ASSUME NEW w \in Workers, Quiet(w)
  PROVE  PoolStep
<1>1. CASE RunScheduledFunctions(w)
  <2>1. UNCHANGED <<free, grpc_calls>> \/ \E c, s : FinishedInternal(c, s, context)
    BY <1>1, Zenon DEF RunScheduledFunctions, InvokeFunction
  <2> QED
    BY <2>1, PoolUnchanged, PoolFinished
<1>2. CASE \E s \in Calls : H2OnStreamClose(w, s)
  <2>1. free' = free /\ \E s : grpc_calls' = [t \in DOMAIN grpc_calls \ {s} |-> grpc_calls[t]]
    BY <1>2, Zenon DEF H2OnStreamClose
  <2> QED
    BY <2>1 DEF PoolStep
<1>3. CASE \E c \in HttpConns : HttpScheduleClose(w, c)
  <2>1. UNCHANGED <<free, grpc_calls>>
    BY <1>3, Zenon DEF HttpScheduleClose
  <2> QED
    BY <2>1, PoolUnchanged
<1>4. CASE \E c \in GrpcConns : GrpcScheduleClose(w, c)
  <2>1. free' = free /\ \E M : grpc_calls' = [t \in DOMAIN grpc_calls \ M |-> grpc_calls[t]]
    BY <1>4, Zenon DEF GrpcScheduleClose
  <2> QED
    BY <2>1 DEF PoolStep
<1>5. CASE \E n \in Nodes : HubDown(w, n)
  <2>1. UNCHANGED <<free, grpc_calls>>
    BY <1>5, Zenon DEF HubDown, connVars
  <2> QED
    BY <2>1, PoolUnchanged
<1> QED
  BY <1>1, <1>2, <1>3, <1>4, <1>5 DEF Quiet

\* Connections and nodes that come and go leave the pools alone.
LEMMA PoolQuietElsewhere ==
  ASSUME \/ \E c \in Conns : QuietConn(c)
         \/ \E n \in Nodes : QuietNode(n)
         \/ UNCHANGED vars
  PROVE  UNCHANGED <<free, grpc_calls>>
BY Zenon DEF QuietConn, QuietNode, OnNewConnection, EnterConnection, WorkerOnConnectionClose, OnConnectionClose,
       OnZNodeCreated, OnZNodeDeleted, OnNodeScaled, connVars, vars

\* Every step keeps PlaceInv.
LEMMA PlaceStep ==
  ASSUME PlaceInv, PoolOK, [Next]_vars
  PROVE  PlaceInv' /\ PoolOK'
<1>0. CallsOK
  BY DEF PlaceInv
<1>1. ASSUME NEW w \in Workers, Quiet(w)
      PROVE  PlaceInv' /\ PoolOK'
  <2>1. /\ UNCHANGED <<next_call_id, state, task, rest, pending_func_calls, running_func_calls>>
        /\ UNCHANGED budget \/ Fault
    BY <1>1, QuietFacts
  <2>2. BudgetStep
    BY <1>0, <2>1, FaultBudget
  <2>3. PlaceInv'
    BY <2>1, <2>2, PlaceQuiet
  <2> QED
    BY <1>1, <2>1, <2>3, PoolQuiet, PoolKept
<1>2. ASSUME \/ \E c \in Conns : QuietConn(c)
             \/ \E n \in Nodes : QuietNode(n)
             \/ UNCHANGED vars
      PROVE  PlaceInv' /\ PoolOK'
  <2>1. /\ UNCHANGED <<next_call_id, state, task, rest, pending_func_calls, running_func_calls>>
        /\ UNCHANGED budget \/ Fault
    BY <1>2, QuietElsewhere
  <2>2. BudgetStep
    BY <1>0, <2>1, FaultBudget
  <2>3. PlaceInv'
    BY <2>1, <2>2, PlaceQuiet
  <2>4. PoolStep
    BY <1>2, PoolQuietElsewhere, PoolUnchanged
  <2> QED
    BY <2>1, <2>3, <2>4, PoolKept
<1> QED
  BY <1>1, <1>2, PlaceHandler, PlaceTry, PlaceAnswer, PlaceElsewhere, Zenon
  DEF Next, Quiet, QuietConn, QuietNode

\* At the start there is no call.
LEMMA InitPlace ==
  ASSUME Init
  PROVE  PlaceInv /\ PoolOK
<1>1. CallsOK
  <2>1. PICK b \in Budgets : budget = b
    BY DEF Init
  <2>2. b \in [calls : 1 .. MaxContexts, faults : Nat] /\ MaxContexts \in Nat
    BY GatewayAssumption
  <2>3. next_call_id = 1 /\ state = <<>> /\ b.calls \in 1 .. MaxContexts
    BY <2>2 DEF Init
  <2>4. 1 \in 1 .. b.calls + 1 /\ 1 .. next_call_id - 1 = {} /\ DOMAIN state = {}
    BY <2>2, <2>3
  <2> QED
    BY <2>1, <2>2, <2>3, <2>4 DEF CallsOK
<1>2. task = [w \in Workers |-> Idle] /\ \A w \in Workers : task[w].pc = "idle"
  BY DEF Init, Idle
<1>3. TasksOK
  BY <1>2 DEF TasksOK
<1>4. /\ pending_func_calls = <<>> /\ running_func_calls = {} /\ dispatched = {} /\ taken = {}
      /\ lost = {} /\ handled = {} /\ answered = [p \in Nodes \X Calls |-> 0]
  BY DEF Init
<1>5. PlacesOK
  BY <1>4 DEF PlacesOK
<1>6. /\ \A w \in Workers, x \in Calls : ~Carries(w, x) /\ ~Reports(w, x)
      /\ \A n \in Nodes, x \in Calls : ~Sent(n, x)
      /\ Listed(pending_func_calls) = {} /\ DOMAIN pending_func_calls = {}
  BY <1>2, <1>4 DEF Carries, Reports, Sent, Listed, Early
<1>7. OnePlace /\ SentOnce
  BY <1>4, <1>6 DEF OnePlace, SentOnce
<1>8. AnsweredOnce
  BY <1>4, <1>6 DEF AnsweredOnce
<1>9. PoolOK
  <2>1. free = GrpcContexts /\ grpc_calls = <<>>
    BY DEF Init
  <2> QED
    BY <2>1 DEF PoolOK, GrpcContexts
<1> QED
  BY <1>1, <1>3, <1>5, <1>7, <1>8, <1>9 DEF PlaceInv

-----------------------------------------------------------------------------
(* What NodeManager counts. *)

\* Call x was sent to node n and is not answered, or is about to be sent.
Sending(n, x) == \E w \in Workers : task[w].pc = "send" /\ task[w].call = x /\ task[w].node = n
Hold(n, x) == \/ n \in Nodes /\ Sent(n, x) /\ <<n, x>> \notin handled
              \/ Sending(n, x)

Places == Nodes \cup {NoNode}

\* Holding, call by call.
HoldIs ==
  /\ \A n \in Places : Holding(n) = {x \in Calls : Hold(n, x)} /\ IsFiniteSet(Holding(n))
  /\ UNION {Holding(n) : n \in Nodes \cup {NoNode}} = {x \in Calls : \E n \in Places : Hold(n, x)}

\* The sets Holding are those of HoldIs.
LEMMA HoldingIs ==
  ASSUME PlaceInv
  PROVE  HoldIs
<1>1. DOMAIN state = 1 .. next_call_id - 1 /\ 1 .. next_call_id - 1 \subseteq Calls
      /\ next_call_id \in Nat
  BY KnownCalls DEF PlaceInv, CallsOK
<1>2. ASSUME NEW n \in Places
      PROVE  Holding(n) = {x \in Calls : Hold(n, x)} /\ IsFiniteSet(Holding(n))
  <2>1. ASSUME NEW x \in Calls
        PROVE  /\ Hold(n, x) => x \in DOMAIN state
               /\ <<n, x>> \in dispatched \cup taken \cup InFlight \cup lost
                    <=> n \in Nodes /\ Sent(n, x) /\ <<n, x>> \notin handled
    <3>1. ASSUME n \in Nodes, Sent(n, x)
          PROVE  x \in DOMAIN state
      BY <1>1, <3>1 DEF Sent, PlaceInv, PlacesOK
    <3>2. ASSUME Sending(n, x)
          PROVE  x \in DOMAIN state
      <4>1. PICK w \in Workers : task[w].pc = "send" /\ task[w].call = x
        BY <3>2 DEF Sending
      <4> QED
        BY <1>1, <4>1, TaskFacts DEF PlaceInv, Early
    <3>3. <<n, x>> \in dispatched \cup taken \cup InFlight \cup lost => n \in Nodes
      BY DEF PlaceInv, PlacesOK, InFlight
    <3>4. ASSUME n \in Nodes
          PROVE  <<n, x>> \in dispatched \cup taken \cup InFlight \cup lost
                    <=> Sent(n, x) /\ <<n, x>> \notin handled
      <4>1. /\ <<n, x>> \in dispatched \cup taken \cup lost => <<n, x>> \notin handled
            /\ <<n, x>> \in handled => answered[<<n, x>>] > 0
            /\ <<n, x>> \in Nodes \X Calls
        BY <3>4 DEF PlaceInv, AnsweredOnce
      <4> QED
        BY <4>1 DEF InFlight, Sent
    <3> QED
      BY <3>1, <3>2, <3>3, <3>4 DEF Hold
  <2>2. \A x : x \in Holding(n) <=> x \in DOMAIN state /\
                 (<<n, x>> \in dispatched \cup taken \cup InFlight \cup lost \/ Sending(n, x))
    BY DEF Holding, Sending
  <2>3. \A x : x \in Holding(n) <=> x \in Calls /\ Hold(n, x)
    BY <1>1, <2>1, <2>2 DEF Hold
  <2>4. Holding(n) = {x \in Calls : Hold(n, x)}
    BY <2>3
  <2>5. IsFiniteSet(1 .. next_call_id - 1)
    BY <1>1, FS_Interval
  <2>6. Holding(n) \subseteq 1 .. next_call_id - 1
    BY <1>1 DEF Holding
  <2> QED
    BY <2>4, <2>5, <2>6, FS_Subset
<1>3. UNION {Holding(n) : n \in Nodes \cup {NoNode}} = {x \in Calls : \E n \in Places : Hold(n, x)}
  <2>1. \A n \in Nodes \cup {NoNode} : \A x : x \in Holding(n) <=> x \in Calls /\ Hold(n, x)
    BY <1>2 DEF Places
  <2> QED
    BY <2>1 DEF Places
<1> QED
  BY <1>2, <1>3 DEF HoldIs

\* LoadIsReal, call by call.
Load1 == running_requests = {x \in Calls : \E n \in Places : Hold(n, x)}
Load2 == \A n \in connected_nodes :
           ~wild /\ starts[n] = 1 => inflight_requests[n] = Cardinality({x \in Calls : Hold(n, x)})

\* LoadIsReal is what Load1 and Load2 say.
LEMMA LoadIs ==
  ASSUME HoldIs, connected_nodes \subseteq Nodes
  PROVE  LoadIsReal <=> Load1 /\ Load2
BY DEF HoldIs, LoadIsReal, Load1, Load2, Places

\* A step that changes neither what is held nor NodeManager.
HoldSame == \A n \in Places, x \in Calls : Hold(n, x)' <=> Hold(n, x)

\* A step that changes neither NodeManager nor what is held.
LEMMA LoadKept ==
  ASSUME Load1, Load2, LoadOK, HoldSame, UNCHANGED <<connected_nodes, running_requests>>,
         UNCHANGED <<wild, starts, inflight_requests>>
  PROVE  Load1' /\ Load2'
<1>1. \A n \in Places : {x \in Calls : Hold(n, x)'} = {x \in Calls : Hold(n, x)}
  BY DEF HoldSame
<1>2. {x \in Calls : \E n \in Places : Hold(n, x)'} = {x \in Calls : \E n \in Places : Hold(n, x)}
  BY DEF HoldSame
<1>3. \A n \in connected_nodes : n \in Places
  BY DEF LoadOK, Places
<1>4. Load1'
  BY <1>2, Zenon DEF Load1
<1>5. Load2'
  BY <1>1, <1>3 DEF Load2
<1> QED
  BY <1>4, <1>5

\* A node is picked for call x.
LEMMA LoadPick ==
  ASSUME Load1, Load2, LoadOK, HoldIs, NEW x \in Calls, NEW n \in Places,
         PickNodeForNewFuncCall(x, n), UNCHANGED starts,
         \A m \in Places : ~Hold(m, x),
         \A m \in Places, y \in Calls : Hold(m, y)' <=> Hold(m, y) \/ (m = n /\ y = x)
  PROVE  Load1' /\ Load2'
<1>1. PICK m \in connected_node_list :
        /\ m \in connected_nodes => n = m
        /\ inflight_requests' = IF m \in connected_nodes
                                  THEN [inflight_requests EXCEPT ![m] = @ + 1]
                                  ELSE inflight_requests
        /\ wild' = (wild \/ m \notin connected_nodes)
        /\ running_requests' = running_requests \cup {x}
        /\ UNCHANGED connected_nodes
  BY DEF PickNodeForNewFuncCall
<1>2. Load1'
  <2>1. {y \in Calls : \E l \in Places : Hold(l, y)'}
           = {y \in Calls : \E l \in Places : Hold(l, y)} \cup {x}
    OBVIOUS
  <2> QED
    BY <1>1, <2>1, Zenon DEF Load1
<1>3. ASSUME NEW l \in connected_nodes, ~wild', starts[l] = 1
      PROVE  inflight_requests'[l] = Cardinality({y \in Calls : Hold(l, y)'})
  <2>1. m \in connected_nodes /\ n = m /\ ~wild
    BY <1>1, <1>3
  <2>2. l \in Places /\ l \in Nodes
    BY DEF LoadOK, Places
  <2>3. inflight_requests[l] = Cardinality({y \in Calls : Hold(l, y)})
    BY <1>3, <2>1 DEF Load2
  <2>4. CASE l = n
    <3>1. {y \in Calls : Hold(l, y)'} = {y \in Calls : Hold(l, y)} \cup {x}
      BY <2>2, <2>4
    <3>2. IsFiniteSet({y \in Calls : Hold(l, y)}) /\ x \notin {y \in Calls : Hold(l, y)}
      <4>1. ~Hold(l, x)
        BY <2>2
      <4>3. Holding(l) = {y \in Calls : Hold(l, y)} /\ IsFiniteSet(Holding(l))
        BY <2>2, Zenon DEF HoldIs
      <4>2. IsFiniteSet({y \in Calls : Hold(l, y)})
        BY <4>3
      <4> QED
        BY <4>1, <4>2
    <3>3. Cardinality({y \in Calls : Hold(l, y)} \cup {x})
             = Cardinality({y \in Calls : Hold(l, y)}) + 1
      <4>1. PICK S : S = {y \in Calls : Hold(l, y)}
        OBVIOUS
      <4>2. Cardinality(S \cup {x}) = Cardinality(S) + 1
        BY <3>2, <4>1, FS_AddElement
      <4> QED
        BY <4>1, <4>2
    <3>4. inflight_requests'[l] = inflight_requests[l] + 1
      BY <1>1, <2>1, <2>2, <2>4 DEF LoadOK
    <3> QED
      BY <2>3, <3>1, <3>3, <3>4
  <2>5. CASE l # n
    <3>1. {y \in Calls : Hold(l, y)'} = {y \in Calls : Hold(l, y)}
      BY <2>2, <2>5
    <3>2. inflight_requests'[l] = inflight_requests[l]
      BY <1>1, <2>1, <2>2, <2>5 DEF LoadOK
    <3> QED
      BY <2>3, <3>1, <3>2
  <2> QED
    BY <2>4, <2>5
<1>4. Load2'
  BY <1>1, <1>3 DEF Load2
<1> QED
  BY <1>2, <1>4

\* Call x, held at node n, is finished.
LEMMA LoadFinished ==
  ASSUME Load1, Load2, LoadOK, HoldIs, NEW x \in Calls, NEW n \in Places,
         FuncCallFinished(x, n), UNCHANGED <<starts, wild>>,
         Hold(n, x), \A m \in Places : Hold(m, x) => m = n,
         \A m \in Places, y \in Calls : Hold(m, y)' <=> Hold(m, y) /\ y # x
  PROVE  Load1' /\ Load2'
<1>1. /\ running_requests' = running_requests \ {x}
      /\ inflight_requests' =
           IF x \in running_requests /\ n \in connected_nodes
             THEN [inflight_requests EXCEPT ![n] = @ - 1] ELSE inflight_requests
      /\ UNCHANGED connected_nodes
  BY DEF FuncCallFinished
<1>2. Load1'
  <2>1. {y \in Calls : \E l \in Places : Hold(l, y)'}
           = {y \in Calls : \E l \in Places : Hold(l, y)} \ {x}
    OBVIOUS
  <2> QED
    BY <1>1, <2>1, Zenon DEF Load1
<1>3. x \in running_requests
  BY DEF Load1
<1>4. ASSUME NEW l \in connected_nodes, ~wild, starts[l] = 1
      PROVE  inflight_requests'[l] = Cardinality({y \in Calls : Hold(l, y)'})
  <2>2. l \in Places /\ l \in Nodes
    BY DEF LoadOK, Places
  <2>3. inflight_requests[l] = Cardinality({y \in Calls : Hold(l, y)})
    BY <1>4 DEF Load2
  <2>4. CASE l = n
    <3>1. {y \in Calls : Hold(l, y)'} = {y \in Calls : Hold(l, y)} \ {x}
      BY <2>2, <2>4
    <3>2. IsFiniteSet({y \in Calls : Hold(l, y)}) /\ x \in {y \in Calls : Hold(l, y)}
      BY <2>2, <2>4 DEF HoldIs
    <3>3. Cardinality({y \in Calls : Hold(l, y)} \ {x})
             = Cardinality({y \in Calls : Hold(l, y)}) - 1
      <4>1. PICK S : S = {y \in Calls : Hold(l, y)}
        OBVIOUS
      <4>2. Cardinality(S \ {x}) = Cardinality(S) - 1
        BY <3>2, <4>1, FS_RemoveElement
      <4> QED
        BY <4>1, <4>2
    <3>4. inflight_requests'[l] = inflight_requests[l] - 1
      BY <1>1, <1>3, <2>2, <2>4 DEF LoadOK
    <3> QED
      BY <2>3, <3>1, <3>3, <3>4
  <2>5. CASE l # n
    <3>1. {y \in Calls : Hold(l, y)'} = {y \in Calls : Hold(l, y)}
      BY <2>2, <2>5
    <3>2. inflight_requests'[l] = inflight_requests[l]
      BY <1>1, <2>2, <2>5 DEF LoadOK
    <3> QED
      BY <2>3, <3>1, <3>2
  <2> QED
    BY <2>4, <2>5
<1>5. Load2'
  BY <1>1, <1>4 DEF Load2
<1> QED
  BY <1>2, <1>5

\* A step that neither moves a call that is sent or being sent, nor touches
\* NodeManager.
SendersSame == \A w \in Workers : task'[w].pc = "send" \/ task[w].pc = "send" => task'[w] = task[w]
SentSame == \A n \in Nodes, x \in Calls : Sent(n, x)' <=> Sent(n, x)
nodes == <<connected_nodes, connected_node_list, running_requests, inflight_requests, wild, starts,
           node_addr>>

\* A step that sends nothing and answers nothing changes nothing held.
LEMMA SameHold ==
  ASSUME SentSame, SendersSame, UNCHANGED handled
  PROVE  HoldSame
<1>1. \A n \in Places, x \in Calls : Sending(n, x)' <=> Sending(n, x)
  BY DEF Sending, SendersSame
<1> QED
  BY <1>1 DEF SentSame, HoldSame, Hold

\* Such a step keeps the load.
LEMMA LoadUnmoved ==
  ASSUME LoadOK, Load1, Load2, SentSame, SendersSame, UNCHANGED <<handled, nodes, hubs>>
  PROVE  LoadOK' /\ Load1' /\ Load2'
<1>1. Load1' /\ Load2'
  BY SameHold, LoadKept DEF nodes
<1>2. LoadOK'
  BY DEF LoadOK, SentSame, SendersSame, nodes
<1> QED
  BY <1>1, <1>2

\* A step that leaves the engines and their answers alone.
LEMMA RestSame ==
  ASSUME UNCHANGED rest
  PROVE  SentSame /\ UNCHANGED handled
BY DEF rest, SentSame, Sent

\* A handler that neither was about to send nor is now.
LEMMA TaskSame ==
  ASSUME PlaceInv, NEW w \in Workers, NEW h, task' = [task EXCEPT ![w] = h],
         task[w].pc # "send", h.pc # "send"
  PROVE  SendersSame
<1>1. DOMAIN task = Workers
  BY DEF PlaceInv, TasksOK
<1> QED
  BY <1>1 DEF SendersSame

\* Steps of the node watcher, and hubs that close.
LEMMA LoadNodes ==
  ASSUME LoadOK, Load1, Load2, PlaceInv, UNCHANGED <<task, rest>>,
         \/ \E n \in Nodes : QuietNode(n)
         \/ \E w \in Workers, n \in Nodes : HubDown(w, n)
  PROVE  LoadOK' /\ Load1' /\ Load2'
<1>1. SentSame /\ SendersSame /\ HoldSame
  BY RestSame, SameHold DEF SendersSame
<1>2. ASSUME NEW n \in Nodes, OnZNodeCreated(n)
      PROVE  LoadOK' /\ Load1' /\ Load2'
  <2>1. /\ starts' = [starts EXCEPT ![n] = @ + 1] /\ node_addr' = node_addr \cup {n}
        /\ connected_nodes' = connected_nodes \cup {n}
        /\ connected_node_list' = connected_node_list \cup {n}
        /\ inflight_requests' = [inflight_requests EXCEPT ![n] = 0]
        /\ UNCHANGED <<running_requests, hubs, wild>>
    BY <1>2, Zenon DEF OnZNodeCreated, OnNodeOnline, histVars
  <2>2. /\ starts' \in [Nodes -> Nat] /\ starts'[n] = starts[n] + 1
        /\ \A m \in Nodes : starts'[m] >= starts[m] /\ (m # n => starts'[m] = starts[m])
    BY <2>1 DEF LoadOK
  <2>3. LoadOK'
    <3>1. \A m \in Nodes : starts[m] > 0 => starts'[m] > 0
      BY <2>2 DEF LoadOK
    <3>2. starts'[n] > 0
      BY <2>2 DEF LoadOK
    <3>3. inflight_requests' \in [Nodes -> Int]
      BY <2>1 DEF LoadOK
    <3>4. connected_nodes' \subseteq Nodes /\ connected_node_list' \subseteq Nodes /\ node_addr' \subseteq Nodes
      BY <2>1 DEF LoadOK
    <3>5. \A m \in connected_nodes' \cup connected_node_list' \cup node_addr' : starts'[m] > 0
      BY <2>1, <3>1, <3>2 DEF LoadOK
    <3>6. \A m \in Nodes, x \in Calls : Sent(m, x)' => starts'[m] > 0
      BY <1>1, <3>1 DEF LoadOK, SentSame
    <3>7. \A w \in Workers, m \in Nodes : hubs'[w][m] > 0 => starts'[m] > 0
      BY <2>1, <3>1 DEF LoadOK
    <3>8. \A w \in Workers : task'[w].pc = "send" /\ ~wild' =>
            task'[w].node \in Nodes /\ starts'[task'[w].node] > 0
      BY <2>1, <3>1 DEF LoadOK
    <3>9. hubs' \in [Workers -> [Nodes -> Nat]] /\ wild' \in BOOLEAN
      BY <2>1 DEF LoadOK
    <3> QED
      BY <2>2, <3>3, <3>4, <3>5, <3>6, <3>7, <3>8, <3>9 DEF LoadOK
  <2>4. Load1'
    <3>1. {x \in Calls : \E m \in Places : Hold(m, x)'} = {x \in Calls : \E m \in Places : Hold(m, x)}
      BY <1>1 DEF HoldSame
    <3> QED
      BY <2>1, <3>1, Zenon DEF Load1
  <2>5. ASSUME NEW m \in connected_nodes', ~wild, starts'[m] = 1
        PROVE  inflight_requests'[m] = Cardinality({x \in Calls : Hold(m, x)'})
    <3>1. m \in Nodes /\ m \in Places
      BY <2>1 DEF LoadOK, Places
    <3>2. {x \in Calls : Hold(m, x)'} = {x \in Calls : Hold(m, x)}
      BY <1>1, <3>1 DEF HoldSame
    <3>3. CASE m = n
      <4>1. starts[m] = 0 /\ inflight_requests'[m] = 0
        BY <2>1, <2>2, <2>5, <3>1, <3>3 DEF LoadOK
      <4>2. \A x \in Calls : ~Hold(m, x)
        BY <2>5, <3>1, <4>1 DEF LoadOK, Hold, Sending
      <4>3. {x \in Calls : Hold(m, x)} = {}
        BY <4>2
      <4> QED
        BY <3>2, <4>1, <4>3, FS_EmptySet
    <3>4. CASE m # n
      <4>1. m \in connected_nodes /\ starts[m] = 1 /\ inflight_requests'[m] = inflight_requests[m]
        BY <2>1, <2>2, <2>5, <3>1, <3>4 DEF LoadOK
      <4> QED
        BY <2>5, <3>2, <4>1 DEF Load2
    <3> QED
      BY <3>3, <3>4
  <2>6. Load2'
    BY <2>1, <2>5 DEF Load2
  <2> QED
    BY <2>3, <2>4, <2>6
<1>3. ASSUME NEW n \in Nodes, OnZNodeDeleted(n) \/ OnNodeScaled(n)
      PROVE  LoadOK' /\ Load1' /\ Load2'
  <2>1. /\ connected_nodes' = connected_nodes \ {n}
        /\ connected_node_list' \in {connected_node_list, connected_nodes \ {n}}
        /\ node_addr' \in {node_addr, node_addr \ {n}}
        /\ UNCHANGED <<starts, running_requests, inflight_requests, hubs, wild>>
    BY <1>3 DEF OnZNodeDeleted, OnNodeOffline, OnNodeScaled, histVars, workVars, engineVars
  <2>2. LoadOK'
    BY <1>1, <2>1 DEF LoadOK, SentSame
  <2>4. Load1'
    <3>1. {x \in Calls : \E m \in Places : Hold(m, x)'} = {x \in Calls : \E m \in Places : Hold(m, x)}
      BY <1>1 DEF HoldSame
    <3> QED
      BY <2>1, <3>1, Zenon DEF Load1
  <2>5. ASSUME NEW m \in connected_nodes', ~wild, starts[m] = 1
        PROVE  inflight_requests[m] = Cardinality({x \in Calls : Hold(m, x)'})
    <3>1. m \in connected_nodes /\ m \in Places
      BY <2>1 DEF LoadOK, Places
    <3>2. {x \in Calls : Hold(m, x)'} = {x \in Calls : Hold(m, x)}
      BY <1>1, <3>1 DEF HoldSame
    <3> QED
      BY <2>5, <3>1, <3>2 DEF Load2
  <2>6. Load2'
    BY <2>1, <2>5 DEF Load2
  <2> QED
    BY <2>2, <2>4, <2>6
<1>4. ASSUME NEW w \in Workers, NEW n \in Nodes, HubDown(w, n)
      PROVE  LoadOK' /\ Load1' /\ Load2'
  <2>1. hubs' = [hubs EXCEPT ![w][n] = 0] /\ UNCHANGED nodes
    BY <1>4, Zenon DEF HubDown, nodes, nodeVars, engineVars, histVars
  <2>2. UNCHANGED <<connected_nodes, running_requests, wild, starts, inflight_requests>>
    BY <2>1 DEF nodes
  <2>3. Load1' /\ Load2'
    BY <1>1, <2>2, LoadKept
  <2>4. hubs' \in [Workers -> [Nodes -> Nat]]
        /\ \A v \in Workers, m \in Nodes : hubs'[v][m] > 0 => hubs[v][m] > 0
    BY <2>1 DEF LoadOK
  <2>5. LoadOK'
    BY <1>1, <2>1, <2>4 DEF LoadOK, SentSame, nodes
  <2> QED
    BY <2>3, <2>5
<1> QED
  BY <1>2, <1>3, <1>4 DEF QuietNode

\* A handler that has picked a node.
LEMMA LoadPicked ==
  ASSUME LoadOK, Load1, Load2, PlaceInv, HoldIs, NEW w \in Workers, NEW h \in Handlers,
         h.pc = "send", task' = [task EXCEPT ![w] = h], task[w].pc # "send",
         PickNodeForNewFuncCall(h.call, h.node), UNCHANGED <<rest, starts, hubs, node_addr>>,
         \A m \in Nodes : ~Sent(m, h.call),
         \A v \in Workers : task[v].pc = "send" => task[v].call # h.call
  PROVE  LoadOK' /\ Load1' /\ Load2'
<1> DEFINE x == h.call
           n == h.node
<1>1. x \in Calls /\ n \in Places /\ DOMAIN task = Workers
  BY DEF Handlers, Places, PlaceInv, TasksOK
<1>2. \A m \in Places : ~Hold(m, x)
  BY DEF Hold, Sending
<1>3. SentSame /\ UNCHANGED handled
  BY RestSame
<1>4. \A m \in Places, y \in Calls : Sending(m, y)' <=> Sending(m, y) \/ (m = n /\ y = x)
  <2>1. task'[w] = h /\ \A v \in Workers : v # w => task'[v] = task[v]
    BY <1>1
  <2> SUFFICES ASSUME NEW m \in Places, NEW y \in Calls
               PROVE  Sending(m, y)' <=> Sending(m, y) \/ (m = n /\ y = x)
    OBVIOUS
  <2>2. ASSUME Sending(m, y)' PROVE Sending(m, y) \/ (m = n /\ y = x)
    BY <2>1, <2>2 DEF Sending
  <2>3. ASSUME Sending(m, y) PROVE Sending(m, y)'
    BY <2>1, <2>3 DEF Sending
  <2>4. ASSUME m = n, y = x PROVE Sending(m, y)'
    BY <2>1, <2>4 DEF Sending
  <2> QED
    BY <2>2, <2>3, <2>4
<1> HIDE DEF x, n
<1>5. \A m \in Places, y \in Calls : Hold(m, y)' <=> Hold(m, y) \/ (m = n /\ y = x)
  BY <1>3, <1>4 DEF Hold, SentSame
<1>6. PickNodeForNewFuncCall(x, n)
  BY DEF x, n
<1>7. Load1' /\ Load2'
  BY <1>1, <1>2, <1>5, <1>6, LoadPick
<1>8. PICK m \in connected_node_list :
        /\ m \in connected_nodes => n = m
        /\ inflight_requests' = IF m \in connected_nodes
                                  THEN [inflight_requests EXCEPT ![m] = @ + 1]
                                  ELSE inflight_requests
        /\ wild' = (wild \/ m \notin connected_nodes)
        /\ UNCHANGED <<connected_nodes, connected_node_list>>
  BY <1>6 DEF PickNodeForNewFuncCall
<1>9. LoadOK'
  <2>1. inflight_requests' \in [Nodes -> Int]
    BY <1>8 DEF LoadOK
  <2>2. wild' \in BOOLEAN /\ (~wild' => ~wild /\ n \in connected_nodes)
    BY <1>8 DEF LoadOK
  <2>3. task'[w] = h /\ \A v \in Workers : v # w => task'[v] = task[v]
    BY <1>1
  <2>4. \A v \in Workers : task'[v].pc = "send" /\ ~wild' =>
          task'[v].node \in Nodes /\ starts[task'[v].node] > 0
    BY <2>2, <2>3 DEF LoadOK, n
  <2>5. \A m_1 \in Nodes, y \in Calls : Sent(m_1, y)' => starts[m_1] > 0
    BY <1>3 DEF LoadOK, SentSame
  <2> QED
    BY <1>8, <2>1, <2>2, <2>4, <2>5 DEF LoadOK
<1> QED
  BY <1>7, <1>9

\* Call x, held at node n only, is finished, and nothing else changes.
LEMMA LoadGone ==
  ASSUME LoadOK, Load1, Load2, HoldIs, NEW x \in Calls, NEW n \in Places, Hold(n, x),
         FuncCallFinished(x, n), \A m \in Places : Hold(m, x) => m = n,
         \A m \in Places, y \in Calls : Hold(m, y)' <=> Hold(m, y) /\ y # x,
         \A v \in Workers : task'[v].pc = "send" => task'[v] = task[v],
         SentSame, UNCHANGED <<starts, wild, hubs, node_addr>>
  PROVE  LoadOK' /\ Load1' /\ Load2'
<1>1. Load1' /\ Load2'
  BY LoadFinished
<1>2. /\ UNCHANGED <<connected_nodes, connected_node_list>>
      /\ inflight_requests' \in {inflight_requests, [inflight_requests EXCEPT ![n] = @ - 1]}
  BY DEF FuncCallFinished
<1>3. inflight_requests' \in [Nodes -> Int]
  BY <1>2 DEF LoadOK
<1>4. \A m \in Nodes, y \in Calls : Sent(m, y)' => starts[m] > 0
  BY DEF LoadOK, SentSame
<1>5. \A v \in Workers : task'[v].pc = "send" /\ ~wild =>
        task'[v].node \in Nodes /\ starts[task'[v].node] > 0
  BY DEF LoadOK
<1>6. LoadOK'
  BY <1>2, <1>3, <1>4, <1>5 DEF LoadOK
<1> QED
  BY <1>1, <1>6

\* What a handler in its send step knows about its call.
LEMMA SendFacts ==
  ASSUME PlaceInv, NEW w \in Workers, task[w].pc = "send"
  PROVE  /\ task[w] \in Handlers /\ task[w].call \in Calls /\ task[w].node \in Places
         /\ Sending(task[w].node, task[w].call)
         /\ \A m \in Nodes : ~Sent(m, task[w].call)
         /\ \A v \in Workers : task[v].pc = "send" /\ task[v].call = task[w].call => v = w
<1>1. task[w] \in Handlers
  BY TaskFacts DEF PlaceInv, Early
<1>2. task[w].call \in Calls /\ task[w].node \in Places
  BY <1>1 DEF Handlers, Places
<1>3. \A v \in Workers : task[v].pc = "send" => task[v].pc \in Early /\ Carries(v, task[v].call)
  BY DEF Carries, Early
<1> QED
  BY <1>1, <1>2, <1>3 DEF Sending, PlaceInv, SentOnce, OnePlace

\* A new call, and the steps of its handler.
LEMMA LoadHandler ==
  ASSUME LoadOK, Load1, Load2, PlaceInv, PoolOK, HoldIs, NEW w \in Workers,
         \/ \E c \in HttpConns, async, bad \in BOOLEAN : OnNewHttpRequest(w, c, async, bad)
         \/ \E c \in GrpcConns : OnNewGrpcCall(w, c)
         \/ QueueNew(w) \/ Dispatched(w) \/ NotDispatched(w) \/ InsertNew(w)
  PROVE  LoadOK' /\ Load1' /\ Load2'
<1>1. ASSUME NEW c \in Conns, NEW k, NEW st, NEW async, NEW bad \in Flag, MayCall,
             task[w] = Idle, OnNewFuncCall(w, c, k, st, async, bad),
             UNCHANGED <<rest, starts, hubs, node_addr>>
      PROVE  LoadOK' /\ Load1' /\ Load2'
  <2>1. PICK h \in Handlers : NewCall(h, w, c, k, st, async, bad)
    BY <1>1, NewFacts, Zenon
  <2>2. /\ h.call = next_call_id /\ task' = [task EXCEPT ![w] = h]
        /\ \/ h.pc = "send" /\ PickNodeForNewFuncCall(next_call_id, h.node)
           \/ h.pc = "queue" /\ UNCHANGED <<nodeVars, wild>>
    BY <2>1 DEF NewCall
  <2>3. task[w].pc = "idle"
    BY <1>1 DEF Idle
  <2>4. CASE h.pc = "send" /\ PickNodeForNewFuncCall(next_call_id, h.node)
    <3>1. h.call \notin 1 .. next_call_id - 1
      BY <2>2, KnownCalls DEF PlaceInv
    <3>2. \A m \in Nodes : ~Sent(m, h.call)
      <4>1. h.call \in Calls
        BY DEF Handlers
      <4> QED
        BY <3>1, <4>1, Zenon DEF PlaceInv, PlacesOK, Sent
    <3>3. \A v \in Workers : task[v].pc = "send" => task[v].call # h.call
      BY <3>1, TaskFacts DEF PlaceInv, Early
    <3> QED
      BY <1>1, <2>2, <2>3, <2>4, <3>2, <3>3, LoadPicked
  <2>5. CASE h.pc = "queue" /\ UNCHANGED <<nodeVars, wild>>
    <3>1. SendersSame
      BY <2>2, <2>3, <2>5, TaskSame
    <3>2. UNCHANGED <<nodes, hubs>>
      BY <1>1, <2>5 DEF nodes, nodeVars
    <3> QED
      BY <1>1, <3>1, <3>2, RestSame, LoadUnmoved
  <2> QED
    BY <2>2, <2>4, <2>5
<1>2. ASSUME NEW c \in HttpConns, NEW async \in BOOLEAN, NEW bad \in BOOLEAN,
             OnNewHttpRequest(w, c, async, bad)
      PROVE  LoadOK' /\ Load1' /\ Load2'
  <2>1. /\ task[w] = Idle /\ MayCall
        /\ OnNewFuncCall(w, c, HttpContext(c), HttpCallState(c, async), async, bad)
        /\ UNCHANGED <<rest, starts, hubs, node_addr>>
    BY <1>2, HttpRequestFacts, Zenon
  <2>2. c \in Conns /\ bad \in Flag
    BY DEF Conns, Flag
  <2> QED
    BY <1>1, <2>1, <2>2, Zenon
<1>3. ASSUME NEW c \in GrpcConns, OnNewGrpcCall(w, c)
      PROVE  LoadOK' /\ Load1' /\ Load2'
  <2>1. PICK k, st : k = GetContext(c) /\ st = [conn |-> c, ctx |-> k]
    OBVIOUS
  <2>2. /\ task[w] = Idle /\ MayCall /\ OnNewFuncCall(w, c, k, st, FALSE, FALSE)
        /\ UNCHANGED <<rest, starts, hubs, node_addr>>
    BY <1>3, <2>1, GrpcCallFacts, Zenon
  <2>3. c \in Conns /\ FALSE \in Flag
    BY DEF Conns, Flag
  <2> QED
    BY <1>1, <2>2, <2>3, Zenon
<1>4. ASSUME QueueNew(w) \/ InsertNew(w)
      PROVE  LoadOK' /\ Load1' /\ Load2'
  <2>1. /\ task[w].pc \in {"queue", "insert"} /\ task' = [task EXCEPT ![w] = Idle]
        /\ UNCHANGED <<rest, nodes, hubs>>
    BY <1>4, Zenon DEF QueueNew, InsertNew, EndNew, nodeVars, engineVars, histVars, rest, nodes
  <2>2. Idle.pc # "send" /\ task[w].pc # "send"
    BY <2>1 DEF Idle
  <2>3. SendersSame
    BY <2>1, <2>2, TaskSame, ZenonT(60)
  <2> QED
    BY <2>1, <2>3, RestSame, LoadUnmoved
<1>5. ASSUME Dispatched(w)
      PROVE  LoadOK' /\ Load1' /\ Load2'
  <2>1. PICK n, x, h : /\ n = task[w].node /\ x = task[w].call
                       /\ h = IF hubs[w][n] > 0 THEN hubs[w][n] ELSE starts[n]
    BY SMTT(60)
  <2>2. /\ task[w].pc = "send" /\ n \in Nodes /\ (hubs[w][n] > 0 \/ n \in node_addr)
        /\ task' = [task EXCEPT ![w].pc = "insert"]
        /\ hubs' = [hubs EXCEPT ![w][n] = h]
        /\ \/ dispatched' = dispatched \cup {<<n, x>>} /\ UNCHANGED lost
           \/ lost' = lost \cup {<<n, x>>} /\ UNCHANGED dispatched
        /\ UNCHANGED <<taken, answered, handled, nodes>>
    BY <1>5, <2>1 DEF Dispatched, HasHub, SendMessageToEngine, HubSendMessage, nodeVars, nodes
  <2>3. /\ task[w] \in Handlers /\ x \in Calls /\ Sending(n, x)
        /\ \A m \in Nodes : ~Sent(m, x)
        /\ \A v \in Workers : task[v].pc = "send" /\ task[v].call = x => v = w
    BY <2>1, <2>2, SendFacts
  <2>4. starts[n] > 0 /\ h \in Nat /\ h > 0
    BY <2>1, <2>2 DEF LoadOK
  <2>5. \A m \in Nodes, y \in Calls : Sent(m, y)' <=> Sent(m, y) \/ (m = n /\ y = x)
    BY <2>2 DEF Sent
  <2>6. /\ DOMAIN task = Workers /\ task'[w].pc = "insert"
        /\ \A v \in Workers : v # w => task'[v] = task[v]
    BY <2>2, <2>3 DEF PlaceInv, TasksOK, Handlers
  <2>7. \A m \in Places, y \in Calls : Sending(m, y)' <=> Sending(m, y) /\ ~(m = n /\ y = x)
    <3>1. \A m \in Places, y \in Calls : Sending(m, y)' => Sending(m, y) /\ ~(m = n /\ y = x)
      BY <2>3, <2>6 DEF Sending
    <3>2. ASSUME NEW m \in Places, NEW y \in Calls, Sending(m, y), ~(m = n /\ y = x)
          PROVE  Sending(m, y)'
      <4>1. PICK v \in Workers : task[v].pc = "send" /\ task[v].call = y /\ task[v].node = m
        BY <3>2 DEF Sending
      <4>2. v # w
        BY <2>1, <3>2, <4>1
      <4> QED
        BY <2>6, <4>1, <4>2 DEF Sending
    <3> QED
      BY <3>1, <3>2
  <2>8. HoldSame
    <3>1. <<n, x>> \notin handled
      BY <2>2, <2>3 DEF Sent
    <3>2. n \in Places
      BY <2>2 DEF Places
    <3> QED
      BY <2>2, <2>3, <2>5, <2>7, <3>1, <3>2 DEF HoldSame, Hold
  <2>9. Load1' /\ Load2'
    BY <2>2, <2>8, LoadKept DEF nodes
  <2>10. hubs' \in [Workers -> [Nodes -> Nat]]
         /\ \A v \in Workers, m \in Nodes : hubs'[v][m] > 0 => starts[m] > 0
    BY <2>2, <2>4 DEF LoadOK
  <2>11. \A m \in Nodes, y \in Calls : Sent(m, y)' => starts[m] > 0
    BY <2>4, <2>5 DEF LoadOK
  <2>12. \A v \in Workers : task'[v].pc = "send" => task'[v] = task[v]
    BY <2>6
  <2>13. LoadOK'
    BY <2>2, <2>10, <2>11, <2>12 DEF LoadOK, nodes
  <2> QED
    BY <2>9, <2>13
<1>6. ASSUME NotDispatched(w)
      PROVE  LoadOK' /\ Load1' /\ Load2'
  <2>1. PICK n, x : n = task[w].node /\ x = task[w].call
    OBVIOUS
  <2>2. /\ task[w].pc = "send" /\ FuncCallFinished(x, n)
        /\ \/ task' = [task EXCEPT ![w] = Idle]
           \/ task' = [task EXCEPT ![w].pc = "try"]
        /\ UNCHANGED <<rest, starts, wild, hubs, node_addr>>
    BY <1>6, <2>1, Zenon DEF NotDispatched, EndNew, engineVars, rest
  <2>3. /\ task[w] \in Handlers /\ x \in Calls /\ n \in Places /\ Sending(n, x)
        /\ \A m \in Nodes : ~Sent(m, x)
        /\ \A v \in Workers : task[v].pc = "send" /\ task[v].call = x => v = w
    BY <2>1, <2>2, SendFacts
  <2>4. /\ DOMAIN task = Workers /\ task'[w].pc # "send"
        /\ \A v \in Workers : v # w => task'[v] = task[v]
    BY <2>2, <2>3 DEF PlaceInv, TasksOK, Handlers, Idle
  <2>5. \A m \in Places, y \in Calls : Sending(m, y)' <=> Sending(m, y) /\ y # x
    <3>1. \A m \in Places, y \in Calls : Sending(m, y)' => Sending(m, y) /\ y # x
      BY <2>3, <2>4 DEF Sending
    <3>2. \A m \in Places, y \in Calls : Sending(m, y) /\ y # x => Sending(m, y)'
      BY <2>1, <2>4 DEF Sending
    <3> QED
      BY <3>1, <3>2
  <2>6. SentSame /\ UNCHANGED handled
    BY <2>2, RestSame
  <2>7. \A m \in Places, y \in Calls : Hold(m, y)' <=> Hold(m, y) /\ y # x
    BY <2>3, <2>5, <2>6 DEF Hold, SentSame
  <2>8. Hold(n, x) /\ \A m \in Places : Hold(m, x) => m = n
    BY <2>1, <2>3 DEF Hold, Sending
  <2> QED
    BY <2>2, <2>3, <2>4, <2>6, <2>7, <2>8, LoadGone
<1> QED
  BY <1>2, <1>3, <1>4, <1>5, <1>6, Zenon

\* The handlers that send calls from the queue.
LEMMA LoadTry ==
  ASSUME LoadOK, Load1, Load2, PlaceInv, HoldIs, NEW w \in Workers,
         TryPop(w) \/ TryPick(w) \/ TryBack(w) \/ TryInsert(w)
  PROVE  LoadOK' /\ Load1' /\ Load2'
<1>1. ASSUME TryPop(w) \/ TryInsert(w)
      PROVE  LoadOK' /\ Load1' /\ Load2'
  <2>1. /\ PopPending(w) /\ UNCHANGED <<rest, nodes, hubs>>
        /\ task[w].pc \in {"try", "insert"} \/ task[w] = Idle
    BY <1>1, Zenon DEF TryPop, TryInsert, engineVars, histVars, nodeVars, rest, nodes
  <2>2. PICK h \in {Idle} \cup Handlers : task' = [task EXCEPT ![w] = h] /\ (h # Idle => h.pc = "pick")
    BY <2>1, PopFacts
  <2>3. h.pc # "send" /\ task[w].pc # "send"
    BY <2>1, <2>2 DEF Idle
  <2>4. SendersSame
    BY <2>2, <2>3, TaskSame
  <2> QED
    BY <2>1, <2>4, RestSame, LoadUnmoved
<1>2. ASSUME TryBack(w)
      PROVE  LoadOK' /\ Load1' /\ Load2'
  <2>1. /\ task[w].pc = "back" /\ task' = [task EXCEPT ![w] = Idle]
        /\ UNCHANGED <<rest, nodes, hubs>>
    BY <1>2, Zenon DEF TryBack, nodeVars, engineVars, histVars, rest, nodes
  <2>2. Idle.pc # "send" /\ task[w].pc # "send"
    BY <2>1 DEF Idle
  <2>3. SendersSame
    BY <2>1, <2>2, TaskSame
  <2> QED
    BY <2>1, <2>3, RestSame, LoadUnmoved
<1>3. ASSUME TryPick(w)
      PROVE  LoadOK' /\ Load1' /\ Load2'
  <2>1. /\ task[w].pc = "pick" /\ UNCHANGED <<rest, starts, hubs, node_addr>>
        /\ \/ \E n \in Nodes \cup {NoNode} :
                /\ PickNodeForNewFuncCall(task[w].call, n)
                /\ task' = [task EXCEPT ![w].pc = "send", ![w].node = n]
           \/ task' = [task EXCEPT ![w].pc = "back"] /\ UNCHANGED <<nodeVars, wild>>
    BY <1>3, Zenon DEF TryPick, engineVars, rest
  <2>2. task[w] \in Handlers /\ task[w].pc \in Early /\ Carries(w, task[w].call) /\ task[w].call \in Calls
    BY <2>1, TaskFacts DEF PlaceInv, Early, Carries, Handlers
  <2>3. ASSUME NEW n \in Nodes \cup {NoNode}, PickNodeForNewFuncCall(task[w].call, n),
               task' = [task EXCEPT ![w].pc = "send", ![w].node = n]
        PROVE  LoadOK' /\ Load1' /\ Load2'
    <3>1. PICK h : h = [task[w] EXCEPT !.pc = "send", !.node = n]
      OBVIOUS
    <3>2. h \in Handlers /\ h.pc = "send" /\ h.call = task[w].call /\ h.node = n
      BY <2>2, <3>1 DEF Handlers, Early
    <3>3. task' = [task EXCEPT ![w] = h]
      BY <2>2, <2>3, <3>1 DEF PlaceInv, TasksOK
    <3>4. \A m \in Nodes : ~Sent(m, h.call)
      BY <2>2, <3>2 DEF PlaceInv, SentOnce
    <3>5. \A v \in Workers : task[v].pc = "send" => task[v].call # h.call
      <4>1. \A v \in Workers : task[v].pc = "send" /\ task[v].call = h.call => Carries(v, h.call)
        BY DEF Carries, Early
      <4> QED
        BY <2>1, <2>2, <3>2, <4>1 DEF PlaceInv, OnePlace
    <3> QED
      BY <2>1, <2>3, <3>2, <3>3, <3>4, <3>5, LoadPicked
  <2>4. ASSUME task' = [task EXCEPT ![w].pc = "back"], UNCHANGED <<nodeVars, wild>>
        PROVE  LoadOK' /\ Load1' /\ Load2'
    <3>1. SendersSame
      BY <2>1, <2>2, <2>4 DEF SendersSame, PlaceInv, TasksOK, Handlers
    <3>2. UNCHANGED <<nodes, hubs>>
      BY <2>1, <2>4 DEF nodes, nodeVars
    <3> QED
      BY <2>1, <3>1, <3>2, RestSame, LoadUnmoved
  <2> QED
    BY <2>1, <2>3, <2>4
<1> QED
  BY <1>1, <1>2, <1>3

\* The handlers of an answer: FuncCallFinished gives the place back.
LEMMA LoadAnswer ==
  ASSUME LoadOK, Load1, Load2, PlaceInv, HoldIs, NEW w \in Workers,
         OnRecvEngineMessage(w) \/ AnswerRunning(w) \/ AnswerFinish(w)
  PROVE  LoadOK' /\ Load1' /\ Load2'
<1>1. ASSUME OnRecvEngineMessage(w)
      PROVE  LoadOK' /\ Load1' /\ Load2'
  <2>1. PICK p \in InFlight, ok \in BOOLEAN :
          /\ task[w] = Idle /\ handled' = handled \cup {p} /\ FuncCallFinished(p[2], p[1])
          /\ task' = [task EXCEPT ![w] = [pc |-> "answer", call |-> p[2], ok |-> ok]]
          /\ UNCHANGED <<dispatched, taken, answered, lost, starts, wild, hubs, node_addr>>
    BY <1>1, Zenon DEF OnRecvEngineMessage, engineVars
  <2>2. PICK n \in Nodes, x \in Calls : p = <<n, x>>
    BY DEF InFlight
  <2>3. p[2] = x /\ p[1] = n
    BY <2>2
  <2>4. FuncCallFinished(x, n)
    BY <2>1, <2>3
  <2>5. answered[<<n, x>>] > 0 /\ <<n, x>> \notin handled /\ Sent(n, x)
    BY <2>2 DEF InFlight, Sent
  <2>6. \A m \in Nodes, y \in Calls : Sent(m, y)' <=> Sent(m, y)
    BY <2>1, <2>2, <2>5 DEF Sent
  <2>7. SentSame
    BY <2>6 DEF SentSame
  <2>8. SendersSame
    <3>1. task[w].pc # "send"
      BY <2>1 DEF Idle
    <3>2. PICK h : h = [pc |-> "answer", call |-> p[2], ok |-> ok]
      OBVIOUS
    <3>3. h.pc # "send" /\ task' = [task EXCEPT ![w] = h]
      BY <2>1, <3>2
    <3> QED
      BY <3>1, <3>3, TaskSame
  <2>9. \A m \in Nodes, y \in Calls : Sent(m, y) /\ y = x => m = n
    BY <2>5 DEF PlaceInv, SentOnce
  <2>10. \A m \in Places : ~Sending(m, x)
    <3>1. \A v \in Workers : task[v].pc = "send" => task[v].pc \in Early /\ Carries(v, task[v].call)
      BY DEF Carries, Early
    <3> QED
      BY <2>5, <3>1 DEF Sending, PlaceInv, SentOnce
  <2>11. \A m \in Places, y \in Calls : Sending(m, y)' <=> Sending(m, y)
    BY <2>8 DEF Sending, SendersSame
  <2>12. \A m \in Places, y \in Calls : Hold(m, y)' <=> Hold(m, y) /\ y # x
    <3> SUFFICES ASSUME NEW m \in Places, NEW y \in Calls
                 PROVE  Hold(m, y)' <=> Hold(m, y) /\ y # x
      OBVIOUS
    <3>1. <<m, y>> \in handled' <=> <<m, y>> \in handled \/ (m = n /\ y = x)
      BY <2>1, <2>2
    <3>2. m \in Nodes => (Sent(m, y)' <=> Sent(m, y)) /\ (Sent(m, y) /\ y = x => m = n)
      BY <2>6, <2>9
    <3> QED
      BY <2>5, <2>10, <2>11, <3>1, <3>2 DEF Hold
  <2>13. n \in Places /\ Hold(n, x) /\ \A m \in Places : Hold(m, x) => m = n
    BY <2>5, <2>9, <2>10 DEF Hold, Places
  <2>14. \A v \in Workers : task'[v].pc = "send" => task'[v] = task[v]
    BY <2>8 DEF SendersSame
  <2> QED
    BY <2>1, <2>4, <2>7, <2>12, <2>13, <2>14, LoadGone
<1>2. ASSUME AnswerRunning(w) \/ AnswerFinish(w)
      PROVE  LoadOK' /\ Load1' /\ Load2'
  <2>1. /\ task[w].pc \in {"answer", "finish"} /\ UNCHANGED <<rest, nodes, hubs>>
        /\ \/ task' = [task EXCEPT ![w] = Idle]
           \/ \E pc \in {"finish", "try"} : task' = [task EXCEPT ![w].pc = pc]
    <3>1. CASE AnswerRunning(w)
      BY <3>1 DEF AnswerRunning, nodeVars, engineVars, rest, nodes
    <3>2. CASE AnswerFinish(w)
      BY <3>2, ZenonT(60) DEF AnswerFinish, nodeVars, engineVars, histVars, rest, nodes
    <3> QED
      BY <1>2, <3>1, <3>2
  <2>2. task[w] \in AnswerHandlers
    BY <2>1, TaskFacts DEF PlaceInv
  <2>3. SendersSame
    BY <2>1, <2>2 DEF SendersSame, PlaceInv, TasksOK, AnswerHandlers, Idle
  <2> QED
    BY <2>1, <2>3, RestSame, LoadUnmoved
<1> QED
  BY <1>1, <1>2

\* Every step keeps the load.
LEMMA LoadStep ==
  ASSUME LoadOK, Load1, Load2, PlaceInv, PoolOK, HoldIs, [Next]_vars
  PROVE  LoadOK' /\ Load1' /\ Load2'
<1>1. ASSUME \E w \in Workers : Quiet(w)
      PROVE  LoadOK' /\ Load1' /\ Load2'
  <2>1. PICK w \in Workers : Quiet(w)
    BY <1>1
  <2>2. UNCHANGED <<task, rest>>
    BY <2>1, QuietFacts
  <2>3. CASE \E n \in Nodes : HubDown(w, n)
    BY <2>2, <2>3, LoadNodes
  <2>4. CASE ~ \E n \in Nodes : HubDown(w, n)
    <3>1. UNCHANGED <<nodes, hubs>>
      BY <2>1, <2>4, Zenon DEF Quiet, RunScheduledFunctions, H2OnStreamClose, HttpScheduleClose,
         GrpcScheduleClose, nodes, nodeVars, workVars, engineVars, histVars
    <3>2. SendersSame
      BY <2>2 DEF SendersSame
    <3> QED
      BY <2>2, <3>1, <3>2, RestSame, LoadUnmoved
  <2> QED
    BY <2>3, <2>4
<1>2. ASSUME \E n \in Nodes : QuietNode(n)
      PROVE  LoadOK' /\ Load1' /\ Load2'
  <2>1. UNCHANGED <<task, rest>>
    BY <1>2, QuietElsewhere
  <2> QED
    BY <1>2, <2>1, LoadNodes
<1>3. ASSUME (\E c \in Conns : QuietConn(c)) \/ UNCHANGED vars
      PROVE  LoadOK' /\ Load1' /\ Load2'
  <2>1. UNCHANGED <<task, rest>>
    BY <1>3, QuietElsewhere
  <2>2. UNCHANGED <<nodes, hubs>>
    BY <1>3, Zenon DEF QuietConn, OnNewConnection, EnterConnection, WorkerOnConnectionClose, OnConnectionClose,
       nodes, nodeVars, workVars, engineVars, histVars, vars
  <2>3. SendersSame
    BY <2>1 DEF SendersSame
  <2> QED
    BY <2>1, <2>2, <2>3, RestSame, LoadUnmoved
<1>4. ASSUME EngineWorks \/ \E n \in Nodes : EngineCrash(n)
      PROVE  LoadOK' /\ Load1' /\ Load2'
  <2>1. SentSame
    BY <1>4, PlaceElsewhere DEF SentSame
  <2>2. UNCHANGED <<task, handled, nodes, hubs>>
    BY <1>4, Zenon DEF EngineWorks, EngineCrash, nodes, nodeVars, workVars, histVars
  <2>3. SendersSame
    BY <2>2 DEF SendersSame
  <2> QED
    BY <2>1, <2>2, <2>3, LoadUnmoved
<1> QED
  BY <1>1, <1>2, <1>3, <1>4, LoadHandler, LoadTry, LoadAnswer, Zenon
  DEF Next, Quiet, QuietConn, QuietNode

\* At the start NodeManager knows no node.
LEMMA InitLoad ==
  ASSUME Init
  PROVE  LoadOK /\ Load1 /\ Load2
<1>1. \A w \in Workers : task[w].pc = "idle"
  BY DEF Init, Idle
<1>2. \A n \in Nodes, x \in Calls : ~Sent(n, x)
  BY DEF Init, Sent
<1>3. \A n \in Places, x \in Calls : ~Hold(n, x)
  BY <1>1, <1>2 DEF Hold, Sending
<1>4. LoadOK
  <2>1. /\ connected_nodes = {} /\ connected_node_list = {} /\ node_addr = {} /\ wild = FALSE
        /\ starts = [n \in Nodes |-> 0] /\ hubs = [w \in Workers |-> [n \in Nodes |-> 0]]
        /\ inflight_requests = [n \in Nodes |-> 0]
    BY DEF Init
  <2>2. /\ starts \in [Nodes -> Nat] /\ hubs \in [Workers -> [Nodes -> Nat]]
        /\ inflight_requests \in [Nodes -> Int]
        /\ \A w \in Workers, n \in Nodes : hubs[w][n] = 0
    BY <2>1
  <2> QED
    BY <1>1, <1>2, <2>1, <2>2 DEF LoadOK
<1>5. Load1 /\ Load2
  BY <1>3 DEF Init, Load1, Load2
<1> QED
  BY <1>4, <1>5

\* A call is in one place at a time: queued, in the hands of one handler, or
\* sent, once and to one node; and the answer of an engine is handled once.
THEOREM GatewayPlaces == Spec => []PlaceInv
<1>1. Init => PlaceInv /\ PoolOK
  BY InitPlace
<1>2. PlaceInv /\ PoolOK /\ [Next]_vars => (PlaceInv /\ PoolOK)'
  BY PlaceStep
<1> QED
  BY <1>1, <1>2, PTL DEF Spec

\* NodeManager counts what is really under way, whichever handler fails or
\* finishes a call: running_requests_ has the calls that hold a place at a
\* node, and inflight_requests their number (node_manager.cpp:45, :64).
THEOREM GatewayLoad == Spec => []LoadIsReal
<1>1. Init => PlaceInv /\ PoolOK /\ LoadOK /\ Load1 /\ Load2
  BY InitPlace, InitLoad
<1>2. PlaceInv /\ PoolOK /\ LoadOK /\ Load1 /\ Load2 /\ [Next]_vars
        => (PlaceInv /\ PoolOK /\ LoadOK /\ Load1 /\ Load2)'
  BY PlaceStep, LoadStep, HoldingIs
<1>3. PlaceInv /\ LoadOK /\ Load1 /\ Load2 => LoadIsReal
  BY HoldingIs, LoadIs DEF LoadOK
<1> QED
  BY <1>1, <1>2, <1>3, PTL DEF Spec

-----------------------------------------------------------------------------
(* What a client is told. *)

\* The context and the connection of a call.
LEMMA CallContext ==
  ASSUME CallsOK, NEW x \in DOMAIN state
  PROVE  LET k == state[x].ctx
         IN /\ x \in Calls /\ x \in Nat \ {0} /\ k \in Contexts /\ ConnOf(k) \in Conns
            /\ ConnOf(k) \in HttpConns => k = HttpContext(ConnOf(k)) /\ Stream(x) = 0
            /\ ConnOf(k) \notin HttpConns =>
                 ConnOf(k) \in GrpcConns /\ k \in GrpcContexts /\ Stream(x) = x /\ Sync(x)
            /\ Sync(x) => state[x].conn = ConnOf(k)
<1>1. CallOK(state[x]) /\ x \in Calls /\ x \in Nat \ {0}
  BY KnownCalls DEF CallsOK
<1>2. NoConn \notin Conns /\ HttpConns \cap GrpcConns = {}
  BY GatewayAssumption
<1> QED
  BY <1>1, <1>2 DEF CallOK, Contexts, Conns, Stream, Sync

\* A context belongs to one call, and so does the end of a call that is
\* scheduled.
LEMMA OwnsOne ==
  ASSUME CallsOK, NEW x \in DOMAIN state, NEW y \in DOMAIN state, Owns(x), Owns(y),
         \/ state[x].ctx = state[y].ctx
         \/ ConnOf(state[x].ctx) = ConnOf(state[y].ctx) /\ Stream(x) = Stream(y)
  PROVE  x = y
<1>1. ASSUME state[x].ctx = state[y].ctx
      PROVE  x = y
  BY <1>1 DEF Owns
<1>2. ASSUME ConnOf(state[x].ctx) = ConnOf(state[y].ctx), Stream(x) = Stream(y)
      PROVE  x = y
  <2>1. CASE ConnOf(state[x].ctx) \in HttpConns
    <3>1. state[x].ctx = state[y].ctx
      BY <1>2, <2>1, CallContext
    <3> QED
      BY <1>1, <3>1
  <2>2. CASE ConnOf(state[x].ctx) \notin HttpConns
    BY <1>2, <2>2, CallContext
  <2> QED
    BY <2>1, <2>2
<1> QED
  BY <1>1, <1>2

\* The contexts after call x has got its outcome.
Finishes(x, cx) ==
  /\ DOMAIN cx = Contexts
  /\ \A j \in Contexts : DOMAIN cx[j] = Fields /\ (j # state[x].ctx => cx[j] = context[j])
  /\ cx[state[x].ctx].call = x /\ cx[state[x].ctx].stream = Stream(x)
  /\ OutcomeOf(x, cx[state[x].ctx])

\* What the end of call x does to its connection, or its stream.
FinishEffect(x, cx) ==
  LET k == state[x].ctx
      told == responses' = [responses EXCEPT ![x] = Append(@, Response(cx[k]))]
  IN \/ UNCHANGED <<recv, free, grpc_calls, responses>>
     \/ /\ ConnOf(k) \in HttpConns /\ told
        /\ recv' = [recv EXCEPT ![ConnOf(k)] = TRUE] /\ UNCHANGED <<free, grpc_calls>>
     \/ /\ ConnOf(k) \notin HttpConns /\ told /\ free' = free \cup {k}
        /\ grpc_calls' = [t \in DOMAIN grpc_calls \ {x} |-> grpc_calls[t]] /\ UNCHANGED recv

\* OnFuncCallFinishedInternal, for the context of a call.
LEMMA FinishedIs ==
  ASSUME CallsOK, StreamsOK, NEW x \in DOMAIN state, NEW cx, Finishes(x, cx),
         FinishedInternal(ConnOf(state[x].ctx), Stream(x), cx)
  PROVE  FinishEffect(x, cx)
<1>1. PICK k, c : k = state[x].ctx /\ c = ConnOf(k)
  OBVIOUS
<1>2. /\ c \in HttpConns => k = HttpContext(c)
      /\ c \notin HttpConns => Stream(x) = x
      /\ x \in DOMAIN grpc_calls => grpc_calls[x] = k
      /\ cx[k].call = x
  BY <1>1, CallContext DEF StreamsOK, Finishes
<1>3. CASE c \in HttpConns
  <2>1. HttpFinished(c, cx)
    BY <1>1, <1>3 DEF FinishedInternal
  <2> QED
    BY <1>1, <1>2, <1>3, <2>1, Zenon DEF FinishEffect, HttpFinished, SendHttpResponse
<1>4. CASE c \notin HttpConns
  <2>1. GrpcFinished(x, cx)
    BY <1>1, <1>2, <1>4 DEF FinishedInternal
  <2> QED
    BY <1>1, <1>2, <1>4, <2>1, Zenon DEF FinishEffect, GrpcFinished, H2SendResponse
<1> QED
  BY <1>3, <1>4

\* Connections: what all steps do to them.
ConnStep ==
  /\ conn_state' \in [Conns -> {"created", "running", "closing", "closed"}]
  /\ \A c \in Conns : conn_state[c] # "created" => conn_state'[c] # "created"

\* A connection that has had a call goes on reading, or waiting, as before.
RecvStep ==
  /\ recv' \in [HttpConns -> BOOLEAN]
  /\ \A x \in DOMAIN state : ConnOf(state[x].ctx) \in HttpConns =>
       recv'[ConnOf(state[x].ctx)] = recv[ConnOf(state[x].ctx)]

\* A step that ends no call and begins none.
LEMMA ContextQuiet ==
  ASSUME ContextInv, CallsOK, ConnStep, HandlersOK',
         UNCHANGED <<next_call_id, state, context, free, responses, scheduled>>, RecvStep,
         DOMAIN grpc_calls' \subseteq DOMAIN grpc_calls,
         \A s \in DOMAIN grpc_calls' : grpc_calls'[s] = grpc_calls[s],
         \A x \in DOMAIN state : Open(x)' => Open(x)
  PROVE  ContextInv'
<1>1. \A x \in DOMAIN state : (Owns(x)' <=> Owns(x)) /\ Stream(x)' = Stream(x) /\ Sync(x)' = Sync(x)
  BY DEF Owns, Stream, Sync, RecvStep
<1>2. ContextsOK'
  <2>1. \A x \in DOMAIN state : ConnOf(state[x].ctx) \in Conns
    BY CallContext
  <2>2. \A x \in DOMAIN state : conn_state'[ConnOf(state[x].ctx)] # "created"
    BY <2>1 DEF ContextInv, ContextsOK, ConnStep
  <2> QED
    BY <2>2 DEF ContextInv, ContextsOK, ConnStep, RecvStep
<1>3. StreamsOK'
  BY <1>1 DEF ContextInv, ContextsOK, StreamsOK
<1>4. OpenOK'
  BY <1>1 DEF ContextInv, OpenOK
<1>5. ScheduledOK'
  BY <1>1 DEF ContextInv, ScheduledOK, OutcomeOf
<1>6. WaitingOK'
  BY <1>1 DEF ContextInv, WaitingOK
<1>7. ResponseIsOfItsCall'
  BY <1>1 DEF ContextInv, ResponseIsOfItsCall
<1> QED
  BY <1>2, <1>3, <1>4, <1>5, <1>6, <1>7 DEF ContextInv

\* The end of call x, in its connection.
LEMMA ContextFinish ==
  ASSUME ContextInv, CallsOK, PoolOK, ConnStep, HandlersOK', NEW x \in DOMAIN state, NEW cx,
         Owns(x), Finishes(x, cx), context' = cx, FinishEffect(x, cx),
         scheduled' = scheduled \ {<<ConnOf(state[x].ctx), Stream(x)>>},
         UNCHANGED <<next_call_id, state>>,
         \A y \in DOMAIN state : Open(y)' => Open(y) /\ y # x
  PROVE  ContextInv'
<1> DEFINE k == state[x].ctx
           c == ConnOf(k)
           r == Response(cx[k])
<1>1. /\ x \in Calls /\ k \in Contexts /\ c \in Conns
      /\ c \in HttpConns => k = HttpContext(c)
      /\ c \notin HttpConns => k \in GrpcContexts
  BY CallContext
<1>2. \A y \in DOMAIN state :
        /\ Stream(y)' = Stream(y) /\ (Sync(y)' <=> Sync(y))
        /\ \A j : OutcomeOf(y, j)' <=> OutcomeOf(y, j)
        /\ y \in Calls /\ state[y].ctx \in Contexts /\ ConnOf(state[y].ctx) \in Conns
  BY CallContext DEF Stream, Sync, OutcomeOf
<1>3. /\ DOMAIN responses = Calls /\ responses[x] = <<>> /\ recv \in [HttpConns -> BOOLEAN]
      /\ k \notin free /\ (c \in HttpConns => ~recv[c])
  BY DEF ContextInv, ContextsOK, Owns
<1>4. Append(responses[x], r) = <<r>> /\ <<r>> # <<>>
  BY <1>3
<1>5. /\ DOMAIN responses' = Calls /\ \A y \in Calls : y # x => responses'[y] = responses[y]
      /\ responses'[x] = <<>> => UNCHANGED <<recv, free, grpc_calls, responses>>
      /\ responses'[x] = <<>> \/ responses'[x] = <<r>>
  BY <1>1, <1>3, <1>4 DEF FinishEffect
<1>6. /\ recv' \in [HttpConns -> BOOLEAN]
      /\ \A d \in HttpConns : d # c => recv'[d] = recv[d]
      /\ c \in HttpConns \/ recv' = recv
  BY <1>1, <1>3 DEF FinishEffect
<1>7. /\ free' \subseteq free \cup {k} /\ (free' = free \/ k \in GrpcContexts)
      /\ DOMAIN grpc_calls' \subseteq DOMAIN grpc_calls
      /\ \A s \in DOMAIN grpc_calls' : grpc_calls'[s] = grpc_calls[s]
      /\ x \in DOMAIN grpc_calls' => c \in HttpConns \/ responses'[x] = <<>>
  <2>1. CASE UNCHANGED <<recv, free, grpc_calls, responses>>
    BY <1>3, <2>1
  <2>2. CASE c \in HttpConns /\ UNCHANGED <<free, grpc_calls>>
    BY <2>2
  <2>3. CASE /\ c \notin HttpConns /\ free' = free \cup {k}
             /\ grpc_calls' = [t \in DOMAIN grpc_calls \ {x} |-> grpc_calls[t]]
    BY <1>1, <2>3
  <2> QED
    BY <2>1, <2>2, <2>3, Zenon DEF FinishEffect
<1>8. ASSUME NEW y \in DOMAIN state, y # x, Owns(y)
      PROVE  /\ Owns(y)' /\ context'[state[y].ctx] = context[state[y].ctx]
             /\ <<ConnOf(state[y].ctx), Stream(y)>> # <<c, Stream(x)>>
  <2>1. state[y].ctx # k /\ ~(ConnOf(state[y].ctx) = c /\ Stream(y) = Stream(x))
    BY <1>8, OwnsOne
  <2>2. context'[state[y].ctx] = context[state[y].ctx]
    BY <1>2, <2>1 DEF Finishes
  <2>3. ConnOf(state[y].ctx) \in HttpConns => recv'[ConnOf(state[y].ctx)] = recv[ConnOf(state[y].ctx)]
    <3>1. ASSUME ConnOf(state[y].ctx) \in HttpConns
          PROVE  ConnOf(state[y].ctx) # c
      BY <1>1, <2>1, <3>1, CallContext
    <3> QED
      BY <1>6, <3>1
  <2>4. state[y].ctx \notin free'
    BY <1>7, <1>8, <2>1 DEF Owns
  <2>5. responses'[y] = <<>>
    BY <1>2, <1>5, <1>8 DEF Owns
  <2> QED
    BY <1>2, <1>8, <2>1, <2>2, <2>3, <2>4, <2>5 DEF Owns
<1>9. responses'[x] = <<>> => Owns(x)'
  BY <1>2, <1>3, <1>5 DEF Owns, Finishes
<1> HIDE DEF k, c, r
<1>10. ContextsOK'
  <2>1. \A y \in DOMAIN state : conn_state'[ConnOf(state[y].ctx)] # "created"
    BY <1>2 DEF ContextInv, ContextsOK, ConnStep
  <2>2. DOMAIN context' = Contexts /\ \A j \in Contexts : DOMAIN context'[j] = Fields
    BY DEF Finishes
  <2>3. \A y \in Calls : y \notin DOMAIN state => responses'[y] = <<>>
    BY <1>5 DEF ContextInv, ContextsOK
  <2>4. DOMAIN grpc_calls' \subseteq DOMAIN state
    BY <1>7 DEF ContextInv, ContextsOK
  <2> QED
    BY <1>5, <1>6, <2>1, <2>2, <2>3, <2>4 DEF ContextsOK, ConnStep
<1>11. StreamsOK'
  <2> SUFFICES ASSUME NEW s \in DOMAIN grpc_calls'
               PROVE  state[s].ctx \in GrpcContexts /\ grpc_calls'[s] = state[s].ctx /\ Owns(s)'
    BY DEF StreamsOK
  <2>1. s \in DOMAIN state /\ state[s].ctx \in GrpcContexts /\ grpc_calls'[s] = state[s].ctx /\ Owns(s)
    BY <1>7 DEF ContextInv, ContextsOK, StreamsOK
  <2>2. CASE s = x
    <3>1. c \notin HttpConns
      BY <2>1, <2>2, GatewayAssumption DEF GrpcContexts, c, k, ConnOf
    <3> QED
      BY <1>7, <1>9, <2>1, <2>2, <3>1
  <2>3. CASE s # x
    BY <1>8, <2>1, <2>3
  <2> QED
    BY <2>2, <2>3
<1>12. OpenOK'
  <2> SUFFICES ASSUME NEW y \in DOMAIN state, Open(y)'
               PROVE  /\ Owns(y)' /\ context'[state[y].ctx].out = <<>>
                      /\ context'[state[y].ctx].async <=> ~Sync(y)
                      /\ <<ConnOf(state[y].ctx), Stream(y)>> \notin scheduled'
    BY <1>2 DEF OpenOK
  <2>1. y # x /\ Open(y)
    OBVIOUS
  <2>2. /\ Owns(y) /\ context[state[y].ctx].out = <<>>
        /\ context[state[y].ctx].async <=> ~Sync(y)
        /\ <<ConnOf(state[y].ctx), Stream(y)>> \notin scheduled
    BY <2>1 DEF ContextInv, OpenOK
  <2> QED
    BY <1>8, <2>1, <2>2
<1>13. ScheduledOK'
  <2> SUFFICES ASSUME NEW f \in scheduled'
               PROVE  \E y \in DOMAIN state : /\ f = <<ConnOf(state[y].ctx), Stream(y)>>
                                              /\ Owns(y)' /\ OutcomeOf(y, context'[state[y].ctx])
    BY <1>2 DEF ScheduledOK
  <2>1. PICK y \in DOMAIN state : /\ f = <<ConnOf(state[y].ctx), Stream(y)>>
                                  /\ Owns(y) /\ OutcomeOf(y, context[state[y].ctx])
    BY DEF ContextInv, ScheduledOK
  <2>2. y # x
    BY <2>1 DEF c, k
  <2> QED
    BY <1>8, <2>1, <2>2
<1>14. WaitingOK'
  <2> SUFFICES ASSUME NEW y \in DOMAIN state, ConnOf(state[y].ctx) \in HttpConns, responses'[y] = <<>>
               PROVE  Owns(y)'
    BY DEF WaitingOK
  <2>1. CASE y = x
    BY <1>9, <2>1
  <2>2. CASE y # x
    <3>1. Owns(y)
      BY <1>2, <1>5, <2>2 DEF ContextInv, WaitingOK
    <3> QED
      BY <1>8, <2>2, <3>1
  <2> QED
    BY <2>1, <2>2
<1>15. ResponseIsOfItsCall'
  <2> SUFFICES ASSUME NEW y \in DOMAIN state
               PROVE  /\ Len(responses'[y]) <= 1
                      /\ \A i \in DOMAIN responses'[y] :
                           /\ responses'[y][i].status \in {"ok", "failed", "notfound"}
                           /\ responses'[y][i].out = IF responses'[y][i].status = "ok" /\ Sync(y)
                                                       THEN <<y>> ELSE <<>>
    BY <1>2 DEF ResponseIsOfItsCall
  <2>1. CASE y = x
    <3>1. CASE responses'[x] = <<>>
      BY <2>1, <3>1
    <3>2. CASE responses'[x] = <<r>>
      <4>1. r.status \in Outcomes /\ r.out = IF r.status = "ok" /\ Sync(x) THEN <<x>> ELSE <<>>
        BY DEF r, k, Response, Finishes, OutcomeOf
      <4>2. Len(<<r>>) <= 1 /\ DOMAIN <<r>> = {1} /\ <<r>>[1] = r
        OBVIOUS
      <4> QED
        BY <2>1, <3>2, <4>1, <4>2 DEF Outcomes
    <3> QED
      BY <1>5, <3>1, <3>2
  <2>2. CASE y # x
    BY <1>2, <1>5, <2>2 DEF ContextInv, ResponseIsOfItsCall
  <2> QED
    BY <2>1, <2>2
<1> QED
  BY <1>10, <1>11, <1>12, <1>13, <1>14, <1>15 DEF ContextInv

\* The end of call x is scheduled on the worker of its connection.
LEMMA ContextSchedule ==
  ASSUME ContextInv, CallsOK, ConnStep, HandlersOK', NEW x \in DOMAIN state, NEW cx,
         Owns(x), Finishes(x, cx), context' = cx,
         scheduled' = scheduled \cup {<<ConnOf(state[x].ctx), Stream(x)>>},
         <<ConnOf(state[x].ctx), Stream(x)>> \notin scheduled,
         UNCHANGED <<next_call_id, state, recv, free, grpc_calls, responses>>,
         \A y \in DOMAIN state : Open(y)' => Open(y) /\ y # x
  PROVE  ContextInv'
<1> DEFINE k == state[x].ctx
           c == ConnOf(k)
<1>2. \A y \in DOMAIN state :
        /\ Stream(y)' = Stream(y) /\ (Sync(y)' <=> Sync(y))
        /\ \A j : OutcomeOf(y, j)' <=> OutcomeOf(y, j)
        /\ y \in Calls /\ state[y].ctx \in Contexts /\ ConnOf(state[y].ctx) \in Conns
  BY CallContext DEF Stream, Sync, OutcomeOf
<1>8. ASSUME NEW y \in DOMAIN state, y # x, Owns(y)
      PROVE  /\ Owns(y)' /\ context'[state[y].ctx] = context[state[y].ctx]
             /\ <<ConnOf(state[y].ctx), Stream(y)>> # <<c, Stream(x)>>
  <2>1. state[y].ctx # k /\ ~(ConnOf(state[y].ctx) = c /\ Stream(y) = Stream(x))
    BY <1>8, OwnsOne
  <2>2. context'[state[y].ctx] = context[state[y].ctx]
    BY <1>2, <2>1 DEF Finishes
  <2> QED
    BY <1>2, <1>8, <2>1, <2>2 DEF Owns
<1>9. Owns(x)'
  BY <1>2 DEF Owns, Finishes
<1> HIDE DEF k, c
<1>10. ContextsOK'
  <2>1. \A y \in DOMAIN state : conn_state'[ConnOf(state[y].ctx)] # "created"
    BY <1>2 DEF ContextInv, ContextsOK, ConnStep
  <2>2. DOMAIN context' = Contexts /\ \A j \in Contexts : DOMAIN context'[j] = Fields
    BY DEF Finishes
  <2> QED
    BY <2>1, <2>2 DEF ContextInv, ContextsOK, ConnStep
<1>11. StreamsOK'
  <2> SUFFICES ASSUME NEW s \in DOMAIN grpc_calls
               PROVE  state[s].ctx \in GrpcContexts /\ grpc_calls[s] = state[s].ctx /\ Owns(s)'
    BY DEF StreamsOK
  <2>1. s \in DOMAIN state /\ state[s].ctx \in GrpcContexts /\ grpc_calls[s] = state[s].ctx /\ Owns(s)
    BY DEF ContextInv, ContextsOK, StreamsOK
  <2> QED
    BY <1>8, <1>9, <2>1
<1>12. OpenOK'
  <2> SUFFICES ASSUME NEW y \in DOMAIN state, Open(y)'
               PROVE  /\ Owns(y)' /\ context'[state[y].ctx].out = <<>>
                      /\ context'[state[y].ctx].async <=> ~Sync(y)
                      /\ <<ConnOf(state[y].ctx), Stream(y)>> \notin scheduled'
    BY <1>2 DEF OpenOK
  <2>1. y # x /\ Open(y)
    OBVIOUS
  <2>2. /\ Owns(y) /\ context[state[y].ctx].out = <<>>
        /\ context[state[y].ctx].async <=> ~Sync(y)
        /\ <<ConnOf(state[y].ctx), Stream(y)>> \notin scheduled
    BY <2>1 DEF ContextInv, OpenOK
  <2> QED
    BY <1>8, <2>1, <2>2 DEF c, k
<1>13. ScheduledOK'
  <2> SUFFICES ASSUME NEW f \in scheduled'
               PROVE  \E y \in DOMAIN state : /\ f = <<ConnOf(state[y].ctx), Stream(y)>>
                                              /\ Owns(y)' /\ OutcomeOf(y, context'[state[y].ctx])
    BY <1>2 DEF ScheduledOK
  <2>1. CASE f \in scheduled
    <3>1. PICK y \in DOMAIN state : /\ f = <<ConnOf(state[y].ctx), Stream(y)>>
                                    /\ Owns(y) /\ OutcomeOf(y, context[state[y].ctx])
      BY <2>1 DEF ContextInv, ScheduledOK
    <3>2. y # x
      BY <2>1, <3>1
    <3> QED
      BY <1>8, <3>1, <3>2
  <2>2. CASE f = <<ConnOf(state[x].ctx), Stream(x)>>
    BY <1>9, <2>2 DEF Finishes
  <2> QED
    BY <2>1, <2>2
<1>14. WaitingOK'
  <2> SUFFICES ASSUME NEW y \in DOMAIN state, ConnOf(state[y].ctx) \in HttpConns, responses[y] = <<>>
               PROVE  Owns(y)'
    BY DEF WaitingOK
  <2>1. Owns(y)
    BY DEF ContextInv, WaitingOK
  <2> QED
    BY <1>8, <1>9, <2>1
<1>15. ResponseIsOfItsCall'
  BY <1>2 DEF ContextInv, ResponseIsOfItsCall
<1> QED
  BY <1>10, <1>11, <1>12, <1>13, <1>14, <1>15 DEF ContextInv

\* What the context of a new call holds: x, of connection c and with state st.
Filled(cx, x, c, st) ==
  /\ DOMAIN cx = Fields /\ cx.call = x /\ cx.stream = IF c \in HttpConns THEN 0 ELSE x
  /\ cx.out = <<>> /\ (cx.async <=> st.conn = NoConn)

\* A new call of connection c gets context k, which nobody else has.
LEMMA ContextNew ==
  ASSUME ContextInv, CallsOK, PoolOK, HandlersOK', NEW c \in Conns, NEW k \in Contexts, NEW st,
         NEW x, x = next_call_id, x \in Calls, ConnOf(k) = c, conn_state[c] = "running",
         st.ctx = k, state' = Put(state, x, st), UNCHANGED <<responses, scheduled, conn_state>>,
         \/ /\ c \in HttpConns /\ k = HttpContext(c) /\ recv[c]
            /\ recv' = [recv EXCEPT ![c] = FALSE] /\ UNCHANGED <<free, grpc_calls>>
         \/ /\ c \in GrpcConns /\ k \in GrpcContexts /\ k \in free /\ UNCHANGED recv
            /\ free' = free \ {k} /\ grpc_calls' = Put(grpc_calls, x, k),
         NEW cx, context' = [context EXCEPT ![k] = cx], Filled(cx, x, c, st),
         \A y \in DOMAIN state : Open(y)' => Open(y)
  PROVE  ContextInv'
<1>a. /\ DOMAIN cx = Fields /\ cx.call = x /\ cx.stream = (IF c \in HttpConns THEN 0 ELSE x)
      /\ cx.out = <<>> /\ (cx.async <=> st.conn = NoConn)
  BY DEF Filled
<1>1. /\ x \notin DOMAIN state /\ x \in Nat \ {0} /\ HttpConns \cap GrpcConns = {}
  BY KnownCalls, GatewayAssumption DEF CallsOK
<1>2. /\ DOMAIN state' = DOMAIN state \cup {x} /\ state'[x] = st
      /\ \A y \in DOMAIN state : state'[y] = state[y]
  BY <1>1 DEF Put
<1>3. /\ \A y \in DOMAIN state :
           /\ Stream(y)' = Stream(y) /\ (Sync(y)' <=> Sync(y))
           /\ \A j : OutcomeOf(y, j)' <=> OutcomeOf(y, j)
           /\ y \in Calls /\ state[y].ctx \in Contexts /\ ConnOf(state[y].ctx) \in Conns
      /\ Stream(x)' = (IF c \in HttpConns THEN 0 ELSE x)
      /\ Sync(x)' <=> st.conn # NoConn
  BY <1>2, CallContext DEF Stream, Sync, OutcomeOf
<1>4. /\ DOMAIN context = Contexts /\ recv \in [HttpConns -> BOOLEAN] /\ DOMAIN responses = Calls
      /\ context'[k] = cx /\ DOMAIN context' = Contexts
      /\ \A j \in Contexts : j # k => context'[j] = context[j]
      /\ \A j \in Contexts : DOMAIN context'[j] = Fields
  BY <1>a DEF ContextInv, ContextsOK
<1>5. /\ recv' \in [HttpConns -> BOOLEAN] /\ free' \subseteq free
      /\ \A d \in HttpConns : recv'[d] => recv[d]
      /\ c \in HttpConns => ~recv'[c]
      /\ k \notin free'
  <2>1. CASE c \in HttpConns
    <3>1. k \notin GrpcContexts
      BY <1>1, <2>1 DEF GrpcContexts, ConnOf
    <3> QED
      BY <1>1, <1>4, <2>1, <3>1, ZenonT(60) DEF PoolOK
  <2>2. CASE c \in GrpcConns
    BY <1>1, <1>4, <2>2
  <2> QED
    BY <2>1, <2>2 DEF Conns
<1>6. ASSUME NEW y \in DOMAIN state, Owns(y)
      PROVE  /\ Owns(y)' /\ state[y].ctx # k /\ y # x
             /\ context'[state[y].ctx] = context[state[y].ctx]
  <2>1. state[y].ctx # k
    <3>1. CASE c \in HttpConns
      BY <1>1, <1>6, <3>1 DEF Owns
    <3>2. CASE c \in GrpcConns
      BY <1>1, <1>6, <3>2 DEF Owns
    <3> QED
      BY <3>1, <3>2 DEF Conns
  <2>2. context'[state[y].ctx] = context[state[y].ctx]
    BY <1>3, <1>4, <2>1
  <2>3. Owns(y)'
    <3>1. ConnOf(state[y].ctx) \in HttpConns => ~recv'[ConnOf(state[y].ctx)]
      BY <1>5, <1>6 DEF Owns
    <3> QED
      BY <1>2, <1>3, <1>5, <1>6, <2>2, <3>1 DEF Owns
  <2> QED
    BY <1>1, <2>1, <2>2, <2>3
<1>7. Owns(x)'
  <2>1. responses[x] = <<>>
    BY <1>1 DEF ContextInv, ContextsOK
  <2> QED
    BY <1>a, <1>2, <1>3, <1>4, <1>5, <2>1 DEF Owns
<1>8. <<c, Stream(x)'>> \notin scheduled
  <2> SUFFICES ASSUME <<c, Stream(x)'>> \in scheduled PROVE FALSE
    OBVIOUS
  <2>1. PICK y \in DOMAIN state : <<c, Stream(x)'>> = <<ConnOf(state[y].ctx), Stream(y)>> /\ Owns(y)
    BY DEF ContextInv, ScheduledOK
  <2>2. ConnOf(state[y].ctx) = c /\ Stream(y) = Stream(x)'
    BY <2>1
  <2>3. CASE c \in HttpConns
    <3>1. state[y].ctx = k
      BY <1>1, <2>2, <2>3, CallContext
    <3> QED
      BY <1>6, <2>1, <3>1
  <2>4. CASE c \notin HttpConns
    <3>1. y = x
      BY <1>3, <2>2, <2>4, CallContext
    <3> QED
      BY <1>1, <3>1
  <2> QED
    BY <2>3, <2>4
<1>9. ContextsOK'
  <2>1. DOMAIN grpc_calls' \subseteq DOMAIN state'
    BY <1>2 DEF ContextInv, ContextsOK, Put
  <2>2. \A y \in DOMAIN state' : conn_state[ConnOf(state'[y].ctx)] # "created"
    BY <1>2 DEF ContextInv, ContextsOK
  <2>3. \A y \in Calls : y \notin DOMAIN state' => responses[y] = <<>>
    BY <1>2 DEF ContextInv, ContextsOK
  <2> QED
    BY <1>4, <1>5, <2>1, <2>2, <2>3 DEF ContextInv, ContextsOK
<1>10. StreamsOK'
  <2> SUFFICES ASSUME NEW s \in DOMAIN grpc_calls'
               PROVE  state'[s].ctx \in GrpcContexts /\ grpc_calls'[s] = state'[s].ctx /\ Owns(s)'
    BY DEF StreamsOK
  <2>1. CASE s \in DOMAIN grpc_calls
    <3>1. s \in DOMAIN state /\ state[s].ctx \in GrpcContexts /\ grpc_calls[s] = state[s].ctx /\ Owns(s)
      BY <2>1 DEF ContextInv, ContextsOK, StreamsOK
    <3>2. grpc_calls'[s] = grpc_calls[s]
      BY <1>1, <2>1, <3>1 DEF Put
    <3> QED
      BY <1>2, <1>6, <3>1, <3>2
  <2>2. CASE s \notin DOMAIN grpc_calls
    <3>1. s = x /\ k \in GrpcContexts /\ grpc_calls'[s] = k
      BY <1>1, <2>2 DEF Put
    <3> QED
      BY <1>2, <1>7, <3>1
  <2> QED
    BY <2>1, <2>2
<1>11. OpenOK'
  <2> SUFFICES ASSUME NEW y \in DOMAIN state', Open(y)'
               PROVE  /\ Owns(y)' /\ context'[state'[y].ctx].out = <<>>
                      /\ context'[state'[y].ctx].async <=> ~Sync(y)'
                      /\ <<ConnOf(state'[y].ctx), Stream(y)'>> \notin scheduled
    BY DEF OpenOK
  <2>1. CASE y \in DOMAIN state
    <3>1. /\ Owns(y) /\ context[state[y].ctx].out = <<>>
          /\ context[state[y].ctx].async <=> ~Sync(y)
          /\ <<ConnOf(state[y].ctx), Stream(y)>> \notin scheduled
      BY <2>1 DEF ContextInv, OpenOK
    <3> QED
      BY <1>2, <1>3, <1>6, <2>1, <3>1
  <2>2. CASE y = x
    <3>1. context'[state'[y].ctx] = cx /\ ConnOf(state'[y].ctx) = c
      BY <1>2, <1>4, <2>2
    <3> QED
      BY <1>a, <1>3, <1>7, <1>8, <2>2, <3>1
  <2> QED
    BY <1>2, <2>1, <2>2
<1>12. ScheduledOK'
  <2> SUFFICES ASSUME NEW f \in scheduled
               PROVE  \E y \in DOMAIN state' :
                        /\ f = <<ConnOf(state'[y].ctx), Stream(y)'>>
                        /\ Owns(y)' /\ OutcomeOf(y, context[state[y].ctx])'
    BY DEF ScheduledOK
  <2>1. PICK y \in DOMAIN state : /\ f = <<ConnOf(state[y].ctx), Stream(y)>>
                                  /\ Owns(y) /\ OutcomeOf(y, context[state[y].ctx])
    BY DEF ContextInv, ScheduledOK
  <2> QED
    BY <1>2, <1>3, <1>6, <2>1 DEF OutcomeOf
<1>13. WaitingOK'
  <2> SUFFICES ASSUME NEW y \in DOMAIN state', ConnOf(state'[y].ctx) \in HttpConns, responses[y] = <<>>
               PROVE  Owns(y)'
    BY DEF WaitingOK
  <2>1. CASE y \in DOMAIN state
    BY <1>2, <1>6, <2>1 DEF ContextInv, WaitingOK
  <2>2. CASE y = x
    BY <1>7, <2>2
  <2> QED
    BY <1>2, <2>1, <2>2
<1>14. ResponseIsOfItsCall'
  <2>1. responses[x] = <<>>
    BY <1>1 DEF ContextInv, ContextsOK
  <2>2. \A y \in DOMAIN state :
          /\ Len(responses[y]) <= 1
          /\ \A i \in DOMAIN responses[y] :
               /\ responses[y][i].status \in {"ok", "failed", "notfound"}
               /\ responses[y][i].out = IF responses[y][i].status = "ok" /\ Sync(y)'
                                          THEN <<y>> ELSE <<>>
    BY <1>3 DEF ContextInv, ResponseIsOfItsCall
  <2>3. Len(responses[x]) <= 1 /\ DOMAIN responses[x] = {}
    BY <2>1
  <2> QED
    BY <1>2, <2>2, <2>3 DEF ResponseIsOfItsCall
<1> QED
  BY <1>9, <1>10, <1>11, <1>12, <1>13, <1>14 DEF ContextInv

\* The outcome of a call is written to its context.
LEMMA FinishesStatus ==
  ASSUME ContextInv, CallsOK, NEW x \in DOMAIN state, Open(x), NEW status \in Outcomes, NEW cx,
         \/ cx = [context EXCEPT ![state[x].ctx].status = status] /\ (status = "ok" => ~Sync(x))
         \/ /\ cx = [context EXCEPT ![state[x].ctx].status = status,
                                    ![state[x].ctx].out = Append(@, x)]
            /\ status = "ok" /\ Sync(x)
  PROVE  Finishes(x, cx)
<1>1. PICK k : k = state[x].ctx
  OBVIOUS
<1>2. /\ k \in Contexts /\ DOMAIN context = Contexts
      /\ \A j \in Contexts : DOMAIN context[j] = Fields
      /\ context[k].call = x /\ context[k].stream = Stream(x) /\ context[k].out = <<>>
  BY <1>1, CallContext DEF ContextInv, ContextsOK, OpenOK, Owns
<1>3. Append(<<>>, x) = <<x>>
  OBVIOUS
<1>4. CASE cx = [context EXCEPT ![k].status = status] /\ (status = "ok" => ~Sync(x))
  <2>1. /\ DOMAIN cx = Contexts /\ \A j \in Contexts : j # k => cx[j] = context[j]
        /\ cx[k] = [context[k] EXCEPT !.status = status]
    BY <1>2, <1>4
  <2>2. /\ DOMAIN cx[k] = Fields /\ cx[k].call = x /\ cx[k].stream = Stream(x)
        /\ cx[k].status = status /\ cx[k].out = <<>>
    BY <1>2, <2>1 DEF Fields
  <2>3. \A j \in Contexts : DOMAIN cx[j] = Fields
    BY <1>2, <2>1, <2>2, SMTT(60)
  <2> QED
    BY <1>1, <1>4, <2>1, <2>2, <2>3 DEF Finishes, OutcomeOf
<1>5. CASE /\ cx = [context EXCEPT ![k].status = status, ![k].out = Append(@, x)]
           /\ status = "ok" /\ Sync(x)
  <2>1. /\ DOMAIN cx = Contexts /\ \A j \in Contexts : j # k => cx[j] = context[j]
        /\ cx[k] = [context[k] EXCEPT !.status = status, !.out = Append(@, x)]
    BY <1>2, <1>5
  <2>2. /\ DOMAIN cx[k] = Fields /\ cx[k].call = x /\ cx[k].stream = Stream(x)
        /\ cx[k].status = status /\ cx[k].out = <<x>>
    BY <1>2, <1>3, <2>1 DEF Fields
  <2>3. \A j \in Contexts : DOMAIN cx[j] = Fields
    BY <1>2, <2>1, <2>2
  <2> QED
    BY <1>1, <1>5, <2>1, <2>2, <2>3, ZenonT(60) DEF Finishes, OutcomeOf
<1> QED
  BY <1>1, <1>4, <1>5

\* FinishFuncCall, for a call whose end was still to come.
LEMMA ContextHandOver ==
  ASSUME ContextInv, CallsOK, PoolOK, ConnStep, HandlersOK', NEW x \in DOMAIN state, NEW cx, NEW w,
         Open(x), Finishes(x, cx), FinishFuncCall(w, state[x].ctx, cx),
         UNCHANGED <<next_call_id, state>>,
         \A y \in DOMAIN state : Open(y)' => Open(y) /\ y # x
  PROVE  ContextInv'
<1>1. PICK k, c, s : k = state[x].ctx /\ c = ConnOf(k) /\ s = Stream(x)
  OBVIOUS
<1>2. Owns(x) /\ <<c, s>> \notin scheduled /\ cx[k].stream = s
  BY <1>1 DEF ContextInv, OpenOK, Finishes
<1>3. /\ context' = cx
      /\ \/ FinishedInternal(c, s, cx) /\ UNCHANGED scheduled
         \/ /\ scheduled' = scheduled \cup {<<c, s>>}
            /\ UNCHANGED <<recv, free, grpc_calls, responses>>
  BY <1>1, <1>2, Zenon DEF FinishFuncCall, ScheduleFunction
<1>4. CASE FinishedInternal(c, s, cx) /\ UNCHANGED scheduled
  <2>1. FinishedInternal(ConnOf(state[x].ctx), Stream(x), cx)
    BY <1>1, <1>4
  <2>2. FinishEffect(x, cx)
    BY <2>1, FinishedIs DEF ContextInv
  <2>3. scheduled' = scheduled \ {<<ConnOf(state[x].ctx), Stream(x)>>}
    BY <1>1, <1>2, <1>4
  <2> QED
    BY <1>2, <1>3, <2>2, <2>3, ContextFinish
<1>5. CASE /\ scheduled' = scheduled \cup {<<c, s>>}
           /\ UNCHANGED <<recv, free, grpc_calls, responses>>
  <2>1. /\ scheduled' = scheduled \cup {<<ConnOf(state[x].ctx), Stream(x)>>}
        /\ <<ConnOf(state[x].ctx), Stream(x)>> \notin scheduled
    BY <1>1, <1>2, <1>5
  <2> QED
    BY <1>2, <1>3, <1>5, <2>1, ContextSchedule
<1> QED
  BY <1>3, <1>4, <1>5

\* A call that is open after a step of a handler was so before.
LEMMA OpenTask ==
  ASSUME PlaceInv, NEW w \in Workers, NEW h, task' = [task EXCEPT ![w] = h],
         NEW x \in DOMAIN state, state'[x] = state[x],
         Sync(x) /\ x \in Listed(pending_func_calls') => Open(x),
         \A n \in Nodes : Sync(x) /\ Sent(n, x)' /\ <<n, x>> \notin handled' => Open(x),
         h.pc \in Early /\ (h.from = "new" \/ Sync(x)) /\ h.call = x => Open(x),
         h.pc \in {"answer", "finish"} /\ Sync(x) /\ h.call = x => Open(x)
  PROVE  Open(x)' => Open(x)
<1>1. DOMAIN task = Workers
  BY DEF PlaceInv, TasksOK
<1>2. task'[w] = h /\ \A v \in Workers : v # w => task'[v] = task[v]
  BY <1>1
<1>3. Sync(x)' <=> Sync(x)
  BY DEF Sync
<1>4. ASSUME NEW v \in Workers, Carries(v, x)', task'[v].pc \in Early, task'[v].from = "new" \/ Sync(x)
      PROVE  Open(x)
  <2>1. CASE v = w
    BY <1>2, <1>4, <2>1 DEF Carries
  <2>2. CASE v # w
    BY <1>2, <1>4, <2>2 DEF Carries, Open
  <2> QED
    BY <2>1, <2>2
<1>5. ASSUME NEW v \in Workers, Reports(v, x)', Sync(x)
      PROVE  Open(x)
  <2>1. CASE v = w
    BY <1>2, <1>5, <2>1 DEF Reports
  <2>2. CASE v # w
    BY <1>2, <1>5, <2>2 DEF Reports, Open
  <2> QED
    BY <2>1, <2>2
<1> QED
  BY <1>3, <1>4, <1>5 DEF Open

\* HandlersOK, when one handler changes.
LEMMA HandlersKept ==
  ASSUME PlaceInv, HandlersOK, NEW w \in Workers, NEW h, task' = [task EXCEPT ![w] = h],
         \A x \in DOMAIN state : state'[x] = state[x],
         h.pc = "queue" => h.from = "new", h.pc = "finish" => Sync(h.call)'
  PROVE  HandlersOK'
<1>1. DOMAIN task = Workers
  BY DEF PlaceInv, TasksOK
<1>2. task'[w] = h /\ \A v \in Workers : v # w => task'[v] = task[v]
  BY <1>1
<1>3. \A v \in Workers : task[v].pc = "finish" => task[v].call \in DOMAIN state
  BY TaskFacts DEF PlaceInv, CallsOK
<1>4. \A v \in Workers : v # w /\ task[v].pc = "finish" => Sync(task[v].call)'
  BY <1>3 DEF HandlersOK, Sync
<1> QED
  BY <1>2, <1>4 DEF HandlersOK

\* Connections that a handler leaves alone or, when its request had a bad
\* tail, closes.
LEMMA ConnKept ==
  ASSUME ContextsOK, UNCHANGED conn_state
  PROVE  ConnStep
BY DEF ContextsOK, ConnStep

\* The end of the handler of a new call.
LEMMA EndNewFacts ==
  ASSUME ContextsOK, NEW w, EndNew(w)
  PROVE  ConnStep /\ task' = [task EXCEPT ![w] = Idle]
<1>1. /\ task' = [task EXCEPT ![w] = Idle]
      /\ \/ UNCHANGED conn_state
         \/ \E c : conn_state' = [conn_state EXCEPT ![c] = "closing"]
  BY Zenon DEF EndNew
<1> QED
  BY <1>1 DEF ContextsOK, ConnStep

\* A step of a handler that brings no call back: what is open after it was
\* open before.  h is what the handler becomes.
StaysOpen(h) ==
  \A y \in DOMAIN state :
    /\ state'[y] = state[y]
    /\ Sync(y) /\ y \in Listed(pending_func_calls') => Open(y)
    /\ \A n \in Nodes : Sync(y) /\ Sent(n, y)' /\ <<n, y>> \notin handled' => Open(y)
    /\ h.pc \in Early /\ (h.from = "new" \/ Sync(y)) /\ h.call = y => Open(y)
    /\ h.pc \in {"answer", "finish"} /\ Sync(y) /\ h.call = y => Open(y)

\* A call that is open after the step of a handler was open before.
LEMMA OpenBefore ==
  ASSUME PlaceInv, NEW w \in Workers, NEW h, task' = [task EXCEPT ![w] = h], StaysOpen(h)
  PROVE  \A y \in DOMAIN state : Open(y)' => Open(y)
BY OpenTask DEF StaysOpen

\* StaysOpen, for a step that sends nothing and only takes calls from the queue.
LEMMA OpenPlaces ==
  ASSUME PlaceInv, UNCHANGED <<state, rest>>, NEW h,
         \A y \in Listed(pending_func_calls') : y \in Listed(pending_func_calls) \/ Open(y) \/ ~Sync(y),
         h.pc \in Early => \A y \in DOMAIN state :
           (h.from = "new" \/ Sync(y)) /\ h.call = y => Open(y),
         h.pc \in {"answer", "finish"} => \A y \in DOMAIN state : Sync(y) /\ h.call = y => Open(y)
  PROVE  StaysOpen(h)
<1>1. SentSame /\ UNCHANGED handled
  BY RestSame
<1>2. \A y \in DOMAIN state : y \in Calls
  BY CallContext DEF PlaceInv
<1>3. \A y \in DOMAIN state, n \in Nodes : Sync(y) /\ Sent(n, y)' /\ <<n, y>> \notin handled' => Open(y)
  BY <1>1, <1>2 DEF SentSame, Open
<1>4. \A y \in DOMAIN state : Sync(y) /\ y \in Listed(pending_func_calls') => Open(y)
  BY DEF Open
<1> QED
  BY <1>3, <1>4 DEF StaysOpen

\* A step of a handler that ends no call and begins none.
LEMMA ContextMove ==
  ASSUME ContextInv, PlaceInv, ConnStep, NEW w \in Workers, NEW h, task' = [task EXCEPT ![w] = h],
         UNCHANGED <<next_call_id, state, context, recv, free, grpc_calls, responses, scheduled>>,
         h.pc = "queue" => h.from = "new", h.pc = "finish" => Sync(h.call), StaysOpen(h)
  PROVE  ContextInv'
<1>1. Sync(h.call)' <=> Sync(h.call)
  BY DEF Sync
<1>2. HandlersOK'
  BY <1>1, HandlersKept DEF ContextInv
<1>3. CallsOK /\ \A y \in DOMAIN state : Open(y)' => Open(y)
  BY OpenBefore DEF PlaceInv
<1>4. RecvStep
  BY DEF RecvStep, ContextInv, ContextsOK
<1> QED
  BY <1>2, <1>3, <1>4, ContextQuiet

\* A step of a handler that hands over the end of call x.
LEMMA ContextEnd ==
  ASSUME ContextInv, PlaceInv, PoolOK, ConnStep, NEW w \in Workers, NEW h,
         task' = [task EXCEPT ![w] = h], UNCHANGED <<next_call_id, state>>,
         h.pc # "queue", h.pc # "finish", StaysOpen(h),
         NEW x \in DOMAIN state, NEW cx, Open(x), Finishes(x, cx),
         FinishFuncCall(w, state[x].ctx, cx), ~Open(x)'
  PROVE  ContextInv'
<1>2. HandlersOK'
  BY HandlersKept DEF ContextInv
<1>3. CallsOK /\ \A y \in DOMAIN state : Open(y)' => Open(y) /\ y # x
  BY OpenBefore DEF PlaceInv
<1> QED
  BY <1>2, <1>3, ContextHandOver

\* The call a handler has, before it is sent and when its answer is there.
LEMMA EarlyCall ==
  ASSUME PlaceInv, NEW w \in Workers, task[w].pc \in Early, NEW x, x = task[w].call
  PROVE  /\ x \in DOMAIN state /\ x \in Calls /\ Carries(w, x) /\ task[w] \in Handlers
         /\ task[w].from = "new" \/ Sync(x) => Open(x)
         /\ x \notin Listed(pending_func_calls) /\ x \notin running_func_calls
         /\ \A n \in Nodes : ~Sent(n, x)
         /\ \A v \in Workers : ~Reports(v, x) /\ (Carries(v, x) => v = w)
<1>1. task[w] \in Handlers /\ x \in DOMAIN state /\ x \in Calls /\ Carries(w, x)
  BY TaskFacts, KnownCalls DEF PlaceInv, CallsOK, Carries
<1>2. \A n \in Nodes : ~Sent(n, x)
  BY <1>1 DEF PlaceInv, SentOnce
<1>3. \A v \in Workers : ~Reports(v, x)
  BY <1>1, <1>2 DEF PlaceInv, AnsweredOnce, Sent
<1> QED
  BY <1>1, <1>2, <1>3 DEF PlaceInv, OnePlace, Open

\* The call whose answer is being handled.
LEMMA ReportedCall ==
  ASSUME PlaceInv, NEW w \in Workers, task[w].pc \in {"answer", "finish"}, NEW x, x = task[w].call
  PROVE  /\ x \in DOMAIN state /\ x \in Calls /\ Reports(w, x) /\ task[w] \in AnswerHandlers
         /\ Sync(x) => Open(x)
         /\ x \notin Listed(pending_func_calls)
         /\ \A n \in Nodes : Sent(n, x) => <<n, x>> \in handled
         /\ \A v \in Workers : /\ Reports(v, x) => v = w
                               /\ ~(Carries(v, x) /\ task[v].pc \in Early)
<1>1. task[w] \in AnswerHandlers /\ x \in DOMAIN state /\ x \in Calls /\ Reports(w, x)
  BY TaskFacts, KnownCalls DEF PlaceInv, CallsOK, Reports
<1>2. PICK m \in Nodes : <<m, x>> \in handled /\ Sent(m, x)
  BY <1>1 DEF PlaceInv, AnsweredOnce, Sent
<1>3. \A n \in Nodes : Sent(n, x) => <<n, x>> \in handled
  BY <1>1, <1>2 DEF PlaceInv, SentOnce
<1>4. \A v \in Workers : ~(Carries(v, x) /\ task[v].pc \in Early)
  BY <1>1, <1>2 DEF PlaceInv, SentOnce
<1> QED
  BY <1>1, <1>2, <1>3, <1>4 DEF PlaceInv, SentOnce, AnsweredOnce, Open

\* The end of a call that a handler gives up, or has answered.
LEMMA NoLongerOpen ==
  ASSUME PlaceInv, NEW w \in Workers, NEW h, task' = [task EXCEPT ![w] = h],
         task[w].pc \in Early \cup {"answer", "finish"}, NEW x, x = task[w].call,
         UNCHANGED <<state, rest, pending_func_calls>>, h.pc \in {"idle", "try"}
  PROVE  ~Open(x)'
<1>1. /\ DOMAIN task = Workers /\ x \in Calls /\ x \notin Listed(pending_func_calls)
      /\ \A n \in Nodes : Sent(n, x) => <<n, x>> \in handled
      /\ \A v \in Workers : Reports(v, x) \/ (Carries(v, x) /\ task[v].pc \in Early) => v = w
  BY EarlyCall, ReportedCall DEF PlaceInv, TasksOK
<1>2. task'[w] = h /\ \A v \in Workers : v # w => task'[v] = task[v]
  BY <1>1
<1>3. \A v \in Workers : ~(Reports(v, x)' \/ (Carries(v, x)' /\ task'[v].pc \in Early))
  <2>1. ~(Reports(w, x)' \/ (Carries(w, x)' /\ task'[w].pc \in Early))
    BY <1>2 DEF Reports, Carries, Early
  <2>2. ASSUME NEW v \in Workers, v # w
        PROVE  ~(Reports(v, x)' \/ (Carries(v, x)' /\ task'[v].pc \in Early))
    BY <1>1, <1>2, <2>2 DEF Reports, Carries
  <2> QED
    BY <2>1, <2>2
<1>4. SentSame /\ UNCHANGED handled
  BY RestSame
<1>5. \A n \in Nodes : Sent(n, x)' => <<n, x>> \in handled'
  BY <1>1, <1>4 DEF SentSame
<1>6. x \notin Listed(pending_func_calls)'
  BY <1>1
<1> QED
  BY <1>3, <1>5, <1>6 DEF Open

-----------------------------------------------------------------------------
(* Every step keeps ContextInv. *)

\* A request, over HTTP or gRPC.
LEMMA ContextRequest ==
  ASSUME ContextInv, PlaceInv, PoolOK, NEW w \in Workers,
         \/ \E c \in HttpConns, async, bad \in BOOLEAN : OnNewHttpRequest(w, c, async, bad)
         \/ \E c \in GrpcConns : OnNewGrpcCall(w, c)
  PROVE  ContextInv'
<1>0. CallsOK /\ HttpConns \cap GrpcConns = {} /\ NoConn \notin Conns
  BY GatewayAssumption DEF PlaceInv
<1>1. ASSUME NEW c \in Conns, NEW k \in Contexts, NEW st, NEW async \in Flag, NEW bad \in Flag,
             MayCall, OnNewFuncCall(w, c, k, st, async, bad), ConnOf(k) = c, st.ctx = k,
             async <=> st.conn = NoConn, conn_state[c] = "running",
             UNCHANGED <<rest, pending_func_calls, responses, scheduled, conn_state>>,
             \/ /\ c \in HttpConns /\ k = HttpContext(c) /\ recv[c]
                /\ recv' = [recv EXCEPT ![c] = FALSE] /\ UNCHANGED <<free, grpc_calls>>
             \/ /\ c \in GrpcConns /\ k \in GrpcContexts /\ k \in free /\ UNCHANGED recv
                /\ free' = free \ {k} /\ grpc_calls' = Put(grpc_calls, next_call_id, k)
      PROVE  ContextInv'
  <2>1. PICK h \in Handlers : NewCall(h, w, c, k, st, async, bad)
    BY <1>1, NewFacts, Zenon
  <2>2. PICK x : x = next_call_id
    OBVIOUS
  <2>3. x \in Calls /\ x \notin DOMAIN state
    BY <1>0, <1>1, <2>2, KnownCalls DEF MayCall, CallsOK
  <2>4. PICK cx : cx = [Created EXCEPT !.call = x, !.async = async,
                                       !.stream = IF c \in HttpConns THEN 0 ELSE x]
    OBVIOUS
  <2>5. Filled(cx, x, c, st)
    BY <1>1, <2>4 DEF Created, Fields, Filled
  <2>6. /\ state' = Put(state, x, st) /\ context' = [context EXCEPT ![k] = cx]
        /\ h.call = x /\ h.pc \in {"queue", "send"} /\ h.from = "new"
        /\ task' = [task EXCEPT ![w] = h]
    BY <2>1, <2>2, <2>4, Zenon DEF NewCall
  <2>7. \A y \in DOMAIN state : state'[y] = state[y]
    BY <2>3, <2>6 DEF Put
  <2>8. HandlersOK'
    <3>1. h.pc # "finish"
      BY <2>6
    <3> QED
      BY <2>6, <2>7, <3>1, HandlersKept DEF ContextInv
  <2>9. StaysOpen(h)
    <3>1. \A n \in Nodes, y \in DOMAIN state : (Sent(n, y)' <=> Sent(n, y)) /\ y \in Calls
      BY <1>0, <1>1, RestSame, CallContext DEF SentSame
    <3>2. handled' = handled
      BY <1>1, RestSame
    <3>3. h.pc \notin {"answer", "finish"} /\ \A y \in DOMAIN state : h.call # y
      BY <2>3, <2>6
    <3> QED
      BY <1>1, <2>7, <3>1, <3>2, <3>3 DEF StaysOpen, Open
  <2>10. \A y \in DOMAIN state : Open(y)' => Open(y)
    BY <2>6, <2>9, OpenBefore
  <2>11. \/ /\ c \in HttpConns /\ k = HttpContext(c) /\ recv[c]
            /\ recv' = [recv EXCEPT ![c] = FALSE] /\ UNCHANGED <<free, grpc_calls>>
         \/ /\ c \in GrpcConns /\ k \in GrpcContexts /\ k \in free /\ UNCHANGED recv
            /\ free' = free \ {k} /\ grpc_calls' = Put(grpc_calls, x, k)
    BY <1>1, <2>2, Zenon
  <2>12. UNCHANGED <<responses, scheduled, conn_state>>
    BY <1>1
  <2>13. CallsOK /\ ConnOf(k) = c /\ conn_state[c] = "running" /\ st.ctx = k
    BY <1>0, <1>1
  <2> QED
    BY <2>2, <2>3, <2>5, <2>6, <2>8, <2>10, <2>11, <2>12, <2>13, ContextNew, Zenon
<1>2. ASSUME NEW c \in HttpConns, NEW async \in BOOLEAN, NEW bad \in BOOLEAN,
             OnNewHttpRequest(w, c, async, bad)
      PROVE  ContextInv'
  <2>1. PICK k, st : k = HttpContext(c) /\ st = HttpCallState(c, async)
    OBVIOUS
  <2>2. /\ MayCall /\ conn_state[c] = "running" /\ recv[c] /\ recv' = [recv EXCEPT ![c] = FALSE]
        /\ OnNewFuncCall(w, c, k, st, async, bad)
        /\ UNCHANGED <<rest, pending_func_calls, responses, scheduled, conn_state, free, grpc_calls>>
    BY <1>2, <2>1, HttpRequestFacts, Zenon
  <2>3. /\ c \in Conns /\ k \in Contexts /\ async \in Flag /\ bad \in Flag /\ ConnOf(k) = c
        /\ st.ctx = k /\ (async <=> st.conn = NoConn)
    BY <1>0, <2>1 DEF Conns, Contexts, Flag, HttpContext, ConnOf, HttpCallState
  <2> QED
    BY <1>1, <2>1, <2>2, <2>3
<1>3. ASSUME NEW c \in GrpcConns, OnNewGrpcCall(w, c)
      PROVE  ContextInv'
  <2>1. PICK k, st : k = GetContext(c) /\ st = [conn |-> c, ctx |-> k]
    OBVIOUS
  <2>2. /\ MayCall /\ conn_state[c] = "running"
        /\ free' = free \ {k} /\ grpc_calls' = Put(grpc_calls, next_call_id, k)
        /\ OnNewFuncCall(w, c, k, st, FALSE, FALSE)
        /\ UNCHANGED <<rest, pending_func_calls, responses, scheduled, conn_state, recv>>
    BY <1>3, <2>1, GrpcCallFacts, Zenon
  <2>3. k \in free /\ k \in GrpcContexts /\ k[1] = c
    BY <1>0, <2>1, <2>2, GetContextFacts DEF MayCall
  <2>4. /\ c \in Conns /\ k \in Contexts /\ FALSE \in Flag /\ ConnOf(k) = c
        /\ st.ctx = k /\ (FALSE <=> st.conn = NoConn)
    BY <1>0, <2>1, <2>3 DEF Conns, Contexts, Flag, ConnOf
  <2> QED
    BY <1>1, <2>2, <2>3, <2>4
<1> QED
  BY <1>2, <1>3

\* Handlers of new calls, and of calls that are being sent.
LEMMA ContextQueue ==
  ASSUME ContextInv, PlaceInv, PoolOK, PlaceInv', NEW w \in Workers, QueueNew(w)
  PROVE  ContextInv'
<1>0. CallsOK
  BY DEF PlaceInv
<1>1. PICK x : x = task[w].call
  OBVIOUS
<1>2. /\ task[w].pc = "queue" /\ EndNew(w) /\ UNCHANGED <<next_call_id, state, rest>>
      /\ pending_func_calls' = Append(pending_func_calls, x)
      /\ IF context[state[x].ctx].async
           THEN FinishFuncCall(w, state[x].ctx, [context EXCEPT ![state[x].ctx].status = "ok"])
           ELSE NotFinished
  BY <1>1, Zenon DEF QueueNew, engineVars, histVars, rest
<1>3. ConnStep /\ task' = [task EXCEPT ![w] = Idle]
  BY <1>2, EndNewFacts DEF ContextInv
<1>4. task[w].pc \in Early /\ task[w].from = "new" /\ Idle.pc = "idle"
  BY <1>2 DEF Early, ContextInv, HandlersOK, Idle
<1>5. x \in DOMAIN state /\ Open(x) /\ x \in Calls
  BY <1>1, <1>4, EarlyCall
<1>6. context[state[x].ctx].async <=> ~Sync(x)
  BY <1>5 DEF ContextInv, OpenOK
<1>7. pending_func_calls \in Seq(1 .. next_call_id - 1) /\ x \in 1 .. next_call_id - 1
  BY <1>0, <1>5 DEF PlaceInv, PlacesOK, CallsOK
<1>8. Listed(pending_func_calls') = Listed(pending_func_calls) \cup {x}
  <2>1. PICK S, q : S = 1 .. next_call_id - 1 /\ q = pending_func_calls'
    OBVIOUS
  <2>2. pending_func_calls \in Seq(S) /\ x \in S /\ q = Append(pending_func_calls, x)
    BY <1>2, <1>7, <2>1
  <2>3. Listed(q) = Listed(pending_func_calls) \cup {x}
    <3>1. PICK p : p = pending_func_calls
      OBVIOUS
    <3>2. p \in Seq(S) /\ x \in S /\ (q = Append(p, x) \/ q = <<x>> \o p)
      BY <2>2, <3>1
    <3>3. Listed(q) = Listed(p) \cup {x}
      BY <3>2, ListedGrows
    <3> QED
      BY <3>1, <3>3
  <2> QED
    BY <2>1, <2>3
<1>9. StaysOpen(Idle)
  <2>1. Idle.pc \notin Early /\ Idle.pc \notin {"answer", "finish"}
    BY <1>4 DEF Early
  <2> QED
    BY <1>2, <1>5, <1>8, <2>1, OpenPlaces
<1>10. Idle.pc # "queue" /\ Idle.pc # "finish"
  BY <1>4
<1>11. CASE ~context[state[x].ctx].async
  <2>1. UNCHANGED <<context, recv, free, grpc_calls, responses, scheduled>>
    BY <1>2, <1>11 DEF NotFinished
  <2> QED
    BY <1>2, <1>3, <1>9, <1>10, <2>1, ContextMove
<1>12. CASE context[state[x].ctx].async
  <2>1. PICK cx : cx = [context EXCEPT ![state[x].ctx].status = "ok"]
    OBVIOUS
  <2>2. FinishFuncCall(w, state[x].ctx, cx) /\ ~Sync(x)
    BY <1>2, <1>6, <1>12, <2>1
  <2>3. Finishes(x, cx)
    <3>1. "ok" \in Outcomes
      BY DEF Outcomes
    <3> QED
      BY <1>0, <1>5, <2>1, <2>2, <3>1, FinishesStatus
  <2>4. ~Open(x)'
    <3>1. x \in Listed(pending_func_calls)'
      BY <1>8
    <3>2. \A v \in Workers : ~Carries(v, x)'
      BY <1>5, <3>1 DEF PlaceInv, OnePlace
    <3>3. ~Sync(x)'
      BY <1>2, <2>2 DEF Sync
    <3> QED
      BY <3>2, <3>3 DEF Open
  <2> QED
    BY <1>2, <1>3, <1>5, <1>9, <1>10, <2>2, <2>3, <2>4, ContextEnd
<1> QED
  BY <1>11, <1>12

\* A call that was sent.
LEMMA ContextDispatched ==
  ASSUME ContextInv, PlaceInv, PoolOK, PlaceInv', NEW w \in Workers, Dispatched(w)
  PROVE  ContextInv'
<1>0. CallsOK
  BY DEF PlaceInv
<1>1. PICK x, n : x = task[w].call /\ n = task[w].node
  OBVIOUS
<1>2. /\ task[w].pc = "send" /\ n \in Nodes /\ task' = [task EXCEPT ![w].pc = "insert"]
      /\ \/ dispatched' = dispatched \cup {<<n, x>>} /\ UNCHANGED lost
         \/ lost' = lost \cup {<<n, x>>} /\ UNCHANGED dispatched
      /\ UNCHANGED <<next_call_id, state, taken, answered, handled, pending_func_calls, conn_state>>
      /\ IF task[w].from = "new" /\ state[x].conn = NoConn
           THEN FinishFuncCall(w, state[x].ctx, [context EXCEPT ![state[x].ctx].status = "ok"])
           ELSE NotFinished
  BY <1>1, Zenon DEF Dispatched, HasHub, SendMessageToEngine, HubSendMessage, callVars
<1>3. task[w].pc \in Early
  BY <1>2 DEF Early
<1>4. /\ x \in DOMAIN state /\ x \in Calls /\ task[w] \in Handlers
      /\ task[w].from = "new" \/ Sync(x) => Open(x)
  BY <1>1, <1>3, EarlyCall
<1>5. ConnStep
  BY <1>2, ConnKept DEF ContextInv
<1>6. PICK h : h = [task[w] EXCEPT !.pc = "insert"]
  OBVIOUS
<1>7. h.pc = "insert" /\ h.call = x
  BY <1>1, <1>4, <1>6 DEF Handlers
<1>8. task' = [task EXCEPT ![w] = h]
  BY <1>2, <1>6
<1>9. StaysOpen(h)
  <2>1. \A m \in Nodes, y \in DOMAIN state : Sent(m, y)' => Sent(m, y) \/ y = x
    BY <1>2 DEF Sent
  <2>2. h.pc \notin Early /\ h.pc \notin {"answer", "finish"}
    BY <1>7 DEF Early
  <2> QED
    BY <1>2, <1>4, <2>1, <2>2 DEF StaysOpen, Open
<1>10. h.pc # "queue" /\ h.pc # "finish"
  BY <1>7
<1>11. CASE ~(task[w].from = "new" /\ state[x].conn = NoConn)
  <2>1. UNCHANGED <<context, recv, free, grpc_calls, responses, scheduled>>
    BY <1>2, <1>11 DEF NotFinished
  <2> QED
    BY <1>2, <1>5, <1>8, <1>9, <1>10, <2>1, ContextMove
<1>12. CASE task[w].from = "new" /\ state[x].conn = NoConn
  <2>1. PICK cx : cx = [context EXCEPT ![state[x].ctx].status = "ok"]
    OBVIOUS
  <2>2. FinishFuncCall(w, state[x].ctx, cx) /\ ~Sync(x) /\ Open(x)
    BY <1>2, <1>4, <1>12, <2>1 DEF Sync
  <2>3. Finishes(x, cx)
    <3>1. "ok" \in Outcomes
      BY DEF Outcomes
    <3> QED
      BY <1>0, <1>4, <2>1, <2>2, <3>1, FinishesStatus
  <2>4. ~Open(x)'
    <3>1. task'[w] = h
      BY <1>8 DEF PlaceInv, TasksOK
    <3>2. Carries(w, x)' /\ task'[w].pc \notin Early
      BY <1>7, <3>1 DEF Carries, Early
    <3>3. \A v \in Workers : Carries(v, x)' => v = w
      BY <1>4, <3>2 DEF PlaceInv, OnePlace
    <3>4. ~Sync(x)'
      BY <1>2, <2>2 DEF Sync
    <3> QED
      BY <3>2, <3>3, <3>4 DEF Open
  <2> QED
    BY <1>2, <1>4, <1>5, <1>8, <1>9, <1>10, <2>2, <2>3, <2>4, ContextEnd
<1> QED
  BY <1>11, <1>12

\* A call that could not be sent: its context is told so.
LEMMA ContextNotDispatched ==
  ASSUME ContextInv, PlaceInv, PoolOK, NEW w \in Workers, NotDispatched(w)
  PROVE  ContextInv'
<1>0. CallsOK
  BY DEF PlaceInv
<1>1. PICK x : x = task[w].call
  OBVIOUS
<1>2. /\ task[w].pc = "send" /\ UNCHANGED <<next_call_id, state, rest, pending_func_calls>>
      /\ \/ EndNew(w)
         \/ task' = [task EXCEPT ![w].pc = "try"] /\ UNCHANGED conn_state
      /\ IF state[x].conn # NoConn \/ task[w].from = "new"
           THEN FinishFuncCall(w, state[x].ctx, [context EXCEPT ![state[x].ctx].status = "notfound"])
           ELSE NotFinished
  BY <1>1, Zenon DEF NotDispatched, callVars, engineVars, rest
<1>3. task[w].pc \in Early
  BY <1>2 DEF Early
<1>4. /\ x \in DOMAIN state /\ x \in Calls /\ task[w] \in Handlers
      /\ task[w].from = "new" \/ Sync(x) => Open(x)
  BY <1>1, <1>3, EarlyCall
<1>5. ConnStep /\ (task' = [task EXCEPT ![w] = Idle] \/ task' = [task EXCEPT ![w].pc = "try"])
  BY <1>2, ConnKept, EndNewFacts DEF ContextInv
<1>6. PICK h : task' = [task EXCEPT ![w] = h] /\ h.pc \in {"idle", "try"}
  <2>1. CASE task' = [task EXCEPT ![w] = Idle]
    <3>1. Idle.pc \in {"idle", "try"}
      BY DEF Idle
    <3> QED
      BY <2>1, <3>1, Zenon
  <2>2. CASE task' = [task EXCEPT ![w].pc = "try"]
    <3>1. PICK h : h = [task[w] EXCEPT !.pc = "try"]
      OBVIOUS
    <3>2. h.pc \in {"idle", "try"}
      BY <1>4, <3>1 DEF Handlers
    <3>3. task' = [task EXCEPT ![w] = h]
      BY <2>2, <3>1
    <3> QED
      BY <3>2, <3>3, Zenon
  <2> QED
    BY <1>5, <2>1, <2>2
<1>7. h.pc \notin Early /\ h.pc \notin {"answer", "finish"} /\ h.pc # "queue" /\ h.pc # "finish"
  BY <1>6 DEF Early
<1>8. StaysOpen(h)
  BY <1>2, <1>7, OpenPlaces
<1>9. CASE ~(state[x].conn # NoConn \/ task[w].from = "new")
  <2>1. UNCHANGED <<context, recv, free, grpc_calls, responses, scheduled>>
    BY <1>2, <1>9 DEF NotFinished
  <2> QED
    BY <1>2, <1>5, <1>6, <1>7, <1>8, <2>1, ContextMove
<1>10. CASE state[x].conn # NoConn \/ task[w].from = "new"
  <2>1. PICK cx : cx = [context EXCEPT ![state[x].ctx].status = "notfound"]
    OBVIOUS
  <2>2. FinishFuncCall(w, state[x].ctx, cx) /\ Open(x)
    BY <1>2, <1>4, <1>10, <2>1 DEF Sync
  <2>3. Finishes(x, cx)
    <3>1. "notfound" \in Outcomes /\ "notfound" # "ok"
      BY SMTT(60) DEF Outcomes
    <3> QED
      BY <1>0, <1>4, <2>1, <2>2, <3>1, FinishesStatus, ZenonT(60)
  <2>4. ~Open(x)'
    BY <1>1, <1>2, <1>3, <1>6, NoLongerOpen
  <2> QED
    BY <1>2, <1>4, <1>5, <1>6, <1>7, <1>8, <2>2, <2>3, <2>4, ContextEnd
<1> QED
  BY <1>9, <1>10

\* A call that is entered as running.
LEMMA ContextInsertNew ==
  ASSUME ContextInv, PlaceInv, NEW w \in Workers, InsertNew(w)
  PROVE  ContextInv'
<1>1. /\ EndNew(w)
      /\ UNCHANGED <<next_call_id, state, rest, pending_func_calls, context, recv, free,
                     grpc_calls, responses, scheduled>>
  BY Zenon DEF InsertNew, engineVars, histVars, rest
<1>2. ConnStep /\ task' = [task EXCEPT ![w] = Idle]
  BY <1>1, EndNewFacts DEF ContextInv
<1>3. /\ Idle.pc \notin Early /\ Idle.pc \notin {"answer", "finish"}
      /\ Idle.pc # "queue" /\ Idle.pc # "finish"
  BY DEF Early, Idle
<1>4. StaysOpen(Idle)
  BY <1>1, <1>3, OpenPlaces
<1> QED
  BY <1>1, <1>2, <1>3, <1>4, ContextMove

\* TryDispatchingPendingFuncCalls
LEMMA ContextTry ==
  ASSUME ContextInv, PlaceInv, NEW w \in Workers,
         TryPop(w) \/ TryPick(w) \/ TryBack(w) \/ TryInsert(w)
  PROVE  ContextInv'
<1>0. CallsOK
  BY DEF PlaceInv
<1>1. /\ UNCHANGED <<next_call_id, state, rest, conn_state, context, recv, free, grpc_calls,
                     responses, scheduled>>
      /\ \/ PopPending(w)
         \/ /\ task[w].pc = "pick" /\ UNCHANGED pending_func_calls
            /\ \/ \E n \in Nodes \cup {NoNode} :
                    task' = [task EXCEPT ![w].pc = "send", ![w].node = n]
               \/ task' = [task EXCEPT ![w].pc = "back"]
         \/ /\ task[w].pc = "back" /\ pending_func_calls' = <<task[w].call>> \o pending_func_calls
            /\ task' = [task EXCEPT ![w] = Idle]
  BY Zenon DEF TryPop, TryPick, TryBack, TryInsert, connVars, callVars, engineVars, histVars, rest
<1>2. ConnStep
  BY <1>1, ConnKept DEF ContextInv
<1>3. ASSUME NEW h, task' = [task EXCEPT ![w] = h], StaysOpen(h),
             h.pc = "idle" \/ h.pc \in {"pick", "send", "back"}
      PROVE  ContextInv'
  <2>1. h.pc # "queue" /\ h.pc # "finish"
    BY <1>3
  <2> QED
    BY <1>1, <1>2, <1>3, <2>1, ContextMove
<1>4. Idle.pc = "idle" /\ Idle.pc \notin Early /\ Idle.pc \notin {"answer", "finish"}
  BY DEF Idle, Early
<1>5. CASE PopPending(w)
  <2>1. PICK h \in {Idle} \cup Handlers :
           /\ task' = [task EXCEPT ![w] = h]
           /\ h # Idle => /\ h.pc = "pick" /\ h.from = "try" /\ h.call \in Listed(pending_func_calls)
           /\ Listed(pending_func_calls') \subseteq Listed(pending_func_calls)
    BY <1>5, PopFacts
  <2>2. CASE h = Idle
    <3>1. StaysOpen(h)
      BY <1>1, <1>4, <2>1, <2>2, OpenPlaces
    <3> QED
      BY <1>3, <1>4, <2>1, <2>2, <3>1
  <2>3. CASE h # Idle
    <3>1. h.pc = "pick" /\ h.pc \notin {"answer", "finish"} /\ h.from # "new"
      BY <2>1, <2>3
    <3>2. \A y \in DOMAIN state : Sync(y) /\ h.call = y => Open(y)
      BY <2>1, <2>3 DEF Open
    <3>3. StaysOpen(h)
      BY <1>1, <2>1, <3>1, <3>2, OpenPlaces
    <3> QED
      BY <1>3, <2>1, <3>1, <3>3
  <2> QED
    BY <2>2, <2>3
<1>6. CASE /\ task[w].pc = "pick" /\ UNCHANGED pending_func_calls
           /\ \/ \E n \in Nodes \cup {NoNode} :
                   task' = [task EXCEPT ![w].pc = "send", ![w].node = n]
              \/ task' = [task EXCEPT ![w].pc = "back"]
  <2>1. task[w].pc \in Early
    BY <1>6 DEF Early
  <2>2. /\ task[w] \in Handlers /\ task[w].call \in DOMAIN state
        /\ task[w].from = "new" \/ Sync(task[w].call) => Open(task[w].call)
    BY <2>1, EarlyCall
  <2>3. PICK h : /\ task' = [task EXCEPT ![w] = h] /\ h.pc \in {"send", "back"}
                 /\ h.call = task[w].call /\ h.from = task[w].from
    <3>1. ASSUME NEW n \in Nodes \cup {NoNode},
                 task' = [task EXCEPT ![w].pc = "send", ![w].node = n]
          PROVE  \E h : /\ task' = [task EXCEPT ![w] = h] /\ h.pc \in {"send", "back"}
                        /\ h.call = task[w].call /\ h.from = task[w].from
      <4>1. PICK h : h = [task[w] EXCEPT !.pc = "send", !.node = n]
        OBVIOUS
      <4>2. h.pc = "send" /\ h.call = task[w].call /\ h.from = task[w].from
        BY <2>2, <4>1 DEF Handlers
      <4>3. task' = [task EXCEPT ![w] = h]
        BY <2>2, <3>1, <4>1 DEF PlaceInv, TasksOK
      <4> QED
        BY <4>2, <4>3
    <3>2. ASSUME task' = [task EXCEPT ![w].pc = "back"]
          PROVE  \E h : /\ task' = [task EXCEPT ![w] = h] /\ h.pc \in {"send", "back"}
                        /\ h.call = task[w].call /\ h.from = task[w].from
      <4>1. PICK h : h = [task[w] EXCEPT !.pc = "back"]
        OBVIOUS
      <4>2. h.pc = "back" /\ h.call = task[w].call /\ h.from = task[w].from
        BY <2>2, <4>1 DEF Handlers
      <4>3. task' = [task EXCEPT ![w] = h]
        BY <3>2, <4>1
      <4> QED
        BY <4>2, <4>3
    <3> QED
      BY <1>6, <3>1, <3>2, Zenon
  <2>4. h.pc \notin {"answer", "finish"}
    BY <2>3
  <2>5. StaysOpen(h)
    BY <1>1, <1>6, <2>2, <2>3, <2>4, OpenPlaces
  <2> QED
    BY <1>3, <2>3, <2>5
<1>7. CASE /\ task[w].pc = "back" /\ pending_func_calls' = <<task[w].call>> \o pending_func_calls
           /\ task' = [task EXCEPT ![w] = Idle]
  <2>1. task[w].pc \in Early
    BY <1>7 DEF Early
  <2>2. PICK x : x = task[w].call
    OBVIOUS
  <2>3. x \in DOMAIN state /\ (Sync(x) => Open(x))
    BY <2>1, <2>2, EarlyCall
  <2>4. PICK S, p, q : S = 1 .. next_call_id - 1 /\ p = pending_func_calls /\ q = pending_func_calls'
    OBVIOUS
  <2>5. p \in Seq(S) /\ x \in S /\ (q = Append(p, x) \/ q = <<x>> \o p)
    BY <1>0, <1>7, <2>2, <2>3, <2>4 DEF PlaceInv, PlacesOK, CallsOK
  <2>6. Listed(q) = Listed(p) \cup {x}
    BY <2>5, ListedGrows
  <2>7. \A y \in Listed(pending_func_calls') :
          y \in Listed(pending_func_calls) \/ Open(y) \/ ~Sync(y)
    BY <2>3, <2>4, <2>6
  <2>8. StaysOpen(Idle)
    BY <1>1, <1>4, <2>7, OpenPlaces
  <2> QED
    BY <1>3, <1>4, <1>7, <2>8
<1> QED
  BY <1>1, <1>5, <1>6, <1>7

\* The answer of an engine.
LEMMA ContextAnswer ==
  ASSUME ContextInv, PlaceInv, PoolOK, NEW w \in Workers,
         OnRecvEngineMessage(w) \/ AnswerRunning(w) \/ AnswerFinish(w)
  PROVE  ContextInv'
<1>0. CallsOK
  BY DEF PlaceInv
<1>1. ASSUME OnRecvEngineMessage(w)
      PROVE  ContextInv'
  <2>1. PICK p \in InFlight, ok \in BOOLEAN :
          /\ handled' = handled \cup {p}
          /\ task' = [task EXCEPT ![w] = [pc |-> "answer", call |-> p[2], ok |-> ok]]
    BY <1>1 DEF OnRecvEngineMessage
  <2>2. UNCHANGED <<next_call_id, state, dispatched, taken, answered, lost, pending_func_calls,
                    conn_state, context, recv, free, grpc_calls, responses, scheduled>>
    BY <1>1, Zenon DEF OnRecvEngineMessage, connVars, callVars, engineVars
  <2>3. PICK n \in Nodes, x \in Calls : p = <<n, x>> /\ answered[<<n, x>>] > 0 /\ <<n, x>> \notin handled
    BY DEF InFlight
  <2>4. PICK h : h = [pc |-> "answer", call |-> p[2], ok |-> ok]
    OBVIOUS
  <2>5. /\ h.pc = "answer" /\ h.call = x /\ h.pc \notin Early /\ h.pc # "queue" /\ h.pc # "finish"
        /\ task' = [task EXCEPT ![w] = h]
    BY <2>1, <2>3, <2>4 DEF Early
  <2>6. Sync(x) => Open(x)
    BY <2>3 DEF Open, Sent
  <2>7. \A m \in Nodes, y \in DOMAIN state : Sent(m, y)' /\ <<m, y>> \notin handled' =>
                                             Sent(m, y) /\ <<m, y>> \notin handled
    BY <2>1, <2>2 DEF Sent
  <2>8. StaysOpen(h)
    BY <2>2, <2>5, <2>6, <2>7 DEF StaysOpen, Open
  <2>9. ConnStep
    BY <2>2, ConnKept DEF ContextInv
  <2> QED
    BY <2>2, <2>5, <2>8, <2>9, ContextMove
<1>2. ASSUME AnswerRunning(w)
      PROVE  ContextInv'
  <2>1. PICK x : x = task[w].call
    OBVIOUS
  <2>2. /\ task[w].pc = "answer"
        /\ UNCHANGED <<next_call_id, state, rest, pending_func_calls, conn_state, context, recv,
                       free, grpc_calls, responses, scheduled>>
    BY <1>2, Zenon DEF AnswerRunning, connVars, engineVars, rest
  <2>3. \/ task' = [task EXCEPT ![w] = Idle]
        \/ task' = [task EXCEPT ![w].pc = "finish"] /\ Sync(x)
        \/ task' = [task EXCEPT ![w].pc = "try"]
    BY <1>2, <2>1 DEF AnswerRunning, Sync
  <2>4. task[w] \in AnswerHandlers /\ x \in DOMAIN state /\ (Sync(x) => Open(x))
    BY <2>1, <2>2, ReportedCall
  <2>5. PICK h : /\ task' = [task EXCEPT ![w] = h] /\ h.pc \in {"idle", "finish", "try"}
                 /\ h.pc = "finish" => h.call = x /\ Sync(x)
    <3>1. CASE task' = [task EXCEPT ![w] = Idle]
      <4>1. Idle.pc = "idle"
        BY DEF Idle
      <4> QED
        BY <3>1, <4>1
    <3>2. ASSUME NEW pc \in {"finish", "try"}, task' = [task EXCEPT ![w].pc = pc],
                 pc = "finish" => Sync(x)
          PROVE  \E h : /\ task' = [task EXCEPT ![w] = h] /\ h.pc \in {"idle", "finish", "try"}
                        /\ h.pc = "finish" => h.call = x /\ Sync(x)
      <4>1. PICK h : h = [task[w] EXCEPT !.pc = pc]
        OBVIOUS
      <4>2. h.pc = pc /\ h.call = x
        BY <2>1, <2>4, <4>1 DEF AnswerHandlers
      <4>3. task' = [task EXCEPT ![w] = h]
        BY <3>2, <4>1
      <4> QED
        BY <3>2, <4>2, <4>3
    <3> QED
      BY <2>3, <3>1, <3>2
  <2>6. h.pc \notin Early /\ h.pc # "queue"
    BY <2>5 DEF Early
  <2>7. StaysOpen(h)
    BY <2>2, <2>4, <2>5, <2>6, OpenPlaces
  <2>8. ConnStep
    BY <2>2, ConnKept DEF ContextInv
  <2> QED
    BY <2>2, <2>5, <2>6, <2>7, <2>8, ContextMove
<1>3. ASSUME AnswerFinish(w)
      PROVE  ContextInv'
  <2>1. PICK x : x = task[w].call
    OBVIOUS
  <2>2. /\ task[w].pc = "finish" /\ task' = [task EXCEPT ![w].pc = "try"]
        /\ UNCHANGED <<next_call_id, state, rest, pending_func_calls, conn_state>>
        /\ LET k == state[x].ctx
           IN FinishFuncCall(w, k, IF task[w].ok
                                     THEN [context EXCEPT ![k].status = "ok",
                                                          ![k].out = Append(@, x)]
                                     ELSE [context EXCEPT ![k].status = "failed"])
    BY <1>3, <2>1, Zenon DEF AnswerFinish, callVars, engineVars, histVars, rest
  <2>3. task[w] \in AnswerHandlers /\ x \in DOMAIN state /\ Sync(x) /\ Open(x)
    <3>1. task[w].pc \in {"answer", "finish"} /\ Sync(x)
      BY <2>1, <2>2, ZenonT(60) DEF ContextInv, HandlersOK
    <3> QED
      BY <2>1, <3>1, ReportedCall
  <2>4. PICK h : h = [task[w] EXCEPT !.pc = "try"]
    OBVIOUS
  <2>5. h.pc = "try" /\ h.call = x
    BY <2>1, <2>3, <2>4 DEF AnswerHandlers
  <2>6. task' = [task EXCEPT ![w] = h]
    BY <2>2, <2>4
  <2>7. h.pc \notin Early /\ h.pc \notin {"answer", "finish"} /\ h.pc # "queue" /\ h.pc # "finish"
        /\ h.pc \in {"idle", "try"}
    BY <2>5 DEF Early
  <2>8. StaysOpen(h)
    BY <2>2, <2>7, OpenPlaces
  <2>9. ConnStep
    BY <2>2, ConnKept DEF ContextInv
  <2>10. ~Open(x)'
    <3>1. task[w].pc \in Early \cup {"answer", "finish"}
      BY <2>2
    <3> QED
      BY <2>1, <2>2, <2>6, <2>7, <3>1, NoLongerOpen, ZenonT(60)
  <2>11. PICK cx : FinishFuncCall(w, state[x].ctx, cx) /\ Finishes(x, cx)
    <3>1. "ok" \in Outcomes /\ "failed" \in Outcomes /\ "failed" # "ok"
      BY DEF Outcomes
    <3>2. CASE task[w].ok
      <4>1. PICK cx : cx = [context EXCEPT ![state[x].ctx].status = "ok",
                                           ![state[x].ctx].out = Append(@, x)]
        OBVIOUS
      <4>2. FinishFuncCall(w, state[x].ctx, cx)
        BY <2>2, <3>2, <4>1
      <4>3. Finishes(x, cx)
        BY <1>0, <2>3, <3>1, <4>1, FinishesStatus
      <4> QED
        BY <4>2, <4>3
    <3>3. CASE ~task[w].ok
      <4>1. PICK cx : cx = [context EXCEPT ![state[x].ctx].status = "failed"]
        OBVIOUS
      <4>2. FinishFuncCall(w, state[x].ctx, cx)
        BY <2>2, <3>3, <4>1
      <4>3. Finishes(x, cx)
        BY <1>0, <2>3, <3>1, <4>1, FinishesStatus
      <4> QED
        BY <4>2, <4>3
    <3> QED
      BY <3>2, <3>3
  <2> QED
    BY <2>2, <2>3, <2>6, <2>7, <2>8, <2>9, <2>10, <2>11, ContextEnd
<1> QED
  BY <1>1, <1>2, <1>3

\* A step that moves no call leaves open what was open.
LEMMA OpenSame ==
  ASSUME PlaceInv, SentSame, UNCHANGED <<state, task, pending_func_calls, handled>>, HandlersOK
  PROVE  HandlersOK' /\ \A y \in DOMAIN state : Open(y)' <=> Open(y)
<1>1. \A y \in DOMAIN state : y \in Calls
  BY CallContext DEF PlaceInv
<1>2. HandlersOK'
  BY DEF HandlersOK, Sync
<1>3. \A y \in DOMAIN state : Open(y)' <=> Open(y)
  BY <1>1 DEF SentSame, Open, Sync, Carries, Reports
<1> QED
  BY <1>2, <1>3

\* The end of a call that was scheduled.
LEMMA ContextRun ==
  ASSUME ContextInv, PlaceInv, PoolOK, NEW w \in Workers, RunScheduledFunctions(w)
  PROVE  ContextInv'
<1>0. CallsOK
  BY DEF PlaceInv
<1>1. UNCHANGED <<next_call_id, state, task, rest, pending_func_calls, conn_state, context>>
  BY Zenon DEF RunScheduledFunctions, callVars, engineVars, histVars, rest
<1>2. PICK f \in scheduled : scheduled' = scheduled \ {f} /\ InvokeFunction(f[1], f[2])
  BY Zenon DEF RunScheduledFunctions
<1>3. PICK x \in DOMAIN state : /\ f = <<ConnOf(state[x].ctx), Stream(x)>>
                                /\ Owns(x) /\ OutcomeOf(x, context[state[x].ctx])
  BY DEF ContextInv, ScheduledOK
<1>4. ~Open(x)
  BY <1>3 DEF ContextInv, OpenOK
<1>5. HandlersOK' /\ \A y \in DOMAIN state : Open(y)' <=> Open(y)
  BY <1>1, RestSame, OpenSame DEF ContextInv
<1>6. \A y \in DOMAIN state : Open(y)' => Open(y) /\ y # x
  BY <1>4, <1>5
<1>7. Finishes(x, context)
  BY <1>3 DEF ContextInv, ContextsOK, Finishes, Owns
<1>8. FinishEffect(x, context)
  <2>1. f[1] = ConnOf(state[x].ctx) /\ f[2] = Stream(x)
    BY <1>3
  <2>2. \/ UNCHANGED <<recv, free, grpc_calls, responses>>
        \/ FinishedInternal(ConnOf(state[x].ctx), Stream(x), context)
    BY <1>2, <2>1 DEF InvokeFunction
  <2>3. CASE UNCHANGED <<recv, free, grpc_calls, responses>>
    BY <2>3, Zenon DEF FinishEffect
  <2>4. CASE FinishedInternal(ConnOf(state[x].ctx), Stream(x), context)
    BY <1>0, <1>7, <2>4, FinishedIs DEF ContextInv
  <2> QED
    BY <2>2, <2>3, <2>4
<1>9. ConnStep
  BY <1>1, ConnKept DEF ContextInv
<1>10. scheduled' = scheduled \ {<<ConnOf(state[x].ctx), Stream(x)>>}
  BY <1>2, <1>3
<1>11. PICK cx : cx = context
  OBVIOUS
<1>12. Finishes(x, cx) /\ context' = cx /\ FinishEffect(x, cx)
  BY <1>1, <1>7, <1>8, <1>11
<1> QED
  BY <1>0, <1>1, <1>3, <1>5, <1>6, <1>9, <1>10, <1>12, ContextFinish

\* Streams and connections that close, connections that open, and steps of
\* nodes and engines.
LEMMA ContextElsewhere ==
  ASSUME ContextInv, PlaceInv, PoolOK,
         \/ \E w \in Workers : Quiet(w) /\ ~RunScheduledFunctions(w)
         \/ \E c \in Conns : QuietConn(c)
         \/ \E n \in Nodes : QuietNode(n)
         \/ EngineWorks \/ \E n \in Nodes : EngineCrash(n)
         \/ UNCHANGED vars
  PROVE  ContextInv'
<1>0. CallsOK
  BY DEF PlaceInv
<1>1. UNCHANGED <<next_call_id, state, task, pending_func_calls, handled>> /\ SentSame
  <2>1. CASE \E w \in Workers : Quiet(w) /\ ~RunScheduledFunctions(w)
    BY <2>1, QuietFacts, RestSame
  <2>2. CASE \/ \E c \in Conns : QuietConn(c)
             \/ \E n \in Nodes : QuietNode(n)
             \/ UNCHANGED vars
    BY <2>2, QuietElsewhere, RestSame
  <2>3. CASE EngineWorks \/ \E n \in Nodes : EngineCrash(n)
    <3>1. SentSame
      BY <2>3, PlaceElsewhere DEF SentSame
    <3>2. UNCHANGED <<next_call_id, state, task, pending_func_calls, handled>>
      BY <2>3, Zenon DEF EngineWorks, EngineCrash, callVars, workVars, histVars
    <3> QED
      BY <3>1, <3>2
  <2> QED
    BY <2>1, <2>2, <2>3
<1>2. HandlersOK' /\ \A y \in DOMAIN state : Open(y)' <=> Open(y)
  BY <1>1, OpenSame DEF ContextInv
<1>3. UNCHANGED <<context, free, responses, scheduled>>
  BY ZenonT(60) DEF Quiet, H2OnStreamClose, HttpScheduleClose, GrpcScheduleClose, HubDown, QuietConn,
     OnNewConnection, EnterConnection, WorkerOnConnectionClose, OnConnectionClose, QuietNode, OnZNodeCreated,
     OnZNodeDeleted, OnNodeScaled, EngineWorks, EngineCrash, connVars, workVars, vars
<1>4. \/ UNCHANGED grpc_calls
      \/ \E M : grpc_calls' = [t \in DOMAIN grpc_calls \ M |-> grpc_calls[t]]
  BY Zenon DEF Quiet, H2OnStreamClose, HttpScheduleClose, GrpcScheduleClose, HubDown, QuietConn,
     OnNewConnection, EnterConnection, WorkerOnConnectionClose, OnConnectionClose, QuietNode, OnZNodeCreated,
     OnZNodeDeleted, OnNodeScaled, EngineWorks, EngineCrash, connVars, workVars, vars
<1>5. /\ DOMAIN grpc_calls' \subseteq DOMAIN grpc_calls
      /\ \A s \in DOMAIN grpc_calls' : grpc_calls'[s] = grpc_calls[s]
  BY <1>4
<1>6. \/ UNCHANGED <<conn_state, recv>>
      \/ UNCHANGED recv /\ \E c : conn_state' = [conn_state EXCEPT ![c] = "closing"]
      \/ UNCHANGED recv /\ \E c : conn_state' = [conn_state EXCEPT ![c] = "closed"]
      \/ \E c \in Conns : conn_state[c] = "created" /\ Start(c)
  BY Zenon DEF Quiet, H2OnStreamClose, HttpScheduleClose, GrpcScheduleClose, HubDown, QuietConn,
     OnNewConnection, EnterConnection, WorkerOnConnectionClose, OnConnectionClose, QuietNode, OnZNodeCreated,
     OnZNodeDeleted, OnNodeScaled, EngineWorks, EngineCrash, connVars, workVars, vars
<1>7. /\ conn_state \in [Conns -> {"created", "running", "closing", "closed"}]
      /\ recv \in [HttpConns -> BOOLEAN]
      /\ \A x \in DOMAIN state : conn_state[ConnOf(state[x].ctx)] # "created"
  BY DEF ContextInv, ContextsOK
<1>8. ConnStep
  BY <1>6, <1>7 DEF ConnStep, Start
<1>9. RecvStep
  <2>1. CASE UNCHANGED recv
    BY <1>7, <2>1 DEF RecvStep
  <2>2. ASSUME NEW c \in Conns, conn_state[c] = "created", Start(c)
        PROVE  RecvStep
    <3>1. recv' = [x \in HttpConns |-> recv[x] \/ x = c]
      BY <2>2 DEF Start
    <3>2. \A x \in DOMAIN state : ConnOf(state[x].ctx) # c
      BY <1>7, <2>2
    <3>3. \A d \in HttpConns : recv'[d] \in BOOLEAN /\ (d # c => recv'[d] = recv[d])
      BY <1>7, <3>1
    <3> QED
      BY <1>7, <3>1, <3>2, <3>3 DEF RecvStep
  <2> QED
    BY <1>6, <2>1, <2>2
<1> QED
  BY <1>0, <1>1, <1>2, <1>3, <1>5, <1>8, <1>9, ContextQuiet

\* Every step keeps ContextInv.
LEMMA ContextStep ==
  ASSUME ContextInv, PlaceInv, PoolOK, PlaceInv', [Next]_vars
  PROVE  ContextInv'
<1>1. ASSUME NEW w \in Workers, Quiet(w)
      PROVE  ContextInv'
  BY <1>1, ContextRun, ContextElsewhere, Zenon
<1> QED
  BY <1>1, ContextRequest, ContextQueue, ContextDispatched, ContextNotDispatched, ContextInsertNew,
     ContextTry, ContextAnswer, ContextElsewhere, Zenon
  DEF Next, Quiet, QuietConn, QuietNode

\* At the start no context is in use.
LEMMA InitContext ==
  ASSUME Init
  PROVE  ContextInv
<1>1. /\ conn_state = [c \in Conns |-> "created"] /\ recv = [c \in HttpConns |-> FALSE]
      /\ context = [k \in Contexts |-> Created] /\ grpc_calls = <<>> /\ state = <<>>
      /\ responses = [x \in Calls |-> <<>>] /\ scheduled = {}
      /\ task = [w \in Workers |-> Idle]
  BY DEF Init
<1>2. DOMAIN state = {} /\ DOMAIN grpc_calls = {}
  BY <1>1
<1>3. ContextsOK
  <2>1. DOMAIN Created = Fields
    BY DEF Created, Fields
  <2>2. conn_state \in [Conns -> {"created", "running", "closing", "closed"}]
    BY <1>1
  <2> QED
    BY <1>1, <1>2, <2>1, <2>2 DEF ContextsOK
<1>4. HandlersOK
  <2>1. \A w \in Workers : task[w].pc = "idle"
    BY <1>1 DEF Idle
  <2> QED
    BY <2>1 DEF HandlersOK
<1> QED
  BY <1>1, <1>2, <1>3, <1>4
  DEF ContextInv, StreamsOK, OpenOK, ScheduledOK, WaitingOK, ResponseIsOfItsCall

\* A client gets at most one response to a request, and it is the outcome of
\* that very call, although the context it is read from is written by the
\* worker of an engine and reused by the worker of the connection
\* (server.cpp:328, grpc_connection.cpp:426, http_connection.cpp:304).
THEOREM GatewayResponses == Spec => []ResponseIsOfItsCall
<1>1. Init => PlaceInv /\ PoolOK /\ ContextInv
  BY InitPlace, InitContext
<1>2. PlaceInv /\ PoolOK /\ ContextInv /\ [Next]_vars => (PlaceInv /\ PoolOK /\ ContextInv)'
  BY PlaceStep, ContextStep
<1>3. ContextInv => ResponseIsOfItsCall
  BY DEF ContextInv
<1> QED
  BY <1>1, <1>2, <1>3, PTL DEF Spec

-----------------------------------------------------------------------------
(* No call is forgotten. *)

\* What ProgressInv says of the calls that clients wait for.
LEMMA NoneForgotten ==
  ASSUME CallsOK, ContextInv, ProgressInv
  PROVE  NoCallForgotten
<1> SUFFICES ASSUME NEW x \in DOMAIN state, Awaited(x), ~Somewhere(x)
             PROVE  Sync(x) /\ <<state[x].conn, context[state[x].ctx].stream>> \in scheduled
  BY DEF NoCallForgotten, Somewhere, Reached
<1>1. Ended(x)
  BY DEF ProgressInv
<1>2. CASE ~Sync(x)
  BY <1>1, <1>2 DEF Ended, Awaited, NotFound
<1>3. CASE Sync(x)
  <2>1. Due(x) /\ responses[x] = <<>> /\ state[x].conn = ConnOf(state[x].ctx)
        /\ (state[x].conn \in GrpcConns => x \in DOMAIN grpc_calls)
    BY <1>1, <1>3, CallContext DEF Ended, Awaited
  <2>2. Owns(x)
    BY <2>1, CallContext DEF ContextInv, WaitingOK, StreamsOK
  <2> QED
    BY <1>3, <2>1, <2>2 DEF Due, Owns
<1> QED
  BY <1>2, <1>3

\* The connections of calls, in a step that opens none of them.
ConnsDown ==
  \A y \in DOMAIN state :
    /\ conn_state'[ConnOf(state[y].ctx)] = "running" => conn_state[ConnOf(state[y].ctx)] = "running"
    /\ y \in DOMAIN grpc_calls' => y \in DOMAIN grpc_calls

\* A call stays ended.
LEMMA EndedKept ==
  ASSUME CallsOK, ConnsDown, NEW y \in DOMAIN state, state'[y] = state[y],
         y \in async_results => y \in async_results', responses'[y] = responses[y],
         responses[y] = <<>> /\ ~Sync(y) =>
           context'[state[y].ctx].status = context[state[y].ctx].status,
         Due(y) /\ Awaited(y) => <<ConnOf(state[y].ctx), Stream(y)>> \in scheduled'
  PROVE  Ended(y) => Ended(y)'
<1>1. (Sync(y)' <=> Sync(y)) /\ Stream(y)' = Stream(y)
  BY DEF Sync, Stream
<1>2. CASE Sync(y)
  <2>1. state[y].conn = ConnOf(state[y].ctx)
    BY <1>2, CallContext
  <2>2. Awaited(y)' => Awaited(y)
    BY <1>1, <1>2, <2>1 DEF Awaited, ConnsDown
  <2>3. Due(y) /\ Awaited(y) => Due(y)'
    BY <1>1 DEF Due
  <2> QED
    BY <1>1, <1>2, <2>2, <2>3 DEF Ended
<1>3. CASE ~Sync(y)
  BY <1>1, <1>3 DEF Ended, NotFound
<1> QED
  BY <1>2, <1>3

\* What the end of call x, in its connection, leaves to be done: nothing.
LEMMA FinishedTold ==
  ASSUME CallsOK, StreamsOK, NEW x \in DOMAIN state, NEW cx, Finishes(x, cx),
         FinishedInternal(ConnOf(state[x].ctx), Stream(x), cx)
  PROVE  \/ responses' = [responses EXCEPT ![x] = Append(@, Response(cx[state[x].ctx]))]
         \/ /\ UNCHANGED <<responses, grpc_calls>>
            /\ \/ conn_state[ConnOf(state[x].ctx)] # "running"
               \/ ConnOf(state[x].ctx) \in GrpcConns /\ x \notin DOMAIN grpc_calls
<1>1. PICK k, c : k = state[x].ctx /\ c = ConnOf(k)
  OBVIOUS
<1>2. /\ c \in HttpConns => k = HttpContext(c)
      /\ c \notin HttpConns => Stream(x) = x /\ c \in GrpcConns
      /\ x \in DOMAIN grpc_calls => grpc_calls[x] = k
      /\ cx[k].call = x
  BY <1>1, CallContext DEF StreamsOK, Finishes
<1>3. CASE c \in HttpConns
  <2>1. HttpFinished(c, cx)
    BY <1>1, <1>3 DEF FinishedInternal
  <2> QED
    BY <1>1, <1>2, <1>3, <2>1, Zenon DEF HttpFinished, SendHttpResponse
<1>4. CASE c \notin HttpConns
  <2>1. GrpcFinished(x, cx)
    BY <1>1, <1>2, <1>4 DEF FinishedInternal
  <2> QED
    BY <1>1, <1>2, <1>4, <2>1, Zenon DEF GrpcFinished, H2SendResponse
<1> QED
  BY <1>3, <1>4

\* The end of call x, in its connection or on its way there.
LEMMA EndedFinish ==
  ASSUME ContextInv, CallsOK, ConnsDown, NEW x \in DOMAIN state, NEW cx,
         Owns(x), Finishes(x, cx), context' = cx, UNCHANGED <<state, async_results>>,
         \/ /\ FinishedInternal(ConnOf(state[x].ctx), Stream(x), cx)
            /\ scheduled \ {<<ConnOf(state[x].ctx), Stream(x)>>} \subseteq scheduled'
         \/ /\ UNCHANGED <<responses, grpc_calls>> /\ conn_state[ConnOf(state[x].ctx)] # "running"
            /\ scheduled \ {<<ConnOf(state[x].ctx), Stream(x)>>} \subseteq scheduled'
         \/ /\ UNCHANGED <<responses, grpc_calls>>
            /\ scheduled' = scheduled \cup {<<ConnOf(state[x].ctx), Stream(x)>>}
  PROVE  /\ \A y \in DOMAIN state : y # x /\ Ended(y) => Ended(y)'
         /\ Sync(x) \/ cx[state[x].ctx].status = "notfound" \/ x \in async_results => Ended(x)'
<1> DEFINE k == state[x].ctx
           c == ConnOf(k)
           r == Response(cx[k])
<1>1. /\ x \in Calls /\ k \in Contexts /\ c \in Conns /\ (Sync(x) => state[x].conn = c)
      /\ DOMAIN responses = Calls /\ responses[x] = <<>>
  BY CallContext DEF ContextInv, ContextsOK, Owns
<1>2. Append(responses[x], r) = <<r>> /\ <<r>> # <<>> /\ <<r>>[1] = r /\ r.status = cx[k].status
  BY <1>1 DEF Response
<1>3. scheduled \ {<<c, Stream(x)>>} \subseteq scheduled'
  OBVIOUS
<1>4. \/ responses' = [responses EXCEPT ![x] = Append(@, r)]
      \/ /\ UNCHANGED <<responses, grpc_calls>>
         /\ \/ conn_state[c] # "running"
            \/ c \in GrpcConns /\ x \notin DOMAIN grpc_calls
            \/ <<c, Stream(x)>> \in scheduled'
  BY FinishedTold DEF ContextInv
<1>5. responses'[x] = <<r>> \/ responses' = responses
  BY <1>1, <1>2, <1>4
<1>6. \A y \in Calls : y # x => responses'[y] = responses[y]
  BY <1>1, <1>4
<1> HIDE DEF k, c, r
<1>7. ASSUME NEW y \in DOMAIN state, y # x
      PROVE  Ended(y) => Ended(y)'
  <2>1. y \in Calls /\ responses'[y] = responses[y] /\ state[y].ctx \in Contexts
    BY <1>6, <1>7, CallContext
  <2>2. ASSUME Owns(y)
        PROVE  /\ context'[state[y].ctx] = context[state[y].ctx]
               /\ <<ConnOf(state[y].ctx), Stream(y)>> # <<c, Stream(x)>>
    BY <1>7, <2>1, <2>2, OwnsOne DEF Finishes, c, k
  <2>3. responses[y] = <<>> /\ ~Sync(y) => Owns(y)
    BY CallContext DEF ContextInv, WaitingOK
  <2>4. Awaited(y) /\ Sync(y) => Owns(y)
    BY CallContext DEF ContextInv, WaitingOK, StreamsOK, Awaited
  <2>6. CASE Sync(y)
    <3>1. Due(y) /\ Awaited(y) => <<ConnOf(state[y].ctx), Stream(y)>> \in scheduled'
      BY <1>3, <2>2, <2>4, <2>6 DEF Due
    <3> QED
      BY <2>1, <2>6, <3>1, EndedKept
  <2>7. CASE ~Sync(y)
    BY <2>1, <2>2, <2>3, <2>7 DEF Ended, NotFound, Sync
  <2> QED
    BY <2>6, <2>7
<1>8. ASSUME Sync(x)
      PROVE  Ended(x)'
  <2>1. Sync(x)' /\ Stream(x)' = Stream(x) /\ c = ConnOf(state[x].ctx) /\ state[x].conn = c
    BY <1>1, <1>8 DEF Sync, Stream, c, k
  <2>2. CASE responses'[x] = <<r>>
    BY <1>2, <2>1, <2>2 DEF Ended, Awaited
  <2>3. CASE <<c, Stream(x)>> \in scheduled'
    BY <2>1, <2>3 DEF Ended, Due
  <2>4. CASE conn_state[c] # "running" \/ (c \in GrpcConns /\ x \notin DOMAIN grpc_calls)
    BY <2>1, <2>4 DEF Ended, Awaited, ConnsDown
  <2> QED
    BY <1>1, <1>2, <1>4, <2>2, <2>3, <2>4
<1>9. ASSUME ~Sync(x), cx[k].status = "notfound" \/ x \in async_results
      PROVE  Ended(x)'
  <2>1. ~Sync(x)'
    BY <1>9 DEF Sync
  <2>2. CASE responses'[x] = <<r>>
    BY <1>2, <1>9, <2>1, <2>2 DEF Ended, NotFound
  <2>3. CASE responses' = responses
    BY <1>1, <1>9, <2>1, <2>3 DEF Ended, NotFound, k
  <2> QED
    BY <1>5, <2>2, <2>3
<1> QED
  BY <1>7, <1>8, <1>9 DEF k

\* FinishFuncCall, for a call whose end was still to come.
LEMMA EndedHandOver ==
  ASSUME ContextInv, CallsOK, ConnsDown, NEW x \in DOMAIN state, NEW cx, NEW w,
         Open(x), Finishes(x, cx), FinishFuncCall(w, state[x].ctx, cx),
         UNCHANGED <<state, async_results>>
  PROVE  /\ \A y \in DOMAIN state : y # x /\ Ended(y) => Ended(y)'
         /\ Sync(x) \/ cx[state[x].ctx].status = "notfound" => Ended(x)'
<1>1. PICK k, c, s : k = state[x].ctx /\ c = ConnOf(k) /\ s = Stream(x)
  OBVIOUS
<1>2. Owns(x) /\ cx[k].stream = s
  BY <1>1 DEF ContextInv, OpenOK, Finishes
<1>3. /\ context' = cx
      /\ \/ FinishedInternal(c, s, cx) /\ UNCHANGED scheduled
         \/ /\ scheduled' = scheduled \cup {<<c, s>>}
            /\ UNCHANGED <<recv, free, grpc_calls, responses>>
  BY <1>1, <1>2, Zenon DEF FinishFuncCall, ScheduleFunction
<1>4. \/ /\ FinishedInternal(ConnOf(state[x].ctx), Stream(x), cx)
         /\ scheduled \ {<<ConnOf(state[x].ctx), Stream(x)>>} \subseteq scheduled'
      \/ /\ UNCHANGED <<responses, grpc_calls>>
         /\ scheduled' = scheduled \cup {<<ConnOf(state[x].ctx), Stream(x)>>}
  BY <1>1, <1>3
<1> QED
  BY <1>2, <1>3, <1>4, EndedFinish

\* The steps above close connections and streams.
LEMMA ConnsGo ==
  ASSUME ContextInv, CallsOK,
         UNCHANGED conn_state \/ \E c : conn_state' = [conn_state EXCEPT ![c] = "closing"],
         DOMAIN grpc_calls' \subseteq DOMAIN grpc_calls
  PROVE  /\ ConnsDown
         /\ \A c \in Conns : conn_state'[c] = "running" => conn_state[c] = "running"
<1>1. \A c \in Conns : conn_state'[c] = "running" => conn_state[c] = "running"
  BY DEF ContextInv, ContextsOK
<1>2. \A y \in DOMAIN state : ConnOf(state[y].ctx) \in Conns
  BY CallContext
<1> QED
  BY <1>1, <1>2 DEF ConnsDown

\* A step that starts no connection and discards no call.
LEMMA ConnsOKKept ==
  ASSUME ConnsOK, CallsOK, \A y \in DOMAIN state : state'[y] = state[y],
         DOMAIN state \subseteq DOMAIN state',
         connections' = connections, registering' = registering,
         discarded_func_calls' \subseteq discarded_func_calls,
         \A c \in Conns : conn_state'[c] = "running" => conn_state[c] = "running",
         \A y \in DOMAIN state : y \in DOMAIN grpc_calls' => y \in DOMAIN grpc_calls
  PROVE  ConnsOK'
BY DEF ConnsOK, Sync

\* What FinishFuncCall may do to the streams.
LEMMA FewerStreams ==
  ASSUME NEW w, NEW k, NEW cx, FinishFuncCall(w, k, cx) \/ NotFinished
  PROVE  DOMAIN grpc_calls' \subseteq DOMAIN grpc_calls
<1>1. \/ UNCHANGED grpc_calls
      \/ \E s : grpc_calls' = [t \in DOMAIN grpc_calls \ {s} |-> grpc_calls[t]]
  BY Zenon DEF FinishFuncCall, NotFinished, ScheduleFunction, FinishedInternal, HttpFinished,
     GrpcFinished
<1> QED
  BY <1>1

\* Calls that are not in the hands of the handler that takes a step.
Elsewhere(w, y) == task[w].pc \in {"idle", "try"} \/ task[w].call # y

\* What was with an engine, or is lost, remains so.
PlacesGrow ==
  /\ overtaken \subseteq overtaken' /\ dropped \subseteq dropped' /\ lost \subseteq lost'
  /\ \A y \in DOMAIN state : AtEngine(y) => Reached(y)'

\* A call that reached an engine has done so for good.
LEMMA ReachedKept ==
  ASSUME TasksOK, PlacesGrow, NEW w \in Workers, NEW h, task' = [task EXCEPT ![w] = h],
         NEW y \in DOMAIN state, Elsewhere(w, y) \/ task[w].pc # "answer"
  PROVE  Reached(y) => Reached(y)'
<1>1. \A v \in Workers : v # w => task'[v] = task[v]
  BY DEF TasksOK
<1>2. Answering(y) => Answering(y)'
  BY <1>1 DEF Answering, Elsewhere
<1> QED
  BY <1>2 DEF PlacesGrow, Reached

\* A handler of another call does not take this one away.
LEMMA SomewhereKept ==
  ASSUME TasksOK, PlacesGrow, NEW w \in Workers, NEW h, task' = [task EXCEPT ![w] = h],
         NEW y \in DOMAIN state, Elsewhere(w, y),
         y \in Listed(pending_func_calls) => y \in Listed(pending_func_calls'),
         y \in running_func_calls => y \in running_func_calls'
  PROVE  Somewhere(y) => Somewhere(y)'
<1>1. \A v \in Workers : v # w => task'[v] = task[v]
  BY DEF TasksOK
<1>2. InHand(y) => InHand(y)'
  BY <1>1 DEF InHand, Elsewhere
<1>3. Reached(y) => Reached(y)'
  BY ReachedKept
<1>4. y \in Listed(pending_func_calls) => y \in Listed(pending_func_calls)'
  OBVIOUS
<1> QED
  BY <1>2, <1>3, <1>4 DEF PlacesGrow, Somewhere

\* InsertOK, over the step of a handler.
LEMMA InsertKept ==
  ASSUME TasksOK, PlacesGrow, InsertOK, NEW w \in Workers, NEW h, task' = [task EXCEPT ![w] = h],
         CallsOK, h.pc = "insert" => Reached(h.call)',
         NEW x, x = task[w].call,
         task[w].pc = "answer" => \A v \in Workers : ~Carries(v, x) \/ Reached(x)'
  PROVE  InsertOK'
<1> SUFFICES ASSUME NEW v \in Workers, (task[v].pc = "insert")'
             PROVE  Reached(task[v].call)'
  BY DEF InsertOK
<1>1. task'[w] = h /\ (v # w => task'[v] = task[v])
  BY DEF TasksOK
<1>2. CASE v = w
  <2>1. (task[v].call)' = h.call /\ h.pc = "insert"
    BY <1>1, <1>2
  <2> QED
    BY <2>1 DEF Reached, AtEngine, InFlight, Answering
<1>3. CASE v # w
  <2>1. PICK y : y = task[v].call
    OBVIOUS
  <2>2. /\ task[v].pc = "insert" /\ Reached(y) /\ y \in DOMAIN state /\ Carries(v, y)
        /\ y = (task[v].call)'
    BY <1>1, <1>3, <2>1, TaskFacts DEF InsertOK, CallsOK, Carries
  <2>3. Reached(y)'
    <3>1. CASE task[w].pc = "answer" /\ x = y
      BY <2>2, <3>1
    <3>2. CASE ~(task[w].pc = "answer" /\ x = y)
      <4>1. Elsewhere(w, y) \/ task[w].pc # "answer"
        BY <3>2 DEF Elsewhere
      <4> QED
        BY <2>2, <4>1, ReachedKept
    <3> QED
      BY <3>1, <3>2
  <2> QED
    BY <2>2, <2>3 DEF Reached, AtEngine, InFlight, Answering
<1> QED
  BY <1>2, <1>3

\* A step of a handler: the calls that it has in hand, and all others.
LEMMA ProgressMove ==
  ASSUME ProgressInv, PlaceInv, NEW w \in Workers, NEW h, task' = [task EXCEPT ![w] = h],
         ConnsOK', PlacesGrow, DOMAIN state' = DOMAIN state, h.pc = "insert" => Reached(h.call)',
         NEW x, x = task[w].call,
         task[w].pc = "answer" => \A v \in Workers : ~Carries(v, x) \/ Reached(x)',
         \A y \in DOMAIN state :
           \/ /\ Elsewhere(w, y) /\ (Ended(y) => Ended(y)')
              /\ y \in Listed(pending_func_calls) => y \in Listed(pending_func_calls')
              /\ y \in running_func_calls => y \in running_func_calls'
           \/ Somewhere(y)' \/ Ended(y)'
  PROVE  ProgressInv'
<1>1. InsertOK'
  BY InsertKept DEF ProgressInv, PlaceInv
<1>2. ASSUME NEW y \in DOMAIN state
      PROVE  Somewhere(y)' \/ Ended(y)'
  <2>1. Somewhere(y) \/ Ended(y)
    BY DEF ProgressInv
  <2> QED
    BY <2>1, SomewhereKept DEF PlaceInv
<1> QED
  BY <1>1, <1>2 DEF ProgressInv

\* PlacesGrow, when nothing is sent and no answer comes.
LEMMA PlacesSame ==
  ASSUME UNCHANGED rest, overtaken \subseteq overtaken', dropped \subseteq dropped'
  PROVE  PlacesGrow
<1>1. \A y \in DOMAIN state : AtEngine(y)' <=> AtEngine(y)
  BY DEF AtEngine, InFlight, rest
<1> QED
  BY <1>1 DEF PlacesGrow, Reached, rest

\* A request, over HTTP or gRPC.
LEMMA ProgressRequest ==
  ASSUME ProgressInv, ContextInv, PlaceInv, PoolOK, NEW w \in Workers,
         \/ \E c \in HttpConns, async, bad \in BOOLEAN : OnNewHttpRequest(w, c, async, bad)
         \/ \E c \in GrpcConns : OnNewGrpcCall(w, c)
  PROVE  ProgressInv'
<1>0. CallsOK /\ TasksOK /\ HttpConns \cap GrpcConns = {} /\ NoConn \notin Conns
  BY GatewayAssumption DEF PlaceInv
<1>1. ASSUME NEW c \in Conns, NEW k \in Contexts, NEW st, NEW async \in Flag, NEW bad \in Flag,
             MayCall, task[w] = Idle, OnNewFuncCall(w, c, k, st, async, bad), ConnOf(k) = c,
             UNCHANGED <<rest, pending_func_calls, running_func_calls, responses, scheduled,
                         conn_state, connections, registering, discarded_func_calls, async_results,
                         overtaken, dropped>>,
             \/ c \in HttpConns /\ recv[c] /\ UNCHANGED grpc_calls
             \/ k \in free /\ grpc_calls' = Put(grpc_calls, next_call_id, k)
      PROVE  ProgressInv'
  <2>1. PICK h \in Handlers : NewCall(h, w, c, k, st, async, bad)
    BY <1>1, NewFacts, Zenon
  <2>2. PICK x : x = next_call_id
    OBVIOUS
  <2>3. x \in Calls /\ x \notin DOMAIN state
    BY <1>0, <1>1, <2>2, KnownCalls DEF MayCall, CallsOK
  <2>4. PICK cx : context' = [context EXCEPT ![k] = cx]
    BY <2>1, Zenon DEF NewCall
  <2>5. /\ state' = Put(state, x, st) /\ h.call = x /\ h.pc \in {"queue", "send"}
        /\ task' = [task EXCEPT ![w] = h]
    BY <2>1, <2>2, Zenon DEF NewCall
  <2>6. DOMAIN state' = DOMAIN state \cup {x} /\ \A y \in DOMAIN state : state'[y] = state[y]
    BY <2>3, <2>5 DEF Put
  <2>7. \A y \in DOMAIN state : y \in DOMAIN grpc_calls' => y \in DOMAIN grpc_calls
    BY <1>1, <2>2, <2>3 DEF Put
  <2>8. ConnsDown
    BY <1>1, <2>7 DEF ConnsDown
  <2>9. ConnsOK'
    BY <1>0, <1>1, <2>6, <2>7, ConnsOKKept DEF ProgressInv
  <2>10. PlacesGrow
    BY <1>1, PlacesSame
  <2>11. task[w].pc = "idle"
    BY <1>1 DEF Idle
  <2>12. InsertOK'
    <3>1. PICK z : z = task[w].call
      OBVIOUS
    <3>2. h.pc # "insert" /\ task[w].pc # "answer"
      BY <2>5, <2>11
    <3> QED
      BY <1>0, <2>5, <2>10, <3>1, <3>2, InsertKept DEF ProgressInv
  <2>13. ASSUME NEW y \in DOMAIN state
         PROVE  Ended(y) => Ended(y)'
    <3>1. responses[y] = <<>> /\ ~Sync(y) => Owns(y)
      BY <1>0, CallContext DEF ContextInv, WaitingOK
    <3>2. Owns(y) => state[y].ctx # k
      BY <1>0, <1>1 DEF Owns
    <3>3. state[y].ctx # k => context'[state[y].ctx] = context[state[y].ctx]
      BY <2>4
    <3>4. Due(y) => <<ConnOf(state[y].ctx), Stream(y)>> \in scheduled'
      BY <1>1 DEF Due
    <3> QED
      BY <1>0, <1>1, <2>6, <2>8, <3>1, <3>2, <3>3, <3>4, EndedKept
  <2>14. ASSUME NEW y \in DOMAIN state
         PROVE  Somewhere(y) => Somewhere(y)'
    <3>1. Elsewhere(w, y)
      BY <2>11 DEF Elsewhere
    <3> QED
      BY <1>0, <1>1, <2>5, <2>10, <3>1, SomewhereKept
  <2>15. Somewhere(x)'
    <3>1. task'[w] = h
      BY <1>0, <2>5 DEF TasksOK
    <3>2. InHand(x)'
      BY <2>5, <3>1 DEF InHand
    <3> QED
      BY <3>2 DEF Somewhere
  <2> QED
    BY <2>6, <2>9, <2>12, <2>13, <2>14, <2>15 DEF ProgressInv
<1>2. ASSUME NEW c \in HttpConns, NEW async \in BOOLEAN, NEW bad \in BOOLEAN,
             OnNewHttpRequest(w, c, async, bad)
      PROVE  ProgressInv'
  <2>1. PICK k, st : k = HttpContext(c) /\ st = HttpCallState(c, async)
    OBVIOUS
  <2>2. /\ MayCall /\ task[w] = Idle /\ recv[c] /\ OnNewFuncCall(w, c, k, st, async, bad)
        /\ UNCHANGED <<rest, pending_func_calls, running_func_calls, responses, scheduled,
                       conn_state, connections, registering, discarded_func_calls, async_results,
                       overtaken, dropped, grpc_calls>>
    BY <1>2, <2>1, HttpRequestFacts, Zenon
  <2>3. c \in Conns /\ k \in Contexts /\ async \in Flag /\ bad \in Flag /\ ConnOf(k) = c
    BY <2>1 DEF Conns, Contexts, Flag, HttpContext, ConnOf
  <2> QED
    BY <1>1, <2>2, <2>3
<1>3. ASSUME NEW c \in GrpcConns, OnNewGrpcCall(w, c)
      PROVE  ProgressInv'
  <2>1. PICK k, st : k = GetContext(c) /\ st = [conn |-> c, ctx |-> k]
    OBVIOUS
  <2>2. /\ MayCall /\ task[w] = Idle /\ OnNewFuncCall(w, c, k, st, FALSE, FALSE)
        /\ grpc_calls' = Put(grpc_calls, next_call_id, k)
        /\ UNCHANGED <<rest, pending_func_calls, running_func_calls, responses, scheduled,
                       conn_state, connections, registering, discarded_func_calls, async_results,
                       overtaken, dropped>>
    BY <1>3, <2>1, GrpcCallFacts, Zenon
  <2>3. k \in free /\ k \in GrpcContexts /\ k[1] = c
    BY <1>0, <2>1, <2>2, GetContextFacts DEF MayCall
  <2>4. c \in Conns /\ k \in Contexts /\ FALSE \in Flag /\ ConnOf(k) = c
    BY <2>3 DEF Conns, Contexts, Flag, ConnOf
  <2> QED
    BY <1>1, <2>2, <2>3, <2>4
<1> QED
  BY <1>2, <1>3

\* EndNew, and steps that leave the connections alone.
LEMMA EndNewConns ==
  ASSUME NEW w, EndNew(w) \/ UNCHANGED conn_state
  PROVE  UNCHANGED conn_state \/ \E c : conn_state' = [conn_state EXCEPT ![c] = "closing"]
BY Zenon DEF EndNew

\* Calls that are not finished by a step, when nothing is handed over.
LEMMA EndedSame ==
  ASSUME CallsOK, ConnsDown, UNCHANGED <<state, context, responses, scheduled>>,
         async_results \subseteq async_results', NEW y \in DOMAIN state
  PROVE  Ended(y) => Ended(y)'
<1>1. Due(y) => <<ConnOf(state[y].ctx), Stream(y)>> \in scheduled'
  BY SMTT(60) DEF Due
<1> QED
  BY <1>1, EndedKept

\* A call that is queued.
LEMMA ProgressQueue ==
  ASSUME ProgressInv, ContextInv, PlaceInv, NEW w \in Workers, QueueNew(w)
  PROVE  ProgressInv'
<1>0. CallsOK
  BY DEF PlaceInv
<1>1. PICK x : x = task[w].call
  OBVIOUS
<1>2. /\ task[w].pc = "queue" /\ task' = [task EXCEPT ![w] = Idle]
      /\ EndNew(w) \/ UNCHANGED conn_state
      /\ UNCHANGED <<state, rest, running_func_calls, discarded_func_calls, connections, registering,
                     async_results, overtaken, dropped>>
      /\ pending_func_calls' = Append(pending_func_calls, x)
      /\ IF context[state[x].ctx].async
           THEN FinishFuncCall(w, state[x].ctx, [context EXCEPT ![state[x].ctx].status = "ok"])
           ELSE NotFinished
  BY <1>1, Zenon DEF QueueNew, EndNew, engineVars, histVars, rest
<1>3. task[w].pc \in Early /\ task[w].from = "new" /\ task[w].pc # "answer"
  BY <1>2 DEF Early, ContextInv, HandlersOK
<1>4. x \in DOMAIN state /\ Open(x)
  BY <1>1, <1>3, EarlyCall
<1>5. context[state[x].ctx].async <=> ~Sync(x)
  BY <1>4 DEF ContextInv, OpenOK
<1>6. Listed(pending_func_calls') = Listed(pending_func_calls) \cup {x}
  <2>1. PICK S, p, q : S = 1 .. next_call_id - 1 /\ p = pending_func_calls /\ q = pending_func_calls'
    OBVIOUS
  <2>2. p \in Seq(S) /\ x \in S /\ (q = Append(p, x) \/ q = <<x>> \o p)
    BY <1>0, <1>2, <1>4, <2>1 DEF PlaceInv, PlacesOK, CallsOK
  <2>3. Listed(q) = Listed(p) \cup {x}
    BY <2>2, ListedGrows
  <2> QED
    BY <2>1, <2>3
<1>7. DOMAIN grpc_calls' \subseteq DOMAIN grpc_calls
  BY <1>2, FewerStreams
<1>8. /\ ConnsDown
      /\ \A c \in Conns : conn_state'[c] = "running" => conn_state[c] = "running"
  BY <1>0, <1>2, <1>7, EndNewConns, ConnsGo
<1>9. ConnsOK'
  BY <1>0, <1>2, <1>7, <1>8, ConnsOKKept DEF ProgressInv
<1>10. PlacesGrow
  BY <1>2, PlacesSame
<1>11. \A y \in DOMAIN state : y # x /\ Ended(y) => Ended(y)'
  <2>1. CASE ~context[state[x].ctx].async
    BY <1>0, <1>2, <1>8, <2>1, EndedSame DEF NotFinished
  <2>2. CASE context[state[x].ctx].async
    <3>1. PICK cx : cx = [context EXCEPT ![state[x].ctx].status = "ok"]
      OBVIOUS
    <3>2. FinishFuncCall(w, state[x].ctx, cx) /\ ~Sync(x)
      BY <1>2, <1>5, <2>2, <3>1
    <3>3. "ok" \in Outcomes
      BY DEF Outcomes
    <3>4. Finishes(x, cx)
      BY <1>0, <1>4, <3>1, <3>2, <3>3, FinishesStatus, ZenonT(60)
    <3> QED
      BY <1>0, <1>2, <1>4, <1>8, <3>2, <3>4, EndedHandOver
  <2> QED
    BY <2>1, <2>2
<1>12. Somewhere(x)'
  BY <1>6 DEF Somewhere
<1>13. Idle.pc # "insert"
  BY DEF Idle
<1>14. \A y \in DOMAIN state : y # x => Elsewhere(w, y)
  BY <1>1, SMTT(60) DEF Elsewhere
<1> QED
  BY <1>1, <1>2, <1>3, <1>6, <1>9, <1>10, <1>11, <1>12, <1>13, <1>14, ProgressMove

\* A call that was sent.
LEMMA ProgressDispatched ==
  ASSUME ProgressInv, ContextInv, PlaceInv, NEW w \in Workers, Dispatched(w)
  PROVE  ProgressInv'
<1>0. CallsOK
  BY DEF PlaceInv
<1>1. PICK x, n : x = task[w].call /\ n = task[w].node
  OBVIOUS
<1>2. /\ task[w].pc = "send" /\ n \in Nodes /\ task' = [task EXCEPT ![w].pc = "insert"]
      /\ \/ dispatched' = dispatched \cup {<<n, x>>} /\ UNCHANGED lost
         \/ lost' = lost \cup {<<n, x>>} /\ UNCHANGED dispatched
      /\ UNCHANGED <<state, taken, answered, handled, pending_func_calls, conn_state,
                     running_func_calls, discarded_func_calls, connections, registering, async_results,
                     overtaken, dropped>>
      /\ IF task[w].from = "new" /\ state[x].conn = NoConn
           THEN FinishFuncCall(w, state[x].ctx, [context EXCEPT ![state[x].ctx].status = "ok"])
           ELSE NotFinished
  BY <1>1, Zenon DEF Dispatched, HasHub, SendMessageToEngine, HubSendMessage, callVars
<1>3. task[w].pc \in Early /\ task[w].pc # "answer"
  BY <1>2 DEF Early
<1>4. /\ x \in DOMAIN state /\ x \in Calls /\ task[w] \in Handlers
      /\ task[w].from = "new" \/ Sync(x) => Open(x)
  BY <1>1, <1>3, EarlyCall
<1>5. PICK h : h = [task[w] EXCEPT !.pc = "insert"]
  OBVIOUS
<1>6. h.pc = "insert" /\ h.call = x
  BY <1>1, <1>4, <1>5 DEF Handlers
<1>7. task' = [task EXCEPT ![w] = h]
  BY <1>2, <1>5
<1>8. Reached(x)'
  BY <1>2 DEF Reached, AtEngine
<1>9. PlacesGrow
  <2>1. \A y \in DOMAIN state : y # x => (AtEngine(y) => AtEngine(y)')
    BY <1>2 DEF AtEngine, InFlight
  <2> QED
    BY <1>2, <1>8, <2>1 DEF PlacesGrow, Reached
<1>10. DOMAIN grpc_calls' \subseteq DOMAIN grpc_calls
  BY <1>2, FewerStreams
<1>11. /\ ConnsDown
       /\ \A c \in Conns : conn_state'[c] = "running" => conn_state[c] = "running"
  BY <1>0, <1>2, <1>10, ConnsGo
<1>12. ConnsOK'
  BY <1>0, <1>2, <1>10, <1>11, ConnsOKKept DEF ProgressInv
<1>13. \A y \in DOMAIN state : y # x /\ Ended(y) => Ended(y)'
  <2>1. CASE ~(task[w].from = "new" /\ state[x].conn = NoConn)
    BY <1>0, <1>2, <1>11, <2>1, EndedSame DEF NotFinished
  <2>2. CASE task[w].from = "new" /\ state[x].conn = NoConn
    <3>1. PICK cx : cx = [context EXCEPT ![state[x].ctx].status = "ok"]
      OBVIOUS
    <3>2. FinishFuncCall(w, state[x].ctx, cx) /\ ~Sync(x) /\ Open(x)
      BY <1>2, <1>4, <2>2, <3>1 DEF Sync
    <3>3. "ok" \in Outcomes
      BY DEF Outcomes
    <3>4. Finishes(x, cx)
      BY <1>0, <1>4, <3>1, <3>2, <3>3, FinishesStatus
    <3> QED
      BY <1>0, <1>2, <1>4, <1>11, <3>2, <3>4, EndedHandOver
  <2> QED
    BY <2>1, <2>2
<1>14. Somewhere(x)'
  <2>1. task'[w] = h
    BY <1>7 DEF PlaceInv, TasksOK
  <2>2. InHand(x)'
    BY <1>6, <2>1 DEF InHand
  <2> QED
    BY <2>2 DEF Somewhere
<1>15. \A y \in DOMAIN state : y # x => Elsewhere(w, y)
  BY <1>1 DEF Elsewhere
<1>16. h.pc = "insert" => Reached(h.call)'
  BY <1>6, <1>8, SMTT(60)
<1> QED
  BY <1>1, <1>2, <1>3, <1>7, <1>9, <1>12, <1>13, <1>14, <1>15, <1>16, ProgressMove

\* A call that could not be sent ends, or is dropped.
LEMMA ProgressNotDispatched ==
  ASSUME ProgressInv, ContextInv, PlaceInv, NEW w \in Workers, NotDispatched(w)
  PROVE  ProgressInv'
<1>0. CallsOK
  BY DEF PlaceInv
<1>1. PICK x : x = task[w].call
  OBVIOUS
<1>2. /\ task[w].pc = "send"
      /\ task' = [task EXCEPT ![w] = Idle] \/ task' = [task EXCEPT ![w].pc = "try"]
      /\ EndNew(w) \/ UNCHANGED conn_state
      /\ UNCHANGED <<state, rest, pending_func_calls, running_func_calls, discarded_func_calls,
                     connections, registering, async_results, overtaken>>
      /\ IF state[x].conn # NoConn \/ task[w].from = "new"
           THEN /\ FinishFuncCall(w, state[x].ctx, [context EXCEPT ![state[x].ctx].status = "notfound"])
                /\ UNCHANGED dropped
           ELSE NotFinished /\ dropped' = dropped \cup {x}
  BY <1>1, Zenon DEF NotDispatched, EndNew, callVars, engineVars, rest
<1>3. task[w].pc \in Early /\ task[w].pc # "answer"
  BY <1>2 DEF Early
<1>4. /\ x \in DOMAIN state /\ task[w] \in Handlers
      /\ task[w].from = "new" \/ Sync(x) => Open(x)
  BY <1>1, <1>3, EarlyCall
<1>5. PICK h : task' = [task EXCEPT ![w] = h] /\ h.pc \in {"idle", "try"}
  <2>1. CASE task' = [task EXCEPT ![w] = Idle]
    <3>1. Idle.pc \in {"idle", "try"}
      BY DEF Idle
    <3> QED
      BY <2>1, <3>1, Zenon
  <2>2. CASE task' = [task EXCEPT ![w].pc = "try"]
    <3>1. PICK h : h = [task[w] EXCEPT !.pc = "try"]
      OBVIOUS
    <3>2. h.pc \in {"idle", "try"}
      BY <1>4, <3>1 DEF Handlers
    <3>3. task' = [task EXCEPT ![w] = h]
      BY <2>2, <3>1
    <3> QED
      BY <3>2, <3>3, Zenon
  <2> QED
    BY <1>2, <2>1, <2>2
<1>6. PlacesGrow
  <2>1. dropped \subseteq dropped' /\ overtaken \subseteq overtaken'
    BY <1>2
  <2> QED
    BY <1>2, <2>1, PlacesSame
<1>7. DOMAIN grpc_calls' \subseteq DOMAIN grpc_calls
  BY <1>2, FewerStreams
<1>8. /\ ConnsDown
      /\ \A c \in Conns : conn_state'[c] = "running" => conn_state[c] = "running"
  BY <1>0, <1>2, <1>7, EndNewConns, ConnsGo
<1>9. ConnsOK'
  BY <1>0, <1>2, <1>7, <1>8, ConnsOKKept DEF ProgressInv
<1>10. /\ \A y \in DOMAIN state : y # x /\ Ended(y) => Ended(y)'
       /\ Somewhere(x)' \/ Ended(x)'
  <2>1. CASE ~(state[x].conn # NoConn \/ task[w].from = "new")
    <3>1. UNCHANGED <<context, responses, scheduled>> /\ dropped' = dropped \cup {x}
      BY <1>2, <2>1 DEF NotFinished
    <3>2. Somewhere(x)'
      BY <3>1 DEF Somewhere
    <3> QED
      BY <1>0, <1>2, <1>8, <3>1, <3>2, EndedSame
  <2>2. CASE state[x].conn # NoConn \/ task[w].from = "new"
    <3>1. PICK cx : cx = [context EXCEPT ![state[x].ctx].status = "notfound"]
      OBVIOUS
    <3>2. FinishFuncCall(w, state[x].ctx, cx) /\ Open(x)
      BY <1>2, <1>4, <2>2, <3>1 DEF Sync
    <3>3. "notfound" \in Outcomes /\ "notfound" # "ok"
      BY DEF Outcomes
    <3>4. Finishes(x, cx)
      BY <1>0, <1>4, <3>1, <3>2, <3>3, FinishesStatus
    <3>5. cx[state[x].ctx].status = "notfound"
      BY <1>0, <1>4, <3>1, CallContext DEF ContextInv, ContextsOK, Fields
    <3> QED
      BY <1>0, <1>2, <1>4, <1>8, <3>2, <3>4, <3>5, EndedHandOver
  <2> QED
    BY <2>1, <2>2
<1>11. h.pc # "insert" /\ \A y \in DOMAIN state : y # x => Elsewhere(w, y)
  BY <1>1, <1>5 DEF Elsewhere
<1> QED
  BY <1>1, <1>2, <1>3, <1>5, <1>6, <1>9, <1>10, <1>11, ProgressMove

\* The call of a handler that enters it as running.
LEMMA InsertedCall ==
  ASSUME ProgressInv, PlaceInv, PlacesGrow, NEW w \in Workers, NEW h, task' = [task EXCEPT ![w] = h],
         task[w].pc = "insert", NEW x, x = task[w].call,
         running_func_calls' = running_func_calls \cup {x}
  PROVE  Somewhere(x)'
<1>1. x \in DOMAIN state /\ Reached(x) /\ task[w].pc # "answer"
  BY TaskFacts DEF PlaceInv, CallsOK, ProgressInv, InsertOK
<1>2. Reached(x)'
  BY <1>1, ReachedKept DEF PlaceInv
<1> QED
  BY <1>2 DEF Somewhere

\* A call that is entered as running.
LEMMA ProgressInsertNew ==
  ASSUME ProgressInv, ContextInv, PlaceInv, NEW w \in Workers, InsertNew(w)
  PROVE  ProgressInv'
<1>0. CallsOK
  BY DEF PlaceInv
<1>1. PICK x : x = task[w].call
  OBVIOUS
<1>2. /\ task[w].pc = "insert" /\ task' = [task EXCEPT ![w] = Idle]
      /\ EndNew(w) \/ UNCHANGED conn_state
      /\ running_func_calls' = running_func_calls \cup {x}
      /\ UNCHANGED <<state, rest, pending_func_calls, discarded_func_calls, connections, registering,
                     async_results, overtaken, dropped, grpc_calls, context, responses, scheduled>>
  BY <1>1, Zenon DEF InsertNew, EndNew, engineVars, histVars, rest
<1>3. PlacesGrow
  BY <1>2, PlacesSame
<1>4. /\ ConnsDown
      /\ \A c \in Conns : conn_state'[c] = "running" => conn_state[c] = "running"
  BY <1>0, <1>2, EndNewConns, ConnsGo
<1>5. ConnsOK'
  BY <1>0, <1>2, <1>4, ConnsOKKept DEF ProgressInv
<1>6. \A y \in DOMAIN state : Ended(y) => Ended(y)'
  BY <1>0, <1>2, <1>4, EndedSame
<1>7. Somewhere(x)'
  BY <1>1, <1>2, <1>3, InsertedCall
<1>8. Idle.pc # "insert" /\ task[w].pc # "answer" /\ \A y \in DOMAIN state : y # x => Elsewhere(w, y)
  BY <1>1, <1>2 DEF Elsewhere, Idle
<1> QED
  BY <1>1, <1>2, <1>3, <1>5, <1>6, <1>7, <1>8, ProgressMove

\* Nobody waits for a call that the loop over the queue passes over, unless its
\* connection is still to be entered.
LEMMA SkippedEnded ==
  ASSUME CallsOK, ConnsOK, NEW y \in DOMAIN state, Skips(y)
  PROVE  Ended(y) \/ NotEntered(y)
<1>1. Sync(y) => state[y].conn = ConnOf(state[y].ctx) /\ state[y].conn \in Conns
  BY CallContext
<1> QED
  BY <1>1 DEF Skips, NotEntered, ConnsOK, Ended, Awaited, Sync

\* TryDispatchingPendingFuncCalls
LEMMA ProgressTry ==
  ASSUME ProgressInv, ContextInv, PlaceInv, NEW w \in Workers,
         TryPop(w) \/ TryPick(w) \/ TryBack(w) \/ TryInsert(w)
  PROVE  ProgressInv'
<1>0. CallsOK /\ TasksOK
  BY DEF PlaceInv
<1>1. PICK x : x = task[w].call
  OBVIOUS
<1>2. /\ UNCHANGED <<state, rest, conn_state, connections, registering, async_results, overtaken,
                     grpc_calls, context, responses, scheduled>>
      /\ PopPending(w) \/ UNCHANGED dropped
      /\ \/ /\ PopPending(w)
            /\ \/ (task[w] = Idle \/ task[w].pc = "try") /\ UNCHANGED running_func_calls
               \/ task[w].pc = "insert" /\ running_func_calls' = running_func_calls \cup {x}
         \/ /\ task[w].pc = "pick"
            /\ UNCHANGED <<pending_func_calls, running_func_calls, discarded_func_calls>>
            /\ \/ \E n \in Nodes \cup {NoNode} :
                    task' = [task EXCEPT ![w].pc = "send", ![w].node = n]
               \/ task' = [task EXCEPT ![w].pc = "back"]
         \/ /\ task[w].pc = "back" /\ pending_func_calls' = <<x>> \o pending_func_calls
            /\ task' = [task EXCEPT ![w] = Idle]
            /\ UNCHANGED <<running_func_calls, discarded_func_calls>>
  BY <1>1, Zenon
  DEF TryPop, TryPick, TryBack, TryInsert, connVars, callVars, engineVars, histVars, rest
<1>3. PlacesGrow
  <2>1. dropped \subseteq dropped'
    BY <1>2, PopFacts
  <2> QED
    BY <1>2, <2>1, PlacesSame
<1>4. ConnsDown
  BY <1>2 DEF ConnsDown
<1>5. \A y \in DOMAIN state : Ended(y) => Ended(y)'
  BY <1>0, <1>2, <1>4, EndedSame
<1>6. ASSUME discarded_func_calls' \subseteq discarded_func_calls
      PROVE  ConnsOK'
  BY <1>0, <1>2, <1>6, ConnsOKKept DEF ProgressInv
<1>7. Idle.pc = "idle" /\ Idle.pc # "insert"
  BY DEF Idle
<1>8. CASE /\ PopPending(w)
           /\ \/ (task[w] = Idle \/ task[w].pc = "try") /\ UNCHANGED running_func_calls
              \/ task[w].pc = "insert" /\ running_func_calls' = running_func_calls \cup {x}
  <2>1. PICK h \in {Idle} \cup Handlers :
           /\ task' = [task EXCEPT ![w] = h]
           /\ h # Idle => h.pc = "pick"
           /\ \A y \in Listed(pending_func_calls) :
                \/ y \in Listed(pending_func_calls') \/ (h # Idle /\ y = h.call)
                \/ Skips(y) /\ (~NotEntered(y) \/ y \in dropped')
           /\ discarded_func_calls' \subseteq discarded_func_calls
    BY <1>8, PopFacts
  <2>2. task'[w] = h
    BY <1>0, <2>1 DEF TasksOK
  <2>3. task[w].pc # "answer" /\ h.pc # "insert"
    BY <1>7, <1>8, <2>1
  <2>4. ASSUME NEW y \in DOMAIN state, y \in Listed(pending_func_calls)
        PROVE  Somewhere(y)' \/ Ended(y)'
    <3>1. CASE y \in Listed(pending_func_calls')
      BY <3>1 DEF Somewhere
    <3>2. CASE h # Idle /\ y = h.call
      <4>1. InHand(y)'
        BY <2>1, <2>2, <3>2 DEF InHand
      <4> QED
        BY <4>1 DEF Somewhere
    <3>3. CASE Skips(y) /\ (~NotEntered(y) \/ y \in dropped')
      <4>1. Ended(y) \/ y \in dropped'
        BY <1>0, <3>3, SkippedEnded DEF ProgressInv
      <4> QED
        BY <1>5, <4>1 DEF Somewhere
    <3> QED
      BY <2>1, <2>4, <3>1, <3>2, <3>3
  <2>5. \A y \in DOMAIN state : \/ Elsewhere(w, y) /\ (y \in running_func_calls => y \in running_func_calls')
                                \/ Somewhere(y)'
    <3>1. CASE task[w] = Idle \/ task[w].pc = "try"
      BY <1>7, <1>8, <3>1 DEF Elsewhere
    <3>2. CASE task[w].pc = "insert" /\ running_func_calls' = running_func_calls \cup {x}
      <4>1. Somewhere(x)'
        BY <1>1, <1>3, <2>1, <3>2, InsertedCall
      <4> QED
        BY <1>1, <3>2, <4>1 DEF Elsewhere
    <3> QED
      BY <1>8, <3>1, <3>2
  <2>6. \A y \in DOMAIN state :
           \/ /\ Elsewhere(w, y) /\ (Ended(y) => Ended(y)')
              /\ y \in Listed(pending_func_calls) => y \in Listed(pending_func_calls')
              /\ y \in running_func_calls => y \in running_func_calls'
           \/ Somewhere(y)' \/ Ended(y)'
    BY <1>5, <2>4, <2>5
  <2> QED
    BY <1>1, <1>2, <1>3, <1>6, <2>1, <2>3, <2>6, ProgressMove
<1>9. ASSUME NEW h, task' = [task EXCEPT ![w] = h], h.pc # "insert", task[w].pc # "answer",
             UNCHANGED <<running_func_calls, discarded_func_calls>>, Somewhere(x)',
             \A y \in DOMAIN state :
               y \in Listed(pending_func_calls) => y \in Listed(pending_func_calls')
      PROVE  ProgressInv'
  <2>1. \A y \in DOMAIN state : y # x => Elsewhere(w, y)
    BY <1>1 DEF Elsewhere
  <2> QED
    BY <1>1, <1>2, <1>3, <1>5, <1>6, <1>9, <2>1, ProgressMove
<1>10. CASE /\ task[w].pc = "pick"
            /\ UNCHANGED <<pending_func_calls, running_func_calls, discarded_func_calls>>
            /\ \/ \E n \in Nodes \cup {NoNode} :
                    task' = [task EXCEPT ![w].pc = "send", ![w].node = n]
               \/ task' = [task EXCEPT ![w].pc = "back"]
  <2>1. task[w].pc \in Early
    BY <1>10 DEF Early
  <2>2. task[w] \in Handlers
    BY <2>1, EarlyCall
  <2>3. PICK h : task' = [task EXCEPT ![w] = h] /\ h.pc \in {"send", "back"} /\ h.call = x
    <3>1. ASSUME NEW n \in Nodes \cup {NoNode},
                 task' = [task EXCEPT ![w].pc = "send", ![w].node = n]
          PROVE  \E h : task' = [task EXCEPT ![w] = h] /\ h.pc \in {"send", "back"} /\ h.call = x
      <4>1. PICK h : h = [task[w] EXCEPT !.pc = "send", !.node = n]
        OBVIOUS
      <4>2. h.pc = "send" /\ h.call = x
        BY <1>1, <2>2, <4>1 DEF Handlers
      <4>3. task' = [task EXCEPT ![w] = h]
        BY <1>0, <2>2, <3>1, <4>1 DEF TasksOK
      <4> QED
        BY <4>2, <4>3
    <3>2. ASSUME task' = [task EXCEPT ![w].pc = "back"]
          PROVE  \E h : task' = [task EXCEPT ![w] = h] /\ h.pc \in {"send", "back"} /\ h.call = x
      <4>1. PICK h : h = [task[w] EXCEPT !.pc = "back"]
        OBVIOUS
      <4>2. h.pc = "back" /\ h.call = x
        BY <1>1, <2>2, <4>1 DEF Handlers
      <4>3. task' = [task EXCEPT ![w] = h]
        BY <3>2, <4>1
      <4> QED
        BY <4>2, <4>3
    <3> QED
      BY <1>10, <3>1, <3>2, Zenon
  <2>4. task'[w] = h
    BY <1>0, <2>3 DEF TasksOK
  <2>5. InHand(x)'
    BY <2>3, <2>4 DEF InHand
  <2>6. Somewhere(x)'
    BY <2>5 DEF Somewhere
  <2>7. h.pc # "insert" /\ task[w].pc # "answer"
    BY <1>10, <2>3
  <2> QED
    BY <1>9, <1>10, <2>3, <2>6, <2>7
<1>11. CASE /\ task[w].pc = "back" /\ pending_func_calls' = <<x>> \o pending_func_calls
            /\ task' = [task EXCEPT ![w] = Idle]
            /\ UNCHANGED <<running_func_calls, discarded_func_calls>>
  <2>1. task[w].pc \in Early /\ task[w].pc # "answer"
    BY <1>11 DEF Early
  <2>2. x \in DOMAIN state
    BY <1>1, <2>1, EarlyCall
  <2>3. PICK S, p, q : S = 1 .. next_call_id - 1 /\ p = pending_func_calls /\ q = pending_func_calls'
    OBVIOUS
  <2>4. p \in Seq(S) /\ x \in S /\ (q = Append(p, x) \/ q = <<x>> \o p)
    BY <1>0, <1>11, <2>2, <2>3 DEF PlaceInv, PlacesOK, CallsOK
  <2>5. Listed(q) = Listed(p) \cup {x}
    BY <2>4, ListedGrows
  <2>6. Somewhere(x)'
    BY <2>3, <2>5 DEF Somewhere
  <2>7. \A y \in DOMAIN state :
          y \in Listed(pending_func_calls) => y \in Listed(pending_func_calls')
    BY <2>3, <2>5
  <2> QED
    BY <1>7, <1>9, <1>11, <2>1, <2>6, <2>7
<1> QED
  BY <1>2, <1>8, <1>10, <1>11

\* The answer of an engine.
LEMMA ProgressAnswer ==
  ASSUME ProgressInv, ContextInv, PlaceInv, NEW w \in Workers,
         OnRecvEngineMessage(w) \/ AnswerRunning(w) \/ AnswerFinish(w)
  PROVE  ProgressInv'
<1>0. CallsOK /\ TasksOK
  BY DEF PlaceInv
<1>1. ASSUME OnRecvEngineMessage(w)
      PROVE  ProgressInv'
  <2>1. PICK p \in InFlight, ok \in BOOLEAN :
          /\ task[w] = Idle /\ handled' = handled \cup {p}
          /\ task' = [task EXCEPT ![w] = [pc |-> "answer", call |-> p[2], ok |-> ok]]
    BY <1>1 DEF OnRecvEngineMessage
  <2>2. UNCHANGED <<state, dispatched, taken, answered, lost, pending_func_calls,
                    running_func_calls, conn_state, connections, registering, discarded_func_calls,
                    async_results, overtaken, dropped, grpc_calls, context, responses, scheduled>>
    BY <1>1, Zenon DEF OnRecvEngineMessage, connVars, callVars, engineVars
  <2>3. PICK n \in Nodes, x \in Calls : p = <<n, x>>
    BY DEF InFlight
  <2>4. PICK h : h = [pc |-> "answer", call |-> p[2], ok |-> ok]
    OBVIOUS
  <2>5. h.pc = "answer" /\ h.call = x /\ h.pc # "insert" /\ task' = [task EXCEPT ![w] = h]
    BY <2>1, <2>3, <2>4
  <2>6. task'[w] = h /\ task[w].pc = "idle" /\ task[w].pc # "answer"
    BY <1>0, <2>1, <2>5 DEF TasksOK, Idle
  <2>7. Answering(x)'
    BY <2>5, <2>6 DEF Answering
  <2>8. PlacesGrow
    <3>1. \A y \in DOMAIN state : y # x => (AtEngine(y) => AtEngine(y)')
      BY <2>1, <2>2, <2>3 DEF AtEngine, InFlight
    <3> QED
      BY <2>2, <2>7, <3>1 DEF PlacesGrow, Reached
  <2>9. ConnsDown
    BY <2>2 DEF ConnsDown
  <2>10. \A y \in DOMAIN state : Ended(y) => Ended(y)'
    BY <1>0, <2>2, <2>9, EndedSame
  <2>11. ConnsOK'
    BY <1>0, <2>2, ConnsOKKept DEF ProgressInv
  <2>12. \A y \in DOMAIN state : Elsewhere(w, y)
    BY <2>6 DEF Elsewhere
  <2>13. PICK z : z = task[w].call
    OBVIOUS
  <2> QED
    BY <2>2, <2>5, <2>6, <2>8, <2>10, <2>11, <2>12, <2>13, ProgressMove
<1>2. ASSUME AnswerRunning(w)
      PROVE  ProgressInv'
  <2>1. PICK x : x = task[w].call
    OBVIOUS
  <2>2. /\ task[w].pc = "answer"
        /\ UNCHANGED <<state, rest, pending_func_calls, conn_state, connections, registering,
                       grpc_calls, context, responses, scheduled>>
    BY <1>2, Zenon DEF AnswerRunning, connVars, engineVars, rest
  <2>3. task[w] \in AnswerHandlers /\ x \in DOMAIN state /\ x \in Calls
    BY <2>1, <2>2, ReportedCall
  <2>4. ConnsDown
    BY <2>2 DEF ConnsDown
  <2>5. \A y \in DOMAIN state : y # x => Elsewhere(w, y)
    BY <2>1 DEF Elsewhere
  <2>6. CASE x \notin running_func_calls
    <3>1. /\ task' = [task EXCEPT ![w] = Idle] /\ overtaken' = overtaken \cup {x}
          /\ UNCHANGED <<running_func_calls, discarded_func_calls, async_results, dropped>>
      BY <1>2, <2>1, <2>6, Zenon DEF AnswerRunning
    <3>2. PlacesGrow
      BY <2>2, <3>1, PlacesSame
    <3>3. Reached(x)' /\ Somewhere(x)'
      BY <3>1 DEF Reached, Somewhere
    <3>4. \A y \in DOMAIN state : Ended(y) => Ended(y)'
      BY <1>0, <2>2, <2>4, <3>1, EndedSame
    <3>5. ConnsOK'
      BY <1>0, <2>2, <3>1, ConnsOKKept DEF ProgressInv
    <3>6. Idle.pc # "insert"
      BY DEF Idle
    <3> QED
      BY <2>1, <2>2, <2>5, <3>1, <3>2, <3>3, <3>4, <3>5, <3>6, ProgressMove
  <2>7. CASE x \in running_func_calls
    <3> DEFINE Passed == Skips(x) /\ (~NotEntered(x) \/ x \in dropped')
    <3>1. /\ running_func_calls' = running_func_calls \ {x}
          /\ discarded_func_calls' = discarded_func_calls \ {x} /\ UNCHANGED overtaken
          /\ async_results' = IF state[x].conn = NoConn THEN async_results \cup {x}
                              ELSE async_results
          /\ \/ task' = [task EXCEPT ![w].pc = "finish"]
             \/ /\ task' = [task EXCEPT ![w].pc = "try"]
                /\ state[x].conn = NoConn \/ Skips(x)
                /\ NotEntered(x) => x \in dropped'
          /\ dropped \subseteq dropped'
      BY <1>2, <2>1, <2>7 DEF AnswerRunning, Skips
    <3>2. PICK h : /\ task' = [task EXCEPT ![w] = h]
                   /\ \/ h.pc = "finish" /\ h.call = x
                      \/ h.pc = "try" /\ (state[x].conn = NoConn \/ Passed)
      <4>1. ASSUME NEW pc \in {"finish", "try"}, task' = [task EXCEPT ![w].pc = pc],
                   pc = "finish" \/ state[x].conn = NoConn \/ Passed
            PROVE  \E h : /\ task' = [task EXCEPT ![w] = h]
                          /\ \/ h.pc = "finish" /\ h.call = x
                             \/ h.pc = "try" /\ (state[x].conn = NoConn \/ Passed)
        <5>1. PICK h : h = [task[w] EXCEPT !.pc = pc]
          OBVIOUS
        <5>2. h.pc = pc /\ h.call = x
          BY <2>1, <2>3, <5>1 DEF AnswerHandlers
        <5>3. task' = [task EXCEPT ![w] = h]
          BY <4>1, <5>1
        <5> QED
          BY <4>1, <5>2, <5>3
      <4> QED
        BY <3>1, <4>1
    <3>3. PlacesGrow
      BY <2>2, <3>1, PlacesSame
    <3>4. \A y \in DOMAIN state : Ended(y) => Ended(y)'
      <4>1. async_results \subseteq async_results'
        BY <3>1
      <4> QED
        BY <1>0, <2>2, <2>4, <4>1, EndedSame
    <3>5. ConnsOK'
      <4>1. discarded_func_calls' \subseteq discarded_func_calls
        BY <3>1
      <4> QED
        BY <1>0, <2>2, <4>1, ConnsOKKept DEF ProgressInv
    <3>6. Somewhere(x)' \/ Ended(x)'
      <4>1. CASE h.pc = "finish" /\ h.call = x
        <5>1. task'[w] = h
          BY <1>0, <3>2 DEF TasksOK
        <5>2. InHand(x)'
          BY <4>1, <5>1 DEF InHand
        <5> QED
          BY <5>2 DEF Somewhere
      <4>2. CASE state[x].conn = NoConn
        <5>1. ~Sync(x)' /\ x \in async_results'
          BY <2>2, <3>1, <4>2 DEF Sync
        <5> QED
          BY <5>1 DEF Ended
      <4>3. CASE Passed
        <5>1. Ended(x) \/ x \in dropped'
          BY <1>0, <2>3, <4>3, SkippedEnded DEF ProgressInv
        <5> QED
          BY <2>3, <3>4, <5>1 DEF Somewhere
      <4> QED
        BY <3>2, <4>1, <4>2, <4>3
    <3>7. \A v \in Workers : ~Carries(v, x)
      BY <2>3, <2>7 DEF PlaceInv, OnePlace
    <3>8. h.pc # "insert" /\ \A y \in DOMAIN state : y # x =>
                               (y \in running_func_calls => y \in running_func_calls')
      BY <3>1, <3>2
    <3> QED
      BY <2>1, <2>2, <2>5, <3>2, <3>3, <3>4, <3>5, <3>6, <3>7, <3>8, ProgressMove
  <2> QED
    BY <2>6, <2>7
<1>3. ASSUME AnswerFinish(w)
      PROVE  ProgressInv'
  <2>1. PICK x : x = task[w].call
    OBVIOUS
  <2>2. /\ task[w].pc = "finish" /\ task' = [task EXCEPT ![w].pc = "try"]
        /\ UNCHANGED <<state, rest, pending_func_calls, running_func_calls, conn_state, connections, registering,
                       discarded_func_calls, async_results, overtaken, dropped>>
        /\ LET k == state[x].ctx
           IN FinishFuncCall(w, k, IF task[w].ok
                                     THEN [context EXCEPT ![k].status = "ok",
                                                          ![k].out = Append(@, x)]
                                     ELSE [context EXCEPT ![k].status = "failed"])
    BY <1>3, <2>1, Zenon DEF AnswerFinish, callVars, engineVars, histVars, rest
  <2>3. task[w] \in AnswerHandlers /\ x \in DOMAIN state /\ Sync(x) /\ Open(x)
    <3>1. task[w].pc \in {"answer", "finish"} /\ Sync(x)
      BY <2>1, <2>2, ZenonT(60) DEF ContextInv, HandlersOK
    <3> QED
      BY <2>1, <3>1, ReportedCall
  <2>4. PICK h : h = [task[w] EXCEPT !.pc = "try"]
    OBVIOUS
  <2>5. h.pc = "try" /\ h.pc # "insert" /\ task[w].pc # "answer"
    BY <2>2, <2>3, <2>4 DEF AnswerHandlers
  <2>6. task' = [task EXCEPT ![w] = h]
    BY <2>2, <2>4
  <2>7. PICK cx : FinishFuncCall(w, state[x].ctx, cx) /\ Finishes(x, cx)
    <3>1. "ok" \in Outcomes /\ "failed" \in Outcomes /\ "failed" # "ok"
      BY SMTT(60) DEF Outcomes
    <3>2. CASE task[w].ok
      <4>1. PICK cx : cx = [context EXCEPT ![state[x].ctx].status = "ok",
                                           ![state[x].ctx].out = Append(@, x)]
        OBVIOUS
      <4>2. FinishFuncCall(w, state[x].ctx, cx)
        BY <2>2, <3>2, <4>1
      <4>3. Finishes(x, cx)
        BY <1>0, <2>3, <3>1, <4>1, FinishesStatus
      <4> QED
        BY <4>2, <4>3
    <3>3. CASE ~task[w].ok
      <4>1. PICK cx : cx = [context EXCEPT ![state[x].ctx].status = "failed"]
        OBVIOUS
      <4>2. FinishFuncCall(w, state[x].ctx, cx)
        BY <2>2, <3>3, <4>1
      <4>3. Finishes(x, cx)
        BY <1>0, <2>3, <3>1, <4>1, FinishesStatus
      <4> QED
        BY <4>2, <4>3
    <3> QED
      BY <3>2, <3>3
  <2>8. DOMAIN grpc_calls' \subseteq DOMAIN grpc_calls
    BY <2>7, FewerStreams
  <2>9. /\ ConnsDown
        /\ \A c \in Conns : conn_state'[c] = "running" => conn_state[c] = "running"
    BY <1>0, <2>2, <2>8, ConnsGo, SMTT(60)
  <2>10. ConnsOK'
    BY <1>0, <2>2, <2>8, <2>9, ConnsOKKept DEF ProgressInv
  <2>11. Ended(x)' /\ \A y \in DOMAIN state : y # x /\ Ended(y) => Ended(y)'
    BY <1>0, <2>2, <2>3, <2>7, <2>9, EndedHandOver
  <2>12. PlacesGrow
    BY <2>2, PlacesSame
  <2>13. \A y \in DOMAIN state : y # x => Elsewhere(w, y)
    BY <2>1 DEF Elsewhere
  <2> QED
    BY <2>1, <2>2, <2>5, <2>6, <2>10, <2>11, <2>12, <2>13, ProgressMove, ZenonT(60)
<1> QED
  BY <1>1, <1>2, <1>3

\* A step in which no handler does anything with a call.
LEMMA ProgressStill ==
  ASSUME ProgressInv, PlacesGrow, ConnsOK', CallsOK, TasksOK,
         UNCHANGED <<state, task, pending_func_calls, running_func_calls>>,
         \A y \in DOMAIN state : Ended(y) => Ended(y)' \/ Somewhere(y)'
  PROVE  ProgressInv'
<1>1. \A y \in DOMAIN state : Reached(y) => Reached(y)'
  BY DEF PlacesGrow, Reached, Answering
<1>2. \A y \in DOMAIN state : Somewhere(y) => Somewhere(y)'
  BY <1>1 DEF PlacesGrow, Somewhere, InHand
<1>3. InsertOK'
  <2> SUFFICES ASSUME NEW v \in Workers, (task[v].pc = "insert")'
               PROVE  Reached(task[v].call)'
    BY DEF InsertOK
  <2>1. PICK y : y = task[v].call
    OBVIOUS
  <2>2. y \in DOMAIN state /\ Reached(y) /\ y = (task[v].call)'
    BY <2>1, TaskFacts DEF ProgressInv, InsertOK, CallsOK
  <2>3. Reached(y)'
    BY <1>1, <2>2
  <2> QED
    BY <2>2, <2>3 DEF Reached, AtEngine, InFlight, Answering
<1> QED
  BY <1>2, <1>3 DEF ProgressInv

\* The end of a call that was scheduled.
LEMMA ProgressRun ==
  ASSUME ProgressInv, ContextInv, PlaceInv, NEW w \in Workers, RunScheduledFunctions(w)
  PROVE  ProgressInv'
<1>0. CallsOK /\ TasksOK
  BY DEF PlaceInv
<1>1. UNCHANGED <<state, task, rest, pending_func_calls, running_func_calls, conn_state, context,
                  connections, registering, discarded_func_calls, async_results, overtaken, dropped>>
  BY Zenon DEF RunScheduledFunctions, callVars, engineVars, histVars, rest
<1>2. PICK f \in scheduled : scheduled' = scheduled \ {f} /\ InvokeFunction(f[1], f[2])
  BY Zenon DEF RunScheduledFunctions
<1>3. PICK x \in DOMAIN state : /\ f = <<ConnOf(state[x].ctx), Stream(x)>>
                                /\ Owns(x) /\ OutcomeOf(x, context[state[x].ctx])
  BY DEF ContextInv, ScheduledOK
<1>4. Finishes(x, context)
  BY <1>3 DEF ContextInv, ContextsOK, Finishes, Owns
<1>5. f[1] = ConnOf(state[x].ctx) /\ f[2] = Stream(x)
  BY <1>3
<1>6. \/ FinishedInternal(ConnOf(state[x].ctx), Stream(x), context)
      \/ /\ UNCHANGED <<responses, grpc_calls>> /\ conn_state[ConnOf(state[x].ctx)] # "running"
  BY <1>2, <1>5 DEF InvokeFunction
<1>7. scheduled \ {<<ConnOf(state[x].ctx), Stream(x)>>} \subseteq scheduled'
  BY <1>2, <1>3
<1>8. DOMAIN grpc_calls' \subseteq DOMAIN grpc_calls
  <2>1. CASE FinishedInternal(ConnOf(state[x].ctx), Stream(x), context)
    <3>1. \/ UNCHANGED grpc_calls
          \/ \E s : grpc_calls' = [t \in DOMAIN grpc_calls \ {s} |-> grpc_calls[t]]
      BY <2>1, Zenon DEF FinishedInternal, HttpFinished, GrpcFinished
    <3> QED
      BY <3>1
  <2> QED
    BY <1>6, <2>1
<1>9. /\ ConnsDown
      /\ \A c \in Conns : conn_state'[c] = "running" => conn_state[c] = "running"
  BY <1>0, <1>1, <1>8, ConnsGo
<1>10. ConnsOK'
  BY <1>0, <1>1, <1>8, <1>9, ConnsOKKept DEF ProgressInv
<1>11. PICK cx : cx = context
  OBVIOUS
<1>12. /\ Finishes(x, cx) /\ context' = cx
       /\ \/ FinishedInternal(ConnOf(state[x].ctx), Stream(x), cx)
          \/ /\ UNCHANGED <<responses, grpc_calls>> /\ conn_state[ConnOf(state[x].ctx)] # "running"
  BY <1>1, <1>4, <1>6, <1>11
<1>13. /\ \A y \in DOMAIN state : y # x /\ Ended(y) => Ended(y)'
       /\ Sync(x) \/ cx[state[x].ctx].status = "notfound" \/ x \in async_results => Ended(x)'
  BY <1>0, <1>1, <1>3, <1>7, <1>9, <1>12, EndedFinish
<1>14. Ended(x) => Ended(x)'
  BY <1>3, <1>11, <1>13 DEF Ended, NotFound, Owns
<1>15. PlacesGrow
  BY <1>1, PlacesSame
<1> QED
  BY <1>0, <1>1, <1>10, <1>13, <1>14, <1>15, ProgressStill

\* Steps of the engines: what they take, answer or lose.
LEMMA ProgressEngine ==
  ASSUME ProgressInv, PlaceInv, EngineWorks \/ \E n \in Nodes : EngineCrash(n)
  PROVE  ProgressInv'
<1>0. CallsOK /\ TasksOK
  BY DEF PlaceInv
<1>1. UNCHANGED <<state, task, pending_func_calls, running_func_calls, conn_state, context, handled,
                  connections, registering, discarded_func_calls, async_results, overtaken, dropped, grpc_calls,
                  responses, scheduled>>
  BY Zenon DEF EngineWorks, EngineCrash, connVars, callVars, workVars, histVars
<1>2. PlacesGrow
  <2>1. CASE EngineWorks
    <3>1. PICK n \in Nodes, x \in Calls :
            Engine!Take(<<n, x>>) \/ Engine!Refuse(<<n, x>>) \/ Engine!Answer(<<n, x>>)
      BY <2>1 DEF EngineWorks
    <3>2. UNCHANGED lost
      BY <2>1, Zenon DEF EngineWorks, histVars
    <3>3. /\ dispatched' \cup taken' \cup {<<n, x>>} = dispatched \cup taken \cup {<<n, x>>}
          /\ <<n, x>> \in dispatched \cup taken
      BY <3>1 DEF Engine!Take, Engine!Refuse, Engine!Answer
    <3>4. /\ answered' = answered \/ answered' = [answered EXCEPT ![<<n, x>>] = @ + 1]
          /\ <<n, x>> \in dispatched' \cup taken' \/ answered' = [answered EXCEPT ![<<n, x>>] = @ + 1]
      BY <3>1 DEF Engine!Take, Engine!Refuse, Engine!Answer
    <3>5. answered \in [Nodes \X Calls -> Nat] /\ <<n, x>> \notin lost \cup handled
      BY <3>3 DEF PlaceInv, PlacesOK, AnsweredOnce
    <3>6. \A p \in Nodes \X Calls : answered[p] > 0 => answered'[p] > 0
      BY <3>4, <3>5
    <3>7. <<n, x>> \in dispatched' \cup taken' \cup InFlight'
      <4>1. answered' = [answered EXCEPT ![<<n, x>>] = @ + 1] => answered'[<<n, x>>] > 0
        BY <3>5
      <4> QED
        BY <1>1, <3>2, <3>4, <3>5, <4>1 DEF InFlight
    <3>8. \A p \in dispatched \cup taken \cup InFlight : p \in dispatched' \cup taken' \cup InFlight'
      BY <1>1, <3>2, <3>3, <3>6, <3>7 DEF InFlight
    <3>9. \A y \in DOMAIN state : AtEngine(y) => AtEngine(y)'
      BY <3>8 DEF AtEngine
    <3> QED
      BY <1>1, <3>2, <3>9 DEF PlacesGrow, Reached
  <2>2. CASE \E n \in Nodes : EngineCrash(n)
    <3>1. PICK n \in Nodes :
            /\ dispatched' = {p \in dispatched : p[1] # n} /\ taken' = {p \in taken : p[1] # n}
            /\ \E L \in SUBSET {p \in InFlight : p[1] = n} :
                 lost' = lost \cup L \cup {p \in dispatched \cup taken : p[1] = n}
            /\ UNCHANGED answered
      BY <2>2, Zenon DEF EngineCrash
    <3>2. lost \subseteq lost' /\ \A p \in dispatched \cup taken : p[1] = n => p \in lost'
      BY <3>1
    <3>3. \A p \in dispatched \cup taken \cup InFlight :
            p \in dispatched' \cup taken' \cup InFlight' \cup lost'
      BY <1>1, <3>1, <3>2 DEF InFlight
    <3>4. \A y \in DOMAIN state : AtEngine(y) => AtEngine(y)' \/ \E m \in Nodes : <<m, y>> \in lost'
      BY <3>3 DEF AtEngine
    <3> QED
      BY <1>1, <3>2, <3>4 DEF PlacesGrow, Reached
  <2> QED
    BY <2>1, <2>2
<1>3. ConnsDown
  BY <1>1 DEF ConnsDown
<1>4. \A y \in DOMAIN state : Ended(y) => Ended(y)'
  BY <1>0, <1>1, <1>3, EndedSame
<1>5. ConnsOK'
  BY <1>0, <1>1, ConnsOKKept DEF ProgressInv
<1> QED
  BY <1>0, <1>1, <1>2, <1>4, <1>5, ProgressStill

\* Streams and connections that close, connections that open, and steps of nodes.
LEMMA ProgressElsewhere ==
  ASSUME ProgressInv, ContextInv, PlaceInv,
         \/ \E w \in Workers : Quiet(w) /\ ~RunScheduledFunctions(w)
         \/ \E c \in Conns : QuietConn(c)
         \/ \E n \in Nodes : QuietNode(n)
         \/ UNCHANGED vars
  PROVE  ProgressInv'
<1>0. CallsOK /\ TasksOK
  BY DEF PlaceInv
<1>1. UNCHANGED <<state, task, rest, pending_func_calls, running_func_calls>>
  BY QuietFacts, QuietElsewhere
<1>2. UNCHANGED <<context, responses, scheduled, async_results, overtaken, dropped>>
  BY ZenonT(60) DEF Quiet, H2OnStreamClose, HttpScheduleClose, GrpcScheduleClose, HubDown, QuietConn,
     OnNewConnection, EnterConnection, WorkerOnConnectionClose, OnConnectionClose, QuietNode, OnZNodeCreated,
     OnZNodeDeleted, OnNodeScaled, connVars, callVars, workVars, histVars, vars
<1>3. \/ UNCHANGED <<conn_state, grpc_calls, connections, registering, discarded_func_calls>>
      \/ \E s \in DOMAIN grpc_calls : /\ grpc_calls' = [t \in DOMAIN grpc_calls \ {s} |-> grpc_calls[t]]
                   /\ discarded_func_calls' = discarded_func_calls \cup {s}
                   /\ UNCHANGED <<conn_state, connections, registering>>
      \/ \E c, M : /\ M \subseteq DOMAIN grpc_calls
                   /\ grpc_calls' = [t \in DOMAIN grpc_calls \ M |-> grpc_calls[t]]
                   /\ discarded_func_calls' = discarded_func_calls \cup M
                   /\ conn_state' = [conn_state EXCEPT ![c] = "closing"] /\ UNCHANGED <<connections, registering>>
      \/ \E c : /\ conn_state' = [conn_state EXCEPT ![c] = "closing"]
                /\ UNCHANGED <<grpc_calls, connections, registering, discarded_func_calls>>
      \/ \E c : /\ conn_state' = [conn_state EXCEPT ![c] = "closed"]
                /\ UNCHANGED <<grpc_calls, connections, registering, discarded_func_calls>>
      \/ \E c \in Conns : /\ conn_state[c] = "created" /\ registering = {} /\ registering' = {c}
                          /\ conn_state' = [conn_state EXCEPT ![c] = "running"]
                          /\ UNCHANGED <<grpc_calls, connections, discarded_func_calls>>
      \/ \E c \in Conns : /\ registering = {c} /\ connections' = connections \cup {c}
                          /\ UNCHANGED <<conn_state, grpc_calls, discarded_func_calls>>
      \/ \E c \in Conns : /\ conn_state[c] = "closed" /\ connections' = connections \ {c}
                          /\ UNCHANGED <<conn_state, grpc_calls, registering, discarded_func_calls>>
  <2>1. ASSUME NEW w \in Workers, NEW c \in GrpcConns, GrpcScheduleClose(w, c)
        PROVE  \E M : /\ M \subseteq DOMAIN grpc_calls
                      /\ grpc_calls' = [t \in DOMAIN grpc_calls \ M |-> grpc_calls[t]]
                      /\ discarded_func_calls' = discarded_func_calls \cup M
                      /\ conn_state' = [conn_state EXCEPT ![c] = "closing"] /\ UNCHANGED <<connections, registering>>
    <3>1. PICK M : M = {s \in DOMAIN grpc_calls : state[s].conn = c}
      OBVIOUS
    <3>2. /\ grpc_calls' = [t \in DOMAIN grpc_calls \ M |-> grpc_calls[t]]
          /\ discarded_func_calls' = discarded_func_calls \cup M
          /\ conn_state' = [conn_state EXCEPT ![c] = "closing"] /\ UNCHANGED <<connections, registering>>
      BY <2>1, <3>1, Zenon DEF GrpcScheduleClose
    <3>3. M \subseteq DOMAIN grpc_calls
      BY <3>1
    <3> QED
      BY <3>2, <3>3, Zenon
  <2> QED
    BY <2>1, ZenonT(60) DEF Quiet, H2OnStreamClose, HttpScheduleClose, HubDown, QuietConn,
       OnNewConnection, Start, EnterConnection, WorkerOnConnectionClose, OnConnectionClose, QuietNode, OnZNodeCreated,
       OnZNodeDeleted, OnNodeScaled, connVars, callVars, vars
<1>4. /\ conn_state \in [Conns -> {"created", "running", "closing", "closed"}]
      /\ \A y \in DOMAIN state : ConnOf(state[y].ctx) \in Conns /\ conn_state[ConnOf(state[y].ctx)] # "created"
  BY <1>0, CallContext DEF ContextInv, ContextsOK
<1>5. \A y \in DOMAIN state : y \in DOMAIN grpc_calls' => y \in DOMAIN grpc_calls
  BY <1>3
<1>6. \A y \in DOMAIN state : conn_state'[ConnOf(state[y].ctx)] = "running" =>
                              conn_state[ConnOf(state[y].ctx)] = "running"
  BY <1>3, <1>4
<1>7. ConnsDown
  BY <1>5, <1>6 DEF ConnsDown
<1>8. ConnsOK'
  <2>1. \A s \in DOMAIN grpc_calls : s \in DOMAIN state /\ Sync(s) /\ state[s].conn \in GrpcConns
    <3>1. HttpConns \cap GrpcConns = {}
      BY GatewayAssumption
    <3>2. \A s \in DOMAIN grpc_calls : s \in DOMAIN state /\ ConnOf(state[s].ctx) \in GrpcConns
      BY DEF ContextInv, ContextsOK, StreamsOK, GrpcContexts, ConnOf
    <3> QED
      BY <1>0, <3>1, <3>2, CallContext
  <2>2. \A c \in Conns : conn_state'[c] = "running" => c \in connections' \cup registering'
    BY <1>3, <1>4 DEF ProgressInv, ConnsOK
  <2>3. /\ DOMAIN grpc_calls' \subseteq DOMAIN grpc_calls
        /\ \A y \in discarded_func_calls' :
             y \in discarded_func_calls \/ (y \in DOMAIN grpc_calls /\ y \notin DOMAIN grpc_calls')
    BY <1>3
  <2>4. \A y \in discarded_func_calls' :
          y \in DOMAIN state /\ Sync(y) /\ state[y].conn \in GrpcConns /\ y \notin DOMAIN grpc_calls'
    BY <2>1, <2>3 DEF ProgressInv, ConnsOK
  <2> QED
    BY <1>1, <2>2, <2>4 DEF ConnsOK, Sync
<1>9. PlacesGrow
  BY <1>1, <1>2, PlacesSame
<1>10. \A y \in DOMAIN state : Ended(y) => Ended(y)'
  BY <1>0, <1>1, <1>2, <1>7, EndedSame
<1> QED
  BY <1>0, <1>1, <1>8, <1>9, <1>10, ProgressStill

\* Every step keeps ProgressInv.
LEMMA ProgressStep ==
  ASSUME ProgressInv, ContextInv, PlaceInv, PoolOK, [Next]_vars
  PROVE  ProgressInv'
<1>1. ASSUME NEW w \in Workers, Quiet(w)
      PROVE  ProgressInv'
  BY <1>1, ProgressRun, ProgressElsewhere, Zenon
<1> QED
  BY <1>1, ProgressRequest, ProgressQueue, ProgressDispatched, ProgressNotDispatched,
     ProgressInsertNew, ProgressTry, ProgressAnswer, ProgressEngine, ProgressElsewhere, Zenon
  DEF Next, Quiet, QuietConn, QuietNode

\* At the start there is no call to forget.
LEMMA InitProgress ==
  ASSUME Init
  PROVE  ProgressInv
<1>1. /\ state = <<>> /\ task = [w \in Workers |-> Idle] /\ discarded_func_calls = {}
      /\ conn_state = [c \in Conns |-> "created"]
  BY DEF Init
<1>2. DOMAIN state = {} /\ \A w \in Workers : task[w].pc = "idle"
  BY <1>1 DEF Idle
<1> QED
  BY <1>1, <1>2 DEF ProgressInv, InsertOK, ConnsOK

\* No call that a client waits for is forgotten: it is queued, in the hands of
\* a handler, running with an answer to come, or its end is scheduled, unless
\* it is lost in one of the four known ways: its engine crashed; its answer
\* came before the call was entered as running (server.cpp:280); it was taken
\* from the queue (server.cpp:217) or answered (server.cpp:296) before its
\* connection was entered in connections_ (server.cpp:549-571); or it is
\* asynchronous and could not be sent from the queue (server.cpp:228).
THEOREM GatewayForgetsNone == Spec => []NoCallForgotten
<1>1. Init => PlaceInv /\ PoolOK /\ ContextInv /\ ProgressInv
  BY InitPlace, InitContext, InitProgress
<1>2. PlaceInv /\ PoolOK /\ ContextInv /\ ProgressInv /\ [Next]_vars
        => (PlaceInv /\ PoolOK /\ ContextInv /\ ProgressInv)'
  BY PlaceStep, ContextStep, ProgressStep
<1>3. PlaceInv /\ ContextInv /\ ProgressInv => NoCallForgotten
  BY NoneForgotten DEF PlaceInv
<1> QED
  BY <1>1, <1>2, <1>3, PTL DEF Spec
=============================================================================
