------------------------------ MODULE IOUring ------------------------------
(***************************************************************************)
(* The ring of one IO worker: descriptors, operations, the chain of        *)
(* SendAll operations of a socket, reads that repeat, cancelling and       *)
(* closing.  One thread runs the ring and the connections on it, so their  *)
(* state is one record, io, and an operation maps a state of it to the     *)
(* next; callbacks run inside the handler of the completion they are for.  *)
(*                                                                         *)
(* An Op* is the id of its op.  connect_cbs_, read_cbs_, write_cbs_ and    *)
(* close_cbs_ have an entry exactly for the ops of their type; only        *)
(* sendall_cbs_ moves between ops and is kept.  The kernel takes           *)
(* submitted operations in any order, also before the loop next enters it  *)
(* (IORING_SETUP_SQPOLL), and answers in cq.                               *)
(*                                                                         *)
(* A connection is used as the connections of this repository use a ring:  *)
(* it reads until its callback says no (HttpConnection after a request,    *)
(* MessageConnection after the handshake), sends at any time, reads again  *)
(* when a response is out, and closes on errors, at the end of the data    *)
(* or when it is told to.                                                  *)
(***************************************************************************)
EXTENDS Integers, Sequences, SequencesExt, FiniteSets, FiniteSetsExt, Functions

CONSTANTS
  Sockets,      \* descriptors of connections that read and SendAll
  Pipes,        \* descriptors that are only written to (out_fifo_fd_)
  Fds,          \* numbers a descriptor may have
  NumSlots,     \* FLAGS_io_uring_fd_slots
  Vectors,      \* what is sent: sizes of the spans of a SendAll
  Budgets       \* bounds: SendAll and Write calls, connections started, events of
                \* reads (data, end, error, interrupt), resets by peers,
                \* peers that stop reading

ASSUME IOUringAssumption ==
  /\ NumSlots \in Nat \ {0}
  /\ \A b \in Budgets : {b.calls, b.starts, b.events, b.resets, b.stalls} \subseteq Nat
  /\ Vectors \subseteq Seq(Nat)
  /\ Fds \subseteq Nat \ {0}

Conns == Sockets \cup Pipes
Slots == 0 .. NumSlots - 1
None == 0              \* nullptr, kInvalidOpId
NoSlot == NumSlots     \* desc of a kClose or kCancel op
NoFd == 0

VARIABLES
  io,            \* the ring and its connections
  cq,            \* completions: <<op id, result>>
  interrupted,   \* reads for which a cancel answered -EALREADY
  wire,          \* wire[c]: <<call, unit>> the peer of c will read
  reset,         \* connections whose socket no longer works
  stalled,       \* connections whose peer does not read: their buffers are full
  budget         \* what may still happen

vars == <<io, cq, interrupted, wire, reset, stalled, budget>>

\* Descriptor and Op.
Desc(fd) ==
  [fd |-> fd, op_count |-> 0, active_read_op |-> None, last_send_op |-> None, close_op |-> None]
Op(type, slot, fd) ==
  [type |-> type, slot |-> slot, fd |-> fd, buf |-> 0, cancelled |-> FALSE,
   data |-> <<0, 0, 0>>,       \* kWrite, kSendAll: call, first unit, length
   root_op |-> None, next_op |-> None]

Init ==
  /\ io = [fds |-> [i \in Slots |-> Desc(NoFd)],
           free_fd_slots |-> [i \in 1 .. NumSlots |-> NumSlots - i],
           fd_indices |-> <<>>,
           next_op_id |-> 1,
           ops |-> <<>>,               \* ops_
           returned |-> {},            \* ops returned to op_pool_ and still in ops_
           sendall_cbs |-> <<>>,       \* op id -> call
           avail |-> <<>>, num_bufs |-> 0,        \* BufferPool
           sqe |-> {},                 \* ops the kernel has, not answered
           conn |-> [c \in Conns |-> [state |-> "created", fd |-> NoFd, recv |-> FALSE]],
           calls |-> <<>>,             \* [conn, size] of each call
           done |-> <<>>]              \* its callbacks: sequence of status
  /\ cq = <<>> /\ interrupted = {}
  /\ wire = [c \in Conns |-> <<>>]
  /\ reset = {} /\ stalled = {}
  /\ budget \in Budgets

Put(f, x, v) == (x :> v) @@ f
Drop(f, S) == Restrict(f, DOMAIN f \ S)

-----------------------------------------------------------------------------
(* Descriptors and operations.                                              *)

\* RegisterFd; without a free slot the process stops.
RegisterFd(s, fd) ==
  LET index == Last(s.free_fd_slots)
  IN  [s EXCEPT !.free_fd_slots = Front(@),
                !.fd_indices = Put(@, fd, index),
                !.fds[index] = Desc(fd)]

UnregisterFd(s, i) ==
  [s EXCEPT !.fds[i].fd = NoFd,
            !.free_fd_slots = Append(@, i),
            !.fd_indices = Drop(@, {s.fds[i].fd})]

\* GET_AND_CHECK_DESC.
Usable(s, fd) ==
  fd \in DOMAIN s.fd_indices /\ s.fds[s.fd_indices[fd]].close_op = None

\* ALLOC_OP, with op_count of the descriptor.
AddToOpCount(s, i, n) == IF i = NoSlot THEN s ELSE [s EXCEPT !.fds[i].op_count = @ + n]
Alloc(s, op) ==
  AddToOpCount([s EXCEPT !.ops = Put(@, s.next_op_id, op), !.next_op_id = @ + 1], op.slot, 1)

EnqueueOp(s, id) ==
  IF s.ops[id].type = "read"
  THEN [s EXCEPT !.sqe = @ \cup {id}, !.fds[s.ops[id].slot].active_read_op = id]
  ELSE [s EXCEPT !.sqe = @ \cup {id}]

Submit(s, op) == EnqueueOp(Alloc(s, op), s.next_op_id)

\* BufferPool::Get: the buffer a Get returns, and the pool after it.
NextBuf(s) == IF s.avail = <<>> THEN s.num_bufs + 1 ELSE Last(s.avail)
GetBuf(s) ==
  IF s.avail = <<>> THEN [s EXCEPT !.num_bufs = @ + 1] ELSE [s EXCEPT !.avail = Front(@)]

\* StartReadInternal.
StartRecv(s, fd) ==
  IF ~Usable(s, fd) \/ s.fds[s.fd_indices[fd]].active_read_op # None THEN s
  ELSE Submit(GetBuf(s), [Op("read", s.fd_indices[fd], fd) EXCEPT !.buf = NextBuf(s)])

Cancel(s, i, read_op) ==
  Submit([s EXCEPT !.ops[read_op].cancelled = TRUE, !.fds[i].active_read_op = None],
         [Op("cancel", NoSlot, NoFd) EXCEPT !.root_op = read_op])

StopReadOrRecv(s, fd) ==
  IF ~Usable(s, fd) \/ s.fds[s.fd_indices[fd]].active_read_op = None THEN s
  ELSE Cancel(s, s.fd_indices[fd], s.fds[s.fd_indices[fd]].active_read_op)

Connect(s, fd) == IF Usable(s, fd) THEN Submit(s, Op("connect", s.fd_indices[fd], fd)) ELSE s

\* Seeded fault: the descriptor is closed although ops use it.
CloseAtOnce(s, i) ==
  IF s.fds[i].close_op # None /\ i \in {s.fd_indices[fd] : fd \in DOMAIN s.fd_indices}
  THEN EnqueueOp(UnregisterFd(s, i), s.fds[i].close_op)
  ELSE s

\* Close: the descriptor is closed when its last op is complete.
CloseIfUnused(s, i) ==
  IF s.fds[i].op_count = 0 /\ s.fds[i].close_op # None
  THEN EnqueueOp(UnregisterFd(s, i), s.fds[i].close_op)
  ELSE s

AllocCloseOp(s, fd) ==
  [Alloc(s, Op("close", NoSlot, fd)) EXCEPT !.fds[s.fd_indices[fd]].close_op = s.next_op_id]

\* Seeded fault: the read is left to end by itself.
CloseWithoutCancel(s, fd) ==
  IF ~Usable(s, fd) THEN s
  ELSE CloseIfUnused(AllocCloseOp(s, fd), s.fd_indices[fd])

Close(s, fd) ==
  IF ~Usable(s, fd) THEN s
  ELSE CloseIfUnused(AllocCloseOp(StopReadOrRecv(s, fd), fd), s.fd_indices[fd])

\* SendAll for one span or several: an op for each span that is not empty,
\* linked by next_op behind the last op of the socket; the callback stays with
\* the first op, and root_op of all ops but the last names the last.
SendOp(fd, i, first, parts, j, call) ==
  LET k == Len(parts)
      start == FoldSeq(+, 0, SubSeq(parts, 1, j - 1)) + 1
  IN  [Op("sendall", i, fd) EXCEPT
         !.data = <<call, start, parts[j]>>,
         !.root_op = IF j < k THEN first + k - 1 ELSE None,
         !.next_op = IF j < k THEN first + j ELSE None]

SendAllOps(s, fd, i, parts, call) ==
  [s EXCEPT
     !.ops = [j \in s.next_op_id .. s.next_op_id + Len(parts) - 1 |->
                SendOp(fd, i, s.next_op_id, parts, j - s.next_op_id + 1, call)] @@ @,
     !.next_op_id = @ + Len(parts),
     !.fds[i].op_count = @ + Len(parts),
     !.fds[i].last_send_op = s.next_op_id + Len(parts) - 1,
     !.sendall_cbs = Put(@, s.next_op_id, call)]

Link(s, before, first) ==
  IF before = None THEN EnqueueOp(s, first) ELSE [s EXCEPT !.ops[before].next_op = first]

SendAll(s, fd, spans, call) ==
  LET i == s.fd_indices[fd]
  IN  Link(SendAllOps(s, fd, i, SelectSeq(spans, LAMBDA n : n > 0), call),
           s.fds[i].last_send_op, s.next_op_id)

Write(s, fd, call) ==
  Submit(s, [Op("write", s.fd_indices[fd], fd) EXCEPT !.data = <<call, 1, 1>>])

-----------------------------------------------------------------------------
(* Connections: what they do between callbacks and in them.                 *)

ScheduleClose(s, c) ==
  IF s.conn[c].state \notin {"connecting", "running"} THEN s
  ELSE [Close(s, s.conn[c].fd) EXCEPT !.conn[c].state = "closing"]

\* HttpConnection::StartRecvData.
StartRecvData(s, c) ==
  IF s.conn[c].state # "running" \/ s.conn[c].recv THEN s
  ELSE [StartRecv(s, s.conn[c].fd) EXCEPT !.conn[c].recv = TRUE]

NewCall(s, c, size) ==
  [s EXCEPT !.calls = Append(@, [conn |-> c, size |-> size]), !.done = Append(@, <<>>)]

\* A message of a connection, from a callback or a scheduled function.  A
\* SendAll of a closing descriptor, or of no data, is refused.
SendMessage(s, c, spans) ==
  LET size == FoldSeq(+, 0, spans)
  IN  IF ~Usable(s, s.conn[c].fd) \/ size = 0 THEN s
      ELSE SendAll(NewCall(s, c, size), s.conn[c].fd, spans, Len(s.calls) + 1)

WriteMessage(s, c) ==
  IF ~Usable(s, s.conn[c].fd) THEN s
  ELSE Write(NewCall(s, c, 1), s.conn[c].fd, Len(s.calls) + 1)

ConnOf(s, fd) == CHOOSE c \in Conns : s.conn[c].fd = fd

-----------------------------------------------------------------------------
(* Completions.  The loop erases an op from ops_ before its handler and     *)
(* returns it to the pool after; the handlers use the object all the while, *)
(* so it leaves ops at the end of OnOpComplete.  The op a handler wants     *)
(* enqueued is next_op of the op.  Callbacks may send a message (spans;     *)
(* <<>>: none), and read on or start to (keep).                             *)

Finished(s, call, status) == [s EXCEPT !.done[call] = Append(@, status)]

\* The connect callback of a socket of an EgressHub, with its handshake.
OnSocketConnected(s, c, ok, handshake) ==
  CASE s.conn[c].state = "closing" -> s
    [] ~ok -> ScheduleClose(s, c)
    [] OTHER -> SendMessage(StartRecvData([s EXCEPT !.conn[c].state = "running"], c), c, handshake)

HandleConnectComplete(s, op, res, spans) ==
  OnSocketConnected(s, ConnOf(s, op.fd), res.code = "ok", spans)

\* Read callbacks: data may be the last the connection wants for now; at the
\* end of the data and on errors the connection closes.  A read that was
\* interrupted or cancelled ends without its callback.
ReadCallback(s, c, res, spans, keep) ==
  CASE res.code = "data" -> SendMessage([s EXCEPT !.conn[c].recv = keep], c, spans)
    [] res.code \in {"eof", "error"} -> ScheduleClose(s, c)
    [] OTHER -> s

\* Seeded fault: the buffer is returned although the next read uses it.
RepeatAndReturn(s, id, op, repeat) ==
  IF ~op.cancelled /\ s.fds[op.slot].close_op = None /\ repeat
  THEN [Alloc(s, op) EXCEPT !.ops[id].next_op = s.next_op_id, !.avail = Append(@, op.buf)]
  ELSE [s EXCEPT !.avail = Append(@, op.buf)]

RepeatRead(s, id, op, repeat) ==
  IF ~op.cancelled /\ s.fds[op.slot].close_op = None /\ repeat
  THEN [Alloc(s, op) EXCEPT !.ops[id].next_op = s.next_op_id]
  ELSE [s EXCEPT !.avail = Append(@, op.buf)]

HandleReadOpComplete(s, id, op, res, spans, keep) ==
  RepeatRead(ReadCallback([s EXCEPT !.fds[op.slot].active_read_op = None],
                          ConnOf(s, op.fd), res, spans, keep),
             id, op, (res.code = "data" /\ keep) \/ res.code = "again")

HandleWriteOpComplete(s, op, res) ==
  IF res.code = "ok" THEN Finished(s, op.data[1], "ok")
  ELSE ScheduleClose(Finished(s, op.data[1], "failed"), ConnOf(s, op.fd))

\* Seeded fault: what the callback, or a call meanwhile, has chained is forgotten.
ForgetLastSend(s, slot, old, new) == [s EXCEPT !.fds[slot].last_send_op = new]

SetLastSend(s, slot, old, new) ==
  IF s.fds[slot].last_send_op = old THEN [s EXCEPT !.fds[slot].last_send_op = new] ELSE s

\* All data of the op was sent: the callback runs, or moves on to the next op
\* of its vector.
SendallWritten(s, id, op, c, call, spans, keep) ==
  IF op.root_op = None
  THEN SetLastSend(SendMessage(IF keep THEN StartRecvData(Finished(s, call, "ok"), c)
                               ELSE Finished(s, call, "ok"), c, spans),
                   op.slot, id, None)
  ELSE [s EXCEPT !.sendall_cbs = Put(@, op.next_op, call)]

\* Some of it was sent: a new op for the rest takes the place of the op.
SendallPartial(s, id, op, call, n) ==
  SetLastSend([Alloc(s, [op EXCEPT !.data = <<@[1], @[2] + n, @[3] - n>>])
                 EXCEPT !.sendall_cbs = Put(@, s.next_op_id, call),
                        !.ops[id].next_op = s.next_op_id],
              op.slot, id, s.next_op_id)

\* The op failed: the callback runs, and the ops left of its vector go back to
\* the pool.  They stay in ops_.
\* Seeded fault: the calls chained behind the vector are forgotten.
ReturnRestOnly(s, id, op, rest) ==
  SetLastSend([s EXCEPT !.fds[op.slot].op_count = @ - Cardinality(rest),
                        !.returned = @ \cup rest,
                        !.ops[id].next_op = None],
              op.slot, op.root_op, None)

ReturnRest(s, id, op, rest) ==
  SetLastSend([s EXCEPT !.fds[op.slot].op_count = @ - Cardinality(rest),
                        !.returned = @ \cup rest,
                        !.ops[id].next_op = s.ops[op.root_op].next_op],
              op.slot, op.root_op, None)

SendallFailed(s, id, op) ==
  IF op.root_op = None THEN SetLastSend(s, op.slot, id, None)
  ELSE ReturnRest(s, id, op,
         {x \in DOMAIN s.ops \ {id} : x = op.root_op \/ s.ops[x].root_op = op.root_op})

\* Seeded fault: a send that took some of the data counts as one that took all.
CompleteIgnoresLength(s, id, op, c, call, res, spans, keep) ==
  IF res.code = "error" THEN SendallFailed(ScheduleClose(Finished(s, call, "failed"), c), id, op)
  ELSE SendallWritten(s, id, op, c, call, spans, keep)

SendallComplete(s, id, op, c, call, res, spans, keep) ==
  CASE res.code = "error" -> SendallFailed(ScheduleClose(Finished(s, call, "failed"), c), id, op)
    [] res.code = "ok" /\ res.n = op.data[3] -> SendallWritten(s, id, op, c, call, spans, keep)
    [] OTHER -> SendallPartial(s, id, op, call, res.n)

HandleSendallOpComplete(s, id, op, res, spans, keep) ==
  SendallComplete([s EXCEPT !.sendall_cbs = Drop(@, {id})], id, op, ConnOf(s, op.fd),
                  s.sendall_cbs[id], res, spans, keep)

\* The close callback of a connection.
HandleCloseOpComplete(s, c) ==
  [s EXCEPT !.conn[c] = [state |-> "closed", fd |-> NoFd, recv |-> FALSE]]

Handle(s, id, op, res, spans, keep) ==
  CASE op.type = "connect" -> HandleConnectComplete(s, op, res, spans)
    [] op.type = "read" -> HandleReadOpComplete(s, id, op, res, spans, keep)
    [] op.type = "write" -> HandleWriteOpComplete(s, op, res)
    [] op.type = "sendall" -> HandleSendallOpComplete(s, id, op, res, spans, keep)
    [] op.type = "close" -> HandleCloseOpComplete(s, ConnOf(s, op.fd))
    [] op.type = "cancel" -> s

\* What follows in the chain is enqueued, and a descriptor that waits to be
\* closed is closed with its last op.
EnqueueNext(s, id) ==
  IF s.ops[id].next_op = None THEN s ELSE EnqueueOp(s, s.ops[id].next_op)
ReleaseDesc(s, i) == IF i = NoSlot THEN s ELSE CloseIfUnused(AddToOpCount(s, i, -1), i)
Erase(s, id) == [s EXCEPT !.ops = Drop(@, {id})]

OnOpComplete(s, id, res, spans, keep) ==
  ReleaseDesc(Erase(EnqueueNext(Handle(s, id, s.ops[id], res, spans, keep), id), id),
              s.ops[id].slot)

-----------------------------------------------------------------------------
(* The event loop: completions in the order of the queue, and functions of  *)
(* the connections in between.                                              *)

EventLoopRunOnce ==
  /\ cq # <<>>
  /\ \E keep \in BOOLEAN,
        spans \in {<<>>} \cup (IF Len(io.calls) < budget.calls THEN Vectors ELSE {}) :
       io' = OnOpComplete(io, Head(cq)[1], Head(cq)[2], spans, keep)
  /\ cq' = Tail(cq)
  /\ UNCHANGED <<interrupted, wire, reset, stalled, budget>>

\* Start of a connection, with the lowest number that is not open: one that was
\* accepted reads, an egress socket connects, a FIFO waits for messages.
Start(c) ==
  LET fd == Min(Fds \ {io.conn[d].fd : d \in Conns})
      s == [RegisterFd(io, fd) EXCEPT !.conn[c].state = "running", !.conn[c].fd = fd]
  IN  /\ io.conn[c].state = "created" /\ io.free_fd_slots # <<>> /\ budget.starts > 0
      /\ io' \in IF c \in Pipes THEN {s}
                 ELSE {StartRecvData(s, c),
                       [Connect(s, fd) EXCEPT !.conn[c].state = "connecting"]}
      /\ budget' = [budget EXCEPT !.starts = @ - 1]
      /\ UNCHANGED <<cq, interrupted, wire, reset, stalled>>

Scheduled(c) ==
  /\ \/ io.conn[c].state \in {"connecting", "running"} /\ io' = ScheduleClose(io, c)
     \/ /\ io.conn[c].state = "running" /\ Len(io.calls) < budget.calls
        /\ IF c \in Pipes THEN io' = WriteMessage(io, c)
           ELSE \E spans \in Vectors : io' = SendMessage(io, c, spans)
  /\ UNCHANGED <<cq, interrupted, wire, reset, stalled, budget>>

-----------------------------------------------------------------------------
(* The kernel (external).                                                   *)

Result(code, n) == [code |-> code, n |-> n]
Answer(id, res) ==
  /\ cq' = Append(cq, <<id, res>>)
  /\ io' = [io EXCEPT !.sqe = @ \ {id}]
OpConn(id) == ConnOf(io, io.ops[id].fd)
Works(id) == OpConn(id) \notin reset

\* A send takes some of the data, a write all of it (its length is one).  Both
\* block while the peer does not read: sockets and FIFOs are blocking.
Units(d, n) == [j \in 1 .. n |-> <<d[1], d[2] + j - 1>>]
KernelSend(id) ==
  LET d == io.ops[id].data
  IN  /\ id \in io.sqe /\ io.ops[id].type \in {"sendall", "write"}
      /\ \/ \E n \in 1 .. d[3] :
              /\ Works(id) /\ OpConn(id) \notin stalled /\ Answer(id, Result("ok", n))
              /\ wire' = [wire EXCEPT ![OpConn(id)] = @ \o Units(d, n)]
         \/ ~Works(id) /\ Answer(id, Result("error", 0)) /\ UNCHANGED wire
      /\ UNCHANGED <<interrupted, reset, stalled, budget>>

KernelConnect(id) ==
  /\ id \in io.sqe /\ io.ops[id].type = "connect"
  /\ Answer(id, Result(IF Works(id) THEN "ok" ELSE "error", 0))
  /\ UNCHANGED <<interrupted, wire, reset, stalled, budget>>

KernelRead(id) ==
  /\ id \in io.sqe /\ io.ops[id].type = "read"
  /\ budget.events > 0
  /\ \E code \in IF Works(id) THEN {"data", "eof", "again"} ELSE {"eof", "error"} :
       Answer(id, Result(code, 0))
  /\ budget' = [budget EXCEPT !.events = @ - 1]
  /\ UNCHANGED <<interrupted, wire, reset, stalled>>

\* A cancel ends the read at once, finds it running (-EALREADY), or comes too
\* late (-ENOENT).
KernelCancel(id) ==
  LET target == io.ops[id].root_op
      found == [io EXCEPT !.sqe = @ \ {id, target}]
  IN  /\ id \in io.sqe /\ io.ops[id].type = "cancel"
      /\ IF target \in io.sqe
         THEN \/ /\ io' = found /\ UNCHANGED interrupted
                 /\ cq' = cq \o <<<<target, Result("canceled", 0)>>, <<id, Result("ok", 0)>>>>
              \/ /\ Answer(id, Result("already", 0))
                 /\ interrupted' = interrupted \cup {target}
         ELSE Answer(id, Result("noent", 0)) /\ UNCHANGED interrupted
      /\ UNCHANGED <<wire, reset, stalled, budget>>

KernelInterrupt(id) ==
  /\ id \in io.sqe \cap interrupted
  /\ \E code \in {"again", "canceled"} : Answer(id, Result(code, 0))
  /\ interrupted' = interrupted \ {id}
  /\ UNCHANGED <<wire, reset, stalled, budget>>

KernelClose(id) ==
  /\ id \in io.sqe /\ io.ops[id].type = "close"
  /\ Answer(id, Result("ok", 0))
  /\ UNCHANGED <<interrupted, wire, reset, stalled, budget>>

\* The peer of a connection resets it: nothing can be sent or read any more.
Reset(c) ==
  /\ budget.resets > 0 /\ c \notin reset /\ io.conn[c].fd # NoFd
  /\ reset' = reset \cup {c}
  /\ budget' = [budget EXCEPT !.resets = @ - 1]
  /\ UNCHANGED <<io, cq, interrupted, wire, stalled>>

\* The peer stops reading until the buffers are full, or reads again.
Stall(c) ==
  /\ budget.stalls > 0 /\ c \notin stalled /\ io.conn[c].fd # NoFd
  /\ stalled' = stalled \cup {c}
  /\ budget' = [budget EXCEPT !.stalls = @ - 1]
  /\ UNCHANGED <<io, cq, interrupted, wire, reset>>

ReadAgain(c) ==
  /\ c \in stalled
  /\ stalled' = stalled \ {c}
  /\ UNCHANGED <<io, cq, interrupted, wire, reset, budget>>

Kernel(id) ==
  \/ KernelSend(id) \/ KernelConnect(id) \/ KernelRead(id)
  \/ KernelCancel(id) \/ KernelInterrupt(id) \/ KernelClose(id)

Next ==
  \/ EventLoopRunOnce
  \/ \E c \in Conns : Start(c) \/ Scheduled(c) \/ Reset(c) \/ Stall(c) \/ ReadAgain(c)
  \/ \E id \in io.sqe : Kernel(id)

Spec == Init /\ [][Next]_vars

\* The loop runs on, and the kernel answers what does not wait for a peer: all
\* but reads, and sends while the peer does not read.  Nothing makes a peer read
\* again.
FairSpec ==
  /\ Spec
  /\ WF_vars(EventLoopRunOnce)
  /\ WF_vars(\E id \in io.sqe : KernelSend(id) \/ KernelConnect(id) \/ KernelCancel(id)
                                 \/ KernelInterrupt(id) \/ KernelClose(id))

-----------------------------------------------------------------------------
(* Properties.                                                              *)

Live == DOMAIN io.ops \ io.returned
OfSlot(i) == {id \in Live : io.ops[id].slot = i}
Pointers(i) ==
  {io.fds[i].active_read_op, io.fds[i].last_send_op, io.fds[i].close_op} \ {None}
Registered == {io.fd_indices[fd] : fd \in DOMAIN io.fd_indices}

\* "IOUring implementation will correctly order all SendAll writes" (io_uring.h):
\* whatever is cut into parts, chained, sent in pieces, started from callbacks or
\* given up, the bytes of a socket leave in the order of the SendAll calls, and
\* the bytes of one call are not mixed with others.
SendAllInOrder ==
  \A c \in Sockets : \A i, j \in DOMAIN wire[c] :
    LET x == wire[c][i]  y == wire[c][j]
    IN  i < j => x[1] < y[1] \/ (x[1] = y[1] /\ x[2] < y[2])

\* A callback that reports success runs when every byte of its call has left,
\* and no callback runs twice (the callbacks return the buffer of the data).
CallbackMeansSent ==
  \A k \in DOMAIN io.done :
    /\ Len(io.done[k]) <= 1
    /\ io.done[k] = <<"ok">> =>
         \A u \in 1 .. io.calls[k].size : <<k, u>> \in Range(wire[io.calls[k].conn])

\* The contract of SendAll in io_uring.h: ordered, never partial, and the callback
\* knows.
SendAllContract == SendAllInOrder /\ CallbackMeansSent

\* op_count is the number of ops that use a descriptor, so that no op of a
\* closed connection is left when its slot, or its number, gets a new owner; no
\* pointer of a descriptor leads to an op that went back to the pool, and every
\* completion finds its op.
DescriptorOutlivesItsOps ==
  /\ io.sqe \cup {cq[i][1] : i \in DOMAIN cq} \subseteq Live
  /\ \A i \in Registered : /\ io.fds[i].op_count = Cardinality(OfSlot(i))
                           /\ Pointers(i) \subseteq Live
  /\ \A id \in Live : io.ops[id].slot # NoSlot =>
       io.ops[id].slot \in Registered /\ io.fds[io.ops[id].slot].fd = io.ops[id].fd

\* Two reads never share a buffer and never run on one descriptor, where the
\* loop could deliver their data in the wrong order; a buffer of the pool is
\* not read into.
ReadsAreExclusive ==
  LET reads == {id \in Live : io.ops[id].type = "read"}
  IN  /\ \A x, y \in reads : x # y => io.ops[x].buf # io.ops[y].buf /\ io.ops[x].slot # io.ops[y].slot
      /\ \A x \in reads : io.ops[x].buf \notin Range(io.avail)
      /\ Cardinality(reads) + Len(io.avail) = io.num_bufs

\* Every op owns what it uses: its descriptor stays until it is complete, and its
\* buffer is its own.
OpsOwnWhatTheyUse == DescriptorOutlivesItsOps /\ ReadsAreExclusive

\* A send of connection c waits for its peer.
Blocked(c) ==
  /\ c \in stalled \ reset
  /\ \E id \in io.sqe : io.ops[id].type \in {"sendall", "write"} /\ OpConn(id) = c

\* Close waits for the ops of its descriptor, cancels the read, and its callback
\* runs even if the peer sends nothing more.  It cancels no send: that of a peer
\* that never reads again keeps the descriptor open for ever.
CloseCompletes ==
  \A c \in Conns :
    <>[]Blocked(c) \/ (io.conn[c].state = "closing" ~> io.conn[c].state = "closed")

\* Every SendAll and Write gets its callback, also behind calls that fail and on
\* a descriptor that is closing, unless the peer of its connection never reads
\* again.
EveryCallEnds ==
  \A k \in 1 .. Max({b.calls : b \in Budgets}) :
    \/ <>[](k \in DOMAIN io.calls /\ Blocked(io.calls[k].conn))
    \/ k \in DOMAIN io.done ~> k \in DOMAIN io.done /\ io.done[k] # <<>>

\* What does not wait for a peer ends, and one that does not read holds up its own
\* connection only.
SendsAndClosesEnd == CloseCompletes /\ EveryCallEnds
=============================================================================
