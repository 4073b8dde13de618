----------------------------- MODULE StateStore -----------------------------
(***************************************************************************)
(* slib/statestore: JSON objects kept as a log of write operations, with   *)
(* optimistic transactions.  Nothing but the log is shared: an object's    *)
(* state is what a replay of its tag's entries gives, a transaction        *)
(* commits or not according to the entries between its TxnBegin and its    *)
(* TxnCommit, and every client works both out for itself.  Replay results  *)
(* and commit results are cached as auxiliary data of the entries.         *)
(*                                                                         *)
(* An operation is the pair <<seqnum of its entry, index in Ops>> and the  *)
(* contents of an object are the sequence of operations applied to it.     *)
(* Every operation is an append followed by a backward replay up to the    *)
(* appended seqnum; the two are two steps, so that other clients append    *)
(* and cache in between.                                                   *)
(***************************************************************************)
EXTENDS SlibLog

CONSTANTS
    Objects,        \* names of objects
    TagOf,          \* objectLogTag(NameHash(name)): names may collide
    NoView          \* an ObjectRef that has not been synchronised

VARIABLES
    env,            \* env[c]: the Env of client c
    result          \* result[s]: what TxnCommit of entry s returned

storeVars == <<env, result>>

Kinds == {"NormalOp", "TxnBegin", "TxnAbort", "TxnCommit"}

IsStoreEntry(e) == e.t \in Kinds

NoEnv == [kind |-> "none", id |-> 0, ops |-> <<>>, waits |-> 0,
          view |-> [o \in Objects |-> NoView]]

StoreInit ==
    /\ env = [c \in Clients |-> NoEnv]
    /\ result = <<>>

-----------------------------------------------------------------------------
(* Entries.                                                                *)

\* fillWriteSet: only operations and commits have one.
WriteSet(s) == IF log[s].t \in {"NormalOp", "TxnCommit"} THEN Range(log[s].ops) ELSE {}

\* The object tags an entry is appended with.
ObjectTags(s) == {TagOf[o] : o \in WriteSet(s)}

\* writeSetOverlapped.
Overlapped(s, u) == WriteSet(s) \cap WriteSet(u) # {}

\* Decoded auxiliary data: the commit result, if there, and cached views.
CachedResult(a) == IF a = NoAux THEN {} ELSE a.r

CachedViews(a) == IF a = NoAux THEN <<>> ELSE a.v

\* The auxiliary data of an operation are the contents of its only object; those of
\* a commit hold one view per object, under the object's name.
ViewKey(s, o) == IF log[s].t = "NormalOp" THEN "contents" ELSE o

\* Seeded fault: only operations outside transactions count as conflicts.
ConflictsOnlyWithWrites(s, u, committed) == Overlapped(s, u) /\ log[u].t = "NormalOp"

\* Entry u, between TxnId and commit s, spoils the commit.
Conflicts(s, u, committed) ==
    Overlapped(s, u) /\ (log[u].t = "NormalOp" \/ (log[u].t = "TxnCommit" /\ committed))

\* checkTxnCommitResult for every TxnCommit entry, with p the auxiliary data
\* that the reads return: its result and the auxiliary data it sets, those of
\* the commits it has to check on the way included.  The tags of the write
\* set are taken one after the other, and the entries of a tag backwards from
\* the commit to TxnId, until the first conflict.
checkTxnCommitResult(p) ==
    LET check[s \in DOMAIN log] ==
        IF log[s].t # "TxnCommit" THEN [r |-> FALSE, w |-> {}]
        ELSE IF CachedResult(p[s]) # {} THEN [r |-> TRUE \in CachedResult(p[s]), w |-> {}]
        ELSE
        LET scanned(g) == {u \in log[s].x + 1 .. s - 1 :
                             IsStoreEntry(log[u]) /\ g \in ObjectTags(u) /\ Overlapped(s, u)}
            conflicts(g) == {u \in scanned(g) : Conflicts(s, u, check[u].r)}
            tag(k) == TagOf[log[s].ops[k]]
            \* Ops is walked up to the first one whose tag has a conflict.
            reached == {k \in DOMAIN log[s].ops :
                          \A j \in 1 .. k - 1 : conflicts(tag(j)) = {}}
            \* Entries read of a tag: those after its last conflict, and it.
            read(g) == {u \in scanned(g) : \A d \in conflicts(g) : u >= d}
            ok == \A k \in DOMAIN log[s].ops : conflicts(tag(k)) = {}
            nested == UNION {check[u].w : u \in UNION {read(tag(k)) : k \in reached}}
        IN  [r |-> ok,
             w |-> nested \cup {<<s, [r |-> {ok}, v |-> CachedViews(p[s])]>>}]
    IN  check

-----------------------------------------------------------------------------
(* Synchronising a view.                                                   *)

EmptyView == [next |-> 0, contents |-> <<>>]

\* applyWriteOp for each operation of entry s on object o.
ApplyEntry(contents, s, o) ==
    contents \o SelectSeq([k \in DOMAIN log[s].ops |-> <<s, k>>],
                          LAMBDA op : log[s].ops[op[2]] = o)

\* Seeded fault: the entries of a tag are taken for entries of the object,
\* although two names may have the same hash.
WithinByTag(s, o) == TagOf[o] \in ObjectTags(s)

\* withinWriteSet, on the entries of the object's tag.
WithinWriteSet(s, o) == TagOf[o] \in ObjectTags(s) /\ o \in WriteSet(s)

\* cacheObjectView: the auxiliary data of entry s, read as a, with the view of o
\* added; those of a commit, which has been checked by then, hold the result too.
cacheObjectView(s, o, a, contents) ==
    [r |-> IF log[s].t = "TxnCommit" THEN {TRUE} ELSE {},
     v |-> (ViewKey(s, o) :> contents) @@ CachedViews(a)]

\* syncToBackward: from tail (exclusive) back to the view's next seqnum, or to
\* the first effective entry of the object that comes with a cached view; the
\* entries passed over are then applied oldest first, and the view after each
\* is cached as auxiliary data of it (cacheObjectView).  Commits are checked
\* on the way back, so only those from the base on.
syncToBackward(o, view, tail, p) ==
    LET start == IF view = NoView THEN 0 ELSE view.next
        check == checkTxnCommitResult(p)
        within == {s \in DOMAIN log : s >= start /\ s < tail
                     /\ IsStoreEntry(log[s]) /\ WithinWriteSet(s, o)}
        effective == {s \in within : log[s].t = "TxnCommit" => check[s].r}
        cached == {s \in effective : ViewKey(s, o) \in DOMAIN CachedViews(p[s])}
        base == IF cached = {} THEN 0 ELSE Max(cached)
        init == IF base # 0
                THEN [next |-> base + 1, contents |-> CachedViews(p[base])[ViewKey(base, o)]]
                ELSE IF view # NoView THEN view ELSE EmptyView
        todo == {s \in effective : s > base}
        viewAt(n) == FoldLeft(LAMBDA v, s : [next |-> s + 1,
                                             contents |-> ApplyEntry(v.contents, s, o)],
                              init, SetToSortSeq({s \in todo : s <= n}, <))
        cache(s) == cacheObjectView(s, o, p[s], viewAt(s).contents)
        checked == {s \in within : s >= base /\ log[s].t = "TxnCommit"}
    IN  IF tail = start THEN [view |-> view, w |-> {}]
        ELSE [view |-> viewAt(tail),
              w |-> {<<s, cache(s)>> : s \in todo} \cup UNION {check[s].w : s \in checked}]

-----------------------------------------------------------------------------
(* Environments and transactions.                                          *)

\* A client between two calls of the library.
Ready(c) == env[c].waits = 0

InTxn(c) == env[c].kind = "txn"

Entry(t, ops, x) == [t |-> t, ops |-> ops, x |-> x]

CreateEnv(c) ==
    /\ env[c].kind = "none"
    /\ budget.ops > 0
    /\ env' = [env EXCEPT ![c] = [NoEnv EXCEPT !.kind = "plain"]]
    /\ UNCHANGED <<logVars, result>>

\* CreateTxnEnv: the seqnum of the TxnBegin entry is the transaction's id.
CreateTxnEnv(c) ==
    /\ env[c].kind = "none"
    /\ Spend("entries")
    /\ SharedLogAppend(c, Entry("TxnBegin", <<>>, 0))
    /\ env' = [env EXCEPT ![c] = [NoEnv EXCEPT !.kind = "txn", !.id = Len(log) + 1]]
    /\ UNCHANGED result

\* CreateReadOnlyTxnEnv: a snapshot just after the tail; 0 on an empty log.
CreateReadOnlyTxnEnv(c) ==
    /\ env[c].kind = "none"
    /\ budget.ops > 0
    /\ \E t \in Tails(c) :
        /\ env' = [env EXCEPT ![c] = [NoEnv EXCEPT !.kind = "readonly",
                                                   !.id = IF t = 0 THEN 0 ELSE t + 1]]
        /\ seen' = [seen EXCEPT ![c] = t]
    /\ UNCHANGED <<log, aux, budget, result>>

\* The function ends; its Env goes with it, and a transaction that it has not
\* committed is never heard of again.
EndEnv(c) ==
    /\ env[c].kind # "none"
    /\ Ready(c)
    /\ env' = [env EXCEPT ![c] = NoEnv]
    /\ UNCHANGED <<logVars, result>>

\* Get through ensureView, and Sync: a view is read up to the snapshot of the
\* transaction, or up to the tail.  In a transaction, and for Get, only an
\* object without a view is synchronised.  A read-only snapshot taken on an
\* empty log (id 0) returns with no view, and Get then panics: the function
\* ends.
Get(c, o) ==
    /\ env[c].kind # "none"
    /\ Spend("syncs")
    /\ Ready(c)
    /\ env[c].kind # "plain" => env[c].view[o] = NoView
    /\ \E t \in Tails(c), p \in AuxReads :
        LET tail == IF env[c].kind = "plain" THEN t + 1 ELSE env[c].id
            s == syncToBackward(o, env[c].view[o], tail, p)
        IN  /\ env[c].kind # "plain" => t = seen[c]
            /\ env' = [env EXCEPT ![c] = IF s.view = NoView THEN NoEnv
                                         ELSE [@ EXCEPT !.view[o] = s.view]]
            /\ aux' = AuxAfter(s.w)
            /\ seen' = [seen EXCEPT ![c] = t]
    /\ UNCHANGED <<log, result>>

\* doWriteOp and MultiCommit outside a transaction: one entry with the
\* operations, all on the same object.
AppendWrite(c, o) ==
    /\ env[c].kind = "plain"
    /\ Ready(c)
    /\ Spend("entries")
    /\ \E n \in 1 .. budget.ops :
        SharedLogAppend(c, Entry("NormalOp", [k \in 1 .. n |-> o], 0))
    /\ env' = [env EXCEPT ![c].waits = Len(log) + 1]
    /\ UNCHANGED result

\* ... and the rest of the call: the view is synchronised up to the entry, and
\* its operations are applied to the view.
FinishWrite(c) ==
    /\ env[c].kind = "plain"
    /\ ~Ready(c)
    /\ \E p \in AuxReads :
        LET s == env[c].waits
            o == log[s].ops[1]
            sync == syncToBackward(o, env[c].view[o], s, p)
        IN  /\ env' = [env EXCEPT ![c].waits = 0,
                                  ![c].view[o] = [next |-> s + 1,
                                                  contents |-> ApplyEntry(sync.view.contents, s, o)]]
            /\ aux' = AuxAfter(sync.w)
    /\ UNCHANGED <<log, seen, budget, result>>

\* ... or a read of the replay fails: the call reports a failure, although its
\* entry is in the log, and leaves the view where it was.
FailWrite(c) ==
    /\ env[c].kind = "plain"
    /\ ~Ready(c)
    /\ env' = [env EXCEPT ![c].waits = 0]
    /\ UNCHANGED <<logVars, result>>

\* doWriteOp in a transaction: the operation only joins the write set.
TxnWrite(c, o) ==
    /\ InTxn(c)
    /\ Ready(c)
    /\ Len(env[c].ops) < budget.ops
    /\ env' = [env EXCEPT ![c].ops = Append(@, o)]
    /\ UNCHANGED <<logVars, result>>

TxnAbort(c) ==
    /\ InTxn(c)
    /\ Ready(c)
    /\ Spend("entries")
    /\ SharedLogAppend(c, Entry("TxnAbort", <<>>, env[c].id))
    /\ env' = [env EXCEPT ![c] = NoEnv]
    /\ UNCHANGED result

\* TxnCommit: the write set is appended ...
AppendCommit(c) ==
    /\ InTxn(c)
    /\ Ready(c)
    /\ Spend("entries")
    /\ SharedLogAppend(c, Entry("TxnCommit", env[c].ops, env[c].id))
    /\ env' = [env EXCEPT ![c].waits = Len(log) + 1]
    /\ UNCHANGED result

\* ... and the entries since TxnBegin decide.  Its own entry is not read back,
\* so the auxiliary data that others may have set for it are not seen.
FinishCommit(c) ==
    /\ InTxn(c)
    /\ ~Ready(c)
    /\ \E p \in AuxReads :
        LET s == env[c].waits
            check == checkTxnCommitResult(p)[s]
        IN  /\ p[s] = NoAux
            /\ result' = [u \in DOMAIN result \cup {s} |-> IF u = s THEN check.r ELSE result[u]]
            /\ aux' = AuxAfter(check.w)
    /\ env' = [env EXCEPT ![c] = NoEnv]
    /\ UNCHANGED <<log, seen, budget>>

StoreNext(c) ==
    \/ CreateEnv(c) \/ CreateTxnEnv(c) \/ CreateReadOnlyTxnEnv(c) \/ EndEnv(c)
    \/ FinishWrite(c) \/ FailWrite(c)
    \/ TxnAbort(c) \/ AppendCommit(c) \/ FinishCommit(c)
    \/ \E o \in Objects : Get(c, o) \/ AppendWrite(c, o) \/ TxnWrite(c, o)

-----------------------------------------------------------------------------
(* What the store promises.                                                *)

\* The reference: which entries take effect, and the operations that a replay
\* of the whole log applies to an object before seqnum n.
Effective ==
    LET eff[s \in DOMAIN log] ==
        \/ log[s].t = "NormalOp"
        \/ /\ log[s].t = "TxnCommit"
           /\ ~\E u \in log[s].x + 1 .. s - 1 : Overlapped(s, u) /\ eff[u]
    IN  eff

Replay(o, n) ==
    LET eff == Effective
    IN  FoldLeft(LAMBDA contents, s : ApplyEntry(contents, s, o), <<>>,
                 SetToSortSeq({s \in DOMAIN log : s < n /\ o \in WriteSet(s) /\ eff[s]}, <))

\* Snapshot isolation: a transaction that was told it committed has no
\* committed transaction and no single write between its begin and its commit
\* that touches an object it wrote, and one that was told it did not commit
\* has a conflict that is not known to have failed itself - whoever computed
\* the results, in whatever order, from whatever auxiliary data
\* (checkTxnCommitResult).
FirstCommitterWins ==
    \A s \in DOMAIN result :
        LET between == {u \in log[s].x + 1 .. s - 1 : Overlapped(s, u)}
            told(u, r) == u \in DOMAIN result /\ result[u] = r
        IN  IF result[s] THEN \A u \in between : log[u].t = "TxnCommit" /\ ~told(u, TRUE)
            ELSE \E u \in between : ~told(u, FALSE)

\* The view of an object is what the whole log gives, whichever cached views
\* and results it was built from; in a transaction it is the state at the
\* transaction's snapshot (syncToBackward, ensureView).
ViewsAreReplays ==
    \A c \in Clients, o \in Objects :
        env[c].view[o] # NoView =>
            /\ env[c].view[o].contents = Replay(o, env[c].view[o].next)
            /\ env[c].kind # "plain" => env[c].view[o].contents = Replay(o, env[c].id)

\* Whatever the auxiliary data of an entry say is what the log gives.
StoreCachesAgree ==
    \A s \in DOMAIN log : IsStoreEntry(log[s]) =>
        \A a \in aux[s] :
            /\ a.r \subseteq {Effective[s]}
            /\ \A k \in DOMAIN a.v :
                 a.v[k] = Replay(IF k = "contents" THEN log[s].ops[1] ELSE k, s + 1)

=============================================================================
