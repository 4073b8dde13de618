------------------------- MODULE Registration_proofs -------------------------
(***************************************************************************)
(* Proofs about Registration, for every number of engines, shards, nodes   *)
(* and views: a shard has one active engine, whatever crashes and however  *)
(* views change meanwhile, and when the messages of a dead engine do not   *)
(* outlive its session that engine is known to all and starts where its    *)
(* predecessor ended.  What a cut orders is stored, with or without late   *)
(* messages.                                                               *)
(***************************************************************************)
EXTENDS Registration, FiniteSetTheorems, WellFoundedInduction, TLAPS

-----------------------------------------------------------------------------
(* The inductive invariant. *)

Servers == StorageNodes \cup Peers

\* Registrations under way: requests and answers that are not refusals.
InFlight == {m \in msgs : m.op = "REGISTER" /\ m.type \notin Failures}
Of(e, v) == {m \in InFlight : m.engine = e /\ m.view = v}

\* The node that an engine talks to, whichever of them has sent m.
Partner(m) == IF m.from = m.engine THEN m.to ELSE m.from

Granted(e, v) == {r \in shardResp : r.engine = e /\ r.view = v /\ r.shard # None}

\* The engine holds the shard, or something is under way that leads to it.
Claims(e, v, s) ==
    \/ \E r \in Granted(e, v) : r.shard = s
    \/ \E m \in Of(e, v) : m.shard = s
    \/ engine[e].shards[v] = s

\* The types of what the argument is about; entries, positions and progress are
\* left out.
ConnectionOK(c) ==
    /\ DOMAIN c = {"sequencer_set", "local_start", "nodes"}
    /\ c.sequencer_set \in BOOLEAN /\ c.nodes \subseteq Servers

EngineOK(me) ==
    /\ DOMAIN me = {"up", "failed", "view", "active", "next_view", "conn", "shards",
                    "max_position", "producer"}
    /\ me.up \in BOOLEAN /\ me.failed \in BOOLEAN
    /\ me.view \in -1 .. MaxView
    /\ me.shards \in [Views -> Shards \cup {None}]
    /\ DOMAIN me.conn = Views /\ \A v \in Views : ConnectionOK(me.conn[v])

ControllerOK ==
    /\ DOMAIN ctrl = {"state", "view", "online", "occupied", "holder"}
    /\ ctrl.state \in {"created", "normal", "reconfiguring", "frozen"}
    /\ ctrl.view \in -1 .. MaxView
    /\ ctrl.online \subseteq Engines /\ ctrl.occupied \subseteq Shards
    /\ ctrl.holder \in [Engines -> Shards \cup {None}]

ZNodesOK ==
    /\ znodes \in Seq([type : {"new", "freeze", "finalize"}, view : Views])
    /\ seen \in [Nodes -> Nat]
    /\ shardReq \subseteq [view : Views, engine : Engines]
    /\ shardResp \subseteq [view : Views, engine : Engines, shard : Shards \cup {None}]

SequencerOK ==
    /\ DOMAIN seq = {"view", "frozen", "unblocked", "dirty", "last_cut", "progress", "position",
                     "occupation"}
    /\ seq.view \in -1 .. MaxView
    /\ seq.unblocked \subseteq Shards /\ seq.dirty \subseteq seq.unblocked
    /\ DOMAIN seq.last_cut = Shards
    /\ seq.occupation \in [Shards -> Engines \cup {None}]

StorageOK ==
    /\ DOMAIN storage = StorageNodes
    /\ \A n \in StorageNodes :
         /\ DOMAIN storage[n] = {"view", "failed", "finalized", "pending", "position", "progress",
                                 "occupation"}
         /\ storage[n].view \in -1 .. MaxView
         /\ storage[n].occupation \in [Shards -> Engines \cup {None}]

PeersOK ==
    /\ DOMAIN peer = Peers
    /\ \A n \in Peers :
         /\ DOMAIN peer[n] = {"role", "view", "engines"}
         /\ peer[n].view \in -1 .. MaxView /\ peer[n].engines \subseteq Engines

EnginesOK == DOMAIN engine = Engines /\ \A e \in Engines : EngineOK(engine[e])

IsRequest(m) ==
    /\ m.engine = m.from /\ m.from \in Engines
    /\ \/ m.to = Sequencer /\ m.type \in {"ENGINE", "UNBLOCK"}
       \/ m.to \in Servers /\ m.type = "ENGINE"

IsAnswer(m) ==
    /\ m.engine = m.to /\ m.to \in Engines
    /\ \/ m.from = Sequencer /\ m.type \in {"SEQUENCER_OK", "UNBLOCK", "SEQUENCER_FAILED"}
       \/ m.from \in StorageNodes /\ m.type \in {"STORAGE_OK", "STORAGE_FAILED"}
       \/ /\ m.from \in Peers
          /\ m.type \in {"INDEX_OK", "INDEX_FAILED", "AGGREGATOR_OK", "AGGREGATOR_FAILED"}

RegisterOK(m) == m.view \in Views /\ m.shard \in Shards /\ (IsRequest(m) \/ IsAnswer(m))

MessagesOK == \A m \in msgs : m.op = "REGISTER" => RegisterOK(m)

TypeOK ==
    /\ ControllerOK /\ ZNodesOK /\ SequencerOK /\ StorageOK /\ PeersOK /\ EnginesOK
    /\ MessagesOK

\* Views come in order: what a node has not seen is later than what it is in.
Unread(n) == {i \in seen[n] + 1 .. Len(znodes) : znodes[i].type = "new"}
Ahead(n, view) == view <= ctrl.view /\ \A i \in Unread(n) : znodes[i].view > view

ViewsInv ==
    /\ ctrl.state = "created" => ctrl.view = -1
    /\ ctrl.state # "created" => ctrl.view >= 0
    /\ ctrl.state \in {"reconfiguring", "frozen"} => ctrl.view < MaxView
    /\ \A i \in 1 .. Len(znodes) : znodes[i].view <= ctrl.view
    /\ \A i, j \in 1 .. Len(znodes) :
         i < j /\ znodes[i].type = "new" /\ znodes[j].type = "new" =>
             znodes[i].view < znodes[j].view
    /\ Ahead(Sequencer, seq.view)
    /\ \A n \in StorageNodes : Ahead(n, storage[n].view)
    /\ \A n \in Peers : Ahead(n, peer[n].view)
    /\ \A e \in Engines : Ahead(e, engine[e].view)
    /\ \A r \in shardReq \cup shardResp : Ahead(r.engine, r.view)

\* The controller's books: a shard has one holder, and is occupied.
HolderInv ==
    /\ \A e \in Engines : ctrl.holder[e] # None => ctrl.holder[e] \in ctrl.occupied
    /\ \A e, f \in Engines : ctrl.holder[e] = ctrl.holder[f] /\ ctrl.holder[e] # None => e = f

\* They agree with what is under way for engines that have a session.
ClaimInv ==
    /\ \A e \in Engines : Alive(e) => e \in ctrl.online
    /\ \A e \in Engines, v \in Views, s \in Shards : Claims(e, v, s) => Ahead(e, v)
    /\ \A e \in ctrl.online, v \in Views, s \in Shards :
         v = ctrl.view /\ Claims(e, v, s) =>
             s \in ctrl.occupied /\ \A f \in Engines : ctrl.holder[f] = s => f = e
    /\ \A e, f \in ctrl.online, v \in Views, s \in Shards :
         Claims(e, v, s) /\ Claims(f, v, s) => e = f
    /\ \A e \in Engines, v \in Views, s, t \in Shards :
         Claims(e, v, s) /\ Claims(e, v, t) => s = t

\* An engine asks once for a shard of a view.
RequestInv ==
    \A r \in shardReq :
        /\ Alive(r.engine)
        /\ \A s \in Shards : ~Claims(r.engine, r.view, s)
        /\ ~engine[r.engine].conn[r.view].sequencer_set

\* How far the registration of an engine in a view is.
StageInv(e, v) ==
    LET c == engine[e].conn[v] IN
    /\ \A m, k \in Of(e, v) : Partner(m) = Partner(k) => m = k
    /\ \A m \in Of(e, v) : Partner(m) \notin c.nodes
    /\ Granted(e, v) # {} => Of(e, v) = {} /\ ~c.sequencer_set
    /\ \A m \in Of(e, v) :
         (m.type = "ENGINE" /\ m.to = Sequencer) \/ m.type = "SEQUENCER_OK" => ~c.sequencer_set
    /\ ~c.sequencer_set =>
         /\ c.nodes = {} /\ engine[e].shards[v] = None
         /\ \A m \in Of(e, v) :
              (m.type = "ENGINE" /\ m.to = Sequencer) \/ m.type = "SEQUENCER_OK"
    /\ engine[e].shards[v] # None \/ (\E m \in Of(e, v) : m.type = "UNBLOCK") =>
         c.nodes = Servers

Unblocking(e, v) == {m \in Of(e, v) : m.type = "UNBLOCK" /\ m.to = e}

\* What the nodes know of it.
KnownInv(e, v, s) ==
    LET c == engine[e].conn[v]
        reached(n) == n \in c.nodes \/ \E m \in Of(e, v) : m.from = n
    IN
    /\ \A n \in StorageNodes : reached(n) =>
         v <= storage[n].view /\ (storage[n].view = v => storage[n].occupation[s] = e)
    /\ \A n \in Peers : reached(n) =>
         v <= peer[n].view /\ (peer[n].view = v => e \in peer[n].engines)
    /\ c.sequencer_set \/ (\E m \in Of(e, v) : m.type = "SEQUENCER_OK") => v <= seq.view
    /\ seq.view = v =>
         /\ engine[e].shards[v] = s \/ Unblocking(e, v) # {} =>
              seq.occupation[s] = e /\ s \in seq.unblocked
         /\ \A m \in Of(e, v) : m.type = "SEQUENCER_OK" =>
              s \notin seq.unblocked /\ m.start = seq.last_cut[s]
         /\ (/\ engine[e].view = v /\ c.sequencer_set
             /\ engine[e].shards[v] = None /\ Unblocking(e, v) = {}) =>
              s \notin seq.unblocked /\ seq.last_cut[s] = c.local_start
    /\ \A m \in Unblocking(e, v) : engine[e].view = v => m.start = c.local_start

Stages == \A e \in Engines : Alive(e) => \A v \in Views : StageInv(e, v)

\* Without late messages the requests under way are those of engines that have a
\* session, and the nodes know the engine.
NoLate == \A m \in InFlight : m.from \in Engines => m.from \in ctrl.online

Knowledge ==
    /\ NoLate
    /\ \A e \in Engines : Alive(e) =>
         \A v \in Views, s \in Shards : Claims(e, v, s) => KnownInv(e, v, s)

IndInv ==
    /\ TypeOK /\ ViewsInv /\ HolderInv /\ ClaimInv /\ RequestInv /\ Stages
    /\ ~LateMessages => Knowledge

-----------------------------------------------------------------------------
(* Views and znodes. *)

\* A non-empty set of natural numbers has a least element, the one Min chooses.
LEMMA MinFacts ==
    ASSUME NEW S \in SUBSET Nat, S # {}
    PROVE  Min(S) \in S /\ \A x \in S : Min(S) <= x
<1> DEFINE R == {ss \in Nat \X Nat : ss[1] < ss[2]}
<1>1. IsWellFoundedOn(R, Nat)
  BY NatLessThanWellFounded DEF OpToRel
<1> HIDE DEF R
<1>2. PICK s \in S : \A x \in S : ~(<<x, s>> \in R)
  BY <1>1, WFMin
<1>3. \A x \in S : ~(x < s)
  BY <1>2 DEF R
<1>4. \A x \in S : s <= x
  BY <1>3
<1> QED
  BY <1>4 DEF Min

\* Which znode a ViewWatcher delivers next, and what is left after it.
LEMMA NextZNodeFacts ==
    ASSUME ZNodesOK, NEW n \in Nodes, NEW type, NextZNode(n, type), UNCHANGED znodes
    PROVE  \E i \in 1 .. Len(znodes) :
             /\ znodes[i].type = type /\ NextView(n) = znodes[i].view
             /\ znodes[i] \in [type : {"new", "freeze", "finalize"}, view : Views]
             /\ seen' \in [Nodes -> Nat]
             /\ \A x \in Nodes : Unread(x)' \subseteq Unread(x)
             /\ type = "new" => i \in Unread(n) /\ \A j \in Unread(n)' : i < j
<1> DEFINE i == Min(Unseen(n))
<1>1. Len(znodes) \in Nat /\ seen[n] \in Nat
  BY DEF ZNodesOK
<1>2. Unseen(n) \in SUBSET Nat /\ Unseen(n) # {}
  BY <1>1 DEF NextZNode, Unseen
<1>3. i \in Unseen(n) /\ \A j \in Unseen(n) : i <= j
  BY <1>2, MinFacts
<1> HIDE DEF i
<1>4. /\ znodes[i].type = type /\ seen' = [seen EXCEPT ![n] = i] /\ NextView(n) = znodes[i].view
  BY DEF NextZNode, NextView, i
<1>5. i \in 1 .. Len(znodes) /\ i \in Nat /\ seen[n] < i
  BY <1>1, <1>3 DEF Unseen
<1>6. znodes[i] \in [type : {"new", "freeze", "finalize"}, view : Views]
  <2> DEFINE Z == [type : {"new", "freeze", "finalize"}, view : Views]
  <2>1. znodes \in Seq(Z)
    BY DEF ZNodesOK
  <2> HIDE DEF Z
  <2>2. znodes[i] \in Z
    BY <1>5, <2>1
  <2> QED
    BY <2>2 DEF Z
<1>7. seen' \in [Nodes -> Nat] /\ seen'[n] = i /\ \A x \in Nodes : x # n => seen'[x] = seen[x]
  BY <1>4, <1>5 DEF ZNodesOK
<1>8. \A x \in Nodes : seen[x] \in Nat
  BY DEF ZNodesOK
<1>9. \A x \in Nodes : Unread(x)' \subseteq Unread(x)
  BY <1>1, <1>5, <1>7, <1>8 DEF Unread
<1>10. type = "new" => i \in Unread(n)
  BY <1>1, <1>4, <1>5 DEF Unread
<1>11. \A j \in Unread(n)' : i < j
  BY <1>1, <1>5, <1>7 DEF Unread
<1> QED
  BY <1>4, <1>5, <1>6, <1>7, <1>9, <1>10, <1>11

\* Who is ahead of a view stays ahead while no view is published.
LEMMA AheadFrame ==
    ASSUME UNCHANGED <<ctrl, znodes>>, \A x \in Nodes : Unread(x)' \subseteq Unread(x),
           NEW n \in Nodes, NEW w, Ahead(n, w)
    PROVE  Ahead(n, w)'
  BY DEF Ahead

\* A node that enters the view of its next znode is in order with the rest.
LEMMA NextViewFacts ==
    ASSUME ZNodesOK, ControllerOK, ViewsInv, NEW n \in Nodes, NextZNode(n, "new"),
           UNCHANGED <<ctrl, znodes>>
    PROVE  /\ seen' \in [Nodes -> Nat] /\ \A x \in Nodes : Unread(x)' \subseteq Unread(x)
           /\ NextView(n) \in Views /\ NextView(n) >= 0
           /\ \A w : Ahead(n, w) => w < NextView(n)
           /\ \E w \in Views : w = NextView(n) /\ Ahead(n, w)'
<1>1. PICK i \in 1 .. Len(znodes) :
             /\ znodes[i].type = "new" /\ NextView(n) = znodes[i].view
             /\ znodes[i] \in [type : {"new", "freeze", "finalize"}, view : Views]
             /\ seen' \in [Nodes -> Nat]
             /\ \A x \in Nodes : Unread(x)' \subseteq Unread(x)
             /\ i \in Unread(n) /\ \A j \in Unread(n)' : i < j
  BY NextZNodeFacts
<1>2. NextView(n) \in Views
  BY <1>1
<1>3. \A w : Ahead(n, w) => w < NextView(n)
  BY <1>1, <1>2 DEF Ahead, Views
<1>4. PICK w \in Views : w = NextView(n)
  BY <1>2
<1>5. \A j \in Unread(n)' : j \in 1 .. Len(znodes) /\ znodes[j].type = "new"
  BY <1>1 DEF Unread, ZNodesOK
<1>6. \A j \in Unread(n)' : znodes[j].view > w
  BY <1>1, <1>4, <1>5 DEF ViewsInv
<1>7. w <= ctrl.view
  BY <1>1, <1>4 DEF ViewsInv
<1>8. Ahead(n, w)'
  BY <1>6, <1>7 DEF Ahead
<1> QED
  BY <1>1, <1>2, <1>3, <1>4, <1>8 DEF Views

-----------------------------------------------------------------------------
(* What steps leave alone. *)

\* ViewsInv survives when no view is published and each node keeps its view or
\* enters one it had not seen.
LEMMA ViewsFrame ==
    ASSUME TypeOK, ViewsInv, UNCHANGED <<ctrl, znodes>>,
           \A x \in Nodes : Unread(x)' \subseteq Unread(x),
           seq'.view = seq.view \/ Ahead(Sequencer, seq.view)',
           \A n \in StorageNodes :
               storage'[n].view = storage[n].view \/ Ahead(n, storage[n].view)',
           \A n \in Peers : peer'[n].view = peer[n].view \/ Ahead(n, peer[n].view)',
           \A e \in Engines : engine'[e].view = engine[e].view \/ Ahead(e, engine[e].view)',
           \A r \in shardReq' \cup shardResp' :
               r \in shardReq \cup shardResp \/ Ahead(r.engine, r.view)'
    PROVE  ViewsInv'
<1>1. Ahead(Sequencer, seq.view)'
  BY DEF ViewsInv, Ahead, Nodes
<1>2. \A n \in StorageNodes : Ahead(n, storage[n].view)'
  BY DEF ViewsInv, Ahead, Nodes
<1>3. \A n \in Peers : Ahead(n, peer[n].view)'
  BY DEF ViewsInv, Ahead, Nodes
<1>4. \A e \in Engines : Ahead(e, engine[e].view)'
  BY DEF ViewsInv, Ahead, Nodes
<1>5. \A r \in shardReq \cup shardResp : r.engine \in Nodes
  BY DEF TypeOK, ZNodesOK, Nodes
<1>6. \A r \in shardReq' \cup shardResp' : Ahead(r.engine, r.view)'
  BY <1>5 DEF ViewsInv, Ahead
<1> QED
  BY <1>1, <1>2, <1>3, <1>4, <1>6 DEF ViewsInv

\* Nothing new is claimed when answers take the place of requests.
LEMMA ClaimsFrom ==
    ASSUME \A r \in shardResp' : r.shard # None => r \in shardResp,
           \A m \in InFlight' : m \in InFlight \/ Claims(m.engine, m.view, m.shard),
           \A e \in Engines, v \in Views, s \in Shards :
               engine'[e].shards[v] = s => Claims(e, v, s)
    PROVE  \A e \in Engines, v \in Views, s \in Shards : Claims(e, v, s)' => Claims(e, v, s)
<1> SUFFICES ASSUME NEW e \in Engines, NEW v \in Views, NEW s \in Shards, Claims(e, v, s)'
             PROVE  Claims(e, v, s)
  OBVIOUS
<1>1. CASE \E r \in Granted(e, v)' : r.shard = s
  BY <1>1 DEF Granted, Claims
<1>2. CASE \E m \in Of(e, v)' : m.shard = s
  <2>1. PICK m \in InFlight' : m.engine = e /\ m.view = v /\ m.shard = s
    BY <1>2 DEF Of
  <2>2. CASE m \in InFlight
    BY <2>1, <2>2 DEF Of, Claims
  <2>3. CASE Claims(m.engine, m.view, m.shard)
    BY <2>1, <2>3
  <2> QED
    BY <2>1, <2>2, <2>3
<1>3. CASE engine'[e].shards[v] = s
  BY <1>3
<1> QED
  BY <1>1, <1>2, <1>3 DEF Claims

\* ClaimInv survives when nothing new is claimed.
LEMMA ClaimFrame ==
    ASSUME ClaimInv, UNCHANGED <<ctrl, znodes>>,
           \A x \in Nodes : Unread(x)' \subseteq Unread(x),
           \A e \in Engines : Alive(e)' => Alive(e),
           ctrl.online \subseteq Engines,
           \A e \in Engines, v \in Views, s \in Shards : Claims(e, v, s)' => Claims(e, v, s)
    PROVE  ClaimInv'
<1>1. \A e \in Engines, v \in Views, s \in Shards : Claims(e, v, s)' => Ahead(e, v)'
  BY DEF ClaimInv, Ahead, Nodes
<1>2. \A e \in Engines : Alive(e)' => e \in ctrl'.online
  BY DEF ClaimInv
<1> QED
  BY <1>1, <1>2 DEF ClaimInv

\* RequestInv survives when nothing new is claimed and engines that wait live on.
LEMMA RequestFrame ==
    ASSUME RequestInv, ZNodesOK, shardReq' \subseteq shardReq,
           \A r \in shardReq' :
               Alive(r.engine)' /\ engine'[r.engine].conn[r.view] = engine[r.engine].conn[r.view],
           \A e \in Engines, v \in Views, s \in Shards : Claims(e, v, s)' => Claims(e, v, s)
    PROVE  RequestInv'
  BY DEF RequestInv, ZNodesOK

\* The stage of an engine is not disturbed by the loss of a message.
LEMMA StageFrame ==
    ASSUME NEW e \in Engines, NEW v \in Views, StageInv(e, v),
           Of(e, v)' \subseteq Of(e, v), Granted(e, v)' \subseteq Granted(e, v),
           engine'[e].conn[v] = engine[e].conn[v], engine'[e].shards[v] = engine[e].shards[v]
    PROVE  StageInv(e, v)'
  BY DEF StageInv

\* Nor is what the nodes know of it, while they stay as they are.
LEMMA KnownFrame ==
    ASSUME NEW e \in Engines, NEW v \in Views, NEW s \in Shards, KnownInv(e, v, s),
           Of(e, v)' \subseteq Of(e, v),
           engine[e].view = v => Unblocking(e, v)' = Unblocking(e, v),
           engine'[e].conn[v] = engine[e].conn[v], engine'[e].shards[v] = engine[e].shards[v],
           engine'[e].view = v => engine[e].view = v,
           seq'.view = seq.view, seq'.occupation = seq.occupation,
           seq'.unblocked = seq.unblocked,
           s \notin seq.unblocked => seq'.last_cut[s] = seq.last_cut[s],
           \A n \in StorageNodes : /\ storage'[n].view = storage[n].view
                                   /\ storage'[n].occupation = storage[n].occupation,
           \A n \in Peers : /\ peer'[n].view = peer[n].view
                            /\ e \in peer[n].engines => e \in peer'[n].engines
    PROVE  KnownInv(e, v, s)'
<1>1. Unblocking(e, v)' \subseteq Unblocking(e, v)
  BY DEF Unblocking
<1> QED
  BY <1>1 DEF KnownInv

-----------------------------------------------------------------------------
(* Steps that do not take part in a registration. *)

\* Other messages come and go without touching those of registrations.
LEMMA OtherMessages ==
    ASSUME MessagesOK,
           \A k \in msgs' : k \in msgs \/ k.op # "REGISTER",
           \A k \in msgs : k \in msgs' \/ k.op # "REGISTER"
    PROVE  MessagesOK' /\ InFlight' = InFlight
  BY DEF MessagesOK, InFlight

\* Such a step changes of engines neither view, shards nor connections, and of
\* the nodes neither view nor occupation.
LEMMA QuietStep ==
    ASSUME IndInv, TypeOK', UNCHANGED <<ctrl, znodes, shardReq, shardResp>>,
           \A x \in Nodes : Unread(x)' \subseteq Unread(x), InFlight' = InFlight,
           \A e \in Engines :
               /\ Alive(e)' => Alive(e)
               /\ engine'[e].view = engine[e].view /\ engine'[e].shards = engine[e].shards
               /\ engine'[e].conn = engine[e].conn,
           \A r \in shardReq : Alive(r.engine)',
           seq'.view = seq.view, seq'.occupation = seq.occupation,
           seq'.unblocked = seq.unblocked,
           \A s \in Shards : s \notin seq.unblocked => seq'.last_cut[s] = seq.last_cut[s],
           \A n \in StorageNodes : /\ storage'[n].view = storage[n].view
                                   /\ storage'[n].occupation = storage[n].occupation,
           \A n \in Peers : peer'[n].view = peer[n].view,
           \A e \in Engines, n \in Peers :
               Alive(e) /\ e \in peer[n].engines => e \in peer'[n].engines
    PROVE  IndInv'
<1>1. ViewsInv'
  BY ViewsFrame DEF IndInv
<1>2. \A e, v : Of(e, v)' = Of(e, v) /\ Unblocking(e, v)' = Unblocking(e, v)
  BY DEF Of, Unblocking
<1>3. \A e, v : Granted(e, v)' = Granted(e, v)
  BY DEF Granted
<1>4. \A e \in Engines, v \in Views, s \in Shards : Claims(e, v, s)' => Claims(e, v, s)
  BY <1>2, <1>3 DEF Claims
<1>5. ClaimInv'
  BY <1>4, ClaimFrame DEF IndInv, TypeOK, ControllerOK
<1>6. HolderInv'
  BY DEF IndInv, HolderInv
<1>7. \A r \in shardReq : r.engine \in Engines
  BY DEF IndInv, TypeOK, ZNodesOK
<1>8. RequestInv'
  BY <1>4, <1>7, RequestFrame DEF IndInv, TypeOK
<1>9. Stages'
  <2> SUFFICES ASSUME NEW e \in Engines, Alive(e)', NEW v \in Views
               PROVE  StageInv(e, v)'
    BY DEF Stages
  <2>1. StageInv(e, v)
    BY DEF IndInv, Stages
  <2> QED
    BY <1>2, <1>3, <2>1, StageFrame
<1>10. ASSUME ~LateMessages PROVE Knowledge'
  <2>1. Knowledge
    BY <1>10 DEF IndInv
  <2>2. NoLate'
    BY <2>1 DEF Knowledge, NoLate
  <2>3. ASSUME NEW e \in Engines, Alive(e)', NEW v \in Views, NEW s \in Shards, Claims(e, v, s)'
        PROVE  KnownInv(e, v, s)'
    <3>1. KnownInv(e, v, s)
      BY <1>4, <2>1, <2>3 DEF Knowledge
    <3>2. \A n \in Peers : e \in peer[n].engines => e \in peer'[n].engines
      BY <2>3
    <3> QED
      BY <1>2, <3>1, <3>2, KnownFrame
  <2> QED
    BY <2>2, <2>3 DEF Knowledge
<1> QED
  BY <1>1, <1>5, <1>6, <1>8, <1>9, <1>10 DEF IndInv

\* An engine that changes only what it appends or whether it works.
LEMMA EngineKept ==
    ASSUME EnginesOK, NEW e \in Engines, DOMAIN engine' = Engines,
           \A x \in Engines : x # e => engine'[x] = engine[x],
           DOMAIN engine'[e] = DOMAIN engine[e], engine'[e].up = engine[e].up,
           engine'[e].failed \in BOOLEAN, engine[e].failed => engine'[e].failed,
           engine'[e].view = engine[e].view, engine'[e].shards = engine[e].shards,
           engine'[e].conn = engine[e].conn
    PROVE  /\ EnginesOK'
           /\ \A x \in Engines :
               /\ Alive(x)' => Alive(x)
               /\ x # e => Alive(x)' = Alive(x)
               /\ engine'[x].view = engine[x].view /\ engine'[x].shards = engine[x].shards
               /\ engine'[x].conn = engine[x].conn
<1>1. EngineOK(engine[e]) /\ \A x \in Engines : EngineOK(engine[x])
  BY DEF EnginesOK
<1>2. EngineOK(engine'[e])
  BY <1>1 DEF EngineOK
<1>3. EnginesOK'
  BY <1>1, <1>2 DEF EnginesOK
<1>4. \A x \in Engines : engine[x].failed \in BOOLEAN /\ engine[x].up \in BOOLEAN
  BY <1>1 DEF EngineOK
<1>5. \A x \in Engines : Alive(x)' => Alive(x)
  BY <1>4 DEF Alive
<1>6. \A x \in Engines : x # e => Alive(x)' = Alive(x)
  BY DEF Alive
<1> QED
  BY <1>3, <1>5, <1>6

\* An engine that does not wait for a shard has no request.
LEMMA WaitingEngines ==
    ASSUME IndInv, NEW e \in Engines, ~WaitsForShard(e), UNCHANGED shardReq,
           \A x \in Engines : x # e => Alive(x)' = Alive(x)
    PROVE  \A r \in shardReq : Alive(r.engine)'
<1>1. \A r \in shardReq : r.engine \in Engines /\ r.engine # e /\ Alive(r.engine)
  BY DEF WaitsForShard, IndInv, RequestInv, TypeOK, ZNodesOK
<1> QED
  BY <1>1

\* OnViewFrozen of an engine.
LEMMA EngineFrozenStep ==
    ASSUME IndInv, NEW e \in Engines, EngineOnViewFrozen(e)
    PROVE  IndInv'
<1>1. EngineOK(engine[e]) /\ DOMAIN engine = Engines
  BY DEF IndInv, TypeOK, EnginesOK
<1>0. /\ ~WaitsForShard(e) /\ NextZNode(e, "freeze")
      /\ UNCHANGED <<ctrl, znodes, shardReq, shardResp, seq, storage, peer, msgs>>
      /\ \E y : engine' = [engine EXCEPT ![e].active = y]
  BY DEF EngineOnViewFrozen
<1>2. /\ DOMAIN engine' = Engines /\ \A x \in Engines : x # e => engine'[x] = engine[x]
      /\ DOMAIN engine'[e] = DOMAIN engine[e] /\ engine'[e].up = engine[e].up
      /\ engine'[e].failed = engine[e].failed /\ engine'[e].view = engine[e].view
      /\ engine'[e].shards = engine[e].shards /\ engine'[e].conn = engine[e].conn
  BY <1>0, <1>1 DEF EngineOK
<1>3. engine'[e].failed \in BOOLEAN
  BY <1>1, <1>2 DEF EngineOK
<1>4. /\ EnginesOK'
      /\ \A x \in Engines :
          /\ Alive(x)' => Alive(x)
          /\ x # e => Alive(x)' = Alive(x)
          /\ engine'[x].view = engine[x].view /\ engine'[x].shards = engine[x].shards
          /\ engine'[x].conn = engine[x].conn
  BY <1>2, <1>3, EngineKept DEF IndInv, TypeOK
<1>5. e \in Nodes /\ NextZNode(e, "freeze")
  BY <1>0 DEF Nodes
<1>6. seen' \in [Nodes -> Nat] /\ \A x \in Nodes : Unread(x)' \subseteq Unread(x)
  BY <1>0, <1>5, NextZNodeFacts DEF IndInv, TypeOK
<1>7. MessagesOK' /\ InFlight' = InFlight
  BY <1>0, OtherMessages DEF IndInv, TypeOK
<1>8. TypeOK'
  BY <1>0, <1>4, <1>6, <1>7
     DEF IndInv, TypeOK, ControllerOK, ZNodesOK, SequencerOK, StorageOK, PeersOK
<1>9. \A r \in shardReq : Alive(r.engine)'
  BY <1>0, <1>4, WaitingEngines
<1> QED
  BY <1>0, <1>4, <1>6, <1>7, <1>8, <1>9, QuietStep

\* OnViewFinalized of an engine.
LEMMA EngineFinalizedStep ==
    ASSUME IndInv, NEW e \in Engines, EngineOnViewFinalized(e)
    PROVE  IndInv'
<1>1. EngineOK(engine[e]) /\ DOMAIN engine = Engines
  BY DEF IndInv, TypeOK, EnginesOK
<1>0. /\ ~WaitsForShard(e) /\ NextZNode(e, "finalize")
      /\ UNCHANGED <<ctrl, znodes, shardReq, shardResp, seq, storage, peer, msgs>>
      /\ \E y : engine' = [engine EXCEPT ![e].producer[NextView(e)] = y]
  BY DEF EngineOnViewFinalized
<1>2. /\ DOMAIN engine' = Engines /\ \A x \in Engines : x # e => engine'[x] = engine[x]
      /\ DOMAIN engine'[e] = DOMAIN engine[e] /\ engine'[e].up = engine[e].up
      /\ engine'[e].failed = engine[e].failed /\ engine'[e].view = engine[e].view
      /\ engine'[e].shards = engine[e].shards /\ engine'[e].conn = engine[e].conn
  BY <1>0, <1>1 DEF EngineOK
<1>3. engine'[e].failed \in BOOLEAN
  BY <1>1, <1>2 DEF EngineOK
<1>4. /\ EnginesOK'
      /\ \A x \in Engines :
          /\ Alive(x)' => Alive(x)
          /\ x # e => Alive(x)' = Alive(x)
          /\ engine'[x].view = engine[x].view /\ engine'[x].shards = engine[x].shards
          /\ engine'[x].conn = engine[x].conn
  BY <1>2, <1>3, EngineKept DEF IndInv, TypeOK
<1>5. e \in Nodes /\ NextZNode(e, "finalize")
  BY <1>0 DEF Nodes
<1>6. seen' \in [Nodes -> Nat] /\ \A x \in Nodes : Unread(x)' \subseteq Unread(x)
  BY <1>0, <1>5, NextZNodeFacts DEF IndInv, TypeOK
<1>7. MessagesOK' /\ InFlight' = InFlight
  BY <1>0, OtherMessages DEF IndInv, TypeOK
<1>8. TypeOK'
  BY <1>0, <1>4, <1>6, <1>7
     DEF IndInv, TypeOK, ControllerOK, ZNodesOK, SequencerOK, StorageOK, PeersOK
<1>9. \A r \in shardReq : Alive(r.engine)'
  BY <1>0, <1>4, WaitingEngines
<1> QED
  BY <1>0, <1>4, <1>6, <1>7, <1>8, <1>9, QuietStep

\* METALOGS at an engine: only the producer, the position or failed change.
LEMMA EngineMetaLogsStep ==
    ASSUME IndInv, NEW e \in Engines, NEW m \in msgs, EngineOnRecvNewMetaLogs(e, m)
    PROVE  IndInv'
<1>1. EngineOK(engine[e]) /\ DOMAIN engine = Engines
  BY DEF IndInv, TypeOK, EnginesOK
<1>2. /\ Alive(e) /\ ~WaitsForShard(e) /\ m.op = "METALOGS" /\ msgs' = msgs \ {m}
      /\ UNCHANGED <<ctrl, znodes, seen, shardReq, shardResp, seq, storage, peer>>
  BY Zenon DEF EngineOnRecvNewMetaLogs, EngineReceives, Received
<1> DEFINE ids == CutIds(m, engine[e].producer[m.view].shard)
           b == ~(ids \subseteq engine[e].producer[m.view].pending)
<1>3. \/ \E y : engine' = [engine EXCEPT ![e].max_position[m.view] = y]
      \/ UNCHANGED engine
      \/ engine' = [engine EXCEPT ![e].producer[m.view].position = @ + 1,
                                  ![e].producer[m.view].pending = @ \ ids, ![e].failed = b]
  BY Zenon DEF EngineOnRecvNewMetaLogs
<1>4. b \in BOOLEAN
  OBVIOUS
<1> HIDE DEF b, ids
<1> DEFINE Kept == /\ DOMAIN engine' = Engines /\ \A x \in Engines : x # e => engine'[x] = engine[x]
                   /\ DOMAIN engine'[e] = DOMAIN engine[e] /\ engine'[e].up = engine[e].up
                   /\ engine'[e].failed \in BOOLEAN /\ engine'[e].view = engine[e].view
                   /\ engine'[e].shards = engine[e].shards /\ engine'[e].conn = engine[e].conn
<1>5. Kept
  <2>1. CASE \E y : engine' = [engine EXCEPT ![e].max_position[m.view] = y]
    <3>1. PICK y : engine' = [engine EXCEPT ![e].max_position[m.view] = y]
      BY <2>1
    <3> QED
      BY <1>1, <3>1 DEF EngineOK
  <2>2. CASE UNCHANGED engine
    BY <1>1, <2>2 DEF EngineOK
  <2>3. CASE engine' = [engine EXCEPT ![e].producer[m.view].position = @ + 1,
                                      ![e].producer[m.view].pending = @ \ ids, ![e].failed = b]
    <3>1. DOMAIN engine' = Engines /\ \A x \in Engines : x # e => engine'[x] = engine[x]
      BY <1>1, <2>3, Zenon
    <3>2. /\ DOMAIN engine'[e] = DOMAIN engine[e] /\ engine'[e].failed = b
          /\ engine'[e].up = engine[e].up /\ engine'[e].view = engine[e].view
          /\ engine'[e].shards = engine[e].shards /\ engine'[e].conn = engine[e].conn
      BY <1>1, <2>3, Zenon DEF EngineOK
    <3> QED
      BY <1>4, <3>1, <3>2
  <2> QED
    BY <1>3, <2>1, <2>2, <2>3, Zenon
<1>6. engine[e].failed => engine'[e].failed
  BY <1>2 DEF Alive
<1>7. /\ EnginesOK'
      /\ \A x \in Engines :
          /\ Alive(x)' => Alive(x)
          /\ x # e => Alive(x)' = Alive(x)
          /\ engine'[x].view = engine[x].view /\ engine'[x].shards = engine[x].shards
          /\ engine'[x].conn = engine[x].conn
  BY <1>5, <1>6, EngineKept DEF IndInv, TypeOK
<1> HIDE DEF Kept
<1>8. \A x \in Nodes : Unread(x)' \subseteq Unread(x)
  BY <1>2 DEF Unread
<1>9. MessagesOK' /\ InFlight' = InFlight
  BY <1>2, OtherMessages DEF IndInv, TypeOK
<1>10. TypeOK'
  BY <1>2, <1>7, <1>9
     DEF IndInv, TypeOK, ControllerOK, ZNodesOK, SequencerOK, StorageOK, PeersOK
<1>11. \A r \in shardReq : Alive(r.engine)'
  BY <1>2, <1>7, WaitingEngines
<1> QED
  BY <1>2, <1>7, <1>8, <1>9, <1>10, <1>11, QuietStep

\* An append.
LEMMA AppendStep ==
    ASSUME IndInv, NEW e \in Engines, HandleLocalAppend(e)
    PROVE  IndInv'
<1>1. EngineOK(engine[e]) /\ DOMAIN engine = Engines
  BY DEF IndInv, TypeOK, EnginesOK
<1> DEFINE v == engine[e].view
           p == engine[e].producer[v]
<1>2. /\ Alive(e) /\ ~WaitsForShard(e)
      /\ msgs' = msgs \cup {ReplicateMsg(v, p.shard, p.next, e, n) : n \in StorageNodes}
      /\ UNCHANGED <<ctrl, znodes, seen, shardReq, shardResp, seq, storage, peer>>
  BY Zenon DEF HandleLocalAppend
<1>3. engine' = [engine EXCEPT ![e].producer[v].next = @ + 1,
                             ![e].producer[v].pending = @ \cup {p.next}]
  BY Zenon DEF HandleLocalAppend
<1>4. \A k \in {ReplicateMsg(v, p.shard, p.next, e, n) : n \in StorageNodes} : k.op # "REGISTER"
  BY DEF ReplicateMsg
<1> HIDE DEF v, p
<1>5. DOMAIN engine' = Engines /\ \A x \in Engines : x # e => engine'[x] = engine[x]
  BY <1>1, <1>3
<1>6. /\ DOMAIN engine'[e] = DOMAIN engine[e] /\ engine'[e].up = engine[e].up
      /\ engine'[e].failed = engine[e].failed /\ engine'[e].view = engine[e].view
      /\ engine'[e].shards = engine[e].shards /\ engine'[e].conn = engine[e].conn
      /\ engine'[e].failed \in BOOLEAN
  BY <1>1, <1>3 DEF EngineOK
<1>7. /\ EnginesOK'
      /\ \A x \in Engines :
          /\ Alive(x)' => Alive(x)
          /\ x # e => Alive(x)' = Alive(x)
          /\ engine'[x].view = engine[x].view /\ engine'[x].shards = engine[x].shards
          /\ engine'[x].conn = engine[x].conn
  BY <1>5, <1>6, EngineKept DEF IndInv, TypeOK
<1>8. \A x \in Nodes : Unread(x)' \subseteq Unread(x)
  BY <1>2 DEF Unread
<1>9. MessagesOK' /\ InFlight' = InFlight
  BY <1>2, <1>4, OtherMessages DEF IndInv, TypeOK
<1>10. TypeOK'
  BY <1>2, <1>7, <1>9
     DEF IndInv, TypeOK, ControllerOK, ZNodesOK, SequencerOK, StorageOK, PeersOK
<1>11. \A r \in shardReq : Alive(r.engine)'
  BY <1>2, <1>7, WaitingEngines
<1> QED
  BY <1>2, <1>7, <1>8, <1>9, <1>10, <1>11, QuietStep

\* A step that leaves the engines alone, and at the other nodes what matters here.
LEMMA QuietNodes ==
    ASSUME IndInv, UNCHANGED <<ctrl, znodes, shardReq, shardResp, engine>>,
           seen' \in [Nodes -> Nat], \A x \in Nodes : Unread(x)' \subseteq Unread(x),
           MessagesOK', InFlight' = InFlight, SequencerOK', StorageOK', PeersOK',
           seq'.view = seq.view, seq'.occupation = seq.occupation,
           seq'.unblocked = seq.unblocked,
           \A s \in Shards : s \notin seq.unblocked => seq'.last_cut[s] = seq.last_cut[s],
           \A n \in StorageNodes : /\ storage'[n].view = storage[n].view
                                   /\ storage'[n].occupation = storage[n].occupation,
           \A n \in Peers : peer'[n].view = peer[n].view,
           \A e \in Engines, n \in Peers :
               Alive(e) /\ e \in peer[n].engines => e \in peer'[n].engines
    PROVE  IndInv'
<1>1. TypeOK'
  BY DEF IndInv, TypeOK, ControllerOK, ZNodesOK, EnginesOK
<1>2. \A e \in Engines : Alive(e)' = Alive(e)
  BY DEF Alive
<1>3. \A r \in shardReq : Alive(r.engine)'
  BY <1>2 DEF IndInv, RequestInv, TypeOK, ZNodesOK
<1> QED
  BY <1>1, <1>2, <1>3, QuietStep

\* REPLICATE at a storage node.
LEMMA ReplicateStep ==
    ASSUME IndInv, NEW n \in StorageNodes, NEW m \in msgs, HandleReplicateRequest(n, m)
    PROVE  IndInv'
<1> USE DEF HandleReplicateRequest, Received
<1>1. SequencerOK' /\ PeersOK' /\ seen' \in [Nodes -> Nat]
  BY DEF IndInv, TypeOK, SequencerOK, PeersOK, ZNodesOK
<1>2. \A x \in Nodes : Unread(x)' \subseteq Unread(x)
  BY DEF Unread
<1>3. MessagesOK' /\ InFlight' = InFlight
  <2>1. PICK v, p : \A k \in msgs' : k \in msgs \/ k = ShardProgMsg(v, p, n)
    OBVIOUS
  <2>2. \A k \in msgs' : k \in msgs \/ k.op # "REGISTER"
    BY <2>1 DEF ShardProgMsg
  <2>3. \A k \in msgs : k \in msgs' \/ k.op # "REGISTER"
    OBVIOUS
  <2> QED
    BY <2>2, <2>3, OtherMessages DEF IndInv, TypeOK
<1>4. StorageOK
  BY DEF IndInv, TypeOK
<1>5. /\ DOMAIN storage' = StorageNodes
      /\ \A x \in StorageNodes : /\ DOMAIN storage'[x] = DOMAIN storage[x]
                                 /\ storage'[x].view = storage[x].view
                                 /\ storage'[x].occupation = storage[x].occupation
  <2>1. CASE UNCHANGED storage
    BY <1>4, <2>1 DEF StorageOK
  <2>2. CASE storage' # storage
    <3> DEFINE entry == [shard |-> m.shard, id |-> m.id, engine |-> m.engine]
               p == {x \in storage[n].pending : x.shard # m.shard \/ x.id # m.id} \cup {entry}
               q == [storage[n].progress EXCEPT ![m.shard] = AdvanceShardProgress(p, @, m.shard)]
    <3>1. storage' = [storage EXCEPT ![n].pending = p, ![n].progress = q]
      BY <2>2
    <3> HIDE DEF p, q
    <3> QED
      BY <1>4, <3>1 DEF StorageOK
  <2> QED
    BY <2>1, <2>2
<1>6. StorageOK'
  BY <1>4, <1>5 DEF StorageOK
<1> QED
  BY <1>1, <1>2, <1>3, <1>5, <1>6, QuietNodes

\* METALOGS at a storage node.
LEMMA StorageMetaLogsStep ==
    ASSUME IndInv, NEW n \in StorageNodes, NEW m \in msgs, StorageOnRecvNewMetaLogs(n, m)
    PROVE  IndInv'
<1> USE DEF StorageOnRecvNewMetaLogs, Received
<1>1. SequencerOK' /\ PeersOK' /\ seen' \in [Nodes -> Nat]
  BY DEF IndInv, TypeOK, SequencerOK, PeersOK, ZNodesOK
<1>2. \A x \in Nodes : Unread(x)' \subseteq Unread(x)
  BY DEF Unread
<1>3. MessagesOK' /\ InFlight' = InFlight
  BY OtherMessages DEF IndInv, TypeOK
<1>4. StorageOK
  BY DEF IndInv, TypeOK
<1>5. /\ DOMAIN storage' = StorageNodes
      /\ \A x \in StorageNodes : /\ DOMAIN storage'[x] = DOMAIN storage[x]
                                 /\ storage'[x].view = storage[x].view
                                 /\ storage'[x].occupation = storage[x].occupation
  <2>1. CASE UNCHANGED storage
    BY <1>4, <2>1 DEF StorageOK
  <2>2. CASE storage' # storage
    <3> DEFINE f == IF HoldsCut(n, {m}) THEN None ELSE "missing"
               uncut(S) == {x \in S : x.id \notin CutIds(m, x.shard)}
    <3>1. storage' = [storage EXCEPT ![n].position = @ + 1, ![n].pending = uncut(@),
                                     ![n].failed = f]
      BY <2>2
    <3> HIDE DEF f, uncut
    <3> QED
      BY <1>4, <3>1 DEF StorageOK
  <2> QED
    BY <2>1, <2>2
<1>6. StorageOK'
  BY <1>4, <1>5 DEF StorageOK
<1> QED
  BY <1>1, <1>2, <1>3, <1>5, <1>6, QuietNodes

\* OnViewFinalized of a storage node.
LEMMA StorageFinalizedStep ==
    ASSUME IndInv, NEW n \in StorageNodes, StorageOnViewFinalized(n)
    PROVE  IndInv'
<1> USE DEF StorageOnViewFinalized
<1>1. SequencerOK' /\ PeersOK'
  BY DEF IndInv, TypeOK, SequencerOK, PeersOK
<1>2. n \in Nodes /\ NextZNode(n, "finalize")
  BY DEF Nodes
<1>3. seen' \in [Nodes -> Nat] /\ \A x \in Nodes : Unread(x)' \subseteq Unread(x)
  BY <1>2, NextZNodeFacts DEF IndInv, TypeOK
<1>4. MessagesOK' /\ InFlight' = InFlight
  BY OtherMessages DEF IndInv, TypeOK
<1>5. StorageOK
  BY DEF IndInv, TypeOK
<1>6. /\ DOMAIN storage' = StorageNodes
      /\ \A x \in StorageNodes : /\ DOMAIN storage'[x] = DOMAIN storage[x]
                                 /\ storage'[x].view = storage[x].view
                                 /\ storage'[x].occupation = storage[x].occupation
  <2>1. PICK f : storage' = [storage EXCEPT ![n].pending = {}, ![n].finalized = TRUE,
                                            ![n].failed = f]
    OBVIOUS
  <2> QED
    BY <1>5, <2>1 DEF StorageOK
<1>7. StorageOK'
  BY <1>5, <1>6 DEF StorageOK
<1> QED
  BY <1>1, <1>3, <1>4, <1>6, <1>7, QuietNodes

\* OnViewFrozen of the sequencer.
LEMMA SequencerFrozenStep ==
    ASSUME IndInv, SequencerOnViewFrozen
    PROVE  IndInv'
<1> USE DEF SequencerOnViewFrozen
<1>1. StorageOK' /\ PeersOK'
  BY DEF IndInv, TypeOK, StorageOK, PeersOK
<1>2. Sequencer \in Nodes /\ NextZNode(Sequencer, "freeze")
  BY DEF Nodes
<1>3. seen' \in [Nodes -> Nat] /\ \A x \in Nodes : Unread(x)' \subseteq Unread(x)
  BY <1>2, NextZNodeFacts DEF IndInv, TypeOK
<1>4. MessagesOK' /\ InFlight' = InFlight
  BY OtherMessages DEF IndInv, TypeOK
<1>5. SequencerOK
  BY DEF IndInv, TypeOK
<1>6. /\ DOMAIN seq' = DOMAIN seq /\ seq'.view = seq.view /\ seq'.occupation = seq.occupation
      /\ seq'.unblocked = seq.unblocked /\ seq'.last_cut = seq.last_cut /\ seq'.dirty = seq.dirty
  BY <1>5 DEF SequencerOK
<1>7. SequencerOK'
  BY <1>5, <1>6 DEF SequencerOK
<1> QED
  BY <1>1, <1>3, <1>4, <1>6, <1>7, QuietNodes

\* SHARD_PROG: only shards that are not blocked become dirty.
LEMMA ShardProgressStep ==
    ASSUME IndInv, NEW m \in msgs, SequencerOnRecvShardProgress(m)
    PROVE  IndInv'
<1> USE DEF SequencerOnRecvShardProgress, Received
<1>1. StorageOK' /\ PeersOK' /\ seen' \in [Nodes -> Nat]
  BY DEF IndInv, TypeOK, StorageOK, PeersOK, ZNodesOK
<1>2. \A x \in Nodes : Unread(x)' \subseteq Unread(x)
  BY DEF Unread
<1>3. MessagesOK' /\ InFlight' = InFlight
  BY OtherMessages DEF IndInv, TypeOK
<1>4. SequencerOK
  BY DEF IndInv, TypeOK
<1>5. /\ DOMAIN seq' = DOMAIN seq /\ seq'.view = seq.view /\ seq'.occupation = seq.occupation
      /\ seq'.unblocked = seq.unblocked /\ seq'.last_cut = seq.last_cut
      /\ seq'.dirty \subseteq seq.unblocked
  <2>1. CASE UNCHANGED seq
    BY <1>4, <2>1 DEF SequencerOK
  <2>2. CASE seq' # seq
    <3> DEFINE grown == {s \in seq.unblocked : m.progress[s] > seq.progress[s][m.from]}
               p == [s \in Shards |-> IF s \in grown
                                      THEN [seq.progress[s] EXCEPT ![m.from] = m.progress[s]]
                                      ELSE seq.progress[s]]
               new == {s \in grown : ReplicatedPosition(p, s) > seq.last_cut[s]}
    <3>1. seq' = [seq EXCEPT !.progress = p, !.dirty = @ \cup new] /\ new \subseteq seq.unblocked
      BY <2>2
    <3> HIDE DEF p, new, grown
    <3> QED
      BY <1>4, <3>1 DEF SequencerOK
  <2> QED
    BY <2>1, <2>2
<1>6. SequencerOK'
  BY <1>4, <1>5 DEF SequencerOK
<1> QED
  BY <1>1, <1>2, <1>3, <1>5, <1>6, QuietNodes

\* A cut moves last_cut of dirty shards, which are not blocked.
LEMMA MarkNextCutStep ==
    ASSUME IndInv, MarkNextCut
    PROVE  IndInv'
<1> USE DEF MarkNextCut
<1>1. StorageOK' /\ PeersOK' /\ seen' \in [Nodes -> Nat]
  BY DEF IndInv, TypeOK, StorageOK, PeersOK, ZNodesOK
<1>2. \A x \in Nodes : Unread(x)' \subseteq Unread(x)
  BY DEF Unread
<1>3. MessagesOK' /\ InFlight' = InFlight
  BY OtherMessages DEF IndInv, TypeOK, MetaLogsMsg
<1>4. SequencerOK
  BY DEF IndInv, TypeOK
<1> DEFINE c == [s \in seq.dirty |->
                  [from |-> seq.last_cut[s], upto |-> ReplicatedPosition(seq.progress, s) - 1]]
<1>5. seq' = [seq EXCEPT !.dirty = {}, !.position = @ + 1,
                         !.last_cut = [s \in Shards |->
                            IF s \in seq.dirty THEN c[s].upto + 1 ELSE @[s]]]
  OBVIOUS
<1> HIDE DEF c
<1>6. /\ DOMAIN seq' = DOMAIN seq /\ seq'.view = seq.view /\ seq'.occupation = seq.occupation
      /\ seq'.unblocked = seq.unblocked /\ seq'.dirty = {}
  BY <1>4, <1>5 DEF SequencerOK
<1>7. /\ DOMAIN seq'.last_cut = Shards
      /\ \A s \in Shards : s \notin seq.dirty => seq'.last_cut[s] = seq.last_cut[s]
  BY <1>4, <1>5 DEF SequencerOK
<1>8. SequencerOK'
  BY <1>4, <1>6, <1>7 DEF SequencerOK
<1>9. \A s \in Shards : s \notin seq.unblocked => seq'.last_cut[s] = seq.last_cut[s]
  BY <1>4, <1>7 DEF SequencerOK
<1> QED
  BY <1>1, <1>2, <1>3, <1>6, <1>8, <1>9, QuietNodes

\* A peer forgets an engine that is not alive.
LEMMA RemoveEngineStep ==
    ASSUME IndInv, NEW n \in Peers, NEW e \in Engines, RemoveEngineNode(n, e)
    PROVE  IndInv'
<1> USE DEF RemoveEngineNode
<1>1. SequencerOK' /\ StorageOK' /\ seen' \in [Nodes -> Nat]
  BY DEF IndInv, TypeOK, SequencerOK, StorageOK, ZNodesOK
<1>2. \A x \in Nodes : Unread(x)' \subseteq Unread(x)
  BY DEF Unread
<1>3. MessagesOK' /\ InFlight' = InFlight
  BY OtherMessages DEF IndInv, TypeOK
<1>4. PeersOK
  BY DEF IndInv, TypeOK
<1>5. /\ PeersOK'
      /\ \A x \in Peers : peer'[x].view = peer[x].view
      /\ \A f \in Engines, x \in Peers : f # e /\ f \in peer[x].engines => f \in peer'[x].engines
  BY <1>4 DEF PeersOK
<1> QED
  BY <1>1, <1>2, <1>3, <1>5, QuietNodes

-----------------------------------------------------------------------------
(* Nodes that enter a view. *)

\* A node enters a view that no registration it has answered belongs to.
LEMMA EnterStep ==
    ASSUME IndInv, UNCHANGED <<ctrl, znodes, shardReq, shardResp, engine, msgs>>,
           seen' \in [Nodes -> Nat], \A x \in Nodes : Unread(x)' \subseteq Unread(x),
           SequencerOK', StorageOK', PeersOK',
           seq' = seq \/ (seq.view < seq'.view /\ Ahead(Sequencer, seq.view)'),
           \A n \in StorageNodes :
               \/ storage'[n] = storage[n]
               \/ storage[n].view < storage'[n].view /\ Ahead(n, storage[n].view)',
           \A n \in Peers :
               \/ peer'[n] = peer[n]
               \/ peer[n].view < peer'[n].view /\ Ahead(n, peer[n].view)'
    PROVE  IndInv'
<1>1. TypeOK'
  BY DEF IndInv, TypeOK, ControllerOK, ZNodesOK, EnginesOK, MessagesOK
<1>2. ViewsInv'
  BY ViewsFrame DEF IndInv
<1>3. InFlight' = InFlight /\ \A e \in Engines : Alive(e)' = Alive(e)
  BY DEF InFlight, Alive
<1>4. \A e, v : /\ Of(e, v)' = Of(e, v) /\ Unblocking(e, v)' = Unblocking(e, v)
                /\ Granted(e, v)' = Granted(e, v)
  BY <1>3 DEF Of, Unblocking, Granted
<1>5. \A e \in Engines, v \in Views, s \in Shards : Claims(e, v, s)' => Claims(e, v, s)
  BY <1>4 DEF Claims
<1>6. ClaimInv'
  BY <1>3, <1>5, ClaimFrame DEF IndInv, TypeOK, ControllerOK
<1>7. HolderInv'
  BY DEF IndInv, HolderInv
<1>8. RequestInv'
  BY <1>3, <1>5, RequestFrame DEF IndInv, TypeOK, RequestInv, ZNodesOK
<1>9. Stages'
  <2> SUFFICES ASSUME NEW e \in Engines, Alive(e)', NEW v \in Views
               PROVE  StageInv(e, v)'
    BY DEF Stages
  <2>1. StageInv(e, v)
    BY <1>3 DEF IndInv, Stages
  <2> QED
    BY <1>4, <2>1, StageFrame
<1>10. ASSUME ~LateMessages PROVE Knowledge'
  <2>1. Knowledge
    BY <1>10 DEF IndInv
  <2>2. NoLate'
    BY <1>3, <2>1 DEF Knowledge, NoLate
  <2>3. ASSUME NEW e \in Engines, Alive(e)', NEW v \in Views, NEW s \in Shards, Claims(e, v, s)'
        PROVE  KnownInv(e, v, s)'
    <3>1. KnownInv(e, v, s) /\ StageInv(e, v)
      BY <1>3, <1>5, <2>1, <2>3 DEF Knowledge, IndInv, Stages
    <3>2. /\ v \in Int /\ seq.view \in Int /\ seq'.view \in Int
          /\ \A n \in StorageNodes : storage[n].view \in Int /\ storage'[n].view \in Int
          /\ \A n \in Peers : peer[n].view \in Int /\ peer'[n].view \in Int
      BY DEF IndInv, TypeOK, SequencerOK, StorageOK, PeersOK, Views
    <3>3. engine[e].shards[v] = s \/ Unblocking(e, v) # {} => engine[e].conn[v].sequencer_set
      <4>1. s # None
        BY RegistrationAssumption DEF Shards
      <4> QED
        BY <3>1, <4>1 DEF StageInv, Unblocking
    <3>4. seq.view < seq'.view /\ seq'.view = v =>
            /\ ~engine[e].conn[v].sequencer_set
            /\ ~\E m \in Of(e, v) : m.type = "SEQUENCER_OK"
      BY <3>1, <3>2 DEF KnownInv
    <3>5. \A n \in StorageNodes :
            n \in engine[e].conn[v].nodes \/ (\E m \in Of(e, v) : m.from = n) =>
              /\ v <= storage'[n].view
              /\ storage'[n].view = v => storage'[n].occupation[s] = e
      BY <3>1, <3>2 DEF KnownInv
    <3>6. \A n \in Peers :
            n \in engine[e].conn[v].nodes \/ (\E m \in Of(e, v) : m.from = n) =>
              v <= peer'[n].view /\ (peer'[n].view = v => e \in peer'[n].engines)
      BY <3>1, <3>2 DEF KnownInv
    <3>7. engine[e].conn[v].sequencer_set \/ (\E m \in Of(e, v) : m.type = "SEQUENCER_OK") =>
            v <= seq'.view
      BY <3>1, <3>2 DEF KnownInv
    <3>8. seq'.view = v =>
         /\ engine[e].shards[v] = s \/ Unblocking(e, v) # {} =>
              seq'.occupation[s] = e /\ s \in seq'.unblocked
         /\ \A m \in Of(e, v) : m.type = "SEQUENCER_OK" =>
              s \notin seq'.unblocked /\ m.start = seq'.last_cut[s]
         /\ (/\ engine[e].view = v /\ engine[e].conn[v].sequencer_set
             /\ engine[e].shards[v] = None /\ Unblocking(e, v) = {}) =>
              s \notin seq'.unblocked /\ seq'.last_cut[s] = engine[e].conn[v].local_start
      BY <3>1, <3>3, <3>4 DEF KnownInv
    <3> QED
      BY <1>4, <3>1, <3>5, <3>6, <3>7, <3>8 DEF KnownInv
  <2> QED
    BY <2>2, <2>3 DEF Knowledge
<1> QED
  BY <1>1, <1>2, <1>6, <1>7, <1>8, <1>9, <1>10 DEF IndInv

\* OnViewCreated of the sequencer: a new primary, with the old occupation.
LEMMA SequencerCreatedStep ==
    ASSUME IndInv, SequencerOnViewCreated
    PROVE  IndInv'
<1> USE DEF SequencerOnViewCreated
<1>1. Sequencer \in Nodes /\ NextZNode(Sequencer, "new")
  BY DEF Nodes
<1>2. PICK w \in Views : w = NextView(Sequencer) /\ Ahead(Sequencer, w)'
  BY <1>1, NextViewFacts DEF IndInv, TypeOK
<1>3. /\ seen' \in [Nodes -> Nat] /\ \A x \in Nodes : Unread(x)' \subseteq Unread(x)
      /\ seq.view < w
  BY <1>1, <1>2, NextViewFacts DEF IndInv, TypeOK, ViewsInv
<1>4. seq' = NewPrimary(w, seq.occupation)
  BY <1>2
<1>5. seq'.view = w /\ SequencerOK'
  BY <1>4 DEF IndInv, TypeOK, SequencerOK, NewPrimary, Views
<1>6. Ahead(Sequencer, seq.view)'
  BY <1>2, <1>5 DEF Ahead
<1>7. StorageOK' /\ PeersOK'
  BY DEF IndInv, TypeOK, StorageOK, PeersOK
<1> QED
  BY <1>3, <1>5, <1>6, <1>7, EnterStep

\* OnViewCreated of a storage node.
LEMMA StorageCreatedStep ==
    ASSUME IndInv, NEW n \in StorageNodes, StorageOnViewCreated(n)
    PROVE  IndInv'
<1> USE DEF StorageOnViewCreated
<1>1. n \in Nodes /\ NextZNode(n, "new")
  BY DEF Nodes
<1>2. PICK w \in Views : w = NextView(n) /\ Ahead(n, w)'
  BY <1>1, NextViewFacts DEF IndInv, TypeOK
<1>3. /\ seen' \in [Nodes -> Nat] /\ \A x \in Nodes : Unread(x)' \subseteq Unread(x)
      /\ storage[n].view < w
  BY <1>1, <1>2, NextViewFacts DEF IndInv, TypeOK, ViewsInv
<1>4. StorageOK
  BY DEF IndInv, TypeOK
<1>5. /\ DOMAIN storage' = StorageNodes
      /\ storage'[n] = NewLogStorage(w, storage[n].occupation)
      /\ \A x \in StorageNodes : x # n => storage'[x] = storage[x]
  BY <1>2, <1>4 DEF StorageOK
<1>6. storage'[n].view = w /\ StorageOK'
  BY <1>4, <1>5 DEF StorageOK, NewLogStorage, Views
<1>7. Ahead(n, storage[n].view)'
  BY <1>2, <1>6 DEF Ahead
<1>8. SequencerOK' /\ PeersOK'
  BY DEF IndInv, TypeOK, SequencerOK, PeersOK
<1> QED
  BY <1>3, <1>5, <1>6, <1>7, <1>8, EnterStep

\* OnViewCreated of an index node or an aggregator.
LEMMA PeerCreatedStep ==
    ASSUME IndInv, NEW n \in Peers, IndexerOnViewCreated(n) \/ AggregatorOnViewCreated(n)
    PROVE  IndInv'
<1> USE DEF IndexerOnViewCreated, AggregatorOnViewCreated
<1>1. n \in Nodes /\ NextZNode(n, "new")
  BY DEF Nodes
<1>2. PICK w \in Views : w = NextView(n) /\ Ahead(n, w)'
  BY <1>1, NextViewFacts DEF IndInv, TypeOK
<1>3. /\ seen' \in [Nodes -> Nat] /\ \A x \in Nodes : Unread(x)' \subseteq Unread(x)
      /\ peer[n].view < w
  BY <1>1, <1>2, NextViewFacts DEF IndInv, TypeOK, ViewsInv
<1>4. PeersOK
  BY DEF IndInv, TypeOK
<1>5. /\ peer'[n].view = w /\ PeersOK'
      /\ \A x \in Peers : x # n => peer'[x] = peer[x]
  BY <1>2, <1>4 DEF PeersOK, Views
<1>6. Ahead(n, peer[n].view)'
  BY <1>2, <1>5 DEF Ahead
<1>7. SequencerOK' /\ StorageOK'
  BY DEF IndInv, TypeOK, SequencerOK, StorageOK
<1> QED
  BY <1>3, <1>5, <1>6, <1>7, EnterStep

-----------------------------------------------------------------------------
(* The controller publishes znodes. *)

\* A znode is published behind the others.
LEMMA PublishFacts ==
    ASSUME ZNodesOK, NEW type \in {"new", "freeze", "finalize"}, NEW w \in Views,
           Publish(type, w), UNCHANGED <<seen, shardReq, shardResp>>
    PROVE  /\ ZNodesOK' /\ Len(znodes) \in Nat /\ Len(znodes') = Len(znodes) + 1
           /\ \A i \in 1 .. Len(znodes) : znodes'[i] = znodes[i]
           /\ znodes'[Len(znodes) + 1] = [type |-> type, view |-> w]
           /\ \A n \in Nodes : \A i \in Unread(n)' :
                \/ i \in Unread(n) /\ i \in 1 .. Len(znodes)
                \/ i = Len(znodes) + 1 /\ type = "new"
<1> DEFINE Z == [type : {"new", "freeze", "finalize"}, view : Views]
           z == [type |-> type, view |-> w]
<1>1. z \in Z /\ znodes \in Seq(Z) /\ znodes' = Append(znodes, z)
  BY DEF ZNodesOK, Publish
<1>2. z.type = type
  OBVIOUS
<1> HIDE DEF Z, z
<1>3. /\ znodes' \in Seq(Z) /\ Len(znodes) \in Nat /\ Len(znodes') = Len(znodes) + 1
      /\ \A i \in 1 .. Len(znodes) : znodes'[i] = znodes[i]
      /\ znodes'[Len(znodes) + 1] = z
  BY <1>1
<1>4. ZNodesOK'
  BY <1>3 DEF ZNodesOK, Z
<1>5. \A n \in Nodes : seen[n] \in Nat
  BY DEF ZNodesOK
<1>6. ASSUME NEW n \in Nodes, NEW i \in Unread(n)'
      PROVE  \/ i \in Unread(n) /\ i \in 1 .. Len(znodes)
             \/ i = Len(znodes) + 1 /\ type = "new"
  <2>1. i \in seen[n] + 1 .. Len(znodes') /\ znodes'[i].type = "new"
    BY <1>6 DEF Unread
  <2>2. CASE i = Len(znodes) + 1
    BY <1>2, <1>3, <2>1, <2>2
  <2>3. CASE i # Len(znodes) + 1
    <3>1. i \in 1 .. Len(znodes) /\ i \in seen[n] + 1 .. Len(znodes)
      BY <1>3, <1>5, <2>1, <2>3
    <3> QED
      BY <1>3, <2>1, <3>1 DEF Unread
  <2> QED
    BY <2>2, <2>3
<1> QED
  BY <1>3, <1>4, <1>6 DEF z

\* What is ahead of a view stays ahead: a new view is a later one.
LEMMA AheadPublish ==
    ASSUME ZNodesOK, ControllerOK, NEW type \in {"new", "freeze", "finalize"}, NEW w \in Views,
           Publish(type, w), UNCHANGED <<seen, shardReq, shardResp>>,
           type = "new" => w > ctrl.view,
           ctrl'.view \in Int, ctrl.view <= ctrl'.view,
           NEW n \in Nodes, NEW x \in Int, Ahead(n, x)
    PROVE  Ahead(n, x)'
<1>1. ctrl.view \in Int /\ w \in Int
  BY DEF ControllerOK, Views
<1>2. x <= ctrl'.view
  BY <1>1 DEF Ahead
<1>3. ASSUME NEW i \in Unread(n)' PROVE znodes'[i].view > x
  <2>1. CASE i \in Unread(n) /\ i \in 1 .. Len(znodes)
    BY <2>1, PublishFacts DEF Ahead
  <2>2. CASE i = Len(znodes) + 1 /\ type = "new"
    <3>1. znodes'[Len(znodes) + 1] = [type |-> type, view |-> w]
      BY PublishFacts
    <3>2. znodes'[i].view = w
      BY <2>2, <3>1
    <3> QED
      BY <1>1, <2>2, <3>2 DEF Ahead
  <2> QED
    BY <2>1, <2>2, PublishFacts
<1> QED
  BY <1>2, <1>3 DEF Ahead

\* Only the controller's own part of the invariant is at stake.
LEMMA ControllerFrame ==
    ASSUME IndInv, UNCHANGED <<seen, shardReq, shardResp, seq, storage, peer, engine, msgs>>,
           ctrl'.online = ctrl.online, ControllerOK', ZNodesOK',
           ViewsInv', HolderInv', ClaimInv'
    PROVE  IndInv'
<1>1. TypeOK'
  BY DEF IndInv, TypeOK, SequencerOK, StorageOK, PeersOK, EnginesOK, MessagesOK
<1>2. InFlight' = InFlight /\ \A e \in Engines : Alive(e)' = Alive(e)
  BY DEF InFlight, Alive
<1>3. \A e, v : /\ Of(e, v)' = Of(e, v) /\ Unblocking(e, v)' = Unblocking(e, v)
                /\ Granted(e, v)' = Granted(e, v)
  BY <1>2 DEF Of, Unblocking, Granted
<1>4. \A e \in Engines, v \in Views, s \in Shards : Claims(e, v, s)' => Claims(e, v, s)
  BY <1>3 DEF Claims
<1>5. RequestInv'
  BY <1>2, <1>4, RequestFrame DEF IndInv, TypeOK, RequestInv, ZNodesOK
<1>6. Stages'
  <2> SUFFICES ASSUME NEW e \in Engines, Alive(e)', NEW v \in Views
               PROVE  StageInv(e, v)'
    BY DEF Stages
  <2>1. StageInv(e, v)
    BY <1>2 DEF IndInv, Stages
  <2> QED
    BY <1>3, <2>1, StageFrame
<1>7. ASSUME ~LateMessages PROVE Knowledge'
  <2>1. Knowledge
    BY <1>7 DEF IndInv
  <2>2. NoLate'
    BY <1>2, <2>1 DEF Knowledge, NoLate
  <2>3. ASSUME NEW e \in Engines, Alive(e)', NEW v \in Views, NEW s \in Shards, Claims(e, v, s)'
        PROVE  KnownInv(e, v, s)'
    <3>1. KnownInv(e, v, s)
      BY <1>2, <1>4, <2>1, <2>3 DEF Knowledge
    <3> QED
      BY <1>3, <3>1, KnownFrame
  <2> QED
    BY <2>2, <2>3 DEF Knowledge
<1> QED
  BY <1>1, <1>5, <1>6, <1>7 DEF IndInv

\* Views and claims when a znode is published.
LEMMA PublishStep ==
    ASSUME IndInv, NEW type \in {"new", "freeze", "finalize"}, NEW w \in Views,
           Publish(type, w), ControllerOK', ctrl'.online = ctrl.online,
           UNCHANGED <<seen, shardReq, shardResp, seq, storage, peer, engine, msgs>>,
           ctrl'.state # "created", ctrl'.view >= 0,
           ctrl'.state \in {"reconfiguring", "frozen"} => ctrl'.view < MaxView,
           \/ type # "new" /\ w = ctrl.view /\ ctrl'.view = ctrl.view
              /\ ctrl'.occupied = ctrl.occupied /\ ctrl'.holder = ctrl.holder
           \/ type = "new" /\ w = ctrl.view + 1 /\ ctrl'.view = w
              /\ ctrl'.occupied = {} /\ ctrl'.holder = [e \in Engines |-> None]
    PROVE  IndInv'
<1>1. /\ ZNodesOK /\ ControllerOK /\ ViewsInv /\ ClaimInv /\ TypeOK
      /\ ctrl.view \in Int /\ ctrl'.view \in Int /\ w \in Int /\ ctrl.view <= ctrl'.view
      /\ type = "new" => w > ctrl.view
  BY DEF IndInv, TypeOK, ControllerOK, Views
<1>2. /\ ZNodesOK' /\ Len(znodes) \in Nat /\ Len(znodes') = Len(znodes) + 1
      /\ \A i \in 1 .. Len(znodes) : znodes'[i] = znodes[i]
      /\ znodes'[Len(znodes) + 1] = [type |-> type, view |-> w]
  BY <1>1, PublishFacts
<1>3. \A n \in Nodes, x \in Int : Ahead(n, x) => Ahead(n, x)'
  BY <1>1, AheadPublish
<1>4. ViewsInv'
  <2>1. /\ Ahead(Sequencer, seq.view) /\ Sequencer \in Nodes /\ seq.view \in Int
        /\ \A n \in StorageNodes : Ahead(n, storage[n].view) /\ n \in Nodes /\ storage[n].view \in Int
        /\ \A n \in Peers : Ahead(n, peer[n].view) /\ n \in Nodes /\ peer[n].view \in Int
    BY <1>1 DEF ViewsInv, Nodes, TypeOK, SequencerOK, StorageOK, PeersOK
  <2>2. \A e \in Engines : Ahead(e, engine[e].view) /\ e \in Nodes /\ engine[e].view \in Int
    BY <1>1 DEF ViewsInv, Nodes, TypeOK, EnginesOK, EngineOK
  <2>3. \A r \in shardReq \cup shardResp :
            Ahead(r.engine, r.view) /\ r.engine \in Nodes /\ r.view \in Int
    BY <1>1 DEF ViewsInv, Nodes, TypeOK, ZNodesOK, Views
  <2>4. Ahead(Sequencer, seq.view)'
    BY <1>3, <2>1
  <2>5. \A n \in StorageNodes : Ahead(n, storage[n].view)'
    BY <1>3, <2>1
  <2>6. \A n \in Peers : Ahead(n, peer[n].view)'
    BY <1>3, <2>1
  <2>7. \A e \in Engines : Ahead(e, engine[e].view)'
    BY <1>3, <2>2
  <2>8. \A r \in shardReq' \cup shardResp' : Ahead(r.engine, r.view)'
    BY <1>3, <2>3
  <2>9. \A i \in 1 .. Len(znodes) : znodes[i].view \in Int /\ znodes[i].view <= ctrl.view
    <3> DEFINE Z == [type : {"new", "freeze", "finalize"}, view : Views]
    <3>1. znodes \in Seq(Z) /\ \A z \in Z : z.view \in Int
      BY <1>1 DEF ZNodesOK, Views
    <3> HIDE DEF Z
    <3>2. \A i \in 1 .. Len(znodes) : znodes[i] \in Z
      BY <3>1
    <3> QED
      BY <1>1, <3>1, <3>2 DEF ViewsInv
  <2>10. \A i \in 1 .. Len(znodes') : znodes'[i].view <= ctrl'.view
    BY <1>1, <1>2, <2>9
  <2>11. \A i, j \in 1 .. Len(znodes') :
           i < j /\ znodes'[i].type = "new" /\ znodes'[j].type = "new" =>
             znodes'[i].view < znodes'[j].view
    <3> SUFFICES ASSUME NEW i \in 1 .. Len(znodes'), NEW j \in 1 .. Len(znodes'), i < j,
                        znodes'[i].type = "new", znodes'[j].type = "new"
                 PROVE  znodes'[i].view < znodes'[j].view
      OBVIOUS
    <3>1. i \in 1 .. Len(znodes)
      BY <1>2
    <3>2. CASE j \in 1 .. Len(znodes)
      BY <1>1, <1>2, <3>1, <3>2 DEF ViewsInv
    <3>3. CASE j = Len(znodes) + 1
      <4>1. type = "new" /\ znodes'[j].view = w
        BY <1>2, <3>3
      <4> QED
        BY <1>1, <1>2, <2>9, <3>1, <4>1
    <3> QED
      BY <1>2, <3>2, <3>3
  <2> QED
    BY <2>4, <2>5, <2>6, <2>7, <2>8, <2>10, <2>11 DEF ViewsInv
<1>5. HolderInv'
  BY DEF IndInv, HolderInv
<1>6. ClaimInv'
  <2>1. \A e \in Engines : Alive(e)' = Alive(e)
    BY DEF Alive
  <2>2. \A e \in Engines, v \in Views, s \in Shards : Claims(e, v, s)' = Claims(e, v, s)
    BY DEF Claims, Of, InFlight, Granted
  <2>3. \A e \in Engines, v \in Views, s \in Shards : Claims(e, v, s) => Ahead(e, v)'
    <3>1. \A e \in Engines : e \in Nodes
      BY DEF Nodes
    <3>2. \A v \in Views : v \in Int
      BY DEF Views
    <3> QED
      BY <1>1, <1>3, <3>1, <3>2 DEF ClaimInv
  <2>4. \A e \in ctrl'.online, v \in Views, s \in Shards :
          v = ctrl'.view /\ Claims(e, v, s) =>
             s \in ctrl'.occupied /\ \A f \in Engines : ctrl'.holder[f] = s => f = e
    <3>1. CASE type # "new"
      BY <1>1, <3>1 DEF ClaimInv
    <3>2. CASE type = "new"
      <4>1. \A e \in ctrl.online, v \in Views, s \in Shards : Claims(e, v, s) => v <= ctrl.view
        BY <1>1 DEF ClaimInv, Ahead, ControllerOK
      <4> QED
        BY <1>1, <3>2, <4>1
    <3> QED
      BY <3>1, <3>2
  <2>5. ctrl.online \subseteq Engines
    BY <1>1 DEF ControllerOK
  <2> QED
    BY <1>1, <2>1, <2>2, <2>3, <2>4, <2>5 DEF ClaimInv
<1> QED
  BY <1>2, <1>4, <1>5, <1>6, ControllerFrame

\* The commands of the controller and the seal of a view.
LEMMA ControllerStep ==
    ASSUME IndInv, StartCommandHandler \/ ReconfigCommandHandler
                   \/ OnFreezeZNodeCreated \/ OnFinalizePublished
    PROVE  IndInv'
<1>1. /\ ControllerOK /\ ctrl.view \in Int /\ MaxView \in Nat
      /\ ctrl.state = "created" => ctrl.view = -1
      /\ ctrl.state # "created" => ctrl.view >= 0
      /\ ctrl.state \in {"reconfiguring", "frozen"} => ctrl.view < MaxView
  BY RegistrationAssumption DEF IndInv, TypeOK, ControllerOK, ViewsInv
<1>2. UNCHANGED <<seen, shardReq, shardResp, seq, storage, peer, engine, msgs>>
  BY DEF StartCommandHandler, ReconfigCommandHandler, OnFreezeZNodeCreated, OnFinalizePublished
<1>3. CASE /\ ctrl.state = "normal" /\ ctrl.view < MaxView /\ Publish("freeze", ctrl.view)
           /\ ctrl' = [ctrl EXCEPT !.state = "reconfiguring"]
  <2>1. /\ ControllerOK' /\ ctrl'.online = ctrl.online /\ ctrl'.state = "reconfiguring"
        /\ ctrl'.view = ctrl.view /\ ctrl'.occupied = ctrl.occupied /\ ctrl'.holder = ctrl.holder
    BY <1>1, <1>3 DEF ControllerOK
  <2>2. ctrl.view \in Views
    BY <1>1, <1>3 DEF Views
  <2> QED
    BY <1>1, <1>2, <1>3, <2>1, <2>2, PublishStep
<1>4. CASE /\ ctrl.state \in {"created", "frozen"} /\ InstallNewView(ctrl.view + 1)
  <2>1. /\ ControllerOK' /\ ctrl'.online = ctrl.online /\ ctrl'.state = "normal"
        /\ ctrl'.view = ctrl.view + 1 /\ ctrl'.occupied = {}
        /\ ctrl'.holder = [e \in Engines |-> None]
    BY <1>1, <1>4 DEF ControllerOK, InstallNewView
  <2>2. ctrl.view + 1 \in Views /\ Publish("new", ctrl.view + 1)
    BY <1>1, <1>4 DEF Views, InstallNewView
  <2>3. PICK w \in Views : w = ctrl.view + 1
    BY <2>2
  <2>4. ctrl'.view >= 0 /\ Publish("new", w)
    BY <1>1, <1>4, <2>1, <2>2, <2>3
  <2> QED
    BY <1>2, <2>1, <2>3, <2>4, PublishStep
<1>5. CASE /\ ctrl.state = "reconfiguring" /\ Publish("finalize", ctrl.view)
           /\ ctrl' = [ctrl EXCEPT !.state = "frozen"]
  <2>1. /\ ControllerOK' /\ ctrl'.online = ctrl.online /\ ctrl'.state = "frozen"
        /\ ctrl'.view = ctrl.view /\ ctrl'.occupied = ctrl.occupied /\ ctrl'.holder = ctrl.holder
    BY <1>1, <1>5 DEF ControllerOK
  <2>2. ctrl.view \in Views
    BY <1>1, <1>5 DEF Views
  <2> QED
    BY <1>1, <1>2, <1>5, <2>1, <2>2, PublishStep
<1> QED
  BY <1>3, <1>4, <1>5
     DEF StartCommandHandler, ReconfigCommandHandler, OnFreezeZNodeCreated, OnFinalizePublished,
         ReconfigView

-----------------------------------------------------------------------------
(* Messages that are lost or refused, and engines that crash. *)

\* A step that only takes messages of registrations away.  An engine that is
\* about to be active does not lose the answer that makes it so.
LEMMA LossStep ==
    ASSUME IndInv, TypeOK', UNCHANGED <<ctrl, znodes, seen, shardResp, seq, storage, peer>>,
           shardReq' \subseteq shardReq, InFlight' \subseteq InFlight,
           \A e \in Engines :
               /\ Alive(e)' => Alive(e)
               /\ engine'[e].view = engine[e].view /\ engine'[e].shards = engine[e].shards
               /\ engine'[e].conn = engine[e].conn,
           \A r \in shardReq' : Alive(r.engine)',
           \A m \in InFlight :
               m.type = "UNBLOCK" /\ m.to = m.engine /\ Alive(m.engine)'
                   /\ m.view = engine[m.engine].view => m \in InFlight'
    PROVE  IndInv'
<1>1. \A x \in Nodes : Unread(x)' \subseteq Unread(x)
  BY DEF Unread
<1>2. ViewsInv'
  BY <1>1, ViewsFrame DEF IndInv
<1>3. \A e, v : Of(e, v)' \subseteq Of(e, v) /\ Granted(e, v)' = Granted(e, v)
  BY DEF Of, Granted
<1>4. \A e \in Engines, v \in Views, s \in Shards : Claims(e, v, s)' => Claims(e, v, s)
  BY <1>3 DEF Claims
<1>5. ClaimInv'
  BY <1>1, <1>4, ClaimFrame DEF IndInv, TypeOK, ControllerOK
<1>6. HolderInv'
  BY DEF IndInv, HolderInv
<1>7. \A r \in shardReq : r.engine \in Engines
  BY DEF IndInv, TypeOK, ZNodesOK
<1>8. RequestInv'
  BY <1>4, <1>7, RequestFrame DEF IndInv, TypeOK
<1>9. Stages'
  <2> SUFFICES ASSUME NEW e \in Engines, Alive(e)', NEW v \in Views
               PROVE  StageInv(e, v)'
    BY DEF Stages
  <2>1. StageInv(e, v)
    BY DEF IndInv, Stages
  <2> QED
    BY <1>3, <2>1, StageFrame
<1>10. ASSUME ~LateMessages PROVE Knowledge'
  <2>1. Knowledge
    BY <1>10 DEF IndInv
  <2>2. NoLate'
    BY <2>1 DEF Knowledge, NoLate
  <2>3. ASSUME NEW e \in Engines, Alive(e)', NEW v \in Views, NEW s \in Shards, Claims(e, v, s)'
        PROVE  KnownInv(e, v, s)'
    <3>1. KnownInv(e, v, s)
      BY <1>4, <2>1, <2>3 DEF Knowledge
    <3>2. engine[e].view = v => Unblocking(e, v)' = Unblocking(e, v)
      BY <2>3 DEF Unblocking, Of
    <3> QED
      BY <1>3, <3>1, <3>2, KnownFrame
  <2> QED
    BY <2>2, <2>3 DEF Knowledge
<1> QED
  BY <1>2, <1>5, <1>6, <1>8, <1>9, <1>10 DEF IndInv

\* What a node receives is a request, and what it answers.
LEMMA RequestFacts ==
    ASSUME IndInv, NEW m \in msgs, m.op = "REGISTER", m.to \notin Engines
    PROVE  /\ m \in InFlight /\ IsRequest(m) /\ m.engine \in Engines
           /\ m.view \in Views /\ m.shard \in Shards /\ m.engine # m.to
           /\ Claims(m.engine, m.view, m.shard)
<1>1. RegisterOK(m)
  BY DEF IndInv, TypeOK, MessagesOK
<1>2. IsRequest(m) /\ m.engine \in Engines /\ m.view \in Views /\ m.shard \in Shards
  BY <1>1 DEF RegisterOK, IsAnswer, IsRequest
<1>3. m \in InFlight
  BY <1>2 DEF InFlight, Failures, IsRequest
<1> QED
  BY <1>2, <1>3 DEF Claims, Of

\* Everything but messages of registrations stays as it is.
LEMMA MessagesStep ==
    ASSUME IndInv, MessagesOK',
           UNCHANGED <<ctrl, znodes, seen, shardReq, shardResp, seq, storage, peer, engine>>,
           InFlight' \subseteq InFlight,
           \A m \in InFlight : m.type = "UNBLOCK" /\ m.to = m.engine
                               /\ m.view = engine[m.engine].view => m \in InFlight'
    PROVE  IndInv'
<1>1. TypeOK'
  BY DEF IndInv, TypeOK, ControllerOK, ZNodesOK, SequencerOK, StorageOK, PeersOK, EnginesOK
<1>2. \A e \in Engines : Alive(e)' = Alive(e)
  BY DEF Alive
<1>3. \A r \in shardReq' : Alive(r.engine)'
  BY <1>2 DEF IndInv, RequestInv, TypeOK, ZNodesOK
<1> QED
  BY <1>1, <1>2, <1>3, LossStep

\* The answer to a request is well-formed.
LEMMA AnswerFacts ==
    ASSUME IndInv, NEW m \in msgs, m.op = "REGISTER", m.to \notin Engines,
           NEW type, NEW view, NEW start
    PROVE  LET a == Answer(m, type, view, start) IN
           /\ a.op = "REGISTER" /\ a.type = type /\ a.view = view /\ a.shard = m.shard
           /\ a.engine = m.engine /\ a.start = start /\ a.from = m.to /\ a.to = m.from
           /\ a.to = a.engine
  BY RequestFacts DEF Answer, RegisterMsg, IsRequest

\* A request that is refused.
LEMMA RefusalStep ==
    ASSUME IndInv, NEW m \in msgs, m.op = "REGISTER", m.to \notin Engines,
           UNCHANGED <<ctrl, znodes, seen, shardReq, shardResp, seq, storage, peer, engine>>,
           NEW type, NEW view \in Views, NEW start,
           \/ m.to = Sequencer /\ type = "SEQUENCER_FAILED"
           \/ m.to \in StorageNodes /\ type = "STORAGE_FAILED"
           \/ m.to \in Peers /\ type \in {"INDEX_FAILED", "AGGREGATOR_FAILED"},
           msgs' = Received(m) \/ msgs' = Received(m) \cup {Answer(m, type, view, start)}
    PROVE  IndInv'
<1> DEFINE a == Answer(m, type, view, start)
<1>1. /\ a.op = "REGISTER" /\ a.type = type /\ a.view = view /\ a.shard = m.shard
      /\ a.engine = m.engine /\ a.from = m.to /\ a.to = m.from /\ a.to = a.engine
  BY AnswerFacts
<1>2. /\ m \in InFlight /\ m.engine \in Engines /\ m.shard \in Shards /\ m.engine # m.to
  BY RequestFacts
<1> HIDE DEF a
<1>3. IsAnswer(a)
  BY <1>1, <1>2 DEF IsAnswer
<1>4. RegisterOK(a) /\ type \in Failures
  BY <1>1, <1>2, <1>3 DEF RegisterOK, Failures
<1>5. msgs' = msgs \ {m} \/ msgs' = (msgs \ {m}) \cup {a}
  BY DEF Received, a
<1>6. MessagesOK'
  BY <1>4, <1>5 DEF IndInv, TypeOK, MessagesOK
<1>7. InFlight' = InFlight \ {m}
  BY <1>1, <1>4, <1>5 DEF InFlight
<1> QED
  BY <1>2, <1>6, <1>7, MessagesStep

\* An engine forgets refusals and answers of another view.
LEMMA RegistrationFailedStep ==
    ASSUME IndInv, NEW e \in Engines, NEW m \in msgs, OnRegistrationFailed(e, m)
    PROVE  IndInv'
<1> USE DEF OnRegistrationFailed, EngineReceives
<1>1. MessagesOK' /\ InFlight' = InFlight \ {m}
  BY DEF Received, InFlight, IndInv, TypeOK, MessagesOK
<1>2. m \in InFlight => ~(/\ m.type = "UNBLOCK" /\ m.to = m.engine
                          /\ m.view = engine[m.engine].view)
  BY DEF InFlight
<1> QED
  BY <1>1, <1>2, MessagesStep

\* An engine process ends.
LEMMA CrashStep ==
    ASSUME IndInv, NEW e \in Engines, Crash(e)
    PROVE  IndInv'
<1> USE DEF Crash
<1>1. EnginesOK /\ EngineOK(engine[e])
  BY DEF IndInv, TypeOK, EnginesOK
<1>2. /\ DOMAIN engine' = Engines /\ engine'[e] = [engine[e] EXCEPT !.up = FALSE]
      /\ \A x \in Engines : x # e => engine'[x] = engine[x]
  BY <1>1 DEF EnginesOK
<1>3. /\ DOMAIN engine'[e] = DOMAIN engine[e] /\ engine'[e].up = FALSE
      /\ engine'[e].failed = engine[e].failed /\ engine'[e].view = engine[e].view
      /\ engine'[e].shards = engine[e].shards /\ engine'[e].conn = engine[e].conn
  BY <1>1, <1>2 DEF EngineOK
<1>4. EngineOK(engine'[e])
  BY <1>1, <1>3 DEF EngineOK
<1>5. EnginesOK'
  BY <1>1, <1>2, <1>4 DEF EnginesOK
<1>6. MessagesOK' /\ InFlight' \subseteq InFlight
  BY DEF InFlight, IndInv, TypeOK, MessagesOK
<1>7. ZNodesOK'
  BY DEF IndInv, TypeOK, ZNodesOK
<1>8. TypeOK'
  BY <1>5, <1>6, <1>7 DEF IndInv, TypeOK, ControllerOK, SequencerOK, StorageOK, PeersOK
<1>9. ~Alive(e)' /\ \A x \in Engines : x # e => Alive(x)' = Alive(x)
  BY <1>2, <1>3 DEF Alive
<1>10. \A x \in Engines :
         /\ Alive(x)' => Alive(x)
         /\ engine'[x].view = engine[x].view /\ engine'[x].shards = engine[x].shards
         /\ engine'[x].conn = engine[x].conn
  BY <1>2, <1>3, <1>9
<1>11. \A r \in shardReq' : Alive(r.engine)'
  BY <1>9 DEF IndInv, RequestInv, TypeOK, ZNodesOK
<1>12. \A m \in InFlight : m.to = m.engine /\ Alive(m.engine)' => m \in InFlight'
  BY <1>9 DEF InFlight
<1> QED
  BY <1>6, <1>8, <1>10, <1>11, <1>12, LossStep

-----------------------------------------------------------------------------
(* Requests that are answered. *)

\* A node takes the request m and leaves the answer a, or nothing, in its place.
Replies(m, a) ==
    /\ a.type \notin Failures
    /\ a.engine = m.engine /\ a.view = m.view /\ a.shard = m.shard
    /\ a.from = m.to /\ a.to = m.from
    /\ \/ m.to = Sequencer /\ m.type = "ENGINE" /\ a.type = "SEQUENCER_OK"
       \/ m.to = Sequencer /\ m.type = "UNBLOCK" /\ a.type = "UNBLOCK"
       \/ m.to \in StorageNodes /\ a.type = "STORAGE_OK"
       \/ m.to \in Peers /\ a.type \in {"INDEX_OK", "AGGREGATOR_OK"}
    /\ \/ InFlight' = InFlight \ {m}
       \/ InFlight' = (InFlight \ {m}) \cup {a}

\* The registration goes on with the same partner.
LEMMA ReplyFacts ==
    ASSUME IndInv, NEW m \in msgs, m.op = "REGISTER", m.to \notin Engines, NEW a, Replies(m, a)
    PROVE  /\ Partner(m) = m.to /\ Partner(a) = m.to /\ m \in Of(m.engine, m.view)
           /\ Of(m.engine, m.view)' \subseteq (Of(m.engine, m.view) \ {m}) \cup {a}
           /\ \A e, v : e # m.engine \/ v # m.view => Of(e, v)' = Of(e, v)
<1>1. m \in InFlight /\ IsRequest(m) /\ m.engine # m.to
  BY RequestFacts
<1>2. m \in Of(m.engine, m.view) /\ Partner(m) = m.to
  BY <1>1 DEF Of, Partner, IsRequest
<1>3. Partner(a) = m.to
  BY <1>1 DEF Partner, Replies, IsRequest
<1>4. Of(m.engine, m.view)' \subseteq (Of(m.engine, m.view) \ {m}) \cup {a}
  BY DEF Of, Replies
<1>5. \A e, v : e # m.engine \/ v # m.view => Of(e, v)' = Of(e, v)
  BY <1>1 DEF Of, Replies
<1> QED
  BY <1>2, <1>3, <1>4, <1>5

\* The stage of a registration after an answer.
LEMMA ReplyStage ==
    ASSUME NEW e \in Engines, NEW v \in Views, StageInv(e, v), UNCHANGED engine,
           NEW m \in Of(e, v), NEW a, Partner(a) = Partner(m),
           Of(e, v)' \subseteq (Of(e, v) \ {m}) \cup {a}, Granted(e, v)' = Granted(e, v),
           a.type = "SEQUENCER_OK" => m.type = "ENGINE" /\ m.to = Sequencer,
           a.type # "SEQUENCER_OK" => ~(m.type = "ENGINE" /\ m.to = Sequencer),
           m.type # "SEQUENCER_OK", a.type # "ENGINE",
           a.type = "UNBLOCK" => m.type = "UNBLOCK"
    PROVE  StageInv(e, v)'
<1> DEFINE c == engine[e].conn[v]
<1>1. \A k, l \in Of(e, v)' : Partner(k) = Partner(l) => k = l
  BY DEF StageInv
<1>2. \A k \in Of(e, v)' : Partner(k) \notin c.nodes
  BY DEF StageInv
<1>3. Granted(e, v) = {}
  BY DEF StageInv
<1>4. \A k \in Of(e, v)' :
        (k.type = "ENGINE" /\ k.to = Sequencer) \/ k.type = "SEQUENCER_OK" => ~c.sequencer_set
  BY DEF StageInv
<1>5. ~c.sequencer_set =>
         /\ c.nodes = {} /\ engine[e].shards[v] = None
         /\ \A k \in Of(e, v)' :
              (k.type = "ENGINE" /\ k.to = Sequencer) \/ k.type = "SEQUENCER_OK"
  BY DEF StageInv
<1>6. engine[e].shards[v] # None \/ (\E k \in Of(e, v)' : k.type = "UNBLOCK") =>
         c.nodes = Servers
  BY DEF StageInv
<1> QED
  BY <1>1, <1>2, <1>3, <1>4, <1>5, <1>6 DEF StageInv

\* All of the invariant but what the nodes know.
LEMMA ReplyStep ==
    ASSUME IndInv, NEW m \in msgs, m.op = "REGISTER", m.to \notin Engines, NEW a, Replies(m, a),
           UNCHANGED <<ctrl, znodes, seen, shardReq, shardResp, engine>>,
           SequencerOK', StorageOK', PeersOK', MessagesOK',
           seq'.view = seq.view, \A n \in StorageNodes : storage'[n].view = storage[n].view,
           \A n \in Peers : peer'[n].view = peer[n].view,
           ASSUME Knowledge, NEW e \in Engines, Alive(e), NEW v \in Views, NEW s \in Shards,
                  Claims(e, v, s), KnownInv(e, v, s), StageInv(e, v)
           PROVE  KnownInv(e, v, s)'
    PROVE  IndInv'
<1>1. TypeOK'
  BY DEF IndInv, TypeOK, ControllerOK, ZNodesOK, EnginesOK
<1>2. \A x \in Nodes : Unread(x)' \subseteq Unread(x)
  BY DEF Unread
<1>3. ViewsInv'
  BY <1>2, ViewsFrame DEF IndInv
<1>4. /\ m \in InFlight /\ IsRequest(m) /\ m.engine \in Engines /\ m.view \in Views
      /\ Claims(m.engine, m.view, m.shard)
  BY RequestFacts
<1>5. \A e \in Engines, v \in Views, s \in Shards : Claims(e, v, s)' => Claims(e, v, s)
  <2>1. \A k \in InFlight' : k \in InFlight \/ Claims(k.engine, k.view, k.shard)
    BY <1>4 DEF Replies
  <2>2. \A e \in Engines, v \in Views, s \in Shards :
               engine'[e].shards[v] = s => Claims(e, v, s)
    BY DEF Claims
  <2> QED
    BY <2>1, <2>2, ClaimsFrom
<1>6. \A e \in Engines : Alive(e)' = Alive(e)
  BY DEF Alive
<1>7. ClaimInv'
  BY <1>2, <1>5, <1>6, ClaimFrame DEF IndInv, TypeOK, ControllerOK
<1>8. HolderInv'
  BY DEF IndInv, HolderInv
<1>9. RequestInv'
  BY <1>5, <1>6, RequestFrame DEF IndInv, TypeOK, RequestInv, ZNodesOK
<1>10. ASSUME NEW e \in Engines, Alive(e)', NEW v \in Views
       PROVE  StageInv(e, v)'
  <2>1. StageInv(e, v) /\ Granted(e, v)' = Granted(e, v)
    BY <1>6, <1>10 DEF IndInv, Stages, Granted
  <2>2. CASE e = m.engine /\ v = m.view
    <3>1. /\ m \in Of(e, v) /\ Partner(a) = Partner(m)
          /\ Of(e, v)' \subseteq (Of(e, v) \ {m}) \cup {a}
      BY <2>2, ReplyFacts
    <3>2. /\ a.type = "SEQUENCER_OK" => m.type = "ENGINE" /\ m.to = Sequencer
          /\ a.type # "SEQUENCER_OK" => ~(m.type = "ENGINE" /\ m.to = Sequencer)
          /\ m.type # "SEQUENCER_OK" /\ a.type # "ENGINE"
          /\ a.type = "UNBLOCK" => m.type = "UNBLOCK"
      BY <1>4, RegistrationAssumption DEF Replies, IsRequest, Servers
    <3> QED
      BY <2>1, <3>1, <3>2, ReplyStage
  <2>3. CASE e # m.engine \/ v # m.view
    <3>1. Of(e, v)' = Of(e, v)
      BY <2>3, ReplyFacts
    <3> QED
      BY <2>1, <3>1, StageFrame
  <2> QED
    BY <2>2, <2>3
<1>11. Stages'
  BY <1>10 DEF Stages
<1>12. ASSUME ~LateMessages PROVE Knowledge'
  <2>1. Knowledge
    BY <1>12 DEF IndInv
  <2>2. NoLate'
    BY <1>4, <2>1, RegistrationAssumption DEF Knowledge, NoLate, Replies
  <2>3. ASSUME NEW e \in Engines, Alive(e)', NEW v \in Views, NEW s \in Shards, Claims(e, v, s)'
        PROVE  KnownInv(e, v, s)'
    <3>1. Alive(e) /\ Claims(e, v, s) /\ KnownInv(e, v, s) /\ StageInv(e, v)
      BY <1>5, <1>6, <2>1, <2>3 DEF Knowledge, IndInv, Stages
    <3> QED
      BY <2>1, <3>1
  <2> QED
    BY <2>2, <2>3 DEF Knowledge
<1> QED
  BY <1>1, <1>3, <1>7, <1>8, <1>9, <1>11, <1>12 DEF IndInv

\* Another engine has no claim on the shard of a request.
LEMMA OneClaimant ==
    ASSUME IndInv, Knowledge, NEW m \in msgs, m.op = "REGISTER", m.to \notin Engines,
           NEW e \in Engines, Alive(e), NEW s \in Shards, Claims(e, m.view, s)
    PROVE  /\ e = m.engine => s = m.shard
           /\ e # m.engine => s # m.shard
<1>1. /\ m \in InFlight /\ IsRequest(m) /\ m.engine \in Engines /\ m.view \in Views
      /\ m.shard \in Shards /\ Claims(m.engine, m.view, m.shard)
  BY RequestFacts
<1>2. m.engine \in ctrl.online /\ e \in ctrl.online
  BY <1>1 DEF Knowledge, NoLate, IsRequest, IndInv, ClaimInv
<1> QED
  BY <1>1, <1>2 DEF IndInv, ClaimInv

\* A storage node registers an engine.
LEMMA StorageRegistrationStep ==
    ASSUME IndInv, NEW n \in StorageNodes, NEW m \in msgs, StorageOnRecvRegistration(n, m)
    PROVE  IndInv'
<1> USE DEF StorageOnRecvRegistration
<1>1. m.op = "REGISTER" /\ m.to = n /\ m.to \notin Engines
  BY RegistrationAssumption
<1>2. StorageOK /\ storage[n].view \in Views
  BY DEF IndInv, TypeOK, StorageOK, Views
<1>3. CASE m.view # storage[n].view
  BY <1>1, <1>2, <1>3, RefusalStep
<1>4. CASE m.view = storage[n].view
  <2> DEFINE a == Answer(m, "STORAGE_OK", m.view, m.start)
  <2>1. /\ m \in InFlight /\ IsRequest(m) /\ m.engine \in Engines /\ m.view \in Views
        /\ m.shard \in Shards
    BY <1>1, RequestFacts
  <2>2. /\ a.op = "REGISTER" /\ a.type = "STORAGE_OK" /\ a.view = m.view /\ a.shard = m.shard
        /\ a.engine = m.engine /\ a.from = m.to /\ a.to = m.from /\ a.to = a.engine
    BY <1>1, AnswerFacts
  <2>3. \/ msgs' = msgs \ {m}
        \/ msgs' = (msgs \ {m}) \cup {a}
    BY <1>4 DEF Received
  <2> HIDE DEF a
  <2>4. RegisterOK(a)
    BY <1>1, <2>1, <2>2 DEF RegisterOK, IsAnswer
  <2>5. MessagesOK'
    BY <2>3, <2>4 DEF IndInv, TypeOK, MessagesOK
  <2>6. Replies(m, a)
    <3>1. a.type \notin Failures
      BY <2>2 DEF Failures
    <3>2. InFlight' = InFlight \ {m} \/ InFlight' = (InFlight \ {m}) \cup {a}
      BY <2>2, <2>3, <3>1 DEF InFlight
    <3> QED
      BY <1>1, <2>2, <3>1, <3>2 DEF Replies
  <2>7. PICK logs : /\ logs = RemovePendingEntries(storage[n], m.shard)
                    /\ storage' = [storage EXCEPT ![n] =
                                     PutStorageShardOccupation(logs, m.shard, m.engine)]
    BY <1>4
  <2>8. /\ DOMAIN logs = DOMAIN storage[n] /\ logs.view = storage[n].view
        /\ logs.occupation = storage[n].occupation
    BY <1>2, <2>7 DEF RemovePendingEntries, StorageOK
  <2>9. /\ DOMAIN storage' = StorageNodes
        /\ storage'[n] = [logs EXCEPT !.occupation[m.shard] = m.engine]
        /\ \A x \in StorageNodes : x # n => storage'[x] = storage[x]
    BY <1>2, <2>7 DEF StorageOK, PutStorageShardOccupation
  <2>10. /\ DOMAIN storage'[n] = DOMAIN storage[n] /\ storage'[n].view = storage[n].view
         /\ storage'[n].occupation = [storage[n].occupation EXCEPT ![m.shard] = m.engine]
    BY <1>2, <2>8, <2>9 DEF StorageOK
  <2>11. StorageOK'
    BY <1>2, <2>1, <2>9, <2>10 DEF StorageOK
  <2>12. ASSUME Knowledge, NEW e \in Engines, Alive(e), NEW v \in Views, NEW s \in Shards,
                Claims(e, v, s), KnownInv(e, v, s), StageInv(e, v)
         PROVE  KnownInv(e, v, s)'
    <3>1. \A k \in Of(e, v)' : \/ k \in Of(e, v)
                               \/ k = a /\ e = m.engine /\ v = m.view
      <4>1. /\ Of(m.engine, m.view)' \subseteq (Of(m.engine, m.view) \ {m}) \cup {a}
            /\ e # m.engine \/ v # m.view => Of(e, v)' = Of(e, v)
        BY <1>1, <2>6, ReplyFacts
      <4>2. CASE e = m.engine /\ v = m.view
        BY <4>1, <4>2
      <4> QED
        BY <4>1, <4>2
    <3>2. Unblocking(e, v)' = Unblocking(e, v)
      <4>1. m.type # "UNBLOCK" /\ a.type # "UNBLOCK"
        BY <1>1, <2>1, <2>2, RegistrationAssumption DEF IsRequest
      <4> QED
        BY <2>6, <4>1 DEF Unblocking, Of, Replies
    <3>3. a.from = n /\ a.type = "STORAGE_OK" /\ n \notin Peers
      BY <1>1, <2>2, RegistrationAssumption
    <3>4. v = storage[n].view => /\ e = m.engine => s = m.shard
                                 /\ e # m.engine => s # m.shard
      BY <1>1, <1>4, <2>12, OneClaimant
    <3>5. storage[n].occupation \in [Shards -> Engines \cup {None}]
      BY <1>2 DEF StorageOK
    <3>6. storage'[n].view = v =>
            storage'[n].occupation[s] = IF e = m.engine THEN e ELSE storage[n].occupation[s]
      BY <2>10, <3>4, <3>5
    <3>7. \A x \in StorageNodes :
            x \in engine[e].conn[v].nodes \/ (\E k \in Of(e, v)' : k.from = x) =>
              /\ v <= storage'[x].view
              /\ storage'[x].view = v => storage'[x].occupation[s] = e
      <4> SUFFICES ASSUME NEW x \in StorageNodes,
                          x \in engine[e].conn[v].nodes \/ (\E k \in Of(e, v)' : k.from = x)
                   PROVE  /\ v <= storage'[x].view
                          /\ storage'[x].view = v => storage'[x].occupation[s] = e
        OBVIOUS
      <4>1. CASE x \in engine[e].conn[v].nodes \/ (\E k \in Of(e, v) : k.from = x)
        <5>1. v <= storage[x].view /\ (storage[x].view = v => storage[x].occupation[s] = e)
          BY <2>12, <4>1 DEF KnownInv
        <5>2. CASE x = n
          BY <2>10, <3>6, <5>1, <5>2
        <5>3. CASE x # n
          BY <2>9, <5>1, <5>3
        <5> QED
          BY <5>2, <5>3
      <4>2. CASE x = n /\ e = m.engine /\ v = m.view
        <5>1. storage'[x].view = v /\ v \in Int
          BY <1>4, <2>10, <4>2 DEF Views
        <5>2. storage'[x].occupation[s] = e
          BY <3>6, <4>2, <5>1
        <5> QED
          BY <5>1, <5>2
      <4> QED
        BY <3>1, <3>3, <4>1, <4>2
    <3>8. \A x \in Peers :
            x \in engine[e].conn[v].nodes \/ (\E k \in Of(e, v)' : k.from = x) =>
              v <= peer[x].view /\ (peer[x].view = v => e \in peer[x].engines)
      BY <2>12, <3>1, <3>3 DEF KnownInv
    <3>9. \A k \in Of(e, v)' : k.type = "SEQUENCER_OK" => k \in Of(e, v)
      BY <3>1, <3>3
    <3> QED
      BY <2>12, <3>2, <3>7, <3>8, <3>9 DEF KnownInv
  <2>13. SequencerOK' /\ PeersOK'
    BY DEF IndInv, TypeOK, SequencerOK, PeersOK
  <2>14. \A x \in StorageNodes : storage'[x].view = storage[x].view
    BY <2>9, <2>10
  <2> QED
    BY <1>1, <2>5, <2>6, <2>11, <2>12, <2>13, <2>14, ReplyStep
<1> QED
  BY <1>3, <1>4

\* An index node or an aggregator registers an engine.
LEMMA PeerRegistrationStep ==
    ASSUME IndInv, NEW n \in Peers, NEW m \in msgs,
           IndexerOnRecvRegistration(n, m) \/ AggregatorOnRecvRegistration(n, m)
    PROVE  IndInv'
<1> USE DEF IndexerOnRecvRegistration, AggregatorOnRecvRegistration
<1>1. m.op = "REGISTER" /\ m.to = n /\ m.to \notin Engines
  BY RegistrationAssumption
<1>2. PeersOK /\ peer[n].view \in Views
  BY DEF IndInv, TypeOK, PeersOK, Views
<1>3. CASE m.view # peer[n].view
  <2>1. PICK type \in {"INDEX_FAILED", "AGGREGATOR_FAILED"} :
          msgs' = Received(m) \cup {Answer(m, type, peer[n].view, m.start)}
    BY <1>3
  <2>2. UNCHANGED peer
    BY <1>3
  <2> QED
    BY <1>1, <1>2, <2>1, <2>2, RefusalStep
<1>4. CASE m.view = peer[n].view
  <2>1. PICK type \in {"INDEX_OK", "AGGREGATOR_OK"} :
          msgs' = Received(m) \cup {Answer(m, type, m.view, m.start)}
    BY <1>4
  <2> DEFINE a == Answer(m, type, m.view, m.start)
  <2>2. /\ m \in InFlight /\ IsRequest(m) /\ m.engine \in Engines /\ m.view \in Views
        /\ m.shard \in Shards
    BY <1>1, RequestFacts
  <2>3. /\ a.op = "REGISTER" /\ a.type = type /\ a.view = m.view /\ a.shard = m.shard
        /\ a.engine = m.engine /\ a.from = m.to /\ a.to = m.from /\ a.to = a.engine
    BY <1>1, AnswerFacts
  <2>4. msgs' = (msgs \ {m}) \cup {a}
    BY <2>1 DEF Received
  <2> HIDE DEF a
  <2>5. RegisterOK(a)
    BY <1>1, <2>2, <2>3 DEF RegisterOK, IsAnswer
  <2>6. MessagesOK'
    BY <2>4, <2>5 DEF IndInv, TypeOK, MessagesOK
  <2>7. Replies(m, a)
    <3>1. a.type \notin Failures
      BY <2>3 DEF Failures
    <3>2. InFlight' = (InFlight \ {m}) \cup {a}
      BY <2>3, <2>4, <3>1 DEF InFlight
    <3> QED
      BY <1>1, <2>3, <3>1, <3>2 DEF Replies
  <2>8. /\ DOMAIN peer' = Peers
        /\ peer'[n] = [peer[n] EXCEPT !.engines = @ \cup {m.engine}]
        /\ \A x \in Peers : x # n => peer'[x] = peer[x]
    BY <1>2, <1>4 DEF PeersOK
  <2>9. /\ DOMAIN peer'[n] = DOMAIN peer[n] /\ peer'[n].view = peer[n].view
        /\ peer'[n].engines = peer[n].engines \cup {m.engine}
    BY <1>2, <2>8 DEF PeersOK
  <2>10. PeersOK'
    BY <1>2, <2>2, <2>8, <2>9 DEF PeersOK
  <2>11. ASSUME Knowledge, NEW e \in Engines, Alive(e), NEW v \in Views, NEW s \in Shards,
                Claims(e, v, s), KnownInv(e, v, s), StageInv(e, v)
         PROVE  KnownInv(e, v, s)'
    <3>1. \A k \in Of(e, v)' : \/ k \in Of(e, v)
                               \/ k = a /\ e = m.engine /\ v = m.view
      <4>1. /\ Of(m.engine, m.view)' \subseteq (Of(m.engine, m.view) \ {m}) \cup {a}
            /\ e # m.engine \/ v # m.view => Of(e, v)' = Of(e, v)
        BY <1>1, <2>7, ReplyFacts, SMTT(60)
      <4>2. CASE e = m.engine /\ v = m.view
        BY <4>1, <4>2
      <4> QED
        BY <4>1, <4>2
    <3>2. Unblocking(e, v)' = Unblocking(e, v)
      <4>1. m.type # "UNBLOCK" /\ a.type # "UNBLOCK"
        BY <1>1, <2>2, <2>3, RegistrationAssumption DEF IsRequest
      <4> QED
        BY <2>7, <4>1 DEF Unblocking, Of, Replies
    <3>3. a.from = n /\ a.type # "SEQUENCER_OK" /\ n \notin StorageNodes
      BY <1>1, <2>3, RegistrationAssumption
    <3>4. \A x \in Peers :
            x \in engine[e].conn[v].nodes \/ (\E k \in Of(e, v)' : k.from = x) =>
              v <= peer'[x].view /\ (peer'[x].view = v => e \in peer'[x].engines)
      <4> SUFFICES ASSUME NEW x \in Peers,
                          x \in engine[e].conn[v].nodes \/ (\E k \in Of(e, v)' : k.from = x)
                   PROVE  v <= peer'[x].view /\ (peer'[x].view = v => e \in peer'[x].engines)
        OBVIOUS
      <4>1. CASE x \in engine[e].conn[v].nodes \/ (\E k \in Of(e, v) : k.from = x)
        <5>1. v <= peer[x].view /\ (peer[x].view = v => e \in peer[x].engines)
          BY <2>11, <4>1 DEF KnownInv
        <5> QED
          BY <2>8, <2>9, <5>1
      <4>2. CASE x = n /\ e = m.engine /\ v = m.view
        BY <1>4, <2>9, <4>2 DEF Views
      <4> QED
        BY <3>1, <3>3, <4>1, <4>2
    <3>5. \A x \in StorageNodes :
            x \in engine[e].conn[v].nodes \/ (\E k \in Of(e, v)' : k.from = x) =>
              /\ v <= storage[x].view
              /\ storage[x].view = v => storage[x].occupation[s] = e
      BY <2>11, <3>1, <3>3 DEF KnownInv
    <3>6. \A k \in Of(e, v)' : k.type = "SEQUENCER_OK" => k \in Of(e, v)
      BY <3>1, <3>3
    <3> QED
      BY <2>11, <3>2, <3>4, <3>5, <3>6 DEF KnownInv
  <2>12. SequencerOK' /\ StorageOK'
    BY DEF IndInv, TypeOK, SequencerOK, StorageOK
  <2>13. \A x \in Peers : peer'[x].view = peer[x].view
    BY <2>8, <2>9
  <2> QED
    BY <1>1, <2>6, <2>7, <2>10, <2>11, <2>12, <2>13, ReplyStep
<1> QED
  BY <1>3, <1>4

\* What the sequencer answers changes nothing that storage, index and aggregator
\* nodes know, and nothing for another engine as long as the shards of others
\* are left alone.
LEMMA SequencerReply ==
    ASSUME IndInv, Knowledge, NEW m \in msgs, m.op = "REGISTER", m.to = Sequencer,
           m.view = seq.view, NEW a, Replies(m, a),
           UNCHANGED <<storage, peer, engine>>, seq'.view = seq.view,
           \A t \in Shards : t # m.shard =>
               /\ seq'.last_cut[t] = seq.last_cut[t] /\ seq'.occupation[t] = seq.occupation[t]
               /\ t \in seq'.unblocked <=> t \in seq.unblocked,
           NEW e \in Engines, Alive(e), NEW v \in Views, NEW s \in Shards,
           Claims(e, v, s), KnownInv(e, v, s), StageInv(e, v),
           e = m.engine /\ v = m.view /\ s = m.shard =>
             /\ engine[e].conn[v].sequencer_set \/ (\E k \in Of(e, v)' : k.type = "SEQUENCER_OK")
                  => v <= seq.view
             /\ engine[e].shards[v] = s \/ Unblocking(e, v)' # {} =>
                  seq'.occupation[s] = e /\ s \in seq'.unblocked
             /\ \A k \in Of(e, v)' : k.type = "SEQUENCER_OK" =>
                  s \notin seq'.unblocked /\ k.start = seq'.last_cut[s]
             /\ (/\ engine[e].view = v /\ engine[e].conn[v].sequencer_set
                 /\ engine[e].shards[v] = None /\ Unblocking(e, v)' = {}) =>
                  s \notin seq'.unblocked /\ seq'.last_cut[s] = engine[e].conn[v].local_start
             /\ \A k \in Unblocking(e, v)' :
                  engine[e].view = v => k.start = engine[e].conn[v].local_start
    PROVE  KnownInv(e, v, s)'
<1>1. m.to \notin Engines /\ Sequencer \notin Servers
  BY RegistrationAssumption DEF Servers
<1>2. /\ Of(m.engine, m.view)' \subseteq (Of(m.engine, m.view) \ {m}) \cup {a}
      /\ e # m.engine \/ v # m.view => Of(e, v)' = Of(e, v)
  BY <1>1, ReplyFacts
<1>3. \A k \in Of(e, v)' : k \in Of(e, v) \/ k.from = Sequencer
  <2>1. a.from = Sequencer
    BY DEF Replies
  <2>2. CASE e = m.engine /\ v = m.view
    BY <1>2, <2>1, <2>2
  <2> QED
    BY <1>2, <2>2
<1>4. \A x \in StorageNodes :
        x \in engine[e].conn[v].nodes \/ (\E k \in Of(e, v)' : k.from = x) =>
              /\ v <= storage[x].view
              /\ storage[x].view = v => storage[x].occupation[s] = e
  BY <1>1, <1>3 DEF KnownInv, Servers
<1>5. \A x \in Peers :
        x \in engine[e].conn[v].nodes \/ (\E k \in Of(e, v)' : k.from = x) =>
              v <= peer[x].view /\ (peer[x].view = v => e \in peer[x].engines)
  BY <1>1, <1>3 DEF KnownInv, Servers
<1>6. v = m.view => (e = m.engine => s = m.shard) /\ (e # m.engine => s # m.shard)
  BY <1>1, OneClaimant
<1>7. CASE e = m.engine /\ v = m.view
  BY <1>4, <1>5, <1>6, <1>7, Zenon DEF KnownInv
<1>8. CASE e # m.engine \/ v # m.view
  <2>1. Of(e, v)' = Of(e, v) /\ Unblocking(e, v)' = Unblocking(e, v)
    BY <1>2, <1>8 DEF Unblocking
  <2>2. seq.view = v => s # m.shard
    BY <1>6, <1>8
  <2> QED
    BY <1>4, <1>5, <2>1, <2>2 DEF KnownInv
<1> QED
  BY <1>7, <1>8

\* The requests and answers between an engine and the sequencer.
LEMMA WithSequencer ==
    ASSUME IndInv, NEW e \in Engines, NEW v \in Views, NEW k \in Of(e, v),
           k.type \in {"SEQUENCER_OK", "UNBLOCK"} \/ k.to = Sequencer
    PROVE  Partner(k) = Sequencer
<1>1. RegisterOK(k) /\ k.type \notin Failures
  BY DEF Of, InFlight, IndInv, TypeOK, MessagesOK
<1> QED
  BY <1>1, RegistrationAssumption DEF RegisterOK, IsRequest, IsAnswer, Partner, Servers

\* ENGINE at the sequencer: the shard is blocked and its last cut is the answer.
LEMMA BlockStep ==
    ASSUME IndInv, NEW m \in msgs, m.op = "REGISTER", m.to = Sequencer,
           UNCHANGED <<ctrl, znodes, seen, shardReq, shardResp, storage, peer, engine>>,
           m.view = seq.view, m.type = "ENGINE", BlockShard(m.shard),
           msgs' = Received(m) \cup {Answer(m, "SEQUENCER_OK", m.view, seq.last_cut[m.shard])}
    PROVE  IndInv'
<1> DEFINE a == Answer(m, "SEQUENCER_OK", m.view, seq.last_cut[m.shard])
<1>1. m.to \notin Engines
  BY RegistrationAssumption
<1>2. /\ m \in InFlight /\ IsRequest(m) /\ m.engine \in Engines /\ m.view \in Views
      /\ m.shard \in Shards
  BY <1>1, RequestFacts
<1>3. /\ a.op = "REGISTER" /\ a.type = "SEQUENCER_OK" /\ a.view = m.view /\ a.shard = m.shard
      /\ a.engine = m.engine /\ a.from = m.to /\ a.to = m.from /\ a.to = a.engine
      /\ a.start = seq.last_cut[m.shard]
  BY <1>1, AnswerFacts
<1>4. msgs' = (msgs \ {m}) \cup {a}
  BY DEF Received
<1> HIDE DEF a
<1>5. RegisterOK(a)
  BY <1>2, <1>3 DEF RegisterOK, IsAnswer
<1>6. MessagesOK'
  BY <1>4, <1>5 DEF IndInv, TypeOK, MessagesOK
<1>7. Replies(m, a)
  <2>1. a.type \notin Failures
    BY <1>3 DEF Failures
  <2>2. InFlight' = (InFlight \ {m}) \cup {a}
    BY <1>3, <1>4, <2>1 DEF InFlight
  <2> QED
    BY <1>3, <2>1, <2>2 DEF Replies
<1>8. /\ seq'.view = seq.view /\ seq'.last_cut = seq.last_cut
      /\ seq'.occupation = seq.occupation /\ seq'.unblocked = seq.unblocked \ {m.shard}
      /\ SequencerOK'
  BY DEF IndInv, TypeOK, SequencerOK, BlockShard
<1>9. ASSUME Knowledge, NEW e \in Engines, Alive(e), NEW v \in Views, NEW s \in Shards,
             Claims(e, v, s), KnownInv(e, v, s), StageInv(e, v)
      PROVE  KnownInv(e, v, s)'
  <2>1. ASSUME e = m.engine, v = m.view, s = m.shard
        PROVE  /\ v <= seq.view
               /\ ~engine[e].conn[v].sequencer_set /\ engine[e].shards[v] # s
               /\ Unblocking(e, v)' = {}
               /\ \A k \in Of(e, v)' : k.type = "SEQUENCER_OK" => k = a
    <3>1. /\ m \in Of(e, v) /\ Partner(m) = Sequencer
          /\ Of(e, v)' \subseteq (Of(e, v) \ {m}) \cup {a}
      BY <1>1, <1>7, <2>1, ReplyFacts
    <3>2. ~engine[e].conn[v].sequencer_set /\ engine[e].shards[v] = None
      BY <1>9, <3>1 DEF StageInv
    <3>3. \A k \in Of(e, v)' : Partner(k) = Sequencer => k = a
      BY <1>9, <3>1 DEF StageInv
    <3>4. \A k \in Of(e, v)' : k \in Of(e, v) /\ k.type \in {"SEQUENCER_OK", "UNBLOCK"} => k = a
      BY <3>3, WithSequencer
    <3>5. Unblocking(e, v)' = {}
      BY <1>3, <3>1, <3>4 DEF Unblocking
    <3>6. \A k \in Of(e, v)' : k.type = "SEQUENCER_OK" => k = a
      BY <3>1, <3>4
    <3>7. s # None /\ v <= seq.view
      BY <2>1, RegistrationAssumption DEF Shards, Views
    <3> QED
      BY <3>2, <3>5, <3>6, <3>7
  <2>2. e = m.engine /\ v = m.view /\ s = m.shard =>
             /\ engine[e].conn[v].sequencer_set \/ (\E k \in Of(e, v)' : k.type = "SEQUENCER_OK")
                  => v <= seq.view
             /\ engine[e].shards[v] = s \/ Unblocking(e, v)' # {} =>
                  seq'.occupation[s] = e /\ s \in seq'.unblocked
             /\ \A k \in Of(e, v)' : k.type = "SEQUENCER_OK" =>
                  s \notin seq'.unblocked /\ k.start = seq'.last_cut[s]
             /\ (/\ engine[e].view = v /\ engine[e].conn[v].sequencer_set
                 /\ engine[e].shards[v] = None /\ Unblocking(e, v)' = {}) =>
                  s \notin seq'.unblocked /\ seq'.last_cut[s] = engine[e].conn[v].local_start
             /\ \A k \in Unblocking(e, v)' :
                  engine[e].view = v => k.start = engine[e].conn[v].local_start
    BY <1>3, <1>8, <2>1
  <2>3. \A t \in Shards : t # m.shard =>
               /\ seq'.last_cut[t] = seq.last_cut[t] /\ seq'.occupation[t] = seq.occupation[t]
               /\ t \in seq'.unblocked <=> t \in seq.unblocked
    BY <1>8
  <2> QED
    BY <1>7, <1>8, <1>9, <2>2, <2>3, SequencerReply
<1>10. StorageOK' /\ PeersOK'
  BY DEF IndInv, TypeOK, StorageOK, PeersOK
<1> QED
  BY <1>1, <1>6, <1>7, <1>8, <1>9, <1>10, ReplyStep

\* UNBLOCK at the sequencer: the engine occupies the shard, which is still at the
\* cut the engine was told when the shard was blocked.
LEMMA UnblockStep ==
    ASSUME IndInv, NEW m \in msgs, m.op = "REGISTER", m.to = Sequencer,
           UNCHANGED <<ctrl, znodes, seen, shardReq, shardResp, storage, peer, engine>>,
           m.view = seq.view, m.type = "UNBLOCK", m.shard \notin seq.unblocked,
           UnblockShard(m.shard, m.engine),
           msgs' = Received(m) \cup {[Answer(m, "UNBLOCK", m.view, seq.last_cut[m.shard])
                                        EXCEPT !.position = seq.position]}
    PROVE  IndInv'
<1> DEFINE a == [Answer(m, "UNBLOCK", m.view, seq.last_cut[m.shard])
                   EXCEPT !.position = seq.position]
<1>1. m.to \notin Engines
  BY RegistrationAssumption
<1>2. /\ m \in InFlight /\ IsRequest(m) /\ m.engine \in Engines /\ m.view \in Views
      /\ m.shard \in Shards
  BY <1>1, RequestFacts
<1>3. /\ a.op = "REGISTER" /\ a.type = "UNBLOCK" /\ a.view = m.view /\ a.shard = m.shard
      /\ a.engine = m.engine /\ a.from = m.to /\ a.to = m.from /\ a.to = a.engine
      /\ a.start = seq.last_cut[m.shard]
  BY <1>2 DEF Answer, RegisterMsg, IsRequest
<1>4. msgs' = (msgs \ {m}) \cup {a}
  BY DEF Received
<1> HIDE DEF a
<1>5. RegisterOK(a)
  BY <1>2, <1>3 DEF RegisterOK, IsAnswer
<1>6. MessagesOK'
  BY <1>4, <1>5 DEF IndInv, TypeOK, MessagesOK
<1>7. a.type \notin Failures /\ InFlight' = (InFlight \ {m}) \cup {a}
  BY <1>3, <1>4 DEF InFlight, Failures
<1>8. Replies(m, a)
  BY <1>3, <1>7 DEF Replies
<1>9. /\ seq'.view = seq.view /\ seq'.last_cut = seq.last_cut
      /\ seq'.occupation = [seq.occupation EXCEPT ![m.shard] = m.engine]
      /\ seq'.unblocked = seq.unblocked \cup {m.shard}
      /\ SequencerOK'
  BY <1>2 DEF IndInv, TypeOK, SequencerOK, UnblockShard, PutStorageShardOccupation
<1>10. seq.occupation \in [Shards -> Engines \cup {None}]
  BY DEF IndInv, TypeOK, SequencerOK
<1>11. ASSUME Knowledge, NEW e \in Engines, Alive(e), NEW v \in Views, NEW s \in Shards,
             Claims(e, v, s), KnownInv(e, v, s), StageInv(e, v)
      PROVE  KnownInv(e, v, s)'
  <2>1. ASSUME e = m.engine, v = m.view, s = m.shard
        PROVE  /\ v <= seq.view
               /\ engine[e].view = v => seq.last_cut[s] = engine[e].conn[v].local_start
               /\ Unblocking(e, v)' = {a}
               /\ \A k \in Of(e, v)' : k.type # "SEQUENCER_OK"
    <3>1. /\ m \in Of(e, v) /\ Partner(m) = Sequencer
          /\ Of(e, v)' \subseteq (Of(e, v) \ {m}) \cup {a}
      BY <1>1, <1>8, <2>1, ReplyFacts
    <3>2. engine[e].conn[v].sequencer_set
      BY <1>11, <3>1 DEF StageInv
    <3>3. \A k \in Of(e, v) : k.type # "SEQUENCER_OK"
      BY <1>11, <3>2 DEF StageInv
    <3>4. \A k \in Of(e, v) : k.type = "UNBLOCK" => k = m
      BY <1>11, <3>1, WithSequencer DEF StageInv
    <3>5. m.to # e
      BY <1>1
    <3>6. Unblocking(e, v) = {}
      BY <3>4, <3>5 DEF Unblocking
    <3>7. a \in Of(e, v)' /\ a.to = e
      BY <1>3, <1>7, <2>1 DEF Of
    <3>8. Unblocking(e, v)' = {a}
      BY <1>3, <3>1, <3>4, <3>7 DEF Unblocking
    <3>9. engine[e].shards[v] = None
      <4>1. engine[e].shards[v] # s
        BY <1>11, <2>1 DEF KnownInv
      <4>2. engine[e].shards[v] \in Shards \cup {None}
        BY DEF IndInv, TypeOK, EnginesOK, EngineOK
      <4>3. engine[e].shards[v] \in Shards => engine[e].shards[v] = s
        BY <1>11 DEF IndInv, ClaimInv, Claims
      <4> QED
        BY <4>1, <4>2, <4>3
    <3>10. engine[e].view = v => seq.last_cut[s] = engine[e].conn[v].local_start
      BY <1>11, <2>1, <3>2, <3>6, <3>9 DEF KnownInv
    <3>11. v <= seq.view
      BY <2>1 DEF Views
    <3> QED
      BY <1>3, <3>1, <3>3, <3>8, <3>10, <3>11
  <2>2. e = m.engine /\ v = m.view /\ s = m.shard =>
             /\ engine[e].conn[v].sequencer_set \/ (\E k \in Of(e, v)' : k.type = "SEQUENCER_OK")
                  => v <= seq.view
             /\ engine[e].shards[v] = s \/ Unblocking(e, v)' # {} =>
                  seq'.occupation[s] = e /\ s \in seq'.unblocked
             /\ \A k \in Of(e, v)' : k.type = "SEQUENCER_OK" =>
                  s \notin seq'.unblocked /\ k.start = seq'.last_cut[s]
             /\ (/\ engine[e].view = v /\ engine[e].conn[v].sequencer_set
                 /\ engine[e].shards[v] = None /\ Unblocking(e, v)' = {}) =>
                  s \notin seq'.unblocked /\ seq'.last_cut[s] = engine[e].conn[v].local_start
             /\ \A k \in Unblocking(e, v)' :
                  engine[e].view = v => k.start = engine[e].conn[v].local_start
    BY <1>3, <1>9, <1>10, <2>1
  <2>3. \A t \in Shards : t # m.shard =>
               /\ seq'.last_cut[t] = seq.last_cut[t] /\ seq'.occupation[t] = seq.occupation[t]
               /\ t \in seq'.unblocked <=> t \in seq.unblocked
    BY <1>9, <1>10
  <2> QED
    BY <1>8, <1>9, <1>11, <2>2, <2>3, SequencerReply
<1>12. StorageOK' /\ PeersOK'
  BY DEF IndInv, TypeOK, StorageOK, PeersOK
<1> QED
  BY <1>1, <1>6, <1>8, <1>9, <1>11, <1>12, ReplyStep

\* OnRecvRegistration of the sequencer.
LEMMA SequencerRegistrationStep ==
    ASSUME IndInv, NEW m \in msgs, SequencerOnRecvRegistration(m)
    PROVE  IndInv'
<1> USE DEF SequencerOnRecvRegistration
<1>1. m.op = "REGISTER" /\ m.to = Sequencer /\ m.to \notin Engines
  BY RegistrationAssumption
<1>2. seq.view \in Views
  BY DEF IndInv, TypeOK, SequencerOK, Views
<1>3. CASE /\ UNCHANGED seq
           /\ \/ msgs' = Received(m)
              \/ msgs' = Received(m) \cup {Answer(m, "SEQUENCER_FAILED", seq.view, 0)}
  BY <1>1, <1>2, <1>3, RefusalStep
<1>4. CASE /\ m.view = seq.view /\ m.type = "ENGINE" /\ BlockShard(m.shard)
           /\ msgs' = Received(m) \cup
                        {Answer(m, "SEQUENCER_OK", m.view, seq.last_cut[m.shard])}
  BY <1>1, <1>4, BlockStep
<1>5. CASE /\ m.view = seq.view /\ m.type = "UNBLOCK" /\ m.shard \notin seq.unblocked
           /\ UnblockShard(m.shard, m.engine)
           /\ msgs' = Received(m) \cup
                        {[Answer(m, "UNBLOCK", m.view, seq.last_cut[m.shard])
                            EXCEPT !.position = seq.position]}
  BY <1>1, <1>5, UnblockStep
<1> QED
  BY <1>3, <1>4, <1>5

-----------------------------------------------------------------------------
(* An engine acts on what it receives. *)

\* A step of an engine in its registration for one view: the rest stays as it is.
EngineMoves(e, v) ==
    /\ Alive(e) /\ UNCHANGED <<ctrl, znodes, seen, shardReq, seq, storage, peer>>
    /\ shardResp' \subseteq shardResp
    /\ DOMAIN engine' = Engines /\ EngineOK(engine'[e])
    /\ \A x \in Engines : x # e => engine'[x] = engine[x]
    /\ engine'[e].view = engine[e].view \/ (engine'[e].view = v /\ Ahead(e, v))
    /\ \A w \in Views : w # v => /\ engine'[e].shards[w] = engine[e].shards[w]
                                 /\ engine'[e].conn[w] = engine[e].conn[w]
    /\ \A r \in shardReq : r.engine # e \/ (Alive(e)' /\ engine'[e].conn = engine[e].conn)
    /\ MessagesOK'
    /\ \A x, w : x # e \/ w # v => Of(x, w)' = Of(x, w)
    /\ \A k \in InFlight' : k \in InFlight \/ (k.from = e /\ Claims(k.engine, k.view, k.shard))
    /\ \A s \in Shards : engine'[e].shards[v] = s => Claims(e, v, s)

\* It keeps the invariant when it keeps the stage of that registration and what the
\* nodes know of it.
LEMMA EngineStep ==
    ASSUME IndInv, NEW e \in Engines, NEW v \in Views, EngineMoves(e, v),
           Alive(e)' => StageInv(e, v)',
           Knowledge /\ Alive(e)' => \A s \in Shards :
               Claims(e, v, s) /\ KnownInv(e, v, s) => KnownInv(e, v, s)'
    PROVE  IndInv'
<1> USE DEF EngineMoves
<1>1. EnginesOK'
  BY DEF IndInv, TypeOK, EnginesOK
<1>2. ZNodesOK'
  BY DEF IndInv, TypeOK, ZNodesOK
<1>3. TypeOK'
  BY <1>1, <1>2 DEF IndInv, TypeOK, ControllerOK, SequencerOK, StorageOK, PeersOK
<1>4. \A x \in Nodes : Unread(x)' \subseteq Unread(x)
  BY DEF Unread
<1>5. ViewsInv'
  <2>1. \A x \in Engines : engine'[x].view = engine[x].view \/ Ahead(x, engine[x].view)'
    BY DEF Ahead, Unread
  <2> QED
    BY <1>4, <2>1, ViewsFrame DEF IndInv
<1>6. \A x \in Engines : /\ Alive(x)' => Alive(x)
                         /\ x # e => Alive(x)' = Alive(x)
  BY DEF Alive
<1>7. \A x \in Engines, w \in Views, s \in Shards : Claims(x, w, s)' => Claims(x, w, s)
  <2>1. \A x \in Engines, w \in Views, s \in Shards :
               engine'[x].shards[w] = s => Claims(x, w, s)
    BY DEF Claims
  <2> QED
    BY <2>1, ClaimsFrom
<1>8. ClaimInv'
  BY <1>4, <1>6, <1>7, ClaimFrame DEF IndInv, TypeOK, ControllerOK
<1>9. HolderInv'
  BY DEF IndInv, HolderInv
<1>10. RequestInv'
  <2>1. \A r \in shardReq : r.engine \in Engines /\ Alive(r.engine)
    BY DEF IndInv, RequestInv, TypeOK, ZNodesOK
  <2>2. \A r \in shardReq' :
          Alive(r.engine)' /\ engine'[r.engine].conn[r.view] = engine[r.engine].conn[r.view]
    BY <1>6, <2>1
  <2> QED
    BY <1>7, <2>2, RequestFrame DEF IndInv, TypeOK
<1>11. \A x, w : Granted(x, w)' \subseteq Granted(x, w)
  BY DEF Granted
<1>12. ASSUME NEW x \in Engines, Alive(x)', NEW w \in Views, x # e \/ w # v
       PROVE  StageInv(x, w)'
  <2>1. StageInv(x, w)
    BY <1>6, <1>12 DEF IndInv, Stages
  <2>2. /\ engine'[x].conn[w] = engine[x].conn[w] /\ engine'[x].shards[w] = engine[x].shards[w]
        /\ Of(x, w)' = Of(x, w)
    BY <1>12
  <2> QED
    BY <1>11, <2>1, <2>2, StageFrame
<1>13. Stages'
  BY <1>12 DEF Stages
<1>14. ASSUME ~LateMessages PROVE Knowledge'
  <2>1. Knowledge
    BY <1>14 DEF IndInv
  <2>2. NoLate'
    BY <2>1 DEF Knowledge, NoLate, IndInv, ClaimInv
  <2>3. ASSUME NEW x \in Engines, Alive(x)', NEW w \in Views, NEW s \in Shards, Claims(x, w, s)'
        PROVE  KnownInv(x, w, s)'
    <3>1. Claims(x, w, s) /\ KnownInv(x, w, s)
      BY <1>6, <1>7, <2>1, <2>3 DEF Knowledge
    <3>2. CASE x = e /\ w = v
      BY <2>1, <2>3, <3>1, <3>2
    <3>3. CASE x # e \/ w # v
      <4>1. /\ Of(x, w)' = Of(x, w) /\ Unblocking(x, w)' = Unblocking(x, w)
        BY <3>3 DEF Unblocking
      <4>2. /\ engine'[x].conn[w] = engine[x].conn[w]
            /\ engine'[x].shards[w] = engine[x].shards[w]
            /\ engine'[x].view = w => engine[x].view = w
        BY <3>3
      <4> QED
        BY <3>1, <4>1, <4>2, KnownFrame
    <3> QED
      BY <3>2, <3>3
  <2> QED
    BY <2>2, <2>3 DEF Knowledge
<1> QED
  BY <1>3, <1>5, <1>8, <1>9, <1>10, <1>13, <1>14 DEF IndInv

\* What an engine receives is an answer.
LEMMA AnswerReceived ==
    ASSUME IndInv, NEW e \in Engines, NEW m \in msgs, EngineReceives(e, m, "REGISTER"),
           m.type \notin Failures
    PROVE  /\ Alive(e) /\ m.view \in Views /\ m.shard \in Shards
           /\ m.from \in Servers \cup {Sequencer}
           /\ m.from # e /\ m.engine = e /\ Partner(m) = m.from
           /\ m \in Of(e, m.view) /\ Claims(e, m.view, m.shard)
           /\ m.type \in {"SEQUENCER_OK", "UNBLOCK"} => m.from = Sequencer
           /\ m.type \in {"STORAGE_OK", "INDEX_OK", "AGGREGATOR_OK"} => m.from \in Servers
           /\ StageInv(e, m.view) /\ \A r \in shardReq : r.engine # e
<1> USE DEF EngineReceives
<1>1. RegisterOK(m)
  BY DEF IndInv, TypeOK, MessagesOK
<1>2. IsAnswer(m)
  BY <1>1, RegistrationAssumption DEF RegisterOK, IsRequest, Servers
<1>3. m \in Of(e, m.view)
  BY <1>2 DEF Of, InFlight, IsAnswer
<1>4. m.from \in Servers \cup {Sequencer} /\ m.from # e
  BY <1>2, RegistrationAssumption DEF IsAnswer, Servers
<1> QED
  BY <1>1, <1>2, <1>3, <1>4
     DEF RegisterOK, IsAnswer, Claims, Partner, IndInv, Stages, WaitsForShard, Servers

\* SEQUENCER_OK: the engine knows its start and registers at the other nodes.
LEMMA SequencerRegisteredStep ==
    ASSUME IndInv, NEW e \in Engines, NEW m \in msgs, OnSequencerRegistered(e, m)
    PROVE  IndInv'
<1>1. EngineReceives(e, m, "REGISTER") /\ m.type = "SEQUENCER_OK" /\ m.type \notin Failures
  BY DEF Failures, OnSequencerRegistered
<1>0. PICK v \in Views : v = m.view
  BY <1>1, AnswerReceived
<1> DEFINE R == {RegisterMsg("ENGINE", m.view, m.shard, e, m.start, e, n) : n \in Servers}
<1>2. /\ Alive(e) /\ v \in Views /\ m.shard \in Shards /\ m.from = Sequencer /\ m.from # e
      /\ m.engine = e /\ Partner(m) = Sequencer /\ m \in Of(e, v) /\ Claims(e, v, m.shard)
      /\ StageInv(e, v) /\ \A r \in shardReq : r.engine # e
  BY <1>0, <1>1, AnswerReceived
<1>3. EnginesOK /\ EngineOK(engine[e]) /\ ConnectionOK(engine[e].conn[v])
  BY <1>2 DEF IndInv, TypeOK, EnginesOK, EngineOK
<1> DEFINE c == [engine[e].conn[v] EXCEPT !.sequencer_set = TRUE, !.local_start = m.start]
<1>4. /\ DOMAIN engine' = Engines /\ engine'[e] = [engine[e] EXCEPT !.conn[v] = c]
      /\ \A x \in Engines : x # e => engine'[x] = engine[x]
  <2> DEFINE c1  == [engine[e].conn[v] EXCEPT !.sequencer_set = TRUE]
             me1 == [engine[e] EXCEPT !.conn[v] = c1]
             en1 == [engine EXCEPT ![e] = me1]
             me2 == [me1 EXCEPT !.conn[v].local_start = m.start]
  <2>1. engine' = [en1 EXCEPT ![e].conn[v].local_start = m.start]
    BY <1>0 DEF OnSequencerRegistered
  <2>2. me1.conn[v] = c1
    BY <1>0, <1>3 DEF EngineOK
  <2>3. me2 = [me1 EXCEPT !.conn[v] = [c1 EXCEPT !.local_start = m.start]]
    BY <2>2
  <2>4. me2 = [engine[e] EXCEPT !.conn[v] = [c1 EXCEPT !.local_start = m.start]]
    <3> DEFINE d == [c1 EXCEPT !.local_start = m.start]
               me3 == [engine[e] EXCEPT !.conn[v] = d]
    <3>1. me2 = [me1 EXCEPT !.conn[v] = d]
      BY <2>3
    <3> HIDE DEF d, c1, me2
    <3>2. /\ DOMAIN me1 = DOMAIN engine[e] /\ me1.conn = [engine[e].conn EXCEPT ![v] = c1]
          /\ \A x \in DOMAIN engine[e] : x # "conn" => me1[x] = engine[e][x]
      BY <1>3 DEF EngineOK
    <3> HIDE DEF me1
    <3>3. /\ DOMAIN me2 = DOMAIN engine[e] /\ me2.conn = [engine[e].conn EXCEPT ![v] = d]
          /\ \A x \in DOMAIN engine[e] : x # "conn" => me2[x] = engine[e][x]
      BY <1>3, <3>1, <3>2 DEF EngineOK
    <3>4. /\ DOMAIN me3 = DOMAIN engine[e] /\ me3.conn = [engine[e].conn EXCEPT ![v] = d]
          /\ \A x \in DOMAIN engine[e] : x # "conn" => me3[x] = engine[e][x]
      BY <1>3 DEF EngineOK
    <3>5. me2 = [x \in DOMAIN me2 |-> me2[x]] /\ me3 = [x \in DOMAIN me3 |-> me3[x]]
      BY <3>1
    <3> HIDE DEF me3
    <3>6. \A x \in DOMAIN engine[e] : me2[x] = me3[x]
      BY <3>3, <3>4
    <3>7. me2 = me3
      BY <3>3, <3>4, <3>5, <3>6
    <3> QED
      BY <3>7 DEF me3, d
  <2>5. [c1 EXCEPT !.local_start = m.start] = c
    OBVIOUS
  <2> HIDE DEF c, c1
  <2>6. engine' = [en1 EXCEPT ![e] = me2]
    BY <1>3, <2>1 DEF EnginesOK
  <2> HIDE DEF me1, me2
  <2> QED
    BY <1>3, <2>4, <2>5, <2>6 DEF EnginesOK
<1>5. /\ DOMAIN c = {"sequencer_set", "local_start", "nodes"} /\ c.sequencer_set = TRUE
      /\ c.local_start = m.start /\ c.nodes = engine[e].conn[v].nodes
  BY <1>3 DEF ConnectionOK
<1> HIDE DEF c
<1>6. /\ DOMAIN engine'[e] = DOMAIN engine[e] /\ engine'[e].up = engine[e].up
      /\ engine'[e].failed = engine[e].failed /\ engine'[e].view = engine[e].view
      /\ engine'[e].shards = engine[e].shards
      /\ engine'[e].conn = [engine[e].conn EXCEPT ![v] = c]
  BY <1>3, <1>4 DEF EngineOK
<1>7. engine'[e].conn[v] = c /\ \A w \in Views : w # v => engine'[e].conn[w] = engine[e].conn[w]
  BY <1>2, <1>3, <1>6 DEF EngineOK
<1>8. EngineOK(engine'[e])
  <2>1. ConnectionOK(c)
    BY <1>3, <1>5 DEF ConnectionOK
  <2> QED
    BY <1>3, <1>6, <1>7, <2>1 DEF EngineOK
<1>9. \A k \in R : /\ k.op = "REGISTER" /\ k.type = "ENGINE" /\ k.view = v /\ k.shard = m.shard
                   /\ k.engine = e /\ k.from = e /\ k.to \in Servers /\ Partner(k) = k.to
  BY <1>0 DEF RegisterMsg, Partner
<1>10. \A k, l \in R : k.to = l.to => k = l
  BY DEF RegisterMsg
<1>11. msgs' = (msgs \ {m}) \cup R
  BY DEF Received, Servers, OnSequencerRegistered
<1>UC. UNCHANGED <<ctrl, znodes, seen, shardReq, shardResp, seq, storage, peer>>
  BY DEF OnSequencerRegistered
<1> HIDE DEF R
<1>12. MessagesOK'
  <2>1. \A k \in R : RegisterOK(k)
    BY <1>2, <1>9 DEF RegisterOK, IsRequest
  <2> QED
    BY <1>11, <2>1 DEF MessagesOK, IndInv, TypeOK
<1>13. InFlight' = (InFlight \ {m}) \cup R
  BY <1>9, <1>11 DEF InFlight, Failures
<1>14. \A x, w : x # e \/ w # v => Of(x, w)' = Of(x, w)
  BY <1>2, <1>9, <1>13 DEF Of
<1>15. \A k \in InFlight' : k \in InFlight \/ (k.from = e /\ Claims(k.engine, k.view, k.shard))
  BY <1>2, <1>9, <1>13
<1>16. ~engine[e].conn[v].sequencer_set
  BY <1>1, <1>2 DEF StageInv
<1>17. /\ c.nodes = {} /\ engine[e].shards[v] = None
       /\ \A k \in Of(e, v) : (k.type = "ENGINE" /\ k.to = Sequencer) \/ k.type = "SEQUENCER_OK"
  BY <1>2, <1>5, <1>16 DEF StageInv
<1>18. \A k \in Of(e, v) : k = m
  BY <1>2, <1>17, WithSequencer DEF IndInv, StageInv
<1>19. Of(e, v)' = R
  BY <1>2, <1>9, <1>13, <1>18 DEF Of
<1>20. Granted(e, v)' = {}
  BY <1>2, <1>UC DEF StageInv, Granted
<1>21. Sequencer \notin Servers /\ e \notin Servers
  BY RegistrationAssumption DEF Servers
<1>22. StageInv(e, v)'
  <2>1. \A k, l \in R : Partner(k) = Partner(l) => k = l
    BY <1>9, <1>10
  <2>2. \A k \in R : k.to # Sequencer /\ k.type = "ENGINE"
    BY <1>9, <1>21
  <2> QED
    BY <1>5, <1>6, <1>7, <1>17, <1>19, <1>20, <2>1, <2>2 DEF StageInv
<1>23. ASSUME Knowledge, Alive(e)', NEW s \in Shards, Claims(e, v, s), KnownInv(e, v, s)
       PROVE  KnownInv(e, v, s)'
  <2>1. \A n \in Servers : n \notin c.nodes /\ ~\E k \in R : k.from = n
    BY <1>9, <1>17, <1>21
  <2>2. Unblocking(e, v)' = {} /\ \A k \in R : k.type # "SEQUENCER_OK"
    BY <1>9, <1>19 DEF Unblocking
  <2>3. v <= seq.view /\ (seq.view = v => s \notin seq.unblocked /\ m.start = seq.last_cut[s])
    BY <1>1, <1>2, <1>23 DEF KnownInv
  <2>4. s # None
    BY RegistrationAssumption DEF Shards
  <2> QED
    BY <1>5, <1>6, <1>7, <1>17, <1>19, <1>UC, <2>1, <2>2, <2>3, <2>4 DEF KnownInv, Servers
<1>24. \A s \in Shards : engine'[e].shards[v] = s => Claims(e, v, s)
  BY <1>6 DEF Claims
<1>26. Knowledge /\ Alive(e)' => \A s \in Shards :
         Claims(e, v, s) /\ KnownInv(e, v, s) => KnownInv(e, v, s)'
  BY <1>23
<1>25. /\ shardResp' \subseteq shardResp /\ engine'[e].view = engine[e].view
       /\ \A w \in Views : w # v => /\ engine'[e].shards[w] = engine[e].shards[w]
                                    /\ engine'[e].conn[w] = engine[e].conn[w]
  BY <1>UC, <1>6, <1>7
<1>27. EngineMoves(e, v)
  BY <1>2, <1>UC, <1>4, <1>8, <1>12, <1>14, <1>15, <1>24, <1>25 DEF EngineMoves
<1> QED
  BY <1>22, <1>26, <1>27, EngineStep

\* The answer of a storage, index or aggregator node; the last one makes the engine
\* ask the sequencer to unblock its shard.
LEMMA NodeRegisteredStep ==
    ASSUME IndInv, NEW e \in Engines, NEW m \in msgs, OnNodeRegistered(e, m)
    PROVE  IndInv'
<1>1. /\ EngineReceives(e, m, "REGISTER") /\ m.type \notin Failures
      /\ m.type \in {"STORAGE_OK", "INDEX_OK", "AGGREGATOR_OK"}
  BY DEF Failures, OnNodeRegistered
<1>0. PICK v \in Views : v = m.view
  BY <1>1, AnswerReceived
<1> DEFINE c == WithNode(engine[e].conn[v], m.from)
           u == RegisterMsg("UNBLOCK", m.view, m.shard, e, c.local_start, e, Sequencer)
<1>2. /\ Alive(e) /\ v \in Views /\ m.shard \in Shards /\ m.from \in Servers /\ m.from # e
      /\ m.engine = e /\ Partner(m) = m.from /\ m \in Of(e, v) /\ Claims(e, v, m.shard)
      /\ StageInv(e, v) /\ \A r \in shardReq : r.engine # e
  BY <1>0, <1>1, AnswerReceived
<1>3. EnginesOK /\ EngineOK(engine[e]) /\ ConnectionOK(engine[e].conn[v])
  BY <1>2 DEF IndInv, TypeOK, EnginesOK, EngineOK
<1>4. /\ DOMAIN engine' = Engines /\ engine'[e] = [engine[e] EXCEPT !.conn[v] = c]
      /\ \A x \in Engines : x # e => engine'[x] = engine[x]
  BY <1>0, <1>3 DEF EnginesOK, EngineOK, OnNodeRegistered
<1>5. /\ DOMAIN c = {"sequencer_set", "local_start", "nodes"}
      /\ c.sequencer_set = engine[e].conn[v].sequencer_set
      /\ c.local_start = engine[e].conn[v].local_start
      /\ c.nodes = engine[e].conn[v].nodes \cup {m.from}
  BY <1>3 DEF ConnectionOK, WithNode
<1>6. /\ u.op = "REGISTER" /\ u.type = "UNBLOCK" /\ u.view = v /\ u.shard = m.shard
      /\ u.engine = e /\ u.from = e /\ u.to = Sequencer /\ Partner(u) = Sequencer
  BY <1>0 DEF RegisterMsg, Partner
<1>7. \/ msgs' = msgs \ {m}
      \/ msgs' = (msgs \ {m}) \cup {u} /\ c.nodes = Servers
  BY <1>0, Zenon DEF Received, ConnectionReady, Servers, OnNodeRegistered
<1>UC. UNCHANGED <<ctrl, znodes, seen, shardReq, shardResp, seq, storage, peer>>
  BY DEF OnNodeRegistered
<1> HIDE DEF c, u
<1>8. /\ DOMAIN engine'[e] = DOMAIN engine[e] /\ engine'[e].up = engine[e].up
      /\ engine'[e].failed = engine[e].failed /\ engine'[e].view = engine[e].view
      /\ engine'[e].shards = engine[e].shards
      /\ engine'[e].conn = [engine[e].conn EXCEPT ![v] = c]
  BY <1>3, <1>4 DEF EngineOK
<1>9. engine'[e].conn[v] = c /\ \A w \in Views : w # v => engine'[e].conn[w] = engine[e].conn[w]
  BY <1>2, <1>3, <1>8 DEF EngineOK
<1>10. EngineOK(engine'[e])
  <2>1. ConnectionOK(c)
    BY <1>2, <1>3, <1>5 DEF ConnectionOK
  <2> QED
    BY <1>3, <1>8, <1>9, <2>1 DEF EngineOK
<1>11. MessagesOK'
  <2>1. RegisterOK(u)
    BY <1>2, <1>6 DEF RegisterOK, IsRequest
  <2> QED
    BY <1>7, <2>1 DEF MessagesOK, IndInv, TypeOK
<1>12. \/ InFlight' = InFlight \ {m}
       \/ InFlight' = (InFlight \ {m}) \cup {u} /\ c.nodes = Servers
  BY <1>6, <1>7 DEF InFlight, Failures
<1>13. \A x, w : x # e \/ w # v => Of(x, w)' = Of(x, w)
  BY <1>2, <1>6, <1>12 DEF Of
<1>14. \A k \in InFlight' : k \in InFlight \/ (k.from = e /\ Claims(k.engine, k.view, k.shard))
  BY <1>2, <1>6, <1>12
<1>15. \A k \in Of(e, v)' : \/ k \in Of(e, v) /\ k # m
                            \/ k = u /\ c.nodes = Servers
  BY <1>12 DEF Of
<1>16. Sequencer \notin Servers /\ e \notin Servers
  BY RegistrationAssumption DEF Servers
<1>17. engine[e].conn[v].sequencer_set
  BY <1>1, <1>2 DEF StageInv
<1>18. engine[e].shards[v] = None /\ \A k \in Of(e, v) : k.type # "UNBLOCK"
  BY <1>2 DEF StageInv
<1>19. \A k \in Of(e, v) : /\ k.type # "SEQUENCER_OK" /\ Partner(k) # Sequencer
                           /\ ~(k.type = "ENGINE" /\ k.to = Sequencer)
  <2> SUFFICES ASSUME NEW k \in Of(e, v)
               PROVE  /\ k.type # "SEQUENCER_OK" /\ Partner(k) # Sequencer
                      /\ ~(k.type = "ENGINE" /\ k.to = Sequencer)
    OBVIOUS
  <2>1. k.type # "SEQUENCER_OK" /\ ~(k.type = "ENGINE" /\ k.to = Sequencer)
    BY <1>2, <1>17 DEF StageInv
  <2>2. RegisterOK(k) /\ k.type \notin Failures /\ k.type # "UNBLOCK"
    BY <1>18 DEF Of, InFlight, IndInv, TypeOK, MessagesOK
  <2>3. Partner(k) # Sequencer
    BY <1>16, <2>1, <2>2, RegistrationAssumption
       DEF RegisterOK, IsRequest, IsAnswer, Partner, Servers, Failures
  <2> QED
    BY <2>1, <2>3
<1>20. Granted(e, v)' = {}
  BY <1>2, <1>UC DEF StageInv, Granted
<1>21. StageInv(e, v)'
  <2>1. \A k, l \in Of(e, v)' : Partner(k) = Partner(l) => k = l
    BY <1>2, <1>6, <1>15, <1>19 DEF StageInv
  <2>2. \A k \in Of(e, v)' : Partner(k) \notin c.nodes
    BY <1>2, <1>5, <1>6, <1>15, <1>16 DEF StageInv
  <2>3. \A k \in Of(e, v)' :
          ~((k.type = "ENGINE" /\ k.to = Sequencer) \/ k.type = "SEQUENCER_OK")
    BY <1>6, <1>15, <1>19
  <2>4. (\E k \in Of(e, v)' : k.type = "UNBLOCK") => c.nodes = Servers
    BY <1>15, <1>18
  <2> QED
    BY <1>5, <1>8, <1>9, <1>17, <1>18, <1>20, <2>1, <2>2, <2>3, <2>4 DEF StageInv
<1>22. ASSUME Knowledge, Alive(e)', NEW s \in Shards, Claims(e, v, s), KnownInv(e, v, s)
       PROVE  KnownInv(e, v, s)'
  <2>1. \A n \in Servers :
          n \in c.nodes \/ (\E k \in Of(e, v)' : k.from = n) =>
            n \in engine[e].conn[v].nodes \/ (\E k \in Of(e, v) : k.from = n)
    BY <1>2, <1>5, <1>6, <1>15, <1>16
  <2>2. Unblocking(e, v)' = {} /\ Unblocking(e, v) = {}
    <3>1. e # Sequencer
      BY RegistrationAssumption
    <3> QED
      BY <1>6, <1>15, <1>18, <3>1 DEF Unblocking
  <2>3. \A k \in Of(e, v)' : k.type # "SEQUENCER_OK"
    BY <1>6, <1>15, <1>19
  <2>4. s # None
    BY RegistrationAssumption DEF Shards
  <2>5. /\ \A n \in StorageNodes : n \in c.nodes \/ (\E k \in Of(e, v)' : k.from = n) =>
             /\ v <= storage[n].view
             /\ storage[n].view = v => storage[n].occupation[s] = e
        /\ \A n \in Peers : n \in c.nodes \/ (\E k \in Of(e, v)' : k.from = n) =>
             v <= peer[n].view /\ (peer[n].view = v => e \in peer[n].engines)
    BY <1>22, <2>1 DEF KnownInv, Servers
  <2>6. /\ v <= seq.view
        /\ seq.view = v /\ engine[e].view = v =>
             s \notin seq.unblocked /\ seq.last_cut[s] = c.local_start
    BY <1>5, <1>17, <1>18, <1>22, <2>2 DEF KnownInv
  <2> QED
    BY <1>8, <1>9, <1>18, <1>UC, <2>2, <2>3, <2>4, <2>5, <2>6 DEF KnownInv
<1>23. \A s \in Shards : engine'[e].shards[v] = s => Claims(e, v, s)
  BY <1>8 DEF Claims
<1>25. Knowledge /\ Alive(e)' => \A s \in Shards :
         Claims(e, v, s) /\ KnownInv(e, v, s) => KnownInv(e, v, s)'
  BY <1>22
<1>24. /\ shardResp' \subseteq shardResp /\ engine'[e].view = engine[e].view
       /\ \A w \in Views : w # v => /\ engine'[e].shards[w] = engine[e].shards[w]
                                    /\ engine'[e].conn[w] = engine[e].conn[w]
  BY <1>UC, <1>8, <1>9
<1>26. EngineMoves(e, v)
  BY <1>2, <1>UC, <1>4, <1>10, <1>11, <1>13, <1>14, <1>23, <1>24 DEF EngineMoves
<1> QED
  BY <1>21, <1>25, <1>26, EngineStep

\* UNBLOCK: the engine is active on its shard.
LEMMA ShardUnblockedStep ==
    ASSUME IndInv, NEW e \in Engines, NEW m \in msgs, OnShardUnblocked(e, m)
    PROVE  IndInv'
<1>1. EngineReceives(e, m, "REGISTER") /\ m.type = "UNBLOCK" /\ m.type \notin Failures
  BY DEF Failures, OnShardUnblocked
<1>0. PICK v \in Views : v = m.view
  BY <1>1, AnswerReceived
<1>2. /\ Alive(e) /\ m.shard \in Shards /\ m.from = Sequencer
      /\ m.engine = e /\ m.to = e /\ m \in Of(e, v) /\ Claims(e, v, m.shard)
      /\ StageInv(e, v) /\ \A r \in shardReq : r.engine # e
  BY <1>0, <1>1, AnswerReceived DEF EngineReceives
<1>3. EnginesOK /\ EngineOK(engine[e])
  BY <1>2 DEF IndInv, TypeOK, EnginesOK
<1> DEFINE p == NewProducer(m.shard, Max({m.position, engine[e].max_position[m.view]}), m.start)
           y == engine[e].next_view # m.view
           t == IF engine[e].shards[m.view] = None THEN m.shard ELSE engine[e].shards[m.view]
<1>4. engine' = [engine EXCEPT ![e].shards[m.view] = IF @ = None THEN m.shard ELSE @,
                             ![e].producer[m.view] = p, ![e].failed = y,
                             ![e].next_view = @ + 1, ![e].active = TRUE]
  BY Zenon DEF OnShardUnblocked
<1>5. y \in BOOLEAN /\ t \in Shards
  BY <1>0, <1>2, <1>3 DEF EngineOK
<1>6. Claims(e, v, t)
  BY <1>0, <1>2 DEF Claims
<1> HIDE DEF p, y
<1>7. DOMAIN engine' = Engines /\ \A x \in Engines : x # e => engine'[x] = engine[x]
  BY <1>3, <1>4, Zenon DEF EnginesOK
<1>8. /\ DOMAIN engine'[e] = DOMAIN engine[e] /\ engine'[e].up = engine[e].up
      /\ engine'[e].failed = y
      /\ engine'[e].view = engine[e].view /\ engine'[e].conn = engine[e].conn
      /\ engine'[e].shards = [engine[e].shards EXCEPT ![v] = t]
  BY <1>0, <1>3, <1>4, ZenonT(60) DEF EngineOK, EnginesOK
<1> HIDE DEF t
<1>9. /\ engine'[e].shards \in [Views -> Shards \cup {None}] /\ engine'[e].shards[v] = t
      /\ \A w \in Views : w # v => engine'[e].shards[w] = engine[e].shards[w]
  BY <1>3, <1>5, <1>8 DEF EngineOK
<1>10. EngineOK(engine'[e])
  BY <1>3, <1>5, <1>8, <1>9 DEF EngineOK
<1>11. msgs' = msgs \ {m}
  BY Zenon DEF OnShardUnblocked, Received
<1>12. UNCHANGED <<ctrl, znodes, seen, shardReq, shardResp, seq, storage, peer>>
  BY Zenon DEF OnShardUnblocked
<1>13. MessagesOK' /\ InFlight' = InFlight \ {m}
  BY <1>11 DEF IndInv, TypeOK, MessagesOK, InFlight
<1>14. \A x, w : x # e \/ w # v => Of(x, w)' = Of(x, w)
  BY <1>0, <1>2, <1>13 DEF Of
<1>15. Of(e, v)' \subseteq Of(e, v)
  BY <1>13 DEF Of
<1>16. EngineMoves(e, v)
  BY <1>2, <1>6, <1>7, <1>8, <1>9, <1>10, <1>12, <1>13, <1>14 DEF EngineMoves
<1>17. t # None
  BY <1>5, RegistrationAssumption DEF Shards
<1>18. /\ engine[e].conn[v].nodes = Servers /\ engine[e].conn[v].sequencer_set
       /\ Granted(e, v) = {}
  BY <1>1, <1>2 DEF StageInv
<1>19. StageInv(e, v)'
  <2>1. Granted(e, v)' = {}
    BY <1>12, <1>18 DEF Granted
  <2> QED
    BY <1>2, <1>7, <1>8, <1>15, <1>18, <2>1 DEF StageInv
<1>20. ASSUME NEW s \in Shards, Claims(e, v, s), KnownInv(e, v, s)
       PROVE  KnownInv(e, v, s)'
  <2>1. s = t
    BY <1>5, <1>6, <1>20 DEF IndInv, ClaimInv
  <2>2. m \in Unblocking(e, v)
    BY <1>1, <1>2 DEF Unblocking
  <2>3. Unblocking(e, v)' \subseteq Unblocking(e, v)
    BY <1>15 DEF Unblocking
  <2>4. seq.view = v => seq.occupation[s] = e /\ s \in seq.unblocked
    BY <1>20, <2>2 DEF KnownInv
  <2> QED
    BY <1>7, <1>8, <1>9, <1>12, <1>15, <1>17, <1>20, <2>1, <2>3, <2>4 DEF KnownInv
<1>21. Knowledge /\ Alive(e)' => \A s \in Shards :
         Claims(e, v, s) /\ KnownInv(e, v, s) => KnownInv(e, v, s)'
  BY <1>20
<1> QED
  BY <1>16, <1>19, <1>21, EngineStep

\* The engine is given a shard, or none.
LEMMA ShardResponseStep ==
    ASSUME IndInv, NEW e \in Engines, NEW r \in shardResp, EngineOnShardResponse(e, r)
    PROVE  IndInv'
<1>1. /\ Alive(e) /\ r.engine = e /\ shardResp' = shardResp \ {r}
      /\ UNCHANGED <<ctrl, znodes, seen, shardReq, seq, storage, peer>>
  BY DEF EngineOnShardResponse
<1>2. r \in [view : Views, engine : Engines, shard : Shards \cup {None}]
  BY DEF IndInv, TypeOK, ZNodesOK
<1>3. PICK v \in Views : v = r.view
  BY <1>2
<1>4. EnginesOK /\ EngineOK(engine[e]) /\ StageInv(e, v)
  BY <1>1 DEF IndInv, TypeOK, EnginesOK, Stages
<1>5. Ahead(e, v)
  BY <1>1, <1>3 DEF IndInv, ViewsInv
<1>6. CASE r.shard # None
  <2> DEFINE a == RegisterMsg("ENGINE", r.view, r.shard, e, 0, e, Sequencer)
  <2>1. engine' = [engine EXCEPT ![e].view = v] /\ msgs' = msgs \cup {a}
    BY <1>3, <1>6 DEF EngineOnShardResponse
  <2>2. /\ a.op = "REGISTER" /\ a.type = "ENGINE" /\ a.view = v /\ a.shard = r.shard
        /\ a.engine = e /\ a.from = e /\ a.to = Sequencer
    BY <1>3 DEF RegisterMsg
  <2> HIDE DEF a
  <2>3. r \in Granted(e, v) /\ r.shard \in Shards /\ Claims(e, v, r.shard)
    BY <1>1, <1>2, <1>3, <1>6 DEF Granted, Claims
  <2>4. /\ Of(e, v) = {} /\ ~engine[e].conn[v].sequencer_set
        /\ engine[e].conn[v].nodes = {} /\ engine[e].shards[v] = None
    BY <1>4, <2>3 DEF StageInv
  <2>5. Granted(e, v)' = {}
    <3> SUFFICES ASSUME NEW q \in Granted(e, v)' PROVE FALSE
      OBVIOUS
    <3>1. q \in shardResp /\ q # r /\ q.engine = e /\ q.view = v /\ q.shard # None
      BY <1>1 DEF Granted
    <3>2. q \in [view : Views, engine : Engines, shard : Shards \cup {None}]
      BY <3>1 DEF IndInv, TypeOK, ZNodesOK
    <3>3. q.shard \in Shards /\ Claims(e, v, q.shard)
      BY <3>1, <3>2 DEF Claims, Granted
    <3>4. q.shard = r.shard
      BY <2>3, <3>3 DEF IndInv, ClaimInv
    <3> QED
      BY <1>1, <1>2, <1>3, <3>1, <3>2, <3>4
  <2>6. /\ DOMAIN engine' = Engines /\ engine'[e] = [engine[e] EXCEPT !.view = v]
        /\ \A x \in Engines : x # e => engine'[x] = engine[x]
    BY <1>4, <2>1 DEF EnginesOK
  <2>7. /\ DOMAIN engine'[e] = DOMAIN engine[e] /\ engine'[e].up = engine[e].up
        /\ engine'[e].failed = engine[e].failed /\ engine'[e].view = v
        /\ engine'[e].conn = engine[e].conn /\ engine'[e].shards = engine[e].shards
    BY <1>4, <2>6 DEF EngineOK
  <2>8. EngineOK(engine'[e])
    BY <1>4, <2>7 DEF EngineOK, Views
  <2>9. MessagesOK'
    <3>1. RegisterOK(a)
      BY <2>2, <2>3 DEF RegisterOK, IsRequest
    <3> QED
      BY <2>1, <3>1 DEF IndInv, TypeOK, MessagesOK
  <2>10. InFlight' = InFlight \cup {a}
    BY <2>1, <2>2 DEF InFlight, Failures
  <2>11. \A x, w : x # e \/ w # v => Of(x, w)' = Of(x, w)
    BY <2>2, <2>10 DEF Of
  <2>12. Of(e, v)' = {a}
    BY <2>2, <2>4, <2>10 DEF Of
  <2>13. Alive(e)'
    BY <1>1, <2>7 DEF Alive
  <2>14. \A s \in Shards : engine'[e].shards[v] = s => Claims(e, v, s)
    BY <2>7 DEF Claims
  <2>15. \A k \in InFlight' : k \in InFlight \/ (k.from = e /\ Claims(k.engine, k.view, k.shard))
    BY <2>2, <2>3, <2>10
  <2>16. EngineMoves(e, v)
    BY <1>1, <1>5, <2>6, <2>7, <2>8, <2>9, <2>11, <2>13, <2>14, <2>15 DEF EngineMoves
  <2>17. StageInv(e, v)'
    BY <2>2, <2>4, <2>5, <2>7, <2>12 DEF StageInv
  <2>18. ASSUME NEW s \in Shards, Claims(e, v, s), KnownInv(e, v, s)
         PROVE  KnownInv(e, v, s)'
    <3>1. \A n \in Servers : n \notin engine[e].conn[v].nodes /\ a.from # n
      BY <2>2, <2>4, RegistrationAssumption DEF Servers
    <3>2. Unblocking(e, v)' = {} /\ s # None
      BY <2>2, <2>12, RegistrationAssumption DEF Unblocking, Shards
    <3> QED
      BY <2>2, <2>4, <2>7, <2>12, <3>1, <3>2 DEF KnownInv, Servers
  <2>19. Knowledge /\ Alive(e)' => \A s \in Shards :
           Claims(e, v, s) /\ KnownInv(e, v, s) => KnownInv(e, v, s)'
    BY <2>18
  <2> QED
    BY <2>16, <2>17, <2>19, EngineStep
<1>7. CASE r.shard = None
  <2>1. UNCHANGED <<engine, msgs>>
    BY <1>7 DEF EngineOnShardResponse
  <2>2. MessagesOK' /\ InFlight' = InFlight
    BY <2>1 DEF IndInv, TypeOK, MessagesOK, InFlight
  <2>3. \A x, w : Of(x, w)' = Of(x, w)
    BY <2>2 DEF Of
  <2>4. Alive(e)'
    BY <1>1, <2>1 DEF Alive
  <2>5. \A s \in Shards : engine[e].shards[v] = s => Claims(e, v, s)
    BY DEF Claims
  <2>6. DOMAIN engine' = Engines /\ EngineOK(engine'[e])
    BY <1>4, <2>1 DEF EnginesOK
  <2>7. EngineMoves(e, v)
    BY <1>1, <2>1, <2>2, <2>3, <2>4, <2>5, <2>6 DEF EngineMoves
  <2>8. Granted(e, v)' \subseteq Granted(e, v)
    BY <1>1 DEF Granted
  <2>9. StageInv(e, v)'
    BY <1>4, <2>1, <2>3, <2>8, StageFrame
  <2>10. ASSUME NEW s \in Shards, KnownInv(e, v, s) PROVE KnownInv(e, v, s)'
    <3>1. Unblocking(e, v)' = Unblocking(e, v)
      BY <2>3 DEF Unblocking
    <3> QED
      BY <1>1, <2>1, <2>3, <2>10, <3>1 DEF KnownInv
  <2>11. Knowledge /\ Alive(e)' => \A s \in Shards :
           Claims(e, v, s) /\ KnownInv(e, v, s) => KnownInv(e, v, s)'
    BY <2>10
  <2> QED
    BY <2>7, <2>9, <2>11, EngineStep
<1> QED
  BY <1>6, <1>7

-----------------------------------------------------------------------------
(* Shards are asked for, handed out and freed. *)

\* OnViewCreated of an engine: it asks for a shard of a view it had not seen.
LEMMA EngineCreatedStep ==
    ASSUME IndInv, NEW e \in Engines, EngineOnViewCreated(e)
    PROVE  IndInv'
<1>1. /\ Alive(e) /\ ~WaitsForShard(e) /\ NextZNode(e, "new") /\ e \in Nodes
      /\ UNCHANGED <<ctrl, znodes, shardResp, seq, storage, peer, msgs>>
  BY DEF EngineOnViewCreated, Nodes
<1>2. PICK w \in Views : w = NextView(e) /\ Ahead(e, w)'
  BY <1>1, NextViewFacts DEF IndInv, TypeOK
<1>3. /\ seen' \in [Nodes -> Nat] /\ \A x \in Nodes : Unread(x)' \subseteq Unread(x)
      /\ ~Ahead(e, w)
  BY <1>1, <1>2, NextViewFacts DEF IndInv, TypeOK, Views
<1> DEFINE q == [view |-> w, engine |-> e]
<1>4. /\ shardReq' = shardReq \cup {q}
      /\ engine' = [engine EXCEPT ![e].conn[w] = NewEngineConnection]
  BY <1>2 DEF EngineOnViewCreated
<1>5. q \in [view : Views, engine : Engines] /\ q.view = w /\ q.engine = e
  OBVIOUS
<1> HIDE DEF q
<1>6. EnginesOK /\ EngineOK(engine[e])
  BY DEF IndInv, TypeOK, EnginesOK
<1>7. /\ DOMAIN engine' = Engines
      /\ engine'[e] = [engine[e] EXCEPT !.conn[w] = NewEngineConnection]
      /\ \A x \in Engines : x # e => engine'[x] = engine[x]
  BY <1>4, <1>6 DEF EnginesOK
<1>8. /\ DOMAIN engine'[e] = DOMAIN engine[e] /\ engine'[e].up = engine[e].up
      /\ engine'[e].failed = engine[e].failed /\ engine'[e].view = engine[e].view
      /\ engine'[e].shards = engine[e].shards
      /\ engine'[e].conn = [engine[e].conn EXCEPT ![w] = NewEngineConnection]
  BY <1>6, <1>7 DEF EngineOK
<1>9. /\ engine'[e].conn[w] = NewEngineConnection
      /\ \A v \in Views : v # w => engine'[e].conn[v] = engine[e].conn[v]
  BY <1>6, <1>8 DEF EngineOK
<1>10. /\ ConnectionOK(NewEngineConnection) /\ NewEngineConnection.sequencer_set = FALSE
       /\ NewEngineConnection.nodes = {}
  BY DEF ConnectionOK, NewEngineConnection
<1>11. EngineOK(engine'[e])
  BY <1>6, <1>8, <1>9, <1>10 DEF EngineOK
<1>12. EnginesOK'
  BY <1>6, <1>7, <1>11 DEF EnginesOK
<1>13. ZNodesOK'
  BY <1>1, <1>3, <1>4, <1>5 DEF IndInv, TypeOK, ZNodesOK
<1>14. TypeOK'
  BY <1>1, <1>12, <1>13
     DEF IndInv, TypeOK, ControllerOK, SequencerOK, StorageOK, PeersOK, MessagesOK
<1>15. ViewsInv'
  <2>1. \A x \in Engines : engine'[x].view = engine[x].view
    BY <1>7, <1>8
  <2>2. Ahead(q.engine, q.view)'
    BY <1>2, <1>5
  <2>3. \A r \in shardReq' \cup shardResp' :
               r \in shardReq \cup shardResp \/ Ahead(r.engine, r.view)'
    BY <1>1, <1>4, <2>2
  <2> QED
    BY <1>1, <1>3, <2>1, <2>3, ViewsFrame DEF IndInv
<1>16. /\ InFlight' = InFlight
       /\ \A x \in Engines : Alive(x)' = Alive(x) /\ engine'[x].shards = engine[x].shards
  BY <1>1, <1>7, <1>8 DEF InFlight, Alive
<1>17. \A x, v : /\ Of(x, v)' = Of(x, v) /\ Unblocking(x, v)' = Unblocking(x, v)
                 /\ Granted(x, v)' = Granted(x, v)
  BY <1>1, <1>16 DEF Of, Unblocking, Granted
<1>18. \A x \in Engines, v \in Views, s \in Shards : Claims(x, v, s)' => Claims(x, v, s)
  BY <1>16, <1>17 DEF Claims
<1>19. \A s \in Shards : ~Claims(e, w, s)
  BY <1>3 DEF IndInv, ClaimInv
<1>20. ClaimInv'
  BY <1>1, <1>3, <1>16, <1>18, ClaimFrame DEF IndInv, TypeOK, ControllerOK
<1>21. HolderInv'
  BY <1>1 DEF IndInv, HolderInv
<1>22. RequestInv'
  <2> SUFFICES ASSUME NEW r \in shardReq'
               PROVE  /\ Alive(r.engine)' /\ \A s \in Shards : ~Claims(r.engine, r.view, s)'
                      /\ ~engine'[r.engine].conn[r.view].sequencer_set
    BY DEF RequestInv
  <2>1. CASE r = q
    <3>1. Alive(r.engine)'
      BY <1>1, <1>5, <1>16, <2>1
    <3>2. \A s \in Shards : ~Claims(r.engine, r.view, s)'
      BY <1>5, <1>18, <1>19, <2>1
    <3> QED
      BY <1>5, <1>9, <1>10, <2>1, <3>1, <3>2
  <2>2. CASE r \in shardReq
    <3>1. r.engine \in Engines /\ r.view \in Views /\ r.engine # e
      BY <1>1, <2>2 DEF IndInv, TypeOK, ZNodesOK, WaitsForShard
    <3>2. /\ Alive(r.engine) /\ \A s \in Shards : ~Claims(r.engine, r.view, s)
          /\ ~engine[r.engine].conn[r.view].sequencer_set
      BY <2>2 DEF IndInv, RequestInv
    <3> QED
      BY <1>7, <1>16, <1>18, <3>1, <3>2
  <2> QED
    BY <1>4, <2>1, <2>2
<1>23. Of(e, w) = {} /\ Granted(e, w) = {} /\ engine[e].shards[w] = None
  <2>1. \A m \in Of(e, w) : m.shard \in Shards
    BY DEF Of, InFlight, IndInv, TypeOK, MessagesOK, RegisterOK
  <2>2. \A r \in Granted(e, w) : r.shard \in Shards
    BY DEF Granted, IndInv, TypeOK, ZNodesOK
  <2>3. engine[e].shards[w] \in Shards \cup {None}
    BY <1>6 DEF EngineOK
  <2> QED
    BY <1>19, <2>1, <2>2, <2>3 DEF Claims
<1>24. ASSUME NEW x \in Engines, Alive(x)', NEW v \in Views
       PROVE  StageInv(x, v)'
  <2>1. CASE x = e /\ v = w
    BY <1>9, <1>10, <1>16, <1>17, <1>23, <2>1 DEF StageInv
  <2>2. CASE x # e \/ v # w
    <3>1. StageInv(x, v)
      BY <1>16, <1>24 DEF IndInv, Stages
    <3>2. engine'[x].conn[v] = engine[x].conn[v] /\ engine'[x].shards[v] = engine[x].shards[v]
      BY <1>7, <1>9, <1>16, <2>2
    <3> QED
      BY <1>17, <3>1, <3>2, StageFrame
  <2> QED
    BY <2>1, <2>2
<1>25. Stages'
  BY <1>24 DEF Stages
<1>26. ASSUME ~LateMessages PROVE Knowledge'
  <2>1. Knowledge
    BY <1>26 DEF IndInv
  <2>2. NoLate'
    BY <1>1, <1>16, <2>1 DEF Knowledge, NoLate
  <2>3. ASSUME NEW x \in Engines, Alive(x)', NEW v \in Views, NEW s \in Shards, Claims(x, v, s)'
        PROVE  KnownInv(x, v, s)'
    <3>1. KnownInv(x, v, s) /\ (x # e \/ v # w)
      BY <1>16, <1>18, <1>19, <2>1, <2>3 DEF Knowledge
    <3>2. /\ engine'[x].conn[v] = engine[x].conn[v] /\ engine'[x].shards[v] = engine[x].shards[v]
          /\ engine'[x].view = engine[x].view
      BY <1>7, <1>8, <1>9, <1>16, <3>1
    <3> QED
      BY <1>1, <1>17, <3>1, <3>2, KnownFrame
  <2> QED
    BY <2>2, <2>3 DEF Knowledge
<1> QED
  BY <1>14, <1>15, <1>20, <1>21, <1>22, <1>25, <1>26 DEF IndInv

\* The controller's books change with the engines' answers and sessions; a node's
\* place in the views does not.
LEMMA ViewsKept ==
    ASSUME TypeOK, ViewsInv, UNCHANGED <<znodes, seen, seq, storage, peer, engine>>,
           ctrl'.view = ctrl.view, ctrl'.state = ctrl.state,
           \A r \in shardReq' \cup shardResp' : \E q \in shardReq \cup shardResp :
               r.engine = q.engine /\ r.view = q.view
    PROVE  ViewsInv'
<1>1. \A n, w : Ahead(n, w)' = Ahead(n, w)
  BY DEF Ahead, Unread
<1>2. Ahead(Sequencer, seq.view)'
  BY <1>1 DEF ViewsInv
<1>3. \A n \in StorageNodes : Ahead(n, storage[n].view)'
  BY <1>1 DEF ViewsInv
<1>4. \A n \in Peers : Ahead(n, peer[n].view)'
  BY <1>1 DEF ViewsInv
<1>5. \A n \in Engines : Ahead(n, engine[n].view)'
  BY <1>1 DEF ViewsInv
<1>6. \A r \in shardReq' \cup shardResp' : Ahead(r.engine, r.view)'
  BY <1>1 DEF ViewsInv
<1> QED
  BY <1>2, <1>3, <1>4, <1>5, <1>6 DEF ViewsInv

\* The session of a dead engine ends: its shard is free, nobody else's is.
LEMMA OfflineStep ==
    ASSUME IndInv, NEW e \in Engines, OnNodeOffline(e)
    PROVE  IndInv'
<1>1. /\ e \in ctrl.online /\ ~Alive(e)
      /\ UNCHANGED <<znodes, seen, shardReq, shardResp, seq, storage, peer, engine>>
      /\ msgs' = IF LateMessages THEN msgs ELSE msgs \ SentBy(e)
  BY DEF OnNodeOffline
<1>2. ControllerOK
  BY DEF IndInv, TypeOK
<1>3. /\ ctrl'.state = ctrl.state /\ ctrl'.view = ctrl.view
      /\ ctrl'.online = ctrl.online \ {e} /\ ctrl'.occupied = ctrl.occupied \ {ctrl.holder[e]}
      /\ ctrl'.holder = [ctrl.holder EXCEPT ![e] = None] /\ DOMAIN ctrl' = DOMAIN ctrl
  BY <1>2 DEF OnNodeOffline, ControllerOK
<1>4. ctrl'.holder[e] = None /\ \A f \in Engines : f # e => ctrl'.holder[f] = ctrl.holder[f]
  BY <1>2, <1>3 DEF ControllerOK
<1>5. ControllerOK'
  BY <1>2, <1>3 DEF ControllerOK
<1>6. msgs' \subseteq msgs
  BY <1>1
<1>7. TypeOK'
  BY <1>1, <1>5, <1>6
     DEF IndInv, TypeOK, ZNodesOK, SequencerOK, StorageOK, PeersOK, EnginesOK, MessagesOK
<1>8. ViewsInv'
  BY <1>1, <1>3, ViewsKept DEF IndInv
<1>9. \A x \in Engines : Alive(x)' = Alive(x)
  BY <1>1 DEF Alive
<1>10. \A x, v : Of(x, v)' \subseteq Of(x, v) /\ Granted(x, v)' = Granted(x, v)
  BY <1>1, <1>6 DEF Of, InFlight, Granted
<1>11. \A x \in Engines, v \in Views, s \in Shards : Claims(x, v, s)' => Claims(x, v, s)
  BY <1>1, <1>10 DEF Claims
<1>12. None \notin Shards
  BY RegistrationAssumption DEF Shards
<1>13. HolderInv'
  BY <1>3, <1>4 DEF IndInv, HolderInv
<1>14. ClaimInv'
  <2>1. \A x \in Engines : Alive(x)' => x \in ctrl'.online
    BY <1>1, <1>3, <1>9 DEF IndInv, ClaimInv
  <2>2. \A x \in Engines, v \in Views, s \in Shards : Claims(x, v, s)' => Ahead(x, v)'
    BY <1>1, <1>3, <1>11 DEF IndInv, ClaimInv, Ahead, Unread
  <2>3. ctrl.online \subseteq Engines /\ ctrl'.online \subseteq Engines
    BY <1>2, <1>3 DEF ControllerOK
  <2>4. ASSUME NEW x \in ctrl'.online, NEW v \in Views, NEW s \in Shards,
               v = ctrl'.view, Claims(x, v, s)'
        PROVE  s \in ctrl'.occupied /\ \A f \in Engines : ctrl'.holder[f] = s => f = x
    <3>1. x \in ctrl.online /\ x # e /\ x \in Engines /\ Claims(x, v, s)
      BY <1>3, <1>11, <2>3, <2>4
    <3>2. s \in ctrl.occupied /\ \A f \in Engines : ctrl.holder[f] = s => f = x
      BY <1>3, <2>4, <3>1 DEF IndInv, ClaimInv
    <3>3. ctrl.holder[e] # s
      BY <3>1, <3>2
    <3> QED
      BY <1>3, <1>4, <1>12, <3>2, <3>3
  <2>5. \A x, f \in ctrl'.online, v \in Views, s \in Shards :
          Claims(x, v, s)' /\ Claims(f, v, s)' => x = f
    BY <1>3, <1>11, <2>3 DEF IndInv, ClaimInv
  <2>6. \A x \in Engines, v \in Views, s, t \in Shards :
          Claims(x, v, s)' /\ Claims(x, v, t)' => s = t
    BY <1>11 DEF IndInv, ClaimInv
  <2> QED
    BY <2>1, <2>2, <2>4, <2>5, <2>6 DEF ClaimInv
<1>15. RequestInv'
  BY <1>1, <1>9, <1>11, RequestFrame DEF IndInv, TypeOK, RequestInv, ZNodesOK
<1>16. Stages'
  <2> SUFFICES ASSUME NEW x \in Engines, Alive(x)', NEW v \in Views
               PROVE  StageInv(x, v)'
    BY DEF Stages
  <2>1. StageInv(x, v)
    BY <1>9 DEF IndInv, Stages
  <2> QED
    BY <1>1, <1>10, <2>1, StageFrame
<1>17. ASSUME ~LateMessages PROVE Knowledge'
  <2>1. Knowledge
    BY <1>17 DEF IndInv
  <2>2. NoLate'
    BY <1>1, <1>3, <1>17, <2>1 DEF Knowledge, NoLate, InFlight, SentBy
  <2>3. ASSUME NEW x \in Engines, Alive(x)', NEW v \in Views, NEW s \in Shards, Claims(x, v, s)'
        PROVE  KnownInv(x, v, s)'
    <3>1. KnownInv(x, v, s) /\ x # e
      BY <1>1, <1>9, <1>11, <2>1, <2>3 DEF Knowledge
    <3>2. Unblocking(x, v)' = Unblocking(x, v)
      <4>1. \A m \in Unblocking(x, v) : m \in msgs /\ m.op = "REGISTER" /\ m.from # e
        <5> SUFFICES ASSUME NEW m \in Unblocking(x, v)
                     PROVE  m \in msgs /\ m.op = "REGISTER" /\ m.from # e
          OBVIOUS
        <5>1. m \in msgs /\ m.op = "REGISTER" /\ m.engine = x
          BY DEF Unblocking, Of, InFlight
        <5>2. RegisterOK(m)
          BY <5>1 DEF IndInv, TypeOK, MessagesOK
        <5> QED
          BY <3>1, <5>1, <5>2, RegistrationAssumption DEF RegisterOK, IsRequest, IsAnswer
      <4>2. \A m \in Unblocking(x, v) : m \in msgs'
        BY <1>1, <4>1 DEF SentBy
      <4> QED
        BY <1>6, <4>2 DEF Unblocking, Of, InFlight
    <3> QED
      BY <1>1, <1>10, <3>1, <3>2, KnownFrame
  <2> QED
    BY <2>2, <2>3 DEF Knowledge
<1> QED
  BY <1>7, <1>8, <1>13, <1>14, <1>15, <1>16, <1>17 DEF IndInv

\* A request is refused: a response without a shard.
LEMMA NoShardStep ==
    ASSUME IndInv, NEW r \in shardReq, shardReq' = shardReq \ {r},
           shardResp' = shardResp \cup {[view |-> r.view, engine |-> r.engine, shard |-> None]},
           UNCHANGED <<ctrl, znodes, seen, seq, storage, peer, engine, msgs>>
    PROVE  IndInv'
<1> DEFINE q == [view |-> r.view, engine |-> r.engine, shard |-> None]
<1>1. r \in [view : Views, engine : Engines]
  BY DEF IndInv, TypeOK, ZNodesOK
<1>2. /\ q \in [view : Views, engine : Engines, shard : Shards \cup {None}]
      /\ q.view = r.view /\ q.engine = r.engine /\ q.shard = None
  BY <1>1
<1>3. shardResp' = shardResp \cup {q}
  OBVIOUS
<1> HIDE DEF q
<1>4. TypeOK'
  BY <1>2, <1>3
     DEF IndInv, TypeOK, ZNodesOK, ControllerOK, SequencerOK, StorageOK, PeersOK, EnginesOK,
         MessagesOK
<1>5. ViewsInv'
  BY <1>2, <1>3, ViewsKept DEF IndInv
<1>6. \A x, v : /\ Of(x, v)' = Of(x, v) /\ Unblocking(x, v)' = Unblocking(x, v)
                /\ Granted(x, v)' = Granted(x, v)
  BY <1>2, <1>3 DEF Of, Unblocking, Granted, InFlight
<1>7. \A x \in Engines, v \in Views, s \in Shards : Claims(x, v, s)' => Claims(x, v, s)
  BY <1>6 DEF Claims
<1>8. /\ \A x \in Engines : Alive(x)' = Alive(x)
      /\ \A x \in Nodes : Unread(x)' \subseteq Unread(x)
  BY DEF Alive, Unread
<1>9. ClaimInv'
  BY <1>7, <1>8, ClaimFrame DEF IndInv, TypeOK, ControllerOK
<1>10. HolderInv'
  BY DEF IndInv, HolderInv
<1>11. RequestInv'
  BY <1>7, <1>8, RequestFrame DEF IndInv, TypeOK, RequestInv, ZNodesOK
<1>12. Stages'
  <2> SUFFICES ASSUME NEW x \in Engines, Alive(x)', NEW v \in Views
               PROVE  StageInv(x, v)'
    BY DEF Stages
  <2>1. StageInv(x, v)
    BY <1>8 DEF IndInv, Stages
  <2> QED
    BY <1>6, <2>1, StageFrame
<1>13. ASSUME ~LateMessages PROVE Knowledge'
  <2>1. Knowledge
    BY <1>13 DEF IndInv
  <2>2. NoLate'
    BY <2>1 DEF Knowledge, NoLate, InFlight
  <2>3. ASSUME NEW x \in Engines, Alive(x)', NEW v \in Views, NEW s \in Shards, Claims(x, v, s)'
        PROVE  KnownInv(x, v, s)'
    <3>1. KnownInv(x, v, s)
      BY <1>7, <1>8, <2>1, <2>3 DEF Knowledge
    <3> QED
      BY <1>6, <3>1, KnownFrame
  <2> QED
    BY <2>2, <2>3 DEF Knowledge
<1> QED
  BY <1>4, <1>5, <1>9, <1>10, <1>11, <1>12, <1>13 DEF IndInv

\* A request is granted: the shard was free, so nobody with a session claims it,
\* and the engine had no claim on another shard of the view.
LEMMA GrantStep ==
    ASSUME IndInv, NEW r \in shardReq, shardReq' = shardReq \ {r}, r.view = ctrl.view,
           NEW shard \in Shards, shard \notin ctrl.occupied,
           ctrl' = [ctrl EXCEPT !.occupied = @ \cup {shard}, !.holder[r.engine] = shard],
           shardResp' = shardResp \cup {[view |-> r.view, engine |-> r.engine, shard |-> shard]},
           UNCHANGED <<znodes, seen, seq, storage, peer, engine, msgs>>
    PROVE  IndInv'
<1>1. r \in [view : Views, engine : Engines]
  BY DEF IndInv, TypeOK, ZNodesOK
<1>2. PICK e \in Engines : e = r.engine
  BY <1>1
<1>3. PICK v \in Views : v = r.view
  BY <1>1
<1> DEFINE q == [view |-> r.view, engine |-> r.engine, shard |-> shard]
<1>4. /\ q \in [view : Views, engine : Engines, shard : Shards \cup {None}]
      /\ q.view = v /\ q.engine = e /\ q.shard = shard
  BY <1>1, <1>2, <1>3
<1>5. shardResp' = shardResp \cup {q}
  OBVIOUS
<1> HIDE DEF q
<1>6. ControllerOK
  BY DEF IndInv, TypeOK
<1>7. /\ ctrl'.state = ctrl.state /\ ctrl'.view = ctrl.view /\ ctrl'.online = ctrl.online
      /\ ctrl'.occupied = ctrl.occupied \cup {shard} /\ DOMAIN ctrl' = DOMAIN ctrl
      /\ ctrl'.holder = [ctrl.holder EXCEPT ![e] = shard]
  BY <1>2, <1>6 DEF ControllerOK
<1>8. ctrl'.holder[e] = shard /\ \A f \in Engines : f # e => ctrl'.holder[f] = ctrl.holder[f]
  BY <1>6, <1>7 DEF ControllerOK
<1>9. ControllerOK'
  BY <1>6, <1>7 DEF ControllerOK
<1>10. TypeOK'
  BY <1>4, <1>5, <1>9
     DEF IndInv, TypeOK, ZNodesOK, SequencerOK, StorageOK, PeersOK, EnginesOK, MessagesOK
<1>11. ViewsInv'
  BY <1>2, <1>3, <1>4, <1>5, <1>7, ViewsKept DEF IndInv
<1>12. /\ \A x \in Engines : Alive(x)' = Alive(x)
       /\ \A x, w : Ahead(x, w)' = Ahead(x, w)
  BY <1>7 DEF Alive, Ahead, Unread
<1>13. \A x, w : /\ Of(x, w)' = Of(x, w) /\ Unblocking(x, w)' = Unblocking(x, w)
                 /\ x # e \/ w # v => Granted(x, w)' = Granted(x, w)
  BY <1>4, <1>5 DEF Of, Unblocking, Granted, InFlight
<1>14. shard # None
  BY RegistrationAssumption DEF Shards
<1>15. /\ Alive(e) /\ \A s \in Shards : ~Claims(e, v, s)
       /\ ~engine[e].conn[v].sequencer_set /\ Ahead(e, v) /\ StageInv(e, v)
  BY <1>2, <1>3 DEF IndInv, RequestInv, ViewsInv, Stages
<1>16. \A x \in Engines, w \in Views, s \in Shards :
         Claims(x, w, s)' => Claims(x, w, s) \/ (x = e /\ w = v /\ s = shard)
  <2> SUFFICES ASSUME NEW x \in Engines, NEW w \in Views, NEW s \in Shards, Claims(x, w, s)',
                      ~Claims(x, w, s)
               PROVE  x = e /\ w = v /\ s = shard
    OBVIOUS
  <2>1. PICK g \in Granted(x, w)' : g.shard = s /\ g \notin Granted(x, w)
    BY <1>13 DEF Claims
  <2>2. g = q /\ x = e /\ w = v
    BY <1>4, <1>5, <2>1 DEF Granted
  <2> QED
    BY <1>4, <2>1, <2>2
<1>17. HolderInv'
  <2>1. \A f \in Engines : f # e => ctrl.holder[f] # shard
    BY <1>14 DEF IndInv, HolderInv
  <2> QED
    BY <1>7, <1>8, <2>1 DEF IndInv, HolderInv
<1>18. ctrl.online \subseteq Engines /\ v = ctrl.view
  BY <1>3, <1>6 DEF ControllerOK
<1>19. \A x \in ctrl.online : ~Claims(x, v, shard)
  BY <1>18 DEF IndInv, ClaimInv
<1>20. ClaimInv'
  <2>1. \A x \in Engines : Alive(x)' => x \in ctrl'.online
    BY <1>7, <1>12 DEF IndInv, ClaimInv
  <2>2. \A x \in Engines, w \in Views, s \in Shards : Claims(x, w, s)' => Ahead(x, w)'
    BY <1>12, <1>15, <1>16 DEF IndInv, ClaimInv
  <2>3. ASSUME NEW x \in ctrl'.online, NEW w \in Views, NEW s \in Shards,
               w = ctrl'.view, Claims(x, w, s)'
        PROVE  s \in ctrl'.occupied /\ \A f \in Engines : ctrl'.holder[f] = s => f = x
    <3>1. x \in ctrl.online /\ x \in Engines
      BY <1>7, <1>18
    <3>2. CASE Claims(x, w, s)
      <4>1. s \in ctrl.occupied /\ \A f \in Engines : ctrl.holder[f] = s => f = x
        BY <1>7, <2>3, <3>1, <3>2 DEF IndInv, ClaimInv
      <4> QED
        BY <1>7, <1>8, <4>1
    <3>3. CASE x = e /\ w = v /\ s = shard
      <4>1. \A f \in Engines : f # e => ctrl.holder[f] # shard
        BY <1>14 DEF IndInv, HolderInv
      <4> QED
        BY <1>7, <1>8, <3>3, <4>1
    <3> QED
      BY <1>16, <2>3, <3>1, <3>2, <3>3
  <2>4. \A x, f \in ctrl'.online, w \in Views, s \in Shards :
          Claims(x, w, s)' /\ Claims(f, w, s)' => x = f
    <3> SUFFICES ASSUME NEW x \in ctrl'.online, NEW f \in ctrl'.online, NEW w \in Views,
                        NEW s \in Shards, Claims(x, w, s)', Claims(f, w, s)'
                 PROVE  x = f
      OBVIOUS
    <3>1. x \in ctrl.online /\ f \in ctrl.online /\ x \in Engines /\ f \in Engines
      BY <1>7, <1>18
    <3>2. /\ Claims(x, w, s) \/ (x = e /\ w = v /\ s = shard)
          /\ Claims(f, w, s) \/ (f = e /\ w = v /\ s = shard)
      BY <1>16, <3>1
    <3>3. CASE w = v /\ s = shard
      BY <1>19, <3>1, <3>2, <3>3
    <3>4. CASE ~(w = v /\ s = shard)
      BY <3>1, <3>2, <3>4 DEF IndInv, ClaimInv
    <3> QED
      BY <3>3, <3>4
  <2>5. \A x \in Engines, w \in Views, s, t \in Shards :
          Claims(x, w, s)' /\ Claims(x, w, t)' => s = t
    <3> SUFFICES ASSUME NEW x \in Engines, NEW w \in Views, NEW s \in Shards, NEW t \in Shards,
                        Claims(x, w, s)', Claims(x, w, t)'
                 PROVE  s = t
      OBVIOUS
    <3>1. /\ Claims(x, w, s) \/ (x = e /\ w = v /\ s = shard)
          /\ Claims(x, w, t) \/ (x = e /\ w = v /\ t = shard)
      BY <1>16
    <3>2. CASE x = e /\ w = v
      BY <1>15, <3>1, <3>2
    <3>3. CASE ~(x = e /\ w = v)
      BY <3>1, <3>3 DEF IndInv, ClaimInv
    <3> QED
      BY <3>2, <3>3
  <2> QED
    BY <2>1, <2>2, <2>3, <2>4, <2>5 DEF ClaimInv
<1>21. RequestInv'
  <2> SUFFICES ASSUME NEW p \in shardReq, p # r
               PROVE  /\ Alive(p.engine)' /\ \A s \in Shards : ~Claims(p.engine, p.view, s)'
                      /\ ~engine[p.engine].conn[p.view].sequencer_set
    BY DEF RequestInv
  <2>1. p \in [view : Views, engine : Engines]
    BY DEF IndInv, TypeOK, ZNodesOK
  <2>2. p.engine # e \/ p.view # v
    BY <1>1, <1>2, <1>3, <2>1
  <2>3. /\ Alive(p.engine) /\ \A s \in Shards : ~Claims(p.engine, p.view, s)
        /\ ~engine[p.engine].conn[p.view].sequencer_set
    BY DEF IndInv, RequestInv
  <2>4. p.engine \in Engines /\ p.view \in Views
    BY <2>1
  <2> QED
    BY <1>12, <1>16, <2>2, <2>3, <2>4
<1>22. Of(e, v) = {} /\ engine[e].conn[v].nodes = {} /\ engine[e].shards[v] = None
  <2>1. \A m \in Of(e, v) : m.shard \in Shards
    BY DEF Of, InFlight, IndInv, TypeOK, MessagesOK, RegisterOK
  <2> QED
    BY <1>15, <2>1 DEF Claims, StageInv
<1>23. ASSUME NEW x \in Engines, Alive(x)', NEW w \in Views
       PROVE  StageInv(x, w)'
  <2>1. CASE x = e /\ w = v
    BY <1>13, <1>15, <1>22, <2>1 DEF StageInv
  <2>2. CASE x # e \/ w # v
    <3>1. StageInv(x, w)
      BY <1>12, <1>23 DEF IndInv, Stages
    <3> QED
      BY <1>13, <2>2, <3>1, StageFrame
  <2> QED
    BY <2>1, <2>2
<1>24. Stages'
  BY <1>23 DEF Stages
<1>25. ASSUME ~LateMessages PROVE Knowledge'
  <2>1. Knowledge
    BY <1>25 DEF IndInv
  <2>2. NoLate'
    BY <1>7, <2>1 DEF Knowledge, NoLate, InFlight
  <2>3. ASSUME NEW x \in Engines, Alive(x)', NEW w \in Views, NEW s \in Shards, Claims(x, w, s)'
        PROVE  KnownInv(x, w, s)'
    <3>1. CASE x = e /\ w = v
      <4>1. Unblocking(e, v) = {} /\ s # None
        BY <1>22, RegistrationAssumption DEF Unblocking, Shards
      <4> QED
        BY <1>13, <1>15, <1>22, <3>1, <4>1 DEF KnownInv
    <3>2. CASE x # e \/ w # v
      <4>1. KnownInv(x, w, s)
        BY <1>12, <1>16, <2>1, <2>3, <3>2 DEF Knowledge
      <4> QED
        BY <1>13, <4>1, KnownFrame
    <3> QED
      BY <3>1, <3>2
  <2> QED
    BY <2>2, <2>3 DEF Knowledge
<1> QED
  BY <1>10, <1>11, <1>17, <1>20, <1>21, <1>24, <1>25 DEF IndInv

\* OnStorageShardZNodeCreated.
LEMMA ShardRequestStep ==
    ASSUME IndInv, NEW r \in shardReq, OnStorageShardZNodeCreated(r)
    PROVE  IndInv'
<1> USE DEF OnStorageShardZNodeCreated
<1>1. CASE r.view = ctrl.view /\ FreeShards # {}
           /\ LET shard == Min(FreeShards)
              IN  /\ ctrl' = [ctrl EXCEPT !.occupied = @ \cup {shard},
                                          !.holder[r.engine] = shard]
                  /\ shardResp' = shardResp \cup
                       {[view |-> r.view, engine |-> r.engine, shard |-> shard]}
  <2>1. FreeShards \in SUBSET Nat
    BY RegistrationAssumption DEF FreeShards, Shards
  <2>2. Min(FreeShards) \in FreeShards
    BY <1>1, <2>1, MinFacts
  <2>3. PICK shard : shard = Min(FreeShards)
    OBVIOUS
  <2>4. shard \in Shards /\ shard \notin ctrl.occupied
    BY <2>2, <2>3 DEF FreeShards
  <2>5. /\ ctrl' = [ctrl EXCEPT !.occupied = @ \cup {shard}, !.holder[r.engine] = shard]
        /\ shardResp' = shardResp \cup {[view |-> r.view, engine |-> r.engine, shard |-> shard]}
    BY <1>1, <2>3
  <2> QED
    BY <1>1, <2>4, <2>5, GrantStep
<1>2. CASE /\ shardResp' = shardResp \cup
                {[view |-> r.view, engine |-> r.engine, shard |-> None]}
           /\ UNCHANGED ctrl
  BY <1>2, NoShardStep
<1> QED
  BY <1>1, <1>2

-----------------------------------------------------------------------------
(* The theorems. *)

\* No view is installed, no engine has a shard and nothing is under way.
LEMMA InitIndInv ==
    ASSUME Init
    PROVE  IndInv
<1> USE DEF Init
<1>1. MaxView \in Nat /\ -1 \in -1 .. MaxView /\ None \notin Shards
  BY RegistrationAssumption DEF Shards
<1>2. ControllerOK
  BY <1>1 DEF ControllerOK, ControllerInit
<1>3. ZNodesOK /\ Len(znodes) = 0
  BY DEF ZNodesOK
<1>4. SequencerOK
  BY <1>1 DEF SequencerOK, NewPrimary, NoOccupation
<1>5. StorageOK
  BY <1>1 DEF StorageOK, NewLogStorage, NoOccupation
<1>6. PeersOK /\ \A n \in Peers : peer[n].view = -1
  BY <1>1 DEF PeersOK, NewPeer
<1>7. EngineOK(EngineInit)
  <2>1. ConnectionOK(NewEngineConnection)
    BY DEF ConnectionOK, NewEngineConnection
  <2> DEFINE c == NewEngineConnection
  <2> HIDE DEF c
  <2>2. \A v \in Views : EngineInit.conn[v] = c
    BY DEF EngineInit, c
  <2> QED
    BY <1>1, <2>1, <2>2 DEF EngineOK, EngineInit, c
<1>8. EnginesOK /\ \A e \in Engines : engine[e] = EngineInit
  BY <1>7 DEF EnginesOK
<1>9. TypeOK
  BY <1>2, <1>3, <1>4, <1>5, <1>6, <1>8 DEF TypeOK, MessagesOK
<1>10. InFlight = {} /\ \A e, v : Of(e, v) = {} /\ Granted(e, v) = {} /\ Unblocking(e, v) = {}
  BY DEF InFlight, Of, Granted, Unblocking
<1>11. \A e \in Engines, v \in Views :
         /\ engine[e].shards[v] = None /\ engine[e].conn[v] = NewEngineConnection
         /\ engine[e].view = -1
  BY <1>8 DEF EngineInit
<1>12. \A e \in Engines, v \in Views, s \in Shards : ~Claims(e, v, s)
  BY <1>1, <1>10, <1>11 DEF Claims
<1>13. \A n \in Nodes : Ahead(n, -1)
  BY <1>3 DEF Ahead, Unread, ControllerInit
<1>14. ViewsInv
  <2>1. Ahead(Sequencer, seq.view)
    BY <1>13 DEF NewPrimary, Nodes
  <2>2. \A n \in StorageNodes : Ahead(n, storage[n].view)
    BY <1>13 DEF NewLogStorage, Nodes
  <2>3. \A n \in Peers : Ahead(n, peer[n].view)
    BY <1>6, <1>13 DEF Nodes
  <2>4. \A e \in Engines : Ahead(e, engine[e].view)
    BY <1>8, <1>13 DEF EngineInit, Nodes
  <2> QED
    BY <1>3, <2>1, <2>2, <2>3, <2>4 DEF ViewsInv, ControllerInit
<1>15. HolderInv
  BY DEF HolderInv, ControllerInit
<1>16. ctrl.online = Engines
  BY DEF ControllerInit
<1>17. ClaimInv
  BY <1>12, <1>16 DEF ClaimInv
<1>18. RequestInv
  BY DEF RequestInv
<1>19. Stages
  BY <1>10, <1>11 DEF Stages, StageInv, NewEngineConnection
<1>20. Knowledge
  BY <1>10, <1>12 DEF Knowledge, NoLate
<1> QED
  BY <1>9, <1>14, <1>15, <1>17, <1>18, <1>19, <1>20 DEF IndInv

\* Every step keeps the invariant.
LEMMA StepIndInv ==
    ASSUME IndInv, [Next]_vars
    PROVE  IndInv'
<1>1. CASE UNCHANGED vars
  <2>1. TypeOK' /\ MessagesOK'
    BY <1>1
       DEF IndInv, TypeOK, ControllerOK, ZNodesOK, SequencerOK, StorageOK, PeersOK, EnginesOK,
           MessagesOK, vars
  <2>2. InFlight' = InFlight
    BY <1>1 DEF InFlight, vars
  <2>3. UNCHANGED <<ctrl, znodes, seen, shardReq, shardResp, seq, storage, peer, engine>>
    BY <1>1 DEF vars
  <2> QED
    BY <2>1, <2>2, <2>3, MessagesStep
<1>2. CASE StartCommandHandler \/ ReconfigCommandHandler
           \/ OnFreezeZNodeCreated \/ OnFinalizePublished
  BY <1>2, ControllerStep
<1>3. CASE SequencerOnViewCreated
  BY <1>3, SequencerCreatedStep
<1>4. CASE SequencerOnViewFrozen
  BY <1>4, SequencerFrozenStep
<1>5. CASE MarkNextCut
  BY <1>5, MarkNextCutStep
<1>6. ASSUME NEW n \in StorageNodes, StorageOnViewCreated(n) \/ StorageOnViewFinalized(n)
      PROVE  IndInv'
  BY <1>6, StorageCreatedStep, StorageFinalizedStep
<1>7. ASSUME NEW n \in Peers, IndexerOnViewCreated(n) \/ AggregatorOnViewCreated(n)
      PROVE  IndInv'
  BY <1>7, PeerCreatedStep
<1>8. ASSUME NEW n \in Peers, NEW e \in Engines, RemoveEngineNode(n, e)
      PROVE  IndInv'
  BY <1>8, RemoveEngineStep
<1>9. ASSUME NEW r \in shardReq, OnStorageShardZNodeCreated(r)
      PROVE  IndInv'
  BY <1>9, ShardRequestStep
<1>10. ASSUME NEW e \in Engines,
              \/ OnNodeOffline(e) \/ Crash(e) \/ EngineOnViewCreated(e)
              \/ EngineOnViewFrozen(e) \/ EngineOnViewFinalized(e) \/ HandleLocalAppend(e)
       PROVE  IndInv'
  BY <1>10, OfflineStep, CrashStep, EngineCreatedStep, EngineFrozenStep, EngineFinalizedStep,
     AppendStep
<1>11. ASSUME NEW e \in Engines, NEW r \in shardResp, EngineOnShardResponse(e, r)
       PROVE  IndInv'
  BY <1>11, ShardResponseStep
<1>12. ASSUME NEW m \in msgs, SequencerOnRecvRegistration(m) \/ SequencerOnRecvShardProgress(m)
       PROVE  IndInv'
  BY <1>12, SequencerRegistrationStep, ShardProgressStep
<1>13. ASSUME NEW m \in msgs, NEW n \in StorageNodes,
              \/ StorageOnRecvRegistration(n, m) \/ HandleReplicateRequest(n, m)
              \/ StorageOnRecvNewMetaLogs(n, m)
       PROVE  IndInv'
  BY <1>13, StorageRegistrationStep, ReplicateStep, StorageMetaLogsStep
<1>14. ASSUME NEW m \in msgs, NEW n \in Peers,
              IndexerOnRecvRegistration(n, m) \/ AggregatorOnRecvRegistration(n, m)
       PROVE  IndInv'
  BY <1>14, PeerRegistrationStep
<1>15. ASSUME NEW m \in msgs, NEW e \in Engines,
              \/ OnRegistrationFailed(e, m) \/ OnSequencerRegistered(e, m)
              \/ OnNodeRegistered(e, m) \/ OnShardUnblocked(e, m)
              \/ EngineOnRecvNewMetaLogs(e, m)
       PROVE  IndInv'
  BY <1>15, RegistrationFailedStep, SequencerRegisteredStep, NodeRegisteredStep,
     ShardUnblockedStep, EngineMetaLogsStep
<1> QED
  BY <1>1, <1>2, <1>3, <1>4, <1>5, <1>6, <1>7, <1>8, <1>9, <1>10, <1>11, <1>12, <1>13, <1>14,
     <1>15 DEF Next

\* The controller's books, the views of the nodes, and the claims and stages of all
\* registrations agree in every reachable state: the inductive invariant.
THEOREM Invariance == Spec => []IndInv
<1>1. Init => IndInv
  BY InitIndInv
<1>2. IndInv /\ [Next]_vars => IndInv'
  BY StepIndInv
<1> QED
  BY <1>1, <1>2, PTL DEF Spec

\* No two live engines are active on the same shard of a view, whatever crashes,
\* view changes and late messages come in between
\* (Controller::OnStorageShardZNodeCreated, OnNodeOffline, engine registration).
THEOREM OneHolder == Spec => []ShardHeldOnce
<1>1. IndInv => ShardHeldOnce
  <2> SUFFICES ASSUME IndInv, NEW e \in Engines, NEW f \in Engines, NEW v \in Views,
                      NEW s \in Shards, ActiveOn(e, v, s), ActiveOn(f, v, s)
               PROVE  e = f
    BY DEF ShardHeldOnce
  <2>1. Claims(e, v, s) /\ Claims(f, v, s) /\ Alive(e) /\ Alive(f)
    BY DEF ActiveOn, Claims
  <2> QED
    BY <2>1 DEF IndInv, ClaimInv
<1> QED
  BY <1>1, Invariance, PTL

\* When the messages of a dead engine do not outlive its session, every node in the
\* view of an active engine knows it, and its local ids start where those of the
\* shard's earlier holders end.
THEOREM ActiveIsKnown ==
    ASSUME ~LateMessages
    PROVE  Spec => []ActiveEngineIsKnown
<1>1. IndInv => ActiveEngineIsKnown
  <2> SUFFICES ASSUME IndInv PROVE ActiveEngineIsKnown
    OBVIOUS
  <2>1. ASSUME NEW e \in Engines, NEW s \in Shards, engine[e].view >= 0,
               ActiveOn(e, engine[e].view, s)
        PROVE  /\ seq.view = engine[e].view => seq.occupation[s] = e
               /\ \A n \in StorageNodes :
                    storage[n].view = engine[e].view => storage[n].occupation[s] = e
               /\ \A n \in Peers : peer[n].view = engine[e].view => e \in peer[n].engines
    <3>1. PICK v \in Views : v = engine[e].view
      BY <2>1 DEF IndInv, TypeOK, EnginesOK, EngineOK, Views
    <3>2. Alive(e) /\ engine[e].shards[v] = s /\ Claims(e, v, s)
      BY <2>1, <3>1 DEF ActiveOn, Claims
    <3>3. KnownInv(e, v, s) /\ StageInv(e, v) /\ s # None
      BY <3>2, RegistrationAssumption DEF IndInv, Knowledge, Stages, Shards
    <3>4. engine[e].conn[v].nodes = Servers
      BY <3>2, <3>3 DEF StageInv
    <3> QED
      BY <3>1, <3>2, <3>3, <3>4 DEF KnownInv, Servers
  <2>2. ASSUME NEW m \in msgs, m.op = "REGISTER", m.type = "UNBLOCK", m.to \in Engines,
               Alive(m.to), engine[m.to].view = m.view
        PROVE  m.start = engine[m.to].conn[m.view].local_start
    <3>1. RegisterOK(m)
      BY <2>2 DEF IndInv, TypeOK, MessagesOK
    <3>2. m.engine = m.to /\ m.view \in Views /\ m.shard \in Shards
      BY <2>2, <3>1, RegistrationAssumption DEF RegisterOK, IsRequest, IsAnswer, Servers
    <3>3. m \in Unblocking(m.to, m.view) /\ Claims(m.to, m.view, m.shard)
      BY <2>2, <3>2 DEF Unblocking, Of, InFlight, Failures, Claims
    <3>4. KnownInv(m.to, m.view, m.shard)
      BY <2>2, <3>2, <3>3 DEF IndInv, Knowledge
    <3> QED
      BY <2>2, <3>3, <3>4 DEF KnownInv
  <2> QED
    BY <2>1, <2>2 DEF ActiveEngineIsKnown
<1> QED
  BY <1>1, Invariance, PTL
-----------------------------------------------------------------------------
(* Cuts and entries: a second invariant, over the sequencer, the storage     *)
(* nodes and the messages between them.                                      *)

Cuts    == {m \in msgs : m.op = "METALOGS" /\ m.to \in StorageNodes}
Reports == {m \in msgs : m.op = "SHARD_PROG"}

EntriesOK ==
    /\ seq.last_cut \in [Shards -> Nat]
    /\ seq.progress \in [Shards -> [StorageNodes -> Nat]]
    /\ \A n \in StorageNodes :
         /\ storage[n].finalized \in BOOLEAN /\ IsFiniteSet(storage[n].pending)
         /\ storage[n].progress \in [Shards -> Nat]

\* A storage node never reports more than it has, and the sequencer believes no more.
ReportInv ==
    /\ \A m \in Reports :
         /\ m.from \in StorageNodes /\ m.view \in Int /\ m.progress \in [Shards -> Nat]
         /\ m.view <= storage[m.from].view
         /\ m.view = storage[m.from].view =>
              \A s \in Shards : m.progress[s] <= storage[m.from].progress[s]
    /\ \A n \in StorageNodes, s \in Shards :
         /\ storage[n].view < seq.view => seq.progress[s][n] = 0
         /\ storage[n].view = seq.view => seq.progress[s][n] <= storage[n].progress[s]

\* The ids of a cut are below the last cut of its view; cuts are disjoint; a shard to
\* be cut has entries on every storage node.
CutInv ==
    /\ \A m \in Cuts :
         /\ m.view \in Int /\ m.view <= seq.view /\ m.view <= storage[m.to].view
         /\ \A s \in Shards : CutIds(m, s) \subseteq Nat
         /\ m.view = seq.view => \A s \in Shards : \A i \in CutIds(m, s) : i < seq.last_cut[s]
    /\ \A m, k \in Cuts : m.to = k.to /\ m.view = k.view /\ m # k =>
         \A s \in Shards : CutIds(m, s) \cap CutIds(k, s) = {}
    /\ seq.dirty # {} => StorageNodes # {}
    /\ \A s \in seq.dirty : \A n \in StorageNodes : seq.last_cut[s] < seq.progress[s][n]

\* Where the entries that are not cut begin, as storage node n sees it.
Uncut(n, s) == IF seq.view = storage[n].view THEN seq.last_cut[s] ELSE 0

\* What is cut and not applied, and what is not cut, is pending.
PendingInv ==
    \A n \in StorageNodes : ~storage[n].finalized =>
        /\ \A m \in Cuts : m.to = n /\ m.view = storage[n].view =>
             \A s \in Shards : CutIds(m, s) \subseteq StoredIds(storage[n].pending, s)
        /\ seq.view <= storage[n].view => \A s \in Shards :
             Uncut(n, s) .. storage[n].progress[s] - 1 \subseteq StoredIds(storage[n].pending, s)

\* A view is finalized once: a new one comes before the next is.
FinalizeInv ==
    LET Is(i, type) == i \in 1 .. Len(znodes) /\ znodes[i].type = type IN
    /\ \A i, j \in 1 .. Len(znodes) :
         i < j /\ Is(i, "finalize") /\ Is(j, "finalize") =>
             \E k \in i + 1 .. j - 1 : Is(k, "new")
    /\ ctrl.state \in {"normal", "reconfiguring"} =>
         \A i \in 1 .. Len(znodes) : Is(i, "finalize") =>
             \E k \in i + 1 .. Len(znodes) : Is(k, "new")
    /\ \A n \in StorageNodes : storage[n].finalized => Is(seen[n], "finalize")

EntryInv == EntriesOK /\ ReportInv /\ CutInv /\ PendingInv /\ CutIsStored

\* Reports stay true when nothing is added to them.
LEMMA ReportFrame ==
    ASSUME ReportInv, Reports' \subseteq Reports,
           seq'.view = seq.view, seq'.progress = seq.progress,
           \A n \in StorageNodes : /\ storage'[n].view = storage[n].view
                                   /\ storage'[n].progress = storage[n].progress
    PROVE  ReportInv'
<1>1. \A m \in Reports' : /\ m \in Reports /\ storage'[m.from].view = storage[m.from].view
                          /\ storage'[m.from].progress = storage[m.from].progress
  BY DEF ReportInv
<1> QED
  BY <1>1 DEF ReportInv

\* Cuts stay disjoint and below the last cut when nothing is added to them.
LEMMA CutFrame ==
    ASSUME CutInv, Cuts' \subseteq Cuts, seq'.view = seq.view, seq'.last_cut = seq.last_cut,
           seq'.progress = seq.progress, seq'.dirty \subseteq seq.dirty,
           \A n \in StorageNodes : storage'[n].view = storage[n].view
    PROVE  CutInv'
<1>1. \A m \in Cuts' : m \in Cuts /\ storage'[m.to].view = storage[m.to].view
  BY DEF Cuts
<1> QED
  BY <1>1 DEF CutInv

\* A step that leaves cuts, progress and entries as they are.
LEMMA EntryFrame ==
    ASSUME EntryInv,
           seq'.view = seq.view, seq'.last_cut = seq.last_cut, seq'.progress = seq.progress,
           seq'.dirty \subseteq seq.dirty,
           \A n \in StorageNodes :
             /\ storage'[n].view = storage[n].view /\ storage'[n].finalized = storage[n].finalized
             /\ storage'[n].pending = storage[n].pending
             /\ storage'[n].progress = storage[n].progress /\ storage'[n].failed # "missing",
           \A m \in msgs' : m.op \in {"METALOGS", "SHARD_PROG"} => m \in msgs
    PROVE  EntryInv'
<1>1. Cuts' \subseteq Cuts /\ Reports' \subseteq Reports
  BY DEF Cuts, Reports
<1>2. EntriesOK'
  BY DEF EntryInv, EntriesOK
<1>3. ReportInv'
  BY <1>1, ReportFrame DEF EntryInv
<1>4. CutInv'
  BY <1>1, CutFrame DEF EntryInv
<1>5. PendingInv'
  <2>1. \A n \in StorageNodes, s \in Shards : Uncut(n, s)' = Uncut(n, s)
    BY DEF Uncut
  <2> QED
    BY <1>1, <2>1 DEF EntryInv, PendingInv
<1> QED
  BY <1>2, <1>3, <1>4, <1>5 DEF EntryInv, CutIsStored

\* Steps of the controller, the engines, and the index and aggregator nodes.
LEMMA EntryQuiet ==
    ASSUME EntryInv, UNCHANGED <<seq, storage>>,
           \A m \in msgs' : m.op \in {"METALOGS", "SHARD_PROG"} => m \in msgs
    PROVE  EntryInv'
  BY EntryFrame DEF EntryInv, CutIsStored

\* A new view at the sequencer: nothing of it is cut, and no node it has not reached
\* has reported.
LEMMA EntrySequencerCreated ==
    ASSUME IndInv, EntryInv, SequencerOnViewCreated
    PROVE  EntryInv'
<1> USE DEF SequencerOnViewCreated
<1>1. UNCHANGED <<storage, msgs, ctrl, znodes>> /\ Sequencer \in Nodes
  BY DEF Nodes
<1>2. PICK v \in Views : v = NextView(Sequencer) /\ seq.view < v
  BY <1>1, NextViewFacts DEF IndInv, TypeOK, ViewsInv
<1>3. /\ seq' = NewPrimary(v, seq.occupation)
      /\ seq.view \in Int /\ v \in Int /\ \A n \in StorageNodes : storage[n].view \in Int
  BY <1>2 DEF IndInv, TypeOK, SequencerOK, StorageOK, Views
<1>4. /\ seq'.view = v /\ seq'.dirty = {} /\ seq'.last_cut = [s \in Shards |-> 0]
      /\ seq'.progress = [s \in Shards |-> [n \in StorageNodes |-> 0]]
  BY <1>3 DEF NewPrimary
<1>5. Cuts' = Cuts /\ Reports' = Reports
  BY <1>1 DEF Cuts, Reports
<1>6. EntriesOK'
  BY <1>1, <1>4 DEF EntryInv, EntriesOK
<1>7. ReportInv'
  BY <1>1, <1>4, <1>5, <1>6 DEF EntryInv, ReportInv, EntriesOK
<1>8. CutInv'
  BY <1>1, <1>2, <1>3, <1>4, <1>5 DEF EntryInv, CutInv
<1>9. PendingInv'
  <2> SUFFICES ASSUME NEW n \in StorageNodes, ~storage[n].finalized
               PROVE  /\ \A m \in Cuts : m.to = n /\ m.view = storage[n].view =>
                           \A s \in Shards : CutIds(m, s) \subseteq StoredIds(storage[n].pending, s)
                      /\ v <= storage[n].view => \A s \in Shards :
                           Uncut(n, s)' .. storage[n].progress[s] - 1
                               \subseteq StoredIds(storage[n].pending, s)
    BY <1>1, <1>4, <1>5 DEF PendingInv
  <2>1. v <= storage[n].view => \A s \in Shards : Uncut(n, s) = 0 /\ Uncut(n, s)' = 0
    BY <1>1, <1>2, <1>3, <1>4 DEF Uncut
  <2>2. v <= storage[n].view => seq.view <= storage[n].view
    BY <1>2, <1>3
  <2> QED
    BY <2>1, <2>2 DEF EntryInv, PendingInv
<1> QED
  BY <1>1, <1>6, <1>7, <1>8, <1>9 DEF EntryInv, CutIsStored

\* A new view at a storage node, which has no entry, no cut and no report of it.
LEMMA EntryStorageCreated ==
    ASSUME IndInv, EntryInv, NEW n \in StorageNodes, StorageOnViewCreated(n)
    PROVE  EntryInv'
<1> USE DEF StorageOnViewCreated
<1>1. UNCHANGED <<seq, msgs, ctrl, znodes>> /\ n \in Nodes
  BY DEF Nodes
<1>2. PICK v \in Views : v = NextView(n) /\ storage[n].view < v
  BY <1>1, NextViewFacts DEF IndInv, TypeOK, ViewsInv
<1>3. /\ seq.view \in Int /\ v \in Int /\ \A x \in StorageNodes : storage[x].view \in Int
      /\ DOMAIN storage = StorageNodes /\ seq.dirty \subseteq Shards
  BY DEF IndInv, TypeOK, SequencerOK, StorageOK, Views
<1>4. storage' = [storage EXCEPT ![n] = NewLogStorage(v, storage[n].occupation)]
  BY <1>2
<1>5. /\ \A x \in StorageNodes : x # n => storage'[x] = storage[x]
      /\ storage'[n].view = v /\ storage'[n].finalized = FALSE /\ storage'[n].pending = {}
      /\ storage'[n].progress = [s \in Shards |-> 0] /\ storage'[n].failed = None
  BY <1>3, <1>4 DEF NewLogStorage
<1>6. Cuts' = Cuts /\ Reports' = Reports
  BY <1>1 DEF Cuts, Reports
<1>7. EntriesOK'
  <2>1. IsFiniteSet(storage'[n].pending)
    BY <1>5, FS_EmptySet
  <2>2. \A x \in StorageNodes :
          IsFiniteSet(storage'[x].pending) /\ storage'[x].progress \in [Shards -> Nat]
    BY <1>5, <2>1 DEF EntryInv, EntriesOK
  <2>3. \A x \in StorageNodes : storage'[x].finalized \in BOOLEAN
    BY <1>5, Zenon DEF EntryInv, EntriesOK
  <2> QED
    BY <1>1, <2>2, <2>3 DEF EntryInv, EntriesOK
<1>8. ReportInv'
  <2>1. \A m \in Reports : m.from = n => m.view < v
    BY <1>2, <1>3 DEF EntryInv, ReportInv
  <2>2. \A s \in Shards : v >= 0 /\ storage[n].view < seq.view => seq.progress[s][n] = 0
    BY DEF EntryInv, ReportInv
  <2>3. \A x \in StorageNodes, s \in Shards :
          /\ storage'[x].view < seq.view => seq.progress[s][x] = 0
          /\ storage'[x].view = seq.view => seq.progress[s][x] <= storage'[x].progress[s]
    BY <1>2, <1>3, <1>5, <2>2 DEF EntryInv, ReportInv, Views
  <2>4. \A m \in Reports :
         /\ m.from \in StorageNodes /\ m.view \in Int /\ m.progress \in [Shards -> Nat]
         /\ m.view <= storage'[m.from].view
         /\ m.view = storage'[m.from].view =>
              \A s \in Shards : m.progress[s] <= storage'[m.from].progress[s]
    BY <1>3, <1>5, <2>1 DEF EntryInv, ReportInv
  <2> QED
    BY <1>1, <1>6, <2>3, <2>4 DEF ReportInv
<1>9. CutInv'
  <2>1. \A m \in Cuts : m.view <= storage'[m.to].view
    BY <1>2, <1>3, <1>5 DEF EntryInv, CutInv, Cuts
  <2> QED
    BY <1>1, <1>6, <2>1 DEF EntryInv, CutInv
<1>10. PendingInv'
  <2> SUFFICES ASSUME NEW x \in StorageNodes, ~storage'[x].finalized
               PROVE  /\ \A m \in Cuts : m.to = x /\ m.view = storage'[x].view =>
                           \A s \in Shards : CutIds(m, s) \subseteq StoredIds(storage'[x].pending, s)
                      /\ seq.view <= storage'[x].view => \A s \in Shards :
                           Uncut(x, s)' .. storage'[x].progress[s] - 1
                               \subseteq StoredIds(storage'[x].pending, s)
    BY <1>1, <1>6 DEF PendingInv
  <2>1. CASE x # n
    <3>1. \A s \in Shards : Uncut(x, s)' = Uncut(x, s)
      BY <1>1, <1>5, <2>1 DEF Uncut
    <3> QED
      BY <1>5, <2>1, <3>1 DEF EntryInv, PendingInv
  <2>2. CASE x = n
    <3>1. \A m \in Cuts : m.to = n => m.view < v
      BY <1>2, <1>3 DEF EntryInv, CutInv
    <3>2. \A s \in Shards : Uncut(n, s)' \in Nat /\ storage'[n].progress[s] = 0
      BY <1>1, <1>5, <1>7 DEF Uncut, EntriesOK
    <3>3. \A s \in Shards : Uncut(n, s)' .. storage'[n].progress[s] - 1 = {}
      BY <3>2
    <3> QED
      BY <1>3, <1>5, <2>2, <3>1, <3>3
  <2> QED
    BY <2>1, <2>2
<1> QED
  BY <1>5, <1>7, <1>8, <1>9, <1>10, RegistrationAssumption DEF EntryInv, CutIsStored

\* The end of a view at a storage node: the rest of the metalog finds its entries.
LEMMA EntryStorageFinalized ==
    ASSUME IndInv, EntryInv, FinalizeInv, NEW n \in StorageNodes, StorageOnViewFinalized(n)
    PROVE  EntryInv'
<1> USE DEF StorageOnViewFinalized
<1>1. /\ UNCHANGED <<seq, msgs, znodes>> /\ DOMAIN storage = StorageNodes /\ seen[n] \in Nat
      /\ Len(znodes) \in Nat
  BY DEF IndInv, TypeOK, StorageOK, ZNodesOK, Nodes
<1>2. ~storage[n].finalized
  <2> SUFFICES ASSUME storage[n].finalized PROVE FALSE
    OBVIOUS
  <2> DEFINE j == Min(Unseen(n))
  <2>1. Unseen(n) \in SUBSET Nat /\ Unseen(n) # {} /\ znodes[j].type = "finalize"
    BY <1>1 DEF NextZNode, Unseen
  <2>2. j \in Unseen(n) /\ \A k \in Unseen(n) : j <= k
    BY <2>1, MinFacts
  <2> HIDE DEF j
  <2>3. j \in seen[n] + 1 .. Len(znodes)
    BY <2>2 DEF Unseen
  <2>4. seen[n] \in 1 .. Len(znodes) /\ znodes[seen[n]].type = "finalize"
    BY DEF FinalizeInv
  <2>5. PICK k \in seen[n] + 1 .. j - 1 : k \in 1 .. Len(znodes) /\ znodes[k].type = "new"
    BY <1>1, <2>1, <2>3, <2>4 DEF FinalizeInv
  <2>6. "new" \in Handles(n)
    BY RegistrationAssumption DEF Handles
  <2>7. k \in Unseen(n)
    BY <1>1, <2>5, <2>6 DEF Unseen
  <2> QED
    BY <1>1, <2>2, <2>3, <2>5, <2>7
<1>3. HoldsCut(n, RestOfMetaLog(n))
  BY <1>2 DEF HoldsCut, RestOfMetaLog, EntryInv, PendingInv, Cuts
<1>4. storage' = [storage EXCEPT ![n].pending = {}, ![n].finalized = TRUE, ![n].failed = None]
  BY <1>3
<1>5. /\ \A x \in StorageNodes : x # n => storage'[x] = storage[x]
      /\ storage'[n].view = storage[n].view /\ storage'[n].progress = storage[n].progress
      /\ storage'[n].pending = {} /\ storage'[n].finalized = TRUE /\ storage'[n].failed = None
  BY <1>1, <1>4 DEF IndInv, TypeOK, StorageOK
<1>6. Cuts' = Cuts /\ Reports' = Reports
  BY <1>1 DEF Cuts, Reports
<1>7. \A x \in StorageNodes : /\ storage'[x].view = storage[x].view
                              /\ storage'[x].progress = storage[x].progress
  BY <1>5
<1>8. EntriesOK'
  <2>1. IsFiniteSet(storage'[n].pending)
    BY <1>5, FS_EmptySet
  <2>2. \A x \in StorageNodes :
          IsFiniteSet(storage'[x].pending) /\ storage'[x].progress \in [Shards -> Nat]
    BY <1>5, <1>7, <2>1 DEF EntryInv, EntriesOK
  <2>3. \A x \in StorageNodes : storage'[x].finalized \in BOOLEAN
    BY <1>5, Zenon DEF EntryInv, EntriesOK
  <2> QED
    BY <1>1, <2>2, <2>3 DEF EntryInv, EntriesOK
<1>9. ReportInv'
  BY <1>1, <1>6, <1>7, ReportFrame DEF EntryInv
<1>10. CutInv'
  BY <1>1, <1>6, <1>7, CutFrame DEF EntryInv
<1>11. PendingInv'
  <2>1. \A x \in StorageNodes, s \in Shards : x # n => Uncut(x, s)' = Uncut(x, s)
    BY <1>1, <1>7 DEF Uncut
  <2>2. \A x \in StorageNodes : ~storage'[x].finalized => x # n /\ storage'[x] = storage[x]
    BY <1>5
  <2> QED
    BY <1>1, <1>6, <2>1, <2>2 DEF EntryInv, PendingInv
<1> QED
  BY <1>5, <1>8, <1>9, <1>10, <1>11, RegistrationAssumption DEF EntryInv, CutIsStored

\* A cut at a storage node finds its entries, which no other cut has.
LEMMA EntryStorageMetaLogs ==
    ASSUME IndInv, EntryInv, NEW n \in StorageNodes, NEW m \in msgs,
           StorageOnRecvNewMetaLogs(n, m)
    PROVE  EntryInv'
<1>1. UNCHANGED seq /\ msgs' = msgs \ {m} /\ DOMAIN storage = StorageNodes /\ m \in Cuts /\ m.to = n
  BY DEF IndInv, TypeOK, StorageOK, Cuts, StorageOnRecvNewMetaLogs, Received
<1>2. CASE UNCHANGED storage
  BY <1>1, <1>2, EntryQuiet
<1>3. CASE storage' # storage
  <2> DEFINE uncut(S) == {x \in S : x.id \notin CutIds(m, x.shard)}
             f == IF HoldsCut(n, {m}) THEN None ELSE "missing"
  <2>1. /\ m.view = storage[n].view /\ ~storage[n].finalized
        /\ storage' = [storage EXCEPT ![n].position = @ + 1, ![n].pending = uncut(@),
                                      ![n].failed = f]
    BY <1>3 DEF StorageOnRecvNewMetaLogs
  <2>2. f = None
    BY <1>1, <2>1 DEF HoldsCut, EntryInv, PendingInv
  <2> DEFINE kept == uncut(storage[n].pending)
  <2>3. /\ kept \subseteq storage[n].pending
        /\ \A s \in Shards : \A i : i \in StoredIds(storage[n].pending, s) /\ i \notin CutIds(m, s)
                                => i \in StoredIds(kept, s)
    BY DEF StoredIds
  <2>4. storage' = [storage EXCEPT ![n].position = @ + 1, ![n].pending = kept, ![n].failed = f]
    BY <1>1, <2>1 DEF IndInv, TypeOK, StorageOK
  <2> HIDE DEF kept, f
  <2>5. /\ \A x \in StorageNodes : x # n => storage'[x] = storage[x]
        /\ storage'[n].view = storage[n].view /\ storage'[n].progress = storage[n].progress
        /\ storage'[n].pending = kept /\ storage'[n].finalized = storage[n].finalized
        /\ storage'[n].failed = None
    BY <1>1, <2>2, <2>4 DEF IndInv, TypeOK, StorageOK
  <2>6. Cuts' = Cuts \ {m} /\ Reports' = Reports
    BY <1>1 DEF Cuts, Reports
  <2>7. \A x \in StorageNodes : /\ storage'[x].view = storage[x].view
                                /\ storage'[x].progress = storage[x].progress
                                /\ storage'[x].finalized = storage[x].finalized
    BY <2>5
  <2>8. EntriesOK'
    <3>1. \A x \in StorageNodes : IsFiniteSet(storage'[x].pending)
      BY <2>3, <2>5, FS_Subset DEF EntryInv, EntriesOK
    <3> QED
      BY <1>1, <2>7, <3>1 DEF EntryInv, EntriesOK
  <2>9. ReportInv'
    BY <1>1, <2>6, <2>7, ReportFrame DEF EntryInv
  <2>10. CutInv'
    BY <1>1, <2>6, <2>7, CutFrame DEF EntryInv
  <2>11. \A x \in StorageNodes, s \in Shards : Uncut(x, s)' = Uncut(x, s)
    BY <1>1, <2>7 DEF Uncut
  <2>12. \A k \in Cuts', s \in Shards : k.to = n /\ k.view = storage[n].view =>
           CutIds(k, s) \subseteq StoredIds(kept, s)
    <3> SUFFICES ASSUME NEW k \in Cuts', NEW s \in Shards, k.to = n, k.view = storage[n].view,
                        NEW i \in CutIds(k, s)
                 PROVE  i \in StoredIds(kept, s)
      OBVIOUS
    <3>1. i \notin CutIds(m, s)
      BY <1>1, <2>1, <2>6 DEF EntryInv, CutInv
    <3>2. i \in StoredIds(storage[n].pending, s)
      BY <2>1, <2>6 DEF EntryInv, PendingInv
    <3> QED
      BY <2>3, <3>1, <3>2
  <2>13. seq.view <= storage[n].view => \A s \in Shards :
           Uncut(n, s) .. storage[n].progress[s] - 1 \subseteq StoredIds(kept, s)
    <3> SUFFICES ASSUME seq.view <= storage[n].view, NEW s \in Shards,
                        NEW i \in Uncut(n, s) .. storage[n].progress[s] - 1
                 PROVE  i \in StoredIds(kept, s)
      OBVIOUS
    <3>1. i \in StoredIds(storage[n].pending, s)
      BY <2>1 DEF EntryInv, PendingInv
    <3>2. /\ m.view \in Int /\ m.view <= seq.view /\ CutIds(m, s) \subseteq Nat
          /\ m.view = seq.view => \A j \in CutIds(m, s) : j < seq.last_cut[s]
      BY <1>1 DEF EntryInv, CutInv
    <3>3. m.view = seq.view
      <4>1. seq.view \in Int /\ storage[n].view \in Int
        BY DEF IndInv, TypeOK, SequencerOK, StorageOK
      <4>2. m.view = storage[n].view
        BY <2>1
      <4> QED
        BY <3>2, <4>1, <4>2
    <3>4. Uncut(n, s) = seq.last_cut[s]
      BY <2>1, <3>3 DEF Uncut
    <3>5. i \notin CutIds(m, s)
      <4>1. seq.last_cut[s] \in Nat /\ storage[n].progress[s] \in Nat
        BY DEF EntryInv, EntriesOK
      <4>2. i \in Int /\ i >= seq.last_cut[s]
        BY <3>4, <4>1
      <4>3. \A j \in CutIds(m, s) : j \in Int /\ j < seq.last_cut[s]
        BY <3>2, <3>3
      <4> QED
        BY <4>1, <4>2, <4>3
    <3> QED
      BY <2>3, <3>1, <3>5
  <2>14. PendingInv'
    <3> SUFFICES ASSUME NEW x \in StorageNodes, ~storage'[x].finalized
                 PROVE  /\ \A k \in Cuts' : k.to = x /\ k.view = storage'[x].view =>
                             \A s \in Shards : CutIds(k, s) \subseteq StoredIds(storage'[x].pending, s)
                        /\ seq.view <= storage'[x].view => \A s \in Shards :
                             Uncut(x, s)' .. storage'[x].progress[s] - 1
                                 \subseteq StoredIds(storage'[x].pending, s)
      BY <1>1 DEF PendingInv
    <3>1. CASE x = n
      BY <2>5, <2>11, <2>12, <2>13, <3>1
    <3>2. CASE x # n
      BY <2>5, <2>6, <2>11, <3>2 DEF EntryInv, PendingInv
    <3> QED
      BY <3>1, <3>2
  <2> QED
    BY <2>5, <2>8, <2>9, <2>10, <2>14, RegistrationAssumption DEF EntryInv, CutIsStored
<1> QED
  BY <1>2, <1>3

\* The sequencer learns of entries that the storage node has.
LEMMA EntryShardProgress ==
    ASSUME IndInv, EntryInv, NEW m \in msgs, SequencerOnRecvShardProgress(m)
    PROVE  EntryInv'
<1>1. UNCHANGED storage /\ msgs' = msgs \ {m} /\ m \in Reports
  BY DEF SequencerOnRecvShardProgress, Received, Reports
<1>2. CASE UNCHANGED seq
  BY <1>1, <1>2, EntryQuiet
<1>3. CASE seq' # seq
  <2> DEFINE grown == {s \in seq.unblocked : m.progress[s] > seq.progress[s][m.from]}
             p == [s \in Shards |-> IF s \in grown
                                    THEN [seq.progress[s] EXCEPT ![m.from] = m.progress[s]]
                                    ELSE seq.progress[s]]
             new == {s \in grown : ReplicatedPosition(p, s) > seq.last_cut[s]}
  <2>1. m.view = seq.view /\ seq' = [seq EXCEPT !.progress = p, !.dirty = @ \cup new]
    BY <1>3 DEF SequencerOnRecvShardProgress
  <2>2. /\ m.from \in StorageNodes /\ m.view \in Int /\ m.progress \in [Shards -> Nat]
        /\ m.view <= storage[m.from].view
        /\ m.view = storage[m.from].view =>
              \A s \in Shards : m.progress[s] <= storage[m.from].progress[s]
    BY <1>1 DEF EntryInv, ReportInv
  <2>3. /\ seq.progress \in [Shards -> [StorageNodes -> Nat]] /\ seq.last_cut \in [Shards -> Nat]
        /\ seq.unblocked \subseteq Shards /\ seq.dirty \subseteq Shards
    BY DEF EntryInv, EntriesOK, IndInv, TypeOK, SequencerOK
  <2>4. /\ p \in [Shards -> [StorageNodes -> Nat]] /\ new \subseteq Shards
        /\ \A s \in Shards, n \in StorageNodes :
             /\ p[s][n] >= seq.progress[s][n]
             /\ p[s][n] # seq.progress[s][n] => n = m.from /\ p[s][n] = m.progress[s]
    BY <2>2, <2>3
  <2>5. \A s \in new, n \in StorageNodes : p[s][n] > seq.last_cut[s]
    <3> SUFFICES ASSUME NEW s \in new, NEW n \in StorageNodes PROVE p[s][n] > seq.last_cut[s]
      OBVIOUS
    <3> DEFINE S == {p[s][x] : x \in StorageNodes}
    <3>1. S \in SUBSET Nat /\ p[s][n] \in S /\ s \in Shards
      BY <2>4
    <3>2. ReplicatedPosition(p, s) = Min(S) /\ ReplicatedPosition(p, s) > seq.last_cut[s]
      BY DEF ReplicatedPosition
    <3> HIDE DEF S, p, new
    <3>3. Min(S) \in Nat /\ Min(S) <= p[s][n]
      BY <3>1, MinFacts
    <3>4. seq.last_cut[s] \in Nat /\ p[s][n] \in Nat
      BY <2>3, <2>4, <3>1
    <3> QED
      BY <3>2, <3>3, <3>4
  <2> HIDE DEF p, new, grown
  <2>6. /\ seq'.view = seq.view /\ seq'.last_cut = seq.last_cut /\ seq'.progress = p
        /\ seq'.dirty = seq.dirty \cup new
    BY <2>1 DEF IndInv, TypeOK, SequencerOK
  <2>7. Cuts' = Cuts /\ Reports' \subseteq Reports
    BY <1>1 DEF Cuts, Reports
  <2>8. EntriesOK'
    BY <1>1, <2>4, <2>6 DEF EntryInv, EntriesOK
  <2>9. ReportInv'
    <3>1. \A k \in Reports' : k \in Reports
      BY <2>7
    <3>2. \A n \in StorageNodes, s \in Shards :
            /\ storage[n].view < seq.view => p[s][n] = 0
            /\ storage[n].view = seq.view => p[s][n] <= storage[n].progress[s]
      <4> SUFFICES ASSUME NEW n \in StorageNodes, NEW s \in Shards
                   PROVE  /\ storage[n].view < seq.view => p[s][n] = 0
                          /\ storage[n].view = seq.view => p[s][n] <= storage[n].progress[s]
        OBVIOUS
      <4>1. /\ storage[n].view < seq.view => seq.progress[s][n] = 0
            /\ storage[n].view = seq.view => seq.progress[s][n] <= storage[n].progress[s]
        BY DEF EntryInv, ReportInv
      <4>2. CASE p[s][n] = seq.progress[s][n]
        BY <4>1, <4>2
      <4>3. CASE p[s][n] # seq.progress[s][n]
        <5>1. n = m.from /\ p[s][n] = m.progress[s]
          BY <2>4, <4>3
        <5>2. storage[n].view \in Int /\ seq.view \in Int
          BY DEF IndInv, TypeOK, StorageOK, SequencerOK
        <5>3. m.view = seq.view
          BY <2>1
        <5> QED
          BY <2>2, <5>1, <5>2, <5>3
      <4> QED
        BY <4>2, <4>3
    <3> QED
      BY <1>1, <2>6, <3>1, <3>2 DEF EntryInv, ReportInv
  <2>10. CutInv'
    <3>1. \A s \in seq'.dirty : \A n \in StorageNodes : seq.last_cut[s] < p[s][n]
      <4> SUFFICES ASSUME NEW s \in seq.dirty, NEW n \in StorageNodes
                   PROVE  seq.last_cut[s] < p[s][n]
        BY <2>5, <2>6
      <4>1. seq.last_cut[s] < seq.progress[s][n]
        BY DEF EntryInv, CutInv
      <4>2. s \in Shards /\ seq.last_cut[s] \in Nat /\ seq.progress[s][n] \in Nat /\ p[s][n] \in Nat
        BY <2>3, <2>4
      <4> QED
        BY <2>4, <4>1, <4>2
    <3> QED
      BY <1>1, <2>2, <2>6, <2>7, <3>1 DEF EntryInv, CutInv
  <2>11. PendingInv'
    <3>1. \A n \in StorageNodes, s \in Shards : Uncut(n, s)' = Uncut(n, s)
      BY <1>1, <2>6 DEF Uncut
    <3> QED
      BY <1>1, <2>6, <2>7, <3>1 DEF EntryInv, PendingInv
  <2> QED
    BY <1>1, <2>8, <2>9, <2>10, <2>11 DEF EntryInv, CutIsStored
<1> QED
  BY <1>2, <1>3

\* A cut takes what every storage node of the view has.
LEMMA EntryMarkNextCut ==
    ASSUME IndInv, EntryInv, MarkNextCut
    PROVE  EntryInv'
<1> DEFINE P(s) == ReplicatedPosition(seq.progress, s)
           c == [s \in seq.dirty |-> [from |-> seq.last_cut[s], upto |-> P(s) - 1]]
           K(n) == MetaLogsMsg(seq.view, seq.position, c, n)
<1>1. /\ UNCHANGED storage
      /\ seq' = [seq EXCEPT !.dirty = {}, !.position = @ + 1,
                            !.last_cut = [s \in Shards |->
                               IF s \in seq.dirty THEN c[s].upto + 1 ELSE @[s]]]
      /\ msgs' = msgs \cup {K(n) : n \in StorageNodes \cup {e \in Occupants : Alive(e)}}
  BY DEF MarkNextCut
<1>2. /\ seq.progress \in [Shards -> [StorageNodes -> Nat]] /\ seq.last_cut \in [Shards -> Nat]
      /\ seq.dirty \subseteq Shards /\ seq.view \in Int
      /\ \A n \in StorageNodes : storage[n].view \in Int
  BY DEF EntryInv, EntriesOK, IndInv, TypeOK, SequencerOK, StorageOK
<1>3. ASSUME NEW s \in seq.dirty
      PROVE  P(s) \in Nat /\ P(s) > seq.last_cut[s]
             /\ \A n \in StorageNodes : P(s) <= seq.progress[s][n]
  <2> DEFINE S == {seq.progress[s][n] : n \in StorageNodes}
  <2>1. S \in SUBSET Nat /\ S # {} /\ P(s) = Min(S)
    BY <1>2 DEF ReplicatedPosition, EntryInv, CutInv
  <2>2. Min(S) \in S /\ \A x \in S : Min(S) <= x
    BY <2>1, MinFacts
  <2>3. \A x \in S : x > seq.last_cut[s]
    BY DEF EntryInv, CutInv
  <2> QED
    BY <2>1, <2>2, <2>3
<1>4. /\ \A n : K(n).op = "METALOGS" /\ K(n).view = seq.view /\ K(n).cuts = c /\ K(n).to = n
      /\ \A s \in seq.dirty : c[s].from = seq.last_cut[s] /\ c[s].upto = P(s) - 1
      /\ DOMAIN c = seq.dirty
  BY DEF MetaLogsMsg
<1> HIDE DEF P, c, K
<1>5. /\ seq'.view = seq.view /\ seq'.progress = seq.progress /\ seq'.dirty = {}
      /\ \A s \in Shards : seq'.last_cut[s] = IF s \in seq.dirty THEN P(s) ELSE seq.last_cut[s]
      /\ seq'.last_cut \in [Shards -> Nat]
  <2>1. seq'.view = seq.view /\ seq'.progress = seq.progress /\ seq'.dirty = {}
    BY <1>1 DEF IndInv, TypeOK, SequencerOK
  <2>2. seq'.last_cut = [s \in Shards |->
                               IF s \in seq.dirty THEN c[s].upto + 1 ELSE seq.last_cut[s]]
    BY <1>1 DEF IndInv, TypeOK, SequencerOK
  <2>3. \A s \in seq.dirty : c[s].upto + 1 = P(s)
    BY <1>3, <1>4
  <2> QED
    BY <1>2, <1>3, <2>1, <2>2, <2>3
<1>6. \A s \in Shards : seq'.last_cut[s] >= seq.last_cut[s]
  BY <1>2, <1>3, <1>5
<1>7. /\ Reports' = Reports /\ \A k \in Cuts' : k \in Cuts \/ k = K(k.to)
      /\ \A k \in Cuts' : k.to \in StorageNodes
  BY <1>1, <1>4 DEF Reports, Cuts
<1>8. \A n, s : CutIds(K(n), s) =
                 IF s \in seq.dirty THEN seq.last_cut[s] .. P(s) - 1 ELSE {}
  BY <1>4 DEF CutIds
<1>9. \A n \in StorageNodes : seq.dirty # {} => seq.view <= storage[n].view
  <2> SUFFICES ASSUME NEW n \in StorageNodes, NEW s \in seq.dirty
               PROVE  seq.view <= storage[n].view
    OBVIOUS
  <2>1. seq.progress[s][n] > seq.last_cut[s] /\ s \in Shards
    BY <1>2 DEF EntryInv, CutInv
  <2>2. seq.progress[s][n] # 0
    BY <1>2, <2>1
  <2> QED
    BY <1>2, <2>1, <2>2 DEF EntryInv, ReportInv
<1>10. seq.dirty # {}
  BY DEF MarkNextCut
<1>11. EntriesOK'
  BY <1>1, <1>5 DEF EntryInv, EntriesOK
<1>12. ReportInv'
  BY <1>1, <1>5, <1>7, ReportFrame DEF EntryInv
<1>13. \A k \in Cuts, s \in Shards : k.view = seq.view => \A i \in CutIds(k, s) : i < seq.last_cut[s]
  BY DEF EntryInv, CutInv
<1>14. CutInv'
  <2>1. ASSUME NEW k \in Cuts'
        PROVE  /\ k.view \in Int /\ k.view <= seq.view /\ k.view <= storage[k.to].view
               /\ \A s \in Shards : CutIds(k, s) \subseteq Nat
               /\ k.view = seq.view => \A s \in Shards : \A i \in CutIds(k, s) : i < seq'.last_cut[s]
    <3>1. CASE k \in Cuts
      <4>1. /\ k.view \in Int /\ k.view <= seq.view /\ k.view <= storage[k.to].view
            /\ \A s \in Shards : CutIds(k, s) \subseteq Nat
        BY <3>1 DEF EntryInv, CutInv
      <4>2. ASSUME k.view = seq.view, NEW s \in Shards, NEW i \in CutIds(k, s)
            PROVE  i < seq'.last_cut[s]
        <5>1. i < seq.last_cut[s]
          BY <1>13, <3>1, <4>2
        <5>2. i \in Nat /\ seq.last_cut[s] \in Nat /\ seq'.last_cut[s] \in Nat
          BY <1>2, <1>5, <4>1
        <5> QED
          BY <1>6, <5>1, <5>2
      <4> QED
        BY <4>1, <4>2
    <3>2. CASE k = K(k.to)
      <4>1. k.view = seq.view /\ k.to \in StorageNodes
        BY <1>4, <1>7, <3>2
      <4>2. ASSUME NEW s \in Shards, NEW i \in CutIds(k, s)
            PROVE  i \in Nat /\ i < seq'.last_cut[s]
        <5>1. s \in seq.dirty /\ i \in seq.last_cut[s] .. P(s) - 1
          BY <1>8, <3>2, <4>2
        <5>2. seq'.last_cut[s] = P(s) /\ P(s) \in Nat /\ seq.last_cut[s] \in Nat
          BY <1>2, <1>3, <1>5, <5>1
        <5> QED
          BY <5>1, <5>2
      <4> QED
        BY <1>2, <1>9, <1>10, <4>1, <4>2
    <3> QED
      BY <1>7, <3>1, <3>2
  <2>2. ASSUME NEW k \in Cuts, NEW n, k.view = seq.view, NEW s \in Shards
        PROVE  CutIds(k, s) \cap CutIds(K(n), s) = {}
    <3> SUFFICES ASSUME NEW i \in CutIds(k, s), i \in CutIds(K(n), s) PROVE FALSE
      OBVIOUS
    <3>1. i < seq.last_cut[s] /\ seq.last_cut[s] \in Nat
      BY <1>2, <1>13, <2>2
    <3>2. s \in seq.dirty /\ i \in seq.last_cut[s] .. P(s) - 1 /\ P(s) \in Nat
      BY <1>3, <1>8
    <3> QED
      BY <3>1, <3>2
  <2>3. ASSUME NEW k \in Cuts', NEW l \in Cuts', k.to = l.to, k.view = l.view, k # l, NEW s \in Shards
        PROVE  CutIds(k, s) \cap CutIds(l, s) = {}
    <3>1. CASE k \in Cuts /\ l \in Cuts
      BY <2>3, <3>1 DEF EntryInv, CutInv
    <3>2. CASE k \in Cuts /\ l = K(l.to)
      BY <1>4, <2>2, <2>3, <3>2
    <3>3. CASE k = K(k.to) /\ l \in Cuts
      BY <1>4, <2>2, <2>3, <3>3
    <3>4. CASE k = K(k.to) /\ l = K(l.to)
      BY <2>3, <3>4
    <3> QED
      BY <1>7, <3>1, <3>2, <3>3, <3>4
  <2> QED
    BY <1>1, <1>5, <2>1, <2>3 DEF CutInv
<1>15. PendingInv'
  <2> SUFFICES ASSUME NEW n \in StorageNodes, ~storage[n].finalized
               PROVE  /\ \A k \in Cuts' : k.to = n /\ k.view = storage[n].view =>
                           \A s \in Shards : CutIds(k, s) \subseteq StoredIds(storage[n].pending, s)
                      /\ seq.view <= storage[n].view => \A s \in Shards :
                           Uncut(n, s)' .. storage[n].progress[s] - 1
                               \subseteq StoredIds(storage[n].pending, s)
    BY <1>1, <1>5 DEF PendingInv
  <2>1. seq.view <= storage[n].view => \A s \in Shards :
           Uncut(n, s) .. storage[n].progress[s] - 1 \subseteq StoredIds(storage[n].pending, s)
    BY DEF EntryInv, PendingInv
  <2>2. \A s \in Shards : storage[n].progress[s] \in Nat
    BY DEF EntryInv, EntriesOK
  <2>3. ASSUME NEW k \in Cuts', k.to = n, k.view = storage[n].view, NEW s \in Shards
        PROVE  CutIds(k, s) \subseteq StoredIds(storage[n].pending, s)
    <3>1. CASE k \in Cuts
      BY <2>3, <3>1 DEF EntryInv, PendingInv
    <3>2. CASE k = K(n) /\ s \in seq.dirty
      <4>1. k.view = seq.view /\ CutIds(k, s) = seq.last_cut[s] .. P(s) - 1
        BY <1>4, <1>8, <3>2
      <4>2. Uncut(n, s) = seq.last_cut[s] /\ seq.view <= storage[n].view
        BY <1>2, <2>3, <4>1 DEF Uncut
      <4>3. seq.progress[s][n] <= storage[n].progress[s]
        BY <2>3, <4>1 DEF EntryInv, ReportInv
      <4>4. P(s) \in Nat /\ P(s) <= seq.progress[s][n] /\ seq.progress[s][n] \in Nat
            /\ seq.last_cut[s] \in Nat
        BY <1>2, <1>3, <3>2
      <4>5. CutIds(k, s) \subseteq Uncut(n, s) .. storage[n].progress[s] - 1
        BY <2>2, <4>1, <4>2, <4>3, <4>4
      <4> QED
        BY <2>1, <4>2, <4>5
    <3>3. CASE k = K(n) /\ s \notin seq.dirty
      BY <1>8, <3>3
    <3> QED
      BY <1>7, <2>3, <3>1, <3>2, <3>3
  <2>4. ASSUME seq.view <= storage[n].view, NEW s \in Shards
        PROVE  Uncut(n, s)' .. storage[n].progress[s] - 1
                   \subseteq Uncut(n, s) .. storage[n].progress[s] - 1
    <3>1. Uncut(n, s)' \in Nat /\ Uncut(n, s) \in Nat /\ Uncut(n, s)' >= Uncut(n, s)
      BY <1>1, <1>2, <1>5, <1>6 DEF Uncut
    <3> QED
      BY <2>2, <3>1
  <2> QED
    BY <2>1, <2>3, <2>4
<1> QED
  BY <1>1, <1>11, <1>12, <1>14, <1>15 DEF EntryInv, CutIsStored

\* AdvanceShardProgress: the set it takes the least element of is not empty, as there
\* are more ids than entries; everything below the new progress is stored.
LEMMA AdvanceFacts ==
    ASSUME NEW pending, IsFiniteSet(pending), NEW p \in Nat, NEW s
    PROVE  /\ AdvanceShardProgress(pending, p, s) \in Nat
           /\ AdvanceShardProgress(pending, p, s) >= p
           /\ p .. AdvanceShardProgress(pending, p, s) - 1 \subseteq StoredIds(pending, s)
<1> DEFINE ids == StoredIds(pending, s)
           S   == {i \in p .. p + Cardinality(pending) : i \notin ids}
           f   == [x \in {y \in pending : y.shard = s} |-> x.id]
<1>1. Cardinality(pending) \in Nat
  BY FS_CardinalityType
<1>2. IsFiniteSet(ids) /\ Cardinality(ids) <= Cardinality(pending) /\ Cardinality(ids) \in Nat
  <2> DEFINE D == {y \in pending : y.shard = s}
  <2>1. IsFiniteSet(D) /\ Cardinality(D) <= Cardinality(pending) /\ Cardinality(D) \in Nat
    BY FS_Subset, FS_CardinalityType
  <2>2. f \in Surjection(D, ids)
    BY DEF Surjection, StoredIds
  <2> HIDE DEF D, f, ids
  <2>3. IsFiniteSet(ids) /\ Cardinality(ids) <= Cardinality(D)
    BY <2>1, <2>2, FS_Surjection
  <2> QED
    BY <1>1, <2>1, <2>3, FS_CardinalityType
<1> HIDE DEF ids, f
<1>3. S # {}
  <2> SUFFICES ASSUME p .. p + Cardinality(pending) \subseteq ids PROVE FALSE
    OBVIOUS
  <2>1. Cardinality(p .. p + Cardinality(pending)) = Cardinality(pending) + 1
    BY <1>1, FS_Interval
  <2>2. Cardinality(p .. p + Cardinality(pending)) <= Cardinality(ids)
    BY <1>2, FS_Subset
  <2> QED
    BY <1>1, <1>2, <2>1, <2>2
<1>4. S \in SUBSET Nat
  BY <1>1
<1>5. AdvanceShardProgress(pending, p, s) = Min(S)
  BY DEF AdvanceShardProgress, ids
<1>6. Min(S) \in S /\ \A x \in S : Min(S) <= x
  BY <1>3, <1>4, MinFacts
<1>7. ASSUME NEW i \in p .. Min(S) - 1 PROVE i \in ids
  BY <1>1, <1>6
<1> QED
  BY <1>1, <1>5, <1>6, <1>7 DEF ids

\* An entry arrives at a storage node, which reports what it has without a gap.
LEMMA EntryReplicate ==
    ASSUME IndInv, EntryInv, NEW n \in StorageNodes, NEW m \in msgs, HandleReplicateRequest(n, m)
    PROVE  EntryInv'
<1>1. UNCHANGED seq /\ DOMAIN storage = StorageNodes /\ m.op = "REPLICATE" /\ n \in StorageNodes
  BY DEF HandleReplicateRequest, IndInv, TypeOK, StorageOK
<1>2. CASE UNCHANGED storage /\ msgs' = msgs \ {m}
  BY <1>1, <1>2, EntryQuiet
<1>3. CASE ~(UNCHANGED storage /\ msgs' = msgs \ {m})
  <2> DEFINE entry == [shard |-> m.shard, id |-> m.id, engine |-> m.engine]
             kept  == {x \in storage[n].pending : x.shard # m.shard \/ x.id # m.id}
             p     == kept \cup {entry}
             old   == storage[n].progress
             q     == [old EXCEPT ![m.shard] = AdvanceShardProgress(p, @, m.shard)]
  <2>1. /\ m.view = storage[n].view
        /\ storage' = [storage EXCEPT ![n].pending = p, ![n].progress = q]
        /\ msgs' = (msgs \ {m}) \cup
             (IF q = old \/ storage[n].finalized THEN {} ELSE {ShardProgMsg(m.view, q, n)})
    BY <1>3 DEF HandleReplicateRequest, Received
  <2>2. old \in [Shards -> Nat] /\ IsFiniteSet(storage[n].pending)
    BY DEF EntryInv, EntriesOK
  <2>3. IsFiniteSet(p)
    <3>1. IsFiniteSet(kept)
      BY <2>2, FS_Subset
    <3> QED
      BY <3>1, FS_AddElement
  <2>4. \A s : StoredIds(storage[n].pending, s) \subseteq StoredIds(p, s)
    <3> SUFFICES ASSUME NEW s, NEW i \in StoredIds(storage[n].pending, s)
                 PROVE  i \in StoredIds(p, s)
      OBVIOUS
    <3>1. PICK x \in storage[n].pending : x.shard = s /\ x.id = i
      BY DEF StoredIds
    <3>2. CASE x \in kept
      BY <3>1, <3>2 DEF StoredIds
    <3>3. CASE x \notin kept
      <4>1. entry \in p /\ entry.shard = s /\ entry.id = i
        BY <3>1, <3>3
      <4> QED
        BY <4>1 DEF StoredIds
    <3> QED
      BY <3>2, <3>3
  <2> HIDE DEF p, kept, entry
  <2>5. /\ q \in [Shards -> Nat]
        /\ \A s \in Shards : q[s] >= old[s] /\ old[s] .. q[s] - 1 \subseteq StoredIds(p, s)
    <3>1. CASE m.shard \in Shards
      <4>1. old[m.shard] \in Nat
        BY <2>2, <3>1
      <4> DEFINE a == AdvanceShardProgress(p, old[m.shard], m.shard)
      <4>2. a \in Nat /\ a >= old[m.shard] /\ old[m.shard] .. a - 1 \subseteq StoredIds(p, m.shard)
        BY <2>3, <4>1, AdvanceFacts
      <4>3. q = [old EXCEPT ![m.shard] = a]
        OBVIOUS
      <4> HIDE DEF a, q, old
      <4>4. q \in [Shards -> Nat] /\ q[m.shard] = a /\ \A s \in Shards \ {m.shard} : q[s] = old[s]
        BY <2>2, <3>1, <4>2, <4>3
      <4>5. \A s \in Shards : old[s] \in Nat
        BY <2>2
      <4>6. \A s \in Shards \ {m.shard} : q[s] >= old[s] /\ old[s] .. q[s] - 1 = {}
        BY <4>4, <4>5
      <4> QED
        BY <4>2, <4>4, <4>6
    <3>2. CASE m.shard \notin Shards
      <4>1. q = old
        BY <2>2, <3>2
      <4>2. \A s \in Shards : old[s] \in Nat
        BY <2>2
      <4>3. \A s \in Shards : old[s] .. old[s] - 1 = {}
        BY <4>2
      <4> HIDE DEF q, old
      <4> QED
        BY <2>2, <4>1, <4>2, <4>3
    <3> QED
      BY <3>1, <3>2
  <2> HIDE DEF q
  <2>6. /\ \A x \in StorageNodes : x # n => storage'[x] = storage[x]
        /\ storage'[n].view = storage[n].view /\ storage'[n].progress = q
        /\ storage'[n].pending = p /\ storage'[n].finalized = storage[n].finalized
        /\ storage'[n].failed = storage[n].failed
    BY <1>1, <2>1 DEF IndInv, TypeOK, StorageOK
  <2>7. /\ Cuts' = Cuts /\ \A k \in Reports' : k \in Reports \/ k = ShardProgMsg(m.view, q, n)
    BY <1>1, <2>1 DEF Cuts, Reports, ShardProgMsg
  <2>8. \A x \in StorageNodes : /\ storage'[x].view = storage[x].view
                                /\ storage'[x].finalized = storage[x].finalized
    BY <2>6
  <2>9. EntriesOK'
    <3>1. \A x \in StorageNodes :
            IsFiniteSet(storage'[x].pending) /\ storage'[x].progress \in [Shards -> Nat]
      BY <2>3, <2>5, <2>6 DEF EntryInv, EntriesOK
    <3> QED
      BY <1>1, <2>8, <3>1 DEF EntryInv, EntriesOK
  <2>10. \A s \in Shards : q[s] \in Nat /\ old[s] \in Nat /\ old[s] <= q[s]
    BY <2>2, <2>5
  <2>11. ReportInv'
    <3>1. ASSUME NEW k \in Reports'
          PROVE  /\ k.from \in StorageNodes /\ k.view \in Int /\ k.progress \in [Shards -> Nat]
                 /\ k.view <= storage'[k.from].view
                 /\ k.view = storage'[k.from].view =>
                      \A s \in Shards : k.progress[s] <= storage'[k.from].progress[s]
      <4>1. CASE k \in Reports
        <5>1. /\ k.from \in StorageNodes /\ k.view \in Int /\ k.progress \in [Shards -> Nat]
              /\ k.view <= storage[k.from].view
              /\ k.view = storage[k.from].view =>
                   \A s \in Shards : k.progress[s] <= storage[k.from].progress[s]
          BY <4>1 DEF EntryInv, ReportInv
        <5>2. CASE k.from # n
          BY <2>6, <5>1, <5>2
        <5>3. CASE k.from = n
          <6>1. \A s \in Shards : k.progress[s] \in Nat
            BY <5>1
          <6> QED
            BY <2>6, <2>10, <5>1, <5>3, <6>1
        <5> QED
          BY <5>2, <5>3
      <4>2. CASE k = ShardProgMsg(m.view, q, n)
        <5>1. k.from = n /\ k.view = storage[n].view /\ k.progress = q /\ k.view \in Int
          BY <2>1, <4>2 DEF ShardProgMsg, IndInv, TypeOK, StorageOK
        <5> QED
          BY <2>5, <2>6, <2>10, <5>1
      <4> QED
        BY <2>7, <4>1, <4>2
    <3>2. ASSUME NEW x \in StorageNodes, NEW s \in Shards
          PROVE  /\ storage'[x].view < seq.view => seq.progress[s][x] = 0
                 /\ storage'[x].view = seq.view => seq.progress[s][x] <= storage'[x].progress[s]
      <4>1. /\ storage[x].view < seq.view => seq.progress[s][x] = 0
            /\ storage[x].view = seq.view => seq.progress[s][x] <= storage[x].progress[s]
        BY DEF EntryInv, ReportInv
      <4>2. seq.progress[s][x] \in Nat
        BY DEF EntryInv, EntriesOK
      <4> QED
        BY <2>6, <2>10, <4>1, <4>2
    <3> QED
      BY <1>1, <3>1, <3>2 DEF ReportInv
  <2>12. CutInv'
    BY <1>1, <2>7, <2>8, CutFrame DEF EntryInv
  <2>13. PendingInv'
    <3> SUFFICES ASSUME NEW x \in StorageNodes, ~storage'[x].finalized
                 PROVE  /\ \A k \in Cuts : k.to = x /\ k.view = storage'[x].view =>
                             \A s \in Shards : CutIds(k, s) \subseteq StoredIds(storage'[x].pending, s)
                        /\ seq.view <= storage'[x].view => \A s \in Shards :
                             Uncut(x, s)' .. storage'[x].progress[s] - 1
                                 \subseteq StoredIds(storage'[x].pending, s)
      BY <1>1, <2>7 DEF PendingInv
    <3>1. \A s \in Shards : Uncut(x, s)' = Uncut(x, s) /\ Uncut(x, s) \in Nat
      BY <1>1, <2>8 DEF Uncut, EntryInv, EntriesOK
    <3>2. CASE x # n
      BY <2>6, <3>1, <3>2 DEF EntryInv, PendingInv
    <3>3. CASE x = n
      <4>0. ~storage[n].finalized
        BY <2>6, <3>3
      <4>1. \A k \in Cuts : k.to = n /\ k.view = storage[n].view =>
              \A s \in Shards : CutIds(k, s) \subseteq StoredIds(storage[n].pending, s)
        BY <4>0 DEF EntryInv, PendingInv
      <4>2. seq.view <= storage[n].view => \A s \in Shards :
              Uncut(n, s) .. old[s] - 1 \subseteq StoredIds(storage[n].pending, s)
        BY <4>0 DEF EntryInv, PendingInv
      <4>3. \A s \in Shards : \A i \in Uncut(n, s) .. q[s] - 1 :
              i \in Uncut(n, s) .. old[s] - 1 \/ i \in old[s] .. q[s] - 1
        BY <2>10, <3>1, <3>3
      <4> HIDE DEF old
      <4> QED
        BY <2>4, <2>5, <2>6, <3>1, <3>3, <4>1, <4>2, <4>3
    <3> QED
      BY <3>2, <3>3
  <2> QED
    BY <2>6, <2>9, <2>11, <2>12, <2>13 DEF EntryInv, CutIsStored
<1> QED
  BY <1>2, <1>3

\* A registration at a storage node touches no entry and no cut.
LEMMA EntryStorageRegistration ==
    ASSUME IndInv, EntryInv, NEW n \in StorageNodes, NEW m \in msgs,
           StorageOnRecvRegistration(n, m)
    PROVE  EntryInv'
<1>1. UNCHANGED seq /\ DOMAIN storage = StorageNodes
  BY DEF StorageOnRecvRegistration, IndInv, TypeOK, StorageOK
<1>2. \A k \in msgs' : k.op \in {"METALOGS", "SHARD_PROG"} => k \in msgs
  BY DEF StorageOnRecvRegistration, Received, Answer, RegisterMsg
<1>3. CASE UNCHANGED storage
  BY <1>1, <1>2, <1>3, EntryQuiet
<1>4. CASE storage' # storage
  <2> DEFINE logs == RemovePendingEntries(storage[n], m.shard)
  <2>1. /\ Serves(n)
        /\ storage' = [storage EXCEPT ![n] = PutStorageShardOccupation(logs, m.shard, m.engine)]
    BY <1>4 DEF StorageOnRecvRegistration
  <2>2. /\ logs.view = storage[n].view /\ logs.finalized = storage[n].finalized
        /\ logs.pending = storage[n].pending /\ logs.progress = storage[n].progress
        /\ logs.failed # "missing"
        /\ DOMAIN logs = {"view", "failed", "finalized", "pending", "position", "progress",
                          "occupation"}
    BY <2>1, RegistrationAssumption DEF RemovePendingEntries, Serves, IndInv, TypeOK, StorageOK
  <2> HIDE DEF logs
  <2>3. /\ \A x \in StorageNodes : x # n => storage'[x] = storage[x]
        /\ storage'[n].view = storage[n].view /\ storage'[n].finalized = storage[n].finalized
        /\ storage'[n].pending = storage[n].pending /\ storage'[n].progress = storage[n].progress
        /\ storage'[n].failed # "missing"
    BY <1>1, <2>1, <2>2 DEF PutStorageShardOccupation
  <2>4. \A x \in StorageNodes :
          /\ storage'[x].view = storage[x].view /\ storage'[x].finalized = storage[x].finalized
          /\ storage'[x].pending = storage[x].pending
          /\ storage'[x].progress = storage[x].progress /\ storage'[x].failed # "missing"
    BY <2>3 DEF EntryInv, CutIsStored
  <2> QED
    BY <1>1, <1>2, <2>4, EntryFrame
<1> QED
  BY <1>3, <1>4

\* A registration at the sequencer may clear a dirty shard.
LEMMA EntrySequencerRegistration ==
    ASSUME IndInv, EntryInv, NEW m \in msgs, SequencerOnRecvRegistration(m)
    PROVE  EntryInv'
<1>1. UNCHANGED storage
  BY DEF SequencerOnRecvRegistration
<1>2. \A k \in msgs' : k.op \in {"METALOGS", "SHARD_PROG"} => k \in msgs
  BY DEF SequencerOnRecvRegistration, Received, Answer, RegisterMsg
<1>3. /\ seq'.view = seq.view /\ seq'.last_cut = seq.last_cut /\ seq'.progress = seq.progress
      /\ seq'.dirty \subseteq seq.dirty
  <2>1. \/ UNCHANGED seq \/ BlockShard(m.shard) \/ UnblockShard(m.shard, m.engine)
    BY DEF SequencerOnRecvRegistration
  <2> QED
    BY <2>1 DEF BlockShard, UnblockShard, PutStorageShardOccupation, IndInv, TypeOK, SequencerOK
<1> QED
  BY <1>1, <1>2, <1>3, EntryFrame DEF EntryInv, CutIsStored

\* OnViewFrozen of the sequencer leaves its cuts as they are.
LEMMA EntrySequencerFrozen ==
    ASSUME IndInv, EntryInv, SequencerOnViewFrozen
    PROVE  EntryInv'
<1>1. UNCHANGED <<storage, msgs>> /\ seq' = [seq EXCEPT !.frozen = TRUE]
  BY DEF SequencerOnViewFrozen
<1>2. /\ seq'.view = seq.view /\ seq'.last_cut = seq.last_cut /\ seq'.progress = seq.progress
      /\ seq'.dirty = seq.dirty
  BY <1>1 DEF IndInv, TypeOK, SequencerOK
<1> QED
  BY <1>1, <1>2, EntryFrame DEF EntryInv, CutIsStored

\* FinalizeInv only depends on the znodes, the state of the controller and the storage
\* nodes.
LEMMA FinalizeFrame ==
    ASSUME FinalizeInv, znodes' = znodes, ctrl'.state = ctrl.state,
           \A n \in StorageNodes :
             storage'[n].finalized =>
               \/ storage[n].finalized /\ seen'[n] = seen[n]
               \/ seen'[n] \in 1 .. Len(znodes) /\ znodes[seen'[n]].type = "finalize"
    PROVE  FinalizeInv'
  BY DEF FinalizeInv

\* A storage node that handles a znode is finalized exactly when it is a finalize.
LEMMA FinalizeStorage ==
    ASSUME IndInv, FinalizeInv, NEW n \in StorageNodes,
           StorageOnViewCreated(n) \/ StorageOnViewFinalized(n)
    PROVE  FinalizeInv'
<1>1. /\ UNCHANGED <<znodes, ctrl>> /\ DOMAIN storage = StorageNodes /\ n \in Nodes
      /\ seen \in [Nodes -> Nat] /\ StorageNodes \subseteq Nodes
  BY DEF StorageOnViewCreated, StorageOnViewFinalized, IndInv, TypeOK, StorageOK, ZNodesOK, Nodes
<1>2. CASE StorageOnViewCreated(n)
  <2>1. NextZNode(n, "new") /\ \E v : storage' = [storage EXCEPT ![n] = NewLogStorage(v, @.occupation)]
    BY <1>2 DEF StorageOnViewCreated
  <2>2. /\ storage'[n].finalized = FALSE
        /\ \A x \in StorageNodes : x # n => storage'[x] = storage[x] /\ seen'[x] = seen[x]
    BY <1>1, <2>1 DEF NewLogStorage, NextZNode
  <2> QED
    BY <1>1, <2>2, FinalizeFrame
<1>3. CASE StorageOnViewFinalized(n)
  <2>1. PICK f : storage' = [storage EXCEPT ![n].pending = {}, ![n].finalized = TRUE,
                                            ![n].failed = f]
    BY <1>3 DEF StorageOnViewFinalized
  <2> DEFINE j == Min(Unseen(n))
  <2>2. /\ Unseen(n) \in SUBSET Nat /\ Unseen(n) # {} /\ znodes[j].type = "finalize"
        /\ seen' = [seen EXCEPT ![n] = j]
    BY <1>1, <1>3 DEF StorageOnViewFinalized, NextZNode, Unseen
  <2>3. j \in Unseen(n)
    BY <2>2, MinFacts
  <2> HIDE DEF j
  <2>4. Len(znodes) \in Nat
    BY DEF IndInv, TypeOK, ZNodesOK
  <2>5. j \in 1 .. Len(znodes)
    BY <1>1, <2>3, <2>4 DEF Unseen
  <2>6. seen'[n] = j /\ \A x \in StorageNodes : x # n => storage'[x] = storage[x] /\ seen'[x] = seen[x]
    BY <1>1, <2>1, <2>2
  <2> QED
    BY <1>1, <2>2, <2>5, <2>6, FinalizeFrame
<1> QED
  BY <1>2, <1>3

\* The controller publishes: a finalize comes only after a new view.
LEMMA FinalizePublish ==
    ASSUME IndInv, FinalizeInv,
           \/ StartCommandHandler \/ ReconfigCommandHandler
           \/ OnFreezeZNodeCreated \/ OnFinalizePublished
    PROVE  FinalizeInv'
<1> DEFINE Publishes(type, v) ==
             /\ znodes' = Append(znodes, [type |-> type, view |-> v])
             /\ type = "new" => ctrl'.state = "normal"
             /\ type = "freeze" => ctrl.state = "normal" /\ ctrl'.state = "reconfiguring"
             /\ type = "finalize" => ctrl.state = "reconfiguring" /\ ctrl'.state = "frozen"
<1>1. PICK type, v : type \in {"new", "freeze", "finalize"} /\ Publishes(type, v)
  <2>1. ControllerOK
    BY DEF IndInv, TypeOK
  <2>2. CASE InstallNewView(ctrl.view + 1)
    <3>1. Publishes("new", ctrl.view + 1)
      BY <2>1, <2>2 DEF InstallNewView, Publish, ControllerOK
    <3> HIDE DEF Publishes
    <3> QED
      BY <3>1
  <2>3. CASE ctrl.state = "normal" /\ ReconfigView
    <3>1. Publishes("freeze", ctrl.view)
      BY <2>1, <2>3 DEF ReconfigView, Publish, ControllerOK
    <3> HIDE DEF Publishes
    <3> QED
      BY <3>1
  <2>4. CASE OnFreezeZNodeCreated
    <3>1. Publishes("finalize", ctrl.view)
      BY <2>1, <2>4 DEF OnFreezeZNodeCreated, Publish, ControllerOK
    <3> HIDE DEF Publishes
    <3> QED
      BY <3>1
  <2> HIDE DEF Publishes
  <2> QED
    BY <2>2, <2>3, <2>4 DEF StartCommandHandler, ReconfigCommandHandler, OnFinalizePublished,
                            ReconfigView
<1>2. UNCHANGED <<storage, seen>>
  BY DEF StartCommandHandler, ReconfigCommandHandler, OnFreezeZNodeCreated, OnFinalizePublished
<1> DEFINE N == Len(znodes)
           Z == [type : {"new", "freeze", "finalize"}, view : Views]
           z == [type |-> type, view |-> v]
<1>3. znodes \in Seq(Z) /\ N \in Nat
  BY DEF IndInv, TypeOK, ZNodesOK
<1>4. /\ Len(znodes') = N + 1 /\ znodes'[N + 1].type = type
      /\ \A i \in 1 .. N : znodes'[i] = znodes[i]
  <2> HIDE DEF Z
  <2>1. Len(znodes') = N + 1 /\ znodes'[N + 1] = z /\ \A i \in 1 .. N : znodes'[i] = znodes[i]
    BY <1>1, <1>3
  <2> QED
    BY <2>1
<1> HIDE DEF N, Z, z
<1>5. /\ \A i, j \in 1 .. N :
           i < j /\ znodes[i].type = "finalize" /\ znodes[j].type = "finalize" =>
               \E k \in i + 1 .. j - 1 : k \in 1 .. N /\ znodes[k].type = "new"
      /\ ctrl.state \in {"normal", "reconfiguring"} =>
           \A i \in 1 .. N : znodes[i].type = "finalize" =>
               \E k \in i + 1 .. N : k \in 1 .. N /\ znodes[k].type = "new"
      /\ \A n \in StorageNodes : storage[n].finalized =>
             seen[n] \in 1 .. N /\ znodes[seen[n]].type = "finalize"
  BY DEF FinalizeInv, N
<1>6. ASSUME NEW i \in 1 .. N + 1, NEW j \in 1 .. N + 1, i < j,
             znodes'[i].type = "finalize", znodes'[j].type = "finalize"
      PROVE  \E k \in i + 1 .. j - 1 : k \in 1 .. N + 1 /\ znodes'[k].type = "new"
  <2>1. i \in 1 .. N /\ znodes[i].type = "finalize"
    BY <1>3, <1>4, <1>6 DEF N
  <2>2. CASE j = N + 1
    <3>1. type = "finalize"
      BY <1>4, <1>6, <2>2
    <3>2. PICK k \in i + 1 .. N : k \in 1 .. N /\ znodes[k].type = "new"
      BY <1>1, <1>5, <2>1, <3>1
    <3> QED
      BY <1>3, <1>4, <2>2, <3>2
  <2>3. CASE j # N + 1
    <3>1. j \in 1 .. N /\ znodes[j].type = "finalize"
      BY <1>3, <1>4, <1>6, <2>3
    <3>2. PICK k \in i + 1 .. j - 1 : k \in 1 .. N /\ znodes[k].type = "new"
      BY <1>5, <1>6, <2>1, <3>1
    <3> QED
      BY <1>3, <1>4, <3>2
  <2> QED
    BY <2>2, <2>3
<1>7. ASSUME ctrl'.state \in {"normal", "reconfiguring"}, NEW i \in 1 .. N + 1,
             znodes'[i].type = "finalize"
      PROVE  \E k \in i + 1 .. N + 1 : k \in 1 .. N + 1 /\ znodes'[k].type = "new"
  <2>1. type \in {"new", "freeze"}
    BY <1>1, <1>7
  <2>2. i \in 1 .. N /\ znodes[i].type = "finalize"
    BY <1>3, <1>4, <1>7, <2>1
  <2>3. CASE type = "new"
    <3>1. N + 1 \in i + 1 .. N + 1 /\ N + 1 \in 1 .. N + 1
      BY <1>3, <2>2
    <3> QED
      BY <1>4, <2>3, <3>1
  <2>4. CASE type = "freeze"
    <3>1. PICK k \in i + 1 .. N : k \in 1 .. N /\ znodes[k].type = "new"
      BY <1>1, <1>5, <2>2, <2>4
    <3> QED
      BY <1>3, <1>4, <3>1
  <2> QED
    BY <2>1, <2>3, <2>4
<1>8. \A n \in StorageNodes : storage'[n].finalized =>
        seen'[n] \in 1 .. N + 1 /\ znodes'[seen'[n]].type = "finalize"
  BY <1>2, <1>3, <1>4, <1>5
<1> QED
  BY <1>4, <1>6, <1>7, <1>8 DEF FinalizeInv

\* Initially there is nothing to find.
LEMMA EntryInit == Init => FinalizeInv /\ EntryInv
<1> SUFFICES ASSUME Init PROVE FinalizeInv /\ EntryInv
  OBVIOUS
<1>1. /\ znodes = <<>> /\ msgs = {} /\ ctrl.state = "created"
      /\ seq = NewPrimary(-1, NoOccupation)
      /\ \A n \in StorageNodes : storage[n] = NewLogStorage(-1, NoOccupation)
  BY DEF Init, ControllerInit
<1>2. /\ seq.view = -1 /\ seq.dirty = {} /\ seq.last_cut = [s \in Shards |-> 0]
      /\ seq.progress = [s \in Shards |-> [n \in StorageNodes |-> 0]]
  BY <1>1 DEF NewPrimary
<1>3. \A n \in StorageNodes :
        /\ storage[n].view = -1 /\ storage[n].finalized = FALSE /\ storage[n].pending = {}
        /\ storage[n].progress = [s \in Shards |-> 0] /\ storage[n].failed = None
  BY <1>1 DEF NewLogStorage
<1>4. Cuts = {} /\ Reports = {}
  BY <1>1 DEF Cuts, Reports
<1>5. FinalizeInv
  BY <1>1, <1>3 DEF FinalizeInv
<1>6. EntriesOK
  <2>1. \A n \in StorageNodes : IsFiniteSet(storage[n].pending)
    BY <1>3, FS_EmptySet
  <2>2. \A n \in StorageNodes : storage[n].finalized \in BOOLEAN
    BY <1>3, Zenon
  <2> QED
    BY <1>2, <1>3, <2>1, <2>2 DEF EntriesOK
<1>7. ReportInv /\ CutInv
  BY <1>2, <1>3, <1>4 DEF ReportInv, CutInv
<1>8. PendingInv
  <2>1. \A n \in StorageNodes, s \in Shards : Uncut(n, s) .. storage[n].progress[s] - 1 = {}
    BY <1>2, <1>3 DEF Uncut
  <2> QED
    BY <1>4, <2>1 DEF PendingInv
<1> QED
  BY <1>3, <1>5, <1>6, <1>7, <1>8, RegistrationAssumption DEF EntryInv, CutIsStored

\* What does not read or write entries, cuts and znodes.
Quiet ==
    /\ UNCHANGED <<seq, storage, znodes>> /\ ctrl'.state = ctrl.state
    /\ \A n \in StorageNodes : seen'[n] = seen[n]
    /\ \A m \in msgs' : m.op \in {"METALOGS", "SHARD_PROG"} => m \in msgs

\* Steps of engines, peers and the controller's shard assignment are such.
LEMMA QuietSteps ==
    ASSUME IndInv,
           \/ \E n \in Peers : IndexerOnViewCreated(n) \/ AggregatorOnViewCreated(n)
           \/ \E n \in Peers, e \in Engines : RemoveEngineNode(n, e)
           \/ \E r \in shardReq : OnStorageShardZNodeCreated(r)
           \/ \E e \in Engines :
                \/ OnNodeOffline(e) \/ Crash(e)
                \/ EngineOnViewCreated(e) \/ EngineOnViewFrozen(e) \/ EngineOnViewFinalized(e)
                \/ HandleLocalAppend(e)
                \/ \E r \in shardResp : EngineOnShardResponse(e, r)
           \/ \E m \in msgs :
                \/ \E n \in Peers :
                      IndexerOnRecvRegistration(n, m) \/ AggregatorOnRecvRegistration(n, m)
                \/ \E e \in Engines :
                      \/ OnRegistrationFailed(e, m) \/ OnSequencerRegistered(e, m)
                      \/ OnNodeRegistered(e, m) \/ OnShardUnblocked(e, m)
                      \/ EngineOnRecvNewMetaLogs(e, m)
    PROVE  Quiet
<1>1. ASSUME NEW x \in Peers \cup Engines, NEW type, NextZNode(x, type)
      PROVE  \A n \in StorageNodes : seen'[n] = seen[n]
  <2>1. x \notin StorageNodes
    BY RegistrationAssumption
  <2> QED
    BY <1>1, <2>1 DEF NextZNode, IndInv, TypeOK, ZNodesOK, Nodes
<1>2. ASSUME NEW n \in Peers, IndexerOnViewCreated(n) \/ AggregatorOnViewCreated(n)
      PROVE  Quiet
  BY <1>1, <1>2 DEF IndexerOnViewCreated, AggregatorOnViewCreated, Quiet
<1>3. ASSUME NEW n \in Peers, NEW e \in Engines, RemoveEngineNode(n, e)
      PROVE  Quiet
  BY <1>3 DEF RemoveEngineNode, Quiet
<1>4. ASSUME NEW r \in shardReq, OnStorageShardZNodeCreated(r)
      PROVE  Quiet
  BY <1>4 DEF OnStorageShardZNodeCreated, Quiet, IndInv, TypeOK, ControllerOK
<1>5. ASSUME NEW e \in Engines, OnNodeOffline(e) \/ Crash(e)
      PROVE  Quiet
  BY <1>5 DEF OnNodeOffline, Crash, Quiet, IndInv, TypeOK, ControllerOK
<1>6. ASSUME NEW e \in Engines,
             EngineOnViewCreated(e) \/ EngineOnViewFrozen(e) \/ EngineOnViewFinalized(e)
      PROVE  Quiet
  <2>1. \E type : NextZNode(e, type)
    BY <1>6 DEF EngineOnViewCreated, EngineOnViewFrozen, EngineOnViewFinalized
  <2>2. UNCHANGED <<ctrl, znodes, seq, storage, msgs>>
    BY <1>6, Zenon DEF EngineOnViewCreated, EngineOnViewFrozen, EngineOnViewFinalized
  <2> QED
    BY <1>1, <2>1, <2>2 DEF Quiet
<1>7. ASSUME NEW e \in Engines, HandleLocalAppend(e)
      PROVE  Quiet
  <2>1. PICK v, s, i : \A m \in msgs' : m \in msgs \/ \E n : m = ReplicateMsg(v, s, i, e, n)
    BY <1>7, Zenon DEF HandleLocalAppend
  <2>2. \A m \in msgs' : m \in msgs \/ m.op = "REPLICATE"
    BY <2>1 DEF ReplicateMsg
  <2>3. UNCHANGED <<ctrl, znodes, seen, seq, storage>>
    BY <1>7, Zenon DEF HandleLocalAppend
  <2> QED
    BY <2>2, <2>3 DEF Quiet
<1>8. ASSUME NEW e \in Engines, NEW r \in shardResp, EngineOnShardResponse(e, r)
      PROVE  Quiet
  BY <1>8 DEF EngineOnShardResponse, RegisterMsg, Quiet
<1>9. ASSUME NEW m \in msgs, NEW n \in Peers,
             IndexerOnRecvRegistration(n, m) \/ AggregatorOnRecvRegistration(n, m)
      PROVE  Quiet
  BY <1>9 DEF IndexerOnRecvRegistration, AggregatorOnRecvRegistration, Received, Answer,
              RegisterMsg, Quiet
<1>10. ASSUME NEW m \in msgs, NEW e \in Engines,
              OnRegistrationFailed(e, m) \/ OnShardUnblocked(e, m) \/ EngineOnRecvNewMetaLogs(e, m)
       PROVE  Quiet
  <2>1. UNCHANGED <<ctrl, znodes, seen, seq, storage>> /\ msgs' = msgs \ {m}
    BY <1>10, Zenon DEF OnRegistrationFailed, OnShardUnblocked, EngineOnRecvNewMetaLogs, Received
  <2> QED
    BY <2>1 DEF Quiet
<1>11. ASSUME NEW m \in msgs, NEW e \in Engines,
              OnSequencerRegistered(e, m) \/ OnNodeRegistered(e, m)
       PROVE  Quiet
  <2>1. CASE OnSequencerRegistered(e, m)
    <3>1. \A k \in msgs' :
            k \in msgs \/ \E n : k = RegisterMsg("ENGINE", m.view, m.shard, e, m.start, e, n)
      BY <2>1, Zenon DEF OnSequencerRegistered, Received
    <3>2. \A k \in msgs' : k \in msgs \/ k.op = "REGISTER"
      BY <3>1 DEF RegisterMsg
    <3> QED
      BY <2>1, <3>2, Zenon DEF OnSequencerRegistered, Quiet
  <2>2. CASE OnNodeRegistered(e, m)
    <3>1. PICK i : \A k \in msgs' :
            k \in msgs \/ k = RegisterMsg("UNBLOCK", m.view, m.shard, e, i, e, Sequencer)
      BY <2>2, Zenon DEF OnNodeRegistered, Received
    <3>2. \A k \in msgs' : k \in msgs \/ k.op = "REGISTER"
      BY <3>1 DEF RegisterMsg
    <3> QED
      BY <2>2, <3>2, Zenon DEF OnNodeRegistered, Quiet
  <2> QED
    BY <1>11, <2>1, <2>2
<1> QED
  BY <1>2, <1>3, <1>4, <1>5, <1>6, <1>7, <1>8, <1>9, <1>10, <1>11

\* Every step keeps cuts and entries in order.
LEMMA EntryStep == IndInv /\ FinalizeInv /\ EntryInv /\ [Next]_vars => FinalizeInv' /\ EntryInv'
<1> SUFFICES ASSUME IndInv, FinalizeInv, EntryInv, [Next]_vars PROVE FinalizeInv' /\ EntryInv'
  OBVIOUS
<1>1. CASE UNCHANGED vars
  BY <1>1, EntryQuiet, FinalizeFrame DEF vars
<1>2. CASE Quiet
  BY <1>2, EntryQuiet, FinalizeFrame DEF Quiet
<1>3. CASE StartCommandHandler \/ ReconfigCommandHandler \/ OnFreezeZNodeCreated
           \/ OnFinalizePublished
  <2>1. UNCHANGED <<seq, storage, msgs>>
    BY <1>3 DEF StartCommandHandler, ReconfigCommandHandler, OnFreezeZNodeCreated,
                OnFinalizePublished
  <2> QED
    BY <1>3, <2>1, FinalizePublish, EntryQuiet
<1>4. CASE SequencerOnViewCreated \/ SequencerOnViewFrozen
  <2>1. \A n \in StorageNodes : seen'[n] = seen[n]
    <3>1. Sequencer \notin StorageNodes
      BY RegistrationAssumption
    <3> QED
      BY <1>4, <3>1 DEF SequencerOnViewCreated, SequencerOnViewFrozen, NextZNode,
                        IndInv, TypeOK, ZNodesOK, Nodes
  <2>2. UNCHANGED <<storage, ctrl, znodes>>
    BY <1>4 DEF SequencerOnViewCreated, SequencerOnViewFrozen
  <2> QED
    BY <1>4, <2>1, <2>2, FinalizeFrame, EntrySequencerCreated, EntrySequencerFrozen
<1>5. CASE MarkNextCut
  <2>1. UNCHANGED <<storage, ctrl, znodes, seen>>
    BY <1>5 DEF MarkNextCut
  <2> QED
    BY <1>5, <2>1, FinalizeFrame, EntryMarkNextCut
<1>6. ASSUME NEW n \in StorageNodes, StorageOnViewCreated(n) \/ StorageOnViewFinalized(n)
      PROVE  FinalizeInv' /\ EntryInv'
  BY <1>6, FinalizeStorage, EntryStorageCreated, EntryStorageFinalized
<1>7. ASSUME NEW m \in msgs, SequencerOnRecvRegistration(m) \/ SequencerOnRecvShardProgress(m)
      PROVE  FinalizeInv' /\ EntryInv'
  <2>1. UNCHANGED <<storage, ctrl, znodes, seen>>
    BY <1>7 DEF SequencerOnRecvRegistration, SequencerOnRecvShardProgress
  <2> QED
    BY <1>7, <2>1, FinalizeFrame, EntrySequencerRegistration, EntryShardProgress
<1>8. ASSUME NEW n \in StorageNodes, NEW m \in msgs,
             \/ StorageOnRecvRegistration(n, m) \/ HandleReplicateRequest(n, m)
             \/ StorageOnRecvNewMetaLogs(n, m)
      PROVE  FinalizeInv' /\ EntryInv'
  <2>1. UNCHANGED <<ctrl, znodes, seen>>
    BY <1>8, Zenon DEF StorageOnRecvRegistration, HandleReplicateRequest, StorageOnRecvNewMetaLogs
  <2>2. \A x \in StorageNodes : storage'[x].finalized = storage[x].finalized
    <3>1. StorageOK
      BY DEF IndInv, TypeOK
    <3>2. CASE UNCHANGED storage
      BY <3>2
    <3>3. CASE StorageOnRecvRegistration(n, m) /\ storage' # storage
      <4> DEFINE logs == RemovePendingEntries(storage[n], m.shard)
      <4>1. storage' = [storage EXCEPT ![n] = PutStorageShardOccupation(logs, m.shard, m.engine)]
        BY <3>3 DEF StorageOnRecvRegistration
      <4>2. logs.finalized = storage[n].finalized /\ DOMAIN logs = DOMAIN storage[n]
        BY <3>1 DEF StorageOK, RemovePendingEntries
      <4> HIDE DEF logs
      <4> QED
        BY <3>1, <4>1, <4>2 DEF StorageOK, PutStorageShardOccupation
    <3>4. CASE HandleReplicateRequest(n, m) /\ storage' # storage
      <4> DEFINE entry == [shard |-> m.shard, id |-> m.id, engine |-> m.engine]
                 p == {x \in storage[n].pending : x.shard # m.shard \/ x.id # m.id} \cup {entry}
                 q == [storage[n].progress EXCEPT
                         ![m.shard] = AdvanceShardProgress(p, @, m.shard)]
      <4>1. storage' = [storage EXCEPT ![n].pending = p, ![n].progress = q]
        BY <3>4 DEF HandleReplicateRequest
      <4> HIDE DEF p, q
      <4> QED
        BY <3>1, <4>1 DEF StorageOK
    <3>5. CASE StorageOnRecvNewMetaLogs(n, m) /\ storage' # storage
      <4> DEFINE uncut(S) == {x \in S : x.id \notin CutIds(m, x.shard)}
      <4>1. PICK f : storage' = [storage EXCEPT ![n].position = @ + 1, ![n].pending = uncut(@),
                                                ![n].failed = f]
        BY <3>5 DEF StorageOnRecvNewMetaLogs
      <4> HIDE DEF uncut
      <4> QED
        BY <3>1, <4>1 DEF StorageOK
    <3> QED
      BY <1>8, <3>2, <3>3, <3>4, <3>5
  <2>3. FinalizeInv'
    BY <2>1, <2>2, FinalizeFrame
  <2> QED
    BY <1>8, <2>3, EntryStorageRegistration, EntryReplicate, EntryStorageMetaLogs
<1>9. CASE Next
  BY <1>2, <1>3, <1>4, <1>5, <1>6, <1>7, <1>8, <1>9, QuietSteps DEF Next
<1> QED
  BY <1>1, <1>9

\* Every entry that a cut orders is stored where the cut is applied, across crashes of
\* the holder of a shard, its takeover, changes of view and late messages: no storage node
\* stops for a missing entry (LogStorage::OnNewLogs).
THEOREM CutsAreStored == Spec => []CutIsStored
<1>1. Init => FinalizeInv /\ EntryInv
  BY EntryInit
<1>2. IndInv /\ (FinalizeInv /\ EntryInv) /\ [Next]_vars => (FinalizeInv /\ EntryInv)'
  BY EntryStep
<1>3. EntryInv => CutIsStored
  BY DEF EntryInv
<1> QED
  BY <1>1, <1>2, <1>3, Invariance, PTL DEF Spec
=============================================================================
