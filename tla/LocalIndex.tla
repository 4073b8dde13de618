----------------------------- MODULE LocalIndex -----------------------------
(***************************************************************************)
(* The local index of an engine that runs with distributed indexing: the   *)
(* chain of seqnum suffixes, fed by metalogs, that answers reads without a *)
(* tag (index_local_suffix.cpp); the seqnum cache for reads before the     *)
(* chain (index_local_seq_cache.cpp); and the tag cache, fed by index      *)
(* data, that answers reads with a tag (index_local_tag_cache.cpp).  What  *)
(* none of them knows is asked of the index tier.                          *)
(*                                                                         *)
(* One physical log and one user logspace.  The log is given: it is what   *)
(* the metalogs order, view by view.  An engine in a debug build stops in  *)
(* LinkEntry's constructor, whose DCHECK excludes the last pair it is      *)
(* given, so DCHECKs are off here.                                         *)
(***************************************************************************)
EXTENDS Integers, Sequences, FiniteSets, FiniteSetsExt, SequencesExt, Functions

CONSTANTS
    Logs,           \* logs to consider: [views -> Seq([pos, shard, tag])]
    Span,           \* seqnums of a view: seqnum n of view v is v * Span + n
    MyShard,        \* the storage shard of this engine in every view
    JoinPositions,  \* metalog positions at which the engine may be unblocked
    MaxSuffix,      \* slog_engine_seqnum_suffix_cap
    MaxCache,       \* slog_engine_tag_cache_cap
    PerTagLimit,    \* slog_engine_per_tag_seqnums_limit
    SeqCacheCap,    \* slog_engine_seqnum_cache_cap
    Tags,           \* the tags of the log's entries, from 1 on
    Queries,        \* reads that functions make: [dir, tag, q]
    MaxReads,       \* reads of function calls
    MaxClears,      \* activations of caching
    None

EmptyTag == 0
Directions == {"next", "prev"}
ReadNextB  == "nextB"  \* no part of the local index has a case for it
ReadIds  == 1 .. MaxReads

ASSUME LocalIndexAssumption ==
    /\ Span \in Nat \ {0} /\ MaxSuffix \in Nat \ {0, 1} /\ PerTagLimit \in Nat \ {0}
    /\ \A x \in Queries : x.dir \in Directions \cup {ReadNextB} /\ x.tag \in Tags \cup {EmptyTag}

VARIABLES
    log,       \* the ordered log: per view, the entries with their cut, shard and tag
    view,      \* current_view_, or -1
    finalized, \* the current view is finalized and the next one not yet created
    chain,     \* SeqnumSuffixChain: its links, by view, and current_entries_
    heads,     \* suffix_chain_heads_ of the log
    cache,     \* TagCache; known: per_space_cache_ has the logspace
    seqCache,  \* seqnum_cache_: the seqnums it holds
    appended,  \* per view: own entries appended so far
    minMsgs,   \* READ_MIN requests and their answers on their way
    minTags,   \* pending_min_tags_ of the engine
    reads,     \* onging_reads_ and the answers given
    clears,    \* times caching was activated
    crashed,   \* the engine's process died
    mixed,     \* history: index data was entered under another view, replaced that of
               \* another view, or came after a later view's
    partial,   \* history: tags some of whose entries the cache did not get or dropped
    hollow     \* history: those of them that were later declared complete

vars == <<log, view, finalized, chain, heads, cache, seqCache, appended, minMsgs,
          minTags, reads, clears, crashed, mixed, partial, hollow>>

history   == <<mixed, partial, hollow>>
indexVars == <<chain, heads, cache, seqCache, crashed, history>>
minVars   == <<appended, minMsgs, minTags>>

-----------------------------------------------------------------------------
(* The log.                                                                *)

Views            == DOMAIN log
Seqnum(v, n)     == v * Span + n
GetViewId(s)     == s \div Span
LowHalf(s)       == s % Span
Halves(v)        == 0 .. Len(log[v]) - 1
Entry(v, n)      == log[v][n + 1]
FinalPosition(v) == Max({Entry(v, n).pos : n \in Halves(v)} \cup {0})
EndSeqnum(v, p)  == Cardinality({n \in Halves(v) : Entry(v, n).pos <= p})
CutShards(v, p)  == {Entry(v, n).shard : n \in {m \in Halves(v) : Entry(v, m).pos = p}}

\* kInvalidLogSeqNum is larger than every seqnum.
Invalid == Cardinality(Views) * Span

\* A cut with an entry of this engine comes after the append of the entry.
OwnEntries(v) == {n \in Halves(v) : Entry(v, n).shard = MyShard}
Ordered(v, p) == Cardinality({n \in OwnEntries(v) : Entry(v, n).pos <= p}) <= appended[v]

-----------------------------------------------------------------------------
(* SeqnumSuffixLink: for each cut, its last seqnum, its shards and, for    *)
(* each shard, the distance of the shard's last seqnum to it.              *)

\* ApplyMetaLog in suffix mode: the shards of the cut with their last seqnums.
ProductiveCuts(v, p) ==
    LET lastOfShard(n) == /\ Entry(v, n).pos = p
                          /\ n + 1 \in Halves(v) =>
                                \/ Entry(v, n + 1).pos # p
                                \/ Entry(v, n + 1).shard # Entry(v, n).shard
        ends == SetToSortSeq({n \in Halves(v) : lastOfShard(n)}, <)
    IN  [i \in DOMAIN ends |-> [shard |-> Entry(v, ends[i]).shard, bound |-> ends[i]]]

LinkEntry(cuts) ==
    [key    |-> Last(cuts).bound,
     shards |-> [i \in DOMAIN cuts |-> cuts[i].shard],
     diffs  |-> [i \in DOMAIN cuts |-> Last(cuts).bound - cuts[i].bound]]

\* The bound of the first shard of the first cut, not the first seqnum.
LinkHead(v, link) ==
    LET e == Head(link.entries)
    IN  [seqnum |-> Seqnum(v, e.key - e.diffs[1]), shard |-> e.shards[1]]

LinkTail(v, link) ==
    LET e == Last(link.entries)
    IN  [seqnum |-> Seqnum(v, e.key), shard |-> Last(e.shards)]

\* Seeded fault: the shard below the one the seqnum lies in.
ShardBelowInLinkEntry(e, n) ==
    LET above == {i \in DOMAIN e.diffs : e.diffs[i] >= e.key - n}
    IN  IF above = {} THEN e.shards[1] ELSE e.shards[Max(above)]

FindStorageShardIdInLinkEntry(e, n) ==
    LET diff  == e.key - n
        above == {i \in DOMAIN e.diffs : e.diffs[i] >= diff}
    IN  CASE n = e.key  -> Last(e.shards)
          [] above = {} -> e.shards[1]
          [] OTHER      -> e.shards[IF e.diffs[Max(above)] = diff THEN Max(above)
                                                                 ELSE Max(above) + 1]

\* The entry of a seqnum between the head and the tail of the link.
FindWithin(link, q) ==
    LET n == LowHalf(q)
        i == Min({j \in DOMAIN link.entries : link.entries[j].key > n})
    IN  [seqnum |-> q,
         shard  |-> IF i > 1 /\ link.entries[i - 1].key = n
                      THEN Last(link.entries[i - 1].shards)
                      ELSE FindStorageShardIdInLinkEntry(link.entries[i], n)]

LinkFindNext(v, link, q) ==
    CASE q < LinkHead(v, link).seqnum -> None
      [] q = LinkHead(v, link).seqnum -> LinkHead(v, link)
      [] q > LinkTail(v, link).seqnum -> None
      [] q = LinkTail(v, link).seqnum -> LinkTail(v, link)
      [] OTHER                        -> FindWithin(link, q)

LinkFindPrev(v, link, q) ==
    CASE q < LinkHead(v, link).seqnum  -> None
      [] q >= LinkTail(v, link).seqnum -> LinkTail(v, link)
      [] OTHER                         -> FindWithin(link, q)

-----------------------------------------------------------------------------
(* SeqnumSuffixChain.                                                      *)

NewestLink(c)       == Max(DOMAIN c.links)
MetalogPosition(c)  == c.links[NewestLink(c)].pos
MetalogProgress(c)  == Seqnum(NewestLink(c), MetalogPosition(c))
NonEmptyLinks(c)    == {v \in DOMAIN c.links : c.links[v].entries # <<>>}
NumEntries(c, vs)   == MapThenSumSet(LAMBDA v : Len(c.links[v].entries), vs)

Found(at, v, progress) == [state |-> "found", seqnum |-> at.seqnum, shard |-> at.shard,
                           view |-> v, progress |-> progress]
NotFound(state, progress) == [state |-> state, seqnum |-> Invalid, shard |-> None,
                              view |-> 0, progress |-> progress]

GetHead(c) == LinkHead(Min(NonEmptyLinks(c)), c.links[Min(NonEmptyLinks(c))])
GetTail(c) == LinkTail(Max(NonEmptyLinks(c)), c.links[Max(NonEmptyLinks(c))])

\* The next entry when q lies between the head and the tail of the chain.
NextWithinChain(c, q) ==
    LET lower == Min({v \in NonEmptyLinks(c) : v >= GetViewId(q)})
        next  == LinkFindNext(lower, c.links[lower], q)
        above == {v \in NonEmptyLinks(c) : v > lower}
    IN  IF next # None \/ above = {} THEN next ELSE LinkHead(Min(above), c.links[Min(above)])

PrevWithinChain(c, q) ==
    LET start == Min({v \in DOMAIN c.links : v >= GetViewId(q)})
        below == {v \in NonEmptyLinks(c) : v <= start}
    IN  IF below = {} THEN None ELSE LinkFindPrev(Max(below), c.links[Max(below)], q)

\* The view of a found entry is reported as the newest one of the chain.  A READ_NEXT_B
\* ends the process (UNREACHABLE).
ProcessChainQuery(c, dir, q) ==
    LET found(at)    == Found(at, NewestLink(c), MetalogProgress(c))
        not(state)   == NotFound(state, MetalogProgress(c))
        next         == NextWithinChain(c, q)
        prev         == PrevWithinChain(c, q)
    IN  IF dir \notin Directions THEN not("crash")
        ELSE IF NonEmptyLinks(c) = {} \/ q < GetHead(c).seqnum THEN not("miss")
        ELSE CASE q = GetHead(c).seqnum -> found(GetHead(c))
               [] dir = "next" /\ q = GetTail(c).seqnum  -> found(GetTail(c))
               [] dir = "next" /\ q > GetTail(c).seqnum  -> not("empty")
               [] dir = "prev" /\ q >= GetTail(c).seqnum -> found(GetTail(c))
               [] dir = "next" /\ q < GetTail(c).seqnum  ->
                      IF next = None THEN not("empty") ELSE found(next)
               [] OTHER -> IF prev = None THEN not("miss") ELSE found(prev)

\* Extend: a link for a new view, applied up to the given position.
Extend(c, v, pos) ==
    [c EXCEPT !.links = (v :> [entries |-> <<>>, pos |-> pos, pending |-> {}]) @@ @]

\* Whole links are erased from the front, then entries of the next one.
Trim(c, counter) ==
    LET upTo(v) == NumEntries(c, {u \in DOMAIN c.links : u <= v})
        kept    == {v \in DOMAIN c.links : upTo(v) > counter}
        rest    == counter - NumEntries(c, DOMAIN c.links \ kept)
    IN  [links |-> [v \in kept |->
                        IF v = Min(kept) THEN [c.links[v] EXCEPT !.entries = SubSeq(@, rest + 1, Len(@))]
                                         ELSE c.links[v]],
         count |-> c.count - counter]

\* The trim level is 0.2: every fifth entry, rounded.
TrimToCap(c) ==
    IF c.count > MaxSuffix THEN Trim(c, (2 * c.count + 5) \div 10) ELSE c

\* A metalog is applied when the ones before it are; current_entries_ grows by
\* one however many are applied.
ApplyMetaLog(c, p) ==
    LET v    == NewestLink(c)
        link == c.links[v]
        pend == link.pending \cup {p}
        to   == Max({m \in link.pos .. FinalPosition(v) : link.pos + 1 .. m \subseteq pend})
        new  == [i \in 1 .. to - link.pos |-> LinkEntry(ProductiveCuts(v, link.pos + i))]
    IN  IF p <= link.pos THEN c
        ELSE [links |-> [c.links EXCEPT ![v] = [entries |-> link.entries \o new, pos |-> to,
                                                pending |-> {m \in pend : m > to}]],
              count |-> c.count + (IF to > link.pos THEN 1 ELSE 0)]

-----------------------------------------------------------------------------
(* TagCache.  A tag's entry holds, per view, the latest seqnums with the   *)
(* tag and their shards, the seqnum that an index node named as the tag's  *)
(* minimum, and whether the suffix holds all of the tag's seqnums.         *)

TagEntry(v, n, shard, popularity) ==
    [suffix |-> v :> <<[n |-> n, shard |-> shard]>>, min |-> Invalid, minShard |-> 0,
     popularity |-> popularity, complete |-> FALSE]

Add(e, v, n, shard, popularity) ==
    LET link == IF v \in DOMAIN e.suffix THEN e.suffix[v] ELSE <<>>
    IN  [e EXCEPT !.suffix = (v :> Append(link, [n |-> n, shard |-> shard])) @@ @,
                  !.popularity = popularity]

NumSeqnumsInSuffix(e) == MapThenSumSet(LAMBDA v : Len(e.suffix[v]), DOMAIN e.suffix)

At(v, x)         == [seqnum |-> Seqnum(v, x.n), shard |-> x.shard]
GetSuffixHead(e) == At(Min(DOMAIN e.suffix), Head(e.suffix[Min(DOMAIN e.suffix)]))
GetSuffixTail(e) == At(Max(DOMAIN e.suffix), Last(e.suffix[Max(DOMAIN e.suffix)]))


\* TagEntry::Evict: the oldest seqnums beyond the limit.
EvictFront(e) ==
    LET surplus == NumSeqnumsInSuffix(e) - PerTagLimit
        before(v) == MapThenSumSet(LAMBDA u : Len(e.suffix[u]), {u \in DOMAIN e.suffix : u < v})
        kept    == {v \in DOMAIN e.suffix : before(v) + Len(e.suffix[v]) > surplus}
    IN  IF surplus <= 0 THEN e
        ELSE [e EXCEPT !.complete = FALSE,
                       !.suffix = [v \in kept |->
                            SubSeq(@[v], Max({surplus - before(v), 0}) + 1, Len(@[v]))]]

HeadAsMin(e) == [e EXCEPT !.min = GetSuffixHead(e).seqnum, !.minShard = GetSuffixHead(e).shard]

\* PerSpaceTagCache::AddOrUpdate: a minimum that came before the tag is merged.
AddOrUpdate(c, t, v, n, shard, popularity) ==
    LET e == IF t \in DOMAIN c.tags THEN Add(c.tags[t], v, n, shard, popularity)
                                    ELSE TagEntry(v, n, shard, popularity)
        p == c.pendingMin[t]
        merged == IF p.min = Invalid
                    THEN [HeadAsMin(e) EXCEPT !.complete = p.complete]
                    ELSE [e EXCEPT !.min = p.min, !.minShard = p.minShard,
                                   !.complete = p.complete]
    IN  IF t \in DOMAIN c.pendingMin
          THEN [c EXCEPT !.tags = (t :> merged) @@ @, !.known = TRUE,
                         !.pendingMin = Restrict(@, DOMAIN @ \ {t})]
          ELSE [c EXCEPT !.tags = (t :> e) @@ @, !.known = TRUE]

\* A tag without a minimum before the request's log tail is taken to be new.
HandleMinSeqnum(c, m) ==
    LET t     == m.tag
        isNew == m.min = Invalid \/ m.timestamp <= m.min
    IN  CASE t \in DOMAIN c.tags /\ isNew ->
                [c EXCEPT !.tags[t] = [HeadAsMin(@) EXCEPT !.complete = TRUE]]
          [] t \in DOMAIN c.tags /\ ~isNew ->
                [c EXCEPT !.tags[t].min = m.min, !.tags[t].minShard = m.shard]
          [] t \in DOMAIN c.pendingMin -> c
          [] OTHER ->
                [c EXCEPT !.known = TRUE, !.pendingMin =
                    (t :> [min |-> IF isNew THEN Invalid ELSE m.min, minShard |-> m.shard,
                           complete |-> isNew]) @@ @]

Miss == [state |-> "miss"]
Hit(at) == [state |-> "found", at |-> at]

\* PerSpaceTagCache::FindNext.
FindNext(e, q) ==
    LET head  == GetSuffixHead(e)
        tail  == GetSuffixTail(e)
        lower == Min({v \in DOMAIN e.suffix : v >= GetViewId(q)})
        in    == {i \in DOMAIN e.suffix[lower] : e.suffix[lower][i].n >= LowHalf(q)}
        upper == Min({v \in DOMAIN e.suffix : v > lower})
    IN  CASE q + 1 < head.seqnum /\ e.complete -> Hit(head)
          [] q + 1 < head.seqnum /\ ~e.complete ->
                IF e.min # Invalid /\ q <= e.min
                  THEN Hit([seqnum |-> e.min, shard |-> e.minShard]) ELSE Miss
          [] q = head.seqnum -> Hit(head)
          [] q = tail.seqnum -> Hit(tail)
          [] q > tail.seqnum -> [state |-> "empty"]
          [] OTHER -> IF in # {} THEN Hit(At(lower, e.suffix[lower][Min(in)]))
                                 ELSE Hit(At(upper, Head(e.suffix[upper])))

\* PerSpaceTagCache::FindPrev.  Between the head and the tail the reverse iterator
\* made of lower_bound stands before the link of q's view.  Without a link there it
\* is dereferenced at the end: the bytes behind the map's header, seqnum_min_, are
\* used as a pointer, and the process dies.
FindPrev(e, q) ==
    LET head  == GetSuffixHead(e)
        tail  == GetSuffixTail(e)
        below == {v \in DOMAIN e.suffix : v < GetViewId(q)}
        upper == Max(below)
        in    == {i \in DOMAIN e.suffix[upper] : e.suffix[upper][i].n <= LowHalf(q)}
        lower == below \ {upper}
    IN  CASE q >= tail.seqnum -> Hit(tail)
          [] q = head.seqnum  -> Hit(head)
          [] q < head.seqnum  ->
                CASE e.complete -> [state |-> "empty"]
                  [] ~e.complete /\ e.min # Invalid /\ e.min = q ->
                        Hit([seqnum |-> e.min, shard |-> e.minShard])
                  [] OTHER -> Miss
          [] OTHER ->
                CASE below = {} -> [state |-> "crash"]
                  [] below # {} /\ in # {} -> Hit(At(upper, e.suffix[upper][Max(in)]))
                  [] below # {} /\ in = {} /\ lower # {} ->
                        Hit(At(Max(lower), Last(e.suffix[Max(lower)])))
                  [] OTHER -> [state |-> "crash"]

Find(e, dir, q) == IF dir = "next" THEN FindNext(e, q) ELSE FindPrev(e, q)

-----------------------------------------------------------------------------
(* The tag cache's progress and its queries.                               *)

LatestView(c)     == Max(DOMAIN c.views)
LatestPosition(c) == c.views[LatestView(c)].pos
Popularity(c)     == Seqnum(LatestView(c), LatestPosition(c))

\* The progress that is reported has no view.
IndexMetalogProgress(c) == LatestPosition(c)

ProcessTagQuery(c, dir, t, q) ==
    IF c.known /\ dir \notin Directions THEN NotFound("crash", IndexMetalogProgress(c))
    ELSE IF t \notin DOMAIN c.tags THEN NotFound("miss", IndexMetalogProgress(c))
    ELSE LET r == Find(c.tags[t], dir, q)
         IN  IF r.state = "found" THEN Found(r.at, LatestView(c), IndexMetalogProgress(c))
                                  ELSE NotFound(r.state, IndexMetalogProgress(c))

\* A found answer makes its tag as popular as the latest data.
MakePopular(c, ts) ==
    [c EXCEPT !.tags = [t \in DOMAIN @ |->
                            IF t \in ts THEN [@[t] EXCEPT !.popularity = Popularity(c)] ELSE @[t]]]

\* joined is history: the position at which the engine joined the view.
InstallView(c, v, pos) ==
    [c EXCEPT !.views = (v :> [pos |-> pos, updates |-> <<>>, joined |-> pos]) @@ @]

\* CheckIfNewIndexData and the entries with a tag; received_data_ is keyed by the
\* low half of the seqnum for all views together.
ProvideIndexData(c, v, p, shards) ==
    LET w    == c.views[v]
        had  == IF p \in DOMAIN w.updates THEN w.updates[p] ELSE {}
        news == {n \in Halves(v) : /\ Entry(v, n).pos = p /\ Entry(v, n).shard \in shards
                                   /\ Entry(v, n).tag # EmptyTag}
    IN  IF p <= w.pos \/ shards \subseteq had THEN c
        ELSE [c EXCEPT !.views[v].updates = (p :> (had \cup shards)) @@ @,
                       !.received = [n \in news |-> v] @@ @]

\* Entries of the completed cut go to their tags, in the order of seqnums.
EnterReceived(c, v, end) ==
    LET due   == SetToSortSeq({n \in DOMAIN c.received : n < end}, <)
        enter(d, n) == LET x == Entry(d.received[n], n)
                       IN  AddOrUpdate(d, x.tag, v, n, x.shard, Popularity(c))
        full  == FoldLeft(enter, c, due)
    IN  [full EXCEPT !.received = Restrict(@, {n \in DOMAIN @ : n >= end}),
                     !.size = @ + Len(due),
                     !.popularities = Append(@, Popularity(c))]

\* TryCompleteIndexUpdates for as long as the next cut has come from all its shards.
RECURSIVE CompleteUpdates(_, _)
CompleteUpdates(c, v) ==
    LET w == c.views[v]
        p == w.pos + 1
    IN  IF p \in DOMAIN w.updates /\ w.updates[p] = CutShards(v, p)
          THEN CompleteUpdates(
                   EnterReceived([c EXCEPT !.views[v].pos = p,
                                           !.views[v].updates = Restrict(@, DOMAIN @ \ {p})],
                                 v, EndSeqnum(v, p)), v)
          ELSE c

\* PerSpaceTagCache::Evict: tags not more popular than the bound, and the front of
\* the suffix of the others.
EvictTags(c, popularity) ==
    LET kept == {t \in DOMAIN c.tags : c.tags[t].popularity > popularity}
        tags == [t \in kept |-> EvictFront(c.tags[t])]
        size(ts) == MapThenSumSet(LAMBDA t : NumSeqnumsInSuffix(ts[t]), DOMAIN ts)
    IN  [c EXCEPT !.tags = tags,
                  !.pendingMin = Restrict(@, DOMAIN @ \ (DOMAIN c.tags \ kept)),
                  !.size = @ - (size(c.tags) - size(tags))]

\* The bound is taken a fifth into the popularities; past the end of them at() throws.
RECURSIVE Evict(_)
Evict(c) ==
    LET n  == Len(c.popularities)
        ix == (n + 4) \div 5
    IN  CASE c.size <= MaxCache -> c
          [] c.size > MaxCache /\ ix >= n -> [c EXCEPT !.failed = TRUE]
          [] OTHER -> Evict([EvictTags(c, c.popularities[ix + 1])
                                EXCEPT !.popularities = SubSeq(@, ix + 2, n)])

-----------------------------------------------------------------------------
(* The engine.                                                             *)

NewRead == [at |-> "none", dir |-> None, tag |-> None, q |-> None, progress |-> 0,
            lookupMiss |-> FALSE]

Init ==
    /\ log \in Logs
    /\ view = -1 /\ finalized = FALSE
    /\ chain = [links |-> <<>>, count |-> 0] /\ heads = 0
    /\ cache = [views |-> <<>>, received |-> <<>>, tags |-> <<>>, pendingMin |-> <<>>,
                size |-> 0, popularities |-> <<>>, known |-> FALSE, failed |-> FALSE]
    /\ seqCache = {}
    /\ appended = [v \in Views |-> 0]
    /\ minMsgs = {} /\ minTags = <<>>
    /\ reads = [r \in ReadIds |-> NewRead]
    /\ clears = 0 /\ crashed = FALSE /\ mixed = FALSE /\ partial = {} /\ hollow = {}

\* ProcessIndexQueryResults: a miss goes to the index tier, the rest to the function.
Answered(read, ans) == IF ans.state = "miss" THEN [read EXCEPT !.at = "tier", !.progress = 0]
                                             ELSE [NewRead EXCEPT !.at = "done"]

PositionOf(r) == LowHalf(reads[r].progress)

\* OnRecvRegistrationResponse with REGISTER_UNBLOCK: the chain and the cache get the
\* new view at the position the engine is told.
OnRecvUnblock(pos) ==
    /\ view + 1 \in Views /\ (view >= 0 => finalized)
    /\ pos \in JoinPositions /\ pos <= FinalPosition(view + 1)
    /\ view' = view + 1 /\ finalized' = FALSE
    /\ chain' = Extend(chain, view + 1, pos)
    /\ cache' = InstallView(cache, view + 1, pos)
    /\ appended' = [appended EXCEPT ![view + 1] =
                        Cardinality({n \in OwnEntries(view + 1) : Entry(view + 1, n).pos <= pos})]
    /\ partial' = partial \cup {Entry(view + 1, n).tag :
                        n \in {m \in Halves(view + 1) : Entry(view + 1, m).pos <= pos}}
    /\ UNCHANGED <<log, heads, seqCache, minMsgs, minTags, reads, clears, crashed,
                   mixed, hollow>>

\* Seeded fault: a query one cut ahead is taken to be covered.
OneCutAhead(progress, newest, position) ==
    GetViewId(progress) = newest /\ position + 1 < LowHalf(progress)

\* MakeQuery: a query of the newest view ahead of the index waits.
IsAhead(progress, newest, position) ==
    GetViewId(progress) = newest /\ position < LowHalf(progress)

\* The waiting reads become misses, but the list of misses they are put on is a
\* local of a frame that has returned: they are sent to nobody.
OnViewFinalized ==
    /\ view >= 0 /\ ~finalized /\ appended[view] = Cardinality(OwnEntries(view))
    /\ finalized' = TRUE
    /\ reads' = [r \in ReadIds |-> IF reads[r].at \in {"chain", "cache"}
                                     THEN [reads[r] EXCEPT !.at = "lost"] ELSE reads[r]]
    /\ UNCHANGED <<log, view, indexVars, minVars, clears>>

\* OnRecvNewMetaLogs.  Metalogs of earlier views are ignored.  Reads that waited for
\* the position are answered before the chain is trimmed.
OnRecvNewMetaLogs(p) ==
    LET c == ApplyMetaLog(chain, p)
        ans(r) == ProcessChainQuery(c, reads[r].dir, reads[r].q)
        ready  == {r \in ReadIds : reads[r].at = "chain" /\ PositionOf(r) <= MetalogPosition(c)}
    IN  /\ view >= 0 /\ p \in 1 .. FinalPosition(view) /\ Ordered(view, p)
        /\ chain' = TrimToCap(c)
        /\ heads' = IF NonEmptyLinks(TrimToCap(c)) = {} THEN 0
                                                       ELSE GetHead(TrimToCap(c)).seqnum
        /\ reads' = [r \in ReadIds |-> IF r \in ready THEN Answered(reads[r], ans(r)) ELSE reads[r]]
        /\ crashed' = \E r \in ready : ans(r).state = "crash"
        /\ UNCHANGED <<log, view, finalized, cache, seqCache, minVars, clears, history>>

\* AdvanceIndexProgress: complete cuts are entered, waiting reads answered, and the
\* cache is brought below its bound.
AdvanceIndexProgress(c, v) ==
    LET full    == CompleteUpdates(c, v)
        ready   == {r \in ReadIds : reads[r].at = "cache" /\ PositionOf(r) <= LatestPosition(full)}
        ans(r)  == ProcessTagQuery(full, reads[r].dir, reads[r].tag, reads[r].q)
        hits    == {reads[r].tag : r \in {x \in ready : ans(x).state = "found"}}
        last    == Evict(MakePopular(full, hits))
        lost(t) == \/ t \notin DOMAIN last.tags
                   \/ NumSeqnumsInSuffix(last.tags[t]) < NumSeqnumsInSuffix(full.tags[t])
    IN  /\ mixed' = \/ mixed
                    \/ \E n \in DOMAIN cache.received : cache.received[n] # c.received[n]
                    \/ \E n \in DOMAIN c.received \ DOMAIN full.received : c.received[n] # v
                    \/ /\ full.views[v].pos # c.views[v].pos
                       /\ \E u \in DOMAIN c.views : u > v /\ c.views[u].pos > c.views[u].joined
        /\ hollow' = hollow \cup {t \in partial \cap DOMAIN full.tags :
                                /\ full.tags[t].complete
                                /\ t \in DOMAIN cache.tags => ~cache.tags[t].complete}
        /\ IF full.views[v].pos = c.views[v].pos
          THEN /\ cache' = full
               /\ UNCHANGED <<reads, crashed, partial>>
          ELSE /\ cache' = last
               /\ reads' = [r \in ReadIds |-> IF r \in ready THEN Answered(reads[r], ans(r)) ELSE reads[r]]
               /\ crashed' = (last.failed \/ \E r \in ready : ans(r).state = "crash")
               /\ partial' = partial \cup {t \in DOMAIN full.tags : lost(t)}

\* OnRecvNewIndexData: the minima that have come are handed over with the package, then
\* the package; data of earlier views is taken.  A message of several packages leads to
\* states that messages of one lead to as well.
OnRecvNewIndexData(v, p, shards) ==
    LET withMin == FoldLeft(HandleMinSeqnum, cache, minTags)
    IN  /\ view >= v /\ p <= FinalPosition(v) /\ Ordered(v, p)
        /\ shards # {} /\ shards \subseteq CutShards(v, p)
        /\ minTags' = <<>>
        /\ AdvanceIndexProgress(ProvideIndexData(withMin, v, p, shards), v)
        /\ UNCHANGED <<log, view, finalized, chain, heads, seqCache, appended, minMsgs, clears>>

\* HandleLocalAppend: the minimum of a tag that the cache does not know is asked for,
\* with the log's tail as known here.
HandleLocalAppend ==
    /\ view >= 0 /\ ~finalized /\ appended[view] < Cardinality(OwnEntries(view))
    /\ LET n   == SetToSortSeq(OwnEntries(view), <)[appended[view] + 1]
           t   == Entry(view, n).tag
           end == EndSeqnum(view, MetalogPosition(chain))
       IN  /\ Ordered(view, Entry(view, n).pos - 1)
           /\ minMsgs' = IF t = EmptyTag \/ t \in DOMAIN cache.tags THEN minMsgs
                         ELSE minMsgs \cup {[op |-> "READ_MIN", tag |-> t,
                                             timestamp |-> Seqnum(view, end)]}
           /\ cache' = IF t = EmptyTag THEN cache ELSE [cache EXCEPT !.known = TRUE]
    /\ appended' = [appended EXCEPT ![view] = @ + 1]
    /\ UNCHANGED <<log, view, finalized, chain, heads, seqCache, crashed, history, minTags,
                   reads, clears>>

\* What the index node that owns tag t may have in per_tag_min_seqnum_table_: the least
\* seqnum of the index data that has come, from any storage nodes, or nothing.
FilterNewTags(t) ==
    {Invalid} \cup UNION {{Seqnum(v, n) : n \in {m \in Halves(v) :
                               Entry(v, m).tag = t /\ Ordered(v, Entry(v, m).pos)}} : v \in 0 .. view}

HandleReadMinRequest(m) ==
    /\ m.op = "READ_MIN"
    /\ \E s \in FilterNewTags(m.tag) :
           minMsgs' = (minMsgs \ {m}) \cup
               {[op |-> "INDEX_MIN_OK", tag |-> m.tag, timestamp |-> m.timestamp, min |-> s,
                 shard |-> IF s = Invalid THEN 0 ELSE Entry(GetViewId(s), LowHalf(s)).shard]}
    /\ UNCHANGED <<log, view, finalized, indexVars, appended, minTags, reads, clears>>

OnRecvMinResponse(m) ==
    /\ m.op = "INDEX_MIN_OK"
    /\ minMsgs' = minMsgs \ {m}
    /\ minTags' = Append(minTags, m)
    /\ UNCHANGED <<log, view, finalized, indexVars, appended, reads, clears>>

\* HandleLocalRead.  A query ahead of the index waits; without a tag, one before the
\* head of the chain is looked up in the seqnum cache.
HandleLocalRead(r, dir, tag, q, progress) ==
    LET read  == [NewRead EXCEPT !.dir = dir, !.tag = tag, !.q = q, !.progress = progress]
        point == IF q \in seqCache
                   THEN Found([seqnum |-> q, shard |-> Entry(GetViewId(q), LowHalf(q)).shard],
                              GetViewId(q), read.progress)
                   ELSE NotFound("miss", read.progress)
        ans   == IF tag = EmptyTag THEN ProcessChainQuery(chain, dir, q)
                                   ELSE ProcessTagQuery(cache, dir, tag, q)
    IN  /\ view >= 0 /\ GetViewId(progress) <= view
        /\ LowHalf(progress) <= FinalPosition(GetViewId(progress))
        /\ Ordered(GetViewId(progress), LowHalf(progress))
        /\ reads[r].at = "none" /\ (r > 1 => reads[r - 1].at # "none")
        /\ \/ /\ tag = EmptyTag /\ q >= heads
              /\ IsAhead(progress, NewestLink(chain), MetalogPosition(chain))
              /\ reads' = [reads EXCEPT ![r] = [read EXCEPT !.at = "chain"]]
              /\ UNCHANGED <<cache, crashed>>
           \/ /\ tag = EmptyTag /\ q >= heads
              /\ ~IsAhead(progress, NewestLink(chain), MetalogPosition(chain))
              /\ reads' = [reads EXCEPT ![r] = Answered(read, ans)]
              /\ crashed' = (ans.state = "crash")
              /\ UNCHANGED cache
           \/ /\ tag = EmptyTag /\ q < heads
              /\ reads' = [reads EXCEPT ![r] =
                    Answered([read EXCEPT !.lookupMiss = (q \notin seqCache)], point)]
              /\ UNCHANGED <<cache, crashed>>
           \/ /\ tag # EmptyTag /\ IsAhead(progress, LatestView(cache), LatestPosition(cache))
              /\ reads' = [reads EXCEPT ![r] = [read EXCEPT !.at = "cache"]]
              /\ UNCHANGED <<cache, crashed>>
           \/ /\ tag # EmptyTag /\ ~IsAhead(progress, LatestView(cache), LatestPosition(cache))
              /\ reads' = [reads EXCEPT ![r] = Answered(read, ans)]
              /\ cache' = IF ans.state = "found" THEN MakePopular(cache, {tag}) ELSE cache
              /\ crashed' = (ans.state = "crash")
        /\ UNCHANGED <<log, view, finalized, chain, heads, seqCache, minVars, clears, history>>

\* OnRecvResponse READ_OK from the index tier: a seqnum that was not found here is
\* put into the seqnum cache, whose library drops any other record when it is full.
OnRecvResponse(r, v, n) ==
    /\ reads[r].at = "tier" /\ v <= view /\ Ordered(v, Entry(v, n).pos)
    /\ reads[r].tag \in {EmptyTag, Entry(v, n).tag}
    /\ IF reads[r].dir = "next" THEN Seqnum(v, n) >= reads[r].q ELSE Seqnum(v, n) <= reads[r].q
    /\ reads' = [reads EXCEPT ![r] = [NewRead EXCEPT !.at = "done"]]
    /\ LET put == seqCache \cup {Seqnum(v, n)}
       IN  seqCache' \in IF reads[r].lookupMiss /\ Cardinality(put) > SeqCacheCap
                           THEN {put \ {s} : s \in seqCache}
                           ELSE IF reads[r].lookupMiss THEN {put} ELSE {seqCache}
    /\ UNCHANGED <<log, view, finalized, chain, heads, cache, minVars, clears, crashed, history>>

\* OnRecvResponse EMPTY or DATA_LOST: the read is over.
OnRecvFailure(r) ==
    /\ reads[r].at = "tier"
    /\ reads' = [reads EXCEPT ![r] = [NewRead EXCEPT !.at = "done"]]
    /\ UNCHANGED <<log, view, finalized, indexVars, minVars, clears>>

\* OnActivateCaching empties everything.
OnActivateCaching ==
    /\ clears < MaxClears /\ clears' = clears + 1
    /\ chain' = [links |-> [v \in DOMAIN chain.links |-> [chain.links[v] EXCEPT !.entries = <<>>]],
                 count |-> 0]
    /\ heads' = 0
    /\ cache' = [cache EXCEPT !.tags = <<>>, !.pendingMin = <<>>, !.popularities = <<>>, !.size = 0]
    /\ seqCache' = {}
    /\ partial' = partial \cup DOMAIN cache.tags
    /\ UNCHANGED <<log, view, finalized, minVars, reads, crashed, mixed, hollow>>

Next ==
    /\ ~crashed
    /\ \/ \E pos \in JoinPositions : OnRecvUnblock(pos)
       \/ OnViewFinalized
       \/ \E p \in 1 .. Span : OnRecvNewMetaLogs(p)
       \/ \E v \in Views : \E p \in 1 .. FinalPosition(v) :
             \E shards \in {CutShards(v, p)} \cup {{s} : s \in CutShards(v, p)} :
                OnRecvNewIndexData(v, p, shards)
       \/ HandleLocalAppend
       \/ \E m \in minMsgs : HandleReadMinRequest(m) \/ OnRecvMinResponse(m)
       \/ \E r \in ReadIds, x \in Queries, v \in Views : \E pos \in 0 .. FinalPosition(v) :
             HandleLocalRead(r, x.dir, x.tag, x.q, Seqnum(v, pos))
       \/ \E r \in ReadIds : \E v \in Views : \E n \in Halves(v) : OnRecvResponse(r, v, n)
       \/ \E r \in ReadIds : OnRecvFailure(r)
       \/ OnActivateCaching

Spec == Init /\ [][Next]_vars

-----------------------------------------------------------------------------
(* Properties.                                                             *)

EntryAt(s) == Entry(GetViewId(s), LowHalf(s))

\* A view never uses up its seqnums: the last one is not next to the following view's.
AllSeqnums == {q \in 0 .. Invalid : LowHalf(q) < Span - 1}

\* The seqnums that the chain covers: a link has one entry for each of its last cuts,
\* and of the first of them it sees the seqnums from its head on.
ChainSeqnums ==
    UNION {{Seqnum(v, n) : n \in {m \in Halves(v) :
                LET link == chain.links[v]
                IN  /\ Entry(v, m).pos \in link.pos - Len(link.entries) + 1 .. link.pos
                    /\ Seqnum(v, m) >= LinkHead(v, link).seqnum}} :
           v \in NonEmptyLinks(chain)}

\* q lies before the head of a link that is not the first one of the chain.
InFrontOfLaterLink(q) ==
    \E u, v \in NonEmptyLinks(chain) :
        /\ u < v /\ q < LinkHead(v, chain.links[v]).seqnum
        /\ \A w \in NonEmptyLinks(chain) : w >= GetViewId(q) => w >= v

\* A read without a tag that the suffix chain answers (ProcessReadNext and
\* ProcessReadPrev, with the key differences of LinkEntry, trimming and metalogs out of
\* order) finds the entry that a search of the chain's seqnums finds, with the shard that
\* stores it.  Exempt is a READ_NEXT that starts before the head of a later view's link:
\* FindNext refuses it and the link is passed over.
ChainReadIsLogSearch ==
    NonEmptyLinks(chain) # {} => \A dir \in Directions : \A q \in AllSeqnums :
        LET a == ProcessChainQuery(chain, dir, q)
        IN  ~(dir = "next" /\ InFrontOfLaterLink(q)) =>
            /\ a.state = "found" =>
                  /\ EntryAt(a.seqnum).shard = a.shard
                  /\ a.seqnum = IF dir = "next" THEN Min({s \in ChainSeqnums : s >= q})
                                                ELSE Max({s \in ChainSeqnums : s <= q})
            /\ a.state = "empty" => dir = "next" /\ \A s \in ChainSeqnums : s < q

\* The seqnums with tag t in the cuts that the tag cache has completed.
IndexedSeqnums(t) ==
    UNION {{Seqnum(v, n) : n \in {m \in Halves(v) : /\ Entry(v, m).tag = t
                                                   /\ Entry(v, m).pos <= cache.views[v].pos}} :
           v \in DOMAIN cache.views}

\* The engine joined the view of s after the cut of s, which never reaches it, while it
\* still holds an older entry.
SkippedBehind(head, s) ==
    EntryAt(s).pos <= cache.views[GetViewId(s)].joined /\ head < s


\* A READ_NEXT that the local index answers at once with EMPTY does not overlook an entry
\* up to the metalog progress of its function call, and a read that waits for the index
\* (MakeQuery, pending_queries_) does not wait for a position the index has reached.
\* For progress in the engine's current view, and seqnums of it; but the entries up to the
\* position where the engine joined the view are overlooked behind those of an earlier one.
IndexReachesSession ==
    /\ view >= 0 /\ ~mixed => \A tag \in Tags \cup {EmptyTag} : \A pos \in 0 .. FinalPosition(view) :
        LET position == IF tag = EmptyTag THEN MetalogPosition(chain) ELSE LatestPosition(cache)
            seen     == {Seqnum(view, n) : n \in {m \in Halves(view) :
                            Entry(view, m).pos <= pos /\ tag \in {EmptyTag, Entry(view, m).tag}}}
            empty(q) == IF tag = EmptyTag
                          THEN ~InFrontOfLaterLink(q) /\ ProcessChainQuery(chain, "next", q).state = "empty"
                          ELSE ProcessTagQuery(cache, "next", tag, q).state = "empty"
            skipped(q) == IF tag = EmptyTag
                            THEN NonEmptyLinks(chain) # {} /\ SkippedBehind(GetHead(chain).seqnum, q)
                            ELSE tag \in DOMAIN cache.tags
                                 /\ SkippedBehind(GetSuffixHead(cache.tags[tag]).seqnum, q)
        IN  ~IsAhead(Seqnum(view, pos), view, position) =>
                \A q \in seen : empty(q) => skipped(q)
    /\ ~crashed => \A r \in ReadIds : GetViewId(reads[r].progress) = view =>
        /\ reads[r].at = "chain" => PositionOf(r) > MetalogPosition(chain)
        /\ reads[r].at = "cache" => PositionOf(r) > LatestPosition(cache)
=============================================================================
