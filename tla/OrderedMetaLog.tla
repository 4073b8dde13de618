--------------------------- MODULE OrderedMetaLog ---------------------------
(***************************************************************************)
(* What the metalog of a phylog promises to the rest of the system: one    *)
(* growing sequence of cuts, of which readers (storage and engine nodes)   *)
(* hold prefixes; a cut is committed before any reader sees it; the seal   *)
(* of the view keeps every committed cut and bounds every reader.          *)
(***************************************************************************)
EXTENDS Integers, Sequences

CONSTANTS Readers, Cuts

VARIABLES
    log,        \* the cuts, in order
    committed,  \* how many of them are committed
    reader,     \* reader[r]: the cuts reader r has applied
    sealed      \* {} or {the length of the sealed log}

vars == <<log, committed, reader, sealed>>

Init ==
    /\ log = <<>>
    /\ committed = 0
    /\ reader = [r \in Readers |-> <<>>]
    /\ sealed = {}

\* A new cut, once all earlier ones are committed.
Mark ==
    /\ committed = Len(log)
    /\ \E c \in Cuts : log' = Append(log, c)
    /\ UNCHANGED <<committed, reader, sealed>>

\* After the seal only cuts below it can still commit.
Commit ==
    /\ committed' \in (committed + 1)..Len(log)
    /\ \A p \in sealed : committed' <= p
    /\ UNCHANGED <<log, reader, sealed>>

\* A reader extends its prefix, up to what is committed or sealed.
Read(r) ==
    \E k \in Len(reader[r])..Len(log) :
        /\ k <= committed \/ \E p \in sealed : k <= p
        /\ reader' = [reader EXCEPT ![r] = SubSeq(log, 1, k)]
        /\ UNCHANGED <<log, committed, sealed>>

Seal ==
    /\ sealed = {}
    /\ \E p \in committed..Len(log) : sealed' = {p}
    /\ UNCHANGED <<log, committed, reader>>

Next == Mark \/ Commit \/ Seal \/ \E r \in Readers : Read(r)

Spec == Init /\ [][Next]_vars
=============================================================================
