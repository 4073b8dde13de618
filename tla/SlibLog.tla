------------------------------ MODULE SlibLog ------------------------------
(***************************************************************************)
(* The shared log as slib sees it through types.Environment: one totally   *)
(* ordered sequence of entries (the seqnum of an entry is its position,    *)
(* from 1), and the auxiliary data that a function may attach to an entry  *)
(* with SharedLogSetAuxData.                                               *)
(*                                                                         *)
(* Auxiliary data live in the caches of the engines: a read returns with   *)
(* the entry any value that was ever set for it, or none.  A read of the   *)
(* tail returns any entry not older than what the client's session has     *)
(* already seen (the guarantee that module LogIndex checks).               *)
(***************************************************************************)
EXTENDS Integers, Sequences, FiniteSets, TLC, FiniteSetsExt, SequencesExt

CONSTANTS
    Clients,    \* function calls that use slib
    NoAux,      \* "the read returned no auxiliary data"
    Budgets     \* bounds: see budget

VARIABLES
    log,        \* the entries, in seqnum order
    aux,        \* aux[s]: every value ever set as auxiliary data of entry s
    seen,       \* seen[c]: the largest seqnum c's session has seen
    budget      \* bounds, what is left of them: entries of the store, operations in
                \* one of them, pushes, pops, syncs up to the tail, and pops
                \* whose replay may fail to read

logVars == <<log, aux, seen, budget>>

LogInit ==
    /\ log = <<>>
    /\ aux = <<>>
    /\ seen = [c \in Clients |-> 0]
    /\ budget \in Budgets

\* types.go SharedLogAppend: the entry gets the next seqnum, which the
\* session of its writer has then seen.
SharedLogAppend(c, e) ==
    /\ log' = Append(log, e)
    /\ aux' = Append(aux, {})
    /\ seen' = [seen EXCEPT ![c] = Len(log) + 1]

\* Keeps a bound of the instance.
Spend(what) == budget[what] > 0 /\ budget' = [budget EXCEPT ![what] = @ - 1]

\* The last entry that a read of the tail by c may return (0: none).
Tails(c) == seen[c] .. Len(log)

\* What the reads of one pass over the log may return as auxiliary data.
AuxReads ==
    LET extend(acc, vals) == {Append(p, a) : p \in acc, a \in vals \cup {NoAux}}
    IN  FoldLeft(extend, {<<>>}, aux)

\* SharedLogSetAuxData for a set w of pairs <<seqnum, value>>.
AuxAfter(w) == [s \in DOMAIN aux |-> aux[s] \cup {p[2] : p \in {q \in w : q[1] = s}}]

=============================================================================
