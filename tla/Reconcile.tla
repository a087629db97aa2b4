------------------------------- MODULE Reconcile -------------------------------
(***************************************************************************)
(* How the manifest copies of one virtual path become one live record,     *)
(* conflict copies and files to remove (internal/vault/manifest.go): the   *)
(* vector-clock order, the comparison of two copies, the stable sort, and  *)
(* reconcilePathCandidates itself.  Pure operators.                        *)
(*                                                                         *)
(* A candidate is a record with the fields                                 *)
(*   src      the manifest file it was read from                           *)
(*   del      a delete tombstone?                                          *)
(*   body     the chunk list and size, as one value                        *)
(*   gen,upd  generation and update time                                   *)
(*   delGen   the generation a tombstone says it deleted, 0 if unknown     *)
(*   clock    the vector clock: a number per device, 0 for no entry        *)
(*   key      the rank of its content key among the hashes                 *)
(* Every copy of a path has the same manifest id, so the id comparison     *)
(* that ends generationCompare never decides and is left out.              *)
(***************************************************************************)
EXTENDS Integers, Sequences, FiniteSets

CONSTANT Devices  \* device ids, numbers

ASSUME DevicesAssumption == Devices \subseteq Nat /\ IsFiniteSet(Devices)

Clock == [Devices -> Nat]

NoClock == [d \in Devices |-> 0]

\* len(clockOf(rec)) > 0: an entry is only ever written with a positive value.
Clocked(c) == \E d \in Devices : c[d] > 0

bothClocked(a, b) == Clocked(a.clock) /\ Clocked(b.clock)

clockDominates(a, b) ==
    /\ Clocked(a) /\ Clocked(b)
    /\ \A d \in Devices : a[d] >= b[d]
    /\ \E d \in Devices : a[d] > b[d]

joinClock(a, b) == [d \in Devices |-> IF a[d] > b[d] THEN a[d] ELSE b[d]]

isCausallyDominated(c, all) ==
    \E o \in all : o.src # c.src /\ clockDominates(o.clock, c.clock)

--------------------------------------------------------------------------------
(* Comparisons: 1 when a comes first, -1 when b does, 0 for a tie.         *)

Sign(n) == IF n > 0 THEN 1 ELSE IF n < 0 THEN -1 ELSE 0

DelFirst(a, b) == IF a.del = b.del THEN 0 ELSE IF a.del THEN 1 ELSE -1

\* The first of the orders in s that is not a tie.
Lexicographic(s) ==
    IF \A i \in DOMAIN s : s[i] = 0 THEN 0
    ELSE s[CHOOSE i \in DOMAIN s : s[i] # 0 /\ \A j \in 1 .. i - 1 : s[j] = 0]

\* clockString: the entries "dev=value;" in the order of the device ids.  At the
\* first device where two clocks differ the string without that entry goes on
\* with a larger device id, or ends.
clockStringCompare(a, b) ==
    LET differ == {d \in Devices : a[d] # b[d]}
        first  == CHOOSE d \in differ : \A e \in differ : d <= e
        Ends(c) == \A d \in Devices : d >= first => c[d] = 0
    IN  IF differ = {} THEN 0
        ELSE IF a[first] > 0 /\ b[first] > 0 THEN Sign(a[first] - b[first])
        ELSE IF a[first] = 0 THEN (IF Ends(a) THEN -1 ELSE 1)
        ELSE (IF Ends(b) THEN 1 ELSE -1)

concurrentTiebreak(a, b) ==
    Lexicographic(<<DelFirst(a, b), Sign(a.key - b.key), clockStringCompare(a.clock, b.clock)>>)

generationCompare(a, b) ==
    Lexicographic(<<Sign(a.gen - b.gen), Sign(a.upd - b.upd), DelFirst(a, b)>>)

candidateCompare(a, b) ==
    IF bothClocked(a, b)
    THEN IF clockDominates(a.clock, b.clock) THEN 1
         ELSE IF clockDominates(b.clock, a.clock) THEN -1
         ELSE concurrentTiebreak(a, b)
    ELSE generationCompare(a, b)

--------------------------------------------------------------------------------
(* sort.SliceStable: up to 20 elements it is one insertion sort, in which  *)
(* a new element moves left while it comes before its neighbour.           *)

\* Mutant of Place: the smaller candidate comes first.
PlaceReversed(s, c) ==
    LET stops == {0} \cup {j \in 1 .. Len(s) : candidateCompare(c, s[j]) >= 0}
        p     == CHOOSE i \in stops : \A j \in stops : j <= i
    IN  SubSeq(s, 1, p) \o <<c>> \o SubSeq(s, p + 1, Len(s))

Place(s, c) ==
    LET stops == {0} \cup {j \in 1 .. Len(s) : candidateCompare(c, s[j]) <= 0}
        p     == CHOOSE i \in stops : \A j \in stops : j <= i
    IN  SubSeq(s, 1, p) \o <<c>> \o SubSeq(s, p + 1, Len(s))

sliceStable(s) ==
    LET sorted[n \in 0 .. Len(s)] ==
            IF n = 0 THEN <<>> ELSE Place(sorted[n - 1], s[n])
    IN  sorted[Len(s)]

SetOf(s) == {s[i] : i \in DOMAIN s}

\* The elements of s that are in S, in their order.
Filter(s, S) ==
    LET kept[n \in 0 .. Len(s)] ==
            IF n = 0 THEN <<>>
            ELSE IF s[n] \in S THEN Append(kept[n - 1], s[n]) ELSE kept[n - 1]
    IN  kept[Len(s)]

\* Mutant of antichain: dominated copies reach the sort.
antichainUnpruned(list) == list

Dominated(list) == {c \in SetOf(list) : isCausallyDominated(c, SetOf(list))}

antichain(list) == Filter(list, SetOf(list) \ Dominated(list))

\* Mutant of Redundant: the generation rule is applied to clocked copies too.
RedundantByGeneration(c, winner) ==
    \/ c.del = winner.del /\ c.body = winner.body
    \/ c.del
    \/ winner.del /\ winner.delGen > 0 /\ c.gen <= winner.delGen

\* A duplicate of the winner, an old tombstone, or (only when one of the two has
\* no clock) a copy the deleting device had already seen.
Redundant(c, winner) ==
    \/ c.del = winner.del /\ c.body = winner.body
    \/ c.del
    \/ /\ winner.del /\ winner.delGen > 0
       /\ ~bothClocked(winner, c)
       /\ c.gen <= winner.delGen

\* Given the sorted antichain of the list and the pruned copies: the winner (the
\* live record unless it is a tombstone), the copies to keep as conflicts and those
\* to remove, in the order compact works through them.
Verdict(sorted, pruned) ==
    LET redundant == {c \in SetOf(sorted) : Redundant(c, sorted[1])}
    IN  [winner    |-> sorted[1],
         conflicts |-> Filter(Tail(sorted), SetOf(sorted) \ redundant),
         removes   |-> pruned \o Filter(Tail(sorted), redundant)]

\* reconcilePathCandidates on a non-empty list.
reconcilePathCandidates(list) ==
    Verdict(sliceStable(antichain(list)), Filter(list, Dominated(list)))

\* conflictPath, within one path: the copies of one losing record (same chunks,
\* generation and time) share it, whatever their files are called.
conflictName(c) == [body |-> c.body, gen |-> c.gen, upd |-> c.upd]
================================================================================
