------------------------------ MODULE ManifestWalk ------------------------------
(***************************************************************************)
(* loadManifestIndex for one virtual path: the directory walk collects the *)
(* manifest copies of the path in the order the file system lists them,    *)
(* and reconcilePathCandidates settles them.  The walk may list any copies *)
(* a fleet can produce, in any order: sync clients name the files.         *)
(***************************************************************************)
EXTENDS Reconcile

CONSTANTS
    MaxClock,   \* largest clock entry
    Stamps,     \* <<generation, update time, deleted generation>> a write may carry
    KeyRanks,   \* content-key ranks
    Bodies,     \* chunk lists, numbers above 0
    MaxCopies,  \* manifest copies of the path
    Mixed       \* may a path have copies with and without a vector clock?

ASSUME WalkAssumption ==
    /\ MaxClock \in Nat /\ MaxCopies \in Nat
    /\ Stamps \subseteq (Nat \ {0}) \X Nat \X Nat
    /\ KeyRanks \subseteq Nat
    /\ Mixed \in BOOLEAN

VARIABLE list  \* the candidates read so far

\* A record as the save functions write it: a generation above zero, a tombstone
\* without chunks, a deleted generation on tombstones only.
Copy(body, t, key, clock) ==
    [src |-> Len(list) + 1, del |-> body = 0, body |-> body,
     gen |-> t[1], upd |-> t[2], delGen |-> IF body = 0 THEN t[3] ELSE 0,
     clock |-> clock, key |-> key]

Candidates ==
    {Copy(body, t, key, clock) :
        body \in Bodies \cup {0}, t \in Stamps, key \in KeyRanks,
        clock \in [Devices -> 0 .. MaxClock]}

\* Two copies are of one write, or were written at different times with different
\* clocks (a write advances its device's entry) and different content keys.
OneWriteOrTwo(a, b) ==
    \/ a = [b EXCEPT !.src = a.src]
    \/ a.upd # b.upd /\ a.key # b.key /\ (bothClocked(a, b) => a.clock # b.clock)

WalkInit == list = <<>>

\* The walk reads one more manifest file of the path.
ReadManifest(c) ==
    /\ Len(list) < MaxCopies
    /\ \A i \in DOMAIN list :
          /\ OneWriteOrTwo(c, list[i])
          /\ Mixed \/ (Clocked(c.clock) <=> Clocked(list[i].clock))
    /\ list' = Append(list, c)

WalkNext == \E c \in Candidates : ReadManifest(c)

WalkSpec == WalkInit /\ [][WalkNext]_list

--------------------------------------------------------------------------------
Swapped(i) == [list EXCEPT ![i] = list[i + 1], ![i + 1] = list[i]]

\* What the index and the plan show of a reconciliation: the winning record, the
\* conflict names, and how many files are to go.
Outcome(l) ==
    LET r == reconcilePathCandidates(l)
    IN  [winner    |-> [r.winner EXCEPT !.src = 0],
         conflicts |-> {conflictName(c) : c \in SetOf(r.conflicts)},
         removes   |-> Len(r.removes)]

\* "always gets the identical winner, conflict paths, and removals", whatever the
\* order the copies were loaded in (manifest.go:302-308).  The walk reaches the
\* copies in every order and neighbours swapped generate every order, so it is
\* enough that no swap of neighbours changes the outcome.
OrderIndependent ==
    \A i \in 1 .. Len(list) - 1 : Outcome(Swapped(i)) = Outcome(list)

\* No edit vanishes: a live copy whose body is neither live nor in a conflict copy
\* was overwritten by a copy that dominates it and is itself kept, or, without
\* clocks, deleted by a tombstone that names its generation or a later one.
NothingDropped ==
    list # <<>> =>
        LET r    == reconcilePathCandidates(list)
            kept == {r.winner} \cup SetOf(r.conflicts)
        IN  \A c \in SetOf(list) :
              \/ c.del
              \/ \E k \in kept : ~k.del /\ k.body = c.body
              \/ \E o \in SetOf(antichain(list)) : clockDominates(o.clock, c.clock)
              \/ r.winner.del /\ ~bothClocked(c, r.winner) /\ c.gen <= r.winner.delGen

\* No causal inversion: the winner is dominated by no copy and, among clocked
\* copies, a tombstone concurrent with everything takes the slot.
WinnerIsMaximal ==
    list # <<>> =>
        LET w == reconcilePathCandidates(list).winner
        IN  \A c \in SetOf(list) : candidateCompare(c, w) = 1 =>
                \E o \in SetOf(list) : clockDominates(o.clock, c.clock)
================================================================================
