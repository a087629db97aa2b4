------------------------------ MODULE MCVaultSync ------------------------------
(* VaultSync on small instances, from two states a vault may be in. *)
EXTENDS VaultSync

\* While no wall clock runs ahead, every generation written is the wall clock's and
\* nextGeneration never falls back on maxGen: states that differ in it only are one.
View == <<log, disk, server, base, cache, op, left, sup, blind>>

\* The i-th record of the vault, put by device d on a path it knows nothing of.
FirstPut(i, d, key) ==
    [path |-> Main, del |-> FALSE, body |-> i, gen |-> i, upd |-> i, delGen |-> 0,
     clock |-> [NoClock EXCEPT ![d] = i + 1], age |-> NoClock, key |-> key]

AtRest ==
    /\ maxGen = [d \in Devices |-> 0]
    /\ op = [d \in Devices |-> NoOp]
    /\ left = [d \in Devices |-> NoFiles]
    /\ sup = {} /\ blind = {}

\* Device 1 has created the path and nothing is synced.  Until then every disk is
\* empty and the devices are alike, so this stands for every first write.
Created ==
    LET mine == [NoFiles EXCEPT ![<<Main, 0>>] = 1]
    IN  /\ \E key \in Keys : log = <<FirstPut(1, 1, key)>>
        /\ disk = [d \in Devices |-> IF d = 1 THEN mine ELSE NoFiles]
        /\ server = NoFiles /\ base = [d \in Devices |-> NoFiles]
        /\ cache = [d \in Devices |-> IF d = 1 THEN Load(mine) ELSE Nil]
        /\ AtRest

\* Devices 1 and 2 have both created the path, the sync client has made a conflict
\* copy of it, and the folder of device 2 is being set up anew, under the same
\* device id (appdir/deviceid.go keeps it outside the vault).  Its client may get the
\* loser's file first, so that a third edit which knows only that one leaves
\* the path with three files, one of them superseded by a loser.
Rejoined ==
    LET both == [NoFiles EXCEPT ![<<Main, 0>>] = 1, ![<<Main, 1>>] = 2]
    IN  /\ log = <<FirstPut(1, 1, 3), FirstPut(2, 2, 1)>>
        /\ disk = [d \in Devices |-> IF d = 1 THEN both ELSE NoFiles]
        /\ server = both /\ base = disk
        /\ cache = [d \in Devices |-> Nil]
        /\ AtRest

MCSpec == (Created \/ Rejoined) /\ [][Next]_vars
================================================================================
