--------------------------- MODULE WebVault_proof ---------------------------
(***************************************************************************)
(* The vault a request works on, for any number of requests, folders and   *)
(* openings: a verify checks the folder it was asked for, an old /dav/ URL *)
(* never reaches a vault opened after a close, a presence sweep is never   *)
(* another handle's, a recovery entry is for a phrase that was typed back, *)
(* and a cancelled import stops.                                           *)
(***************************************************************************)
EXTENDS WebVault, TLAPS

-----------------------------------------------------------------------------
(* Types, and which of a request's fields name an opened handle. *)

RecoveryEntry == [id : Nat, phrase : Nat]
Handle == [path : Paths, keys : SUBSET RecoveryEntry, at : Nat]
Pending == [phrase : Nat, h : Nat]
AnyPath == Paths \cup {NoPath}

\* Between opening a handle and making it s.vault, or using the phrase up first.
Adopting == {"adopt", "adoptKeepPending", "redeem"}
\* Requests bound to a handle, and requests that hold a phrase minted by one.
Binding == Adopting \cup {"verify", "rewrap", "mint", "cliMint", "revoke", "strike", "cliRedeem",
                          "dav", "take", "read", "upload", "io", "import"}
Minted == {"park", "cliTyped", "commit", "cliCommit"}
\* The stages that start with an opening.
OpenStages == Adopting \cup {"verify", "rewrap", "cliMint", "revoke", "cliRedeem"}
Placed == {"init", "setup", "moved", "reopen"}

Stage == Binding \cup Minted \cup Placed \cup {"free", "forget"}

Request == [pc : Stage,
            h : Nat, path : AnyPath, arg : Nat \cup Paths, pend : Pending]

SlotOK(r, n) ==
    /\ r \in Request
    /\ r.h <= n
    /\ r.pc \in Binding => r.h > 0
    /\ r.pc \in Minted => r.pend.h \in 1..n
    /\ r.pc \in Placed => r.path \in Paths

Parked(pend, n) == pend = NoPending \/ pend.h \in 1..n

Types ==
    /\ vault \in 0..Len(handles)
    /\ vaultPath \in AnyPath
    /\ pending \in Pending /\ Parked(pending, Len(handles))
    /\ era \in Nat /\ token = era
    /\ handles \in Seq(Handle)
    /\ disk \in [Paths -> [there : BOOLEAN, keys : SUBSET RecoveryEntry]]
    /\ phrases \in Nat /\ entries \in Nat
    /\ presence \in [cache : Nat, of : Nat] /\ caches \in Seq(SUBSET Nat)
    /\ presence.cache \in 1..Len(caches)
    /\ req \in [Slots -> Request]
    /\ \A s \in Slots : SlotOK(req[s], Len(handles))

\* One slot changes; what it becomes is well formed for the new list of handles.
LEMMA SlotChange ==
    ASSUME NEW s \in Slots, NEW r, NEW m \in Nat, NEW n \in Nat, n <= m,
           req \in [Slots -> Request], \A t \in Slots : SlotOK(req[t], n),
           SlotOK(r, m), req' = [req EXCEPT ![s] = r]
    PROVE  /\ req' \in [Slots -> Request]
           /\ \A t \in Slots : SlotOK(req'[t], m)
           /\ req'[s] = r
           /\ \A t \in Slots \ {s} : req'[t] = req[t]
<1>1. r \in Request BY DEF SlotOK
<1>2. \A t \in Slots : SlotOK(req[t], m)
  <2> SUFFICES ASSUME NEW t \in Slots PROVE SlotOK(req[t], m) OBVIOUS
  <2>1. req[t] \in Request /\ SlotOK(req[t], n) OBVIOUS
  <2>2. req[t].h \in Nat /\ req[t].pend.h \in Nat BY <2>1 DEF Request, Pending
  <2> QED BY <2>1, <2>2 DEF SlotOK
<1> QED BY <1>1, <1>2

LEMMA IdleOK == ASSUME NEW n \in Nat PROVE SlotOK(Idle, n)
BY DEF SlotOK, Idle, Request, Stage, Binding, Adopting, Minted, Placed, AnyPath, NoPending, Pending

LEMMA LenNat == handles \in Seq(Handle) => Len(handles) \in Nat
OBVIOUS

\* The request that made the handle.
Opened(pc, p, pend) == [Idle EXCEPT !.pc = pc, !.h = Len(handles) + 1, !.path = p, !.pend = pend]

LEMMA OpenedFields ==
    ASSUME Types, NEW p \in Paths, NEW pc \in OpenStages, NEW pend \in Pending
    PROVE  /\ SlotOK(Opened(pc, p, pend), Len(handles) + 1)
           /\ Opened(pc, p, pend).pc = pc
           /\ Opened(pc, p, pend).h = Len(handles) + 1
           /\ Opened(pc, p, pend).path = p
<1>2. Len(handles) \in Nat BY LenNat DEF Types
<1>3. /\ SlotOK(Opened(pc, p, pend), Len(handles) + 1)
      /\ Opened(pc, p, pend).pc = pc
      /\ Opened(pc, p, pend).h = Len(handles) + 1
      /\ Opened(pc, p, pend).path = p
  <2> DEFINE r == [Idle EXCEPT !.pc = pc, !.h = Len(handles) + 1, !.path = p, !.pend = pend]
  <2>a. Idle \in Request BY IdleOK DEF SlotOK
  <2>b. pc \in Stage /\ p \in AnyPath
    BY DEF OpenStages, Stage, Binding, Adopting, AnyPath
  <2>1. /\ r \in Request
        /\ r.pc = pc /\ r.h = Len(handles) + 1 /\ r.path = p /\ r.pend = pend
    <3>1. Len(handles) + 1 \in Nat BY <1>2
    <3> QED BY <3>1, <2>a, <2>b DEF Request
  <2> HIDE DEF r
  <2>2. pc \in Binding /\ pc \notin Minted /\ pc \notin Placed
    BY DEF OpenStages, Binding, Adopting, Minted, Placed
  <2>4. SlotOK(r, Len(handles) + 1) BY <1>2, <2>1, <2>2 DEF SlotOK
  <2>5. r = Opened(pc, p, pend) BY DEF r, Opened
  <2> QED BY <2>1, <2>4, <2>5
<1> QED BY <1>3

\* Opening: a new handle at the end, the others as they were.
LEMMA Opening ==
    ASSUME Types, NEW s \in Slots, NEW p \in Paths, NEW pc \in OpenStages,
           NEW pend \in Pending, OpenHandle(s, p, pc, pend)
    PROVE  /\ handles' \in Seq(Handle)
           /\ Len(handles') = Len(handles) + 1
           /\ \A i \in 1..Len(handles) : handles'[i] = handles[i]
           /\ handles'[Len(handles) + 1] = [path |-> p, keys |-> disk[p].keys, at |-> era]
           /\ SlotOK(Opened(pc, p, pend), Len(handles) + 1)
           /\ Opened(pc, p, pend).pc = pc
           /\ Opened(pc, p, pend).h = Len(handles) + 1
           /\ Opened(pc, p, pend).path = p
<1>1. [path |-> p, keys |-> disk[p].keys, at |-> era] \in Handle
  BY DEF Types, Handle
<1>2. Len(handles) \in Nat BY LenNat DEF Types
<1>3. /\ SlotOK(Opened(pc, p, pend), Len(handles) + 1)
      /\ Opened(pc, p, pend).pc = pc
      /\ Opened(pc, p, pend).h = Len(handles) + 1
      /\ Opened(pc, p, pend).path = p
  BY OpenedFields
<1>4. handles \in Seq(Handle) BY DEF Types
<1>5. handles' = Append(handles, [path |-> p, keys |-> disk[p].keys, at |-> era]) BY DEF OpenHandle
<1> HIDE DEF Handle
<1>7. /\ handles' \in Seq(Handle)
      /\ Len(handles') = Len(handles) + 1
      /\ \A i \in 1..Len(handles) : handles'[i] = handles[i]
      /\ handles'[Len(handles) + 1] = [path |-> p, keys |-> disk[p].keys, at |-> era]
  <2> DEFINE x == [path |-> p, keys |-> disk[p].keys, at |-> era]
  <2>1. x \in Handle /\ handles' = Append(handles, x) BY <1>1, <1>5
  <2> HIDE DEF x
  <2>2. /\ handles' \in Seq(Handle)
        /\ Len(handles') = Len(handles) + 1
        /\ \A i \in 1..Len(handles) : handles'[i] = handles[i]
        /\ handles'[Len(handles) + 1] = x
    BY <2>1, <1>4
  <2> QED BY <2>2 DEF x
<1> QED BY <1>3, <1>7

\* Rewriting: keys change, on disk and in one handle, nothing else.
LEMMA Rewriting ==
    ASSUME Types, NEW h \in 1..Len(handles), NEW keys \in SUBSET RecoveryEntry, rewriteConfig(h, keys)
    PROVE  /\ handles' \in Seq(Handle)
           /\ Len(handles') = Len(handles)
           /\ \A i \in 1..Len(handles) : /\ handles'[i].path = handles[i].path
                                         /\ handles'[i].at = handles[i].at
                                         /\ handles'[i].keys = handles[i].keys \/ handles'[i].keys = keys
           /\ disk' \in [Paths -> [there : BOOLEAN, keys : SUBSET RecoveryEntry]]
           /\ \A p \in Paths : disk'[p].keys = disk[p].keys \/ disk'[p].keys = keys
<1> USE DEF Types
<1>1. handles[h] \in Handle OBVIOUS
<1>2. handles[h].path \in Paths BY <1>1 DEF Handle
<1>3. CASE disk[handles[h].path].there
  <2>1. /\ disk' = [disk EXCEPT ![handles[h].path].keys = keys]
        /\ handles' = [handles EXCEPT ![h].keys = keys]
    BY <1>3 DEF rewriteConfig
  <2>2. /\ disk' \in [Paths -> [there : BOOLEAN, keys : SUBSET RecoveryEntry]]
        /\ \A p \in Paths : disk'[p].keys = disk[p].keys \/ disk'[p].keys = keys
    BY <1>2, <2>1
  <2>3. [handles[h] EXCEPT !.keys = keys] \in Handle BY <1>1 DEF Handle
  <2>4. handles' = [handles EXCEPT ![h] = [handles[h] EXCEPT !.keys = keys]] BY <2>1
  <2>5. handles' \in Seq(Handle) /\ Len(handles') = Len(handles) BY <2>3, <2>4
  <2>6. \A i \in 1..Len(handles) : handles[i] \in Handle OBVIOUS
  <2>7. ASSUME NEW i \in 1..Len(handles)
        PROVE  /\ handles'[i].path = handles[i].path
               /\ handles'[i].at = handles[i].at
               /\ handles'[i].keys = handles[i].keys \/ handles'[i].keys = keys
    BY <2>1, <2>6 DEF Handle
  <2> QED BY <2>2, <2>5, <2>7
<1>4. CASE ~disk[handles[h].path].there
  BY <1>4 DEF rewriteConfig
<1> QED BY <1>3, <1>4

-----------------------------------------------------------------------------
(* The shapes of a step.  What a request becomes in a plain step: it keeps *)
(* its handle, lets it go or binds to the active one; it never starts to   *)
(* adopt a handle or to serve /dav/.                                       *)

Follows(s, r) ==
    /\ SlotOK(r, Len(handles))
    /\ r.h \in {0, req[s].h, vault}
    /\ r.pc # "dav"
    /\ r.pc \in Adopting => req[s].pc \in Adopting /\ r.h = req[s].h /\ r.path = req[s].path
    /\ r.pc = "verify" => vault # 0 /\ r.h = vault /\ r.path = vaultPath

HandlesKept ==
    /\ handles' \in Seq(Handle)
    /\ Len(handles') = Len(handles)
    /\ \A i \in 1..Len(handles) : handles'[i].path = handles[i].path /\ handles'[i].at = handles[i].at

Plain ==
    /\ UNCHANGED req \/ \E s \in Slots : \E r : Follows(s, r) /\ req' = [req EXCEPT ![s] = r]
    /\ HandlesKept
    /\ UNCHANGED davState
    /\ vault' = 0 \/ UNCHANGED <<vault, vaultPath>>
    /\ era <= era'

Opens(s) ==
    /\ \E p \in Paths, pc \in OpenStages, pend \in Pending : OpenHandle(s, p, pc, pend)
    /\ UNCHANGED <<webState, davState, keyState>>

Outline ==
    \/ Plain
    \/ \E s \in Slots : Opens(s) \/ Adopt(s) \/ DavSweep(s) \/ \E tok \in Nat : handleWebDAV(s, tok)

LEMMA SameHandles == Types /\ UNCHANGED handles => HandlesKept
BY DEF Types, HandlesKept

LEMMA PlainTypes ==
    ASSUME Types, Plain,
           vaultPath' \in AnyPath, pending' \in Pending, Parked(pending', Len(handles)),
           era' \in Nat, token' = era', phrases' \in Nat, entries' \in Nat,
           disk' \in [Paths -> [there : BOOLEAN, keys : SUBSET RecoveryEntry]]
    PROVE  Types'
<1>1. Len(handles) \in Nat /\ Len(handles') = Len(handles) BY LenNat DEF Types, Plain, HandlesKept
<1>2. req' \in [Slots -> Request] /\ \A t \in Slots : SlotOK(req'[t], Len(handles))
  <2>1. CASE UNCHANGED req BY <2>1 DEF Types
  <2>2. CASE \E s \in Slots : \E r : Follows(s, r) /\ req' = [req EXCEPT ![s] = r]
    <3>1. PICK s \in Slots : \E r : Follows(s, r) /\ req' = [req EXCEPT ![s] = r] BY <2>2
    <3>2. PICK r : Follows(s, r) /\ req' = [req EXCEPT ![s] = r] BY <3>1
    <3>3. SlotOK(r, Len(handles)) BY <3>2 DEF Follows
    <3>4. req \in [Slots -> Request] /\ \A t \in Slots : SlotOK(req[t], Len(handles)) BY DEF Types
    <3> HIDE DEF SlotOK
    <3>5. Len(handles) <= Len(handles) BY <1>1
    <3> QED BY <3>2, <3>3, <3>4, <3>5, <1>1, SlotChange
  <2> QED BY <2>1, <2>2 DEF Plain
<1>3. vault' \in 0..Len(handles) BY <1>1 DEF Plain, Types
<1> QED BY <1>1, <1>2, <1>3 DEF Types, Plain, HandlesKept, davState

\* A step that changes one request and nothing else.
LEMMA Quiet ==
    ASSUME Types, NEW s \in Slots, NEW r, Follows(s, r), req' = [req EXCEPT ![s] = r],
           UNCHANGED <<webState, davState, keyState, handles>>
    PROVE  Types' /\ Plain
<1>1. Plain
  <2>1. HandlesKept BY SameHandles
  <2>2. era <= era' /\ UNCHANGED <<vault, vaultPath>> BY DEF webState, Types
  <2> QED BY <2>1, <2>2 DEF Plain
<1> QED BY <1>1, PlainTypes DEF webState, keyState, Types

LEMMA IdleFollows == ASSUME Types, NEW s \in Slots PROVE Follows(s, Idle)
<1>1. SlotOK(Idle, Len(handles)) BY IdleOK, LenNat DEF Types
<1> QED BY <1>1 DEF Follows, Idle, Adopting

\* currentVault, with the stages that follow it.
LEMMA BoundFollows ==
    ASSUME Types, NEW s \in Slots, vault # 0,
           NEW pc \in {"rewrap", "mint", "take", "revoke", "read", "upload", "import"}
    PROVE  Follows(s, [Idle EXCEPT !.pc = pc, !.h = vault])
<1> DEFINE r == [Idle EXCEPT !.pc = pc, !.h = vault]
<1>1. Idle \in Request BY IdleOK DEF SlotOK
<1>2. pc \in Stage /\ pc \in Binding /\ pc \notin Minted \cup Placed \cup Adopting
  BY DEF Stage, Binding, Minted, Placed, Adopting
<1>3. vault \in Nat /\ vault <= Len(handles) /\ vault > 0 BY LenNat DEF Types
<1>4. r \in Request /\ r.pc = pc /\ r.h = vault BY <1>1, <1>2, <1>3 DEF Request
<1> HIDE DEF r
<1>5. SlotOK(r, Len(handles)) BY <1>2, <1>3, <1>4 DEF SlotOK
<1>6. Follows(s, r) BY <1>2, <1>4, <1>5 DEF Follows
<1> QED BY <1>6 DEF r

LEMMA CurrentVault ==
    ASSUME Types, NEW s \in Slots,
           NEW pc \in {"rewrap", "mint", "take", "revoke", "read", "upload", "import"},
           currentVault(s, pc), UNCHANGED <<webState, davState, keyState, handles>>
    PROVE  Types' /\ Plain
<1>1. CASE vault = 0
  <2>1. UNCHANGED req BY <1>1 DEF currentVault
  <2>2. Plain BY <2>1, SameHandles DEF Plain, webState, davState, Types
  <2> QED BY <2>2, PlainTypes DEF webState, keyState, Types
<1>2. CASE vault # 0
  BY <1>2, BoundFollows, Quiet DEF currentVault, Becomes
<1> QED BY <1>1, <1>2

\* A request that goes on with its handle.
LEMMA GoesOn ==
    ASSUME Types, NEW s \in Slots, NEW pc \in Stage \ (Adopting \cup {"dav", "verify"}),
           pc \in Binding => req[s].h > 0,
           pc \in Minted => req[s].pend.h \in 1..Len(handles),
           pc \in Placed => req[s].path \in Paths
    PROVE  Follows(s, [req[s] EXCEPT !.pc = pc])
<1> DEFINE r == [req[s] EXCEPT !.pc = pc]
<1>1. req[s] \in Request /\ SlotOK(req[s], Len(handles)) BY DEF Types
<1>2. /\ r \in Request /\ r.pc = pc /\ r.h = req[s].h /\ r.path = req[s].path
      /\ r.pend = req[s].pend
  BY <1>1 DEF Request
<1> HIDE DEF r
<1>3. SlotOK(r, Len(handles)) BY <1>1, <1>2 DEF SlotOK
<1>4. Follows(s, r) BY <1>2, <1>3 DEF Follows
<1> QED BY <1>4 DEF r

LEMMA OpensTypes == ASSUME Types, NEW s \in Slots, Opens(s) PROVE Types'
<1>1. PICK p \in Paths, pc \in OpenStages, pend \in Pending : OpenHandle(s, p, pc, pend) BY DEF Opens
<1> DEFINE r == Opened(pc, p, pend)
<1>2. handles' \in Seq(Handle) /\ Len(handles') = Len(handles) + 1 /\ SlotOK(r, Len(handles) + 1)
  BY <1>1, Opening
<1>a. req' = [req EXCEPT ![s] = r] BY <1>1 DEF OpenHandle, Becomes, Opened
<1> HIDE DEF r
<1>3. Len(handles) \in Nat BY LenNat DEF Types
<1>4. req \in [Slots -> Request] /\ \A t \in Slots : SlotOK(req[t], Len(handles)) BY DEF Types
<1>5. req' \in [Slots -> Request] /\ \A t \in Slots : SlotOK(req'[t], Len(handles) + 1)
  <2>1. Len(handles) + 1 \in Nat /\ Len(handles) <= Len(handles) + 1 BY <1>3
  <2> QED BY <1>2, <1>a, <1>3, <1>4, <2>1, SlotChange
<1>6. UNCHANGED <<vault, vaultPath, pending, era, token, disk, phrases, entries, presence, caches>>
  BY DEF Opens, webState, keyState, davState
<1>7. vault' \in 0..(Len(handles) + 1) BY <1>3, <1>6 DEF Types
<1>8. Parked(pending', Len(handles) + 1) BY <1>3, <1>6 DEF Types, Parked
<1> QED BY <1>2, <1>5, <1>6, <1>7, <1>8 DEF Types

LEMMA AdoptTypes ==
    ASSUME Types, NEW s \in Slots, Adopt(s)
    PROVE  /\ Types'
           /\ Len(handles') = Len(handles)
           /\ \A i \in 1..Len(handles) : /\ handles'[i].path = handles[i].path
                                         /\ i # req[s].h => handles'[i].at = handles[i].at
           /\ handles'[req[s].h].at = era
<1>1. req[s] \in Request /\ SlotOK(req[s], Len(handles)) /\ req[s].pc \in {"adopt", "adoptKeepPending"}
  BY DEF Types, Adopt
<1>2. req[s].h \in 1..Len(handles) /\ req[s].path \in AnyPath
  BY <1>1, LenNat DEF SlotOK, Request, Binding, Adopting, Types
<1>3. handles \in Seq(Handle) /\ era \in Nat BY DEF Types
<1>4. handles[req[s].h] \in Handle BY <1>2, <1>3
<1>5. [handles[req[s].h] EXCEPT !.at = era] \in Handle BY <1>3, <1>4 DEF Handle
<1>6. handles' = [handles EXCEPT ![req[s].h] = [handles[req[s].h] EXCEPT !.at = era]]
  BY DEF Adopt
<1>7. handles' \in Seq(Handle) /\ Len(handles') = Len(handles)
  BY <1>2, <1>3, <1>5, <1>6
<1>8. \A i \in 1..Len(handles) : handles[i] \in Handle BY <1>3
<1>9. /\ \A i \in 1..Len(handles) : /\ handles'[i].path = handles[i].path
                                    /\ i # req[s].h => handles'[i].at = handles[i].at
      /\ handles'[req[s].h].at = era
  BY <1>2, <1>3, <1>6, <1>8 DEF Handle
<1>10. /\ vault' \in 0..Len(handles) /\ vaultPath' \in AnyPath
       /\ era' \in Nat /\ token' = era'
       /\ disk' \in [Paths -> [there : BOOLEAN, keys : SUBSET RecoveryEntry]]
       /\ phrases' \in Nat /\ entries' \in Nat /\ UNCHANGED <<presence, caches>>
  BY <1>2 DEF Adopt, keyState, davState, Types
<1>11. pending' \in Pending /\ Parked(pending', Len(handles))
  <2>1. NoPending \in Pending BY DEF NoPending, Pending
  <2> QED BY <2>1 DEF Adopt, Types, Parked
<1>12. req' \in [Slots -> Request] /\ \A t \in Slots : SlotOK(req'[t], Len(handles))
  <2>1. req' = [req EXCEPT ![s] = Idle] BY DEF Adopt, Answer, Becomes
  <2>2. req \in [Slots -> Request] /\ \A t \in Slots : SlotOK(req[t], Len(handles)) BY DEF Types
  <2>3. Len(handles) \in Nat /\ Len(handles) <= Len(handles) BY LenNat, <1>3
  <2> QED BY <2>1, <2>2, <2>3, IdleOK, SlotChange
<1> QED BY <1>7, <1>9, <1>10, <1>11, <1>12 DEF Types

\* The request of a /dav/ step that the token lets through.
DavRequest(c, tok) == [Idle EXCEPT !.pc = "dav", !.h = vault, !.arg = c, !.pend = [phrase |-> tok, h |-> 0]]

LEMMA DavRequestOK ==
    ASSUME Types, vault # 0, NEW c \in Nat, NEW tok \in Nat
    PROVE  LET r == DavRequest(c, tok)
           IN  /\ SlotOK(r, Len(handles))
               /\ r.pc = "dav" /\ r.h = vault /\ r.arg = c /\ r.pend.phrase = tok
<1> DEFINE r == DavRequest(c, tok)
           q == [phrase |-> tok, h |-> 0]
<1>1. Idle \in Request BY IdleOK DEF SlotOK
<1>2. vault \in Nat /\ vault <= Len(handles) /\ vault > 0 BY LenNat DEF Types
<1>3. q \in Pending /\ q.phrase = tok BY DEF Pending
<1> HIDE DEF q
<1>4. "dav" \in Stage /\ "dav" \in Binding /\ "dav" \notin Minted /\ "dav" \notin Placed
  BY DEF Stage, Binding, Minted, Placed
<1>5. r = [Idle EXCEPT !.pc = "dav", !.h = vault, !.arg = c, !.pend = q] BY DEF q, DavRequest
<1>6. r \in Request /\ r.pc = "dav" /\ r.h = vault /\ r.arg = c /\ r.pend = q
  <2>1. c \in Nat \cup Paths OBVIOUS
  <2> HIDE DEF r
  <2> QED BY <1>1, <1>2, <1>3, <1>4, <1>5, <2>1 DEF Request
<1> HIDE DEF r
<1>7. SlotOK(r, Len(handles)) BY <1>2, <1>4, <1>6 DEF SlotOK
<1> QED BY <1>3, <1>6, <1>7 DEF r

\* The presence cache after a /dav/ request: the one there was, or a new and
\* empty one; with a vault open it is that vault's.
LEMMA DavCache ==
    ASSUME Types, NEW s \in Slots, NEW tok, handleWebDAV(s, tok)
    PROVE  /\ \/ UNCHANGED <<presence, caches>>
              \/ /\ caches' = Append(caches, {})
                 /\ presence' = [cache |-> Len(caches) + 1, of |-> vault]
           /\ presence' \in [cache : Nat, of : Nat] /\ caches' \in Seq(SUBSET Nat)
           /\ presence'.cache \in 1..Len(caches') /\ Len(caches) <= Len(caches')
           /\ \A i \in 1..Len(caches) : caches'[i] = caches[i]
           /\ presence'.cache \notin 1..Len(caches) => caches'[presence'.cache] = {}
           /\ vault # 0 => presence'.of = vault
           /\ \/ UNCHANGED req
              \/ tok = token /\ vault # 0 /\ req' = [req EXCEPT ![s] = DavRequest(presence'.cache, tok)]
<1>1. presence \in [cache : Nat, of : Nat] /\ presence.cache \in 1..Len(caches) /\ vault \in Nat
  BY LenNat DEF Types
<1>2. caches \in Seq(SUBSET Nat) BY DEF Types
<1>3. CASE vault # 0 /\ presence.of # vault
  <2>1. caches' = Append(caches, {}) /\ presence' = [cache |-> Len(caches) + 1, of |-> vault]
    BY <1>3 DEF handleWebDAV
  <2>2. \/ UNCHANGED req
        \/ tok = token /\ vault # 0 /\ req' = [req EXCEPT ![s] = DavRequest(Len(caches) + 1, tok)]
    <3>1. CASE tok = token /\ vault # 0
      BY <1>3, <3>1 DEF handleWebDAV, DavRequest, Becomes
    <3>2. CASE ~(tok = token /\ vault # 0)
      BY <1>3, <3>2 DEF handleWebDAV
    <3> QED BY <3>1, <3>2
  <2>3. Len(caches) \in Nat /\ {} \in SUBSET Nat BY <1>2
  <2>4. /\ caches' \in Seq(SUBSET Nat) /\ Len(caches') = Len(caches) + 1
        /\ \A i \in 1..Len(caches) : caches'[i] = caches[i]
        /\ caches'[Len(caches) + 1] = {}
    BY <1>2, <2>1, <2>3
  <2>5. presence' \in [cache : Nat, of : Nat] /\ presence'.cache = Len(caches) + 1 /\ presence'.of = vault
    BY <1>1, <2>1, <2>3
  <2> QED BY <2>1, <2>2, <2>3, <2>4, <2>5
<1>4. CASE ~(vault # 0 /\ presence.of # vault)
  <2>1. caches' = caches /\ presence' = presence BY <1>4 DEF handleWebDAV
  <2>2. \/ UNCHANGED req
        \/ tok = token /\ vault # 0 /\ req' = [req EXCEPT ![s] = DavRequest(presence.cache, tok)]
    <3>1. CASE tok = token /\ vault # 0
      BY <1>4, <3>1 DEF handleWebDAV, DavRequest, Becomes
    <3>2. CASE ~(tok = token /\ vault # 0)
      BY <1>4, <3>2 DEF handleWebDAV
    <3> QED BY <3>1, <3>2
  <2>3. Len(caches) \in Nat BY <1>2
  <2> QED BY <1>1, <1>2, <1>4, <2>1, <2>2, <2>3
<1> QED BY <1>3, <1>4

LEMMA DavTypes == ASSUME Types, NEW s \in Slots, NEW tok \in Nat, handleWebDAV(s, tok) PROVE Types'
<1>1. UNCHANGED <<vault, vaultPath, pending, era, token, disk, phrases, entries, handles>>
  BY DEF handleWebDAV, webState, keyState
<1>2. /\ presence' \in [cache : Nat, of : Nat] /\ caches' \in Seq(SUBSET Nat)
      /\ presence'.cache \in 1..Len(caches')
  BY DavCache
<1>3. presence'.cache \in Nat BY <1>2
<1>4. Len(handles) \in Nat /\ Len(handles) <= Len(handles) BY LenNat DEF Types
<1>5. req' \in [Slots -> Request] /\ \A t \in Slots : SlotOK(req'[t], Len(handles))
  <2>1. CASE UNCHANGED req BY <2>1 DEF Types
  <2>2. CASE vault # 0 /\ req' = [req EXCEPT ![s] = DavRequest(presence'.cache, tok)]
    <3>1. SlotOK(DavRequest(presence'.cache, tok), Len(handles)) BY <2>2, <1>3, DavRequestOK
    <3>2. req \in [Slots -> Request] /\ \A t \in Slots : SlotOK(req[t], Len(handles)) BY DEF Types
    <3> QED BY <2>2, <3>1, <3>2, <1>4, SlotChange
  <2> QED BY <2>1, <2>2, DavCache
<1> QED BY <1>1, <1>2, <1>5 DEF Types

LEMMA SweepTypes ==
    ASSUME Types, NEW s \in Slots, DavSweep(s)
    PROVE  Types' /\ Len(caches') = Len(caches)
<1>1. UNCHANGED <<vault, vaultPath, pending, era, token, disk, phrases, entries, handles, presence>>
  BY DEF DavSweep, webState, keyState
<1>2. caches \in Seq(SUBSET Nat) /\ req[s].h \in Nat BY DEF Types, Request
<1>3. caches' = [caches EXCEPT ![req[s].arg] = IF @ = {} THEN {req[s].h} ELSE @] BY DEF DavSweep
<1>4. caches' \in Seq(SUBSET Nat) /\ Len(caches') = Len(caches)
  <2>1. CASE req[s].arg \in 1..Len(caches)
    <3> DEFINE c == IF caches[req[s].arg] = {} THEN {req[s].h} ELSE caches[req[s].arg]
    <3>1. c \in SUBSET Nat BY <1>2, <2>1
    <3>2. caches' = [caches EXCEPT ![req[s].arg] = c] BY <1>3
    <3> HIDE DEF c
    <3> QED BY <1>2, <2>1, <3>1, <3>2
  <2>2. CASE req[s].arg \notin 1..Len(caches)
    <3>1. caches' = caches BY <1>2, <1>3, <2>2
    <3> QED BY <1>2, <3>1
  <2> QED BY <2>1, <2>2
<1>5. req' = [req EXCEPT ![s] = Idle] BY DEF DavSweep, Answer, Becomes
<1>6. req \in [Slots -> Request] /\ \A t \in Slots : SlotOK(req[t], Len(handles)) BY DEF Types
<1>7. Len(handles) \in Nat /\ Len(handles) <= Len(handles) BY LenNat DEF Types
<1>8. req' \in [Slots -> Request] /\ \A t \in Slots : SlotOK(req'[t], Len(handles))
  BY <1>5, <1>6, <1>7, IdleOK, SlotChange
<1> QED BY <1>1, <1>4, <1>8 DEF Types

\* A step that rewrites a vault.json through a handle.
LEMMA RewriteStep ==
    ASSUME Types, NEW s \in Slots, NEW r, Follows(s, r), req' = [req EXCEPT ![s] = r],
           NEW h \in 1..Len(handles), NEW keys \in SUBSET RecoveryEntry, rewriteConfig(h, keys),
           UNCHANGED <<webState, davState, phrases>>, entries' \in Nat
    PROVE  Types' /\ Plain
<1>1. /\ HandlesKept
      /\ disk' \in [Paths -> [there : BOOLEAN, keys : SUBSET RecoveryEntry]]
  BY Rewriting DEF HandlesKept
<1>2. era <= era' /\ UNCHANGED <<vault, vaultPath>> BY DEF webState, Types
<1>3. Plain BY <1>1, <1>2 DEF Plain
<1> QED BY <1>1, <1>3, PlainTypes DEF webState, Types

\* A step that leaves requests and handles alone.
LEMMA NoRequest ==
    ASSUME Types, UNCHANGED <<req, handles, davState, keyState, vaultPath>>,
           vault' \in {0, vault}, pending' \in {pending, NoPending}, era' \in {era, era + 1}, token' = era'
    PROVE  Types' /\ Plain
<1>1. HandlesKept BY SameHandles
<1>2. Plain BY <1>1 DEF Plain, Types
<1>3. pending' \in Pending /\ Parked(pending', Len(handles))
  <2>1. NoPending \in Pending BY DEF NoPending, Pending
  <2> QED BY <2>1 DEF Types, Parked
<1> QED BY <1>2, <1>3, PlainTypes DEF Types, keyState

LEMMA HandleKeys ==
    ASSUME Types, NEW h \in 1..Len(handles)
    PROVE  handles[h].keys \in SUBSET RecoveryEntry
<1>1. handles[h] \in Handle BY DEF Types
<1> QED BY <1>1 DEF Handle

LEMMA SlotHandle ==
    ASSUME Types, NEW s \in Slots
    PROVE  /\ req[s] \in Request /\ SlotOK(req[s], Len(handles))
           /\ req[s].pc \in Binding => req[s].h \in 1..Len(handles)
<1>1. req[s] \in Request /\ SlotOK(req[s], Len(handles)) BY DEF Types
<1>2. req[s].h \in Nat BY <1>1 DEF Request
<1> QED BY <1>1, <1>2, LenNat DEF Types, SlotOK

LEMMA NoPendingOK == NoPending \in Pending
BY DEF NoPending, Pending

LEMMA OutlineRequests ==
    ASSUME Types, NEW s \in Slots, Requests(s)
    PROVE  Types' /\ Outline
<1> USE DEF Requests
<1>op. ASSUME NEW p \in Paths, NEW pc \in OpenStages, NEW pend \in Pending, OpenHandle(s, p, pc, pend),
              UNCHANGED <<webState, davState, keyState>>
       PROVE  Types' /\ Outline
  <2>1. Opens(s) BY <1>op DEF Opens
  <2> QED BY <2>1, OpensTypes DEF Outline
<1>st. {"adopt", "verify", "rewrap", "revoke", "cliMint"} \subseteq OpenStages BY DEF OpenStages, Adopting
<1>1. ASSUME NEW p \in Paths, handleOpen(s, p) PROVE Types' /\ Outline
  <2>1. OpenHandle(s, p, "adopt", NoPending) /\ UNCHANGED <<webState, davState, keyState>>
    BY <1>1 DEF handleOpen
  <2> QED BY <2>1, <1>op, <1>st, NoPendingOK
<1>2. ASSUME NEW p \in Paths, cmdPasswordChange(s, p) \/ cmdRecoveryRevoke(s, p) PROVE Types' /\ Outline
  <2>1. PICK pc \in {"rewrap", "revoke"} :
           OpenHandle(s, p, pc, NoPending) /\ UNCHANGED <<webState, davState, keyState>>
    BY <1>2 DEF cmdPasswordChange, cmdRecoveryRevoke, openVaultForCLI
  <2> QED BY <2>1, <1>op, <1>st, NoPendingOK
<1>3. ASSUME NEW p \in Paths, vaultForVerify(s, p) PROVE Types' /\ Outline
  <2>1. CASE OpenHandle(s, p, "verify", NoPending)
    <3>1. UNCHANGED <<webState, davState, keyState>> BY <1>3 DEF vaultForVerify
    <3> QED BY <2>1, <3>1, <1>op, <1>st, NoPendingOK
  <2>2. CASE /\ vault # 0 /\ vaultPath = p
             /\ Becomes(s, [Idle EXCEPT !.pc = "verify", !.h = vault, !.path = p])
             /\ UNCHANGED handles
    <3> DEFINE r == [Idle EXCEPT !.pc = "verify", !.h = vault, !.path = p]
    <3>1. Idle \in Request BY IdleOK DEF SlotOK
    <3>2. /\ "verify" \in Stage /\ "verify" \in Binding
          /\ "verify" \notin Minted /\ "verify" \notin Placed /\ "verify" \notin Adopting
      BY DEF Stage, Binding, Minted, Placed, Adopting
    <3>3. vault \in Nat /\ vault <= Len(handles) /\ vault > 0 /\ p \in AnyPath
      BY <2>2, LenNat DEF Types, AnyPath
    <3>4. r \in Request /\ r.pc = "verify" /\ r.h = vault /\ r.path = p
      BY <3>1, <3>2, <3>3 DEF Request
    <3>5. req' = [req EXCEPT ![s] = r] BY <2>2 DEF Becomes
    <3> HIDE DEF r
    <3>6. SlotOK(r, Len(handles)) BY <3>2, <3>3, <3>4 DEF SlotOK
    <3>7. Follows(s, r) BY <2>2, <3>2, <3>4, <3>6 DEF Follows
    <3>8. UNCHANGED <<webState, davState, keyState, handles>> BY <1>3, <2>2 DEF vaultForVerify
    <3> QED BY <3>5, <3>7, <3>8, Quiet DEF Outline
  <2> QED BY <1>3, <2>1, <2>2 DEF vaultForVerify
\* The creation of a vault, and the move of a folder.
<1>4. ASSUME NEW r, Follows(s, r), req' = [req EXCEPT ![s] = r],
             UNCHANGED <<webState, davState, phrases, entries, handles>>,
             disk' \in [Paths -> [there : BOOLEAN, keys : SUBSET RecoveryEntry]]
      PROVE  Types' /\ Outline
  <2>1. HandlesKept BY <1>4, SameHandles
  <2>2. era <= era' /\ UNCHANGED <<vault, vaultPath>> BY <1>4 DEF webState, Types
  <2>3. Plain BY <1>4, <2>1, <2>2 DEF Plain
  <2>4. Types' BY <1>4, <2>3, PlainTypes DEF webState, Types
  <2> QED BY <2>3, <2>4 DEF Outline
<1>pl. ASSUME NEW r \in Request, r.pc \in Placed, r.path \in Paths, r.h = 0 PROVE Follows(s, r)
  <2>1. r.pc \notin Binding /\ r.pc \notin Minted /\ r.pc \notin Adopting /\ r.pc # "dav" /\ r.pc # "verify"
    BY <1>pl DEF Placed, Binding, Minted, Adopting
  <2>2. SlotOK(r, Len(handles)) BY <1>pl, <2>1, LenNat DEF SlotOK, Types
  <2> QED BY <1>pl, <2>1, <2>2 DEF Follows
<1>id. Idle \in Request /\ Idle.h = 0 BY IdleOK DEF SlotOK, Idle
<1>5. ASSUME NEW p \in Paths, handleInit(s, p) \/ handleSetupRun(s, p) PROVE Types' /\ Outline
  <2>1. PICK pc \in {"init", "setup"} : req' = [req EXCEPT ![s] = [Idle EXCEPT !.pc = pc, !.path = p]]
    BY <1>5 DEF handleInit, handleSetupRun, Becomes
  <2> DEFINE r == [Idle EXCEPT !.pc = pc, !.path = p]
  <2>2. pc \in Stage /\ pc \in Placed /\ p \in AnyPath BY DEF Stage, Placed, AnyPath
  <2>3. r \in Request /\ r.pc = pc /\ r.path = p /\ r.h = 0
    BY <1>id, <2>2 DEF Request
  <2>a. req' = [req EXCEPT ![s] = r] BY <2>1
  <2> HIDE DEF r
  <2>4. Follows(s, r) BY <2>2, <2>3, <1>pl
  <2>5. /\ UNCHANGED <<webState, davState, phrases, entries, handles>>
        /\ disk' = [disk EXCEPT ![p].there = TRUE]
    BY <1>5 DEF handleInit, handleSetupRun, Create
  <2>6. disk' \in [Paths -> [there : BOOLEAN, keys : SUBSET RecoveryEntry]]
    BY <2>5 DEF Types
  <2> QED BY <2>a, <2>4, <2>5, <2>6, <1>4
<1>6. ASSUME NEW p \in Paths, NEW q \in Paths, MoveFolder(s, p, q) PROVE Types' /\ Outline
  <2> DEFINE r == [Idle EXCEPT !.pc = "moved", !.path = q, !.h = 0, !.arg = p]
  <2>1. req' = [req EXCEPT ![s] = r] BY <1>6 DEF MoveFolder, Becomes
  <2>2. "moved" \in Stage /\ "moved" \in Placed /\ q \in AnyPath /\ p \in Nat \cup Paths
    BY DEF Stage, Placed, AnyPath
  <2>3. r \in Request /\ r.pc = "moved" /\ r.path = q /\ r.h = 0
    BY <1>id, <2>2 DEF Request
  <2> HIDE DEF r
  <2>4. Follows(s, r) BY <2>2, <2>3, <1>pl
  <2>5. /\ UNCHANGED <<webState, davState, phrases, entries, handles>>
        /\ disk' = [disk EXCEPT ![q] = disk[p], ![p] = NoVault]
    BY <1>6 DEF MoveFolder
  <2>6. NoVault \in [there : BOOLEAN, keys : SUBSET RecoveryEntry] BY DEF NoVault
  <2>7. disk' \in [Paths -> [there : BOOLEAN, keys : SUBSET RecoveryEntry]]
    <3> DEFINE V == [there : BOOLEAN, keys : SUBSET RecoveryEntry]
    <3>1. disk \in [Paths -> V] /\ NoVault \in V BY <2>6 DEF Types
    <3> HIDE DEF V
    <3>2. disk' \in [Paths -> V] BY <3>1, <2>5
    <3> QED BY <3>2 DEF V
  <2> QED BY <2>1, <2>4, <2>5, <2>7, <1>4
<1>7. CASE handleClose(s) \/ ResetRotates(s)
  <2>1. /\ UNCHANGED <<req, handles, davState, keyState, vaultPath>>
        /\ vault' \in {0, vault} /\ pending' \in {pending, NoPending}
        /\ era' \in {era, era + 1} /\ token' = era'
    BY <1>7 DEF handleClose, ResetRotates
  <2> QED BY <2>1, NoRequest DEF Outline
<1>8. CASE \/ handlePasswordChange(s)
           \/ handleFiles(s) \/ handleDownload(s) \/ handleExport(s) \/ handleExportZipDownload(s)
           \/ handleCompact(s) \/ handleGC(s) \/ handleRecoveryList(s)
           \/ handleUpload(s) \/ handleUploadPath(s) \/ handleFile(s)
  <2>1. PICK pc \in {"rewrap", "read", "upload"} :
           currentVault(s, pc) /\ UNCHANGED <<webState, davState, keyState, handles>>
    BY <1>8 DEF handlePasswordChange, handleFiles, handleDownload, handleExport, handleExportZipDownload,
                handleCompact, handleGC, handleRecoveryList, handleUpload, handleUploadPath, handleFile, Bound
  <2> QED BY <2>1, CurrentVault DEF Outline
<1>9. ASSUME NEW tok \in 0..token, handleWebDAV(s, tok) PROVE Types' /\ Outline
  <2>1. tok \in Nat BY DEF Types
  <2> QED BY <1>9, <2>1, DavTypes DEF Outline
<1>10. ASSUME NEW j \in DOMAIN jobs, handleLargeImportCancel(s, j) PROVE Types' /\ Outline
  <2>1. /\ UNCHANGED <<req, handles, davState, keyState, vaultPath>>
        /\ vault' \in {0, vault} /\ pending' \in {pending, NoPending}
        /\ era' \in {era, era + 1} /\ token' = era'
    BY <1>10 DEF handleLargeImportCancel, webState, Types
  <2> QED BY <2>1, NoRequest DEF Outline
<1> QED BY <1>1, <1>2, <1>3, <1>5, <1>6, <1>7, <1>8, <1>9, <1>10

LEMMA OutlineContinues ==
    ASSUME Types, NEW s \in Slots, Continues(s)
    PROVE  Types' /\ Outline
<1>op. ASSUME NEW p \in Paths, NEW pc \in OpenStages, NEW pend \in Pending, OpenHandle(s, p, pc, pend),
              UNCHANGED <<webState, davState, keyState>>
       PROVE  Types' /\ Outline
  <2>1. Opens(s) BY <1>op DEF Opens
  <2> QED BY <2>1, OpensTypes DEF Outline
<1>st. {"adopt", "adoptKeepPending"} \subseteq OpenStages BY DEF OpenStages, Adopting
<1>an. ASSUME Answer(s), UNCHANGED <<webState, davState, keyState, handles>> PROVE Types' /\ Outline
  BY <1>an, IdleFollows, Quiet DEF Answer, Becomes, Outline
<1>sl. /\ req[s] \in Request /\ SlotOK(req[s], Len(handles))
       /\ req[s].pc \in Binding => req[s].h \in 1..Len(handles)
  BY SlotHandle
<1>1. CASE OpenCreated(s)
  <2>1. UNCHANGED <<webState, davState, keyState>> BY <1>1 DEF OpenCreated
  <2>2. req[s].path \in Paths BY <1>1, <1>sl DEF OpenCreated, At, SlotOK, Placed
  <2>3. CASE Answer(s) /\ UNCHANGED handles BY <2>1, <2>3, <1>an
  <2>4. CASE \E pc \in {"adopt", "adoptKeepPending"} : OpenHandle(s, req[s].path, pc, NoPending)
    BY <2>1, <2>2, <2>4, <1>op, <1>st, NoPendingOK
  <2> QED BY <1>1, <2>3, <2>4 DEF OpenCreated
<1>2. CASE Adopt(s) BY <1>2, AdoptTypes DEF Outline
<1>3. CASE MoveDetach(s)
  <2>1. UNCHANGED <<pending, era, token, davState, keyState, handles>> BY <1>3 DEF MoveDetach
  <2>2. CASE vault # 0 /\ vaultPath = req[s].arg
    <3>1. vault' = 0 /\ vaultPath' = req[s].path /\ req' = [req EXCEPT ![s].pc = "reopen"]
      BY <1>3, <2>2 DEF MoveDetach, Goto
    <3>2. req[s].path \in Paths BY <1>3, <1>sl DEF MoveDetach, At, SlotOK, Placed
    <3> DEFINE r == [req[s] EXCEPT !.pc = "reopen"]
    <3>3. req' = [req EXCEPT ![s] = r] BY <3>1
    <3>4. Follows(s, r)
      <4>1. /\ "reopen" \in Stage \ (Adopting \cup {"dav", "verify"})
            /\ "reopen" \notin Binding /\ "reopen" \notin Minted
        BY DEF Stage, Placed, Adopting, Binding, Minted
      <4> QED BY <3>2, <4>1, GoesOn
    <3> HIDE DEF r
    <3>5. HandlesKept BY <2>1, SameHandles
    <3>a. era <= era' BY <2>1 DEF Types
    <3>6. Plain BY <2>1, <3>1, <3>3, <3>4, <3>5, <3>a DEF Plain
    <3>7. Types'
      BY <2>1, <3>1, <3>2, <3>6, PlainTypes DEF Types, keyState, AnyPath
    <3> QED BY <3>6, <3>7 DEF Outline
  <2>3. CASE ~(vault # 0 /\ vaultPath = req[s].arg)
    <3>1. Answer(s) /\ UNCHANGED <<webState, davState, keyState, handles>>
      BY <1>3, <2>1, <2>3 DEF MoveDetach, webState
    <3> QED BY <3>1, <1>an
  <2> QED BY <2>2, <2>3
<1>4. CASE MoveReopen(s)
  <2>1. UNCHANGED <<webState, davState, keyState>> BY <1>4 DEF MoveReopen
  <2>2. req[s].path \in Paths BY <1>4, <1>sl DEF MoveReopen, At, SlotOK, Placed
  <2>3. CASE Answer(s) /\ UNCHANGED handles BY <2>1, <2>3, <1>an
  <2>4. CASE OpenHandle(s, req[s].path, "adoptKeepPending", NoPending)
    BY <2>1, <2>2, <2>4, <1>op, <1>st, NoPendingOK
  <2> QED BY <1>4, <2>3, <2>4 DEF MoveReopen
<1>5. CASE handleVerify(s) \/ KeyError(s)
  BY <1>5, <1>an DEF handleVerify, KeyError
<1>6. CASE ChangePassword(s)
  <2>1. /\ req[s].h \in 1..Len(handles)
        /\ rewriteConfig(req[s].h, handles[req[s].h].keys)
        /\ req' = [req EXCEPT ![s] = Idle]
        /\ UNCHANGED <<webState, davState, phrases>> /\ entries' \in Nat
    BY <1>6, <1>sl DEF ChangePassword, At, Binding, Answer, Becomes, Types
  <2> QED BY <2>1, HandleKeys, IdleFollows, RewriteStep DEF Outline
<1>7. CASE CommitWrite(s)
  <2> DEFINE pend == req[s].pend
             keys == handles[pend.h].keys \cup {Entry(pend)}
  <2>1. req[s].pc \in {"commit", "cliCommit"} BY <1>7 DEF CommitWrite
  <2>2. pend \in Pending /\ pend.h \in 1..Len(handles)
    BY <1>sl, <2>1 DEF SlotOK, Minted, Request
  <2>3. Entry(pend) \in RecoveryEntry BY <2>2 DEF Entry, RecoveryEntry, Pending, Types
  <2>4. keys \in SUBSET RecoveryEntry BY <2>2, <2>3, HandleKeys
  <2>5. /\ rewriteConfig(pend.h, keys)
        /\ UNCHANGED <<webState, davState, phrases>> /\ entries' \in Nat
    BY <1>7 DEF CommitWrite, Types
  <2> HIDE DEF keys, pend
  <2>6. CASE req[s].pc = "commit"
    <3>1. req' = [req EXCEPT ![s] = [req[s] EXCEPT !.pc = "forget"]]
      BY <1>7, <2>6 DEF CommitWrite, Goto
    <3>2. Follows(s, [req[s] EXCEPT !.pc = "forget"])
      <4>1. /\ "forget" \in Stage \ (Adopting \cup {"dav", "verify"})
            /\ "forget" \notin Binding /\ "forget" \notin Minted /\ "forget" \notin Placed
        BY DEF Stage, Placed, Adopting, Binding, Minted
      <4> QED BY <4>1, GoesOn
    <3> DEFINE r == [req[s] EXCEPT !.pc = "forget"]
    <3> HIDE DEF r
    <3> QED BY <3>1, <3>2, <2>2, <2>4, <2>5, RewriteStep DEF Outline, r
  <2>7. CASE req[s].pc = "cliCommit"
    <3>1. req' = [req EXCEPT ![s] = Idle] BY <1>7, <2>7 DEF CommitWrite, Answer, Becomes
    <3> QED BY <3>1, <2>2, <2>4, <2>5, IdleFollows, RewriteStep DEF Outline
  <2> QED BY <2>1, <2>6, <2>7
<1>8. CASE CommitForgets(s)
  <2>1. /\ req' = [req EXCEPT ![s] = Idle] /\ pending' = NoPending
        /\ UNCHANGED <<vault, vaultPath, era, token, davState, keyState, handles>>
    BY <1>8 DEF CommitForgets, Answer, Becomes
  <2>2. HandlesKept BY <2>1, SameHandles
  <2>a. era <= era' BY <2>1 DEF Types
  <2>3. Plain BY <2>1, <2>2, <2>a, IdleFollows DEF Plain
  <2>4. Types' BY <2>1, <2>3, NoPendingOK, PlainTypes DEF Types, keyState, Parked
  <2> QED BY <2>3, <2>4 DEF Outline
<1>9. CASE RevokeRecovery(s)
  <2> DEFINE keys == handles[req[s].h].keys
             kept == {e \in keys : e.id # req[s].arg}
  <2>1. req[s].h \in 1..Len(handles) /\ req' = [req EXCEPT ![s] = Idle]
    BY <1>9, <1>sl DEF RevokeRecovery, At, Binding, Answer, Becomes
  <2>2. UNCHANGED <<webState, davState, phrases, typed, entries>> BY <1>9 DEF RevokeRecovery
  <2>3. CASE UNCHANGED <<disk, handles>>
    <3>1. UNCHANGED keyState BY <2>2, <2>3 DEF keyState
    <3> QED BY <2>1, <2>2, <2>3, <3>1, <1>an DEF Answer, Becomes
  <2>4. CASE rewriteConfig(req[s].h, kept)
    <3>1. kept \in SUBSET RecoveryEntry BY <2>1, HandleKeys
    <3> HIDE DEF kept
    <3> QED BY <2>1, <2>2, <2>4, <3>1, IdleFollows, RewriteStep DEF Outline, Types
  <2> QED BY <1>9, <2>3, <2>4 DEF RevokeRecovery
<1>10. CASE LockMu(s)
  <2>1. req' = [req EXCEPT ![s] = [req[s] EXCEPT !.pc = "io"]] BY <1>10 DEF LockMu, Goto
  <2>2. UNCHANGED <<webState, davState, keyState, handles>> BY <1>10 DEF LockMu
  <2>3. req[s].h > 0 BY <1>10, <1>sl DEF LockMu, At, SlotOK, Binding
  <2>4. Follows(s, [req[s] EXCEPT !.pc = "io"])
    <3>1. /\ "io" \in Stage \ (Adopting \cup {"dav", "verify"}) /\ "io" \notin Minted /\ "io" \notin Placed
      BY DEF Stage, Binding, Placed, Adopting, Minted
    <3> QED BY <2>3, <3>1, GoesOn
  <2> DEFINE r == [req[s] EXCEPT !.pc = "io"]
  <2> HIDE DEF r
  <2> QED BY <2>1, <2>2, <2>4, Quiet DEF Outline, r
<1>11. CASE VaultIO(s) BY <1>11, <1>an DEF VaultIO
<1>12. CASE DavSweep(s) BY <1>12, SweepTypes DEF Outline
<1> QED BY <1>1, <1>2, <1>3, <1>4, <1>5, <1>6, <1>7, <1>8, <1>9, <1>10, <1>11, <1>12 DEF Continues

LEMMA OutlineStaged ==
    ASSUME Types, NEW s \in Slots, Staged(s)
    PROVE  Types' /\ Outline
<1>op. ASSUME NEW p \in Paths, NEW pc \in OpenStages, NEW pend \in Pending, OpenHandle(s, p, pc, pend),
              UNCHANGED <<webState, davState, keyState>>
       PROVE  Types' /\ Outline
  <2>1. Opens(s) BY <1>op DEF Opens
  <2> QED BY <2>1, OpensTypes DEF Outline
<1>st. {"cliMint", "redeem", "cliRedeem"} \subseteq OpenStages BY DEF OpenStages, Adopting
<1>an. ASSUME Answer(s), UNCHANGED <<webState, davState, keyState, handles>> PROVE Types' /\ Outline
  BY <1>an, IdleFollows, Quiet DEF Answer, Becomes, Outline
<1>sl. /\ req[s] \in Request /\ SlotOK(req[s], Len(handles))
       /\ req[s].pc \in Binding => req[s].h \in 1..Len(handles)
  BY SlotHandle
\* A plain step that also mints a phrase, notes a typed one or parks the pending one.
<1>pl. ASSUME NEW r, Follows(s, r), req' = [req EXCEPT ![s] = r],
              UNCHANGED <<vault, vaultPath, era, token, davState, disk, entries, handles>>,
              phrases' \in Nat, pending' \in Pending, Parked(pending', Len(handles))
       PROVE  Types' /\ Outline
  <2>1. HandlesKept BY <1>pl, SameHandles
  <2>2. era <= era' BY <1>pl DEF Types
  <2>3. Plain BY <1>pl, <2>1, <2>2 DEF Plain
  <2>4. Types' BY <1>pl, <2>3, PlainTypes DEF Types
  <2> QED BY <2>3, <2>4 DEF Outline
<1>pr. phrases \in Nat /\ pending \in Pending /\ Parked(pending, Len(handles)) BY DEF Types
<1>mi. ASSUME NEW pc \in {"park", "cliTyped"}, req[s].pc \in Binding, PrepareRecovery(s, pc),
              UNCHANGED <<webState, davState, disk, entries, handles>>
       PROVE  Types' /\ Outline
  <2> DEFINE pend == [phrase |-> phrases + 1, h |-> req[s].h]
             r == [req[s] EXCEPT !.pc = pc, !.pend = pend]
  <2>1. phrases' = phrases + 1 /\ req' = [req EXCEPT ![s].pc = pc, ![s].pend = pend]
    BY <1>mi DEF PrepareRecovery
  <2>2. pend \in Pending /\ pend.h = req[s].h BY <1>sl, <1>pr DEF Pending, Request
  <2> HIDE DEF pend
  <2>3. req' = [req EXCEPT ![s] = r] BY <2>1, <1>sl DEF Types
  <2>4. /\ pc \in Stage /\ pc \notin Adopting \cup {"dav", "verify"}
        /\ pc \notin Binding /\ pc \notin Placed
    BY DEF Stage, Minted, Placed, Adopting, Binding
  <2>5. r \in Request /\ r.pc = pc /\ r.pend = pend /\ r.h = req[s].h
    BY <1>sl, <2>2, <2>4 DEF Request
  <2> HIDE DEF r
  <2>6. SlotOK(r, Len(handles)) BY <1>sl, <1>mi, <2>2, <2>4, <2>5 DEF SlotOK
  <2>7. Follows(s, r) BY <2>4, <2>5, <2>6 DEF Follows
  <2>8. /\ UNCHANGED <<vault, vaultPath, era, token, pending, davState, disk, entries, handles>>
        /\ phrases' \in Nat
    BY <1>mi, <1>pr, <2>1 DEF webState
  <2> QED BY <2>3, <2>7, <2>8, <1>pr, <1>pl
<1>1. CASE handleRecoveryGenerate(s)
  <2>0. UNCHANGED <<vault, vaultPath, era, token, davState, disk, typed, entries, handles>>
    BY <1>1 DEF handleRecoveryGenerate
  <2>1. CASE currentVault(s, "mint") /\ UNCHANGED <<phrases, pending>>
    <3>1. UNCHANGED <<webState, davState, keyState, handles>> BY <2>0, <2>1 DEF webState, keyState
    <3> QED BY <2>1, <3>1, CurrentVault DEF Outline
  <2>2. CASE At(s, "mint") /\ PrepareRecovery(s, "park") /\ UNCHANGED pending
    <3>1. UNCHANGED <<webState, davState, disk, entries, handles>> BY <2>0, <2>2 DEF webState
    <3>2. req[s].pc \in Binding BY <2>2 DEF At, Binding
    <3> QED BY <2>2, <3>1, <3>2, <1>mi
  <2>3. CASE At(s, "park") /\ pending' = req[s].pend /\ Answer(s) /\ UNCHANGED phrases
    <3>1. pending' \in Pending /\ Parked(pending', Len(handles))
      BY <2>3, <1>sl DEF At, Request, SlotOK, Minted, Parked
    <3>2. req' = [req EXCEPT ![s] = Idle] BY <2>3 DEF Answer, Becomes
    <3> QED BY <2>0, <2>3, <3>1, <3>2, <1>pr, <1>pl, IdleFollows
  <2> QED BY <1>1, <2>1, <2>2, <2>3 DEF handleRecoveryGenerate
<1>2. CASE handleLargeImportStart(s)
  <2>0. UNCHANGED <<webState, davState, keyState, handles>> BY <1>2 DEF handleLargeImportStart
  <2>1. CASE currentVault(s, "import") BY <2>0, <2>1, CurrentVault DEF Outline
  <2>2. CASE Answer(s) BY <2>0, <2>2, <1>an
  <2> QED BY <1>2, <2>1, <2>2 DEF handleLargeImportStart
<1>3. ASSUME NEW text \in 0..phrases, handleRecoveryCommit(s, text) PROVE Types' /\ Outline
  <2>0. UNCHANGED <<webState, davState, disk, phrases, entries, handles>>
    BY <1>3 DEF handleRecoveryCommit
  <2>a. UNCHANGED <<vault, vaultPath, era, token, pending, davState, disk, entries, handles>>
    BY <2>0 DEF webState
  <2>1. CASE currentVault(s, "take") /\ UNCHANGED typed
    <3>1. UNCHANGED keyState BY <2>0, <2>1 DEF keyState
    <3> QED BY <2>0, <2>1, <3>1, CurrentVault DEF Outline
  <2>2. CASE /\ At(s, "take") /\ pending # NoPending
             /\ req' = [req EXCEPT ![s].pc = "commit", ![s].pend = pending]
    <3> DEFINE r == [req[s] EXCEPT !.pc = "commit", !.pend = pending]
    <3>1. req' = [req EXCEPT ![s] = r] BY <2>2, <1>sl DEF Types
    <3>2. /\ "commit" \in Stage /\ "commit" \notin Adopting
          /\ "commit" \notin Binding /\ "commit" \notin Placed
      BY DEF Stage, Minted, Placed, Adopting, Binding
    <3>3. r \in Request /\ r.pc = "commit" /\ r.pend = pending /\ r.h = req[s].h
      BY <1>sl, <1>pr, <3>2 DEF Request
    <3> HIDE DEF r
    <3>4. SlotOK(r, Len(handles)) BY <1>sl, <1>pr, <2>2, <3>2, <3>3 DEF SlotOK, Parked
    <3>5. Follows(s, r) BY <3>2, <3>3, <3>4 DEF Follows
    <3> QED BY <2>0, <2>a, <3>1, <3>5, <1>pr, <1>pl
  <2>3. CASE Answer(s)
    <3>1. req' = [req EXCEPT ![s] = Idle] BY <2>3 DEF Answer, Becomes
    <3> QED BY <2>0, <2>a, <3>1, <1>pr, <1>pl, IdleFollows
  <2> QED BY <1>3, <2>1, <2>2, <2>3 DEF handleRecoveryCommit
<1>4. ASSUME NEW id \in 0..entries, NEW confirm \in BOOLEAN, handleRecoveryRevoke(s, id, confirm)
      PROVE  Types' /\ Outline
  <2>0. UNCHANGED <<webState, davState, keyState, handles>> BY <1>4 DEF handleRecoveryRevoke
  <2>1. CASE currentVault(s, "revoke") BY <2>0, <2>1, CurrentVault DEF Outline
  <2>2. CASE Answer(s) BY <2>0, <2>2, <1>an
  <2>3. CASE At(s, "revoke") /\ req' = [req EXCEPT ![s].pc = "strike", ![s].arg = id]
    <3> DEFINE r == [req[s] EXCEPT !.pc = "strike", !.arg = id]
    <3>1. req' = [req EXCEPT ![s] = r] BY <2>3, <1>sl DEF Types
    <3>2. /\ "strike" \in Stage /\ "strike" \notin Adopting /\ "strike" \in Binding
          /\ "strike" \notin Minted /\ "strike" \notin Placed
      BY DEF Stage, Minted, Placed, Adopting, Binding
    <3>a. id \in Nat \cup Paths BY DEF Types
    <3>3. r \in Request /\ r.pc = "strike" /\ r.h = req[s].h BY <1>sl, <3>2, <3>a DEF Request
    <3> HIDE DEF r
    <3>4. req[s].h > 0 BY <2>3, <1>sl DEF At, SlotOK, Binding
    <3>5. SlotOK(r, Len(handles)) BY <1>sl, <3>2, <3>3, <3>4 DEF SlotOK
    <3>6. Follows(s, r) BY <3>2, <3>3, <3>5 DEF Follows
    <3> QED BY <2>0, <3>1, <3>6, Quiet DEF Outline
  <2> QED BY <1>4, <2>1, <2>2, <2>3 DEF handleRecoveryRevoke
<1>5. ASSUME NEW p \in Paths, cmdRecoveryGenerate(s, p) PROVE Types' /\ Outline
  <2>1. CASE openVaultForCLI(s, p, "cliMint")
    <3>1. OpenHandle(s, p, "cliMint", NoPending) /\ UNCHANGED <<webState, davState, keyState>>
      BY <2>1 DEF openVaultForCLI
    <3> QED BY <3>1, <1>op, <1>st, NoPendingOK
  <2>2. CASE /\ At(s, "cliMint") /\ PrepareRecovery(s, "cliTyped")
             /\ UNCHANGED <<webState, davState, disk, typed, entries, handles, jobs, mu>>
    <3>1. req[s].pc \in Binding BY <2>2 DEF At, Binding
    <3> QED BY <2>2, <3>1, <1>mi
  <2>3. CASE /\ At(s, "cliTyped") /\ Answer(s)
             /\ UNCHANGED <<webState, davState, disk, phrases, entries, handles, jobs, mu>>
    <3>1. req' = [req EXCEPT ![s] = Idle] BY <2>3 DEF Answer, Becomes
    <3>2. UNCHANGED <<vault, vaultPath, era, token, pending, davState, disk, entries, handles>>
      BY <2>3 DEF webState
    <3> QED BY <2>3, <3>1, <3>2, <1>pr, <1>pl, IdleFollows
  <2>4. CASE /\ At(s, "cliTyped") /\ Goto(s, "cliCommit")
             /\ UNCHANGED <<webState, davState, disk, phrases, entries, handles, jobs, mu>>
    <3>1. req' = [req EXCEPT ![s] = [req[s] EXCEPT !.pc = "cliCommit"]] BY <2>4 DEF Goto
    <3>2. req[s].pend.h \in 1..Len(handles) BY <2>4, <1>sl DEF At, SlotOK, Minted
    <3>3. Follows(s, [req[s] EXCEPT !.pc = "cliCommit"])
      <4>1. /\ "cliCommit" \in Stage \ (Adopting \cup {"dav", "verify"})
            /\ "cliCommit" \notin Binding /\ "cliCommit" \notin Placed
        BY DEF Stage, Binding, Placed, Adopting, Minted
      <4> QED BY <3>2, <4>1, GoesOn
    <3>4. UNCHANGED <<vault, vaultPath, era, token, pending, davState, disk, entries, handles>>
      BY <2>4 DEF webState
    <3> DEFINE r == [req[s] EXCEPT !.pc = "cliCommit"]
    <3>5. req' = [req EXCEPT ![s] = r] /\ Follows(s, r) BY <3>1, <3>3
    <3> HIDE DEF r
    <3> QED BY <2>4, <3>4, <3>5, <1>pr, <1>pl
  <2> QED BY <1>5, <2>1, <2>2, <2>3, <2>4 DEF cmdRecoveryGenerate
<1>6. ASSUME NEW p \in Paths, NEW text \in 1..phrases,
             handleRecoveryRedeem(s, p, text) \/ cmdRecoveryRedeem(s, p, text)
      PROVE  Types' /\ Outline
  <2> DEFINE pend == [NoPending EXCEPT !.phrase = text]
             K == handles[req[s].h].keys
             keys == K \ {CHOOSE e \in K : e.phrase = text}
  <2>0. UNCHANGED <<webState, davState, phrases, typed, entries>>
    BY <1>6 DEF handleRecoveryRedeem, cmdRecoveryRedeem
  <2>a. pend \in Pending BY <1>pr DEF NoPending, Pending
  <2>1. CASE /\ \E pc \in {"redeem", "cliRedeem"} : OpenHandle(s, p, pc, pend)
             /\ UNCHANGED disk
    <3>1. UNCHANGED <<webState, davState, keyState>> BY <2>0, <2>1 DEF keyState
    <3> HIDE DEF pend
    <3> QED BY <2>1, <2>a, <3>1, <1>op, <1>st
  <2>2. ASSUME req[s].pc \in {"redeem", "cliRedeem"}
        PROVE  req[s].h \in 1..Len(handles) /\ keys \in SUBSET RecoveryEntry /\ entries' \in Nat
    <3>1. req[s].h \in 1..Len(handles) BY <2>2, <1>sl DEF Binding, Adopting
    <3>2. K \in SUBSET RecoveryEntry BY <3>1, HandleKeys
    <3> QED BY <2>0, <3>1, <3>2 DEF Types
  <2>3. CASE /\ req[s].pc \in {"redeem", "cliRedeem"}
             /\ rewriteConfig(req[s].h, keys) /\ Answer(s)
    <3> HIDE DEF keys
    <3> QED BY <2>0, <2>2, <2>3, IdleFollows, RewriteStep DEF Outline, Answer, Becomes
  <2>4. CASE /\ req[s].pc = "redeem" /\ rewriteConfig(req[s].h, keys) /\ Goto(s, "adopt")
    <3> DEFINE r == [req[s] EXCEPT !.pc = "adopt"]
    <3>1. req' = [req EXCEPT ![s] = r] BY <2>4 DEF Goto
    <3>2. /\ "adopt" \in Stage /\ "adopt" \in Binding /\ "adopt" \in Adopting /\ "redeem" \in Adopting
          /\ "adopt" \notin Minted /\ "adopt" \notin Placed
      BY DEF Stage, Minted, Placed, Adopting, Binding
    <3>3. r \in Request /\ r.pc = "adopt" /\ r.h = req[s].h /\ r.path = req[s].path
      BY <1>sl, <3>2 DEF Request
    <3> HIDE DEF r
    <3>4. SlotOK(r, Len(handles)) BY <1>sl, <2>2, <2>4, <3>2, <3>3 DEF SlotOK
    <3>5. Follows(s, r) BY <2>4, <3>2, <3>3, <3>4 DEF Follows
    <3> HIDE DEF keys
    <3> QED BY <2>0, <2>2, <2>4, <3>1, <3>5, RewriteStep DEF Outline
  <2> QED BY <1>6, <2>1, <2>3, <2>4 DEF handleRecoveryRedeem, cmdRecoveryRedeem, At
<1> QED BY <1>1, <1>2, <1>3, <1>4, <1>5, <1>6 DEF Staged

LEMMA OutlineStep == Types /\ [WebNext]_webVars => Types' /\ Outline
<1> SUFFICES ASSUME Types, [WebNext]_webVars PROVE Types' /\ Outline OBVIOUS
<1>1. ASSUME UNCHANGED <<req, handles, webState, davState, keyState>> PROVE Types' /\ Outline
  <2>1. /\ UNCHANGED <<req, handles, davState, keyState, vaultPath>>
        /\ vault' \in {0, vault} /\ pending' \in {pending, NoPending}
        /\ era' \in {era, era + 1} /\ token' = era'
    BY <1>1 DEF webState, Types
  <2> QED BY <2>1, NoRequest DEF Outline
<1>2. ASSUME NEW j \in DOMAIN jobs, ImportStep(j) PROVE Types' /\ Outline
  <2>1. UNCHANGED <<req, handles, webState, davState, keyState>>
    BY <1>2 DEF ImportStep, ImportBegin, ImportEntry, ImportPut
  <2> QED BY <1>1, <2>1
<1>3. CASE UNCHANGED webVars BY <1>3, <1>1 DEF webVars
<1> QED BY <1>2, <1>3, OutlineRequests, OutlineContinues, OutlineStaged DEF WebNext

LEMMA TypesInit == WebInit => Types
<1> SUFFICES ASSUME WebInit PROVE Types OBVIOUS
<1>1. handles = <<>> /\ vault = 0 /\ vaultPath = NoPath /\ pending = NoPending /\ era = 0 /\ token = 0
      /\ phrases = 0 /\ entries = 0 /\ req = [s \in Slots |-> Idle]
      /\ presence = [cache |-> 1, of |-> 0] /\ caches = <<{}>>
      /\ disk = [p \in Paths |-> [there |-> p \in Existing, keys |-> {}]]
  BY DEF WebInit
<1>2. handles \in Seq(Handle) /\ Len(handles) = 0 BY <1>1
<1>3. SlotOK(Idle, 0) BY IdleOK
<1>4. Idle \in Request BY <1>3 DEF SlotOK
<1>5. disk \in [Paths -> [there : BOOLEAN, keys : SUBSET RecoveryEntry]] BY <1>1
<1>6. caches \in Seq(SUBSET Nat) /\ Len(caches) = 1 BY <1>1
<1> QED BY <1>1, <1>2, <1>3, <1>4, <1>5, <1>6, NoPendingOK DEF Types, AnyPath, Parked

-----------------------------------------------------------------------------
(* A handle knows its folder: the active one's is s.vaultPath, and a       *)
(* request between opening and adopting, or verifying, names its own.      *)

TargetInv ==
    /\ Types
    /\ vault # 0 => handles[vault].path = vaultPath
    /\ \A s \in Slots : req[s].pc \in Adopting \cup {"verify"} => handles[req[s].h].path = req[s].path

LEMMA TargetInductive == TargetInv /\ [WebNext]_webVars => TargetInv'
<1> SUFFICES ASSUME TargetInv, [WebNext]_webVars PROVE TargetInv' OBVIOUS
<1>1. Types /\ Types' /\ Outline BY OutlineStep DEF TargetInv
<1>2. \A t \in Slots : /\ req[t].h \in 0..Len(handles)
                       /\ req[t].pc \in Binding => req[t].h \in 1..Len(handles)
  BY <1>1, SlotHandle, LenNat DEF SlotOK, Request, Types
<1>3. vault \in 0..Len(handles) /\ Len(handles) \in Nat /\ req \in [Slots -> Request]
  BY <1>1, LenNat DEF Types
<1>4. Adopting \cup {"verify"} \subseteq Binding BY DEF Binding
<1>5. CASE Plain
  <2>1. vault' # 0 => handles'[vault'].path = vaultPath'
    BY <1>3, <1>5 DEF Plain, HandlesKept, TargetInv
  <2>2. ASSUME NEW t \in Slots, req'[t].pc \in Adopting \cup {"verify"}
        PROVE  handles'[req'[t].h].path = req'[t].path
    <3>1. CASE req'[t] = req[t]
      BY <1>2, <1>4, <1>5, <2>2, <3>1 DEF Plain, HandlesKept, TargetInv
    <3>2. CASE req'[t] # req[t]
      <4>1. PICK r : Follows(t, r) /\ req'[t] = r BY <1>3, <1>5, <3>2 DEF Plain
      <4>2. CASE r.pc \in Adopting
        BY <1>2, <1>4, <1>5, <4>1, <4>2 DEF Plain, HandlesKept, TargetInv, Follows
      <4>3. CASE r.pc = "verify"
        BY <1>3, <1>5, <4>1, <4>3 DEF Plain, HandlesKept, TargetInv, Follows
      <4> QED BY <2>2, <4>1, <4>2, <4>3
    <3> QED BY <3>1, <3>2
  <2> QED BY <1>1, <2>1, <2>2 DEF TargetInv
<1>6. ASSUME NEW s \in Slots, Opens(s) PROVE TargetInv'
  <2>1. PICK p \in Paths, pc \in OpenStages, pend \in Pending : OpenHandle(s, p, pc, pend)
    BY <1>6 DEF Opens
  <2>2. /\ \A i \in 1..Len(handles) : handles'[i] = handles[i]
        /\ handles'[Len(handles) + 1] = [path |-> p, keys |-> disk[p].keys, at |-> era]
        /\ Opened(pc, p, pend).h = Len(handles) + 1 /\ Opened(pc, p, pend).path = p
    BY <1>1, <2>1, Opening
  <2>3. req' = [req EXCEPT ![s] = Opened(pc, p, pend)] /\ UNCHANGED <<vault, vaultPath>>
    BY <2>1, <1>6 DEF OpenHandle, Becomes, Opened, Opens, webState
  <2>4. vault' # 0 => handles'[vault'].path = vaultPath' BY <1>3, <2>2, <2>3 DEF TargetInv
  <2>5. handles'[req'[s].h].path = req'[s].path BY <1>3, <2>2, <2>3
  <2>6. ASSUME NEW t \in Slots, t # s, req'[t].pc \in Adopting \cup {"verify"}
        PROVE  handles'[req'[t].h].path = req'[t].path
    BY <1>2, <1>3, <1>4, <2>2, <2>3, <2>6 DEF TargetInv
  <2> QED BY <1>1, <2>4, <2>5, <2>6 DEF TargetInv
<1>7. ASSUME NEW s \in Slots, Adopt(s) PROVE TargetInv'
  <2>1. /\ \A i \in 1..Len(handles) : handles'[i].path = handles[i].path
        /\ req' = [req EXCEPT ![s] = Idle] /\ vault' = req[s].h /\ vaultPath' = req[s].path
        /\ req[s].pc \in Adopting
    BY <1>1, <1>7, AdoptTypes DEF Adopt, Answer, Becomes, Adopting
  <2>2. handles'[vault'].path = vaultPath' BY <1>2, <1>4, <2>1 DEF TargetInv
  <2>3. ASSUME NEW t \in Slots, req'[t].pc \in Adopting \cup {"verify"}
        PROVE  handles'[req'[t].h].path = req'[t].path
    <3>1. t # s BY <1>3, <2>1, <2>3 DEF Idle, Adopting
    <3>2. req'[t] = req[t] BY <1>3, <2>1, <3>1
    <3> QED BY <1>2, <1>4, <2>1, <2>3, <3>2 DEF TargetInv
  <2> QED BY <1>1, <2>2, <2>3 DEF TargetInv
<1>8. ASSUME NEW s \in Slots, DavSweep(s) PROVE TargetInv'
  <2>1. UNCHANGED <<vault, vaultPath, handles>> /\ req' = [req EXCEPT ![s] = Idle]
    BY <1>8 DEF DavSweep, webState, Answer, Becomes
  <2>2. ASSUME NEW t \in Slots, req'[t].pc \in Adopting \cup {"verify"} PROVE req'[t] = req[t]
    BY <1>3, <2>1, <2>2 DEF Idle, Adopting
  <2> QED BY <1>1, <2>1, <2>2 DEF TargetInv
<1>9. ASSUME NEW s \in Slots, NEW tok \in Nat, handleWebDAV(s, tok) PROVE TargetInv'
  <2>1. UNCHANGED <<vault, vaultPath, handles>> BY <1>9 DEF handleWebDAV, webState
  <2>2. ASSUME NEW t \in Slots, req'[t].pc \in Adopting \cup {"verify"} PROVE req'[t] = req[t]
    <3>1. CASE UNCHANGED req BY <3>1
    <3>2. CASE vault # 0 /\ req' = [req EXCEPT ![s] = DavRequest(presence'.cache, tok)]
      <4>1. presence'.cache \in Nat BY <1>1 DEF Types
      <4>2. DavRequest(presence'.cache, tok).pc = "dav" BY <1>1, <3>2, <4>1, DavRequestOK
      <4> QED BY <1>3, <2>2, <3>2, <4>2 DEF Adopting
    <3> QED BY <1>1, <1>9, <3>1, <3>2, DavCache
  <2> QED BY <1>1, <2>1, <2>2 DEF TargetInv
<1> QED BY <1>1, <1>5, <1>6, <1>7, <1>8, <1>9 DEF Outline

\* VerifiesItsTarget: vaultForVerify never hands a verify the handle of
\* another folder (server.go: vaultForVerify, handleVerify).
THEOREM VerifyChecksWhatItSays == WebSpec => []VerifiesItsTarget
<1>1. WebInit => TargetInv
  <2> SUFFICES ASSUME WebInit PROVE TargetInv OBVIOUS
  <2>1. Types BY TypesInit
  <2>2. vault = 0 /\ \A s \in Slots : req[s].pc = "free" BY DEF WebInit, Idle
  <2> QED BY <2>1, <2>2 DEF TargetInv, Adopting
<1>2. TargetInv => VerifiesItsTarget BY DEF TargetInv, VerifiesItsTarget
<1> QED BY <1>1, <1>2, TargetInductive, PTL DEF WebSpec

-----------------------------------------------------------------------------
(* A handle gets its era when it is adopted, and no /dav/ request holds it *)
(* before that: a request that is about to adopt a handle is alone with it. *)

ScopeInv ==
    /\ Types
    /\ \A i \in 1..Len(handles) : handles[i].at <= era
    /\ \A s \in Slots : req[s].pc \in Adopting =>
          /\ req[s].h # vault
          /\ \A t \in Slots \ {s} : req[t].h # req[s].h
    /\ DavTokenScope

LEMMA ScopeInductive == ScopeInv /\ [WebNext]_webVars => ScopeInv'
<1> SUFFICES ASSUME ScopeInv, [WebNext]_webVars PROVE ScopeInv' OBVIOUS
<1>1. Types /\ Types' /\ Outline BY OutlineStep DEF ScopeInv
<1>2. \A t \in Slots : /\ req[t].h \in 0..Len(handles)
                       /\ req[t].pc \in Binding => req[t].h \in 1..Len(handles)
  BY <1>1, SlotHandle, LenNat DEF SlotOK, Request, Types
<1>3. /\ vault \in 0..Len(handles) /\ Len(handles) \in Nat /\ req \in [Slots -> Request]
      /\ era \in Nat /\ era' \in Nat /\ token = era
  BY <1>1, LenNat DEF Types
<1>4. Adopting \cup {"dav"} \subseteq Binding BY DEF Binding
<1>5. \A i \in 1..Len(handles) : handles[i].at \in Nat
  <2>1. \A i \in 1..Len(handles) : handles[i] \in Handle BY <1>1 DEF Types
  <2> QED BY <2>1 DEF Handle
<1>6. CASE Plain
  <2>1. Len(handles') = Len(handles) /\ \A i \in 1..Len(handles) : handles'[i].at = handles[i].at
    BY <1>6 DEF Plain, HandlesKept
  <2>2. \A i \in 1..Len(handles') : handles'[i].at <= era'
    BY <1>3, <1>5, <1>6, <2>1 DEF Plain, ScopeInv
  <2>3. vault' \in {0, vault} BY <1>6 DEF Plain
  <2>4. CASE UNCHANGED req
    <3>1. DavTokenScope' BY <1>2, <1>4, <2>1, <2>4 DEF ScopeInv, DavTokenScope
    <3> QED BY <1>1, <1>2, <1>4, <2>2, <2>3, <2>4, <3>1 DEF ScopeInv
  <2>5. ASSUME NEW s \in Slots, NEW r, Follows(s, r), req' = [req EXCEPT ![s] = r] PROVE ScopeInv'
    <3>1. req'[s] = r /\ \A t \in Slots \ {s} : req'[t] = req[t] BY <1>3, <2>5
    <3>2. DavTokenScope'
      <4> SUFFICES ASSUME NEW t \in Slots, req'[t].pc = "dav"
                   PROVE  handles'[req'[t].h].at <= req'[t].pend.phrase
        BY DEF DavTokenScope
      <4>1. req'[t] = req[t] BY <2>5, <3>1 DEF Follows
      <4> QED BY <1>2, <1>4, <2>1, <4>1 DEF ScopeInv, DavTokenScope
    <3>3. ASSUME NEW a \in Slots, req'[a].pc \in Adopting
          PROVE  req'[a].h # vault' /\ \A t \in Slots \ {a} : req'[t].h # req'[a].h
      <4>1. req[a].pc \in Adopting /\ req'[a].h = req[a].h BY <2>5, <3>1, <3>3 DEF Follows
      <4>2. req[a].h # 0 /\ req[a].h # vault /\ \A t \in Slots \ {a} : req[t].h # req[a].h
        BY <1>2, <1>4, <4>1 DEF ScopeInv
      <4>3. ASSUME NEW t \in Slots \ {a} PROVE req'[t].h # req[a].h
        <5>1. CASE t # s BY <3>1, <4>2, <5>1
        <5>2. CASE t = s
          <6>1. r.h \in {0, req[t].h, vault} BY <2>5, <5>2 DEF Follows
          <6> QED BY <3>1, <4>2, <5>2, <6>1
        <5> QED BY <5>1, <5>2
      <4> QED BY <2>3, <4>1, <4>2, <4>3
    <3> QED BY <1>1, <2>2, <3>2, <3>3 DEF ScopeInv
  <2> QED BY <1>6, <2>4, <2>5 DEF Plain
<1>7. ASSUME NEW s \in Slots, Opens(s) PROVE ScopeInv'
  <2>1. PICK p \in Paths, pc \in OpenStages, pend \in Pending : OpenHandle(s, p, pc, pend)
    BY <1>7 DEF Opens
  <2>2. /\ Len(handles') = Len(handles) + 1
        /\ \A i \in 1..Len(handles) : handles'[i] = handles[i]
        /\ handles'[Len(handles) + 1] = [path |-> p, keys |-> disk[p].keys, at |-> era]
        /\ Opened(pc, p, pend).h = Len(handles) + 1 /\ Opened(pc, p, pend).pc = pc
    BY <1>1, <2>1, Opening
  <2>3. req' = [req EXCEPT ![s] = Opened(pc, p, pend)] /\ UNCHANGED <<vault, era>>
    BY <2>1, <1>7 DEF OpenHandle, Becomes, Opened, Opens, webState
  <2>4. req'[s].h = Len(handles) + 1 /\ req'[s].pc = pc /\ \A t \in Slots \ {s} : req'[t] = req[t]
    BY <1>3, <2>2, <2>3
  <2>5. ASSUME NEW i \in 1..Len(handles') PROVE handles'[i].at <= era'
    <3>1. CASE i \in 1..Len(handles) BY <2>2, <2>3, <3>1 DEF ScopeInv
    <3>2. CASE i = Len(handles) + 1 BY <1>3, <2>2, <2>3, <3>2
    <3> QED BY <1>3, <2>2, <2>5, <3>1, <3>2
  <2>6. DavTokenScope'
    <3> SUFFICES ASSUME NEW t \in Slots, req'[t].pc = "dav"
                 PROVE  handles'[req'[t].h].at <= req'[t].pend.phrase
      BY DEF DavTokenScope
    <3>1. t # s BY <2>4 DEF OpenStages, Adopting
    <3> QED BY <1>2, <1>4, <2>2, <2>4, <3>1 DEF ScopeInv, DavTokenScope
  <2>7. ASSUME NEW a \in Slots, req'[a].pc \in Adopting
        PROVE  req'[a].h # vault' /\ \A t \in Slots \ {a} : req'[t].h # req'[a].h
    <3>1. CASE a = s
      BY <1>2, <1>3, <2>3, <2>4, <3>1
    <3>2. CASE a # s
      <4>1. req'[a] = req[a] /\ req[a].h \in 1..Len(handles) BY <1>2, <1>4, <2>4, <2>7, <3>2
      <4> QED BY <1>3, <2>3, <2>4, <2>7, <3>2, <4>1 DEF ScopeInv
    <3> QED BY <3>1, <3>2
  <2> QED BY <1>1, <2>5, <2>6, <2>7 DEF ScopeInv
<1>8. ASSUME NEW s \in Slots, Adopt(s) PROVE ScopeInv'
  <2>1. /\ Len(handles') = Len(handles)
        /\ \A i \in 1..Len(handles) : i # req[s].h => handles'[i].at = handles[i].at
        /\ handles'[req[s].h].at = era
    BY <1>1, <1>8, AdoptTypes
  <2>2. /\ req' = [req EXCEPT ![s] = Idle] /\ vault' = req[s].h /\ UNCHANGED era
        /\ req[s].pc \in Adopting
    BY <1>8 DEF Adopt, Answer, Becomes, Adopting
  <2>3. /\ req'[s] = Idle /\ \A t \in Slots \ {s} : req'[t] = req[t]
        /\ Idle.h = 0 /\ Idle.pc = "free"
    BY <1>3, <2>2 DEF Idle
  <2>4. ASSUME NEW i \in 1..Len(handles') PROVE handles'[i].at <= era'
    <3>1. CASE i = req[s].h BY <1>3, <2>1, <2>2, <3>1
    <3>2. CASE i # req[s].h BY <2>1, <2>2, <3>2 DEF ScopeInv
    <3> QED BY <3>1, <3>2
  <2>5. DavTokenScope'
    <3> SUFFICES ASSUME NEW t \in Slots, req'[t].pc = "dav"
                 PROVE  handles'[req'[t].h].at <= req'[t].pend.phrase
      BY DEF DavTokenScope
    <3>1. t # s BY <2>3
    <3>2. req'[t] = req[t] /\ req[t].h # req[s].h BY <2>2, <2>3, <3>1 DEF ScopeInv
    <3> QED BY <1>2, <1>4, <2>1, <3>2 DEF ScopeInv, DavTokenScope
  <2>6. ASSUME NEW a \in Slots, req'[a].pc \in Adopting
        PROVE  req'[a].h # vault' /\ \A t \in Slots \ {a} : req'[t].h # req'[a].h
    <3>1. a # s BY <2>3, <2>6 DEF Adopting
    <3>2. req'[a] = req[a] /\ req[a].h \in 1..Len(handles) BY <1>2, <1>4, <2>3, <2>6, <3>1
    <3>3. \A t \in Slots \ {a} : req[t].h # req[a].h BY <2>6, <3>2 DEF ScopeInv
    <3> QED BY <2>2, <2>3, <3>1, <3>2, <3>3
  <2> QED BY <1>1, <2>4, <2>5, <2>6 DEF ScopeInv
<1>9. ASSUME NEW s \in Slots, DavSweep(s) PROVE ScopeInv'
  <2>1. UNCHANGED <<vault, era, handles>> /\ req' = [req EXCEPT ![s] = Idle]
    BY <1>9 DEF DavSweep, webState, Answer, Becomes
  <2>2. /\ req'[s] = Idle /\ \A t \in Slots \ {s} : req'[t] = req[t]
        /\ Idle.h = 0 /\ Idle.pc = "free"
    BY <1>3, <2>1 DEF Idle
  <2>3. DavTokenScope' BY <2>1, <2>2 DEF ScopeInv, DavTokenScope
  <2>4. ASSUME NEW a \in Slots, req'[a].pc \in Adopting
        PROVE  req'[a].h # vault' /\ \A t \in Slots \ {a} : req'[t].h # req'[a].h
    <3>1. a # s BY <2>2, <2>4 DEF Adopting
    <3>2. req'[a] = req[a] /\ req[a].h \in 1..Len(handles) BY <1>2, <1>4, <2>2, <2>4, <3>1
    <3>3. req[a].h # vault /\ \A t \in Slots \ {a} : req[t].h # req[a].h BY <2>4, <3>2 DEF ScopeInv
    <3> QED BY <2>1, <2>2, <3>1, <3>2, <3>3
  <2> QED BY <1>1, <2>1, <2>3, <2>4 DEF ScopeInv
<1>10. ASSUME NEW s \in Slots, NEW tok \in Nat, handleWebDAV(s, tok) PROVE ScopeInv'
  <2>1. UNCHANGED <<vault, era, handles>> BY <1>10 DEF handleWebDAV, webState
  <2>2. CASE UNCHANGED req
    BY <1>1, <2>1, <2>2 DEF ScopeInv, DavTokenScope
  <2>3. CASE tok = token /\ vault # 0 /\ req' = [req EXCEPT ![s] = DavRequest(presence'.cache, tok)]
    <3> DEFINE r == DavRequest(presence'.cache, tok)
    <3>1. presence'.cache \in Nat BY <1>1 DEF Types
    <3>2. r.pc = "dav" /\ r.h = vault /\ r.pend.phrase = tok BY <1>1, <2>3, <3>1, DavRequestOK
    <3>3. req'[s] = r /\ \A t \in Slots \ {s} : req'[t] = req[t] BY <1>3, <2>3
    <3> HIDE DEF r
    <3>4. DavTokenScope'
      <4> SUFFICES ASSUME NEW t \in Slots, req'[t].pc = "dav"
                   PROVE  handles'[req'[t].h].at <= req'[t].pend.phrase
        BY DEF DavTokenScope
      <4>1. CASE t = s BY <1>3, <2>1, <2>3, <3>2, <3>3, <4>1 DEF ScopeInv
      <4>2. CASE t # s BY <2>1, <3>3, <4>2 DEF ScopeInv, DavTokenScope
      <4> QED BY <4>1, <4>2
    <3>5. ASSUME NEW a \in Slots, req'[a].pc \in Adopting
          PROVE  req'[a].h # vault' /\ \A t \in Slots \ {a} : req'[t].h # req'[a].h
      <4>1. a # s BY <3>2, <3>3, <3>5 DEF Adopting
      <4>2. req'[a] = req[a] BY <3>3, <4>1
      <4>3. req[a].h # vault /\ \A t \in Slots \ {a} : req[t].h # req[a].h BY <3>5, <4>2 DEF ScopeInv
      <4> QED BY <2>1, <3>2, <3>3, <4>1, <4>2, <4>3
    <3> QED BY <1>1, <2>1, <3>4, <3>5 DEF ScopeInv
  <2> QED BY <1>1, <1>10, <2>2, <2>3, DavCache
<1> QED BY <1>1, <1>6, <1>7, <1>8, <1>9, <1>10 DEF Outline

\* DavTokenScope: a /dav/ URL handed out before the vault was closed or the application
\* reset never reaches a vault opened after that, however many requests and openings
\* meet (server.go: handleClose, handleResetConfig, handleWebDAV).
THEOREM OldURLsAreDead == WebSpec => []DavTokenScope
<1>1. WebInit => ScopeInv
  <2> SUFFICES ASSUME WebInit PROVE ScopeInv OBVIOUS
  <2>1. Types BY TypesInit
  <2>2. Len(handles) = 0 /\ \A s \in Slots : req[s].pc = "free" BY DEF WebInit, Idle
  <2> QED BY <2>1, <2>2 DEF ScopeInv, DavTokenScope, Adopting
<1>2. ScopeInv => DavTokenScope BY DEF ScopeInv
<1> QED BY <1>1, <1>2, ScopeInductive, PTL DEF WebSpec

-----------------------------------------------------------------------------
(* A presence cache serves one handle: the one it was made for, which the  *)
(* server and every /dav/ request that got the cache agree on.             *)

CacheInv ==
    /\ Types
    /\ caches[presence.cache] \subseteq {presence.of}
    /\ \A s \in Slots : req[s].pc = "dav" =>
          /\ req[s].arg \in 1..Len(caches)
          /\ caches[req[s].arg] \subseteq {req[s].h}
          /\ req[s].arg = presence.cache => req[s].h = presence.of
          /\ \A t \in Slots : req[t].pc = "dav" /\ req[t].arg = req[s].arg => req[t].h = req[s].h

LEMMA CacheKept ==
    ASSUME CacheInv, Types', UNCHANGED davState,
           \A t \in Slots : req'[t].pc = "dav" => req'[t] = req[t]
    PROVE  CacheInv'
<1>1. UNCHANGED <<presence, caches>> BY DEF davState
<1>2. ASSUME NEW s \in Slots, req'[s].pc = "dav"
      PROVE  /\ req'[s].arg \in 1..Len(caches')
             /\ caches'[req'[s].arg] \subseteq {req'[s].h}
             /\ req'[s].arg = presence'.cache => req'[s].h = presence'.of
             /\ \A t \in Slots : req'[t].pc = "dav" /\ req'[t].arg = req'[s].arg => req'[t].h = req'[s].h
  <2>1. req'[s] = req[s] /\ req[s].pc = "dav" BY <1>2
  <2>2. ASSUME NEW t \in Slots, req'[t].pc = "dav", req'[t].arg = req'[s].arg
        PROVE  req'[t].h = req'[s].h
    <3>1. req'[t] = req[t] BY <2>2
    <3> QED BY <2>1, <2>2, <3>1 DEF CacheInv
  <2> QED BY <1>1, <2>1, <2>2 DEF CacheInv
<1>3. caches'[presence'.cache] \subseteq {presence'.of} BY <1>1 DEF CacheInv
<1> QED BY <1>2, <1>3 DEF CacheInv

LEMMA CacheInductive == CacheInv /\ [WebNext]_webVars => CacheInv'
<1> SUFFICES ASSUME CacheInv, [WebNext]_webVars PROVE CacheInv' OBVIOUS
<1>1. Types /\ Types' /\ Outline BY OutlineStep DEF CacheInv
<1>2. req \in [Slots -> Request] /\ Len(caches) \in Nat /\ caches \in Seq(SUBSET Nat)
      /\ presence.cache \in 1..Len(caches)
  BY <1>1 DEF Types
<1>3. CASE Plain
  <2>1. UNCHANGED davState BY <1>3 DEF Plain
  <2>2. ASSUME NEW t \in Slots, req'[t].pc = "dav" PROVE req'[t] = req[t]
    BY <1>2, <1>3, <2>2 DEF Plain, Follows
  <2> QED BY <1>1, <2>1, <2>2, CacheKept
<1>4. ASSUME NEW s \in Slots, Opens(s) PROVE CacheInv'
  <2>1. PICK p \in Paths, pc \in OpenStages, pend \in Pending : OpenHandle(s, p, pc, pend)
    BY <1>4 DEF Opens
  <2>2. Opened(pc, p, pend).pc = pc BY <1>1, OpenedFields
  <2>3. req' = [req EXCEPT ![s] = Opened(pc, p, pend)] /\ UNCHANGED davState
    BY <2>1, <1>4 DEF OpenHandle, Becomes, Opened, Opens
  <2>4. req'[s].pc # "dav" BY <1>2, <2>2, <2>3 DEF OpenStages, Adopting
  <2>5. \A t \in Slots : req'[t].pc = "dav" => req'[t] = req[t] BY <1>2, <2>3, <2>4
  <2> QED BY <1>1, <2>3, <2>5, CacheKept
<1>5. ASSUME NEW s \in Slots, Adopt(s) PROVE CacheInv'
  <2>1. req' = [req EXCEPT ![s] = Idle] /\ UNCHANGED davState
    BY <1>5 DEF Adopt, Answer, Becomes
  <2>2. \A t \in Slots : req'[t].pc = "dav" => req'[t] = req[t] BY <1>2, <2>1 DEF Idle
  <2> QED BY <1>1, <2>1, <2>2, CacheKept
<1>6. ASSUME NEW s \in Slots, DavSweep(s) PROVE CacheInv'
  <2>1. /\ req[s].pc = "dav" /\ req' = [req EXCEPT ![s] = Idle] /\ UNCHANGED presence
        /\ caches' = [caches EXCEPT ![req[s].arg] = IF @ = {} THEN {req[s].h} ELSE @]
    BY <1>6 DEF DavSweep, At, Answer, Becomes
  <2>2. req[s].arg \in 1..Len(caches) /\ caches[req[s].arg] \subseteq {req[s].h}
    BY <2>1 DEF CacheInv
  <2>3. Len(caches') = Len(caches) BY <1>1, <1>6, SweepTypes
  <2>4. /\ caches'[req[s].arg] \subseteq {req[s].h}
        /\ \A i \in 1..Len(caches) : i # req[s].arg => caches'[i] = caches[i]
    BY <1>2, <2>1, <2>2
  <2>5. \A t \in Slots : req'[t].pc = "dav" => req'[t] = req[t] BY <1>2, <2>1 DEF Idle
  <2>6. caches'[presence'.cache] \subseteq {presence'.of}
    <3>1. CASE presence.cache = req[s].arg
      <4>1. req[s].h = presence.of BY <2>1, <3>1 DEF CacheInv
      <4> QED BY <2>1, <2>4, <3>1, <4>1
    <3>2. CASE presence.cache # req[s].arg BY <1>2, <2>1, <2>4, <3>2 DEF CacheInv
    <3> QED BY <3>1, <3>2
  <2>7. ASSUME NEW u \in Slots, req'[u].pc = "dav"
        PROVE  /\ req'[u].arg \in 1..Len(caches')
               /\ caches'[req'[u].arg] \subseteq {req'[u].h}
               /\ req'[u].arg = presence'.cache => req'[u].h = presence'.of
               /\ \A t \in Slots : req'[t].pc = "dav" /\ req'[t].arg = req'[u].arg => req'[t].h = req'[u].h
    <3>1. req'[u] = req[u] /\ req[u].pc = "dav" BY <2>5, <2>7
    <3>2. req[u].arg \in 1..Len(caches) /\ caches[req[u].arg] \subseteq {req[u].h} BY <3>1 DEF CacheInv
    <3>3. caches'[req[u].arg] \subseteq {req[u].h}
      <4>1. CASE req[u].arg = req[s].arg
        <5>1. req[u].h = req[s].h BY <2>1, <3>1, <4>1 DEF CacheInv
        <5> QED BY <2>4, <4>1, <5>1
      <4>2. CASE req[u].arg # req[s].arg BY <2>4, <3>2, <4>2
      <4> QED BY <4>1, <4>2
    <3>4. ASSUME NEW t \in Slots, req'[t].pc = "dav", req'[t].arg = req'[u].arg
          PROVE  req'[t].h = req'[u].h
      <4>1. req'[t] = req[t] BY <2>5, <3>4
      <4> QED BY <3>1, <3>4, <4>1 DEF CacheInv
    <3>5. req[u].arg = presence.cache => req[u].h = presence.of BY <3>1 DEF CacheInv
    <3> QED BY <2>1, <2>3, <3>1, <3>2, <3>3, <3>4, <3>5
  <2> QED BY <1>1, <2>6, <2>7 DEF CacheInv
<1>7. ASSUME NEW s \in Slots, NEW tok \in Nat, handleWebDAV(s, tok) PROVE CacheInv'
  <2>1. /\ \/ UNCHANGED <<presence, caches>>
           \/ /\ caches' = Append(caches, {})
              /\ presence' = [cache |-> Len(caches) + 1, of |-> vault]
        /\ presence'.cache \in 1..Len(caches') /\ Len(caches) <= Len(caches')
        /\ \A i \in 1..Len(caches) : caches'[i] = caches[i]
        /\ presence'.cache \notin 1..Len(caches) => caches'[presence'.cache] = {}
        /\ vault # 0 => presence'.of = vault
        /\ \/ UNCHANGED req
           \/ tok = token /\ vault # 0 /\ req' = [req EXCEPT ![s] = DavRequest(presence'.cache, tok)]
    BY <1>1, <1>7, DavCache
  <2>2. \/ presence'.cache = presence.cache /\ presence'.of = presence.of
        \/ presence'.cache \notin 1..Len(caches)
    BY <1>2, <2>1
  <2>3. caches'[presence'.cache] \subseteq {presence'.of} BY <1>2, <2>1, <2>2 DEF CacheInv
  <2>4. Len(caches') \in Nat BY <1>1 DEF Types
  \* A request that was there keeps its cache; a new one shares only the server's.
  <2>5. ASSUME NEW u \in Slots, req[u].pc = "dav"
        PROVE  /\ req[u].arg \in 1..Len(caches')
               /\ caches'[req[u].arg] \subseteq {req[u].h}
               /\ req[u].arg = presence'.cache => req[u].h = presence'.of
    <3>1. req[u].arg \in 1..Len(caches) /\ caches[req[u].arg] \subseteq {req[u].h}
          /\ (req[u].arg = presence.cache => req[u].h = presence.of)
      BY <2>5 DEF CacheInv
    <3> QED BY <1>2, <2>1, <2>2, <2>4, <3>1
  <2>6. CASE UNCHANGED req
    BY <1>1, <2>3, <2>5, <2>6 DEF CacheInv
  <2>7. CASE vault # 0 /\ req' = [req EXCEPT ![s] = DavRequest(presence'.cache, tok)]
    <3> DEFINE r == DavRequest(presence'.cache, tok)
    <3>1. presence'.cache \in Nat BY <1>1 DEF Types
    <3>2. r.pc = "dav" /\ r.h = vault /\ r.arg = presence'.cache BY <1>1, <2>7, <3>1, DavRequestOK
    <3>3. req'[s] = r /\ \A t \in Slots \ {s} : req'[t] = req[t] BY <1>2, <2>7
    <3> HIDE DEF r
    <3>4. ASSUME NEW u \in Slots, req'[u].pc = "dav"
          PROVE  /\ req'[u].arg \in 1..Len(caches')
                 /\ caches'[req'[u].arg] \subseteq {req'[u].h}
                 /\ req'[u].arg = presence'.cache => req'[u].h = presence'.of
      <4>1. CASE u = s BY <2>1, <2>3, <2>7, <3>2, <3>3, <4>1
      <4>2. CASE u # s BY <2>5, <3>3, <3>4, <4>2
      <4> QED BY <4>1, <4>2
    <3>5. ASSUME NEW u \in Slots, NEW t \in Slots, req'[u].pc = "dav", req'[t].pc = "dav",
                 req'[t].arg = req'[u].arg
          PROVE  req'[t].h = req'[u].h
      <4>1. CASE u = s \/ t = s
        <5>1. req'[u].arg = presence'.cache BY <3>2, <3>3, <3>5, <4>1
        <5> QED BY <3>4, <3>5, <5>1
      <4>2. CASE u # s /\ t # s
        BY <3>3, <3>5, <4>2 DEF CacheInv
      <4> QED BY <4>1, <4>2
    <3> QED BY <1>1, <2>3, <3>4, <3>5 DEF CacheInv
  <2> QED BY <2>1, <2>6, <2>7
<1> QED BY <1>1, <1>3, <1>4, <1>5, <1>6, <1>7 DEF Outline

\* PresenceOwn: a presence cache made for one handle never answers for another
\* (server.go: handleWebDAV; localdav: openFileReader).
THEOREM SweepsStayHome == WebSpec => []PresenceOwn
<1>1. WebInit => CacheInv
  <2> SUFFICES ASSUME WebInit PROVE CacheInv OBVIOUS
  <2>1. Types BY TypesInit
  <2>2. \A s \in Slots : req[s].pc = "free" BY DEF WebInit, Idle
  <2>3. caches[presence.cache] = {} BY DEF WebInit
  <2> QED BY <2>1, <2>2, <2>3 DEF CacheInv
<1>2. CacheInv => PresenceOwn BY DEF CacheInv, PresenceOwn
<1> QED BY <1>1, <1>2, CacheInductive, PTL DEF WebSpec

-----------------------------------------------------------------------------
(* Every recovery entry, on disk or in a handle's copy of vault.json, is   *)
(* for a phrase that was typed back, and so is one about to be written.    *)

Covered(keys, phr) == \A e \in keys : e.phrase \in phr

KeyInv ==
    /\ Types
    /\ \A p \in Paths : Covered(disk[p].keys, typed)
    /\ \A i \in 1..Len(handles) : Covered(handles[i].keys, typed)
    /\ \A s \in Slots : req[s].pc \in {"commit", "cliCommit"} => req[s].pend.phrase \in typed

\* A step that neither writes a vault.json nor takes a phrase for typed.
LEMMA KeysUntouched ==
    ASSUME KeyInv, Types', UNCHANGED <<disk, handles>>, typed \subseteq typed',
           \A t \in Slots : req'[t].pc \in {"commit", "cliCommit"} =>
                               req'[t] = req[t] \/ req'[t].pend.phrase \in typed'
    PROVE  KeyInv'
<1>1. \A p \in Paths : Covered(disk'[p].keys, typed') BY DEF KeyInv, Covered
<1>2. \A i \in 1..Len(handles') : Covered(handles'[i].keys, typed') BY DEF KeyInv, Covered
<1>3. \A t \in Slots : req'[t].pc \in {"commit", "cliCommit"} => req'[t].pend.phrase \in typed'
  BY DEF KeyInv
<1> QED BY <1>1, <1>2, <1>3 DEF KeyInv

LEMMA KeysOpened ==
    ASSUME KeyInv, Types', NEW s \in Slots, NEW p \in Paths, NEW pc \in OpenStages, NEW pend \in Pending,
           OpenHandle(s, p, pc, pend), UNCHANGED keyState
    PROVE  KeyInv'
<1>0. Types BY DEF KeyInv
<1>1. /\ Len(handles') = Len(handles) + 1
      /\ \A i \in 1..Len(handles) : handles'[i] = handles[i]
      /\ handles'[Len(handles) + 1] = [path |-> p, keys |-> disk[p].keys, at |-> era]
      /\ Opened(pc, p, pend).pc = pc
  BY <1>0, Opening
<1>2. req' = [req EXCEPT ![s] = Opened(pc, p, pend)] BY DEF OpenHandle, Becomes, Opened
<1>3. UNCHANGED <<disk, typed>> BY DEF keyState
<1>4. Len(handles) \in Nat /\ req \in [Slots -> Request] BY <1>0, LenNat DEF Types
<1>5. ASSUME NEW i \in 1..Len(handles') PROVE Covered(handles'[i].keys, typed')
  <2>1. CASE i \in 1..Len(handles) BY <1>1, <1>3, <2>1 DEF KeyInv
  <2>2. CASE i = Len(handles) + 1 BY <1>1, <1>3, <2>2 DEF KeyInv
  <2> QED BY <1>1, <1>4, <1>5, <2>1, <2>2
<1>6. pc \notin {"commit", "cliCommit"} BY DEF OpenStages, Adopting
<1>7. ASSUME NEW t \in Slots, req'[t].pc \in {"commit", "cliCommit"} PROVE req'[t].pend.phrase \in typed'
  <2>1. t # s BY <1>1, <1>2, <1>4, <1>6, <1>7
  <2> QED BY <1>2, <1>3, <1>4, <1>7, <2>1 DEF KeyInv
<1>8. \A q \in Paths : Covered(disk'[q].keys, typed') BY <1>3 DEF KeyInv
<1> QED BY <1>5, <1>7, <1>8 DEF KeyInv

LEMMA KeysRewritten ==
    ASSUME KeyInv, Types', NEW h \in 1..Len(handles), NEW keys \in SUBSET RecoveryEntry, rewriteConfig(h, keys),
           Covered(keys, typed), UNCHANGED typed,
           \A t \in Slots : req'[t].pc \in {"commit", "cliCommit"} => req'[t] = req[t]
    PROVE  KeyInv'
<1>0. Types BY DEF KeyInv
<1>1. /\ Len(handles') = Len(handles)
      /\ \A i \in 1..Len(handles) : handles'[i].keys = handles[i].keys \/ handles'[i].keys = keys
      /\ \A p \in Paths : disk'[p].keys = disk[p].keys \/ disk'[p].keys = keys
  BY <1>0, Rewriting
<1>2. \A i \in 1..Len(handles') : Covered(handles'[i].keys, typed') BY <1>1 DEF KeyInv
<1>3. \A p \in Paths : Covered(disk'[p].keys, typed') BY <1>1 DEF KeyInv
<1>4. \A t \in Slots : req'[t].pc \in {"commit", "cliCommit"} => req'[t].pend.phrase \in typed'
  BY DEF KeyInv
<1> QED BY <1>2, <1>3, <1>4 DEF KeyInv

LEMMA KeyRequests == ASSUME KeyInv, Types', NEW s \in Slots, Requests(s) PROVE KeyInv'
<1>0. Types /\ req \in [Slots -> Request] BY DEF KeyInv, Types
<1>st. {"adopt", "verify", "rewrap", "revoke"} \subseteq OpenStages BY DEF OpenStages, Adopting
<1>1. ASSUME NEW p \in Paths, handleOpen(s, p) PROVE KeyInv'
  <2>1. OpenHandle(s, p, "adopt", NoPending) /\ UNCHANGED keyState BY <1>1 DEF handleOpen
  <2> QED BY <2>1, <1>st, NoPendingOK, KeysOpened
<1>2. ASSUME NEW p \in Paths, cmdPasswordChange(s, p) \/ cmdRecoveryRevoke(s, p) PROVE KeyInv'
  <2>1. PICK pc \in {"rewrap", "revoke"} : OpenHandle(s, p, pc, NoPending) /\ UNCHANGED keyState
    BY <1>2 DEF cmdPasswordChange, cmdRecoveryRevoke, openVaultForCLI
  <2> QED BY <2>1, <1>st, NoPendingOK, KeysOpened
<1>3. ASSUME NEW p \in Paths, vaultForVerify(s, p) PROVE KeyInv'
  <2>1. CASE OpenHandle(s, p, "verify", NoPending)
    <3>1. UNCHANGED keyState BY <1>3 DEF vaultForVerify
    <3> QED BY <2>1, <3>1, <1>st, NoPendingOK, KeysOpened
  <2>2. CASE Becomes(s, [Idle EXCEPT !.pc = "verify", !.h = vault, !.path = p]) /\ UNCHANGED handles
    <3> DEFINE r == [Idle EXCEPT !.pc = "verify", !.h = vault, !.path = p]
    <3>1. Idle \in Request BY IdleOK DEF SlotOK
    <3>2. r.pc = "verify" BY <3>1 DEF Request
    <3>3. req' = [req EXCEPT ![s] = r] BY <2>2 DEF Becomes
    <3> HIDE DEF r
    <3>4. \A t \in Slots : req'[t].pc \in {"commit", "cliCommit"} => req'[t] = req[t] BY <1>0, <3>2, <3>3
    <3>5. UNCHANGED <<disk, handles>> /\ typed \subseteq typed' BY <1>3, <2>2 DEF vaultForVerify, keyState
    <3> QED BY <3>4, <3>5, KeysUntouched
  <2> QED BY <1>3, <2>1, <2>2 DEF vaultForVerify
<1>4. ASSUME NEW r, NEW pc \in {"init", "setup", "moved"}, r.pc = pc, req' = [req EXCEPT ![s] = r],
             UNCHANGED <<handles, typed>>, \A q \in Paths : Covered(disk'[q].keys, typed)
      PROVE  KeyInv'
  <2>1. \A t \in Slots : req'[t].pc \in {"commit", "cliCommit"} => req'[t] = req[t] BY <1>0, <1>4
  <2>2. \A t \in Slots : req'[t].pc \in {"commit", "cliCommit"} => req'[t].pend.phrase \in typed'
    BY <1>4, <2>1 DEF KeyInv
  <2> QED BY <1>4, <2>2 DEF KeyInv
<1>id. Idle \in Request BY IdleOK DEF SlotOK
<1>5. ASSUME NEW p \in Paths, handleInit(s, p) \/ handleSetupRun(s, p) PROVE KeyInv'
  <2>1. PICK pc \in {"init", "setup"} : req' = [req EXCEPT ![s] = [Idle EXCEPT !.pc = pc, !.path = p]]
    BY <1>5 DEF handleInit, handleSetupRun, Becomes
  <2> DEFINE r == [Idle EXCEPT !.pc = pc, !.path = p]
  <2>2. r.pc = pc BY <1>id DEF Request
  <2>3. req' = [req EXCEPT ![s] = r] BY <2>1
  <2> HIDE DEF r
  <2>4. UNCHANGED <<handles, typed>> /\ disk' = [disk EXCEPT ![p].there = TRUE]
    BY <1>5 DEF handleInit, handleSetupRun, Create
  <2>5. \A q \in Paths : disk'[q].keys = disk[q].keys BY <1>0, <2>4 DEF Types
  <2>6. \A q \in Paths : Covered(disk'[q].keys, typed) BY <2>5 DEF KeyInv
  <2> QED BY <2>2, <2>3, <2>4, <2>6, <1>4
<1>6. ASSUME NEW p \in Paths, NEW q \in Paths, MoveFolder(s, p, q) PROVE KeyInv'
  <2> DEFINE r == [Idle EXCEPT !.pc = "moved", !.path = q, !.h = 0, !.arg = p]
  <2>1. req' = [req EXCEPT ![s] = r] BY <1>6 DEF MoveFolder, Becomes
  <2>2. r.pc = "moved" BY <1>id DEF Request
  <2> HIDE DEF r
  <2>3. UNCHANGED <<handles, typed>> /\ disk' = [disk EXCEPT ![q] = disk[p], ![p] = NoVault]
    BY <1>6 DEF MoveFolder
  <2>4. ASSUME NEW u \in Paths PROVE Covered(disk'[u].keys, typed)
    <3>1. disk'[u] \in {disk[u], disk[p], NoVault} BY <1>0, <2>3 DEF Types
    <3> QED BY <3>1 DEF KeyInv, NoVault, Covered
  <2> QED BY <2>1, <2>2, <2>3, <2>4, <1>4
<1>7. ASSUME NEW pc \in {"rewrap", "read", "upload"}, currentVault(s, pc), UNCHANGED <<keyState, handles>> PROVE KeyInv'
  <2> DEFINE r == [Idle EXCEPT !.pc = pc, !.h = vault]
  <2>1. r.pc = pc BY <1>id DEF Request
  <2>2. UNCHANGED req \/ req' = [req EXCEPT ![s] = r] BY <1>7 DEF currentVault, Becomes
  <2> HIDE DEF r
  <2>3. \A t \in Slots : req'[t].pc \in {"commit", "cliCommit"} => req'[t] = req[t] BY <1>0, <2>1, <2>2
  <2>4. UNCHANGED <<disk, handles>> /\ typed \subseteq typed' BY <1>7 DEF keyState
  <2> QED BY <2>3, <2>4, KeysUntouched
<1>8. CASE \/ handlePasswordChange(s)
           \/ handleFiles(s) \/ handleDownload(s) \/ handleExport(s) \/ handleExportZipDownload(s)
           \/ handleCompact(s) \/ handleGC(s) \/ handleRecoveryList(s)
           \/ handleUpload(s) \/ handleUploadPath(s) \/ handleFile(s)
  <2>1. PICK pc \in {"rewrap", "read", "upload"} : currentVault(s, pc) /\ UNCHANGED <<keyState, handles>>
    BY <1>8 DEF handlePasswordChange, handleFiles, handleDownload, handleExport, handleExportZipDownload,
                handleCompact, handleGC, handleRecoveryList, handleUpload, handleUploadPath, handleFile, Bound
  <2> QED BY <2>1, <1>7
<1>9. ASSUME UNCHANGED <<req, keyState, handles>> PROVE KeyInv'
  <2>1. UNCHANGED <<disk, handles>> /\ typed \subseteq typed' BY <1>9 DEF keyState
  <2> QED BY <1>9, <2>1, KeysUntouched
<1>10. CASE handleClose(s) \/ ResetRotates(s) BY <1>9, <1>10 DEF handleClose, ResetRotates
<1>11. ASSUME NEW j \in DOMAIN jobs, handleLargeImportCancel(s, j) PROVE KeyInv'
  BY <1>9, <1>11 DEF handleLargeImportCancel
<1>12. ASSUME NEW tok \in 0..token, handleWebDAV(s, tok) PROVE KeyInv'
  <2>1. UNCHANGED <<keyState, handles>> BY <1>12 DEF handleWebDAV
  <2>2. CASE UNCHANGED req BY <1>9, <2>1, <2>2
  <2>3. CASE vault # 0 /\ req' = [req EXCEPT ![s] = DavRequest(presence'.cache, tok)]
    <3>1. presence'.cache \in Nat /\ tok \in Nat BY <1>0 DEF Types
    <3>2. DavRequest(presence'.cache, tok).pc = "dav" BY <1>0, <2>3, <3>1, DavRequestOK
    <3>3. \A t \in Slots : req'[t].pc \in {"commit", "cliCommit"} => req'[t] = req[t] BY <1>0, <2>3, <3>2
    <3>4. UNCHANGED <<disk, handles>> /\ typed \subseteq typed' BY <2>1 DEF keyState
    <3> QED BY <3>3, <3>4, KeysUntouched
  <2> QED BY <1>0, <1>12, <2>2, <2>3, DavCache
<1> QED BY <1>1, <1>2, <1>3, <1>5, <1>6, <1>8, <1>10, <1>11, <1>12 DEF Requests

LEMMA KeyContinues == ASSUME KeyInv, Types', NEW s \in Slots, Continues(s) PROVE KeyInv'
<1>0. Types /\ req \in [Slots -> Request] BY DEF KeyInv, Types
<1>st. {"adopt", "adoptKeepPending"} \subseteq OpenStages BY DEF OpenStages, Adopting
<1>sl. /\ req[s] \in Request /\ SlotOK(req[s], Len(handles))
       /\ req[s].pc \in Binding => req[s].h \in 1..Len(handles)
  BY <1>0, SlotHandle
<1>cv. ASSUME NEW h \in 1..Len(handles) PROVE handles[h].keys \in SUBSET RecoveryEntry /\ Covered(handles[h].keys, typed)
  BY <1>0, HandleKeys DEF KeyInv
\* The request is answered, or goes on to a stage that is no commit.
<1>id. Answer(s) => \A t \in Slots : req'[t].pc \in {"commit", "cliCommit"} => req'[t] = req[t]
  BY <1>0 DEF Answer, Becomes, Idle
<1>go. ASSUME NEW pc \in {"reopen", "forget", "io"}, Goto(s, pc)
       PROVE  \A t \in Slots : req'[t].pc \in {"commit", "cliCommit"} => req'[t] = req[t]
  <2>1. req' = [req EXCEPT ![s] = [req[s] EXCEPT !.pc = pc]] BY <1>go DEF Goto
  <2>2. [req[s] EXCEPT !.pc = pc].pc = pc BY <1>sl DEF Request
  <2> QED BY <1>0, <2>1, <2>2
<1>an. ASSUME Answer(s) \/ (\E pc \in {"reopen", "forget", "io"} : Goto(s, pc)), UNCHANGED <<keyState, handles>> PROVE KeyInv'
  <2>1. UNCHANGED <<disk, handles>> /\ typed \subseteq typed' BY <1>an DEF keyState
  <2> QED BY <1>an, <1>id, <1>go, <2>1, KeysUntouched
<1>1. CASE OpenCreated(s)
  <2>1. UNCHANGED keyState BY <1>1 DEF OpenCreated
  <2>2. req[s].path \in Paths BY <1>1, <1>sl DEF OpenCreated, At, SlotOK, Placed
  <2>3. CASE Answer(s) /\ UNCHANGED handles BY <2>1, <2>3, <1>an
  <2>4. CASE \E pc \in {"adopt", "adoptKeepPending"} : OpenHandle(s, req[s].path, pc, NoPending)
    BY <2>1, <2>2, <2>4, <1>st, NoPendingOK, KeysOpened
  <2> QED BY <1>1, <2>3, <2>4 DEF OpenCreated
<1>2. CASE Adopt(s)
  <2>1. /\ handles' = [handles EXCEPT ![req[s].h].at = era]
        /\ Answer(s) /\ UNCHANGED <<disk, typed>>
    BY <1>2 DEF Adopt, keyState
  <2>2. Len(handles') = Len(handles) BY <1>0, <1>2, AdoptTypes
  <2>3. \A i \in 1..Len(handles) : handles[i] \in Handle BY <1>0 DEF Types
  <2>4. \A i \in 1..Len(handles) : handles'[i].keys = handles[i].keys
    <3>1. handles \in Seq(Handle) BY <1>0 DEF Types
    <3> QED BY <2>1, <2>3, <3>1 DEF Handle
  <2>5. \A i \in 1..Len(handles') : Covered(handles'[i].keys, typed') BY <2>1, <2>2, <2>4 DEF KeyInv
  <2>6. \A p \in Paths : Covered(disk'[p].keys, typed') BY <2>1 DEF KeyInv
  <2>7. \A t \in Slots : req'[t].pc \in {"commit", "cliCommit"} => req'[t].pend.phrase \in typed'
    BY <2>1, <1>id DEF KeyInv
  <2> QED BY <2>5, <2>6, <2>7 DEF KeyInv
<1>3. CASE MoveDetach(s)
  BY <1>3, <1>an DEF MoveDetach
<1>4. CASE MoveReopen(s)
  <2>1. UNCHANGED keyState BY <1>4 DEF MoveReopen
  <2>2. req[s].path \in Paths BY <1>4, <1>sl DEF MoveReopen, At, SlotOK, Placed
  <2>3. CASE Answer(s) /\ UNCHANGED handles BY <2>1, <2>3, <1>an
  <2>4. CASE OpenHandle(s, req[s].path, "adoptKeepPending", NoPending)
    BY <2>1, <2>2, <2>4, <1>st, NoPendingOK, KeysOpened
  <2> QED BY <1>4, <2>3, <2>4 DEF MoveReopen
<1>5. CASE handleVerify(s) \/ KeyError(s) \/ CommitForgets(s) \/ LockMu(s) \/ VaultIO(s)
  BY <1>5, <1>an DEF handleVerify, KeyError, CommitForgets, LockMu, VaultIO
<1>6. CASE ChangePassword(s)
  <2>1. /\ req[s].h \in 1..Len(handles) /\ rewriteConfig(req[s].h, handles[req[s].h].keys)
        /\ Answer(s) /\ UNCHANGED typed
    BY <1>6, <1>sl DEF ChangePassword, At, Binding
  <2> QED BY <2>1, <1>cv, <1>id, KeysRewritten
<1>7. CASE CommitWrite(s)
  <2> DEFINE pend == req[s].pend
             keys == handles[pend.h].keys \cup {Entry(pend)}
  <2>1. req[s].pc \in {"commit", "cliCommit"} BY <1>7 DEF CommitWrite
  <2>2. pend \in Pending /\ pend.h \in 1..Len(handles)
    BY <1>sl, <2>1 DEF SlotOK, Minted, Request
  <2>3. Entry(pend) \in RecoveryEntry /\ Entry(pend).phrase \in typed
    <3>1. pend.phrase \in typed BY <2>1 DEF KeyInv
    <3> QED BY <1>0, <2>2, <3>1 DEF Entry, RecoveryEntry, Pending, Types
  <2>4. keys \in SUBSET RecoveryEntry /\ Covered(keys, typed)
    BY <2>2, <2>3, <1>cv DEF Covered
  <2>5. rewriteConfig(pend.h, keys) /\ UNCHANGED typed /\ (Goto(s, "forget") \/ Answer(s))
    BY <1>7 DEF CommitWrite
  <2> HIDE DEF keys, pend
  <2> QED BY <2>2, <2>4, <2>5, <1>id, <1>go, KeysRewritten
<1>8. CASE RevokeRecovery(s)
  <2> DEFINE keys == handles[req[s].h].keys
             kept == {e \in keys : e.id # req[s].arg}
  <2>1. req[s].h \in 1..Len(handles) /\ Answer(s) /\ UNCHANGED <<phrases, typed, entries>>
    BY <1>8, <1>sl DEF RevokeRecovery, At, Binding
  <2>2. CASE UNCHANGED <<disk, handles>> BY <2>1, <2>2, <1>an DEF keyState
  <2>3. CASE rewriteConfig(req[s].h, kept)
    <3>1. kept \in SUBSET RecoveryEntry /\ Covered(kept, typed) BY <2>1, <1>cv DEF Covered
    <3> HIDE DEF kept
    <3> QED BY <2>1, <2>3, <3>1, <1>id, KeysRewritten
  <2> QED BY <1>8, <2>2, <2>3 DEF RevokeRecovery
<1>9. CASE DavSweep(s) BY <1>9, <1>an DEF DavSweep
<1> QED BY <1>1, <1>2, <1>3, <1>4, <1>5, <1>6, <1>7, <1>8, <1>9 DEF Continues

LEMMA KeyStaged == ASSUME KeyInv, Types', NEW s \in Slots, Staged(s) PROVE KeyInv'
<1>0. Types /\ req \in [Slots -> Request] BY DEF KeyInv, Types
<1>st. {"cliMint", "redeem", "cliRedeem"} \subseteq OpenStages BY DEF OpenStages, Adopting
<1>sl. /\ req[s] \in Request /\ SlotOK(req[s], Len(handles))
       /\ req[s].pc \in Binding => req[s].h \in 1..Len(handles)
  BY <1>0, SlotHandle
<1>id. Answer(s) => \A t \in Slots : req'[t].pc \in {"commit", "cliCommit"} => req'[t] = req[t]
  BY <1>0 DEF Answer, Becomes, Idle
<1>pc. ASSUME NEW r, r.pc \notin {"commit", "cliCommit"}, req' = [req EXCEPT ![s] = r]
       PROVE  \A t \in Slots : req'[t].pc \in {"commit", "cliCommit"} => req'[t] = req[t]
  BY <1>0, <1>pc
<1>cu. ASSUME NEW pc \in {"mint", "take", "import", "revoke"}, currentVault(s, pc)
       PROVE  \A t \in Slots : req'[t].pc \in {"commit", "cliCommit"} => req'[t] = req[t]
  <2> DEFINE r == [Idle EXCEPT !.pc = pc, !.h = vault]
  <2>1. Idle \in Request BY IdleOK DEF SlotOK
  <2>2. r.pc = pc BY <2>1 DEF Request
  <2>3. UNCHANGED req \/ req' = [req EXCEPT ![s] = r] BY <1>cu DEF currentVault, Becomes
  <2> HIDE DEF r
  <2> QED BY <1>0, <2>2, <2>3
<1>mi. ASSUME NEW pc \in {"park", "cliTyped"}, PrepareRecovery(s, pc)
       PROVE  \A t \in Slots : req'[t].pc \in {"commit", "cliCommit"} => req'[t] = req[t]
  <2> DEFINE pend == [phrase |-> phrases + 1, h |-> req[s].h]
             r == [req[s] EXCEPT !.pc = pc, !.pend = pend]
  <2>1. req' = [req EXCEPT ![s].pc = pc, ![s].pend = pend] BY <1>mi DEF PrepareRecovery
  <2> HIDE DEF pend
  <2>2. req' = [req EXCEPT ![s] = r] BY <2>1, <1>0
  <2>3. r.pc = pc BY <1>sl DEF Request
  <2> HIDE DEF r
  <2> QED BY <2>2, <2>3, <1>pc
<1>1. CASE handleRecoveryGenerate(s)
  <2>1. UNCHANGED <<disk, handles>> /\ typed \subseteq typed' BY <1>1 DEF handleRecoveryGenerate
  <2>2. \A t \in Slots : req'[t].pc \in {"commit", "cliCommit"} => req'[t] = req[t]
    BY <1>1, <1>cu, <1>mi, <1>id DEF handleRecoveryGenerate
  <2> QED BY <2>1, <2>2, KeysUntouched
<1>2. CASE handleLargeImportStart(s)
  <2>1. UNCHANGED <<disk, handles>> /\ typed \subseteq typed' BY <1>2 DEF handleLargeImportStart, keyState
  <2>2. \A t \in Slots : req'[t].pc \in {"commit", "cliCommit"} => req'[t] = req[t]
    BY <1>2, <1>cu, <1>id DEF handleLargeImportStart
  <2> QED BY <2>1, <2>2, KeysUntouched
<1>3. ASSUME NEW text \in 0..phrases, handleRecoveryCommit(s, text) PROVE KeyInv'
  <2>1. UNCHANGED <<disk, handles>> /\ typed \subseteq typed' BY <1>3 DEF handleRecoveryCommit
  <2>2. CASE currentVault(s, "take") BY <2>1, <2>2, <1>cu, KeysUntouched
  <2>3. CASE Answer(s) BY <2>1, <2>3, <1>id, KeysUntouched
  <2>4. CASE /\ pending.phrase = text /\ typed' = typed \cup {text}
             /\ req' = [req EXCEPT ![s].pc = "commit", ![s].pend = pending]
    <3> DEFINE r == [req[s] EXCEPT !.pc = "commit", !.pend = pending]
    <3>1. req' = [req EXCEPT ![s] = r] BY <2>4, <1>0
    <3>2. r.pend = pending BY <1>sl DEF Request
    <3> HIDE DEF r
    <3>3. \A t \in Slots : req'[t] = req[t] \/ req'[t].pend.phrase \in typed'
      BY <1>0, <2>4, <3>1, <3>2
    <3> QED BY <2>1, <3>3, KeysUntouched
  <2> QED BY <1>3, <2>2, <2>3, <2>4 DEF handleRecoveryCommit
<1>4. ASSUME NEW id \in 0..entries, NEW confirm \in BOOLEAN, handleRecoveryRevoke(s, id, confirm) PROVE KeyInv'
  <2>1. UNCHANGED <<disk, handles>> /\ typed \subseteq typed' BY <1>4 DEF handleRecoveryRevoke, keyState
  <2>2. CASE currentVault(s, "revoke") BY <2>1, <2>2, <1>cu, KeysUntouched
  <2>3. CASE Answer(s) BY <2>1, <2>3, <1>id, KeysUntouched
  <2>4. CASE req' = [req EXCEPT ![s].pc = "strike", ![s].arg = id]
    <3> DEFINE r == [req[s] EXCEPT !.pc = "strike", !.arg = id]
    <3>1. req' = [req EXCEPT ![s] = r] BY <2>4, <1>0
    <3>2. r.pc = "strike" BY <1>sl DEF Request
    <3> HIDE DEF r
    <3> QED BY <2>1, <3>1, <3>2, <1>pc, KeysUntouched
  <2> QED BY <1>4, <2>2, <2>3, <2>4 DEF handleRecoveryRevoke
<1>5. ASSUME NEW p \in Paths, cmdRecoveryGenerate(s, p) PROVE KeyInv'
  <2>1. CASE openVaultForCLI(s, p, "cliMint")
    <3>1. OpenHandle(s, p, "cliMint", NoPending) /\ UNCHANGED keyState BY <2>1 DEF openVaultForCLI
    <3> QED BY <3>1, <1>st, NoPendingOK, KeysOpened
  <2>2. CASE PrepareRecovery(s, "cliTyped") /\ UNCHANGED <<disk, typed, handles>>
    BY <2>2, <1>mi, KeysUntouched
  <2>3. CASE Answer(s) /\ UNCHANGED <<typed, disk, handles>>
    BY <2>3, <1>id, KeysUntouched
  <2>4. CASE /\ typed' = typed \cup {req[s].pend.phrase} /\ Goto(s, "cliCommit")
             /\ UNCHANGED <<disk, handles>>
    <3> DEFINE r == [req[s] EXCEPT !.pc = "cliCommit"]
    <3>1. req' = [req EXCEPT ![s] = r] BY <2>4 DEF Goto
    <3>2. r.pend = req[s].pend BY <1>sl DEF Request
    <3> HIDE DEF r
    <3>3. \A t \in Slots : req'[t] = req[t] \/ req'[t].pend.phrase \in typed'
      BY <1>0, <2>4, <3>1, <3>2
    <3> QED BY <2>4, <3>3, KeysUntouched
  <2> QED BY <1>5, <2>1, <2>2, <2>3, <2>4 DEF cmdRecoveryGenerate
<1>6. ASSUME NEW p \in Paths, NEW text \in 1..phrases,
             handleRecoveryRedeem(s, p, text) \/ cmdRecoveryRedeem(s, p, text)
      PROVE  KeyInv'
  <2> DEFINE pend == [NoPending EXCEPT !.phrase = text]
             K == handles[req[s].h].keys
             keys == K \ {CHOOSE e \in K : e.phrase = text}
  <2>0. UNCHANGED <<phrases, typed, entries>> BY <1>6 DEF handleRecoveryRedeem, cmdRecoveryRedeem
  <2>1. CASE /\ \E pc \in {"redeem", "cliRedeem"} : OpenHandle(s, p, pc, pend)
             /\ UNCHANGED disk
    <3>1. UNCHANGED keyState BY <2>0, <2>1 DEF keyState
    <3>a. phrases \in Nat BY <1>0 DEF Types
    <3>2. pend \in Pending BY <3>a DEF NoPending, Pending
    <3> HIDE DEF pend
    <3> QED BY <2>1, <3>1, <3>2, <1>st, KeysOpened
  <2>2. CASE /\ req[s].pc \in {"redeem", "cliRedeem"} /\ rewriteConfig(req[s].h, keys)
             /\ Answer(s) \/ Goto(s, "adopt")
    <3>1. req[s].h \in 1..Len(handles) BY <2>2, <1>sl DEF Binding, Adopting
    <3>2. K \in SUBSET RecoveryEntry /\ Covered(K, typed) BY <1>0, <3>1, HandleKeys DEF KeyInv
    <3>3. keys \in SUBSET RecoveryEntry /\ Covered(keys, typed) BY <3>2 DEF Covered
    <3> HIDE DEF keys
    <3>4. \A t \in Slots : req'[t].pc \in {"commit", "cliCommit"} => req'[t] = req[t]
      <4>1. CASE Answer(s) BY <4>1, <1>id
      <4>2. CASE Goto(s, "adopt")
        <5> DEFINE r == [req[s] EXCEPT !.pc = "adopt"]
        <5>1. req' = [req EXCEPT ![s] = r] BY <4>2 DEF Goto
        <5>2. r.pc = "adopt" BY <1>sl DEF Request
        <5> HIDE DEF r
        <5> QED BY <5>1, <5>2, <1>pc
      <4> QED BY <2>2, <4>1, <4>2
    <3> QED BY <2>0, <2>2, <3>1, <3>3, <3>4, KeysRewritten
  <2> QED BY <1>6, <2>1, <2>2 DEF handleRecoveryRedeem, cmdRecoveryRedeem, At
<1> QED BY <1>1, <1>2, <1>3, <1>4, <1>5, <1>6 DEF Staged

\* ReadBackFirst: no recovery entry is written for a phrase nobody typed back,
\* whatever pending phrase, handle and command meet (server.go:
\* handleRecoveryCommit; main.go: recovery generate).
THEOREM PhrasesAreReadBack == WebSpec => []ReadBackFirst
<1>1. WebInit => KeyInv
  <2> SUFFICES ASSUME WebInit PROVE KeyInv OBVIOUS
  <2>1. Types BY TypesInit
  <2>2. Len(handles) = 0 /\ \A s \in Slots : req[s].pc = "free" BY DEF WebInit, Idle
  <2>3. \A p \in Paths : disk[p].keys = {} BY DEF WebInit
  <2> QED BY <2>1, <2>2, <2>3 DEF KeyInv, Covered
<1>2. KeyInv /\ [WebNext]_webVars => KeyInv'
  <2> SUFFICES ASSUME KeyInv, [WebNext]_webVars PROVE KeyInv' OBVIOUS
  <2>1. Types' BY OutlineStep DEF KeyInv
  <2>2. ASSUME UNCHANGED <<req, keyState, handles>> PROVE KeyInv'
    <3>1. UNCHANGED <<disk, handles>> /\ typed \subseteq typed' BY <2>2 DEF keyState
    <3> QED BY <2>1, <2>2, <3>1, KeysUntouched
  <2>3. ASSUME NEW j \in DOMAIN jobs, ImportStep(j) PROVE KeyInv'
    BY <2>2, <2>3 DEF ImportStep, ImportBegin, ImportEntry, ImportPut
  <2>4. CASE UNCHANGED webVars BY <2>2, <2>4 DEF webVars
  <2> QED BY <2>1, <2>3, <2>4, KeyRequests, KeyContinues, KeyStaged DEF WebNext
<1>3. KeyInv => ReadBackFirst BY DEF KeyInv, Covered, ReadBackFirst
<1> QED BY <1>1, <1>2, <1>3, PTL DEF WebSpec

-----------------------------------------------------------------------------
(* A job that put a file after it was cancelled puts no other: it is back  *)
(* at the walk, which asks first, or over.                                 *)

Job == [h : Nat, pc : {"queued", "walk", "put", "failed", "cancelled", "completed"},
        files : Nat, cancelled : BOOLEAN, after : Nat]

LastPut(job) == /\ job.after = 0 \/ job.after = 1
                /\ job.after = 1 => job.cancelled /\ job.pc \in {"walk", "cancelled", "completed"}

JobInv ==
    /\ Types
    /\ jobs \in Seq(Job)
    /\ \A j \in 1..Len(jobs) : LastPut(jobs[j])

LEMMA JobChanged ==
    ASSUME JobInv, Types', NEW j \in DOMAIN jobs, NEW job \in Job, LastPut(job),
           jobs' = [jobs EXCEPT ![j] = job]
    PROVE  JobInv'
<1>1. jobs \in Seq(Job) /\ j \in 1..Len(jobs) BY DEF JobInv
<1>2. jobs' \in Seq(Job) /\ Len(jobs') = Len(jobs) BY <1>1
<1>3. \A i \in 1..Len(jobs) : jobs'[i] = IF i = j THEN job ELSE jobs[i] BY <1>1
<1> QED BY <1>2, <1>3 DEF JobInv

LEMMA JobInductive == JobInv /\ [WebNext]_webVars => JobInv'
<1> SUFFICES ASSUME JobInv, [WebNext]_webVars PROVE JobInv' OBVIOUS
<1>1. Types /\ Types' BY OutlineStep DEF JobInv
<1>2. CASE UNCHANGED jobs BY <1>1, <1>2 DEF JobInv
<1>jb. ASSUME NEW j \in DOMAIN jobs PROVE jobs[j] \in Job /\ LastPut(jobs[j])
  BY DEF JobInv
<1>3. ASSUME NEW s \in Slots, Requests(s) PROVE JobInv'
  <2>1. ASSUME NEW j \in DOMAIN jobs, handleLargeImportCancel(s, j) PROVE JobInv'
    <3> DEFINE job == [jobs[j] EXCEPT !.cancelled = TRUE]
    <3>1. jobs' = [jobs EXCEPT ![j] = job] BY <2>1 DEF handleLargeImportCancel
    <3>2. job \in Job /\ job.after = jobs[j].after /\ job.pc = jobs[j].pc /\ job.cancelled
      BY <1>jb DEF Job
    <3> HIDE DEF job
    <3>3. LastPut(job) BY <1>jb, <3>2 DEF LastPut
    <3> QED BY <1>1, <3>1, <3>2, <3>3, JobChanged
  <2>2. CASE \E p \in Paths : \/ handleOpen(s, p) \/ handleInit(s, p) \/ handleSetupRun(s, p)
                              \/ vaultForVerify(s, p) \/ cmdPasswordChange(s, p) \/ cmdRecoveryRevoke(s, p)
    <3>1. UNCHANGED jobs
      BY <2>2 DEF handleOpen, handleInit, handleSetupRun, Create, vaultForVerify, cmdPasswordChange,
                  cmdRecoveryRevoke, openVaultForCLI
    <3> QED BY <1>2, <3>1
  <2>3. CASE \/ \E p, q \in Paths : MoveFolder(s, p, q)
             \/ handleClose(s) \/ ResetRotates(s) \/ \E tok \in 0..token : handleWebDAV(s, tok)
    <3>1. UNCHANGED jobs BY <2>3 DEF MoveFolder, handleClose, ResetRotates, handleWebDAV
    <3> QED BY <1>2, <3>1
  <2>4. CASE \/ handlePasswordChange(s)
             \/ handleFiles(s) \/ handleDownload(s) \/ handleExport(s) \/ handleExportZipDownload(s)
             \/ handleCompact(s) \/ handleGC(s) \/ handleRecoveryList(s)
             \/ handleUpload(s) \/ handleUploadPath(s) \/ handleFile(s)
    <3>1. UNCHANGED jobs
      BY <2>4 DEF handlePasswordChange, handleFiles, handleDownload, handleExport, handleExportZipDownload,
                  handleCompact, handleGC, handleRecoveryList, handleUpload, handleUploadPath, handleFile, Bound
    <3> QED BY <1>2, <3>1
  <2> QED BY <1>3, <2>1, <2>2, <2>3, <2>4 DEF Requests
<1>4. ASSUME NEW s \in Slots, Continues(s) PROVE JobInv'
  <2>1. UNCHANGED jobs
    BY <1>4 DEF Continues, OpenCreated, Adopt, MoveDetach, MoveReopen, handleVerify, ChangePassword,
                CommitWrite, KeyError, CommitForgets, RevokeRecovery, LockMu, VaultIO, DavSweep
  <2> QED BY <1>2, <2>1
<1>5. ASSUME NEW s \in Slots, Staged(s) PROVE JobInv'
  <2>1. CASE handleLargeImportStart(s)
    <3>1. CASE UNCHANGED jobs BY <1>2, <3>1
    <3>2. CASE \E n \in 1..MaxEntries :
                  jobs' = Append(jobs, [h |-> req[s].h, pc |-> "queued", files |-> n,
                                        cancelled |-> FALSE, after |-> 0])
      <4>1. PICK n \in 1..MaxEntries :
                  jobs' = Append(jobs, [h |-> req[s].h, pc |-> "queued", files |-> n,
                                        cancelled |-> FALSE, after |-> 0])
        BY <3>2
      <4> DEFINE job == [h |-> req[s].h, pc |-> "queued", files |-> n, cancelled |-> FALSE, after |-> 0]
      <4>2. req[s].h \in Nat /\ n \in Nat BY <1>1, WebVaultAssumption DEF Types, Request
      <4>3. job \in Job /\ job.after = 0 BY <4>2 DEF Job
      <4>4. jobs' = Append(jobs, job) BY <4>1
      <4>5. LastPut(job) BY <4>3 DEF LastPut
      <4> HIDE DEF job
      <4>6. jobs \in Seq(Job) BY DEF JobInv
      <4>7. /\ jobs' \in Seq(Job) /\ Len(jobs') = Len(jobs) + 1 /\ jobs'[Len(jobs) + 1] = job
            /\ \A i \in 1..Len(jobs) : jobs'[i] = jobs[i]
        BY <4>3, <4>4, <4>6
      <4>8. ASSUME NEW i \in 1..Len(jobs') PROVE LastPut(jobs'[i])
        <5>1. CASE i \in 1..Len(jobs) BY <4>7, <5>1 DEF JobInv
        <5>2. CASE i = Len(jobs) + 1 BY <4>5, <4>7, <5>2
        <5> QED BY <4>6, <4>7, <4>8, <5>1, <5>2
      <4> QED BY <1>1, <4>7, <4>8 DEF JobInv
    <3> QED BY <2>1, <3>1, <3>2 DEF handleLargeImportStart
  <2>2. CASE \/ handleRecoveryGenerate(s)
             \/ \E text \in 0..phrases : handleRecoveryCommit(s, text)
             \/ \E id \in 0..entries, confirm \in BOOLEAN : handleRecoveryRevoke(s, id, confirm)
             \/ \E p \in Paths : cmdRecoveryGenerate(s, p)
             \/ \E p \in Paths, text \in 1..phrases :
                   handleRecoveryRedeem(s, p, text) \/ cmdRecoveryRedeem(s, p, text)
    <3>1. UNCHANGED jobs
      BY <2>2 DEF handleRecoveryGenerate, handleRecoveryCommit, handleRecoveryRevoke, cmdRecoveryGenerate,
                  openVaultForCLI, handleRecoveryRedeem, cmdRecoveryRedeem
    <3> QED BY <1>2, <3>1
  <2> QED BY <1>5, <2>1, <2>2 DEF Staged
<1>6. ASSUME NEW j \in DOMAIN jobs, ImportStep(j) PROVE JobInv'
  <2>1. ASSUME NEW pc \in {"walk", "failed", "completed", "cancelled"}, jobs[j].pc \in {"queued", "walk"},
               jobs[j].pc = "queued" \/ pc \in {"completed", "cancelled"},
               jobs' = [jobs EXCEPT ![j].pc = pc]
        PROVE  JobInv'
    <3> DEFINE job == [jobs[j] EXCEPT !.pc = pc]
    <3>1. jobs' = [jobs EXCEPT ![j] = job] BY <2>1
    <3>2. job \in Job /\ job.after = jobs[j].after /\ job.pc = pc /\ job.cancelled = jobs[j].cancelled
      BY <1>jb DEF Job
    <3> HIDE DEF job
    <3>3. LastPut(job) BY <1>jb, <2>1, <3>2 DEF LastPut
    <3> QED BY <1>1, <3>1, <3>2, <3>3, JobChanged
  <2>2. CASE ImportBegin(j) BY <2>1, <2>2 DEF ImportBegin
  <2>3. CASE ImportEntry(j)
    <3>1. CASE jobs[j].files = 0 \/ jobs[j].cancelled
      BY <2>1, <2>3, <3>1 DEF ImportEntry
    <3>2. CASE jobs[j].files # 0 /\ ~jobs[j].cancelled
      <4>1. PICK pc \in {"walk", "put"} : jobs' = [jobs EXCEPT ![j].pc = pc, ![j].files = @ - 1]
        BY <2>3, <3>2 DEF ImportEntry
      <4> DEFINE job == [jobs[j] EXCEPT !.pc = pc, !.files = @ - 1]
      <4>2. jobs \in Seq(Job) BY DEF JobInv
      <4>3. jobs' = [jobs EXCEPT ![j] = job] BY <1>jb, <4>1, <4>2 DEF Job
      <4>4. jobs[j].files - 1 \in Nat BY <1>jb, <3>2 DEF Job
      <4>5. job \in Job /\ job.after = jobs[j].after
        BY <1>jb, <4>4 DEF Job
      <4> HIDE DEF job
      <4>6. LastPut(job) BY <1>jb, <3>2, <4>5 DEF LastPut
      <4> QED BY <1>1, <4>3, <4>5, <4>6, JobChanged
    <3> QED BY <3>1, <3>2
  <2>4. CASE ImportPut(j)
    <3>1. /\ jobs[j].pc = "put"
          /\ jobs' = [jobs EXCEPT ![j].pc = "walk", ![j].after = IF jobs[j].cancelled THEN @ + 1 ELSE @]
      BY <2>4 DEF ImportPut
    <3> DEFINE n == IF jobs[j].cancelled THEN jobs[j].after + 1 ELSE jobs[j].after
               job == [jobs[j] EXCEPT !.pc = "walk", !.after = n]
    <3>2. jobs[j].after = 0 BY <1>jb, <3>1 DEF LastPut
    <3>3. n \in Nat /\ (n = 0 \/ (n = 1 /\ jobs[j].cancelled)) BY <3>2
    <3>4. jobs \in Seq(Job) BY DEF JobInv
    <3>5. jobs' = [jobs EXCEPT ![j] = job] BY <1>jb, <3>1, <3>4 DEF Job
    <3> HIDE DEF n
    <3>6. job \in Job /\ job.after = n /\ job.pc = "walk" /\ job.cancelled = jobs[j].cancelled
      BY <1>jb, <3>3 DEF Job
    <3> HIDE DEF job
    <3>7. LastPut(job) BY <3>3, <3>6 DEF LastPut
    <3> QED BY <1>1, <3>5, <3>6, <3>7, JobChanged
  <2> QED BY <1>6, <2>2, <2>3, <2>4 DEF ImportStep
<1>7. CASE UNCHANGED webVars BY <1>2, <1>7 DEF webVars
<1> QED BY <1>3, <1>4, <1>5, <1>6, <1>7 DEF WebNext

\* CancelStops: after a cancel an import puts at most the file that was under
\* way (importer.go: ImportPath; server.go: handleLargeImportCancel).
THEOREM CancelIsHeard == WebSpec => []CancelStops
<1>1. WebInit => JobInv
  <2> SUFFICES ASSUME WebInit PROVE JobInv OBVIOUS
  <2>1. Types BY TypesInit
  <2>2. jobs = <<>> BY DEF WebInit
  <2>3. jobs \in Seq(Job) /\ Len(jobs) = 0 BY <2>2
  <2> QED BY <2>1, <2>3 DEF JobInv
<1>2. JobInv => CancelStops
  <2> SUFFICES ASSUME JobInv, NEW j \in DOMAIN jobs PROVE jobs[j].after <= 1 BY DEF CancelStops
  <2>1. LastPut(jobs[j]) BY DEF JobInv
  <2> QED BY <2>1 DEF LastPut
<1> QED BY <1>1, <1>2, JobInductive, PTL DEF WebSpec

=============================================================================
