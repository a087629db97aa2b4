----------------------------- MODULE VaultHome -----------------------------
(***************************************************************************)
(* What moving and creating vault folders promises, without the steps: a   *)
(* vault is complete in the folders places[v]; it may be copied, it may    *)
(* change folder in one step, a copy may be given up while another one is  *)
(* left; the last complete copy disappears only from a folder the user has *)
(* agreed to clear, or from one that was found empty, is about to be       *)
(* removed, and got its vault in between.  Two vaults never share a folder.*)
(***************************************************************************)
CONSTANTS Vaults, Dirs

VARIABLES places,   \* for each vault, the folders that hold it complete
          asked,    \* the folders the user has just agreed to clear
          condemned \* the folders found without a vault, about to be removed

Free(d) == \A v \in Vaults : d \notin places[v]

HomeInit ==
    /\ places \in [Vaults -> SUBSET Dirs]
    /\ \A v, w \in Vaults : v # w => places[v] \cap places[w] = {}
    /\ asked = {} /\ condemned = {}

\* Consent is given, used up or withdrawn, a folder without a vault is condemned
\* or spared; no folder changes.
Consent ==
    /\ asked' \in SUBSET Dirs
    /\ condemned' \in SUBSET (condemned \cup {d \in Dirs : Free(d)})
    /\ UNCHANGED places

\* A new vault appears, complete at once, in a folder that held none.
Appear(v, d) ==
    /\ places[v] = {}
    /\ Free(d)
    /\ places' = [places EXCEPT ![v] = {d}]
    /\ UNCHANGED <<asked, condemned>>

\* A copy of a vault, complete at once.
Copy(v, d) ==
    /\ places[v] # {}
    /\ Free(d)
    /\ places' = [places EXCEPT ![v] = @ \cup {d}]
    /\ UNCHANGED <<asked, condemned>>

Relocate(v, d, e) ==
    /\ d \in places[v]
    /\ Free(e)
    /\ places' = [places EXCEPT ![v] = (@ \ {d}) \cup {e}]
    /\ UNCHANGED <<asked, condemned>>

\* A copy is given up while another one is left.
GiveUp(v, d) ==
    /\ d \in places[v]
    /\ places[v] # {d}
    /\ places' = [places EXCEPT ![v] = @ \ {d}]
    /\ asked' \in SUBSET asked
    /\ condemned' \in SUBSET condemned

\* The folder the user agreed to clear is cleared.
Discard(v, d) ==
    /\ d \in places[v]
    /\ d \in asked
    /\ places' = [places EXCEPT ![v] = @ \ {d}]
    /\ asked' \in SUBSET asked
    /\ condemned' \in SUBSET condemned

\* A vault that arrived in a condemned folder is removed with it.
Overrun(v, d) ==
    /\ d \in places[v]
    /\ d \in condemned
    /\ places' = [places EXCEPT ![v] = @ \ {d}]
    /\ asked' \in SUBSET asked
    /\ condemned' \in SUBSET condemned

HomeNext ==
    \/ Consent
    \/ \E v \in Vaults, d \in Dirs :
         \/ Appear(v, d) \/ Copy(v, d) \/ GiveUp(v, d)
         \/ Discard(v, d) \/ Overrun(v, d)
         \/ \E e \in Dirs : Relocate(v, d, e)

HomeSpec == HomeInit /\ [][HomeNext]_<<places, asked, condemned>>
=============================================================================
