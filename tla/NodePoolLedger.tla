--------------------------- MODULE NodePoolLedger ---------------------------
(***************************************************************************)
(* What the provider promises about the node pools it pays for, whatever   *)
(* fails in between: the abstract specification that Lifecycle implements. *)
(* It knows no API call, no cache, no collector and no process, only the   *)
(* NodeClaims, the pools, and which claim answers for which pool.          *)
(***************************************************************************)
CONSTANTS
  Claims,  \* NodeClaims
  Pools,   \* Karpenter's node pools
  None     \* no claim, no pool

VARIABLES
  stage,    \* the life of each pool: absent, up, deleting, gone
  owner,    \* the claim a pool was made for
  phase,    \* the life of each claim: absent, live, deleting, gone
  bound,    \* the pool whose node the claim has as its provider ID
  settled   \* the claims whose pool nobody may take any more

ledger == <<stage, owner, phase, bound, settled>>

-----------------------------------------------------------------------------

Init ==
  /\ stage = [p \in Pools |-> "absent"]
  /\ owner = [p \in Pools |-> None]
  /\ phase = [c \in Claims |-> "absent"]
  /\ bound = [c \in Claims |-> None]
  /\ settled = {}

Open(c) ==
  /\ phase[c] = "absent"
  /\ phase' = [phase EXCEPT ![c] = "live"]
  /\ UNCHANGED <<stage, owner, bound, settled>>

RequestDelete(c) ==
  /\ phase[c] = "live"
  /\ phase' = [phase EXCEPT ![c] = "deleting"]
  /\ settled' = settled \ {c}
  /\ UNCHANGED <<stage, owner, bound>>

(* Its finalizer stands: what is done for it is still asked for. *)
HasFinalizer(c) == phase[c] \in {"live", "deleting"}

(* A pool is made only for a claim that has none to its name. *)
Rent(c, p) ==
  /\ HasFinalizer(c) /\ bound[c] = None
  /\ stage[p] = "absent"
  /\ stage' = [stage EXCEPT ![p] = "up"]
  /\ owner' = [owner EXCEPT ![p] = c]
  /\ UNCHANGED <<phase, bound, settled>>

(* It gets one pool, of its own, for good. *)
Bind(c, p) ==
  /\ HasFinalizer(c) /\ bound[c] = None
  /\ owner[p] = c
  /\ bound' = [bound EXCEPT ![c] = p]
  /\ UNCHANGED <<stage, owner, phase, settled>>

(* Some claims are known to everyone from now on, as are all the claims    *)
(* that were known before.                                                 *)
Settle ==
  /\ settled \subseteq settled'
  /\ \A c \in settled' \ settled :
       c \in Claims /\ phase[c] = "live" /\ bound[c] \in Pools /\ stage[bound[c]] = "up"
  /\ UNCHANGED <<stage, owner, phase, bound>>

(* A pool that no settled claim has is given back, for whatever reason. *)
GiveBack(p) ==
  /\ stage[p] = "up"
  /\ \A c \in settled : bound[c] # p
  /\ stage' = [stage EXCEPT ![p] = "deleting"]
  /\ UNCHANGED <<owner, phase, bound, settled>>

Remove(p) ==
  /\ stage[p] = "deleting"
  /\ stage' = [stage EXCEPT ![p] = "gone"]
  /\ UNCHANGED <<owner, phase, bound, settled>>

(* A claim goes only after its pool. *)
Finalize(c) ==
  /\ phase[c] = "deleting"
  /\ bound[c] # None => stage[bound[c]] = "gone"
  /\ phase' = [phase EXCEPT ![c] = "gone"]
  /\ UNCHANGED <<stage, owner, bound, settled>>

Next ==
  \/ \E c \in Claims : \/ Open(c) \/ RequestDelete(c) \/ Finalize(c)
                       \/ \E p \in Pools : Rent(c, p) \/ Bind(c, p)
  \/ \E p \in Pools : GiveBack(p) \/ Remove(p)
  \/ Settle

Spec == Init /\ [][Next]_ledger

=============================================================================
