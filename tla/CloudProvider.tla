---------------------------- MODULE CloudProvider ----------------------------
(***************************************************************************)
(* pkg/cloudprovider: the interface Karpenter's lifecycle controller calls *)
(* for a NodeClaim, and that controller (external) as far as it decides    *)
(* when those calls are made and what becomes of their answers.  It works  *)
(* for one claim on one goroutine at a time, so a claim has one call.      *)
(***************************************************************************)
EXTENDS InstanceProvider

VARIABLE claims  \* the NodeClaim objects in the API server

cloudVars == <<providerVars, claims>>

-----------------------------------------------------------------------------

(* providerID: status.providerID, digitalocean://<dropletID>.              *)
(* poolID: the annotation karpenter.do.sh/node-pool-id.                     *)
(* deleting: deletionTimestamp is set and Karpenter's finalizer remains.   *)
Claim == [phase      : {"absent", "live", "deleting", "gone"},
          providerID : PoolIDs \cup {None},
          poolID     : PoolIDs \cup {None}]

AbsentClaim == [phase |-> "absent", providerID |-> None, poolID |-> None]

CloudInit == claims = [c \in Claims |-> AbsentClaim]

SetPhase(c, phase) == claims' = [claims EXCEPT ![c].phase = phase]

-----------------------------------------------------------------------------
(* What users and Karpenter's controllers do to NodeClaims. *)

Provision(c) ==
  /\ claims[c].phase = "absent"
  /\ SetPhase(c, "live")
  /\ UNCHANGED providerVars

(* Consolidation, drift, expiry, a liveness timeout or a user. *)
RequestDelete(c) ==
  /\ claims[c].phase = "live"
  /\ SetPhase(c, "deleting")
  /\ UNCHANGED providerVars

(* The annotation is lost (a restored or edited object): the case Delete's *)
(* fallback is written for.                                                *)
DropAnnotation(c) ==
  /\ "edit" \in Faults
  /\ claims[c].phase = "live" /\ claims[c].poolID # None
  /\ claims' = [claims EXCEPT ![c].poolID = None]
  /\ UNCHANGED providerVars

-----------------------------------------------------------------------------
(* Create *)

(* The node class was resolved and an instance type was found: otherwise   *)
(* Create returns an error before any call and nothing changes.            *)
BeginCreate(c) ==
  /\ calls[c].pc = "idle"
  /\ claims[c].phase = "live" /\ claims[c].providerID = None
  /\ GoTo(c, "requesting")
  /\ UNCHANGED <<doksVars, claims>>

InstanceToNodeClaim(p, claim) ==
  [claim EXCEPT !.providerID = p, !.poolID = p]

(* The lifecycle controller stores the NodeClaim that Create returned.  A  *)
(* claim whose deletion was requested meanwhile still has its finalizer.   *)
Register(c) ==
  /\ calls[c].pc = "created"
  /\ ~ctxDone
  /\ claims' = [claims EXCEPT ![c] = InstanceToNodeClaim(calls[c].pool, @)]
  /\ Return(c)
  /\ UNCHANGED doksVars

-----------------------------------------------------------------------------
(* Delete *)

(* By the annotation, or by the provider ID when there is none. *)
BeginDelete(c) ==
  /\ calls[c].pc = "idle"
  /\ claims[c].phase = "deleting" /\ claims[c].providerID # None
  /\ calls' = [calls EXCEPT ![c] =
                 [pc      |-> IF claims[c].poolID # None THEN "delete" ELSE "lookup",
                  pool    |-> claims[c].poolID,
                  attempt |-> 0]]
  /\ UNCHANGED <<doksVars, claims>>

(* An instance that is not found is taken for deleted. *)
Lookup(c) ==
  /\ calls[c].pc = "lookup"
  /\ \E page \in SUBSET PoolIDs, result \in Results :
       /\ ListNodePools(page, result)
       /\ \/ /\ result = "error"
             /\ Return(c)
          \/ /\ result = "ok"
             /\ WithDroplet(claims[c].providerID, page) = {}
             /\ GoTo(c, "deleted")
          \/ /\ result = "ok"
             /\ \E p \in WithDroplet(claims[c].providerID, page) :
                  calls' = [calls EXCEPT ![c].pc = "delete", ![c].pool = p]
  /\ UNCHANGED <<doksVars, claims>>

DeletePool(c) ==
  /\ calls[c].pc = "delete"
  /\ \E result \in Results :
       /\ DeleteNodePool(calls[c].pool, result)
       /\ \/ DeleteFails(result) /\ Return(c)
          \/ ~DeleteFails(result) /\ GoTo(c, "deleted")
  /\ UNCHANGED <<ctxDone, claims>>

DeleteStep(c) == Lookup(c) \/ DeletePool(c)

-----------------------------------------------------------------------------
(* Get decides when the claim's finalizer is removed. *)

(* Mutant: a failed list is an empty one. *)
GetFindsNothing(c, page, result) == WithDroplet(claims[c].providerID, page) = {}

(* What Get answers for the provider ID, from a page of the pools. *)
GetNotFound(c, page, result) ==
  result = "ok" /\ WithDroplet(claims[c].providerID, page) = {}

CheckTerminated(c) ==
  /\ calls[c].pc = "deleted"
  /\ \E page \in SUBSET PoolIDs, result \in Results :
       /\ ListNodePools(page, result)
       /\ \/ /\ GetNotFound(c, page, result)
             /\ SetPhase(c, "gone")
          \/ /\ ~GetNotFound(c, page, result)
             /\ UNCHANGED claims
  /\ Return(c)
  /\ UNCHANGED doksVars

(* A claim that was never launched has nothing to delete. *)
FinalizeUnlaunched(c) ==
  /\ calls[c].pc = "idle"
  /\ claims[c].phase = "deleting" /\ claims[c].providerID = None
  /\ ~ctxDone
  /\ SetPhase(c, "gone")
  /\ UNCHANGED providerVars

FinalizeStep(c) == CheckTerminated(c) \/ FinalizeUnlaunched(c)

=============================================================================
