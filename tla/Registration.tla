---------------------------- MODULE Registration ----------------------------
(***************************************************************************)
(* The karpenter.sh/unregistered taint: Create asks for a pool with it and *)
(* clears it from the pool's spec once the node has a droplet, the node    *)
(* boots with it, Karpenter's registration controller takes it off the     *)
(* node, and DOKS puts on nodes whatever is in the spec of their pool.     *)
(* What DOKS and Karpenter do is external, and taken from the comments on  *)
(* Create (pkg/providers/instance/instance.go:103-106 and 134-139).  The   *)
(* garbage collector runs beside them and may take the pool at any stage.  *)
(***************************************************************************)
EXTENDS GarbageCollection

VARIABLE nodes  \* the Kubernetes node of each pool

vars == <<cloudVars, gcVars, nodes>>

-----------------------------------------------------------------------------

Node == [joined : BOOLEAN, tainted : BOOLEAN, registered : BOOLEAN]

NoNode == [joined |-> FALSE, tainted |-> FALSE, registered |-> FALSE]

Init ==
  /\ DOKSInit /\ ProviderInit /\ CloudInit /\ GCInit
  /\ nodes = [p \in PoolIDs |-> NoNode]

(* The kubelet joins with the taint that the pool was created with, which  *)
(* may be before or after Create has cleared it from the spec.             *)
Join(p) ==
  /\ Exists(p) /\ pools[p].managed /\ pools[p].droplet /\ ~nodes[p].joined
  /\ nodes' = [nodes EXCEPT ![p].joined = TRUE,
                            ![p].tainted = PoolRequest(pools[p].owner).tainted]
  /\ UNCHANGED <<cloudVars, gcVars>>

(* DOKS puts the taints of the spec on the node, again and again. *)
Enforce(p) ==
  /\ pools[p].state = "up" /\ pools[p].tainted
  /\ nodes[p].joined
  /\ nodes' = [nodes EXCEPT ![p].tainted = TRUE]
  /\ UNCHANGED <<cloudVars, gcVars>>

Leave(p) ==
  /\ RemovePool(p)
  /\ nodes' = [nodes EXCEPT ![p] = NoNode]
  /\ UNCHANGED <<calls, claims, gcVars>>

(* Karpenter finds the node by the claim's provider ID, once, and does not *)
(* register a node that came without the taint.                            *)
RegisterNode(c) ==
  /\ ~ctxDone
  /\ claims[c].phase = "live" /\ claims[c].providerID # None
  /\ LET p == claims[c].providerID
     IN  /\ nodes[p].joined /\ nodes[p].tainted /\ ~nodes[p].registered
         /\ nodes' = [nodes EXCEPT ![p].tainted = FALSE, ![p].registered = TRUE]
  /\ UNCHANGED <<cloudVars, gcVars>>

ProviderStep(c) ==
  /\ \/ CreateStep(c) /\ UNCHANGED claims
     \/ BeginCreate(c) \/ Register(c)
     \/ BeginDelete(c) \/ DeleteStep(c) \/ FinalizeStep(c)
  /\ UNCHANGED <<gcVars, nodes>>

Demand(c) ==
  /\ Provision(c) \/ RequestDelete(c) \/ DropAnnotation(c)
  /\ UNCHANGED <<gcVars, nodes>>

CollectorStep ==
  /\ (\E c \in Claims : Deliver(c) \/ Touch(c)) \/ Reconcile
  /\ UNCHANGED nodes

Next ==
  \/ \E p \in PoolIDs : \/ Join(p) \/ Enforce(p) \/ Leave(p)
                        \/ ProvisionNode(p) /\ UNCHANGED <<calls, claims, gcVars, nodes>>
  \/ \E c \in Claims : ProviderStep(c) \/ RegisterNode(c) \/ Demand(c)
  \/ CollectorStep

Spec == Init /\ [][Next]_vars

(* The provider's goroutines run, a node that has a droplet joins, DOKS    *)
(* enforces.  Nothing is assumed of the collector, which may sleep.        *)
Fairness ==
  /\ \A c \in Claims : WF_vars(ProviderStep(c)) /\ WF_vars(RegisterNode(c))
  /\ \A p \in PoolIDs : WF_vars(Join(p)) /\ WF_vars(Enforce(p))

FairSpec == Spec /\ Fairness

-----------------------------------------------------------------------------

(* Every variable has its type. *)
TypeOK ==
  /\ pools \in [PoolIDs -> Pool] /\ ctxDone \in BOOLEAN
  /\ calls \in [Claims -> Call] /\ claims \in [Claims -> Claim]
  /\ seen \in [Claims -> Claim] /\ queue \subseteq Claims /\ gc \in Pass
  /\ nodes \in [PoolIDs -> Node]

(* When calls succeed no registered node gets the taint again, although    *)
(* the node may join long after the taint was cleared from the spec, or    *)
(* before: Create clears it before the claim can be matched with the node. *)
RegisteredNodeIsUntainted ==
  \A p \in PoolIDs : nodes[p].registered => ~nodes[p].tainted

(* Every claim that was launched comes to have a registered node, unless   *)
(* it is deleted first, or the collector has taken its pool: clearing the  *)
(* taint early does not keep it away.  The collector can do so while       *)
(* Create polls the pool or before the cache shows what Create returned,   *)
(* and the claim then stands without a node.                               *)
LaunchedNodeRegisters ==
  \A c \in Claims, p \in PoolIDs :
    claims[c].phase = "live" /\ claims[c].providerID = p
      ~> nodes[p].registered \/ claims[c].phase # "live" \/ pools[p].state # "up"

(* "the node pool is usable; the taint issue may resolve once Karpenter's  *)
(* registration controller runs" (pkg/providers/instance/instance.go:145,  *)
(* 146), of a pool whose taint could not be cleared: once that controller  *)
(* has registered the node, it does not go on having the taint.            *)
TaintResolves ==
  \A c \in Claims, p \in PoolIDs :
    []<>(claims[c].phase = "live" /\ claims[c].providerID = p /\ nodes[p].registered
           => ~nodes[p].tainted)

=============================================================================
