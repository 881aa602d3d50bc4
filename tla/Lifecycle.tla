------------------------------ MODULE Lifecycle ------------------------------
(***************************************************************************)
(* The life of NodeClaims and of their node pools: the instance provider   *)
(* and the cloud provider driven by Karpenter's lifecycle controller, the  *)
(* garbage collector beside them, the DOKS API under them, and the         *)
(* process that runs them all stopping and being started again.            *)
(***************************************************************************)
EXTENDS GarbageCollection

CONSTANT MaxRestarts  \* a bound on how often the process is started again

ASSUME MaxRestartsAssumption == MaxRestarts \in Nat

VARIABLE restarts  \* how often the process was started again

vars == <<cloudVars, gcVars, restarts>>

-----------------------------------------------------------------------------

Init ==
  /\ DOKSInit /\ ProviderInit /\ CloudInit /\ GCInit
  /\ restarts = 0

(* SIGTERM or a lost lease: the context of the manager is done. *)
Stop ==
  /\ restarts < MaxRestarts
  /\ Shutdown
  /\ UNCHANGED <<calls, claims, gcVars, restarts>>

(* The process ends, after a Stop or by a crash, and is started again: its *)
(* goroutines and queue are lost, its informers list all NodeClaims anew.  *)
Restart ==
  /\ ctxDone \/ "crash" \in Faults
  /\ restarts < MaxRestarts
  /\ restarts' = restarts + 1
  /\ ctxDone' = FALSE
  /\ calls' = [c \in Claims |-> Idle]
  /\ seen' = [c \in Claims |->
                IF claims[c].phase \in {"live", "deleting"} THEN claims[c]
                                                            ELSE AbsentClaim]
  /\ queue' = {c \in Claims : claims[c].phase \in {"live", "deleting"}}
  /\ gc' = NoPass
  /\ UNCHANGED <<pools, claims>>

-----------------------------------------------------------------------------
(* Each component's steps, with what the others keep. *)

DOKSStep ==
  /\ \E p \in PoolIDs : ProvisionNode(p) \/ RemovePool(p)
  /\ UNCHANGED <<calls, claims, gcVars, restarts>>

CreateCall(c) ==
  /\ CreateStep(c)
  /\ UNCHANGED <<claims, gcVars, restarts>>

ClaimStep(c) ==
  /\ \/ BeginCreate(c) \/ Register(c)
     \/ BeginDelete(c) \/ DeleteStep(c) \/ FinalizeStep(c)
  /\ UNCHANGED <<gcVars, restarts>>

Demand(c) ==
  /\ Provision(c) \/ RequestDelete(c) \/ DropAnnotation(c)
  /\ UNCHANGED <<gcVars, restarts>>

InformerStep(c) ==
  /\ Deliver(c) \/ Touch(c)
  /\ UNCHANGED restarts

GCStep ==
  /\ Reconcile
  /\ UNCHANGED restarts

Next ==
  \/ DOKSStep
  \/ \E c \in Claims : CreateCall(c) \/ ClaimStep(c) \/ Demand(c) \/ InformerStep(c)
  \/ GCStep
  \/ Stop
  \/ Restart

Spec == Init /\ [][Next]_vars

(* The goroutines run, failed reconciles are retried, watch events arrive, *)
(* every object in the cache has an event again (the periodic resync), a   *)
(* deleted pool is removed, a stopped process is started again.  Nothing   *)
(* is assumed of what users ask for, of faults, or of a node ever getting  *)
(* its droplet.                                                            *)
Fairness ==
  /\ \A p \in PoolIDs : WF_vars(RemovePool(p) /\ UNCHANGED <<calls, claims, gcVars, restarts>>)
  /\ \A c \in Claims : /\ WF_vars(CreateCall(c))
                       /\ WF_vars(ClaimStep(c))
                       /\ WF_vars(Deliver(c) /\ UNCHANGED restarts)
                       /\ WF_vars(Touch(c) /\ UNCHANGED restarts)
  /\ WF_vars(GCStep)
  /\ WF_vars(ctxDone /\ Restart)

FairSpec == Spec /\ Fairness

-----------------------------------------------------------------------------
(* Safety *)

(* Every variable has its type. *)
TypeOK ==
  /\ pools \in [PoolIDs -> Pool]
  /\ ctxDone \in BOOLEAN
  /\ calls \in [Claims -> Call]
  /\ claims \in [Claims -> Claim]
  /\ seen \in [Claims -> Claim]
  /\ queue \subseteq Claims
  /\ gc \in Pass
  /\ restarts \in 0..MaxRestarts

(* The pools that are not Karpenter's are left as they were: neither the   *)
(* collector, which deletes what it cannot account for, nor Create or      *)
(* Delete ever touches them.                                               *)
ForeignPoolsUntouched == \A p \in ForeignPools : pools[p] = ForeignPool

(* A NodeClaim's finalizer is removed only when its pool is gone: Delete's *)
(* and Get's "not found" are never an error taken for an answer.           *)
FinalizedClaimLeavesNoPool ==
  \A c \in Claims :
    claims[c].phase = "gone" /\ claims[c].providerID # None
      => ~Exists(claims[c].providerID)

(* p's claim stands, the collector's cache shows its provider ID, and no   *)
(* pass already under way holds p for an orphan.                           *)
InService(p) ==
  /\ pools[p].state = "up"
  /\ p \notin gc.orphans
  /\ \E c \in Claims : /\ claims[c].phase = "live"
                       /\ claims[c].providerID = p
                       /\ seen[c].providerID = p

(* A node in service is kept until the deletion of its claim is requested: *)
(* no call made for another claim, no pass of the collector, however old   *)
(* the pools it listed, and no restart takes it away.                      *)
NodeInServiceIsKept ==
  [][\A p \in PoolIDs :
       InService(p) => \/ InService(p)'
                       \/ \E c \in Claims : /\ claims[c].providerID = p
                                            /\ claims'[c].phase = "deleting"]_vars

(* The claim c accounts for pool p: as its provider ID or in a call.       *)
Holds(c, p) == claims[c].phase # "gone" /\ p \in {claims[c].providerID, calls[c].pool}

(* No two claims ever account for one pool, in whatever order the calls of *)
(* both are made and however the droplet of a claim is looked up: no       *)
(* Delete of one acts on what the other has or is about to have.           *)
NoPoolHasTwoClaims ==
  \A c, d \in Claims, p \in PoolIDs : Holds(c, p) /\ Holds(d, p) => c = d

(* When calls succeed no managed pool is left running: a Create that       *)
(* times out, a claim deleted during its Create and the collector together *)
(* lose none.                                                              *)
NoPoolIsLost ==
  \A p \in PoolIDs :
    pools[p].state = "up" /\ pools[p].managed
      => \E c \in Claims : Holds(c, p) /\ pools[p].owner = c

-----------------------------------------------------------------------------
(* The inductive invariant behind ForeignPoolsUntouched and                *)
(* NodeInServiceIsKept; FinalizedClaimLeavesNoPool is inductive with it.   *)

CreatingPCs == {"polling", "cleanup", "clearing", "created"}
DeletingPCs == {"lookup", "delete", "deleted"}

(* Karpenter's pools have the tag, the others do not and are as they were. *)
PoolInv(p) ==
  /\ pools[p].managed => pools[p].state # "absent"
  /\ p \in ForeignPools => pools[p] = ForeignPool

(* What an API call of c is about to act on is c's own pool. *)
CallInv(c) ==
  /\ calls[c].pool # None => /\ pools[calls[c].pool].managed
                             /\ pools[calls[c].pool].owner = c
  /\ calls[c].pc \in CreatingPCs => calls[c].pool # None
  /\ calls[c].pc \in CreatingPCs \cup {"requesting"}
       => claims[c].phase \in {"live", "deleting"} /\ claims[c].providerID = None
  /\ calls[c].pc \in {"clearing", "created"} => pools[calls[c].pool].droplet
  /\ calls[c].pc \in DeletingPCs
       => claims[c].phase = "deleting" /\ claims[c].providerID # None
  /\ calls[c].pc = "delete" => calls[c].pool = claims[c].providerID
  /\ calls[c].pc = "lookup" => calls[c].pool = None

(* A provider ID names a droplet of the claim's own pool, and so does the  *)
(* annotation where there is one.                                          *)
ClaimInv(c) ==
  /\ claims[c].poolID \in {None, claims[c].providerID}
  /\ claims[c].providerID # None =>
       /\ claims[c].phase # "absent"
       /\ pools[claims[c].providerID].managed
       /\ pools[claims[c].providerID].droplet
       /\ pools[claims[c].providerID].owner = c

(* The cache is behind the claim, never beside it. *)
SeenInv(c) ==
  /\ seen[c].providerID # None => /\ seen[c].phase # "absent"
                                  /\ seen[c].providerID = claims[c].providerID
  /\ seen[c].phase \in {"deleting", "gone"}
       => claims[c].phase \in {"deleting", "gone"}

(* A pass works for a request, and on Karpenter's pools only. *)
PassInv ==
  /\ gc.pc = "listInstances" => gc.req # None
  /\ \A p \in gc.instances \cup gc.orphans : pools[p].managed

(* Calls, claims, the collector's view and its pass agree with the pools. *)
IInv ==
  /\ TypeOK
  /\ \A p \in PoolIDs : PoolInv(p)
  /\ \A c \in Claims : CallInv(c) /\ ClaimInv(c) /\ SeenInv(c)
  /\ PassInv

-----------------------------------------------------------------------------
(* Liveness *)

(* waitForNode's attempts end: a Create never blocks its claim for good.   *)
CreateReturns ==
  \A c \in Claims : calls[c].pc \in CreatePCs ~> calls[c].pc \notin CreatePCs

(* A claim under deletion is finalized, after lost answers, stops and      *)
(* restarts too: Delete may be repeated and a 404 ends it.                 *)
DeletionCompletes ==
  \A c \in Claims : claims[c].phase = "deleting" ~> claims[c].phase = "gone"

Orphan(p) ==
  /\ pools[p].state = "up" /\ pools[p].managed /\ pools[p].droplet
  /\ ~\E c \in Claims : Holds(c, p)

SomeClaimExists == \E c \in Claims : claims[c].phase \in {"live", "deleting"}

(* An orphan stays one until its deletion, and a pass loses none on its    *)
(* way from the list of pools, by the list of claims, to the deletions:    *)
(* however old the cache is, no claim in it stands for an orphan.  Only a  *)
(* restart ends a pass before.                                             *)
OrphansArePursued ==
  [][\A p \in PoolIDs : Orphan(p) =>
       /\ pools'[p].state = "up" => Orphan(p)'
       /\ gc.pc = "listInstances" /\ gc'.pc = "listClaims" => p \in gc'.instances
       /\ p \in gc.instances \cup gc.orphans /\ restarts' = restarts
            => p \in gc'.instances \cup gc'.orphans \/ Sweep(p)]_vars

(* An orphaned droplet is collected as long as some NodeClaim exists, whose *)
(* events bring the collector back.                                        *)
OrphansAreCollected ==
  \A p \in PoolIDs : Orphan(p) ~> pools[p].state # "up" \/ ~SomeClaimExists

-----------------------------------------------------------------------------
(* What comments and documents of the repository say. *)

(* "Node pools without a NodeClaim are considered orphaned and are          *)
(* deleted" (pkg/controllers/nodeclaim/controller.go:49): a pool whose      *)
(* NodeClaim is in the very list the pass reads is not found orphaned.      *)
PoolWithNodeClaimIsNoOrphan ==
  [][gc.pc = "listClaims" =>
       \A p \in gc'.orphans : pools[p].owner # None => ~InCache(pools[p].owner)]_vars

(* "Clean up the node pool if we fail to get the node info"                 *)
(* (pkg/providers/instance/instance.go:129): when Create returns the error  *)
(* of waitForNode, its pool is not left running.                            *)
FailedCreateLeavesNoPool ==
  [][\A c \in Claims :
       calls[c].pc = "cleanup" /\ calls'[c].pc = "idle" /\ restarts' = restarts
         => pools'[calls[c].pool].state # "up"]_vars

(* "Garbage collection - cleans up orphaned Droplets that no longer have a  *)
(* corresponding NodeClaim" (README.md:15): every orphaned droplet.         *)
EveryOrphanIsCollected ==
  \A p \in PoolIDs : Orphan(p) ~> pools[p].state # "up"

=============================================================================
