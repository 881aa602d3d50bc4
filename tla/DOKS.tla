-------------------------------- MODULE DOKS --------------------------------
(***************************************************************************)
(* The DigitalOcean Kubernetes node pool API as the provider uses it       *)
(* through godo.  It is external code: what is modelled is the set of      *)
(* answers the provider's code distinguishes and the effect each has on    *)
(* the cluster's node pools.                                               *)
(*                                                                         *)
(* Every pool Karpenter creates has Count = 1, so it has one node and that *)
(* node has one droplet: the droplet ID, hence the provider ID             *)
(* digitalocean://<dropletID>, is represented by the pool's own ID.        *)
(***************************************************************************)
EXTENDS Integers, FiniteSets

CONSTANTS
  Claims,        \* names of NodeClaims; a name is used once
  PoolIDs,       \* node pool IDs, never reused; a bound on CreateNodePool
  ForeignPools,  \* the pools that are not Karpenter's (the default pool, ...)
  PageSize,      \* pools on the one page of ListNodePools that is read (200)
  Faults,        \* what may go wrong, a subset of FaultKinds
  None           \* no claim, no pool, no provider ID

FaultKinds == {"api",     \* a call fails and has no effect
               "lost",    \* a call takes effect and its answer is lost
               "cancel",  \* the process's context is cancelled (shutdown)
               "crash",   \* the process dies and is started again
               "edit"}    \* a NodeClaim loses its annotation

ASSUME ConstantsAssumption ==
  /\ ForeignPools \subseteq PoolIDs
  /\ Faults \subseteq FaultKinds
  /\ PageSize \in Nat \ {0}
  /\ None \notin Claims
  /\ None \notin PoolIDs

VARIABLES
  pools,    \* the node pools of the cluster, by ID
  ctxDone   \* the context that every API call of the process carries is done

doksVars == <<pools, ctxDone>>

-----------------------------------------------------------------------------

(* managed: tagged karpenter-managed.  droplet: the node has a droplet ID. *)
(* tainted: the pool's spec has the karpenter.sh/unregistered taint.       *)
(* owner: the NodeClaim the pool's name karp-<claim> was made from.        *)
Pool == [state   : {"absent", "up", "deleting", "gone"},
         owner   : Claims \cup {None},
         managed : BOOLEAN,
         droplet : BOOLEAN,
         tainted : BOOLEAN]

AbsentPool == [state |-> "absent", owner |-> None, managed |-> FALSE,
               droplet |-> FALSE, tainted |-> FALSE]

ForeignPool == [AbsentPool EXCEPT !.state = "up", !.droplet = TRUE]

DOKSInit ==
  /\ pools = [p \in PoolIDs |->
                IF p \in ForeignPools THEN ForeignPool ELSE AbsentPool]
  /\ ctxDone = FALSE

(* A pool under deletion is still returned, with its draining node. *)
Exists(p) == pools[p].state \in {"up", "deleting"}

-----------------------------------------------------------------------------
(* Calls.  A call carried by a done context fails before it is sent. *)

Reaches == ~ctxDone
Fails   == ctxDone \/ "api" \in Faults
Loses   == ~ctxDone /\ "lost" \in Faults

Results == {"ok", "notFound", "error"}

(* The account's droplet limit stands for the bound on pool IDs. *)
LimitReached == \A p \in PoolIDs : pools[p].state # "absent"

(* DOKS may refuse a second pool of the same name karp-<claim>. *)
NameTaken(claim) == \E p \in PoolIDs : Exists(p) /\ pools[p].owner = claim

(* A change of the cluster answers "ok", or its answer is lost. *)
TakesEffect(result) == \/ Reaches /\ result = "ok"
                       \/ Loses /\ result = "error"

Refused(result) == Fails /\ result = "error"
Missing(p, result) == ~Exists(p) /\ Reaches /\ result = "notFound"

CreateNodePool(p, request, result) ==
  \/ /\ pools[p].state = "absent"
     /\ TakesEffect(result)
     /\ pools' = [pools EXCEPT ![p] = request]
  \/ /\ Fails \/ LimitReached \/ NameTaken(request.owner)
     /\ result = "error"
     /\ UNCHANGED pools

GetNodePool(p, result) ==
  \/ Reaches /\ Exists(p) /\ result = "ok"
  \/ Missing(p, result)
  \/ Refused(result)

(* UpdateNodePool with an empty list of taints. *)
ClearPoolTaints(p, result) ==
  \/ /\ Exists(p)
     /\ TakesEffect(result)
     /\ pools' = [pools EXCEPT ![p].tainted = FALSE]
  \/ /\ Missing(p, result) \/ Refused(result)
     /\ UNCHANGED pools

DeleteNodePool(p, result) ==
  \/ /\ Exists(p)
     /\ TakesEffect(result)
     /\ pools' = [pools EXCEPT ![p].state = "deleting"]
  \/ /\ Missing(p, result) \/ Refused(result)
     /\ UNCHANGED pools

(* One page of the cluster's pools: all of them when they fit. *)
PagesOf(S) ==
  IF Cardinality(S) <= PageSize
  THEN {S}
  ELSE {T \in SUBSET S : Cardinality(T) = PageSize}

ListNodePools(page, result) ==
  \/ Reaches /\ result = "ok" /\ page \in PagesOf({p \in PoolIDs : Exists(p)})
  \/ Refused(result) /\ page = {}

-----------------------------------------------------------------------------
(* What DOKS does on its own. *)

(* The node of a pool gets its droplet.  It may never: nothing promises    *)
(* that a droplet can be provisioned.                                      *)
ProvisionNode(p) ==
  /\ pools[p].state = "up" /\ ~pools[p].droplet
  /\ pools' = [pools EXCEPT ![p].droplet = TRUE]
  /\ UNCHANGED ctxDone

(* The last node of a deleted pool is drained and the pool disappears. *)
RemovePool(p) ==
  /\ pools[p].state = "deleting"
  /\ pools' = [pools EXCEPT ![p].state = "gone"]
  /\ UNCHANGED ctxDone

(* The manager is told to stop, or loses its lease. *)
Shutdown ==
  /\ "cancel" \in Faults
  /\ ~ctxDone
  /\ ctxDone' = TRUE
  /\ UNCHANGED pools

=============================================================================
