-------------------------- MODULE GarbageCollection --------------------------
(***************************************************************************)
(* pkg/controllers/nodeclaim: the controller that deletes the managed      *)
(* pools no NodeClaim accounts for.  Reconcile reads the pools from the    *)
(* API and then the NodeClaims from the manager's cache, which an informer *)
(* keeps: what it reads may be old.  It runs when an event of a NodeClaim  *)
(* arrives, one pass at a time.                                            *)
(***************************************************************************)
EXTENDS CloudProvider

VARIABLES
  seen,   \* the NodeClaims as the informer's cache shows them
  queue,  \* the reconcile requests waiting, by the claim they name
  gc      \* the pass in progress

gcVars == <<seen, queue, gc>>

-----------------------------------------------------------------------------

(* req: the request, as long as an error can put it back in the queue. *)
Pass == [pc        : {"idle", "listInstances", "listClaims", "sweep"},
         req       : Claims \cup {None},
         instances : SUBSET PoolIDs,
         orphans   : SUBSET PoolIDs]

NoPass == [pc |-> "idle", req |-> None, instances |-> {}, orphans |-> {}]

GCInit ==
  /\ seen = [c \in Claims |-> AbsentClaim]
  /\ queue = {}
  /\ gc = NoPass

-----------------------------------------------------------------------------
(* The informer and its work queue (controller-runtime). *)

InCache(c) == seen[c].phase \in {"live", "deleting"}

(* The cache catches up with a NodeClaim; its handler enqueues the claim. *)
Deliver(c) ==
  /\ ~ctxDone
  /\ seen[c] # claims[c]
  /\ seen' = [seen EXCEPT ![c] = claims[c]]
  /\ queue' = queue \cup {c}
  /\ UNCHANGED <<cloudVars, gc>>

(* An event that changes nothing modelled: a condition, a label, the       *)
(* informer's periodic resync.                                             *)
Touch(c) ==
  /\ ~ctxDone
  /\ InCache(c)
  /\ queue' = queue \cup {c}
  /\ UNCHANGED <<cloudVars, seen, gc>>

-----------------------------------------------------------------------------
(* Reconcile *)

BeginPass ==
  /\ gc.pc = "idle"
  /\ \E c \in queue :
       /\ queue' = queue \ {c}
       /\ gc' = [NoPass EXCEPT !.pc = "listInstances", !.req = c]
  /\ UNCHANGED <<cloudVars, seen>>

(* A returned error requeues the request. *)
Requeue ==
  /\ queue' = queue \cup {gc.req}
  /\ gc' = NoPass

ListInstances ==
  /\ gc.pc = "listInstances"
  /\ \E page \in SUBSET PoolIDs, result \in Results :
       /\ ListNodePools(page, result)
       /\ \/ /\ result = "error"
             /\ Requeue
          \/ /\ result = "ok"
             /\ gc' = [NoPass EXCEPT !.pc = "listClaims", !.instances = InstancesIn(page)]
             /\ UNCHANGED queue
  /\ UNCHANGED <<cloudVars, seen>>

(* Mutant: by the annotation instead. *)
AnnotatedIDs == {seen[c].poolID : c \in {d \in Claims : InCache(d)}} \ {None}

(* The provider IDs of the cached NodeClaims. *)
KnownIDs == {seen[c].providerID : c \in {d \in Claims : InCache(d)}} \ {None}

(* Mutant: a pool that still has its taint is taken for one being created. *)
UntaintedOrphansOf(instances) ==
  {p \in instances : p \notin KnownIDs /\ ~pools[p].tainted}

OrphansOf(instances) == {p \in instances : p \notin KnownIDs}

(* The cache answers without a call, so a list of it does not fail. *)
ListClaims ==
  /\ gc.pc = "listClaims"
  /\ gc' = [gc EXCEPT !.pc = "sweep", !.instances = {},
                      !.orphans = OrphansOf(gc.instances)]
  /\ UNCHANGED <<cloudVars, seen, queue>>

(* A failed deletion is logged and the loop goes on. *)
Sweep(p) ==
  /\ gc.pc = "sweep" /\ p \in gc.orphans
  /\ \E result \in Results : DeleteNodePool(p, result)
  /\ gc' = [gc EXCEPT !.orphans = @ \ {p}]
  /\ UNCHANGED <<ctxDone, calls, claims, seen, queue>>

(* Nothing asks for another pass. *)
FinishPass ==
  /\ gc.pc = "sweep" /\ gc.orphans = {}
  /\ gc' = NoPass
  /\ UNCHANGED <<cloudVars, seen, queue>>

Reconcile ==
  BeginPass \/ ListInstances \/ ListClaims \/ (\E p \in PoolIDs : Sweep(p)) \/ FinishPass

=============================================================================
