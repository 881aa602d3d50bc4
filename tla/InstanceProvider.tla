-------------------------- MODULE InstanceProvider --------------------------
(***************************************************************************)
(* pkg/providers/instance: one DOKS node pool with Count = 1 for each      *)
(* NodeClaim.  Create is a sequence of API calls with the world moving     *)
(* between them, so each call is an action and calls[c] is the stack of    *)
(* the goroutine that works for NodeClaim c.                               *)
(***************************************************************************)
EXTENDS DOKS

CONSTANT MaxAttempts  \* maxAttempts of waitForNode (60 in the source)

ASSUME MaxAttemptsAssumption == MaxAttempts \in Nat \ {0}

VARIABLE calls  \* for each claim, the provider call made for it

providerVars == <<doksVars, calls>>

-----------------------------------------------------------------------------

CreatePCs == {"requesting", "polling", "cleanup", "clearing"}
DeletePCs == {"lookup", "delete"}

(* "created" and "deleted": the call has returned without an error and its *)
(* caller, Karpenter's lifecycle controller, has not acted on that yet.    *)
Call == [pc      : {"idle", "created", "deleted"} \cup CreatePCs \cup DeletePCs,
         pool    : PoolIDs \cup {None},
         attempt : 0..MaxAttempts]

Idle == [pc |-> "idle", pool |-> None, attempt |-> 0]

ProviderInit == calls = [c \in Claims |-> Idle]

GoTo(c, pc) == calls' = [calls EXCEPT ![c].pc = pc]
Return(c)   == calls' = [calls EXCEPT ![c] = Idle]

-----------------------------------------------------------------------------
(* What is read from a page of the cluster's pools. *)

(* Mutant: the filter by tag is left out. *)
EveryPool(page) == page

ManagedPools(page) == {p \in page : pools[p].managed}

(* List: the pools whose node has a droplet. *)
InstancesIn(page) == {p \in ManagedPools(page) : pools[p].droplet}

(* Mutant: the first instance is taken for the one asked for. *)
AnyDroplet(droplet, page) == InstancesIn(page)

(* Get: the instances with that droplet ID, or none (NodeClaimNotFound). *)
WithDroplet(droplet, page) == {p \in InstancesIn(page) : p = droplet}

(* Mutant: a 404 is an error like others. *)
DeleteFailsOn404(result) == result # "ok"

(* Delete takes a pool that is already gone (404) for deleted. *)
DeleteFails(result) == result = "error"

-----------------------------------------------------------------------------
(* Create *)

(* Mutant: the pool is made without the taint. *)
UntaintedRequest(c) == [state |-> "up", owner |-> c, managed |-> TRUE,
                        droplet |-> FALSE, tainted |-> FALSE]

PoolRequest(c) == [state |-> "up", owner |-> c, managed |-> TRUE,
                   droplet |-> FALSE, tainted |-> TRUE]

SubmitPool(c) ==
  /\ calls[c].pc = "requesting"
  /\ \E p \in PoolIDs, result \in Results :
       /\ CreateNodePool(p, PoolRequest(c), result)
       /\ \/ /\ result = "ok"
             /\ calls' = [calls EXCEPT ![c] = [pc |-> "polling", pool |-> p,
                                               attempt |-> 0]]
          \/ /\ result # "ok"
             /\ Return(c)
  /\ UNCHANGED ctxDone

(* Mutants: one attempt too many; an attempt that is not counted. *)
OneAttemptMore(c)  == calls[c].attempt <= MaxAttempts
SleepUncounted(c)  == UNCHANGED calls

AttemptsLeft(c) == calls[c].attempt < MaxAttempts
NodeReady(p)    == pools[p].droplet
Sleep(c)        == calls' = [calls EXCEPT ![c].attempt = @ + 1]

(* One iteration of waitForNode. *)
PollNode(c) ==
  /\ calls[c].pc = "polling" /\ AttemptsLeft(c)
  /\ \E result \in Results :
       /\ GetNodePool(calls[c].pool, result)
       /\ \/ /\ result # "ok"
             /\ GoTo(c, "cleanup")
          \/ /\ result = "ok" /\ NodeReady(calls[c].pool)
             /\ GoTo(c, "clearing")
          \/ /\ result = "ok" /\ ~NodeReady(calls[c].pool)
             /\ Sleep(c)
  /\ UNCHANGED doksVars

(* The attempts are used up, or the context is done while it sleeps. *)
GiveUp(c) ==
  /\ calls[c].pc = "polling"
  /\ ~AttemptsLeft(c) \/ (calls[c].attempt > 0 /\ ctxDone)
  /\ GoTo(c, "cleanup")
  /\ UNCHANGED doksVars

(* Mutant: the failed pool is left to itself. *)
CleanUpNothing(c) ==
  /\ calls[c].pc = "cleanup"
  /\ Return(c)
  /\ UNCHANGED doksVars

(* The pool is deleted with the same context, whatever comes of it, and    *)
(* Create returns the error of waitForNode.                                *)
CleanUp(c) ==
  /\ calls[c].pc = "cleanup"
  /\ \E result \in Results : DeleteNodePool(calls[c].pool, result)
  /\ Return(c)
  /\ UNCHANGED ctxDone

(* Mutant: the taints are left in the spec. *)
ClearNothing(c) ==
  /\ calls[c].pc = "clearing"
  /\ GoTo(c, "created")
  /\ UNCHANGED doksVars

(* A failure to clear the taints is only warned about. *)
ClearTaints(c) ==
  /\ calls[c].pc = "clearing"
  /\ \E result \in Results : ClearPoolTaints(calls[c].pool, result)
  /\ GoTo(c, "created")
  /\ UNCHANGED ctxDone

CreateStep(c) ==
  SubmitPool(c) \/ PollNode(c) \/ GiveUp(c) \/ CleanUp(c) \/ ClearTaints(c)

=============================================================================
