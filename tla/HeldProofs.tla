------------------------------ MODULE HeldProofs ------------------------------
(***************************************************************************)
(* Who holds a node pool.  When calls succeed none is left running without *)
(* a claim that answers for it: a claim's pool is in the hands of the      *)
(* Create that made it, then it is the claim's provider ID, and the claim  *)
(* outlives it.  And when calls fail, what nobody holds stays an orphan,   *)
(* which no pass of the collector loses.                                   *)
(***************************************************************************)
EXTENDS LifecycleProofs

(* Only the annotations of NodeClaims get lost. *)
CallsSucceed == Faults \subseteq {"edit"}

-----------------------------------------------------------------------------

(* A call has a pool in hand only while it works on one. *)
CallHeld(c) ==
  /\ calls[c].pc \in {"idle", "requesting", "lookup"} => calls[c].pool = None
  /\ calls[c].pc = "deleted" => calls[c].pool \in {None, claims[c].providerID}

(* The claim a pool was made for stands and has it. *)
Covered(c, p) ==
  /\ claims[c].phase \in {"live", "deleting"}
  /\ p \in {claims[c].providerID, calls[c].pool}

Running(p) == pools[p].state = "up" /\ pools[p].managed

(* Every pool that runs is covered by the claim it was made for. *)
HeldInv ==
  /\ ctxDone = FALSE
  /\ \A c \in Claims : CallHeld(c)
  /\ \A p \in PoolIDs :
       Running(p) => pools[p].owner \in Claims /\ Covered(pools[p].owner, p)

(* No pool is new among those that run. *)
NoneNew ==
  \A p \in PoolIDs : Running(p)' => Running(p) /\ pools'[p].owner = pools[p].owner

-----------------------------------------------------------------------------
(* Calls *)

(* Every call reaches DOKS and its answer comes back. *)
LEMMA NothingFails ==
  ASSUME CallsSucceed, HeldInv
  PROVE  Reaches /\ ~Fails /\ ~Loses
BY DEF CallsSucceed, HeldInv, Reaches, Fails, Loses

(* A deletion is answered with success, or the pool was not there. *)
LEMMA DeleteStops ==
  ASSUME CallsSucceed, HeldInv, IInv, NEW p \in PoolIDs, NEW result \in Results,
         DeleteNodePool(p, result)
  PROVE  NoneNew /\ ~Running(p)' /\ result # "error"
<1>1. ~Refused(result) /\ (TakesEffect(result) => result # "error")
  BY NothingFails DEF Refused, TakesEffect
<1> QED BY <1>1 DEF DeleteNodePool, Missing, Exists, NoneNew, Running, IInv, TypeOK, Pool

(* What happens to one claim and its call, with the pools. *)
LEMMA OneClaimHeld ==
  ASSUME HeldInv, NEW c \in Claims, ctxDone' = FALSE,
         \A d \in Claims \ {c} : calls'[d] = calls[d] /\ claims'[d] = claims[d],
         CallHeld(c)',
         \A p \in PoolIDs : Running(p)' =>
           \/ Running(p) /\ pools'[p].owner = pools[p].owner
           \/ pools'[p].owner = c,
         \A p \in PoolIDs : Running(p)' /\ pools'[p].owner = c => Covered(c, p)'
  PROVE  HeldInv'
<1>1. \A d \in Claims : CallHeld(d)'
  BY DEF HeldInv, CallHeld
<1>2. ASSUME NEW p \in PoolIDs, Running(p)'
      PROVE  pools'[p].owner \in Claims /\ Covered(pools[p].owner, p)'
  <2>1. CASE pools'[p].owner = c
    BY <2>1, <1>2
  <2>2. CASE pools'[p].owner # c
    <3>1. Running(p) /\ pools'[p].owner = pools[p].owner
      BY <1>2, <2>2
    <3>2. pools[p].owner \in Claims \ {c} /\ Covered(pools[p].owner, p)
      BY <3>1, <2>2 DEF HeldInv
    <3> QED BY <3>1, <3>2 DEF Covered
  <2> QED BY <2>1, <2>2
<1> QED BY <1>1, <1>2 DEF HeldInv

(* A claim that has what it had. *)
LEMMA StillHeld ==
  ASSUME HeldInv, IInv, NEW c \in Claims, ctxDone' = FALSE, NoneNew,
         \A d \in Claims \ {c} : calls'[d] = calls[d] /\ claims'[d] = claims[d],
         CallHeld(c)',
         \A p \in PoolIDs : Running(p) /\ Running(p)' /\ Covered(c, p) => Covered(c, p)'
  PROVE  HeldInv'
<1>1. \A p \in PoolIDs : Running(p)' /\ pools'[p].owner = c => Covered(c, p)'
  BY DEF NoneNew, HeldInv
<1> QED BY <1>1, OneClaimHeld DEF NoneNew

-----------------------------------------------------------------------------
(* Create *)

(* A claim that had nothing has the new pool, or still nothing. *)
LEMMA SubmitPoolHolds ==
  ASSUME CallsSucceed, HeldInv, IInv, NEW c \in Claims, SubmitPool(c), UNCHANGED claims
  PROVE  HeldInv'
<1>1. PICK p \in PoolIDs, result \in Results :
        /\ CreateNodePool(p, PoolRequest(c), result)
        /\ \/ /\ result = "ok"
              /\ calls' = [calls EXCEPT ![c] = [pc |-> "polling", pool |-> p,
                                                attempt |-> 0]]
           \/ /\ result # "ok"
              /\ Return(c)
  BY DEF SubmitPool
<1>2. /\ calls[c].pc = "requesting" /\ calls[c].pool = None
      /\ claims[c].phase \in {"live", "deleting"} /\ claims[c].providerID = None
      /\ ctxDone' = FALSE
  BY DEF SubmitPool, HeldInv, CallHeld, IInv, CallInv
<1>3. \A q \in PoolIDs : Running(q) => pools[q].owner # c
  BY <1>2, ConstantsAssumption DEF HeldInv, Covered
<1>4. CASE result = "ok"
  <2>1. /\ pools' = [pools EXCEPT ![p] = PoolRequest(c)]
        /\ calls' = [calls EXCEPT ![c] = [pc |-> "polling", pool |-> p, attempt |-> 0]]
    BY <1>1, <1>4 DEF CreateNodePool
  <2>2. CallHeld(c)'
    BY <2>1 DEF CallHeld, IInv, TypeOK
  <2>3. \A q \in PoolIDs : q # p => pools'[q] = pools[q]
    BY <2>1 DEF IInv, TypeOK
  <2>4. pools'[p].owner = c
    BY <2>1 DEF IInv, TypeOK, PoolRequest
  <2>5. \A q \in PoolIDs : Running(q)' =>
          \/ Running(q) /\ pools'[q].owner = pools[q].owner
          \/ pools'[q].owner = c
    BY <2>3, <2>4 DEF Running
  <2>6. Covered(c, p)'
    BY <2>1, <1>2 DEF Covered, IInv, TypeOK
  <2>7. \A q \in PoolIDs : Running(q)' /\ pools'[q].owner = c => Covered(c, q)'
    BY <2>3, <2>6, <1>3 DEF Running
  <2>8. \A d \in Claims \ {c} : calls'[d] = calls[d] /\ claims'[d] = claims[d]
    BY <2>1 DEF IInv, TypeOK
  <2> QED BY <2>2, <2>5, <2>7, <2>8, <1>2, OneClaimHeld
<1>5. CASE result # "ok"
  <2>1. pools' = pools /\ calls' = [calls EXCEPT ![c] = Idle]
    BY <1>1, <1>5, NothingFails DEF CreateNodePool, TakesEffect, Return
  <2>2. NoneNew /\ CallHeld(c)'
    BY <2>1 DEF NoneNew, Running, CallHeld, Idle, IInv, TypeOK
  <2>3. \A q \in PoolIDs : Running(q)' /\ pools'[q].owner = c => Covered(c, q)'
    BY <2>1, <1>3 DEF Running
  <2>4. \A d \in Claims \ {c} : calls'[d] = calls[d] /\ claims'[d] = claims[d]
    BY <2>1 DEF IInv, TypeOK
  <2> QED BY <2>2, <2>3, <2>4, <1>2, OneClaimHeld DEF NoneNew
<1> QED BY <1>4, <1>5

(* waitForNode does nothing to pools. *)
LEMMA PollHolds ==
  ASSUME HeldInv, IInv, NEW c \in Claims, PollNode(c) \/ GiveUp(c), UNCHANGED claims
  PROVE  HeldInv'
<1>1. /\ pools' = pools /\ ctxDone' = ctxDone /\ calls[c].pc = "polling"
      /\ GoTo(c, "cleanup") \/ GoTo(c, "clearing") \/ Sleep(c)
  BY DEF PollNode, GiveUp, doksVars
<1>2. NoneNew /\ ctxDone' = FALSE
  BY <1>1 DEF NoneNew, Running, HeldInv
<1>3. calls \in [Claims -> Call]
  BY DEF IInv, TypeOK
<1>4. /\ \A d \in Claims \ {c} : calls'[d] = calls[d]
      /\ calls'[c].pool = calls[c].pool
      /\ calls'[c].pc \in {"cleanup", "clearing", "polling"}
  BY <1>1, <1>3 DEF GoTo, Sleep, Call
<1>5. CallHeld(c)'
  BY <1>4 DEF CallHeld
<1>6. \A p \in PoolIDs : Covered(c, p) => Covered(c, p)'
  BY <1>4 DEF Covered
<1> QED BY <1>2, <1>4, <1>5, <1>6, StillHeld

(* The pool of a failed Create is let go when it runs no more. *)
LEMMA CleanUpHolds ==
  ASSUME CallsSucceed, HeldInv, IInv, NEW c \in Claims, CleanUp(c), UNCHANGED claims
  PROVE  HeldInv'
<1>1. calls[c].pool \in PoolIDs
  BY DEF CleanUp, IInv, CallInv, CreatingPCs, TypeOK, Call
<1>2. PICK result \in Results : DeleteNodePool(calls[c].pool, result)
  BY DEF CleanUp
<1>3. NoneNew /\ \A p \in PoolIDs : p = calls[c].pool => ~Running(p)'
  BY <1>1, <1>2, DeleteStops
<1>4. claims[c].providerID = None /\ ctxDone' = FALSE
  BY DEF CleanUp, IInv, CallInv, CreatingPCs, HeldInv
<1>5. calls' = [calls EXCEPT ![c] = Idle]
  BY DEF CleanUp, Return
<1>6. /\ \A d \in Claims \ {c} : calls'[d] = calls[d]
      /\ CallHeld(c)'
  BY <1>5 DEF CallHeld, Idle, IInv, TypeOK
<1>7. \A p \in PoolIDs : Running(p)' /\ Covered(c, p) => Covered(c, p)'
  BY <1>3, <1>4, ConstantsAssumption DEF Covered
<1> QED BY <1>3, <1>4, <1>6, <1>7, StillHeld

(* The pool stays in hand until the claim is stored. *)
LEMMA ClearTaintsHolds ==
  ASSUME HeldInv, IInv, NEW c \in Claims, ClearTaints(c), UNCHANGED claims
  PROVE  HeldInv'
<1>1. NoneNew
  BY DEF ClearTaints, ClearPoolTaints, NoneNew, Running, IInv, TypeOK, Pool
<1>2. calls' = [calls EXCEPT ![c].pc = "created"] /\ ctxDone' = FALSE
  BY DEF ClearTaints, GoTo, HeldInv
<1>3. calls \in [Claims -> Call]
  BY DEF IInv, TypeOK
<1>4. /\ \A d \in Claims \ {c} : calls'[d] = calls[d]
      /\ calls'[c].pool = calls[c].pool /\ calls'[c].pc = "created"
  BY <1>2, <1>3 DEF Call
<1>5. CallHeld(c)'
  BY <1>4 DEF CallHeld
<1>6. \A p \in PoolIDs : Covered(c, p) => Covered(c, p)'
  BY <1>4 DEF Covered
<1> QED BY <1>1, <1>2, <1>4, <1>5, <1>6, StillHeld

-----------------------------------------------------------------------------
(* The claim's own steps *)

(* A step that makes no call. *)
LEMMA SamePools ==
  ASSUME HeldInv, UNCHANGED doksVars
  PROVE  NoneNew /\ ctxDone' = FALSE
BY DEF NoneNew, Running, HeldInv, doksVars

(* Nothing is in hand, and nothing is lost hold of. *)
LEMMA BeginHolds ==
  ASSUME HeldInv, IInv, NEW c \in Claims, BeginCreate(c) \/ BeginDelete(c)
  PROVE  HeldInv'
<1>1. NoneNew /\ ctxDone' = FALSE /\ calls[c].pool = None /\ claims' = claims
  BY SamePools DEF BeginCreate, BeginDelete, HeldInv, CallHeld
<1>2. calls \in [Claims -> Call] /\ claims[c] \in Claim
  BY DEF IInv, TypeOK
<1>3. \A d \in Claims \ {c} : calls'[d] = calls[d]
  BY <1>2 DEF BeginCreate, BeginDelete, GoTo
<1>4. CallHeld(c)'
  <2>1. CASE BeginCreate(c)
    BY <1>1, <1>2, <2>1 DEF BeginCreate, GoTo, CallHeld, Call
  <2>2. CASE BeginDelete(c)
    BY <1>1, <1>2, <2>2 DEF BeginDelete, CallHeld, Call
  <2> QED BY <2>1, <2>2
<1>5. \A p \in PoolIDs : Covered(c, p) => Covered(c, p)'
  BY <1>1, ConstantsAssumption DEF Covered
<1> QED BY <1>1, <1>3, <1>4, <1>5, StillHeld

(* The pool passes from the call to the claim. *)
LEMMA RegisterHolds ==
  ASSUME HeldInv, IInv, NEW c \in Claims, Register(c)
  PROVE  HeldInv'
<1>1. NoneNew /\ ctxDone' = FALSE
  BY SamePools DEF Register
<1>2. claims[c].providerID = None
  BY DEF Register, IInv, CallInv, CreatingPCs
<1>3. claims \in [Claims -> Claim] /\ calls \in [Claims -> Call]
  BY DEF IInv, TypeOK
<1>4. /\ \A d \in Claims \ {c} : calls'[d] = calls[d] /\ claims'[d] = claims[d]
      /\ claims'[c].providerID = calls[c].pool
      /\ claims'[c].phase = claims[c].phase
      /\ CallHeld(c)'
  BY <1>3 DEF Register, InstanceToNodeClaim, Return, Idle, CallHeld, Claim
<1>5. \A p \in PoolIDs : Covered(c, p) => Covered(c, p)'
  BY <1>2, <1>4, ConstantsAssumption DEF Covered
<1> QED BY <1>1, <1>4, <1>5, StillHeld

(* The provider ID still holds the pool. *)
LEMMA LookupHolds ==
  ASSUME HeldInv, IInv, NEW c \in Claims, Lookup(c)
  PROVE  HeldInv'
<1>1. NoneNew /\ ctxDone' = FALSE /\ claims' = claims /\ calls[c].pool = None
  BY SamePools DEF Lookup, IInv, CallInv
<1>2. calls \in [Claims -> Call]
  BY DEF IInv, TypeOK
<1>3. \/ Return(c)
      \/ GoTo(c, "deleted")
      \/ \E p : calls' = [calls EXCEPT ![c].pc = "delete", ![c].pool = p]
  BY DEF Lookup
<1>4. \A d \in Claims \ {c} : calls'[d] = calls[d]
  BY <1>2, <1>3 DEF Return, GoTo
<1>5. CallHeld(c)'
  BY <1>1, <1>2, <1>3 DEF Return, GoTo, CallHeld, Idle, Call
<1>6. \A p \in PoolIDs : Covered(c, p) => Covered(c, p)'
  BY <1>1, ConstantsAssumption DEF Covered
<1> QED BY <1>1, <1>4, <1>5, <1>6, StillHeld

(* So it does while the pool is deleted. *)
LEMMA DeletePoolHolds ==
  ASSUME CallsSucceed, HeldInv, IInv, NEW c \in Claims, DeletePool(c)
  PROVE  HeldInv'
<1>1. calls[c].pool = claims[c].providerID /\ calls[c].pool \in PoolIDs
  BY DEF DeletePool, IInv, CallInv, DeletingPCs, TypeOK, Claim
<1>2. NoneNew /\ ctxDone' = FALSE /\ claims' = claims
  BY <1>1, DeleteStops DEF DeletePool, HeldInv
<1>3. calls \in [Claims -> Call]
  BY DEF IInv, TypeOK
<1>4. Return(c) \/ GoTo(c, "deleted")
  BY DEF DeletePool
<1>5. /\ \A d \in Claims \ {c} : calls'[d] = calls[d]
      /\ CallHeld(c)'
  BY <1>1, <1>2, <1>3, <1>4 DEF Return, GoTo, CallHeld, Idle, Call
<1>6. \A p \in PoolIDs : Covered(c, p) => Covered(c, p)'
  BY <1>1, <1>2 DEF Covered
<1> QED BY <1>2, <1>5, <1>6, StillHeld

(* A claim goes when it has no pool, or when its pool was not found. *)
LEMMA FinalizeHolds ==
  ASSUME FitsOnePage, HeldInv, IInv, NEW c \in Claims, FinalizeStep(c)
  PROVE  HeldInv'
<1>1. NoneNew /\ ctxDone' = FALSE /\ calls \in [Claims -> Call] /\ claims \in [Claims -> Claim]
  BY SamePools DEF FinalizeStep, CheckTerminated, FinalizeUnlaunched, providerVars,
                   IInv, TypeOK
<1>2. CASE FinalizeUnlaunched(c)
  <2>1. calls[c].pool = None /\ claims[c].providerID = None /\ calls' = calls
    BY <1>2 DEF FinalizeUnlaunched, HeldInv, CallHeld, providerVars
  <2>2. \A p \in PoolIDs : ~Covered(c, p)
    BY <2>1, ConstantsAssumption DEF Covered
  <2>3. /\ \A d \in Claims \ {c} : claims'[d] = claims[d]
        /\ claims'[c].providerID = claims[c].providerID
    BY <1>1, <1>2 DEF FinalizeUnlaunched, SetPhase, Claim
  <2>4. CallHeld(c)'
    BY <2>1, <2>3 DEF CallHeld, HeldInv
  <2> QED BY <1>1, <2>1, <2>2, <2>3, <2>4, StillHeld
<1>3. CASE CheckTerminated(c)
  <2>1. /\ calls' = [calls EXCEPT ![c] = Idle]
        /\ calls[c].pool \in {None, claims[c].providerID}
        /\ claims[c].providerID # None
    BY <1>3 DEF CheckTerminated, Return, HeldInv, CallHeld, IInv, CallInv, DeletingPCs
  <2>2. CallHeld(c)' /\ \A d \in Claims \ {c} : calls'[d] = calls[d]
    BY <1>1, <2>1 DEF CallHeld, Idle
  <2>3. CASE UNCHANGED claims
    <3>1. \A p \in PoolIDs : Covered(c, p) => Covered(c, p)'
      BY <2>1, <2>3, ConstantsAssumption DEF Covered
    <3> QED BY <1>1, <2>2, <2>3, <3>1, StillHeld
  <2>4. CASE ~UNCHANGED claims
    <3>1. /\ SetPhase(c, "gone")
          /\ ~Exists(claims[c].providerID)
      <4>1. PICK page \in SUBSET PoolIDs, result \in Results :
              /\ ListNodePools(page, result)
              /\ GetNotFound(c, page, result)
              /\ SetPhase(c, "gone")
        BY <1>3, <2>4 DEF CheckTerminated
      <4> QED BY <4>1, <2>1, NotFoundMeansGone
    <3>2. \A p \in PoolIDs : Covered(c, p) => ~Running(p)
      BY <3>1, <2>1, ConstantsAssumption DEF Covered, Exists, Running
    <3>3. \A d \in Claims \ {c} : claims'[d] = claims[d]
      BY <1>1, <3>1 DEF SetPhase
    <3> QED BY <1>1, <2>2, <3>2, <3>3, StillHeld
  <2> QED BY <2>3, <2>4
<1> QED BY <1>2, <1>3 DEF FinalizeStep

-----------------------------------------------------------------------------
(* The world *)

(* No claim's pool is forgotten with a new, a deleted or an edited claim. *)
LEMMA DemandHolds ==
  ASSUME HeldInv, IInv, NEW c \in Claims, Demand(c)
  PROVE  HeldInv'
<1>1. /\ NoneNew /\ ctxDone' = FALSE /\ calls' = calls
      /\ claims \in [Claims -> Claim]
  BY SamePools DEF Demand, Provision, RequestDelete, DropAnnotation, providerVars,
                   IInv, TypeOK
<1>2. /\ \A d \in Claims \ {c} : claims'[d] = claims[d]
      /\ claims'[c].providerID = claims[c].providerID
      /\ claims'[c].phase \in {"live", "deleting"}
  BY <1>1 DEF Demand, Provision, RequestDelete, DropAnnotation, SetPhase, Claim
<1>3. CallHeld(c)'
  BY <1>1, <1>2 DEF CallHeld, HeldInv
<1>4. \A p \in PoolIDs : Covered(c, p) => Covered(c, p)'
  BY <1>1, <1>2 DEF Covered
<1> QED BY <1>1, <1>2, <1>3, <1>4, StillHeld

(* What leaves claims and calls alone and starts no pool. *)
LEMMA AsideHolds ==
  ASSUME HeldInv, NoneNew, ctxDone' = FALSE, UNCHANGED <<calls, claims>>
  PROVE  HeldInv'
<1>1. \A c \in Claims : CallHeld(c)'
  BY DEF HeldInv, CallHeld
<1>2. \A p \in PoolIDs : Running(p)' =>
        pools'[p].owner \in Claims /\ Covered(pools[p].owner, p)'
  BY DEF HeldInv, NoneNew, Covered
<1> QED BY <1>1, <1>2 DEF HeldInv

(* DOKS makes droplets and removes what is being deleted. *)
LEMMA DOKSHolds ==
  ASSUME HeldInv, IInv, DOKSStep
  PROVE  HeldInv'
<1>1. NoneNew
  <2>1. PICK p \in PoolIDs : ProvisionNode(p) \/ RemovePool(p)
    BY DEF DOKSStep
  <2>2. \A q \in PoolIDs \ {p} : pools'[q] = pools[q]
    BY <2>1 DEF ProvisionNode, RemovePool, IInv, TypeOK
  <2>3. pools[p] \in Pool /\ pools \in [PoolIDs -> Pool]
    BY DEF IInv, TypeOK
  <2>4. Running(p)' => Running(p) /\ pools'[p].owner = pools[p].owner
    BY <2>1, <2>3 DEF ProvisionNode, RemovePool, Running, Pool
  <2> QED BY <2>2, <2>4 DEF NoneNew, Running
<1>2. ctxDone' = FALSE /\ UNCHANGED <<calls, claims>>
  BY DEF DOKSStep, ProvisionNode, RemovePool, HeldInv
<1> QED BY <1>1, <1>2, AsideHolds

(* The collector starts no pool. *)
LEMMA ReconcileHolds ==
  ASSUME CallsSucceed, HeldInv, IInv, Reconcile
  PROVE  HeldInv'
<1>1. CASE UNCHANGED cloudVars
  <2>1. UNCHANGED doksVars /\ UNCHANGED <<calls, claims>>
    BY <1>1 DEF cloudVars, providerVars
  <2> QED BY <2>1, SamePools, AsideHolds
<1>2. ASSUME NEW p \in PoolIDs, Sweep(p) PROVE HeldInv'
  <2>1. NoneNew
    BY <1>2, DeleteStops DEF Sweep
  <2> QED BY <1>2, <2>1, AsideHolds DEF Sweep, HeldInv
<1> QED BY <1>1, <1>2
        DEF Reconcile, BeginPass, ListInstances, ListClaims, FinishPass

(* Every step, one action at a time. *)
LEMMA HeldStep ==
  ASSUME FitsOnePage, CallsSucceed, HeldInv, IInv, [Next]_vars
  PROVE  HeldInv'
<1>1. CASE UNCHANGED cloudVars
  <2>1. UNCHANGED doksVars /\ UNCHANGED <<calls, claims>>
    BY <1>1 DEF cloudVars, providerVars
  <2> QED BY <2>1, SamePools, AsideHolds
<1>2. CASE DOKSStep
  BY <1>2, DOKSHolds
<1>3. ASSUME NEW c \in Claims, CreateCall(c) PROVE HeldInv'
  BY <1>3, SubmitPoolHolds, PollHolds, CleanUpHolds, ClearTaintsHolds
  DEF CreateCall, CreateStep
<1>4. ASSUME NEW c \in Claims, ClaimStep(c) PROVE HeldInv'
  BY <1>4, BeginHolds, RegisterHolds, LookupHolds, DeletePoolHolds, FinalizeHolds
  DEF ClaimStep, DeleteStep
<1>5. ASSUME NEW c \in Claims, Demand(c) PROVE HeldInv'
  BY <1>5, DemandHolds
<1>6. ASSUME NEW c \in Claims, InformerStep(c) PROVE HeldInv'
  BY <1>6, <1>1 DEF InformerStep, Deliver, Touch
<1>7. CASE GCStep
  BY <1>7, ReconcileHolds DEF GCStep
<1>8. ~Stop /\ ~Restart
  BY DEF CallsSucceed, HeldInv, Stop, Shutdown, Restart
<1> QED BY <1>1, <1>2, <1>3, <1>4, <1>5, <1>6, <1>7, <1>8 DEF Next, vars

(* At first nothing runs that is Karpenter's. *)
LEMMA HeldInit ==
  ASSUME Init
  PROVE  HeldInv
<1>1. ctxDone = FALSE /\ \A p \in PoolIDs : ~Running(p)
  BY DEF Init, DOKSInit, Running, ForeignPool, AbsentPool
<1>2. \A c \in Claims : CallHeld(c)
  BY DEF Init, ProviderInit, Idle, CallHeld
<1> QED BY <1>1, <1>2 DEF HeldInv

(* When calls succeed and the page shows all pools there are, every managed *)
(* pool that runs is its claim's: a Create that times out, a deletion       *)
(* during a Create and the collector leave none behind, whatever their      *)
(* order.                                                                   *)
THEOREM NoPoolGetsLost ==
  ASSUME CallsSucceed
  PROVE  Spec /\ []FitsOnePage => []NoPoolIsLost
<1>1. Init => HeldInv
  BY HeldInit
<1>2. IInv /\ FitsOnePage /\ HeldInv /\ [Next]_vars => HeldInv'
  BY HeldStep
<1>3. IInv /\ HeldInv => NoPoolIsLost
  BY DEF HeldInv, Covered, Running, NoPoolIsLost, Holds
<1> QED BY Invariance, <1>1, <1>2, <1>3, PTL DEF Spec

-----------------------------------------------------------------------------
(* Orphans: what nobody holds is not taken up again, and the collector     *)
(* does not lose it.                                                       *)

(* A pass has in hand what its place in Reconcile calls for, and no more. *)
PassShape ==
  /\ gc.pc # "listClaims" => gc.instances = {}
  /\ gc.pc # "sweep" => gc.orphans = {}

LEMMA PassShapeStep ==
  ASSUME IInv, PassShape, [Next]_vars
  PROVE  PassShape'
<1>1. gc \in Pass
  BY DEF IInv, TypeOK
<1>2. CASE gc' = gc \/ gc' = NoPass
  BY <1>2, NoPassType DEF PassShape
<1>3. CASE GCStep
  <2>1. CASE BeginPass \/ FinishPass
    BY <2>1, NoPassType DEF BeginPass, FinishPass, PassShape, Pass
  <2>2. CASE ListInstances
    BY <2>2, NoPassType DEF ListInstances, Requeue, PassShape, Pass
  <2>3. CASE ListClaims
    BY <2>3, <1>1 DEF ListClaims, PassShape, Pass
  <2>4. CASE \E q \in PoolIDs : Sweep(q)
    BY <2>4, <1>1 DEF Sweep, PassShape, Pass
  <2> QED BY <1>3, <2>1, <2>2, <2>3, <2>4 DEF GCStep, Reconcile
<1> QED BY <1>2, <1>3
        DEF Next, DOKSStep, CreateCall, ClaimStep, Demand, InformerStep, Deliver, Touch,
            Stop, Restart, vars, gcVars

(* A claim comes to hold a pool by making it, or has it already.           *)
LEMMA HoldsBefore ==
  ASSUME IInv, [Next]_vars, NEW c \in Claims, NEW p \in PoolIDs,
         pools[p].state # "absent", Holds(c, p)'
  PROVE  Holds(c, p)
<1> USE ConstantsAssumption
<1>1. /\ calls \in [Claims -> Call] /\ claims \in [Claims -> Claim]
      /\ p # None
  BY DEF IInv, TypeOK
<1>2. claims[c].phase # "gone"
  BY ClaimProgress DEF ClaimMoves, Holds
<1>3. CASE UNCHANGED <<calls, claims>>
  BY <1>3 DEF Holds
<1>4. ASSUME NEW d \in Claims, CreateStep(d), UNCHANGED claims PROVE Holds(c, p)
  <2>1. calls'[c].pool \in {calls[c].pool, None} \/ (c = d /\ SubmitPool(d))
    BY <1>4, <1>1 DEF CreateStep, SubmitPool, PollNode, GiveUp, CleanUp, ClearTaints,
                      GoTo, Return, Sleep, Idle, Call
  <2>2. CASE c = d /\ SubmitPool(d)
    <3>1. PICK q \in PoolIDs, result \in Results :
            /\ CreateNodePool(q, PoolRequest(d), result)
            /\ \/ /\ result = "ok"
                  /\ calls' = [calls EXCEPT ![d] = [pc |-> "polling", pool |-> q,
                                                    attempt |-> 0]]
               \/ result # "ok" /\ Return(d)
      BY <2>2 DEF SubmitPool
    <3>2. calls'[c].pool = None \/ (calls'[c].pool = q /\ pools[q].state = "absent")
      BY <2>2, <3>1, <1>1 DEF CreateNodePool, Refused, Return, Idle
    <3> QED BY <3>2, <1>1, <1>2, <1>4 DEF Holds
  <2> QED BY <2>1, <2>2, <1>1, <1>2, <1>4 DEF Holds
<1>5. ASSUME NEW d \in Claims, ClaimStep(d) PROVE Holds(c, p)
  <2>1. CASE Register(d)
    <3>1. /\ calls'[c].pool \in {calls[c].pool, None}
          /\ claims'[c].providerID \in {claims[c].providerID, calls[c].pool}
      BY <2>1, <1>1 DEF Register, InstanceToNodeClaim, Return, Idle, Call, Claim
    <3> QED BY <3>1, <1>1, <1>2 DEF Holds
  <2>2. CASE FinalizeStep(d)
    <3>1. /\ calls'[c].pool \in {calls[c].pool, None}
          /\ claims'[c].providerID = claims[c].providerID
      BY <2>2, <1>1 DEF FinalizeStep, CheckTerminated, FinalizeUnlaunched, SetPhase, Return,
                        Idle, Call, Claim, providerVars
    <3> QED BY <3>1, <1>1, <1>2 DEF Holds
  <2>3. CASE BeginCreate(d) \/ BeginDelete(d) \/ DeleteStep(d)
    <3>1. claims' = claims
      BY <2>3 DEF BeginCreate, BeginDelete, DeleteStep, Lookup, DeletePool
    <3>2. claims[d].poolID \in {None, claims[d].providerID}
      BY DEF IInv, ClaimInv
    <3>3. calls'[c].pool \in {calls[c].pool, None, claims[c].providerID}
      BY <2>3, <3>2, <1>1 DEF BeginCreate, BeginDelete, DeleteStep, Lookup, WithDroplet,
                        DeletePool, GoTo, Return, Idle, Call
    <3> QED BY <3>1, <3>3, <1>1, <1>2 DEF Holds
  <2> QED BY <1>5, <2>1, <2>2, <2>3 DEF ClaimStep
<1>6. ASSUME NEW d \in Claims, Demand(d) PROVE Holds(c, p)
  <2>1. calls' = calls /\ claims'[c].providerID = claims[c].providerID
    BY <1>6, <1>1 DEF Demand, Provision, RequestDelete, DropAnnotation, SetPhase, Claim,
                      providerVars
  <2> QED BY <2>1, <1>2 DEF Holds
<1>7. CASE Restart
  <2>1. claims' = claims /\ calls'[c].pool = None
    BY <1>7 DEF Restart, Idle
  <2> QED BY <2>1, <1>1, <1>2 DEF Holds
<1> QED BY <1>3, <1>4, <1>5, <1>6, <1>7
        DEF Next, DOKSStep, CreateCall, InformerStep, Deliver, Touch, GCStep, Reconcile,
            BeginPass, ListInstances, ListClaims, Sweep, FinishPass, Stop,
            vars, cloudVars, providerVars

LEMMA OrphanStays ==
  ASSUME IInv, [Next]_vars, NEW p \in PoolIDs, Orphan(p), pools'[p].state = "up"
  PROVE  Orphan(p)'
<1>1. pools'[p].managed /\ pools'[p].droplet
  BY StepKeeps DEF Advance, Orphan
<1>2. \A c \in Claims : ~Holds(c, p)'
  BY HoldsBefore DEF Orphan
<1> QED BY <1>1, <1>2 DEF Orphan

(* No claim in the cache stands for an orphan: the cache is behind the     *)
(* claims, and a claim that is gone has left no pool.                      *)
LEMMA OrphanIsUnknown ==
  ASSUME IInv, FinalizedClaimLeavesNoPool, NEW p \in PoolIDs, Orphan(p)
  PROVE  p \notin KnownIDs
<1> SUFFICES ASSUME NEW c \in Claims, seen[c].providerID = p, p # None PROVE FALSE
  BY DEF KnownIDs
<1>1. claims[c].providerID = p
  BY DEF IInv, SeenInv
<1>2. claims[c].phase # "gone"
  BY <1>1 DEF FinalizedClaimLeavesNoPool, Orphan, Exists
<1> QED BY <1>1, <1>2 DEF Orphan, Holds

(* As long as one page shows all pools there are, an orphan that a pass    *)
(* could see is deleted by it, unless the deletion fails or the process is *)
(* started again: neither a stale cache nor anything done meanwhile for a  *)
(* claim saves it.                                                         *)
THEOREM CollectorPursuesOrphans ==
  Spec /\ []FitsOnePage => OrphansArePursued
<1> DEFINE Pursued(p) ==
      /\ pools'[p].state = "up" => Orphan(p)'
      /\ gc.pc = "listInstances" /\ gc'.pc = "listClaims" => p \in gc'.instances
      /\ p \in gc.instances \cup gc.orphans /\ restarts' = restarts
           => p \in gc'.instances \cup gc'.orphans \/ Sweep(p)
<1>1. Init => PassShape
  BY DEF Init, GCInit, NoPass, PassShape
<1>2. ASSUME IInv, PassShape, FinalizedClaimLeavesNoPool, FitsOnePage, [Next]_vars,
             NEW p \in PoolIDs, Orphan(p)
      PROVE  Pursued(p)
  <2>1. gc \in Pass
    BY <1>2 DEF IInv, TypeOK
  <2>2. pools'[p].state = "up" => Orphan(p)'
    BY <1>2, OrphanStays
  <2>3. CASE UNCHANGED gc
    BY <2>2, <2>3
  <2>4. CASE Restart
    <3>1. restarts' # restarts /\ gc'.pc = "idle"
      BY <2>4, <1>2 DEF Restart, NoPass, IInv, TypeOK
    <3> QED BY <2>2, <3>1
  <2>5. CASE BeginPass
    BY <2>2, <2>5, <1>2, NoPassType DEF BeginPass, PassShape, Pass
  <2>6. CASE ListInstances
    <3>1. gc.instances = {} /\ gc.orphans = {}
      BY <2>6, <1>2 DEF ListInstances, PassShape
    <3>2. ASSUME gc'.pc = "listClaims" PROVE p \in gc'.instances
      <4>1. PICK page \in SUBSET PoolIDs, result \in Results :
              /\ ListNodePools(page, result)
              /\ \/ result = "error" /\ Requeue
                 \/ /\ result = "ok"
                    /\ gc' = [NoPass EXCEPT !.pc = "listClaims", !.instances = InstancesIn(page)]
        BY <2>6 DEF ListInstances
      <4>2. result = "ok"
        BY <4>1, <3>2 DEF Requeue, NoPass
      <4>3. page \in PagesOf({q \in PoolIDs : Exists(q)})
        BY <4>1, <4>2 DEF ListNodePools, Refused
      <4>4. page = {q \in PoolIDs : Exists(q)}
        BY <4>3, <1>2 DEF PagesOf, FitsOnePage
      <4>5. p \in InstancesIn(page)
        BY <4>4, <1>2 DEF InstancesIn, ManagedPools, Orphan, Exists
      <4> QED BY <4>1, <4>2, <4>5, NoPassType DEF Pass
    <3> QED BY <2>2, <3>1, <3>2
  <2>7. CASE ListClaims
    <3>1. p \in gc.instances \cup gc.orphans => p \in gc'.orphans
      BY <2>7, <2>1, <1>2, OrphanIsUnknown DEF ListClaims, OrphansOf, PassShape, Pass
    <3>2. gc.pc # "listInstances"
      BY <2>7 DEF ListClaims
    <3> QED BY <2>2, <3>1, <3>2
  <2>8. ASSUME NEW q \in PoolIDs, Sweep(q) PROVE Pursued(p)
    <3>1. /\ gc.instances = {} /\ gc.pc = "sweep"
          /\ gc'.orphans = gc.orphans \ {q}
      BY <2>8, <2>1, <1>2 DEF Sweep, PassShape, Pass
    <3> QED BY <2>2, <2>8, <3>1
  <2>9. CASE FinishPass
    BY <2>2, <2>9, <1>2 DEF FinishPass, PassShape
  <2> QED BY <1>2, <2>3, <2>4, <2>5, <2>6, <2>7, <2>8, <2>9
          DEF Next, DOKSStep, CreateCall, ClaimStep, Demand, InformerStep, Deliver, Touch,
              GCStep, Reconcile, Stop, vars, gcVars
<1>3. IInv /\ PassShape /\ FinalizedClaimLeavesNoPool /\ FitsOnePage /\ [Next]_vars
        => [\A p \in PoolIDs : Orphan(p) => Pursued(p)]_vars
  BY <1>2
<1>4. IInv /\ PassShape /\ [Next]_vars => PassShape'
  BY PassShapeStep
<1> QED BY Invariance, FinalizedClaimsLeaveNoPool, <1>1, <1>3, <1>4, PTL
        DEF Spec, OrphansArePursued

=============================================================================
