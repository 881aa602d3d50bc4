--------------------------- MODULE LifecycleProofs ---------------------------
(***************************************************************************)
(* Proofs, for all values of the constants, of the safety of Lifecycle.    *)
(***************************************************************************)
EXTENDS Lifecycle, FiniteSetTheorems, TLAPS

(* The pools the cluster has at the moment fit the one page that is read,  *)
(* however many there have been.                                           *)
FitsOnePage ==
  LET existing == {p \in PoolIDs : Exists(p)}
  IN  IsFiniteSet(existing) /\ Cardinality(existing) <= PageSize

-----------------------------------------------------------------------------
(* What a step may do to the pools: a managed pool stays managed, keeps    *)
(* its owner and its droplet, and does not come back.                      *)
Advance ==
  /\ pools' \in [PoolIDs -> Pool]
  /\ \A p \in PoolIDs : PoolInv(p)'
  /\ \A p \in PoolIDs : pools[p].managed =>
       /\ pools'[p].managed
       /\ pools'[p].owner = pools[p].owner
       /\ pools[p].droplet => pools'[p].droplet
       /\ pools[p].state = "gone" => pools'[p].state = "gone"

(* A step that leaves the pools alone is such a step. *)
LEMMA StandStill ==
  ASSUME IInv, pools' = pools
  PROVE  Advance
BY DEF IInv, TypeOK, Advance, PoolInv

(* CreateNodePool makes a managed pool of the claim's and changes no other. *)
LEMMA CreateAdvances ==
  ASSUME IInv, NEW c \in Claims, NEW p \in PoolIDs, NEW result \in Results,
         CreateNodePool(p, PoolRequest(c), result)
  PROVE  /\ Advance
         /\ result = "ok" => pools'[p].managed /\ pools'[p].owner = c
<1>1. CASE pools' = pools
  <2>1. result # "ok" \/ (pools'[p].managed /\ pools'[p].owner = c)
    BY <1>1 DEF CreateNodePool, TakesEffect, PoolRequest, IInv, TypeOK
  <2> QED BY <1>1, <2>1, StandStill
<1>2. CASE pools[p].state = "absent" /\ pools' = [pools EXCEPT ![p] = PoolRequest(c)]
  <2>1. PoolRequest(c) \in Pool
    BY DEF PoolRequest, Pool
  <2>2. pools' \in [PoolIDs -> Pool]
    BY <1>2, <2>1 DEF IInv, TypeOK
  <2>3. p \notin ForeignPools /\ ~pools[p].managed
    BY <1>2 DEF IInv, PoolInv, ForeignPool, AbsentPool
  <2>4. \A q \in PoolIDs : q # p => pools'[q] = pools[q]
    BY <1>2 DEF IInv, TypeOK
  <2>5. pools'[p] = PoolRequest(c)
    BY <1>2 DEF IInv, TypeOK
  <2> QED BY <2>2, <2>3, <2>4, <2>5 DEF Advance, IInv, PoolInv, PoolRequest
<1> QED BY <1>1, <1>2 DEF CreateNodePool

(* A change of one managed pool other than losing its tag, its owner or    *)
(* its droplet, or coming back, is such a step.                            *)
LEMMA ChangeAdvances ==
  ASSUME IInv, NEW p \in PoolIDs, pools[p].managed,
         NEW new \in Pool, pools' = [pools EXCEPT ![p] = new],
         new.managed, new.owner = pools[p].owner,
         pools[p].droplet => new.droplet, new.state # "absent",
         pools[p].state = "gone" => new.state = "gone"
  PROVE  Advance
<1>1. pools' \in [PoolIDs -> Pool]
  BY DEF IInv, TypeOK
<1>2. p \notin ForeignPools
  BY DEF IInv, PoolInv, ForeignPool, AbsentPool
<1>3. pools'[p] = new /\ \A q \in PoolIDs : q # p => pools'[q] = pools[q]
  BY DEF IInv, TypeOK
<1> QED BY <1>1, <1>2, <1>3 DEF Advance, IInv, PoolInv

(* So are DeleteNodePool and UpdateNodePool of a managed pool. *)
LEMMA DeleteAdvances ==
  ASSUME IInv, NEW p \in PoolIDs, pools[p].managed, NEW result \in Results,
         DeleteNodePool(p, result)
  PROVE  Advance
<1>1. CASE pools' = pools
  BY <1>1, StandStill
<1>2. CASE Exists(p) /\ pools' = [pools EXCEPT ![p].state = "deleting"]
  <2> DEFINE new == [pools[p] EXCEPT !.state = "deleting"]
  <2>1. pools[p] \in Pool
    BY DEF IInv, TypeOK
  <2>2. /\ new \in Pool /\ new.managed /\ new.owner = pools[p].owner
        /\ new.droplet = pools[p].droplet /\ new.state = "deleting"
    BY <2>1 DEF Pool
  <2>3. pools' = [pools EXCEPT ![p] = new]
    BY <1>2
  <2> HIDE DEF new
  <2> QED BY <1>2, <2>2, <2>3, ChangeAdvances DEF Exists
<1> QED BY <1>1, <1>2 DEF DeleteNodePool

LEMMA ClearAdvances ==
  ASSUME IInv, NEW p \in PoolIDs, pools[p].managed, NEW result \in Results,
         ClearPoolTaints(p, result)
  PROVE  Advance
<1>1. CASE pools' = pools
  BY <1>1, StandStill
<1>2. CASE Exists(p) /\ pools' = [pools EXCEPT ![p].tainted = FALSE]
  <2> DEFINE new == [pools[p] EXCEPT !.tainted = FALSE]
  <2>1. pools[p] \in Pool
    BY DEF IInv, TypeOK
  <2>2. /\ new \in Pool /\ new.managed /\ new.owner = pools[p].owner
        /\ new.droplet = pools[p].droplet /\ new.state = pools[p].state
    BY <2>1 DEF Pool
  <2>3. pools' = [pools EXCEPT ![p] = new]
    BY <1>2
  <2> HIDE DEF new
  <2> QED BY <1>2, <2>2, <2>3, ChangeAdvances DEF Exists
<1> QED BY <1>1, <1>2 DEF ClearPoolTaints

-----------------------------------------------------------------------------
(* What a step leaves alone keeps its part of the invariant. *)

LEMMA CallKept ==
  ASSUME IInv, Advance, NEW c \in Claims,
         calls'[c] = calls[c], claims'[c] = claims[c]
  PROVE  CallInv(c)'
BY DEF IInv, TypeOK, Call, Claim, Advance, CallInv, CreatingPCs

LEMMA ClaimKept ==
  ASSUME IInv, Advance, NEW c \in Claims, claims'[c] = claims[c]
  PROVE  ClaimInv(c)'
BY DEF IInv, TypeOK, Claim, Advance, ClaimInv

LEMMA SeenKept ==
  ASSUME IInv, NEW c \in Claims, seen'[c] = seen[c],
         claims'[c].providerID = claims[c].providerID,
         claims[c].phase \in {"deleting", "gone"} => claims'[c].phase \in {"deleting", "gone"}
  PROVE  SeenInv(c)'
BY DEF IInv, SeenInv

LEMMA PassKept ==
  ASSUME IInv, Advance, gc' = gc
  PROVE  PassInv'
BY DEF IInv, TypeOK, Pass, Advance, PassInv

(* A step on the call of one claim c, the claims and the collector apart:  *)
(* what is left to show is c's call.                                       *)
LEMMA OneCall ==
  ASSUME IInv, Advance, NEW c \in Claims, NEW new \in Call,
         calls' = [calls EXCEPT ![c] = new], ctxDone' \in BOOLEAN,
         UNCHANGED <<claims, gcVars, restarts>>, CallInv(c)'
  PROVE  IInv'
<1>1. TypeOK'
  BY DEF IInv, TypeOK, Advance, gcVars
<1>2. \A d \in Claims : CallInv(d)'
  <2> TAKE d \in Claims
  <2>1. CASE d = c
    BY <2>1
  <2>2. CASE d # c
    BY <2>2, CallKept DEF IInv, TypeOK
  <2> QED BY <2>1, <2>2
<1>3. \A d \in Claims : ClaimInv(d)' /\ SeenInv(d)'
  BY ClaimKept, SeenKept DEF gcVars
<1>4. PassInv'
  BY PassKept DEF gcVars
<1> QED BY <1>1, <1>2, <1>3, <1>4 DEF IInv, Advance

(* A step on the claim c and on its call: what is left to show is theirs.  *)
LEMMA OneClaim ==
  ASSUME IInv, Advance, NEW c \in Claims, NEW newCall \in Call, NEW newClaim \in Claim,
         calls' = [calls EXCEPT ![c] = newCall],
         claims' = [claims EXCEPT ![c] = newClaim], ctxDone' \in BOOLEAN,
         UNCHANGED <<gcVars, restarts>>,
         CallInv(c)', ClaimInv(c)', SeenInv(c)'
  PROVE  IInv'
<1>1. TypeOK'
  BY DEF IInv, TypeOK, Advance, gcVars
<1>2. \A d \in Claims : CallInv(d)' /\ ClaimInv(d)' /\ SeenInv(d)'
  <2> TAKE d \in Claims
  <2>1. CASE d = c
    BY <2>1
  <2>2. CASE d # c
    <3>1. calls'[d] = calls[d] /\ claims'[d] = claims[d] /\ seen'[d] = seen[d]
      BY <2>2 DEF IInv, TypeOK, gcVars
    <3> QED BY <3>1, CallKept, ClaimKept, SeenKept
  <2> QED BY <2>1, <2>2
<1>3. PassInv'
  BY PassKept DEF gcVars
<1> QED BY <1>1, <1>2, <1>3 DEF IInv, Advance

(* A step on the collector and its view: what is left to show is theirs.   *)
LEMMA OneView ==
  ASSUME IInv, Advance, UNCHANGED <<ctxDone, calls, claims, restarts>>,
         seen' \in [Claims -> Claim], queue' \subseteq Claims, gc' \in Pass,
         \A c \in Claims : SeenInv(c)', PassInv'
  PROVE  IInv'
<1>1. TypeOK'
  BY DEF IInv, TypeOK, Advance
<1>2. \A c \in Claims : CallInv(c)' /\ ClaimInv(c)'
  BY CallKept, ClaimKept
<1> QED BY <1>1, <1>2 DEF IInv, Advance

-----------------------------------------------------------------------------
(* Each step keeps the invariant.  First what DOKS does on its own. *)

LEMMA ProvisionNodeKeeps ==
  ASSUME IInv, NEW p \in PoolIDs, ProvisionNode(p),
         UNCHANGED <<calls, claims, gcVars, restarts>>
  PROVE  IInv' /\ Advance
<1>1. p \notin ForeignPools
  BY DEF ProvisionNode, IInv, PoolInv, ForeignPool, AbsentPool
<1>2. /\ pools' \in [PoolIDs -> Pool]
      /\ pools'[p] = [pools[p] EXCEPT !.droplet = TRUE]
      /\ \A q \in PoolIDs : q # p => pools'[q] = pools[q]
  BY DEF ProvisionNode, IInv, TypeOK, Pool
<1>3. Advance
  BY <1>1, <1>2 DEF ProvisionNode, Advance, IInv, PoolInv, TypeOK, Pool
<1> QED BY <1>3, OneView, SeenKept, PassKept DEF ProvisionNode, gcVars, IInv, TypeOK

LEMMA RemovePoolKeeps ==
  ASSUME IInv, NEW p \in PoolIDs, RemovePool(p),
         UNCHANGED <<calls, claims, gcVars, restarts>>
  PROVE  IInv' /\ Advance
<1>1. p \notin ForeignPools
  BY DEF RemovePool, IInv, PoolInv, ForeignPool, AbsentPool
<1>2. /\ pools' \in [PoolIDs -> Pool]
      /\ pools'[p] = [pools[p] EXCEPT !.state = "gone"]
      /\ \A q \in PoolIDs : q # p => pools'[q] = pools[q]
  BY DEF RemovePool, IInv, TypeOK, Pool
<1>3. Advance
  BY <1>1, <1>2 DEF RemovePool, Advance, IInv, PoolInv, TypeOK, Pool
<1> QED BY <1>3, OneView, SeenKept, PassKept DEF RemovePool, gcVars, IInv, TypeOK

-----------------------------------------------------------------------------
(* The steps of Create. *)

LEMMA IdleType == Idle \in Call
BY MaxAttemptsAssumption DEF Idle, Call

LEMMA ReturnKeeps ==
  ASSUME IInv, Advance, NEW c \in Claims, Return(c), ctxDone' \in BOOLEAN,
         UNCHANGED <<claims, gcVars, restarts>>
  PROVE  IInv'
<1>1. calls'[c] = Idle
  BY DEF Return, IInv, TypeOK
<1>2. CallInv(c)'
  BY <1>1 DEF CallInv, Idle, CreatingPCs, DeletingPCs
<1> QED BY <1>2, IdleType, OneCall DEF Return

LEMMA SubmitPoolKeeps ==
  ASSUME IInv, NEW c \in Claims, SubmitPool(c), UNCHANGED <<claims, gcVars, restarts>>
  PROVE  IInv' /\ Advance
<1>1. PICK p \in PoolIDs, result \in Results :
        /\ CreateNodePool(p, PoolRequest(c), result)
        /\ \/ /\ result = "ok"
              /\ calls' = [calls EXCEPT ![c] = [pc |-> "polling", pool |-> p, attempt |-> 0]]
           \/ /\ result # "ok"
              /\ Return(c)
  BY DEF SubmitPool
<1>2. Advance /\ (result = "ok" => pools'[p].managed /\ pools'[p].owner = c)
  BY <1>1, CreateAdvances
<1>3. ctxDone' \in BOOLEAN
  BY DEF SubmitPool, IInv, TypeOK
<1>4. CASE result = "ok"
  <2> DEFINE new == [pc |-> "polling", pool |-> p, attempt |-> 0]
  <2>1. new \in Call
    BY MaxAttemptsAssumption DEF Call, CreatePCs
  <2>2. calls' = [calls EXCEPT ![c] = new]
    BY <1>1, <1>4
  <2>3. calls'[c] = new
    BY <2>2 DEF IInv, TypeOK
  <2>4. claims[c].phase \in {"live", "deleting"} /\ claims[c].providerID = None
    BY DEF SubmitPool, IInv, CallInv
  <2>5. CallInv(c)'
    BY ConstantsAssumption, <1>2, <1>4, <2>3, <2>4 DEF CallInv, CreatingPCs, DeletingPCs
  <2> QED BY <1>2, <1>3, <2>1, <2>2, <2>5, OneCall
<1>5. CASE result # "ok"
  BY <1>1, <1>2, <1>3, <1>5, ReturnKeeps
<1> QED BY <1>4, <1>5

(* A call that goes on with the pool it has. *)
LEMMA GoOnKeeps ==
  ASSUME IInv, Advance, NEW c \in Claims, calls[c].pc \in CreatingPCs,
         NEW pc \in CreatingPCs, NEW n \in 0..MaxAttempts,
         calls' = [calls EXCEPT ![c] = [calls[c] EXCEPT !.pc = pc, !.attempt = n]],
         pc \in {"clearing", "created"} => pools[calls[c].pool].droplet,
         ctxDone' \in BOOLEAN, UNCHANGED <<claims, gcVars, restarts>>
  PROVE  IInv'
<1> DEFINE new == [calls[c] EXCEPT !.pc = pc, !.attempt = n]
<1>1. new \in Call /\ new.pc = pc /\ new.pool = calls[c].pool
  BY DEF IInv, TypeOK, Call, CreatingPCs, CreatePCs
<1>2. calls' = [calls EXCEPT ![c] = new]
  OBVIOUS
<1> HIDE DEF new
<1>3. calls'[c] = new
  BY <1>2 DEF IInv, TypeOK
<1>4. calls[c].pool \in PoolIDs
  BY DEF IInv, CallInv, TypeOK, Call
<1>5. CallInv(c)'
  BY <1>1, <1>3, <1>4 DEF CallInv, CreatingPCs, DeletingPCs, IInv, Advance
<1> QED BY <1>1, <1>2, <1>5, OneCall

LEMMA PollNodeKeeps ==
  ASSUME IInv, NEW c \in Claims, PollNode(c), UNCHANGED <<claims, gcVars, restarts>>
  PROVE  IInv' /\ Advance
<1>1. Advance /\ ctxDone' \in BOOLEAN
  BY StandStill DEF PollNode, doksVars, IInv, TypeOK
<1>2. calls[c].pc \in CreatingPCs /\ calls[c] \in Call
  BY DEF PollNode, CreatingPCs, IInv, TypeOK
<1>3. CASE GoTo(c, "cleanup")
  <2>1. calls' = [calls EXCEPT ![c] = [calls[c] EXCEPT !.pc = "cleanup",
                                                       !.attempt = calls[c].attempt]]
    BY <1>2, <1>3 DEF GoTo, Call
  <2> QED BY <1>1, <1>2, <2>1, GoOnKeeps DEF CreatingPCs, Call
<1>4. CASE NodeReady(calls[c].pool) /\ GoTo(c, "clearing")
  <2>1. calls' = [calls EXCEPT ![c] = [calls[c] EXCEPT !.pc = "clearing",
                                                       !.attempt = calls[c].attempt]]
    BY <1>2, <1>4 DEF GoTo, Call
  <2> QED BY <1>1, <1>2, <1>4, <2>1, GoOnKeeps DEF CreatingPCs, Call, NodeReady
<1>5. CASE Sleep(c)
  <2>1. calls[c].attempt + 1 \in 0..MaxAttempts
    BY <1>2, MaxAttemptsAssumption DEF PollNode, AttemptsLeft, Call
  <2>2. calls' = [calls EXCEPT ![c] = [calls[c] EXCEPT !.pc = "polling",
                                                       !.attempt = calls[c].attempt + 1]]
    BY <1>2, <1>5 DEF Sleep, Call, PollNode
  <2> QED BY <1>1, <1>2, <2>1, <2>2, GoOnKeeps DEF CreatingPCs
<1> QED BY <1>3, <1>4, <1>5 DEF PollNode

LEMMA GiveUpKeeps ==
  ASSUME IInv, NEW c \in Claims, GiveUp(c), UNCHANGED <<claims, gcVars, restarts>>
  PROVE  IInv' /\ Advance
<1>1. Advance /\ ctxDone' \in BOOLEAN
  BY StandStill DEF GiveUp, doksVars, IInv, TypeOK
<1>2. calls[c].pc \in CreatingPCs /\ calls[c] \in Call
  BY DEF GiveUp, CreatingPCs, IInv, TypeOK
<1>3. calls' = [calls EXCEPT ![c] = [calls[c] EXCEPT !.pc = "cleanup",
                                                     !.attempt = calls[c].attempt]]
  BY <1>2 DEF GiveUp, GoTo, Call
<1> QED BY <1>1, <1>2, <1>3, GoOnKeeps DEF CreatingPCs, Call

(* The pool a Create works on, and the one a Delete is about to delete. *)
LEMMA OwnPool ==
  ASSUME IInv, NEW c \in Claims, calls[c].pc \in CreatingPCs \cup {"delete"}
  PROVE  /\ calls[c].pool \in PoolIDs
         /\ pools[calls[c].pool].managed
BY DEF IInv, CallInv, TypeOK, Call, DeletingPCs

LEMMA CleanUpKeeps ==
  ASSUME IInv, NEW c \in Claims, CleanUp(c), UNCHANGED <<claims, gcVars, restarts>>
  PROVE  IInv' /\ Advance
<1>1. Advance
  BY OwnPool, DeleteAdvances DEF CleanUp, CreatingPCs
<1> QED BY <1>1, ReturnKeeps DEF CleanUp, IInv, TypeOK

LEMMA ClearTaintsKeeps ==
  ASSUME IInv, NEW c \in Claims, ClearTaints(c), UNCHANGED <<claims, gcVars, restarts>>
  PROVE  IInv' /\ Advance
<1>1. Advance
  BY OwnPool, ClearAdvances DEF ClearTaints, CreatingPCs
<1>2. calls[c].pc \in CreatingPCs /\ calls[c] \in Call /\ pools[calls[c].pool].droplet
  BY DEF ClearTaints, CreatingPCs, IInv, CallInv, TypeOK
<1>3. calls' = [calls EXCEPT ![c] = [calls[c] EXCEPT !.pc = "created",
                                                     !.attempt = calls[c].attempt]]
  BY <1>2 DEF ClearTaints, GoTo, Call
<1> QED BY <1>1, <1>2, <1>3, GoOnKeeps DEF CreatingPCs, Call, ClearTaints, IInv, TypeOK

-----------------------------------------------------------------------------
(* The steps on NodeClaims. *)

(* The claim c changes and its call does not. *)
LEMMA ClaimOnly ==
  ASSUME IInv, Advance, NEW c \in Claims, NEW new \in Claim,
         claims' = [claims EXCEPT ![c] = new],
         UNCHANGED <<calls, ctxDone, gcVars, restarts>>,
         CallInv(c)', ClaimInv(c)', SeenInv(c)'
  PROVE  IInv'
<1>1. calls' = [calls EXCEPT ![c] = calls[c]] /\ calls[c] \in Call
  BY DEF IInv, TypeOK
<1> QED BY <1>1, OneClaim DEF IInv, TypeOK

(* A claim whose phase advances without a call: it is not being deleted.   *)
LEMMA PhaseKeeps ==
  ASSUME IInv, NEW c \in Claims, NEW phase \in {"live", "deleting"},
         SetPhase(c, phase), UNCHANGED <<providerVars, gcVars, restarts>>,
         \/ claims[c].phase = "absent"
         \/ claims[c].phase = "live" /\ phase = "deleting"
  PROVE  IInv' /\ Advance
<1>1. Advance
  BY StandStill DEF providerVars, doksVars
<1> DEFINE new == [claims[c] EXCEPT !.phase = phase]
<1>2. claims[c] \in Claim
  BY DEF IInv, TypeOK
<1>3. /\ new \in Claim /\ new.phase = phase
      /\ new.providerID = claims[c].providerID /\ new.poolID = claims[c].poolID
  BY <1>2 DEF Claim
<1>4. claims' = [claims EXCEPT ![c] = new]
  BY DEF SetPhase
<1> HIDE DEF new
<1>5. claims'[c] = new
  BY <1>4 DEF IInv, TypeOK
<1>6. CallInv(c)'
  BY <1>3, <1>5 DEF IInv, CallInv, providerVars, doksVars, DeletingPCs
<1>7. ClaimInv(c)'
  BY <1>3, <1>5 DEF IInv, ClaimInv, providerVars, doksVars
<1>8. SeenInv(c)'
  BY <1>3, <1>5, SeenKept DEF gcVars
<1> QED BY <1>1, <1>3, <1>4, <1>6, <1>7, <1>8, ClaimOnly DEF providerVars, doksVars

LEMMA DropAnnotationKeeps ==
  ASSUME IInv, NEW c \in Claims, DropAnnotation(c), UNCHANGED <<gcVars, restarts>>
  PROVE  IInv' /\ Advance
<1>1. Advance
  BY StandStill DEF DropAnnotation, providerVars, doksVars
<1> DEFINE new == [claims[c] EXCEPT !.poolID = None]
<1>2. claims[c] \in Claim
  BY DEF IInv, TypeOK
<1>3. /\ new \in Claim /\ new.phase = claims[c].phase
      /\ new.providerID = claims[c].providerID /\ new.poolID = None
  BY <1>2 DEF Claim
<1>4. claims' = [claims EXCEPT ![c] = new]
  BY DEF DropAnnotation
<1> HIDE DEF new
<1>5. claims'[c] = new
  BY <1>4 DEF IInv, TypeOK
<1>6. CallInv(c)' /\ ClaimInv(c)'
  BY <1>3, <1>5 DEF IInv, CallInv, ClaimInv, DropAnnotation, providerVars, doksVars
<1>7. SeenInv(c)'
  BY <1>3, <1>5, SeenKept DEF gcVars
<1> QED BY <1>1, <1>3, <1>4, <1>6, <1>7, ClaimOnly DEF DropAnnotation, providerVars, doksVars

LEMMA BeginCreateKeeps ==
  ASSUME IInv, NEW c \in Claims, BeginCreate(c), UNCHANGED <<gcVars, restarts>>
  PROVE  IInv' /\ Advance
<1>1. Advance
  BY StandStill DEF BeginCreate, doksVars
<1> DEFINE new == [calls[c] EXCEPT !.pc = "requesting"]
<1>2. new \in Call /\ new.pc = "requesting" /\ new.pool = calls[c].pool
  BY DEF IInv, TypeOK, Call, CreatePCs
<1>3. calls' = [calls EXCEPT ![c] = new]
  BY DEF BeginCreate, GoTo
<1> HIDE DEF new
<1>4. calls'[c] = new
  BY <1>3 DEF IInv, TypeOK
<1>5. CallInv(c)'
  BY <1>2, <1>4 DEF BeginCreate, IInv, CallInv, CreatingPCs, DeletingPCs, doksVars
<1> QED BY <1>1, <1>2, <1>3, <1>5, OneCall DEF BeginCreate, doksVars, IInv, TypeOK

LEMMA RegisterKeeps ==
  ASSUME IInv, NEW c \in Claims, Register(c), UNCHANGED <<gcVars, restarts>>
  PROVE  IInv' /\ Advance
<1>1. Advance
  BY StandStill DEF Register, doksVars
<1>2. /\ calls[c].pool \in PoolIDs
      /\ pools[calls[c].pool].managed /\ pools[calls[c].pool].owner = c
      /\ pools[calls[c].pool].droplet
      /\ claims[c].phase \in {"live", "deleting"} /\ claims[c].providerID = None
  BY DEF Register, IInv, CallInv, CreatingPCs, TypeOK, Call
<1> DEFINE new == InstanceToNodeClaim(calls[c].pool, claims[c])
<1>3. claims[c] \in Claim
  BY DEF IInv, TypeOK
<1>4. /\ new \in Claim /\ new.phase = claims[c].phase
      /\ new.providerID = calls[c].pool /\ new.poolID = calls[c].pool
  BY <1>2, <1>3 DEF Claim, InstanceToNodeClaim
<1>5. claims' = [claims EXCEPT ![c] = new]
  BY DEF Register
<1> HIDE DEF new
<1>6. claims'[c] = new /\ calls'[c] = Idle
  BY <1>5 DEF Register, Return, IInv, TypeOK
<1>7. CallInv(c)'
  BY <1>6 DEF CallInv, Idle, CreatingPCs, DeletingPCs
<1>8. ClaimInv(c)'
  BY <1>1, <1>2, <1>4, <1>6 DEF ClaimInv, Advance
<1>9. SeenInv(c)'
  <2>1. seen[c] \in Claim /\ claims[c] \in Claim
    BY DEF IInv, TypeOK
  <2>2. seen[c].providerID = None
    BY <1>2 DEF IInv, SeenInv
  <2> QED BY <1>4, <1>6, <2>2 DEF IInv, SeenInv, gcVars
<1> QED BY <1>1, <1>4, <1>5, <1>7, <1>8, <1>9, IdleType, OneClaim
        DEF Register, Return, doksVars, IInv, TypeOK

(* A Delete that goes on: with the claim's own pool if it is to delete it. *)
LEMMA DeleteGoesOn ==
  ASSUME IInv, Advance, NEW c \in Claims, NEW new \in Call,
         calls' = [calls EXCEPT ![c] = new],
         new.pc \in DeletingPCs, new.pool \in {None, claims[c].providerID},
         new.pc = "delete" => new.pool # None,
         new.pc = "lookup" => new.pool = None,
         claims[c].phase = "deleting", claims[c].providerID # None,
         ctxDone' \in BOOLEAN, UNCHANGED <<claims, gcVars, restarts>>
  PROVE  IInv'
<1>1. calls'[c] = new
  BY DEF IInv, TypeOK
<1>2. /\ claims[c].providerID \in PoolIDs
      /\ pools'[claims[c].providerID].managed
      /\ pools'[claims[c].providerID].owner = c
  BY DEF IInv, TypeOK, Claim, ClaimInv, Advance
<1>3. CallInv(c)'
  BY <1>1, <1>2 DEF CallInv, CreatingPCs, DeletingPCs
<1> QED BY <1>3, OneCall

LEMMA BeginDeleteKeeps ==
  ASSUME IInv, NEW c \in Claims, BeginDelete(c), UNCHANGED <<gcVars, restarts>>
  PROVE  IInv' /\ Advance
<1>1. Advance
  BY StandStill DEF BeginDelete, doksVars
<1> DEFINE new == [pc      |-> IF claims[c].poolID # None THEN "delete" ELSE "lookup",
                   pool    |-> claims[c].poolID,
                   attempt |-> 0]
<1>2. claims[c].poolID \in {None, claims[c].providerID} /\ claims[c] \in Claim
  BY DEF IInv, ClaimInv, TypeOK
<1>3. /\ new \in Call /\ new.pc \in DeletingPCs
      /\ new.pool \in {None, claims[c].providerID}
      /\ new.pc = "delete" => new.pool # None
      /\ new.pc = "lookup" => new.pool = None
  BY <1>2, MaxAttemptsAssumption DEF Call, DeletePCs, DeletingPCs, Claim
<1>4. calls' = [calls EXCEPT ![c] = new]
  BY DEF BeginDelete
<1> HIDE DEF new
<1> QED BY <1>1, <1>3, <1>4, DeleteGoesOn DEF BeginDelete, doksVars, IInv, TypeOK

LEMMA LookupKeeps ==
  ASSUME IInv, NEW c \in Claims, Lookup(c), UNCHANGED <<gcVars, restarts>>
  PROVE  IInv' /\ Advance
<1>1. Advance /\ ctxDone' \in BOOLEAN /\ UNCHANGED claims
  BY StandStill DEF Lookup, doksVars, IInv, TypeOK
<1>2. claims[c].phase = "deleting" /\ claims[c].providerID # None
  BY DEF Lookup, IInv, CallInv, DeletingPCs
<1>3. calls[c] \in Call /\ calls[c].pool \in {None, claims[c].providerID}
  BY DEF Lookup, IInv, CallInv, TypeOK
<1>4. CASE Return(c)
  BY <1>1, <1>4, ReturnKeeps
<1>5. CASE GoTo(c, "deleted")
  <2> DEFINE new == [calls[c] EXCEPT !.pc = "deleted"]
  <2>1. new \in Call /\ new.pc = "deleted" /\ new.pool = calls[c].pool
    BY <1>3 DEF Call
  <2>2. calls' = [calls EXCEPT ![c] = new]
    BY <1>5 DEF GoTo
  <2> HIDE DEF new
  <2> QED BY <1>1, <1>2, <1>3, <2>1, <2>2, DeleteGoesOn DEF DeletingPCs
<1>6. CASE \E page \in SUBSET PoolIDs :
             \E p \in WithDroplet(claims[c].providerID, page) :
               calls' = [calls EXCEPT ![c].pc = "delete", ![c].pool = p]
  <2>1. PICK p \in PoolIDs : /\ p = claims[c].providerID
                             /\ calls' = [calls EXCEPT ![c].pc = "delete", ![c].pool = p]
    BY <1>6 DEF WithDroplet, InstancesIn, ManagedPools
  <2> DEFINE new == [calls[c] EXCEPT !.pc = "delete", !.pool = p]
  <2>2. new \in Call /\ new.pc = "delete" /\ new.pool = p
    BY <1>3 DEF Call, DeletePCs
  <2>3. calls' = [calls EXCEPT ![c] = new]
    BY <2>1 DEF IInv, TypeOK
  <2> HIDE DEF new
  <2> QED BY <1>1, <1>2, <2>1, <2>2, <2>3, DeleteGoesOn DEF DeletingPCs
<1> QED BY <1>1, <1>4, <1>5, <1>6 DEF Lookup

LEMMA DeletePoolKeeps ==
  ASSUME IInv, NEW c \in Claims, DeletePool(c), UNCHANGED <<gcVars, restarts>>
  PROVE  IInv' /\ Advance
<1>1. Advance /\ ctxDone' \in BOOLEAN /\ UNCHANGED claims
  BY OwnPool, DeleteAdvances DEF DeletePool, IInv, TypeOK
<1>2. /\ claims[c].phase = "deleting" /\ claims[c].providerID # None
      /\ calls[c].pool = claims[c].providerID /\ calls[c] \in Call
  BY DEF DeletePool, IInv, CallInv, DeletingPCs, TypeOK
<1>3. CASE Return(c)
  BY <1>1, <1>3, ReturnKeeps
<1>4. CASE GoTo(c, "deleted")
  <2> DEFINE new == [calls[c] EXCEPT !.pc = "deleted"]
  <2>1. new \in Call /\ new.pc = "deleted" /\ new.pool = calls[c].pool
    BY <1>2 DEF Call
  <2>2. calls' = [calls EXCEPT ![c] = new]
    BY <1>4 DEF GoTo
  <2> HIDE DEF new
  <2> QED BY <1>1, <1>2, <2>1, <2>2, DeleteGoesOn DEF DeletingPCs
<1> QED BY <1>1, <1>3, <1>4 DEF DeletePool

(* A claim that is finalized, with no call left. *)
LEMMA GoneKeeps ==
  ASSUME IInv, NEW c \in Claims, claims[c].phase = "deleting", SetPhase(c, "gone"),
         calls' = [calls EXCEPT ![c] = calls'[c]],
         calls'[c] \in Call, calls'[c].pc = "idle", calls'[c].pool \in {None, calls[c].pool},
         UNCHANGED <<doksVars, gcVars, restarts>>
  PROVE  IInv' /\ Advance
<1>1. Advance
  BY StandStill DEF doksVars
<1> DEFINE new == [claims[c] EXCEPT !.phase = "gone"]
<1>2. claims[c] \in Claim
  BY DEF IInv, TypeOK
<1>3. /\ new \in Claim /\ new.phase = "gone"
      /\ new.providerID = claims[c].providerID /\ new.poolID = claims[c].poolID
  BY <1>2 DEF Claim
<1>4. claims' = [claims EXCEPT ![c] = new]
  BY DEF SetPhase
<1> HIDE DEF new
<1>5. claims'[c] = new
  BY <1>4 DEF IInv, TypeOK
<1>6. CallInv(c)'
  BY DEF IInv, CallInv, CreatingPCs, DeletingPCs, doksVars
<1>7. ClaimInv(c)'
  BY <1>3, <1>5 DEF IInv, ClaimInv, doksVars
<1>8. SeenInv(c)'
  BY <1>3, <1>5, SeenKept DEF gcVars
<1>9. ctxDone' \in BOOLEAN
  BY DEF doksVars, IInv, TypeOK
<1> QED BY <1>1, <1>3, <1>4, <1>6, <1>7, <1>8, <1>9, OneClaim

LEMMA FinalizeKeeps ==
  ASSUME IInv, NEW c \in Claims, FinalizeStep(c), UNCHANGED <<gcVars, restarts>>
  PROVE  IInv' /\ Advance
<1>1. CASE FinalizeUnlaunched(c)
  <2>1. calls[c] \in Call /\ calls' = calls
    BY <1>1 DEF FinalizeUnlaunched, providerVars, IInv, TypeOK
  <2>2. calls' = [calls EXCEPT ![c] = calls'[c]]
    BY <2>1 DEF IInv, TypeOK
  <2> QED BY <1>1, <2>1, <2>2, GoneKeeps DEF FinalizeUnlaunched, providerVars
<1>2. CASE CheckTerminated(c)
  <2>1. claims[c].phase = "deleting" /\ Return(c) /\ UNCHANGED doksVars
    BY <1>2 DEF CheckTerminated, IInv, CallInv, DeletingPCs
  <2>2. CASE SetPhase(c, "gone")
    <3>1. calls'[c] = Idle /\ calls' = [calls EXCEPT ![c] = calls'[c]]
      BY <2>1 DEF Return, IInv, TypeOK
    <3> QED BY <2>1, <2>2, <3>1, IdleType, GoneKeeps DEF Idle
  <2>3. CASE UNCHANGED claims
    BY <2>1, <2>3, StandStill, ReturnKeeps DEF doksVars, IInv, TypeOK
  <2> QED BY <1>2, <2>2, <2>3 DEF CheckTerminated
<1> QED BY <1>1, <1>2 DEF FinalizeStep

-----------------------------------------------------------------------------
(* The steps of the informer and of the collector. *)

LEMMA DeliverKeeps ==
  ASSUME IInv, NEW c \in Claims, Deliver(c), UNCHANGED restarts
  PROVE  IInv' /\ Advance
<1>1. /\ Advance
      /\ UNCHANGED <<ctxDone, calls, claims, gc>>
  BY StandStill DEF Deliver, cloudVars, providerVars, doksVars
<1>2. /\ seen' \in [Claims -> Claim] /\ queue' \subseteq Claims
      /\ seen'[c] = claims[c]
      /\ \A d \in Claims : d # c => seen'[d] = seen[d]
  BY DEF Deliver, IInv, TypeOK
<1>3. \A d \in Claims : SeenInv(d)'
  <2> TAKE d \in Claims
  <2>1. CASE d = c
    BY <1>1, <1>2, <2>1 DEF SeenInv, IInv, ClaimInv
  <2>2. CASE d # c
    BY <1>1, <1>2, <2>2, SeenKept
  <2> QED BY <2>1, <2>2
<1> QED BY <1>1, <1>2, <1>3, PassKept, OneView DEF IInv, TypeOK

LEMMA TouchKeeps ==
  ASSUME IInv, NEW c \in Claims, Touch(c), UNCHANGED restarts
  PROVE  IInv' /\ Advance
<1>1. Advance /\ UNCHANGED <<ctxDone, calls, claims, seen, gc>>
  BY StandStill DEF Touch, cloudVars, providerVars, doksVars
<1>2. queue' \subseteq Claims
  BY DEF Touch, IInv, TypeOK
<1> QED BY <1>1, <1>2, SeenKept, PassKept, OneView DEF IInv, TypeOK

(* A step of a pass that works on managed pools and leaves the view alone. *)
LEMMA PassGoesOn ==
  ASSUME IInv, Advance, UNCHANGED <<ctxDone, calls, claims, seen, restarts>>,
         queue' \subseteq Claims, gc' \in Pass, gc'.pc = "listInstances" => gc'.req # None,
         \A p \in gc'.instances \cup gc'.orphans : p \in PoolIDs /\ pools[p].managed
  PROVE  IInv'
<1>1. PassInv'
  BY DEF PassInv, Advance
<1> QED BY <1>1, SeenKept, OneView DEF IInv, TypeOK

LEMMA NoPassType ==
  NoPass \in Pass /\ NoPass.pc = "idle" /\ NoPass.instances = {} /\ NoPass.orphans = {}
BY DEF NoPass, Pass

LEMMA BeginPassKeeps ==
  ASSUME IInv, BeginPass, UNCHANGED restarts
  PROVE  IInv' /\ Advance
<1>1. Advance /\ UNCHANGED <<ctxDone, calls, claims, seen>>
  BY StandStill DEF BeginPass, cloudVars, providerVars, doksVars
<1>2. PICK c \in Claims : /\ queue' = queue \ {c}
                          /\ gc' = [NoPass EXCEPT !.pc = "listInstances", !.req = c]
  BY DEF BeginPass, IInv, TypeOK
<1>3. gc' \in Pass /\ gc'.req # None /\ gc'.instances = {} /\ gc'.orphans = {}
  BY <1>2, NoPassType, ConstantsAssumption DEF Pass
<1> QED BY <1>1, <1>2, <1>3, PassGoesOn DEF IInv, TypeOK

LEMMA ListInstancesKeeps ==
  ASSUME IInv, ListInstances, UNCHANGED restarts
  PROVE  IInv' /\ Advance
<1>1. Advance /\ UNCHANGED <<ctxDone, calls, claims, seen>>
  BY StandStill DEF ListInstances, cloudVars, providerVars, doksVars
<1>2. gc \in Pass
  BY DEF IInv, TypeOK
<1>3. CASE Requeue
  <2>1. gc' = NoPass
    BY <1>3 DEF Requeue
  <2>2. queue' \subseteq Claims
    <3>1. gc.req \in Claims \cup {None}
      BY <1>2 DEF Pass
    <3>2. gc.req \in Claims
      BY <3>1 DEF IInv, PassInv, ListInstances
    <3> QED BY <1>3, <3>2 DEF Requeue, IInv, TypeOK
  <2> QED BY <1>1, <2>1, <2>2, NoPassType, PassGoesOn
<1>4. CASE \E page \in SUBSET PoolIDs :
             /\ gc' = [NoPass EXCEPT !.pc = "listClaims", !.instances = InstancesIn(page)]
             /\ UNCHANGED queue
  <2>1. PICK page \in SUBSET PoolIDs :
          /\ gc' = [NoPass EXCEPT !.pc = "listClaims", !.instances = InstancesIn(page)]
          /\ UNCHANGED queue
    BY <1>4
  <2>2. InstancesIn(page) \subseteq PoolIDs
    BY DEF InstancesIn, ManagedPools
  <2>3. /\ gc' \in Pass /\ gc'.instances = InstancesIn(page)
        /\ gc'.orphans = {} /\ gc'.pc = "listClaims"
    BY <2>1, <2>2, NoPassType DEF Pass
  <2>4. \A p \in gc'.instances \cup gc'.orphans : p \in PoolIDs /\ pools[p].managed
    BY <1>2, <2>2, <2>3 DEF InstancesIn, ManagedPools, IInv, PassInv, Pass
  <2> QED BY <1>1, <2>1, <2>3, <2>4, PassGoesOn DEF IInv, TypeOK
<1> QED BY <1>3, <1>4 DEF ListInstances

LEMMA ListClaimsKeeps ==
  ASSUME IInv, ListClaims, UNCHANGED restarts
  PROVE  IInv' /\ Advance
<1>1. Advance /\ UNCHANGED <<ctxDone, calls, claims, seen, queue>>
  BY StandStill DEF ListClaims, cloudVars, providerVars, doksVars
<1>2. gc \in Pass
  BY DEF IInv, TypeOK
<1>3. /\ gc' \in Pass /\ gc'.instances = {} /\ gc'.pc = "sweep"
      /\ gc'.orphans \subseteq gc.instances
  BY <1>2 DEF ListClaims, OrphansOf, Pass, IInv, PassInv
<1>4. \A p \in gc'.instances \cup gc'.orphans : p \in PoolIDs /\ pools[p].managed
  BY <1>2, <1>3 DEF IInv, PassInv, Pass
<1> QED BY <1>1, <1>3, <1>4, PassGoesOn DEF IInv, TypeOK

LEMMA SweepKeeps ==
  ASSUME IInv, NEW p \in PoolIDs, Sweep(p), UNCHANGED restarts
  PROVE  IInv' /\ Advance
<1>1. pools[p].managed
  BY DEF Sweep, IInv, PassInv
<1>2. Advance
  BY <1>1, DeleteAdvances DEF Sweep
<1>3. gc \in Pass
  BY DEF IInv, TypeOK
<1>4. /\ gc' \in Pass /\ gc'.instances = gc.instances /\ gc'.pc = "sweep"
      /\ gc'.orphans \subseteq gc.orphans
  BY <1>3 DEF Sweep, Pass, IInv, PassInv
<1>5. \A q \in gc'.instances \cup gc'.orphans : q \in PoolIDs /\ pools[q].managed
  BY <1>3, <1>4 DEF IInv, PassInv, Pass
<1> QED BY <1>2, <1>4, <1>5, PassGoesOn DEF Sweep, IInv, TypeOK

LEMMA FinishPassKeeps ==
  ASSUME IInv, FinishPass, UNCHANGED restarts
  PROVE  IInv' /\ Advance
<1>1. Advance /\ UNCHANGED <<ctxDone, calls, claims, seen, queue>>
  BY StandStill DEF FinishPass, cloudVars, providerVars, doksVars
<1> QED BY <1>1, NoPassType, PassGoesOn DEF FinishPass, IInv, TypeOK

-----------------------------------------------------------------------------
(* The steps of the process. *)

LEMMA StopKeeps ==
  ASSUME IInv, Stop
  PROVE  IInv' /\ Advance
<1>1. Advance /\ ctxDone' = TRUE /\ UNCHANGED <<calls, claims, gcVars, restarts>>
  BY StandStill DEF Stop, Shutdown
<1>2. TypeOK'
  BY <1>1 DEF IInv, TypeOK, Advance, gcVars
<1> QED BY <1>1, <1>2, CallKept, ClaimKept, SeenKept, PassKept DEF IInv, Advance, gcVars

LEMMA RestartKeeps ==
  ASSUME IInv, Restart
  PROVE  IInv' /\ Advance
<1>1. Advance /\ UNCHANGED claims
  BY StandStill DEF Restart
<1>2. TypeOK'
  <2>1. \A c \in Claims : AbsentClaim \in Claim /\ claims[c] \in Claim
    BY DEF AbsentClaim, Claim, IInv, TypeOK
  <2>2. restarts' \in 0..MaxRestarts
    BY MaxRestartsAssumption DEF Restart, IInv, TypeOK
  <2> QED BY <1>1, <2>1, <2>2, IdleType, NoPassType DEF Restart, IInv, TypeOK, Advance
<1>3. \A c \in Claims : CallInv(c)'
  BY DEF Restart, CallInv, Idle, CreatingPCs, DeletingPCs
<1>4. \A c \in Claims : ClaimInv(c)'
  BY <1>1, ClaimKept
<1>5. \A c \in Claims : SeenInv(c)'
  BY <1>1 DEF Restart, SeenInv, AbsentClaim
<1>6. PassInv'
  BY NoPassType DEF Restart, PassInv
<1> QED BY <1>1, <1>2, <1>3, <1>4, <1>5, <1>6 DEF IInv, Advance

-----------------------------------------------------------------------------
(* The invariant. *)

(* Init puts the program in a state where the invariant holds. *)
THEOREM InitEstablishes == Init => IInv
<1> SUFFICES ASSUME Init PROVE IInv
  OBVIOUS
<1>1. AbsentPool \in Pool /\ ForeignPool \in Pool /\ AbsentClaim \in Claim
  BY DEF AbsentPool, ForeignPool, Pool, AbsentClaim, Claim
<1>2. TypeOK
  <2>1. pools \in [PoolIDs -> Pool] /\ ctxDone \in BOOLEAN
    BY <1>1 DEF Init, DOKSInit
  <2>2. calls \in [Claims -> Call]
    BY IdleType DEF Init, ProviderInit
  <2>3. claims \in [Claims -> Claim] /\ seen \in [Claims -> Claim]
    BY <1>1 DEF Init, CloudInit, GCInit
  <2>4. queue \subseteq Claims /\ gc \in Pass
    BY NoPassType DEF Init, GCInit
  <2>5. restarts \in 0..MaxRestarts
    BY MaxRestartsAssumption DEF Init
  <2> QED BY <2>1, <2>2, <2>3, <2>4, <2>5 DEF TypeOK
<1>3. \A p \in PoolIDs : PoolInv(p)
  BY DEF Init, DOKSInit, PoolInv, ForeignPool, AbsentPool
<1>4. \A c \in Claims : CallInv(c) /\ ClaimInv(c) /\ SeenInv(c)
  BY DEF Init, ProviderInit, CloudInit, GCInit, CallInv, ClaimInv, SeenInv,
         Idle, AbsentClaim, CreatingPCs, DeletingPCs
<1>5. PassInv
  BY NoPassType DEF Init, GCInit, PassInv
<1> QED BY <1>2, <1>3, <1>4, <1>5 DEF IInv

(* Every step keeps the invariant and loses track of no managed pool. *)
THEOREM StepKeeps == IInv /\ [Next]_vars => IInv' /\ Advance
<1> SUFFICES ASSUME IInv, [Next]_vars PROVE IInv' /\ Advance
  OBVIOUS
<1>1. CASE DOKSStep
  BY <1>1, ProvisionNodeKeeps, RemovePoolKeeps DEF DOKSStep
<1>2. ASSUME NEW c \in Claims, CreateCall(c) PROVE IInv' /\ Advance
  BY <1>2, SubmitPoolKeeps, PollNodeKeeps, GiveUpKeeps, CleanUpKeeps, ClearTaintsKeeps
     DEF CreateCall, CreateStep
<1>3. ASSUME NEW c \in Claims, ClaimStep(c) PROVE IInv' /\ Advance
  BY <1>3, BeginCreateKeeps, RegisterKeeps, BeginDeleteKeeps, LookupKeeps,
     DeletePoolKeeps, FinalizeKeeps
     DEF ClaimStep, DeleteStep
<1>4. ASSUME NEW c \in Claims, Demand(c) PROVE IInv' /\ Advance
  BY <1>4, PhaseKeeps, DropAnnotationKeeps DEF Demand, Provision, RequestDelete
<1>5. ASSUME NEW c \in Claims, InformerStep(c) PROVE IInv' /\ Advance
  BY <1>5, DeliverKeeps, TouchKeeps DEF InformerStep
<1>6. CASE GCStep
  BY <1>6, BeginPassKeeps, ListInstancesKeeps, ListClaimsKeeps, SweepKeeps, FinishPassKeeps
     DEF GCStep, Reconcile
<1>7. CASE Stop
  BY <1>7, StopKeeps
<1>8. CASE Restart
  BY <1>8, RestartKeeps
<1>9. CASE UNCHANGED vars
  <2>1. UNCHANGED <<pools, ctxDone, calls, claims, seen, queue, gc, restarts>>
    BY <1>9 DEF vars, cloudVars, providerVars, doksVars, gcVars
  <2>2. Advance
    BY <2>1, StandStill
  <2> QED BY <2>1, <2>2, SeenKept, PassKept, OneView DEF IInv, TypeOK
<1> QED BY <1>1, <1>2, <1>3, <1>4, <1>5, <1>6, <1>7, <1>8, <1>9 DEF Next

(* The invariant holds in every state the program reaches: what a call is  *)
(* about to act on is its claim's own pool, a provider ID names a droplet  *)
(* of the claim's own pool, the collector works on Karpenter's pools only. *)
THEOREM Invariance == Spec => []IInv
<1>1. IInv /\ [Next]_vars => IInv'
  BY StepKeeps
<1> QED BY InitEstablishes, <1>1, PTL DEF Spec

(* Every variable keeps its type. *)
THEOREM TypeCorrectness == Spec => []TypeOK
<1>1. IInv => TypeOK
  BY DEF IInv
<1> QED BY Invariance, <1>1, PTL

(* Whatever fails, is lost or restarts, the pools that are not Karpenter's *)
(* are left as they were.                                                  *)
THEOREM ForeignPoolsAreSafe == Spec => []ForeignPoolsUntouched
<1>1. IInv => ForeignPoolsUntouched
  BY ConstantsAssumption DEF IInv, PoolInv, ForeignPoolsUntouched
<1> QED BY Invariance, <1>1, PTL

(* Whatever fails or restarts, no pool has two claims: what a call of one  *)
(* claim deletes or registers is never what another claim stands on.       *)
THEOREM ClaimsShareNoPool == Spec => []NoPoolHasTwoClaims
<1>1. ASSUME IInv, NEW c \in Claims, NEW p \in PoolIDs, Holds(c, p)
      PROVE  pools[p].owner = c
  BY <1>1, ConstantsAssumption DEF Holds, IInv, CallInv, ClaimInv
<1>2. IInv => NoPoolHasTwoClaims
  BY <1>1 DEF NoPoolHasTwoClaims
<1> QED BY Invariance, <1>2, PTL

-----------------------------------------------------------------------------
(* A NodeClaim is finalized only when its pool is gone. *)

(* A list that shows no instance with the claim's provider ID means that   *)
(* the pool is gone, if no pool is left on another page.                   *)
LEMMA NotFoundMeansGone ==
  ASSUME FitsOnePage, IInv, NEW c \in Claims, claims[c].providerID # None,
         NEW page \in SUBSET PoolIDs, NEW result \in Results,
         ListNodePools(page, result), GetNotFound(c, page, result)
  PROVE  ~Exists(claims[c].providerID)
<1> DEFINE existing == {p \in PoolIDs : Exists(p)}
<1>1. page \in PagesOf(existing)
  BY DEF ListNodePools, Refused, GetNotFound
<1>2. Cardinality(existing) <= PageSize
  BY DEF FitsOnePage
<1>3. page = existing
  BY <1>1, <1>2 DEF PagesOf
<1>4. /\ claims[c].providerID \in PoolIDs
      /\ pools[claims[c].providerID].managed
      /\ pools[claims[c].providerID].droplet
  BY DEF IInv, TypeOK, Claim, ClaimInv
<1> QED BY <1>3, <1>4 DEF GetNotFound, WithDroplet, InstancesIn, ManagedPools

(* A pool that a provider ID names and that does not exist is gone, and    *)
(* stays gone.                                                             *)
LEMMA GoneStaysGone ==
  ASSUME IInv, Advance, NEW p \in PoolIDs, pools[p].managed, ~Exists(p)
  PROVE  ~Exists(p)'
<1>1. pools[p].state = "gone"
  BY DEF IInv, TypeOK, Pool, PoolInv, Exists
<1> QED BY <1>1 DEF Advance, Exists

(* How a claim moves in a step: a provider ID is for good, "gone" is final *)
(* and reached through Get when there is a provider ID.                    *)
ClaimMoves(c) ==
  /\ claims[c].providerID # None => claims'[c].providerID = claims[c].providerID
  /\ claims[c].phase = "gone" => claims'[c] = claims[c]
  /\ claims[c].phase = "live" => claims'[c].phase \in {"live", "deleting"}
  /\ /\ claims[c].phase # "gone" /\ claims'[c].phase = "gone"
     /\ claims'[c].providerID # None
     => /\ claims'[c].providerID = claims[c].providerID
        /\ CheckTerminated(c) /\ ~UNCHANGED claims

LEMMA ClaimProgress ==
  ASSUME IInv, [Next]_vars, NEW c \in Claims
  PROVE  ClaimMoves(c)
<1>1. \A d \in Claims : claims[d] \in Claim
  BY DEF IInv, TypeOK
<1>2. CASE UNCHANGED claims
  BY <1>2 DEF ClaimMoves
<1>3. ASSUME NEW d \in Claims, Demand(d) PROVE ClaimMoves(c)
  <2>1. CASE claims[d].phase = "absent" /\ claims' = [claims EXCEPT ![d].phase = "live"]
    BY <2>1, <1>1 DEF ClaimMoves, IInv, TypeOK, Claim
  <2>2. CASE claims[d].phase = "live" /\ claims' = [claims EXCEPT ![d].phase = "deleting"]
    BY <2>2, <1>1 DEF ClaimMoves, IInv, TypeOK, Claim
  <2>3. CASE claims[d].phase = "live" /\ claims' = [claims EXCEPT ![d].poolID = None]
    BY <2>3, <1>1 DEF ClaimMoves, IInv, TypeOK, Claim
  <2> QED BY <1>3, <2>1, <2>2, <2>3
          DEF Demand, Provision, RequestDelete, DropAnnotation, SetPhase
<1>4. ASSUME NEW d \in Claims, ClaimStep(d) PROVE ClaimMoves(c)
  <2>1. CASE Register(d)
    <3>1. claims[d].providerID = None /\ claims[d].phase \in {"live", "deleting"}
      BY <2>1 DEF Register, IInv, CallInv, CreatingPCs
    <3>2. claims'[c].phase = claims[c].phase /\ (c # d => claims'[c] = claims[c])
      BY <2>1, <1>1 DEF Register, InstanceToNodeClaim, IInv, TypeOK, Claim
    <3> QED BY <3>1, <3>2 DEF ClaimMoves
  <2>2. CASE SetPhase(d, "gone") /\ FinalizeStep(d)
    <3>1. claims[d].phase = "deleting"
      BY <2>2 DEF FinalizeStep, FinalizeUnlaunched, CheckTerminated, IInv, CallInv, DeletingPCs
    <3>2. /\ claims'[c].providerID = claims[c].providerID
          /\ c # d => claims'[c] = claims[c]
          /\ ~UNCHANGED claims
      BY <2>2, <1>1, <3>1 DEF SetPhase, IInv, TypeOK, Claim
    <3> QED BY <2>2, <3>1, <3>2 DEF ClaimMoves, FinalizeStep, FinalizeUnlaunched
  <2>3. CASE UNCHANGED claims
    BY <2>3, <1>2
  <2> QED BY <1>4, <2>1, <2>2, <2>3
          DEF ClaimStep, BeginCreate, BeginDelete, DeleteStep, Lookup, DeletePool,
              FinalizeStep, CheckTerminated, FinalizeUnlaunched
<1> QED BY <1>2, <1>3, <1>4
        DEF Next, DOKSStep, CreateCall, InformerStep, Deliver, Touch, GCStep, Reconcile,
            BeginPass, ListInstances, ListClaims, Sweep, FinishPass, Stop, Restart,
            vars, cloudVars

(* As long as the page that is read shows all pools there are, a           *)
(* NodeClaim's finalizer is removed only when its pool is gone: errors,    *)
(* lost answers, repeated deletions and restarts notwithstanding.          *)
THEOREM FinalizedClaimsLeaveNoPool ==
  Spec /\ []FitsOnePage => []FinalizedClaimLeavesNoPool
<1>1. Init => FinalizedClaimLeavesNoPool
  BY DEF Init, CloudInit, AbsentClaim, FinalizedClaimLeavesNoPool
<1>2. IInv /\ FitsOnePage /\ FinalizedClaimLeavesNoPool /\ [Next]_vars
        => FinalizedClaimLeavesNoPool'
  <2> SUFFICES ASSUME IInv, FitsOnePage, FinalizedClaimLeavesNoPool, [Next]_vars,
                      NEW c \in Claims,
                      claims'[c].phase = "gone", claims'[c].providerID # None
               PROVE  ~Exists(claims[c].providerID)'
    BY DEF FinalizedClaimLeavesNoPool
  <2>1. Advance
    BY StepKeeps
  <2>2. /\ claims'[c].providerID = claims[c].providerID
        /\ ~Exists(claims[c].providerID)
    <3>1. CASE claims[c].phase = "gone"
      BY <3>1, ClaimProgress DEF ClaimMoves, FinalizedClaimLeavesNoPool
    <3>2. CASE claims[c].phase # "gone"
      <4>1. claims'[c].providerID = claims[c].providerID /\ CheckTerminated(c) /\ ~UNCHANGED claims
        BY <3>2, ClaimProgress DEF ClaimMoves
      <4>2. PICK page \in SUBSET PoolIDs, result \in Results :
              ListNodePools(page, result) /\ GetNotFound(c, page, result)
        BY <4>1 DEF CheckTerminated
      <4> QED BY <4>1, <4>2, NotFoundMeansGone
    <3> QED BY <3>1, <3>2
  <2>3. claims[c].providerID \in PoolIDs /\ pools[claims[c].providerID].managed
    BY <2>2 DEF IInv, TypeOK, Claim, ClaimInv
  <2>4. ~Exists(claims[c].providerID)'
    BY <2>1, <2>2, <2>3, GoneStaysGone
  <2> QED BY <2>2, <2>4
<1> QED BY Invariance, <1>1, <1>2, PTL DEF Spec

-----------------------------------------------------------------------------
(* A node in service is kept. *)

(* c's claim stands with provider ID p, and the collector's cache shows it. *)
Serves(c, p) == /\ claims[c].phase = "live"
                /\ claims[c].providerID = p
                /\ seen[c].providerID = p

(* What lists p's provider ID is in the cache. *)
LEMMA ServedIsKnown ==
  ASSUME IInv, NEW c \in Claims, NEW p \in PoolIDs, Serves(c, p)
  PROVE  p \in KnownIDs
<1>1. seen[c] \in Claim /\ p # None
  BY ConstantsAssumption DEF IInv, TypeOK
<1>2. seen[c].phase \in {"live", "deleting"}
  BY <1>1 DEF IInv, SeenInv, Serves, Claim
<1> QED BY <1>1, <1>2 DEF KnownIDs, InCache, Serves

(* A pass never takes a served pool for an orphan if it has not yet.       *)
LEMMA ServedIsNoOrphan ==
  ASSUME IInv, [Next]_vars, NEW c \in Claims, NEW p \in PoolIDs, Serves(c, p),
         p \notin gc.orphans
  PROVE  p \notin gc'.orphans
<1>1. gc \in Pass
  BY DEF IInv, TypeOK
<1>2. CASE gc' = gc \/ gc' = NoPass
  BY <1>2, NoPassType
<1>3. CASE GCStep
  <2>1. CASE BeginPass
    BY <2>1, NoPassType DEF BeginPass, Pass
  <2>2. CASE ListInstances
    BY <2>2, <1>1, NoPassType DEF ListInstances, Requeue, Pass
  <2>3. CASE ListClaims
    BY <2>3, <1>1, ServedIsKnown DEF ListClaims, OrphansOf, Pass
  <2>4. CASE \E q \in PoolIDs : Sweep(q)
    BY <2>4, <1>1 DEF Sweep, Pass
  <2>5. CASE FinishPass
    BY <2>5, NoPassType DEF FinishPass
  <2> QED BY <1>3, <2>1, <2>2, <2>3, <2>4, <2>5 DEF GCStep, Reconcile
<1> QED BY <1>2, <1>3
        DEF Next, DOKSStep, CreateCall, ClaimStep, Demand, InformerStep, Deliver, Touch,
            Stop, Restart, vars, gcVars

(* The cache keeps showing it as long as its claim stands. *)
LEMMA ServedIsSeen ==
  ASSUME IInv, [Next]_vars, NEW c \in Claims, NEW p \in PoolIDs, Serves(c, p)
  PROVE  seen'[c].providerID = p
<1>1. CASE seen' = seen
  BY <1>1 DEF Serves
<1>2. ASSUME NEW d \in Claims, Deliver(d) PROVE seen'[c].providerID = p
  BY <1>2 DEF Deliver, Serves, IInv, TypeOK
<1>3. CASE Restart
  BY <1>3 DEF Restart, Serves
<1> QED BY <1>1, <1>2, <1>3
        DEF Next, DOKSStep, CreateCall, ClaimStep, Demand, InformerStep, Touch,
            GCStep, Reconcile, BeginPass, ListInstances, ListClaims, Sweep, FinishPass,
            Stop, vars, gcVars

(* DeleteNodePool and the other calls spare the pools they do not name.    *)
LEMMA OthersAreSpared ==
  ASSUME IInv, NEW p \in PoolIDs, NEW q \in PoolIDs, p # q, NEW result \in Results,
         DeleteNodePool(q, result)
  PROVE  pools'[p] = pools[p]
BY DEF DeleteNodePool, IInv, TypeOK

LEMMA ServedIsUp ==
  ASSUME IInv, [Next]_vars, NEW c \in Claims, NEW p \in PoolIDs, Serves(c, p),
         p \notin gc.orphans, pools[p].state = "up"
  PROVE  pools'[p].state = "up"
<1>1. pools[p].owner = c /\ p # None /\ \A q \in PoolIDs : pools[q] \in Pool
  BY ConstantsAssumption DEF IInv, TypeOK, ClaimInv, Serves
<1>2. CASE UNCHANGED pools
  BY <1>2
<1>3. CASE DOKSStep
  BY <1>3, <1>1 DEF DOKSStep, ProvisionNode, RemovePool, IInv, TypeOK, Pool
<1>4. ASSUME NEW d \in Claims, CreateStep(d) PROVE pools'[p].state = "up"
  <2>1. CASE SubmitPool(d)
    BY <2>1 DEF SubmitPool, CreateNodePool, IInv, TypeOK
  <2>2. CASE CleanUp(d)
    <3>1. calls[d].pool \in PoolIDs /\ pools[calls[d].pool].owner = d
      BY <2>2 DEF CleanUp, IInv, CallInv, CreatingPCs, TypeOK, Call
    <3>2. d # c
      BY <2>2, <1>1 DEF CleanUp, IInv, CallInv, CreatingPCs, Serves
    <3> QED BY <2>2, <3>1, <3>2, <1>1, OthersAreSpared DEF CleanUp
  <2>3. CASE ClearTaints(d)
    BY <2>3, <1>1 DEF ClearTaints, ClearPoolTaints, IInv, TypeOK, Pool
  <2> QED BY <1>4, <2>1, <2>2, <2>3 DEF CreateStep, PollNode, GiveUp, doksVars
<1>5. ASSUME NEW d \in Claims, DeletePool(d) PROVE pools'[p].state = "up"
  <2>1. /\ calls[d].pool \in PoolIDs /\ pools[calls[d].pool].owner = d
        /\ claims[d].phase = "deleting"
    BY <1>5 DEF DeletePool, IInv, CallInv, DeletingPCs, TypeOK, Call
  <2> QED BY <1>5, <2>1, <1>1, OthersAreSpared DEF DeletePool, Serves
<1>6. ASSUME NEW q \in PoolIDs, Sweep(q) PROVE pools'[p].state = "up"
  BY <1>6, OthersAreSpared DEF Sweep
<1> QED BY <1>2, <1>3, <1>4, <1>5, <1>6
        DEF Next, CreateCall, ClaimStep, BeginCreate, Register, BeginDelete, DeleteStep,
            Lookup, FinalizeStep, CheckTerminated, FinalizeUnlaunched,
            Demand, Provision, RequestDelete, DropAnnotation,
            InformerStep, Deliver, Touch, GCStep, Reconcile,
            BeginPass, ListInstances, ListClaims, FinishPass, Stop, Shutdown, Restart,
            vars, cloudVars, providerVars, doksVars

(* A node whose claim stands and which the collector's cache shows is kept *)
(* until the deletion of its claim is requested.                           *)
THEOREM NodesInServiceAreKept == Spec => NodeInServiceIsKept
<1> DEFINE KeepsService ==
      \A p \in PoolIDs :
        InService(p) => \/ InService(p)'
                        \/ \E c \in Claims : /\ claims[c].providerID = p
                                             /\ claims'[c].phase = "deleting"
<1>1. IInv /\ [Next]_vars => KeepsService
  <2> SUFFICES ASSUME IInv, [Next]_vars, NEW p \in PoolIDs, InService(p)
               PROVE  \/ InService(p)'
                      \/ \E c \in Claims : /\ claims[c].providerID = p
                                           /\ claims'[c].phase = "deleting"
    OBVIOUS
  <2>1. PICK c \in Claims : Serves(c, p)
    BY DEF InService, Serves
  <2>2. /\ claims'[c].providerID = p
        /\ claims'[c].phase \in {"live", "deleting"}
    BY <2>1, ClaimProgress, ConstantsAssumption DEF ClaimMoves, Serves
  <2>3. /\ pools'[p].state = "up"
        /\ p \notin gc'.orphans
        /\ seen'[c].providerID = p
    BY <2>1, ServedIsUp, ServedIsNoOrphan, ServedIsSeen DEF InService
  <2> QED BY <2>1, <2>2, <2>3 DEF InService, Serves
<1>2. IInv /\ [Next]_vars => [KeepsService]_vars
  BY <1>1
<1> QED BY Invariance, <1>2, PTL DEF Spec, NodeInServiceIsKept

-----------------------------------------------------------------------------
(* What stands behind the liveness of Create and of the collector, as far  *)
(* as it is a matter of single steps.                                      *)

(* The API calls that a Create may still make, with its decisions. *)
StepsLeft(c) ==
  CASE calls[c].pc = "requesting"            -> MaxAttempts + 3
    [] calls[c].pc = "polling"               -> (MaxAttempts - calls[c].attempt) + 2
    [] calls[c].pc \in {"cleanup", "clearing"} -> 1
    [] OTHER                                 -> 0

(* A Create ends whatever is answered: each of its steps leaves it fewer   *)
(* steps, of which there are MaxAttempts + 3 at most, and nobody else's    *)
(* step gives it more.  Only a restart takes it away.                      *)
THEOREM CreateRunsOutOfSteps ==
  ASSUME IInv, Next, NEW c \in Claims, calls[c].pc \in CreatePCs
  PROVE  /\ StepsLeft(c) \in 1..(MaxAttempts + 3)
         /\ CreateStep(c) => StepsLeft(c)' \in 0..(StepsLeft(c) - 1)
         /\ ~CreateStep(c) => UNCHANGED calls[c] \/ Restart
<1> USE MaxAttemptsAssumption
<1>1. \A d \in Claims : calls[d] \in Call
  BY DEF IInv, TypeOK
<1>2. StepsLeft(c) \in 1..(MaxAttempts + 3)
  BY <1>1 DEF StepsLeft, Call, CreatePCs
<1>3. ASSUME CreateStep(c) PROVE StepsLeft(c)' \in 0..(StepsLeft(c) - 1)
  <2>1. CASE SubmitPool(c)
    <3>1. StepsLeft(c) = MaxAttempts + 3
      BY <2>1 DEF SubmitPool, StepsLeft
    <3>2. (calls'[c].pc = "polling" /\ calls'[c].attempt = 0) \/ calls'[c] = Idle
      BY <2>1 DEF SubmitPool, Return, IInv, TypeOK
    <3> QED BY <3>1, <3>2 DEF StepsLeft, Idle
  <2>2. CASE PollNode(c)
    <3>1. /\ calls[c].attempt \in 0..(MaxAttempts - 1)
          /\ StepsLeft(c) = (MaxAttempts - calls[c].attempt) + 2
      BY <2>2, <1>1 DEF PollNode, AttemptsLeft, StepsLeft, Call
    <3>2. \/ calls'[c].pc \in {"cleanup", "clearing"}
          \/ calls'[c].pc = "polling" /\ calls'[c].attempt = calls[c].attempt + 1
      BY <2>2, <1>1 DEF PollNode, GoTo, Sleep, Call, IInv, TypeOK
    <3> QED BY <3>1, <3>2 DEF StepsLeft
  <2>3. CASE GiveUp(c)
    <3>1. StepsLeft(c) >= 2
      BY <2>3, <1>1 DEF GiveUp, StepsLeft, Call
    <3>2. calls'[c].pc = "cleanup"
      BY <2>3, <1>1 DEF GiveUp, GoTo, Call, IInv, TypeOK
    <3> QED BY <1>2, <3>1, <3>2 DEF StepsLeft
  <2>4. CASE CleanUp(c)
    <3>1. StepsLeft(c) = 1
      BY <2>4 DEF CleanUp, StepsLeft
    <3>2. calls'[c].pc = "idle"
      BY <2>4 DEF CleanUp, Return, Idle, IInv, TypeOK
    <3> QED BY <3>1, <3>2 DEF StepsLeft
  <2>5. CASE ClearTaints(c)
    <3>1. StepsLeft(c) = 1
      BY <2>5 DEF ClearTaints, StepsLeft
    <3>2. calls'[c].pc = "created"
      BY <2>5, <1>1 DEF ClearTaints, GoTo, Call, IInv, TypeOK
    <3> QED BY <3>1, <3>2 DEF StepsLeft
  <2> QED BY <1>3, <2>1, <2>2, <2>3, <2>4, <2>5 DEF CreateStep
<1>4. ASSUME ~CreateStep(c) PROVE UNCHANGED calls[c] \/ Restart
  <2>1. ASSUME NEW d \in Claims, CreateCall(d) \/ ClaimStep(d), d # c
        PROVE  calls'[c] = calls[c]
    BY <2>1 DEF CreateCall, CreateStep, SubmitPool, PollNode, GiveUp, CleanUp, ClearTaints,
         ClaimStep, BeginCreate, Register, BeginDelete, DeleteStep, Lookup, DeletePool,
         FinalizeStep, CheckTerminated, FinalizeUnlaunched, GoTo, Return, Sleep,
         providerVars, IInv, TypeOK
  <2>2. ~ClaimStep(c) \/ UNCHANGED calls[c]
    BY DEF ClaimStep, BeginCreate, Register, BeginDelete, DeleteStep, Lookup, DeletePool,
         FinalizeStep, CheckTerminated, FinalizeUnlaunched, CreatePCs
  <2> QED BY <1>4, <2>1, <2>2
          DEF Next, CreateCall, DOKSStep, Demand, Provision, RequestDelete, DropAnnotation,
              InformerStep, Deliver, Touch, GCStep, Reconcile, BeginPass, ListInstances,
              ListClaims, Sweep, FinishPass, Stop, cloudVars, providerVars
<1> QED BY <1>2, <1>3, <1>4

=============================================================================
