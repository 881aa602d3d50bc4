---------------------------- MODULE LedgerProofs ----------------------------
(***************************************************************************)
(* The proof that Lifecycle implements NodePoolLedger, for all values of   *)
(* the constants, when all pools of the cluster fit the one page that is   *)
(* read.                                                                   *)
(***************************************************************************)
EXTENDS LifecycleProofs, LifecycleLedger

SettledClaims == {c \in Claims : Settled(c)}

(* What the ledger shows of the pools and of the claims. *)
PoolsKept  == \A p \in Own : pools'[p].state = pools[p].state /\ pools'[p].owner = pools[p].owner
ClaimsKept == \A c \in Claims : /\ claims'[c].phase = claims[c].phase
                                /\ claims'[c].providerID = claims[c].providerID

(* The pool of a claim's provider ID is one of Karpenter's. *)
LEMMA BoundIsOwn ==
  ASSUME IInv, NEW c \in Claims, claims[c].providerID # None
  PROVE  claims[c].providerID \in Own /\ pools[claims[c].providerID].owner = c
<1>1. claims[c].providerID \in PoolIDs
  BY DEF IInv, TypeOK, Claim
<1>2. pools[claims[c].providerID].managed /\ pools[claims[c].providerID].owner = c
  BY DEF IInv, ClaimInv
<1>3. claims[c].providerID \notin ForeignPools
  BY <1>1, <1>2 DEF IInv, PoolInv, ForeignPool, AbsentPool
<1> QED BY <1>1, <1>2, <1>3 DEF Own

(* Once settled a claim stays so until its deletion is requested. *)
LEMMA StaysSettled ==
  ASSUME IInv, [Next]_vars, NEW c \in Claims, Settled(c), claims'[c].phase # "deleting"
  PROVE  Settled(c)'
<1> DEFINE p == claims[c].providerID
<1>1. p \in PoolIDs /\ Serves(c, p) /\ p \notin gc.orphans /\ pools[p].state = "up"
  BY DEF Settled, Serves, IInv, TypeOK, Claim
<1>2. claims'[c].providerID = p /\ claims'[c].phase = "live"
  BY <1>1, ClaimProgress DEF ClaimMoves, Settled
<1>3. pools'[p].state = "up" /\ p \notin gc'.orphans /\ seen'[c].providerID = p
  BY <1>1, ServedIsUp, ServedIsNoOrphan, ServedIsSeen
<1> QED BY <1>1, <1>2, <1>3 DEF Settled

(* The step of the ledger where neither pools nor claims change. *)
LEMMA SettleStep ==
  ASSUME IInv, [Next]_vars, PoolsKept, ClaimsKept
  PROVE  Ledger!Settle
<1>1. SettledClaims \subseteq SettledClaims'
  <2> SUFFICES ASSUME NEW c \in Claims, Settled(c) PROVE Settled(c)'
    BY DEF SettledClaims
  <2>1. claims'[c].phase # "deleting"
    BY DEF Settled, ClaimsKept
  <2> QED BY <2>1, StaysSettled
<1>2. ASSUME NEW c \in SettledClaims'
      PROVE  /\ c \in Claims /\ claims[c].phase = "live"
             /\ claims[c].providerID \in Own
             /\ pools[claims[c].providerID].state = "up"
  <2>1. c \in Claims /\ Settled(c)'
    BY <1>2 DEF SettledClaims
  <2>2. claims[c].phase = "live" /\ claims[c].providerID # None
    BY <2>1 DEF Settled, ClaimsKept
  <2>3. claims[c].providerID \in Own
    BY <2>1, <2>2, BoundIsOwn
  <2> QED BY <2>1, <2>2, <2>3 DEF Settled, ClaimsKept, PoolsKept
<1>3. UNCHANGED <<[p \in Own |-> pools[p].state], [p \in Own |-> pools[p].owner],
                  [c \in Claims |-> claims[c].phase], [c \in Claims |-> claims[c].providerID]>>
  BY DEF PoolsKept, ClaimsKept
<1> QED BY <1>1, <1>2, <1>3 DEF Ledger!Settle, SettledClaims

-----------------------------------------------------------------------------
(* Steps that change a claim or a pool. *)

(* A claim that the step leaves alone, and whose pool and place in the     *)
(* collector's pass it does not better, is settled after it iff it was.    *)
LEMMA SameIfSpared ==
  ASSUME IInv, [Next]_vars, NEW c \in Claims,
         claims'[c].phase = claims[c].phase, claims'[c].providerID = claims[c].providerID,
         seen'[c] = seen[c],
         ASSUME claims[c].providerID # None, pools'[claims[c].providerID].state = "up"
         PROVE  /\ pools[claims[c].providerID].state = "up"
                /\ claims[c].providerID \in gc.orphans => claims[c].providerID \in gc'.orphans
  PROVE  Settled(c)' <=> Settled(c)
<1>1. ASSUME Settled(c)' PROVE Settled(c)
  BY <1>1 DEF Settled
<1>2. ASSUME Settled(c) PROVE Settled(c)'
  <2>1. claims'[c].phase # "deleting"
    BY <1>2 DEF Settled
  <2> QED BY <1>2, <2>1, StaysSettled
<1> QED BY <1>1, <1>2

(* DeleteNodePool of a pool that no settled claim has. *)
LEMMA GiveBackStep ==
  ASSUME IInv, [Next]_vars, NEW p \in PoolIDs, pools[p].managed, NEW result \in Results,
         DeleteNodePool(p, result), ClaimsKept, seen' = seen,
         \A q \in gc.orphans : q # p => q \in gc'.orphans,
         \A c \in Claims : Settled(c) => claims[c].providerID # p
  PROVE  Ledger!GiveBack(p) \/ Ledger!Settle
<1>1. p \in Own
  BY DEF Own, IInv, PoolInv, ForeignPool, AbsentPool
<1>2. CASE pools' = pools
  BY <1>2, SettleStep DEF PoolsKept
<1>3. CASE Exists(p) /\ pools' = [pools EXCEPT ![p].state = "deleting"]
  <2>1. /\ pools \in [PoolIDs -> Pool]
        /\ \A q \in Own : q # p => pools'[q] = pools[q]
        /\ pools'[p].state = "deleting" /\ pools'[p].owner = pools[p].owner
    BY <1>3 DEF IInv, TypeOK, Own, Pool
  <2>2. CASE pools[p].state = "deleting"
    BY <2>1, <2>2, SettleStep DEF PoolsKept
  <2>3. CASE pools[p].state = "up"
    <3>1. \A c \in Claims : Settled(c)' <=> Settled(c)
      <4> SUFFICES ASSUME NEW c \in Claims PROVE Settled(c)' <=> Settled(c)
        OBVIOUS
      <4>1. claims'[c].phase = claims[c].phase /\ claims'[c].providerID = claims[c].providerID
        BY DEF ClaimsKept
      <4>2. ASSUME claims[c].providerID # None, pools'[claims[c].providerID].state = "up"
            PROVE  /\ pools[claims[c].providerID].state = "up"
                   /\ claims[c].providerID \in gc.orphans => claims[c].providerID \in gc'.orphans
        BY <2>1, <4>2, BoundIsOwn
      <4> QED BY <4>1, <4>2, SameIfSpared
    <3>2. SettledClaims' = SettledClaims
      BY <3>1 DEF SettledClaims
    <3>3. [q \in Own |-> pools'[q].state]
            = [[q \in Own |-> pools[q].state] EXCEPT ![p] = "deleting"]
      BY <1>1, <2>1
    <3>4. [q \in Own |-> pools'[q].owner] = [q \in Own |-> pools[q].owner]
      BY <2>1
    <3>5. UNCHANGED <<[c \in Claims |-> claims[c].phase],
                      [c \in Claims |-> claims[c].providerID]>>
      BY DEF ClaimsKept
    <3>6. \A c \in SettledClaims : [d \in Claims |-> claims[d].providerID][c] # p
      BY DEF SettledClaims
    <3> QED BY <1>1, <2>3, <3>2, <3>3, <3>4, <3>5, <3>6 DEF Ledger!GiveBack, SettledClaims
  <2> QED BY <1>3, <2>2, <2>3 DEF Exists
<1> QED BY <1>2, <1>3 DEF DeleteNodePool

(* Karpenter's and the users' steps, and the storing of a provider ID,     *)
(* change one claim; those steps leave pools, cache and collector alone.   *)
LEMMA OthersStay ==
  ASSUME IInv, [Next]_vars, NEW c \in Claims, NEW d \in Claims, d # c,
         claims'[d] = claims[d], UNCHANGED <<pools, seen, gc>>
  PROVE  Settled(d)' <=> Settled(d)
<1>1. ASSUME claims[d].providerID # None, pools'[claims[d].providerID].state = "up"
      PROVE  /\ pools[claims[d].providerID].state = "up"
             /\ claims[d].providerID \in gc.orphans => claims[d].providerID \in gc'.orphans
  BY <1>1
<1> QED BY <1>1, SameIfSpared

(* One claim's phase moves, and no claim becomes settled by that. *)
LEMMA PhaseStep ==
  ASSUME IInv, [Next]_vars, NEW c \in Claims, NEW new, SetPhase(c, new),
         UNCHANGED <<pools, seen, gc>>,
         claims[c].phase = "absent" \/ new # "live",
         claims[c].phase = "live" \/ new # "deleting"
  PROVE  /\ [d \in Claims |-> claims'[d].phase]
               = [[d \in Claims |-> claims[d].phase] EXCEPT ![c] = new]
         /\ [d \in Claims |-> claims'[d].providerID] = [d \in Claims |-> claims[d].providerID]
         /\ SettledClaims' = SettledClaims \ {c}
         /\ claims[c].phase # "live" => c \notin SettledClaims
<1>1. \A d \in Claims : claims[d] \in Claim
  BY DEF IInv, TypeOK
<1>2. /\ \A d \in Claims : d # c => claims'[d] = claims[d]
      /\ claims'[c].phase = new /\ claims'[c].providerID = claims[c].providerID
  BY <1>1 DEF SetPhase, Claim, IInv, TypeOK
<1>3. \A d \in Claims : d # c => (Settled(d)' <=> Settled(d))
  BY <1>2, OthersStay
<1>4. ~Settled(c)'
  <2>1. CASE claims[c].phase = "absent"
    BY <1>2, <2>1 DEF IInv, ClaimInv, Settled
  <2>2. CASE new # "live"
    BY <1>2, <2>2 DEF Settled
  <2> QED BY <2>1, <2>2
<1>5. SettledClaims' = SettledClaims \ {c}
  BY <1>3, <1>4 DEF SettledClaims
<1>6. claims[c].phase # "live" => c \notin SettledClaims
  BY DEF SettledClaims, Settled
<1> QED BY <1>2, <1>5, <1>6

(* CreateNodePool rents a pool, or does nothing the ledger shows. *)
LEMMA SubmitPoolStep ==
  ASSUME IInv, [Next]_vars, NEW c \in Claims, SubmitPool(c), UNCHANGED <<claims, seen, gc>>
  PROVE  (\E p \in Own : Ledger!Rent(c, p)) \/ Ledger!Settle
<1>1. PICK p \in PoolIDs, result \in Results : CreateNodePool(p, PoolRequest(c), result)
  BY DEF SubmitPool
<1>2. CASE pools' = pools
  BY <1>2, SettleStep DEF PoolsKept, ClaimsKept
<1>3. CASE pools[p].state = "absent" /\ pools' = [pools EXCEPT ![p] = PoolRequest(c)]
  <2>1. p \in Own
    BY <1>3 DEF Own, IInv, PoolInv, ForeignPool, AbsentPool
  <2>2. /\ \A q \in PoolIDs : q # p => pools'[q] = pools[q]
        /\ pools'[p].state = "up" /\ pools'[p].owner = c
    BY <1>3 DEF IInv, TypeOK, PoolRequest
  <2>3. claims[c].phase \in {"live", "deleting"} /\ claims[c].providerID = None
    BY DEF SubmitPool, IInv, CallInv
  <2>4. \A d \in Claims : Settled(d)' <=> Settled(d)
    <3> SUFFICES ASSUME NEW d \in Claims PROVE Settled(d)' <=> Settled(d)
      OBVIOUS
    <3>1. ASSUME claims[d].providerID # None, pools'[claims[d].providerID].state = "up"
          PROVE  /\ pools[claims[d].providerID].state = "up"
                 /\ claims[d].providerID \in gc.orphans => claims[d].providerID \in gc'.orphans
      <4>1. claims[d].providerID \in PoolIDs /\ pools[claims[d].providerID].managed
        BY <3>1 DEF IInv, TypeOK, Claim, ClaimInv
      <4>2. claims[d].providerID # p
        BY <1>3, <4>1 DEF IInv, PoolInv
      <4> QED BY <2>2, <3>1, <4>1, <4>2
    <3> QED BY <3>1, SameIfSpared
  <2>5. SettledClaims' = SettledClaims
    BY <2>4 DEF SettledClaims
  <2>6. /\ [q \in Own |-> pools'[q].state]
              = [[q \in Own |-> pools[q].state] EXCEPT ![p] = "up"]
        /\ [q \in Own |-> pools'[q].owner]
              = [[q \in Own |-> pools[q].owner] EXCEPT ![p] = c]
    BY <2>1, <2>2 DEF Own
  <2>7. Ledger!Rent(c, p)
    BY <1>3, <2>1, <2>3, <2>5, <2>6 DEF Ledger!Rent, Ledger!HasFinalizer, SettledClaims
  <2> QED BY <2>1, <2>7
<1> QED BY <1>1, <1>2, <1>3 DEF CreateNodePool

(* The clean-up after a failed Create, Delete and the collector give back  *)
(* pools that are nobody's, or whose claim is going.                       *)
LEMMA CleanUpStep ==
  ASSUME IInv, [Next]_vars, NEW c \in Claims, CleanUp(c), UNCHANGED <<claims, seen, gc>>
  PROVE  (\E p \in Own : Ledger!GiveBack(p)) \/ Ledger!Settle
<1>1. /\ calls[c].pool \in PoolIDs /\ pools[calls[c].pool].managed
      /\ pools[calls[c].pool].owner = c /\ claims[c].providerID = None
  BY DEF CleanUp, IInv, CallInv, CreatingPCs, TypeOK, Call
<1>2. PICK result \in Results : DeleteNodePool(calls[c].pool, result)
  BY DEF CleanUp
<1>3. \A d \in Claims : Settled(d) => claims[d].providerID # calls[c].pool
  BY <1>1, BoundIsOwn DEF Settled
<1>4. ClaimsKept /\ seen' = seen /\ gc' = gc
  BY DEF ClaimsKept
<1>5. calls[c].pool \in Own
  BY <1>1 DEF Own, IInv, PoolInv, ForeignPool, AbsentPool
<1> QED BY <1>1, <1>2, <1>3, <1>4, <1>5, GiveBackStep

LEMMA DeletePoolStep ==
  ASSUME IInv, [Next]_vars, NEW c \in Claims, DeletePool(c), UNCHANGED <<seen, gc>>
  PROVE  (\E p \in Own : Ledger!GiveBack(p)) \/ Ledger!Settle
<1>1. /\ calls[c].pool \in PoolIDs /\ pools[calls[c].pool].managed
      /\ pools[calls[c].pool].owner = c /\ claims[c].phase = "deleting"
  BY ConstantsAssumption DEF DeletePool, IInv, CallInv, DeletingPCs, TypeOK, Call
<1>2. PICK result \in Results : DeleteNodePool(calls[c].pool, result)
  BY DEF DeletePool
<1>3. \A d \in Claims : Settled(d) => claims[d].providerID # calls[c].pool
  BY <1>1, BoundIsOwn DEF Settled
<1>4. ClaimsKept /\ seen' = seen /\ gc' = gc
  BY DEF ClaimsKept, DeletePool
<1>5. calls[c].pool \in Own
  BY <1>1 DEF Own, IInv, PoolInv, ForeignPool, AbsentPool
<1> QED BY <1>1, <1>2, <1>3, <1>4, <1>5, GiveBackStep

LEMMA SweepStep ==
  ASSUME IInv, [Next]_vars, NEW p \in PoolIDs, Sweep(p)
  PROVE  (\E q \in Own : Ledger!GiveBack(q)) \/ Ledger!Settle
<1>1. pools[p].managed /\ p \in gc.orphans
  BY DEF Sweep, IInv, PassInv
<1>2. PICK result \in Results : DeleteNodePool(p, result)
  BY DEF Sweep
<1>3. \A d \in Claims : Settled(d) => claims[d].providerID # p
  BY <1>1 DEF Settled
<1>4. /\ ClaimsKept /\ seen' = seen
      /\ \A q \in gc.orphans : q # p => q \in gc'.orphans
  BY DEF ClaimsKept, Sweep, IInv, TypeOK, Pass
<1>5. p \in Own
  BY <1>1 DEF Own, IInv, PoolInv, ForeignPool, AbsentPool
<1> QED BY <1>1, <1>2, <1>3, <1>4, <1>5, GiveBackStep

(* A pool disappears at the end of its deletion; a new droplet is nothing  *)
(* the ledger shows.                                                       *)
LEMMA DOKSLedgerStep ==
  ASSUME IInv, [Next]_vars, DOKSStep
  PROVE  (\E p \in Own : Ledger!Remove(p)) \/ Ledger!Settle
<1>1. PICK p \in PoolIDs : ProvisionNode(p) \/ RemovePool(p)
  BY DEF DOKSStep
<1>2. /\ pools \in [PoolIDs -> Pool]
      /\ UNCHANGED <<claims, seen, gc>>
  BY DEF DOKSStep, gcVars, IInv, TypeOK
<1>3. ClaimsKept
  BY <1>2 DEF ClaimsKept
<1>4. CASE ProvisionNode(p)
  <2>1. PoolsKept
    BY <1>2, <1>4 DEF ProvisionNode, PoolsKept, Own, Pool
  <2> QED BY <2>1, <1>3, SettleStep
<1>5. CASE RemovePool(p)
  <2>1. /\ \A q \in PoolIDs : q # p => pools'[q] = pools[q]
        /\ pools[p].state = "deleting" /\ pools'[p].state = "gone"
        /\ pools'[p].owner = pools[p].owner
    BY <1>2, <1>5 DEF RemovePool, Pool
  <2>2. p \in Own
    BY <2>1 DEF Own, IInv, PoolInv, ForeignPool, AbsentPool
  <2>3. \A c \in Claims : Settled(c)' <=> Settled(c)
    <3> SUFFICES ASSUME NEW c \in Claims PROVE Settled(c)' <=> Settled(c)
      OBVIOUS
    <3>1. ASSUME claims[c].providerID # None, pools'[claims[c].providerID].state = "up"
          PROVE  /\ pools[claims[c].providerID].state = "up"
                 /\ claims[c].providerID \in gc.orphans => claims[c].providerID \in gc'.orphans
      <4>1. claims[c].providerID \in PoolIDs
        BY <3>1 DEF IInv, TypeOK, Claim
      <4> QED BY <1>2, <2>1, <3>1, <4>1
    <3> QED BY <1>2, <3>1, SameIfSpared
  <2>4. SettledClaims' = SettledClaims
    BY <2>3 DEF SettledClaims
  <2>5. /\ [q \in Own |-> pools'[q].state]
              = [[q \in Own |-> pools[q].state] EXCEPT ![p] = "gone"]
        /\ [q \in Own |-> pools'[q].owner] = [q \in Own |-> pools[q].owner]
    BY <2>1, <2>2 DEF Own
  <2>6. Ledger!Remove(p)
    BY <1>2, <2>1, <2>2, <2>4, <2>5 DEF Ledger!Remove, SettledClaims
  <2> QED BY <2>2, <2>6
<1> QED BY <1>1, <1>4, <1>5

LEMMA DemandStep ==
  ASSUME IInv, [Next]_vars, NEW c \in Claims, Demand(c)
  PROVE  Ledger!Open(c) \/ Ledger!RequestDelete(c) \/ Ledger!Settle
<1>1. UNCHANGED <<pools, seen, gc>>
  BY DEF Demand, Provision, RequestDelete, DropAnnotation, gcVars, providerVars, doksVars
<1>2. CASE Provision(c)
  <2>1. claims[c].phase = "absent" /\ SetPhase(c, "live")
    BY <1>2 DEF Provision
  <2> QED BY <1>1, <2>1, PhaseStep DEF Ledger!Open, SettledClaims
<1>3. CASE RequestDelete(c)
  <2>1. claims[c].phase = "live" /\ SetPhase(c, "deleting")
    BY <1>3 DEF RequestDelete
  <2> QED BY <1>1, <2>1, PhaseStep DEF Ledger!RequestDelete, SettledClaims
<1>4. CASE DropAnnotation(c)
  <2>1. ClaimsKept
    BY <1>4 DEF DropAnnotation, ClaimsKept, IInv, TypeOK, Claim
  <2> QED BY <1>1, <2>1, SettleStep DEF PoolsKept
<1> QED BY <1>2, <1>3, <1>4 DEF Demand

(* The provider ID that is stored is that of the claim's own pool.         *)
LEMMA RegisterStep ==
  ASSUME IInv, [Next]_vars, NEW c \in Claims, Register(c), UNCHANGED <<seen, gc>>
  PROVE  \E p \in Own : Ledger!Bind(c, p)
<1>0. PICK p \in PoolIDs : p = calls[c].pool
  BY DEF Register, IInv, CallInv, CreatingPCs, TypeOK, Call
<1>1. /\ pools[p].managed /\ pools[p].owner = c
      /\ claims[c].phase \in {"live", "deleting"} /\ claims[c].providerID = None
  BY <1>0 DEF Register, IInv, CallInv, CreatingPCs, TypeOK, Call
<1>2. p \in Own
  BY <1>1 DEF Own, IInv, PoolInv, ForeignPool, AbsentPool
<1>3. pools' = pools
  BY DEF Register, doksVars
<1>4. /\ \A d \in Claims : d # c => claims'[d] = claims[d]
      /\ claims'[c].phase = claims[c].phase /\ claims'[c].providerID = p
  BY <1>0 DEF Register, InstanceToNodeClaim, IInv, TypeOK, Claim
<1>5. ~Settled(c) /\ ~Settled(c)'
  BY <1>1, <1>2, <1>4, ConstantsAssumption DEF Settled, IInv, SeenInv, Own
<1>6. \A d \in Claims : d # c => (Settled(d)' <=> Settled(d))
  BY <1>3, <1>4, OthersStay
<1>7. SettledClaims' = SettledClaims
  BY <1>5, <1>6 DEF SettledClaims
<1>8. /\ [d \in Claims |-> claims'[d].phase] = [d \in Claims |-> claims[d].phase]
      /\ [d \in Claims |-> claims'[d].providerID]
           = [[d \in Claims |-> claims[d].providerID] EXCEPT ![c] = p]
  BY <1>4
<1>9. Ledger!Bind(c, p)
  BY <1>1, <1>2, <1>3, <1>7, <1>8 DEF Ledger!Bind, Ledger!HasFinalizer, SettledClaims
<1> QED BY <1>2, <1>9

(* A claim is finalized when its pool is gone, or when it never had one.   *)
LEMMA FinalizeLedgerStep ==
  ASSUME FitsOnePage, IInv, [Next]_vars, NEW c \in Claims, FinalizeStep(c), UNCHANGED <<seen, gc>>
  PROVE  Ledger!Finalize(c) \/ Ledger!Settle
<1>1. pools' = pools
  BY DEF FinalizeStep, CheckTerminated, FinalizeUnlaunched, providerVars, doksVars
<1>2. CASE UNCHANGED claims
  BY <1>1, <1>2, SettleStep DEF PoolsKept, ClaimsKept
<1>3. CASE SetPhase(c, "gone")
  <2>1. claims[c].phase = "deleting"
    BY DEF FinalizeStep, CheckTerminated, FinalizeUnlaunched, IInv, CallInv, DeletingPCs
  <2>2. ASSUME claims[c].providerID # None
        PROVE  /\ claims[c].providerID \in Own
               /\ pools[claims[c].providerID].state = "gone"
    <3>1. CheckTerminated(c) /\ claims'[c].phase = "gone"
      BY <1>3, <2>2 DEF FinalizeStep, FinalizeUnlaunched, SetPhase, IInv, TypeOK, Claim
    <3>2. PICK page \in SUBSET PoolIDs, result \in Results :
            ListNodePools(page, result) /\ GetNotFound(c, page, result)
      BY <2>1, <3>1 DEF CheckTerminated
    <3>3. ~Exists(claims[c].providerID)
      BY <2>2, <3>2, NotFoundMeansGone
    <3>4. claims[c].providerID \in Own /\ pools[claims[c].providerID].managed
      BY <2>2, BoundIsOwn DEF IInv, ClaimInv
    <3> QED BY <3>3, <3>4 DEF Exists, Own, IInv, PoolInv, TypeOK, Pool
  <2>3. /\ [d \in Claims |-> claims'[d].phase]
              = [[d \in Claims |-> claims[d].phase] EXCEPT ![c] = "gone"]
        /\ [d \in Claims |-> claims'[d].providerID] = [d \in Claims |-> claims[d].providerID]
        /\ SettledClaims' = SettledClaims
    BY <1>1, <1>3, <2>1, PhaseStep
  <2> QED BY <1>1, <2>1, <2>2, <2>3 DEF Ledger!Finalize, SettledClaims
<1> QED BY <1>2, <1>3 DEF FinalizeStep, CheckTerminated, FinalizeUnlaunched

-----------------------------------------------------------------------------
(* Every step of Lifecycle is a step of the ledger.                        *)

LEMMA LedgerStep ==
  ASSUME FitsOnePage, IInv, [Next]_vars
  PROVE  Ledger!Next
<1>1. CASE DOKSStep
  BY <1>1, DOKSLedgerStep DEF Ledger!Next
<1>2. ASSUME NEW c \in Claims, CreateCall(c) PROVE Ledger!Next
  <2>1. UNCHANGED <<claims, seen, gc>> /\ ClaimsKept
    BY <1>2 DEF CreateCall, gcVars, ClaimsKept
  <2>2. CASE SubmitPool(c)
    BY <2>1, <2>2, SubmitPoolStep DEF Ledger!Next
  <2>3. CASE CleanUp(c)
    BY <2>1, <2>3, CleanUpStep DEF Ledger!Next
  <2>4. CASE PollNode(c) \/ GiveUp(c) \/ ClearTaints(c)
    <3>1. PoolsKept
      BY <2>4 DEF PollNode, GiveUp, ClearTaints, ClearPoolTaints, doksVars, PoolsKept, Own,
                  IInv, TypeOK, Pool
    <3> QED BY <2>1, <3>1, SettleStep DEF Ledger!Next
  <2> QED BY <1>2, <2>2, <2>3, <2>4 DEF CreateCall, CreateStep
<1>3. ASSUME NEW c \in Claims, ClaimStep(c) PROVE Ledger!Next
  <2>1. UNCHANGED <<seen, gc>>
    BY <1>3 DEF ClaimStep, gcVars
  <2>2. CASE Register(c)
    BY <2>1, <2>2, RegisterStep DEF Ledger!Next
  <2>3. CASE DeletePool(c)
    BY <2>1, <2>3, DeletePoolStep DEF Ledger!Next
  <2>4. CASE FinalizeStep(c)
    BY <2>1, <2>4, FinalizeLedgerStep DEF Ledger!Next
  <2>5. CASE BeginCreate(c) \/ BeginDelete(c) \/ Lookup(c)
    BY <2>5, SettleStep DEF BeginCreate, BeginDelete, Lookup, doksVars, PoolsKept, ClaimsKept,
                            Ledger!Next
  <2> QED BY <1>3, <2>2, <2>3, <2>4, <2>5 DEF ClaimStep, DeleteStep
<1>4. ASSUME NEW c \in Claims, Demand(c) PROVE Ledger!Next
  BY <1>4, DemandStep DEF Ledger!Next
<1>5. ASSUME NEW p \in PoolIDs, Sweep(p) PROVE Ledger!Next
  BY <1>5, SweepStep DEF Ledger!Next
<1>6. CASE UNCHANGED <<pools, claims>>
  BY <1>6, SettleStep DEF PoolsKept, ClaimsKept, Ledger!Next
<1> QED BY <1>1, <1>2, <1>3, <1>4, <1>5, <1>6
        DEF Next, InformerStep, Deliver, Touch, GCStep, Reconcile, BeginPass, ListInstances,
            ListClaims, FinishPass, Stop, Shutdown, Restart,
            vars, cloudVars, providerVars, doksVars

(* The provider keeps the ledger: whatever fails, however old what it      *)
(* reads, wherever it stops, as long as the page shows all pools there     *)
(* are.                                                                    *)
THEOREM ProviderKeepsLedger ==
  Spec /\ []FitsOnePage => KeepsLedger
<1>1. Init => Ledger!Init
  <2> SUFFICES ASSUME Init PROVE Ledger!Init
    OBVIOUS
  <2>1. /\ \A p \in Own : pools[p].state = "absent" /\ pools[p].owner = None
        /\ \A c \in Claims : claims[c].phase = "absent" /\ claims[c].providerID = None
    BY DEF Init, DOKSInit, CloudInit, AbsentPool, AbsentClaim, Own
  <2> QED BY <2>1 DEF Ledger!Init, Settled
<1>2. IInv /\ FitsOnePage /\ [Next]_vars => [Ledger!Next]_(Ledger!ledger)
  BY LedgerStep
<1> QED BY Invariance, <1>1, <1>2, PTL DEF Spec, KeepsLedger, Ledger!Spec

-----------------------------------------------------------------------------
(* What the ledger alone guarantees, read back in the composition. *)

Accounts == INSTANCE NodePoolLedgerProofs WITH
  Pools   <- Own,
  stage   <- [p \in Own |-> pools[p].state],
  owner   <- [p \in Own |-> pools[p].owner],
  phase   <- [c \in Claims |-> claims[c].phase],
  bound   <- [c \in Claims |-> claims[c].providerID],
  settled <- SettledClaims

(* Lifecycle's claims and pools are in order as the ledger's are: claims   *)
(* are bound to pools made for them, a claim the collector has seen has a  *)
(* node that runs, and a finalized one has left none.                      *)
THEOREM ProviderAccountsAreSound ==
  Spec /\ []FitsOnePage => []Accounts!Sound
<1>1. Accounts!NamesDiffer
  BY ConstantsAssumption DEF Accounts!NamesDiffer, Own
<1>2. Accounts!Spec => []Accounts!Sound
  BY <1>1, Accounts!LedgerIsSound
<1>3. Ledger!Init => Accounts!Init
  BY DEF Ledger!Init, Accounts!Init, SettledClaims
<1>4. [Ledger!Next]_(Ledger!ledger) => [Accounts!Next]_(Accounts!ledger)
  BY DEF SettledClaims, Ledger!ledger, Accounts!ledger, Ledger!Next, Accounts!Next,
         Ledger!Open, Accounts!Open, Ledger!RequestDelete, Accounts!RequestDelete,
         Ledger!Finalize, Accounts!Finalize, Ledger!Rent, Accounts!Rent,
         Ledger!Bind, Accounts!Bind, Ledger!GiveBack, Accounts!GiveBack,
         Ledger!Remove, Accounts!Remove, Ledger!Settle, Accounts!Settle,
         Ledger!HasFinalizer, Accounts!HasFinalizer
<1> QED BY ProviderKeepsLedger, <1>2, <1>3, <1>4, PTL
        DEF KeepsLedger, Ledger!Spec, Accounts!Spec

=============================================================================
