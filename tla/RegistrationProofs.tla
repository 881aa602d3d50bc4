------------------------- MODULE RegistrationProofs -------------------------
(***************************************************************************)
(* Proofs, for all values of the constants, of the safety of Registration. *)
(***************************************************************************)
EXTENDS Registration, TLAPS

(* No call fails without effect; answers may be lost. *)
CallsTakeEffect == "api" \notin Faults

-----------------------------------------------------------------------------
(* The inductive invariant, whatever fails. *)

(* A call that creates works on its claim's own pool, which is not the     *)
(* claim's provider ID yet.                                                *)
CallInv(c) ==
  /\ calls[c].pc \in CreatePCs \cup {"created"} => claims[c].providerID = None
  /\ calls[c].pc \in {"polling", "cleanup", "clearing", "created"} =>
       /\ calls[c].pool \in PoolIDs
       /\ pools[calls[c].pool].state # "absent"
       /\ pools[calls[c].pool].owner = c
  /\ calls[c].pc = "delete" => calls[c].pool \in PoolIDs

ClaimInv(c) ==
  \A p \in PoolIDs : claims[c].providerID = p => pools[p].state # "absent" /\ pools[p].owner = c

(* A registered node is in its claim's status, and has no taint that the   *)
(* spec of its pool does not have.                                         *)
NodeInv(p) ==
  /\ nodes[p].joined => Exists(p)
  /\ nodes[p].registered => /\ nodes[p].joined
                            /\ \E c \in Claims : claims[c].providerID = p
                            /\ nodes[p].tainted => pools[p].tainted

(* The types of all but the collector's variables. *)
PlantTyped ==
  /\ pools \in [PoolIDs -> Pool] /\ ctxDone \in BOOLEAN
  /\ calls \in [Claims -> Call] /\ claims \in [Claims -> Claim]
  /\ nodes \in [PoolIDs -> Node]

RInv ==
  /\ PlantTyped
  /\ ~ctxDone
  /\ \A c \in Claims : CallInv(c) /\ ClaimInv(c)
  /\ \A p \in PoolIDs : NodeInv(p)

-----------------------------------------------------------------------------
(* What a step may do to the pools. *)

(* DOKS will not put the taint on the pool's node any more. *)
Clear(p) ==
  /\ pools[p].state # "absent"
  /\ pools[p].tainted => pools[p].state = "gone"

(* For all pools: what is made stays its claim's, what is clear stays so. *)
Forward ==
  /\ pools' \in [PoolIDs -> Pool]
  /\ \A p \in PoolIDs : /\ pools[p].state # "absent" => /\ pools'[p].state # "absent"
                                                        /\ pools'[p].owner = pools[p].owner
                        /\ Clear(p) => Clear(p)'

(* For the pool of a node that does not leave. *)
Lasts(p) ==
  /\ Exists(p) => Exists(p)'
  /\ nodes[p].registered /\ pools[p].tainted => pools'[p].tainted

Steady == Forward /\ \A p \in PoolIDs : Lasts(p)

LEMMA SameSteady == ASSUME RInv, pools' = pools PROVE Steady
BY DEF RInv, PlantTyped, Steady, Forward, Clear, Lasts, Exists

LEMMA CreateSteady ==
  ASSUME RInv, NEW c \in Claims, NEW p \in PoolIDs, NEW result \in Results,
         CreateNodePool(p, PoolRequest(c), result)
  PROVE  /\ Steady
         /\ result = "ok" => pools'[p].state # "absent" /\ pools'[p].owner = c
<1>1. PoolRequest(c) \in Pool /\ PoolRequest(c).state = "up" /\ PoolRequest(c).owner = c
  BY DEF PoolRequest, Pool
<1>2. CASE pools[p].state = "absent" /\ pools' = [pools EXCEPT ![p] = PoolRequest(c)]
  <2>1. ~Exists(p) /\ ~nodes[p].registered
    BY <1>2 DEF Exists, RInv, NodeInv
  <2> QED BY <1>1, <1>2, <2>1 DEF RInv, PlantTyped, Steady, Forward, Clear, Lasts, Exists
<1>3. CASE UNCHANGED pools /\ result = "error"
  BY <1>3, SameSteady
<1> QED BY <1>2, <1>3 DEF CreateNodePool

(* The pool of a call that creates has no registered node yet. *)
LEMMA CreatingUnregistered ==
  ASSUME RInv, NEW c \in Claims, calls[c].pc \in {"polling", "cleanup", "clearing", "created"}
  PROVE  calls[c].pool \in PoolIDs /\ ~nodes[calls[c].pool].registered
BY ConstantsAssumption DEF RInv, CallInv, ClaimInv, NodeInv, CreatePCs

LEMMA ClearSteady ==
  ASSUME RInv, NEW p \in PoolIDs, NEW result \in Results,
         ClearPoolTaints(p, result), ~nodes[p].registered
  PROVE  Steady
<1>1. CASE Exists(p) /\ pools' = [pools EXCEPT ![p].tainted = FALSE]
  BY <1>1 DEF Exists, RInv, PlantTyped, Pool, Steady, Forward, Clear, Lasts
<1> QED BY <1>1, SameSteady DEF ClearPoolTaints

LEMMA DeleteSteady ==
  ASSUME RInv, NEW p \in PoolIDs, NEW result \in Results, DeleteNodePool(p, result)
  PROVE  Steady
<1>1. CASE Exists(p) /\ pools' = [pools EXCEPT ![p].state = "deleting"]
  BY <1>1 DEF Exists, RInv, PlantTyped, Pool, Steady, Forward, Clear, Lasts
<1> QED BY <1>1, SameSteady DEF DeleteNodePool

-----------------------------------------------------------------------------
(* What is left alone keeps its part. *)

(* A provider ID is for good. *)
IDsKept ==
  \A c \in Claims :
    claims[c].providerID # None => claims'[c].providerID = claims[c].providerID

LEMMA OthersKept ==
  ASSUME RInv, Forward, IDsKept
  PROVE  /\ \A c \in Claims : claims'[c].providerID = claims[c].providerID =>
               /\ ClaimInv(c)'
               /\ calls'[c] = calls[c] => CallInv(c)'
         /\ \A p \in PoolIDs : nodes'[p] = nodes[p] /\ Lasts(p) => NodeInv(p)'
<1>1. ASSUME NEW c \in Claims, claims'[c].providerID = claims[c].providerID
      PROVE  ClaimInv(c)' /\ (calls'[c] = calls[c] => CallInv(c)')
  BY <1>1 DEF RInv, Forward, CallInv, ClaimInv
<1>2. ASSUME NEW p \in PoolIDs, nodes'[p] = nodes[p], Lasts(p)
      PROVE  NodeInv(p)'
  BY <1>2, ConstantsAssumption DEF RInv, NodeInv, Lasts, IDsKept
<1> QED BY <1>1, <1>2

LEMMA SameIDs == ASSUME UNCHANGED claims PROVE IDsKept
BY DEF IDsKept

(* A step on the call of one claim. *)
LEMMA OneCall ==
  ASSUME RInv, Steady, NEW c \in Claims, NEW new \in Call,
         calls' = [calls EXCEPT ![c] = new], UNCHANGED <<ctxDone, claims, nodes>>,
         new.pc \in CreatePCs \cup {"created"} => claims[c].providerID = None,
         new.pc \in {"polling", "cleanup", "clearing", "created"} =>
           /\ new.pool \in PoolIDs
           /\ pools'[new.pool].state # "absent"
           /\ pools'[new.pool].owner = c,
         new.pc = "delete" => new.pool \in PoolIDs
  PROVE  RInv'
<1>1. calls' \in [Claims -> Call] /\ calls'[c] = new
      /\ \A d \in Claims : d # c => calls'[d] = calls[d]
  BY DEF RInv, PlantTyped
<1>2. CallInv(c)'
  BY <1>1 DEF CallInv
<1>3. \A d \in Claims : CallInv(d)' /\ ClaimInv(d)'
  BY <1>1, <1>2, OthersKept, SameIDs DEF Steady
<1>4. \A p \in PoolIDs : NodeInv(p)'
  BY OthersKept, SameIDs DEF Steady
<1>5. PlantTyped'
  BY <1>1 DEF RInv, PlantTyped, Steady, Forward
<1> QED BY <1>3, <1>4, <1>5 DEF RInv

LEMMA ReturnKeeps ==
  ASSUME RInv, Steady, NEW c \in Claims, Return(c), UNCHANGED <<ctxDone, claims, nodes>>
  PROVE  RInv'
<1> DEFINE new == Idle
<1>1. new \in Call /\ new.pc = "idle"
  BY MaxAttemptsAssumption DEF Idle, Call
<1>2. calls' = [calls EXCEPT ![c] = new]
  BY DEF Return
<1> HIDE DEF new
<1> QED BY <1>1, <1>2, OneCall DEF CreatePCs

(* A step on one claim and its call, which is over or keeps the claim's    *)
(* provider ID.                                                            *)
LEMMA OneClaim ==
  ASSUME RInv, NEW c \in Claims, NEW new \in Claim,
         claims' = [claims EXCEPT ![c] = new],
         claims[c].providerID # None => new.providerID = claims[c].providerID,
         \A p \in PoolIDs : new.providerID = p => pools[p].state # "absent" /\ pools[p].owner = c,
         \/ Return(c)
         \/ calls' = calls /\ new.providerID = claims[c].providerID,
         UNCHANGED <<pools, ctxDone, nodes>>
  PROVE  RInv'
<1>1. Idle \in Call /\ Idle.pc = "idle"
  BY MaxAttemptsAssumption DEF Idle, Call
<1>2. calls' \in [Claims -> Call]
  BY <1>1 DEF Return, RInv, PlantTyped
<1>3. claims' \in [Claims -> Claim] /\ claims'[c] = new
      /\ \A d \in Claims : d # c => claims'[d] = claims[d]
  BY DEF RInv, PlantTyped
<1>4. Steady /\ Forward /\ IDsKept
  BY <1>3, SameSteady DEF Steady, IDsKept
<1>5. ClaimInv(c)'
  BY <1>3 DEF ClaimInv
<1>6. CallInv(c)'
  <2>1. CASE Return(c)
    BY <1>1, <2>1 DEF Return, RInv, PlantTyped, CallInv, CreatePCs
  <2>2. CASE calls' = calls /\ new.providerID = claims[c].providerID
    BY <1>3, <1>4, <2>2, OthersKept
  <2> QED BY <2>1, <2>2
<1>7. \A d \in Claims : d # c => calls'[d] = calls[d]
  BY DEF Return, RInv, PlantTyped
<1>8. \A d \in Claims : CallInv(d)' /\ ClaimInv(d)'
  BY <1>3, <1>4, <1>5, <1>6, <1>7, OthersKept
<1>9. \A p \in PoolIDs : NodeInv(p)'
  BY <1>4, OthersKept DEF Steady
<1> QED BY <1>2, <1>3, <1>8, <1>9 DEF RInv, PlantTyped

(* A step of DOKS on one pool, or on one node. *)
LEMMA OneNode ==
  ASSUME RInv, Forward, NEW p \in PoolIDs, NEW new \in Node,
         nodes' = [nodes EXCEPT ![p] = new], UNCHANGED <<ctxDone, calls, claims>>,
         \A q \in PoolIDs : q # p => Lasts(q),
         new.joined => Exists(p)',
         new.registered => /\ new.joined
                           /\ \E c \in Claims : claims[c].providerID = p
                           /\ new.tainted => pools'[p].tainted
  PROVE  RInv'
<1>1. nodes' \in [PoolIDs -> Node] /\ nodes'[p] = new
      /\ \A q \in PoolIDs : q # p => nodes'[q] = nodes[q]
  BY DEF RInv, PlantTyped
<1>2. NodeInv(p)'
  BY <1>1 DEF NodeInv
<1>3. \A q \in PoolIDs : NodeInv(q)'
  BY <1>1, <1>2, OthersKept, SameIDs
<1>4. \A d \in Claims : CallInv(d)' /\ ClaimInv(d)'
  BY OthersKept, SameIDs
<1>5. PlantTyped'
  BY <1>1 DEF RInv, PlantTyped, Forward
<1> QED BY <1>3, <1>4, <1>5 DEF RInv

-----------------------------------------------------------------------------
(* The steps of the provider's calls. *)

LEMMA CreateStepKeeps ==
  ASSUME RInv, NEW c \in Claims, CreateStep(c), UNCHANGED <<claims, nodes>>
  PROVE  RInv' /\ Steady
<1>1. calls[c] \in Call /\ claims[c].providerID = None
  BY DEF RInv, PlantTyped, CallInv, CreatePCs, CreateStep, SubmitPool, PollNode, GiveUp, CleanUp,
         ClearTaints
<1>2. CASE SubmitPool(c)
  <2>1. PICK p \in PoolIDs, result \in Results :
          /\ CreateNodePool(p, PoolRequest(c), result)
          /\ \/ /\ result = "ok"
                /\ calls' = [calls EXCEPT ![c] = [pc |-> "polling", pool |-> p, attempt |-> 0]]
             \/ Return(c)
    BY <1>2 DEF SubmitPool
  <2>2. Steady /\ (result = "ok" => pools'[p].state # "absent" /\ pools'[p].owner = c)
    BY <2>1, CreateSteady
  <2>3. [pc |-> "polling", pool |-> p, attempt |-> 0] \in Call
    BY MaxAttemptsAssumption DEF Call, CreatePCs
  <2>4. CASE Return(c)
    BY <1>2, <2>2, <2>4, ReturnKeeps DEF SubmitPool
  <2>5. CASE /\ result = "ok"
             /\ calls' = [calls EXCEPT ![c] = [pc |-> "polling", pool |-> p, attempt |-> 0]]
    BY <1>1, <1>2, <2>2, <2>3, <2>5, OneCall DEF SubmitPool
  <2> QED BY <2>1, <2>4, <2>5
<1>3. CASE PollNode(c)
  <2>1. /\ calls[c].pool \in PoolIDs
        /\ pools[calls[c].pool].state # "absent" /\ pools[calls[c].pool].owner = c
        /\ UNCHANGED <<pools, ctxDone>>
    BY <1>3 DEF PollNode, RInv, CallInv, doksVars
  <2>2. PICK new \in Call :
          /\ calls' = [calls EXCEPT ![c] = new]
          /\ new.pool = calls[c].pool /\ new.pc \in {"polling", "cleanup", "clearing"}
    <3>1. CASE GoTo(c, "cleanup")
      <4>1. [calls[c] EXCEPT !.pc = "cleanup"] \in Call
        BY <1>1 DEF Call, CreatePCs
      <4> QED BY <1>1, <3>1, <4>1 DEF GoTo, Call
    <3>2. CASE GoTo(c, "clearing")
      <4>1. [calls[c] EXCEPT !.pc = "clearing"] \in Call
        BY <1>1 DEF Call, CreatePCs
      <4> QED BY <1>1, <3>2, <4>1 DEF GoTo, Call
    <3>3. CASE Sleep(c)
      <4>1. [calls[c] EXCEPT !.attempt = @ + 1] \in Call
        BY <1>1, <1>3, MaxAttemptsAssumption DEF PollNode, AttemptsLeft, Call
      <4> QED BY <1>1, <1>3, <3>3, <4>1 DEF PollNode, Sleep, Call
    <3> QED BY <1>3, <3>1, <3>2, <3>3 DEF PollNode
  <2> QED BY <1>1, <2>1, <2>2, SameSteady, OneCall
<1>4. CASE GiveUp(c)
  <2>1. /\ calls[c].pool \in PoolIDs
        /\ pools[calls[c].pool].state # "absent" /\ pools[calls[c].pool].owner = c
        /\ UNCHANGED <<pools, ctxDone>>
    BY <1>4 DEF GiveUp, RInv, CallInv, doksVars
  <2> DEFINE new == [calls[c] EXCEPT !.pc = "cleanup"]
  <2>2. calls' = [calls EXCEPT ![c] = new]
    BY <1>4 DEF GiveUp, GoTo
  <2>3. new \in Call /\ new.pc = "cleanup" /\ new.pool = calls[c].pool
    BY <1>1 DEF Call, CreatePCs
  <2> HIDE DEF new
  <2> QED BY <1>1, <2>1, <2>2, <2>3, SameSteady, OneCall
<1>5. CASE CleanUp(c)
  <2>1. PICK result \in Results : DeleteNodePool(calls[c].pool, result)
    BY <1>5 DEF CleanUp
  <2>2. Steady
    BY <1>5, <2>1, DeleteSteady DEF CleanUp, RInv, CallInv
  <2> QED BY <1>5, <2>2, ReturnKeeps DEF CleanUp
<1>6. CASE ClearTaints(c)
  <2>1. PICK p \in PoolIDs : /\ p = calls[c].pool /\ ~nodes[p].registered
                             /\ pools[p].state # "absent" /\ pools[p].owner = c
    BY <1>6, CreatingUnregistered DEF ClearTaints, RInv, CallInv
  <2>2. PICK result \in Results : ClearPoolTaints(p, result)
    BY <1>6, <2>1 DEF ClearTaints
  <2>3. Steady
    BY <2>1, <2>2, ClearSteady
  <2>4. pools'[p].state # "absent" /\ pools'[p].owner = c
    BY <2>1, <2>3 DEF Steady, Forward
  <2>5. PICK new \in Call : new = [calls[c] EXCEPT !.pc = "created"]
    BY <1>1 DEF Call
  <2>6. new.pc = "created" /\ new.pool = p
    BY <1>1, <2>1, <2>5 DEF Call
  <2>7. calls' = [calls EXCEPT ![c] = new] /\ UNCHANGED ctxDone
    BY <1>6, <2>5 DEF ClearTaints, GoTo
  <2> QED BY <1>1, <2>1, <2>3, <2>4, <2>6, <2>7, OneCall
<1> QED BY <1>2, <1>3, <1>4, <1>5, <1>6 DEF CreateStep

LEMMA DeleteStepKeeps ==
  ASSUME RInv, NEW c \in Claims, BeginDelete(c) \/ DeleteStep(c), UNCHANGED nodes
  PROVE  RInv' /\ Steady
<1>1. calls[c] \in Call /\ claims[c] \in Claim /\ Idle \in Call
  BY MaxAttemptsAssumption DEF RInv, PlantTyped, Idle, Call
<1>2. CASE BeginDelete(c)
  <2> DEFINE new == [pc      |-> IF claims[c].poolID # None THEN "delete" ELSE "lookup",
                     pool    |-> claims[c].poolID,
                     attempt |-> 0]
  <2>1. new \in Call /\ new.pc \in {"delete", "lookup"}
        /\ (new.pc = "delete" => new.pool \in PoolIDs)
    BY <1>1, MaxAttemptsAssumption DEF Call, DeletePCs, Claim
  <2>2. calls' = [calls EXCEPT ![c] = new] /\ UNCHANGED <<pools, ctxDone, claims>>
    BY <1>2 DEF BeginDelete, doksVars
  <2> HIDE DEF new
  <2> QED BY <2>1, <2>2, SameSteady, OneCall DEF CreatePCs
<1>3. CASE Lookup(c)
  <2>1. UNCHANGED <<pools, ctxDone, claims>>
    BY <1>3 DEF Lookup, doksVars
  <2>2. PICK new \in Call :
          /\ calls' = [calls EXCEPT ![c] = new]
          /\ new.pc \in {"idle", "deleted", "delete"}
          /\ new.pc = "delete" => new.pool \in PoolIDs
    <3>1. CASE Return(c)
      BY <1>1, <3>1 DEF Return, Idle
    <3>2. CASE GoTo(c, "deleted")
      <4>1. [calls[c] EXCEPT !.pc = "deleted"] \in Call
        BY <1>1 DEF Call
      <4> QED BY <1>1, <3>2, <4>1 DEF GoTo, Call
    <3>3. ASSUME NEW p \in PoolIDs, calls' = [calls EXCEPT ![c].pc = "delete", ![c].pool = p]
          PROVE  \E new \in Call :
                   /\ calls' = [calls EXCEPT ![c] = new]
                   /\ new.pc \in {"idle", "deleted", "delete"}
                   /\ new.pc = "delete" => new.pool \in PoolIDs
      <4>1. /\ [calls[c] EXCEPT !.pc = "delete", !.pool = p] \in Call
            /\ calls' = [calls EXCEPT ![c] = [calls[c] EXCEPT !.pc = "delete", !.pool = p]]
        BY <1>1, <3>3 DEF Call, DeletePCs, RInv, PlantTyped
      <4> QED BY <1>1, <4>1 DEF Call
    <3>4. \A page \in SUBSET PoolIDs : WithDroplet(claims[c].providerID, page) \subseteq PoolIDs
      BY DEF WithDroplet, InstancesIn, ManagedPools
    <3> QED BY <1>3, <3>1, <3>2, <3>3, <3>4 DEF Lookup
  <2> QED BY <2>1, <2>2, SameSteady, OneCall DEF CreatePCs
<1>4. CASE DeletePool(c)
  <2>1. PICK result \in Results :
          /\ DeleteNodePool(calls[c].pool, result)
          /\ Return(c) \/ GoTo(c, "deleted")
    BY <1>4 DEF DeletePool
  <2>2. Steady
    BY <1>4, <2>1, DeleteSteady DEF DeletePool, RInv, CallInv
  <2>3. CASE Return(c)
    BY <1>4, <2>2, <2>3, ReturnKeeps DEF DeletePool
  <2>4. CASE GoTo(c, "deleted")
    <3> DEFINE new == [calls[c] EXCEPT !.pc = "deleted"]
    <3>1. new \in Call /\ new.pc = "deleted"
      BY <1>1 DEF Call
    <3>2. calls' = [calls EXCEPT ![c] = new]
      BY <2>4 DEF GoTo
    <3> HIDE DEF new
    <3> QED BY <1>4, <2>2, <3>1, <3>2, OneCall DEF DeletePool, CreatePCs
  <2> QED BY <2>1, <2>3, <2>4
<1> QED BY <1>2, <1>3, <1>4 DEF DeleteStep

-----------------------------------------------------------------------------
(* Claims. *)

LEMMA PhaseKeeps ==
  ASSUME RInv, NEW c \in Claims, NEW phase \in {"absent", "live", "deleting", "gone"},
         SetPhase(c, phase), calls' = calls \/ Return(c), UNCHANGED <<pools, ctxDone, nodes>>
  PROVE  RInv' /\ Steady
<1> DEFINE new == [claims[c] EXCEPT !.phase = phase]
<1>1. claims[c] \in Claim
  BY DEF RInv, PlantTyped
<1>2. new \in Claim /\ new.providerID = claims[c].providerID
  BY <1>1 DEF Claim
<1>3. claims' = [claims EXCEPT ![c] = new]
  BY DEF SetPhase
<1>4. \A p \in PoolIDs : new.providerID = p => pools[p].state # "absent" /\ pools[p].owner = c
  BY <1>2 DEF RInv, ClaimInv
<1> HIDE DEF new
<1> QED BY <1>2, <1>3, <1>4, OneClaim, SameSteady

LEMMA DemandKeeps ==
  ASSUME RInv, NEW c \in Claims, Demand(c)
  PROVE  RInv' /\ Steady
<1>1. CASE Provision(c) \/ RequestDelete(c)
  BY <1>1, PhaseKeeps DEF Demand, Provision, RequestDelete, providerVars, doksVars
<1>2. CASE DropAnnotation(c)
  <2> DEFINE new == [claims[c] EXCEPT !.poolID = None]
  <2>1. claims[c] \in Claim
    BY DEF RInv, PlantTyped
  <2>2. new \in Claim /\ new.providerID = claims[c].providerID
    BY <2>1 DEF Claim
  <2>3. claims' = [claims EXCEPT ![c] = new] /\ UNCHANGED <<pools, ctxDone, calls, nodes>>
    BY <1>2 DEF DropAnnotation, Demand, providerVars, doksVars
  <2>4. \A p \in PoolIDs : new.providerID = p => pools[p].state # "absent" /\ pools[p].owner = c
    BY <2>2 DEF RInv, ClaimInv
  <2> HIDE DEF new
  <2> QED BY <2>2, <2>3, <2>4, OneClaim, SameSteady
<1> QED BY <1>1, <1>2 DEF Demand

LEMMA RegisterKeeps ==
  ASSUME RInv, NEW c \in Claims, Register(c), UNCHANGED nodes
  PROVE  RInv' /\ Steady
<1> DEFINE new == InstanceToNodeClaim(calls[c].pool, claims[c])
<1>1. /\ calls[c].pool \in PoolIDs /\ claims[c] \in Claim
      /\ pools[calls[c].pool].state # "absent" /\ pools[calls[c].pool].owner = c
      /\ claims[c].providerID = None
  BY DEF Register, RInv, PlantTyped, CallInv
<1>2. new \in Claim /\ new.providerID = calls[c].pool
  BY <1>1 DEF InstanceToNodeClaim, Claim
<1>3. claims' = [claims EXCEPT ![c] = new] /\ Return(c) /\ UNCHANGED <<pools, ctxDone>>
  BY DEF Register, doksVars
<1>4. \A p \in PoolIDs : new.providerID = p => pools[p].state # "absent" /\ pools[p].owner = c
  BY <1>1, <1>2
<1> HIDE DEF new
<1> QED BY <1>1, <1>2, <1>3, <1>4, OneClaim, SameSteady

LEMMA FinalizeKeeps ==
  ASSUME RInv, NEW c \in Claims, FinalizeStep(c), UNCHANGED nodes
  PROVE  RInv' /\ Steady
<1>1. CASE FinalizeUnlaunched(c)
  BY <1>1, PhaseKeeps DEF FinalizeUnlaunched, providerVars, doksVars
<1>2. CASE CheckTerminated(c) /\ SetPhase(c, "gone")
  BY <1>2, PhaseKeeps DEF CheckTerminated, doksVars
<1>3. CASE CheckTerminated(c) /\ UNCHANGED claims
  <2>1. Return(c) /\ UNCHANGED <<pools, ctxDone>>
    BY <1>3 DEF CheckTerminated, doksVars
  <2> QED BY <1>3, <2>1, SameSteady, ReturnKeeps
<1> QED BY <1>1, <1>2, <1>3 DEF FinalizeStep, CheckTerminated

LEMMA BeginCreateKeeps ==
  ASSUME RInv, NEW c \in Claims, BeginCreate(c), UNCHANGED nodes
  PROVE  RInv' /\ Steady
<1> DEFINE new == [calls[c] EXCEPT !.pc = "requesting"]
<1>1. calls[c] \in Call /\ claims[c].providerID = None
  BY DEF BeginCreate, RInv, PlantTyped
<1>2. new \in Call /\ new.pc = "requesting"
  BY <1>1 DEF Call, CreatePCs
<1>3. calls' = [calls EXCEPT ![c] = new] /\ UNCHANGED <<pools, ctxDone, claims>>
  BY DEF BeginCreate, GoTo, doksVars
<1> HIDE DEF new
<1> QED BY <1>1, <1>2, <1>3, SameSteady, OneCall

-----------------------------------------------------------------------------
(* Pools and nodes. *)

LEMMA NodeStepKeeps ==
  ASSUME RInv, NEW p \in PoolIDs,
         \/ Join(p) \/ Enforce(p) \/ Leave(p)
         \/ ProvisionNode(p) /\ UNCHANGED <<calls, claims, gcVars, nodes>>
  PROVE  RInv' /\ Forward
<1>1. nodes[p] \in Node /\ pools[p] \in Pool /\ NodeInv(p) /\ NoNode \in Node
  BY DEF RInv, PlantTyped, NoNode, Node
<1>2. CASE Join(p)
  <2> DEFINE new == [nodes[p] EXCEPT !.joined = TRUE,
                                     !.tainted = PoolRequest(pools[p].owner).tainted]
  <2>1. new \in Node /\ ~new.registered /\ Exists(p)'
    BY <1>1, <1>2 DEF Join, Node, PoolRequest, NodeInv, cloudVars, providerVars, doksVars, Exists
  <2>2. nodes' = [nodes EXCEPT ![p] = new] /\ UNCHANGED <<pools, ctxDone, calls, claims>>
    BY <1>2 DEF Join, cloudVars, providerVars, doksVars
  <2> HIDE DEF new
  <2> QED BY <2>1, <2>2, SameSteady, OneNode DEF Steady
<1>3. CASE Enforce(p)
  <2> DEFINE new == [nodes[p] EXCEPT !.tainted = TRUE]
  <2>1. /\ new \in Node /\ new.joined /\ new.registered = nodes[p].registered
        /\ pools[p].tainted /\ Exists(p)
    BY <1>1, <1>3 DEF Enforce, Node, NodeInv
  <2>2. nodes' = [nodes EXCEPT ![p] = new] /\ UNCHANGED <<pools, ctxDone, calls, claims>>
    BY <1>3 DEF Enforce, cloudVars, providerVars, doksVars
  <2>3. pools'[p].tainted /\ Exists(p)'
    BY <2>1, <2>2 DEF Exists
  <2> HIDE DEF new
  <2> QED BY <1>1, <2>1, <2>2, <2>3, SameSteady, OneNode DEF NodeInv, Steady
<1>4. CASE Leave(p)
  <2>1. Forward /\ \A q \in PoolIDs : q # p => Lasts(q)
    BY <1>4 DEF Leave, RemovePool, RInv, PlantTyped, Pool, Forward, Clear, Lasts, Exists
  <2>2. ~NoNode.registered /\ ~NoNode.joined
    BY DEF NoNode
  <2> QED BY <1>1, <1>4, <2>1, <2>2, OneNode DEF Leave, RemovePool
<1>5. CASE ProvisionNode(p) /\ UNCHANGED <<calls, claims, gcVars, nodes>>
  <2>1. Steady
    BY <1>5 DEF ProvisionNode, RInv, PlantTyped, Pool, Steady, Forward, Clear, Lasts, Exists
  <2>2. nodes' = [nodes EXCEPT ![p] = nodes[p]]
    BY <1>5 DEF RInv, PlantTyped
  <2>3. Lasts(p) /\ Forward /\ \A q \in PoolIDs : q # p => Lasts(q)
    BY <2>1 DEF Steady
  <2> QED BY <1>1, <1>5, <2>2, <2>3, OneNode DEF ProvisionNode, NodeInv, Lasts
<1> QED BY <1>2, <1>3, <1>4, <1>5

LEMMA RegisterNodeKeeps ==
  ASSUME RInv, NEW c \in Claims, RegisterNode(c)
  PROVE  RInv' /\ Steady
<1>1. PICK p \in PoolIDs : p = claims[c].providerID
  BY DEF RegisterNode, RInv, PlantTyped, Claim
<1> DEFINE new == [nodes[p] EXCEPT !.tainted = FALSE, !.registered = TRUE]
<1>2. nodes[p] \in Node /\ nodes[p].joined /\ Exists(p)
  BY <1>1 DEF RegisterNode, RInv, PlantTyped, NodeInv
<1>3. new \in Node /\ new.joined /\ ~new.tainted
  BY <1>2 DEF Node
<1>4. nodes' = [nodes EXCEPT ![p] = new] /\ UNCHANGED <<pools, ctxDone, calls, claims>>
  BY <1>1 DEF RegisterNode, cloudVars, providerVars, doksVars
<1> HIDE DEF new
<1>5. Exists(p)'
  BY <1>2, <1>4 DEF Exists
<1>6. Steady /\ Forward /\ \A q \in PoolIDs : q # p => Lasts(q)
  BY <1>4, SameSteady DEF Steady
<1> QED BY <1>1, <1>3, <1>4, <1>5, <1>6, OneNode

LEMMA CollectorLeaves ==
  ASSUME CollectorStep
  PROVE  UNCHANGED <<ctxDone, calls, claims, nodes>>
BY DEF CollectorStep, Deliver, Touch, Reconcile, BeginPass, ListInstances, ListClaims, Sweep,
       FinishPass, cloudVars, providerVars, doksVars

(* The collector deletes pools, and does nothing else to what the others   *)
(* have.  A pool that it deletes is there until its node is drained.       *)
LEMMA CollectorKeeps ==
  ASSUME RInv, CollectorStep
  PROVE  RInv' /\ Steady
<1>1. UNCHANGED <<ctxDone, calls, claims, nodes>>
  BY CollectorLeaves
<1>2. Steady
  <2>1. CASE pools' = pools
    BY <2>1, SameSteady
  <2>2. ASSUME NEW p \in PoolIDs, Sweep(p) PROVE Steady
    BY <2>2, DeleteSteady DEF Sweep
  <2> QED BY <2>1, <2>2
          DEF CollectorStep, Deliver, Touch, Reconcile, BeginPass, ListInstances, ListClaims,
              FinishPass, cloudVars, providerVars, doksVars
<1>3. PlantTyped' /\ ~ctxDone'
  BY <1>1, <1>2 DEF RInv, PlantTyped, Steady, Forward
<1> QED BY <1>1, <1>2, <1>3, SameIDs, OthersKept DEF RInv, Steady

-----------------------------------------------------------------------------

LEMMA RInvInit == Init => RInv
<1> SUFFICES ASSUME Init PROVE RInv
  OBVIOUS
<1>1. pools \in [PoolIDs -> Pool] /\ ctxDone = FALSE
  BY DEF Init, DOKSInit, Pool, AbsentPool, ForeignPool
<1>2. calls \in [Claims -> Call] /\ \A c \in Claims : calls[c].pc = "idle"
  BY MaxAttemptsAssumption DEF Init, ProviderInit, Idle, Call
<1>3. /\ claims \in [Claims -> Claim]
      /\ \A c \in Claims : claims[c].providerID = None
  BY DEF Init, CloudInit, AbsentClaim, Claim
<1>4. nodes \in [PoolIDs -> Node] /\ \A p \in PoolIDs : ~nodes[p].registered /\ ~nodes[p].joined
  BY DEF Init, NoNode, Node
<1> QED BY <1>1, <1>2, <1>3, <1>4, ConstantsAssumption
        DEF RInv, PlantTyped, CallInv, ClaimInv, NodeInv, CreatePCs

LEMMA RInvStep == RInv /\ [Next]_vars => RInv' /\ Forward
<1> SUFFICES ASSUME RInv, [Next]_vars PROVE RInv' /\ Forward
  OBVIOUS
<1>1. ASSUME NEW c \in Claims, ProviderStep(c) PROVE RInv' /\ Steady
  BY <1>1, CreateStepKeeps, BeginCreateKeeps, RegisterKeeps, DeleteStepKeeps, FinalizeKeeps
     DEF ProviderStep
<1>2. CASE UNCHANGED vars
  <2>1. UNCHANGED <<pools, ctxDone, calls, claims, nodes>>
    BY <1>2 DEF vars, cloudVars, providerVars, doksVars
  <2>2. Steady
    BY <2>1, SameSteady
  <2>3. PlantTyped' /\ ~ctxDone'
    BY <2>1 DEF RInv, PlantTyped
  <2> QED BY <2>1, <2>2, <2>3, SameIDs, OthersKept DEF RInv, Steady
<1>3. ASSUME NEW c \in Claims, RegisterNode(c) \/ Demand(c) PROVE RInv' /\ Steady
  BY <1>3, RegisterNodeKeeps, DemandKeeps
<1>4. ASSUME NEW p \in PoolIDs,
             \/ Join(p) \/ Enforce(p) \/ Leave(p)
             \/ ProvisionNode(p) /\ UNCHANGED <<calls, claims, gcVars, nodes>>
      PROVE  RInv' /\ Forward
  BY <1>4, NodeStepKeeps
<1>5. CASE CollectorStep
  BY <1>5, CollectorKeeps DEF Steady
<1> QED BY <1>1, <1>2, <1>3, <1>4, <1>5 DEF Next, Steady

THEOREM Invariance == Spec => []RInv
<1> QED BY RInvInit, RInvStep, PTL DEF Spec

(* The types of the collector's variables.  A pass that an error can put   *)
(* back in the queue has its request.                                      *)
CollectorTyped ==
  /\ seen \in [Claims -> Claim] /\ queue \subseteq Claims /\ gc \in Pass
  /\ gc.pc = "listInstances" => gc.req \in Claims

LEMMA CollectorTypes ==
  ASSUME RInv, CollectorTyped, [Next]_vars
  PROVE  CollectorTyped'
<1>1. NoPass \in Pass /\ NoPass.pc = "idle"
  BY DEF NoPass, Pass
<1>2. ASSUME NEW c \in Claims, Deliver(c) \/ Touch(c) PROVE CollectorTyped'
  BY <1>2 DEF Deliver, Touch, RInv, PlantTyped, CollectorTyped
<1>3. CASE BeginPass
  <2>1. PICK c \in Claims : gc' = [NoPass EXCEPT !.pc = "listInstances", !.req = c]
    BY <1>3 DEF BeginPass, CollectorTyped
  <2>2. gc' \in Pass /\ gc'.req = c
    BY <1>1, <2>1 DEF Pass
  <2> QED BY <1>3, <2>2 DEF BeginPass, CollectorTyped
<1>4. CASE ListInstances
  <2>1. UNCHANGED seen
    BY <1>4 DEF ListInstances
  <2>2. CASE Requeue /\ gc.req \in Claims
    BY <1>1, <2>1, <2>2 DEF Requeue, CollectorTyped
  <2>3. CASE \E page \in SUBSET PoolIDs :
               /\ gc' = [NoPass EXCEPT !.pc = "listClaims", !.instances = InstancesIn(page)]
               /\ UNCHANGED queue
    <3>1. PICK page \in SUBSET PoolIDs :
            /\ gc' = [NoPass EXCEPT !.pc = "listClaims", !.instances = InstancesIn(page)]
            /\ UNCHANGED queue
      BY <2>3
    <3>2. InstancesIn(page) \subseteq PoolIDs
      BY DEF InstancesIn, ManagedPools
    <3>3. gc' \in Pass /\ gc'.pc = "listClaims"
      BY <1>1, <3>1, <3>2 DEF Pass
    <3> QED BY <2>1, <3>1, <3>3 DEF CollectorTyped
  <2>4. gc.req \in Claims
    BY <1>4 DEF ListInstances, CollectorTyped
  <2> QED BY <1>4, <2>2, <2>3, <2>4 DEF ListInstances
<1>5. CASE ListClaims
  <2>1. OrphansOf(gc.instances) \subseteq PoolIDs
    BY DEF OrphansOf, CollectorTyped, Pass
  <2>2. gc' \in Pass /\ gc'.pc = "sweep"
    BY <1>5, <2>1 DEF ListClaims, CollectorTyped, Pass
  <2> QED BY <1>5, <2>2 DEF ListClaims, CollectorTyped
<1>6. ASSUME NEW p \in PoolIDs, Sweep(p) PROVE CollectorTyped'
  <2>1. gc' = [gc EXCEPT !.orphans = gc.orphans \ {p}]
    BY <1>6 DEF Sweep
  <2>2. gc' \in Pass /\ gc'.pc = gc.pc /\ gc'.req = gc.req
    BY <2>1 DEF CollectorTyped, Pass
  <2> QED BY <1>6, <2>2 DEF Sweep, CollectorTyped
<1>7. CASE FinishPass
  BY <1>1, <1>7 DEF FinishPass, CollectorTyped
<1>8. CASE UNCHANGED gcVars
  BY <1>8 DEF gcVars, CollectorTyped
<1> QED BY <1>2, <1>3, <1>4, <1>5, <1>6, <1>7, <1>8
        DEF Next, CollectorStep, Reconcile, Join, Enforce, Leave, ProviderStep, RegisterNode,
            Demand, vars

(* Every variable keeps its type: Create, Delete and Get of the provider,  *)
(* the collector's pass, the claims and the nodes.                         *)
THEOREM TypeCorrectness == Spec => []TypeOK
<1>1. Init => CollectorTyped
  BY DEF Init, GCInit, AbsentClaim, Claim, NoPass, Pass, CollectorTyped
<1>2. RInv /\ CollectorTyped /\ [Next]_vars => CollectorTyped'
  BY CollectorTypes
<1>3. RInv /\ CollectorTyped => TypeOK
  BY DEF RInv, PlantTyped, CollectorTyped, TypeOK
<1> QED BY Invariance, <1>1, <1>2, <1>3, PTL DEF Spec

-----------------------------------------------------------------------------
(* Where the taint of a registered node comes from. *)

(* Every taint that a registered node has is in the spec of its pool. *)
TaintComesFromSpec ==
  \A p \in PoolIDs : nodes[p].registered /\ nodes[p].tainted => pools[p].tainted

(* Whatever fails, a registered node has the taint only if its pool's spec  *)
(* has it too, which ClearTaints (pkg/providers/instance) failed to clear:  *)
(* no order of joining, clearing and registering brings it back otherwise.  *)
THEOREM OnlyTheSpecTaints == Spec => []TaintComesFromSpec
<1>1. RInv => TaintComesFromSpec
  BY DEF RInv, NodeInv, TaintComesFromSpec
<1> QED BY Invariance, <1>1, PTL

-----------------------------------------------------------------------------
(* Calls that take effect. *)

(* What Create has returned, and what a claim has, is clear of the taint. *)
ClearInv ==
  \A c \in Claims, p \in PoolIDs :
    \/ calls[c].pc = "created" /\ calls[c].pool = p
    \/ claims[c].providerID = p
    => Clear(p)

(* A call that takes effect leaves no taint in the spec. *)
LEMMA ClearTaintsClears ==
  ASSUME CallsTakeEffect, RInv, NEW c \in Claims, ClearTaints(c),
         NEW p \in PoolIDs, p = calls[c].pool
  PROVE  Clear(p)'
<1>1. PICK result \in Results : ClearPoolTaints(p, result)
  BY DEF ClearTaints
<1>2. pools[p].state # "absent" /\ ~Refused(result)
  BY DEF ClearTaints, CallsTakeEffect, Refused, Fails, RInv, CallInv
<1>3. CASE Exists(p) /\ pools' = [pools EXCEPT ![p].tainted = FALSE]
  BY <1>3 DEF RInv, PlantTyped, Pool, Clear, Exists
<1>4. CASE Missing(p, result) /\ UNCHANGED pools
  BY <1>2, <1>4 DEF RInv, PlantTyped, Pool, Clear, Missing, Exists
<1> QED BY <1>1, <1>2, <1>3, <1>4 DEF ClearPoolTaints

(* Where a created call comes from. *)
LEMMA CreatedFrom ==
  ASSUME RInv, [Next]_vars, NEW c \in Claims, calls'[c].pc = "created"
  PROVE  /\ calls'[c].pool = calls[c].pool
         /\ calls[c].pc = "created" \/ ClearTaints(c)
<1>1. calls \in [Claims -> Call]
  BY DEF RInv, PlantTyped
<1>2. CASE UNCHANGED calls
  BY <1>2
<1>3. ASSUME NEW d \in Claims, ProviderStep(d)
      PROVE  \/ calls'[c] = calls[c]
             \/ ClearTaints(c) /\ calls'[c].pool = calls[c].pool
  <2>1. CASE d # c
    BY <1>1, <1>3, <2>1
       DEF ProviderStep, CreateStep, SubmitPool, PollNode, GiveUp, CleanUp, ClearTaints,
           BeginCreate, Register, BeginDelete, DeleteStep, Lookup, DeletePool, FinalizeStep,
           CheckTerminated, FinalizeUnlaunched, GoTo, Return, Sleep, providerVars
  <2>2. CASE d = c
    <3>1. CASE ClearTaints(c)
      BY <1>1, <2>2, <3>1 DEF ClearTaints, GoTo, Call
    <3>2. CASE UNCHANGED calls
      BY <3>2
    <3>3. CASE Return(c)
      BY <1>1, <3>3 DEF Return, Idle
    <3>4. CASE \E pc \in {"requesting", "cleanup", "clearing", "deleted"} : GoTo(c, pc)
      BY <1>1, <3>4 DEF GoTo, Call
    <3>5. CASE calls[c].pc # "created" /\ Sleep(c)
      BY <1>1, <3>5 DEF Sleep, Call
    <3>6. CASE SubmitPool(c)
      BY <1>1, <3>3, <3>6 DEF SubmitPool
    <3>7. CASE BeginDelete(c)
      BY <1>1, <3>7 DEF BeginDelete
    <3>8. CASE Lookup(c)
      BY <1>1, <3>3, <3>4, <3>8 DEF Lookup, Call
    <3> QED BY <1>3, <2>2, <3>1, <3>2, <3>3, <3>4, <3>5, <3>6, <3>7, <3>8
            DEF ProviderStep, CreateStep, PollNode, GiveUp, CleanUp, BeginCreate, Register,
                DeleteStep, DeletePool, FinalizeStep, CheckTerminated, FinalizeUnlaunched,
                providerVars
  <2> QED BY <2>1, <2>2
<1>4. CASE CollectorStep
  BY <1>4, CollectorLeaves
<1> QED BY <1>2, <1>3, <1>4
        DEF Next, Join, Enforce, Leave, RegisterNode, Demand, Provision, RequestDelete,
            DropAnnotation, vars, cloudVars, providerVars

(* Where a provider ID comes from. *)
LEMMA ProviderIDFrom ==
  ASSUME RInv, [Next]_vars, NEW c \in Claims
  PROVE  \/ claims'[c].providerID = claims[c].providerID
         \/ calls[c].pc = "created" /\ claims'[c].providerID = calls[c].pool
<1>1. \A d \in Claims : claims[d] \in Claim /\ claims \in [Claims -> Claim]
  BY DEF RInv, PlantTyped
<1>2. CASE UNCHANGED claims
  BY <1>2
<1>3. ASSUME NEW d \in Claims, NEW phase \in {"live", "deleting", "gone"}, SetPhase(d, phase)
      PROVE  claims'[c].providerID = claims[c].providerID
  BY <1>1, <1>3 DEF SetPhase, Claim
<1>4. ASSUME NEW d \in Claims, DropAnnotation(d)
      PROVE  claims'[c].providerID = claims[c].providerID
  BY <1>1, <1>4 DEF DropAnnotation, Claim
<1>5. ASSUME NEW d \in Claims, Register(d)
      PROVE  \/ claims'[c].providerID = claims[c].providerID
             \/ calls[c].pc = "created" /\ claims'[c].providerID = calls[c].pool
  BY <1>1, <1>5 DEF Register, InstanceToNodeClaim, Claim
<1>6. CASE CollectorStep
  BY <1>6, CollectorLeaves
<1> QED BY <1>2, <1>3, <1>4, <1>5, <1>6
        DEF Next, ProviderStep, Join, Enforce, Leave, RegisterNode, Demand, Provision,
            RequestDelete, BeginCreate, BeginDelete, DeleteStep, Lookup, DeletePool, FinalizeStep,
            CheckTerminated, FinalizeUnlaunched, vars, cloudVars

LEMMA ClearStep ==
  ASSUME CallsTakeEffect, RInv, ClearInv, [Next]_vars
  PROVE  ClearInv'
<1>1. Forward /\ RInv'
  BY RInvStep
<1>2. ASSUME NEW c \in Claims, calls'[c].pc = "created",
             NEW p \in PoolIDs, p = calls'[c].pool
      PROVE  Clear(p)'
  <2>1. p = calls[c].pool /\ (calls[c].pc = "created" \/ ClearTaints(c))
    BY <1>2, CreatedFrom
  <2>2. CASE calls[c].pc = "created"
    BY <1>1, <2>1, <2>2 DEF ClearInv, Forward
  <2> QED BY <2>1, <2>2, ClearTaintsClears
<1>3. ASSUME NEW c \in Claims, NEW p \in PoolIDs, p = claims'[c].providerID
      PROVE  Clear(p)'
  BY <1>1, <1>3, ProviderIDFrom, ConstantsAssumption DEF ClearInv, Forward
<1> QED BY <1>2, <1>3 DEF ClearInv

(* ClearTaints, at the end of Create (pkg/providers/instance), comes early *)
(* enough: no node that Karpenter has registered has the taint, unless the *)
(* call that clears it fails without effect.                               *)
THEOREM RegisteredNodesStayUntainted ==
  ASSUME CallsTakeEffect
  PROVE  Spec => []RegisteredNodeIsUntainted
<1>1. Init => ClearInv
  BY ConstantsAssumption DEF Init, ProviderInit, Idle, CloudInit, AbsentClaim, ClearInv
<1>2. RInv /\ ClearInv /\ [Next]_vars => ClearInv'
  BY ClearStep
<1>3. RInv /\ ClearInv => RegisteredNodeIsUntainted
  BY DEF RInv, NodeInv, ClearInv, Clear, Exists, RegisteredNodeIsUntainted
<1> QED BY Invariance, <1>1, <1>2, <1>3, PTL DEF Spec

=============================================================================
