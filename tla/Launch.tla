------------------------------- MODULE Launch -------------------------------
(***************************************************************************)
(* What a NodeClaim is launched as: Karpenter's scheduler picks the sizes  *)
(* that fit the pods from one list of the instance type provider, Create   *)
(* lists them again, filters them by the claim's requirement and makes a   *)
(* pool of the first one (pkg/cloudprovider Create,                        *)
(* filterInstanceTypesByRequirements; pkg/providers/instance Create).  The *)
(* catalogue moves all the time; one claim is followed.                    *)
(***************************************************************************)
EXTENDS InstanceTypeProvider

CONSTANTS
  ClusterRegion,  \* where pools are made; node classes of it are Ready
  ClassRegions,   \* of the node classes whose types Karpenter asks for
  Cpu, Memory,    \* of each size
  NoSize          \* nothing was bought yet

ASSUME LaunchAssumption ==
  /\ ClusterRegion \in ClassRegions /\ ClassRegions \subseteq Regions
  /\ Cpu \in [Sizes -> Nat] /\ Memory \in [Sizes -> Nat]
  /\ NoSize \notin Sizes

VARIABLE claim  \* the NodeClaim, or the pods that are to have one

vars == <<typesVars, claim>>

-----------------------------------------------------------------------------

(* refused: a Create returned an error and is tried again.  required: the  *)
(* requirements name sizes; allowed: which, until it is launched.          *)
Claim == [phase    : {"pending", "scheduled", "refused", "launched"},
          demand   : {Cpu[s] : s \in Sizes},
          required : BOOLEAN,
          allowed  : SUBSET Sizes,
          size     : Sizes \cup {NoSize}]

Pending(demand) == [phase |-> "pending", demand |-> demand, required |-> FALSE,
                    allowed |-> {}, size |-> NoSize]

Init ==
  /\ TypesInit
  /\ claim \in {Pending(Cpu[s]) : s \in Sizes}

Answered(w) == lists[w].pc = "answered" /\ lists[w].region = ClusterRegion

Used(w) == lists' = [lists EXCEPT ![w] = Idle]

Fitting(types) == {t.name : t \in {u \in types : Cpu[u.name] >= claim.demand}}

(* Karpenter's scheduler, from the list that GetInstanceTypes returned. *)
Schedule(w) ==
  /\ claim.phase = "pending" /\ Answered(w)
  /\ Fitting(lists[w].result) # {}
  /\ claim' = [claim EXCEPT !.phase = "scheduled", !.required = TRUE,
                            !.allowed = Fitting(lists[w].result)]
  /\ Used(w)
  /\ UNCHANGED <<pricingVars, cache>>

(* A user makes a NodeClaim by hand, without such a requirement. *)
PutClaim ==
  /\ claim.phase = "pending"
  /\ claim' = [claim EXCEPT !.phase = "scheduled"]
  /\ UNCHANGED typesVars

(* A claim that is not launched in time is deleted, its pods remain. *)
Expire ==
  /\ claim.phase = "refused"
  /\ claim' = Pending(claim.demand)
  /\ UNCHANGED typesVars

-----------------------------------------------------------------------------
(* Create *)

(* Mutant: the requirement is not looked at. *)
EveryType(types) == types

Filtered(types) ==
  IF claim.required THEN {t \in types : t.name \in claim.allowed} ELSE types

(* Mutant: the order of the sort is reversed. *)
LargerFirst(t, u) ==
  \/ Cpu[t.name] > Cpu[u.name]
  \/ Cpu[t.name] = Cpu[u.name] /\ Memory[t.name] > Memory[u.name]

SortsBefore(t, u) ==
  \/ Cpu[t.name] < Cpu[u.name]
  \/ Cpu[t.name] = Cpu[u.name] /\ Memory[t.name] < Memory[u.name]

(* What may come first.  The sort is not stable, and without a requirement *)
(* there is none: the first is the API's first, which may be any.          *)
First(types) ==
  LET filtered == Filtered(types)
  IN  IF claim.required
      THEN {t \in filtered : \A u \in filtered : ~SortsBefore(u, t)}
      ELSE filtered

(* DOKS makes a pool of the size, now. *)
CanBeHad(s) == Now[s].accepted /\ Now[s].available /\ ClusterRegion \in Now[s].regions

Buy(w) ==
  /\ claim.phase \in {"scheduled", "refused"} /\ Answered(w)
  /\ \E t \in First(lists[w].result) :
       /\ CanBeHad(t.name)
       /\ claim' = [claim EXCEPT !.phase = "launched", !.allowed = {}, !.size = t.name]
  /\ Used(w)
  /\ UNCHANGED <<pricingVars, cache>>

(* No type is left, the size cannot be had, or the call fails otherwise.   *)
FailCreate(w) ==
  /\ claim.phase \in {"scheduled", "refused"} /\ Answered(w)
  /\ claim' = [claim EXCEPT !.phase = "refused"]
  /\ Used(w)
  /\ UNCHANGED <<pricingVars, cache>>

ClaimStep == PutClaim \/ Expire \/ \E w \in Callers : Schedule(w) \/ Buy(w) \/ FailCreate(w)

Listing(w) == (\E region \in ClassRegions : Begin(w, region)) \/ ListStep(w)

Next ==
  \/ ClaimStep
  \/ (Change \/ \E w \in Callers : Listing(w)) /\ UNCHANGED claim

Spec == Init /\ [][Next]_vars

(* Karpenter asks again and again, also for the cluster's region; calls    *)
(* run, and an API call made again and again succeeds some time; what an   *)
(* answer is wanted for is done with some of the answers, and a claim that *)
(* keeps being refused runs out of time.                                   *)
Fairness ==
  /\ SF_vars(\E w \in Callers : Begin(w, ClusterRegion) /\ UNCHANGED claim)
  /\ \A w \in Callers : WF_vars(ListStep(w) /\ UNCHANGED claim)
  /\ SF_vars(\E w \in Callers : GetOptions(w) /\ UNCHANGED claim)
  /\ SF_vars(\E w \in Callers : ListSizes(w) /\ UNCHANGED claim)
  /\ SF_vars(\E w \in Callers : Schedule(w))
  /\ SF_vars(\E w \in Callers : Buy(w))
  /\ SF_vars(\E w \in Callers : FailCreate(w))
  /\ WF_vars(Expire)

FairSpec == Spec /\ Fairness

-----------------------------------------------------------------------------

(* Every variable has its type. *)
TypeOK == TypesOK /\ claim \in Claim

(* The pods of a scheduled claim fit the size it was launched as, although *)
(* Create lists the sizes anew and others may have come or gone.           *)
PodsFit ==
  claim.phase = "launched" /\ claim.required => Cpu[claim.size] >= claim.demand

SomethingOffered == \E s \in Sizes : Now[s].accepted /\ Now[s].available

(* A catalogue that had nothing to offer when it was read is read again:   *)
(* once there is something the cache comes to have it, also when calls     *)
(* fail, and when a call that read nothing stores it last.                 *)
EmptyCatalogueIsNotKept == <>[]SomethingOffered => <>[](cache.types # {})

(* The cached types that fit the pods, and the smallest of those. *)
CachedFit == {t \in ByRegion(cache.types, ClusterRegion) : Cpu[t.name] >= claim.demand}

SmallestFit ==
  {t \in CachedFit : \A u \in CachedFit :
     \/ Cpu[t.name] < Cpu[u.name]
     \/ Cpu[t.name] = Cpu[u.name] /\ Memory[t.name] <= Memory[u.name]}

(* The smallest size that fits is all a claim needs: if that can be had it *)
(* is launched, though larger ones are sold out, calls fail, and it was    *)
(* scheduled by a list that other callers have replaced since.             *)
SmallestFitIsLaunched ==
  <>[](SmallestFit # {} /\ \A t \in SmallestFit : CanBeHad(t.name))
    => <>(claim.phase = "launched")

=============================================================================
