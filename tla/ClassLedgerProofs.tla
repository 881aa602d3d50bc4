-------------------------- MODULE ClassLedgerProofs --------------------------
(***************************************************************************)
(* The proof that Drift implements NodeClassLedger, for all values of the  *)
(* constants: what each action is to the ledger, one by one.               *)
(***************************************************************************)
EXTENDS DriftProofs, DriftLedger

-----------------------------------------------------------------------------
(* The ledger's entry for a class. *)
Region(n) == IF classes[n].exists THEN {classes[n].region} ELSE {}
Valid(n)  == classes[n].validRegion.status
Ready(n)  == classes[n].ready.status = "True"

(* A step that sets one class's entry and leaves the others'. *)
LEMMA OneEntry ==
  ASSUME NEW n \in ClassNames, \A m \in ClassNames \ {n} : classes'[m] = classes[m]
  PROVE  /\ [m \in ClassNames |-> Region(m)']
              = [[m \in ClassNames |-> Region(m)] EXCEPT ![n] = Region(n)']
         /\ [m \in ClassNames |-> Valid(m)']
              = [[m \in ClassNames |-> Valid(m)] EXCEPT ![n] = Valid(n)']
         /\ [m \in ClassNames |-> Ready(m)']
              = [[m \in ClassNames |-> Ready(m)] EXCEPT ![n] = Ready(n)']
<1>1. \A m \in ClassNames \ {n} :
        Region(m)' = Region(m) /\ Valid(m)' = Valid(m) /\ Ready(m)' = Ready(m)
  BY DEF Region, Valid, Ready
<1> HIDE DEF Region, Valid, Ready
<1> QED BY <1>1

-----------------------------------------------------------------------------
(* What users do. *)

LEMMA PutStep ==
  ASSUME DInv, NEW n \in ClassNames, Put(n)
  PROVE  ClassLedger!Put(n)
<1>1. PICK r \in Regions, t \in Tags :
        classes' = [classes EXCEPT ![n] = [@ EXCEPT !.exists = TRUE, !.edit = events',
                                                    !.region = r, !.tags = t]]
  BY DEF Put
<1>2. classes \in [ClassNames -> NodeClass]
  BY DEF DInv, TypeOK, ClassesOK
<1>3. /\ \A m \in ClassNames \ {n} : classes'[m] = classes[m]
      /\ classes'[n].exists /\ classes'[n].region = r
      /\ classes'[n].validRegion = classes[n].validRegion
      /\ classes'[n].ready = classes[n].ready
  BY <1>1, <1>2 DEF NodeClass
<1>4. Region(n)' = {r} /\ \A m \in ClassNames : Valid(m)' = Valid(m) /\ Ready(m)' = Ready(m)
  BY <1>3 DEF Region, Valid, Ready
<1>5. [m \in ClassNames |-> Region(m)'] = [[m \in ClassNames |-> Region(m)] EXCEPT ![n] = {r}]
  BY <1>3, <1>4, OneEntry
<1>6. /\ [m \in ClassNames |-> Valid(m)'] = [m \in ClassNames |-> Valid(m)]
      /\ [m \in ClassNames |-> Ready(m)'] = [m \in ClassNames |-> Ready(m)]
  <2> HIDE DEF Valid, Ready
  <2> QED BY <1>4
<1>7. known' = known
  BY DEF Put, regionVars
<1> QED BY <1>5, <1>6, <1>7 DEF Region, Valid, Ready, ClassLedger!Put

LEMMA DeleteStep ==
  ASSUME DInv, NEW n \in ClassNames, Delete(n)
  PROVE  ClassLedger!Delete(n)
<1>1. /\ \A m \in ClassNames \ {n} : classes'[m] = classes[m]
      /\ classes'[n] = Absent
  BY DEF Delete, DInv, TypeOK, ClassesOK
<1>2. Region(n)' = {} /\ Valid(n)' = "none" /\ Ready(n)' = FALSE
  BY <1>1 DEF Region, Valid, Ready, Absent, NoCondition
<1>3. /\ [m \in ClassNames |-> Region(m)'] = [[m \in ClassNames |-> Region(m)] EXCEPT ![n] = {}]
      /\ [m \in ClassNames |-> Valid(m)'] = [[m \in ClassNames |-> Valid(m)] EXCEPT ![n] = "none"]
      /\ [m \in ClassNames |-> Ready(m)'] = [[m \in ClassNames |-> Ready(m)] EXCEPT ![n] = FALSE]
  BY <1>1, <1>2, OneEntry
<1>4. known' = known
  BY DEF Delete, regionVars
<1> QED BY <1>3, <1>4 DEF Region, Valid, Ready, ClassLedger!Delete

-----------------------------------------------------------------------------
(* What the process does. *)

(* The map of regions is filled, or lost with the process. *)
LEMMA LearnStep ==
  ASSUME Validate \/ Restart
  PROVE  ClassLedger!Learn
<1>1. classes' = classes
  BY DEF Validate, Restart
<1> QED BY <1>1 DEF ClassLedger!Learn

(* The object that is written is the one that was read and judged, by what *)
(* is known still.                                                         *)
LEMMA UpdateStep ==
  ASSUME DInv, UpdateStatus, NEW n \in ClassNames, n = rec.class
  PROVE  ClassLedger!Judge(n)
<1>1. classes[n] = rec.read /\ rec.read.exists /\ JudgedFrom(rec.new, rec.read)
  BY DEF UpdateStatus, Conflict, DInv, RecInv
<1>2. /\ \A m \in ClassNames \ {n} : classes'[m] = classes[m]
      /\ classes'[n].exists /\ classes'[n].region = classes[n].region
      /\ classes'[n].validRegion = rec.new.validRegion
      /\ classes'[n].ready = rec.new.ready
  BY <1>1 DEF UpdateStatus, DInv, TypeOK, ClassesOK, NodeClass
<1>3. known' = known
  BY DEF UpdateStatus, regionVars
<1>4. Good(rec.read) <=> ClassLedger!Suits(n)
  BY <1>1, NodeClassAssumption DEF Good, ClassLedger!Suits
<1>5. /\ Region(n)' = Region(n) /\ Region(n) # {}
      /\ Valid(n)' = IF ClassLedger!Suits(n) THEN "True" ELSE "False"
      /\ ClassLedger!Suits(n) => Ready(n)'
      /\ Ready(n)' => Ready(n) \/ ClassLedger!Suits(n)
      /\ Ready(n)' \in BOOLEAN
  <2> HIDE DEF ClassLedger!Suits
  <2> QED BY <1>1, <1>2, <1>4 DEF JudgedFrom, Region, Valid, Ready
<1>6. /\ [m \in ClassNames |-> Region(m)'] = [m \in ClassNames |-> Region(m)]
      /\ [m \in ClassNames |-> Valid(m)']
           = [[m \in ClassNames |-> Valid(m)]
                EXCEPT ![n] = IF ClassLedger!Suits(n) THEN "True" ELSE "False"]
      /\ [m \in ClassNames |-> Ready(m)']
           = [[m \in ClassNames |-> Ready(m)] EXCEPT ![n] = Ready(n)']
  <2> HIDE DEF ClassLedger!Suits, Region, Valid, Ready
  <2> QED BY <1>2, <1>5, OneEntry
<1> QED BY <1>3, <1>5, <1>6 DEF Region, Valid, Ready, ClassLedger!Judge

-----------------------------------------------------------------------------

LEMMA ClassLedgerStep ==
  ASSUME DInv, [Next]_vars
  PROVE  [ClassLedger!Next]_(ClassLedger!ledger)
<1>1. ASSUME NEW n \in ClassNames, Put(n) \/ Delete(n) PROVE ClassLedger!Next
  BY <1>1, PutStep, DeleteStep DEF ClassLedger!Next
<1>2. CASE Validate \/ Restart
  BY <1>2, LearnStep DEF ClassLedger!Next
<1>3. CASE UpdateStatus
  <2>1. rec.class \in ClassNames
    BY <1>3 DEF UpdateStatus, DInv, RecInv
  <2> QED BY <1>3, <2>1, UpdateStep DEF ClassLedger!Next
<1>4. CASE UNCHANGED <<known, classes>>
  BY <1>4 DEF ClassLedger!ledger
<1> QED BY <1>1, <1>2, <1>3, <1>4
        DEF Next, World, Reconciling, RestartAll, Deliver, Offer, ChangeOffer, Fetch, FailUpdate,
            LaunchFrom, Terminate, Relabel, CheckDrift, WriteDrifted, classVars, regionVars, vars

(* The controller of pkg/controllers/nodeclass keeps the ledger: through   *)
(* stale copies, refused updates, failed lists and restarts each write of  *)
(* a status is one judgement of the class as it is.                        *)
THEOREM ControllerKeepsClassLedger == Spec => KeepsClassLedger
<1>1. Init => ClassLedger!Init
  <2> SUFFICES ASSUME Init PROVE ClassLedger!Init
    OBVIOUS
  <2>1. \A n \in ClassNames : Region(n) = {} /\ Valid(n) = "none" /\ Ready(n) = FALSE
    BY DEF Init, ClassInit, Absent, NoCondition, Region, Valid, Ready
  <2>2. {r \in Regions : known[r] = "up"} = {}
    BY DEF Init, ClassInit, RegionInit, NothingKnown
  <2> QED BY <2>1, <2>2 DEF Region, Valid, Ready, ClassLedger!Init
<1>2. DInv /\ [Next]_vars => [ClassLedger!Next]_(ClassLedger!ledger)
  BY ClassLedgerStep
<1> QED BY <1>1, <1>2, DInvInit, DInvStep, PTL DEF Spec, KeepsClassLedger, ClassLedger!Spec

=============================================================================
