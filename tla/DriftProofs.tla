----------------------------- MODULE DriftProofs -----------------------------
(***************************************************************************)
(* Proofs, for all values of the constants, of the safety of the node      *)
(* class controller in its composition with drift.                         *)
(***************************************************************************)
EXTENDS Drift, TLAPS

-----------------------------------------------------------------------------
(* The region provider's answer does not change between the verdict and    *)
(* the write, and the verdict is about the copy that was read.             *)

Good(class) == class.region = ClusterRegion /\ known[ClusterRegion] = "up"

(* new is what judging read gives by what is known at the moment. *)
JudgedFrom(new, read) ==
  /\ new.validRegion.status = IF Good(read) THEN "True" ELSE "False"
  /\ new.ready.status = "True" <=> read.ready.status = "True" \/ Good(read)
  /\ new.ready # read.ready => Good(read)

RecInv ==
  /\ rec.pc # "idle" => rec.class \in ClassNames /\ rec.read.exists
  /\ rec.pc = "update" => JudgedFrom(rec.new, rec.read)

DInv == TypeOK /\ RecInv

-----------------------------------------------------------------------------

LEMMA AbsentIsClass == Absent \in NodeClass
BY NodeClassAssumption DEF Absent, NodeClass, NoCondition, Condition, Times

LEMMA NoReconcileIsReconcile == NoReconcile \in Reconcile
BY AbsentIsClass DEF NoReconcile, Reconcile

(* A condition that is set is a condition, with the status it is given. *)
LEMMA SetConditionType ==
  ASSUME NEW old \in Condition, NEW now \in Times,
         NEW status \in {"True", "False"},
         NEW reason \in {"InvalidRegion", "RegionMismatch", "Valid", "Ready"},
         NEW message \in SUBSET Regions
  PROVE  /\ SetCondition(old, status, reason, message, now) \in Condition
         /\ SetCondition(old, status, reason, message, now).status = status
BY DEF SetCondition, Condition

LEMMA MessageType ==
  ASSUME NEW class \in NodeClass, NEW verdict
  PROVE  Message(class.region, verdict) \in SUBSET Regions
BY NodeClassAssumption DEF NodeClass, Message

(* What is judged keeps all but its conditions, and these follow from the  *)
(* verdict.                                                                *)
LEMMA JudgedType ==
  ASSUME NEW class \in NodeClass, NEW now \in Times,
         NEW verdict \in {"InvalidRegion", "RegionMismatch", "Valid"}
  PROVE  /\ Judged(class, verdict, now) \in NodeClass
         /\ Judged(class, verdict, now).validRegion.status
              = IF verdict = "Valid" THEN "True" ELSE "False"
         /\ Judged(class, verdict, now).ready.status = "True"
              <=> class.ready.status = "True" \/ verdict = "Valid"
         /\ Judged(class, verdict, now).ready # class.ready => verdict = "Valid"
<1> DEFINE message == Message(class.region, verdict)
<1>1. /\ class.validRegion \in Condition /\ class.ready \in Condition
      /\ message \in SUBSET Regions
  BY MessageType DEF NodeClass
<1>2. CASE verdict = "Valid"
  <2> DEFINE valid == SetCondition(class.validRegion, "True", verdict, message, now)
             ready == SetCondition(class.ready, "True", "Ready", {}, now)
  <2>1. /\ valid \in Condition /\ valid.status = "True"
        /\ ready \in Condition /\ ready.status = "True"
    <3> HIDE DEF message
    <3> QED BY <1>1, <1>2, SetConditionType
  <2>2. Judged(class, verdict, now) =
          [class EXCEPT !.validRegion = valid, !.ready = ready]
    BY <1>2 DEF Judged
  <2> HIDE DEF valid, ready
  <2> QED BY <1>2, <2>1, <2>2 DEF NodeClass
<1>3. CASE verdict # "Valid"
  <2> DEFINE invalid == SetCondition(class.validRegion, "False", verdict, message, now)
  <2>1. invalid \in Condition /\ invalid.status = "False"
    <3> HIDE DEF message
    <3> QED BY <1>1, <1>3, SetConditionType
  <2>2. Judged(class, verdict, now) = [class EXCEPT !.validRegion = invalid]
    BY <1>3 DEF Judged
  <2> HIDE DEF invalid
  <2> QED BY <1>3, <2>1, <2>2 DEF NodeClass
<1> QED BY <1>2, <1>3

-----------------------------------------------------------------------------
(* The actions of the world. *)

LEMMA PutKeeps ==
  ASSUME DInv, NEW n \in ClassNames, Put(n)
  PROVE  ClassesOK' /\ RecInv' /\ events' # events
<1>1. events' \in 0..MaxEvents /\ events' # events
  BY NodeClassAssumption DEF Put, Event, DInv, TypeOK, ClassesOK
<1>2. PICK r \in Regions, t \in Tags :
        classes' = [classes EXCEPT ![n] = [@ EXCEPT !.exists = TRUE, !.edit = events',
                                                   !.region = r, !.tags = t]]
  BY DEF Put
<1>3. classes' \in [ClassNames -> NodeClass]
  BY <1>1, <1>2 DEF DInv, TypeOK, ClassesOK, NodeClass
<1> QED BY <1>1, <1>3 DEF Put, regionVars, DInv, TypeOK, ClassesOK, RecInv, JudgedFrom, Good

LEMMA DeleteKeeps ==
  ASSUME DInv, NEW n \in ClassNames, Delete(n)
  PROVE  ClassesOK' /\ RecInv' /\ events' # events
<1>1. events' \in 0..MaxEvents /\ events' # events
  BY NodeClassAssumption DEF Delete, Event, DInv, TypeOK, ClassesOK
<1>2. classes' \in [ClassNames -> NodeClass]
  BY AbsentIsClass DEF Delete, DInv, TypeOK, ClassesOK
<1> QED BY <1>1, <1>2 DEF Delete, regionVars, DInv, TypeOK, ClassesOK, RecInv, JudgedFrom, Good

LEMMA DeliverKeeps ==
  ASSUME DInv, NEW n \in ClassNames, Deliver(n)
  PROVE  ClassesOK' /\ RecInv'
BY DEF Deliver, regionVars, DInv, TypeOK, ClassesOK, RecInv, JudgedFrom, Good

LEMMA OfferKeeps ==
  ASSUME DInv, Offer
  PROVE  ClassesOK' /\ RecInv'
<1>1. events' \in 0..MaxEvents
  BY NodeClassAssumption DEF Offer, Event, DInv, TypeOK, ClassesOK
<1>2. offered' \in Listing
  BY DEF Offer, ChangeOffer, DInv, TypeOK, ClassesOK, Listing
<1> QED BY <1>1, <1>2 DEF Offer, ChangeOffer, DInv, TypeOK, ClassesOK, RecInv, JudgedFrom, Good

LEMMA RestartKeeps ==
  ASSUME DInv, Restart
  PROVE  ClassesOK' /\ RecInv'
<1>1. events' \in 0..MaxEvents
  BY NodeClassAssumption DEF Restart, Event, DInv, TypeOK, ClassesOK
<1>2. known' \in Listing
  BY DEF Restart, NothingKnown, Listing
<1>3. rec' = NoReconcile /\ rec'.pc = "idle"
  BY DEF Restart, NoReconcile
<1> QED BY <1>1, <1>2, <1>3, NoReconcileIsReconcile
        DEF Restart, DInv, TypeOK, ClassesOK, RecInv

-----------------------------------------------------------------------------
(* The actions of Reconcile. *)

LEMMA FetchKeeps ==
  ASSUME DInv, NEW n \in ClassNames, Fetch(n)
  PROVE  ClassesOK' /\ RecInv'
<1>1. /\ rec' \in Reconcile /\ rec'.pc # "update"
      /\ (rec'.pc # "idle" => rec'.class \in ClassNames /\ rec'.read.exists)
  <2>1. CASE cached[n].exists
    <3>1. rec' = [NoReconcile EXCEPT !.pc = "validate", !.class = n, !.read = cached[n]]
      BY <2>1 DEF Fetch
    <3>2. cached[n] \in NodeClass
      BY DEF DInv, TypeOK, ClassesOK
    <3> QED BY <2>1, <3>1, <3>2, NoReconcileIsReconcile DEF Reconcile
  <2>2. CASE ~cached[n].exists
    BY <2>2, NoReconcileIsReconcile DEF Fetch, NoReconcile
  <2> QED BY <2>1, <2>2
<1> QED BY <1>1 DEF Fetch, regionVars, DInv, TypeOK, ClassesOK, RecInv

LEMMA ValidateKeeps ==
  ASSUME DInv, Validate
  PROVE  ClassesOK' /\ RecInv'
<1>1. PICK available \in BOOLEAN, now \in Times, failed \in BOOLEAN :
        /\ IsAvailable(rec.read.region, available, failed)
        /\ IF failed THEN Event ELSE UNCHANGED events
        /\ rec' = [rec EXCEPT !.pc = "update",
                     !.new = Judged(rec.read, Verdict(rec.read.region, available), now)]
  BY DEF Validate
<1> DEFINE verdict == Verdict(rec.read.region, available)
           new     == Judged(rec.read, verdict, now)
<1>2. /\ rec \in Reconcile /\ rec.class \in ClassNames
      /\ rec.read \in NodeClass /\ rec.read.exists
  BY DEF DInv, TypeOK, ClassesOK, RecInv, Reconcile, Validate
<1>3. events' \in 0..MaxEvents
  BY <1>1, NodeClassAssumption DEF Event, DInv, TypeOK, ClassesOK
<1>4. known' \in Listing /\ available = (known'[rec.read.region] = "up")
  BY <1>1 DEF IsAvailable, List, DInv, TypeOK, ClassesOK
<1>5. /\ verdict \in {"InvalidRegion", "RegionMismatch", "Valid"}
      /\ verdict = "Valid" <=> rec.read.region = ClusterRegion /\ known'[ClusterRegion] = "up"
  BY <1>4 DEF Verdict
<1>6. /\ new \in NodeClass
      /\ new.validRegion.status = IF verdict = "Valid" THEN "True" ELSE "False"
      /\ new.ready.status = "True" <=> rec.read.ready.status = "True" \/ verdict = "Valid"
      /\ new.ready # rec.read.ready => verdict = "Valid"
  <2> HIDE DEF verdict
  <2> QED BY <1>2, <1>5, JudgedType
<1>7. rec' = [rec EXCEPT !.pc = "update", !.new = new]
  BY <1>1
<1> HIDE DEF verdict, new
<1>8. rec' \in Reconcile /\ rec'.class = rec.class /\ rec'.read = rec.read /\ rec'.new = new
  BY <1>2, <1>6, <1>7 DEF Reconcile
<1>9. RecInv'
  BY <1>2, <1>5, <1>6, <1>8 DEF RecInv, JudgedFrom, Good
<1> QED BY <1>3, <1>4, <1>8, <1>9 DEF Validate, DInv, TypeOK, ClassesOK

LEMMA UpdateKeeps ==
  ASSUME DInv, UpdateStatus
  PROVE  ClassesOK' /\ RecInv'
<1>1. /\ rec.class \in ClassNames /\ rec.new \in NodeClass
      /\ rec.new.validRegion \in Condition /\ rec.new.ready \in Condition
  BY DEF UpdateStatus, DInv, TypeOK, ClassesOK, RecInv, Reconcile, NodeClass
<1>2. classes' \in [ClassNames -> NodeClass]
  BY <1>1 DEF UpdateStatus, DInv, TypeOK, ClassesOK, NodeClass
<1>3. rec' = NoReconcile /\ rec'.pc = "idle"
  BY DEF UpdateStatus, NoReconcile
<1>4. queue' \subseteq ClassNames
  BY <1>1 DEF UpdateStatus, DInv, TypeOK, ClassesOK
<1> QED BY <1>2, <1>3, <1>4, NoReconcileIsReconcile
        DEF UpdateStatus, regionVars, DInv, TypeOK, ClassesOK, RecInv

LEMMA FailUpdateKeeps ==
  ASSUME DInv, FailUpdate
  PROVE  ClassesOK' /\ RecInv'
<1>1. rec.class \in ClassNames
  BY DEF FailUpdate, DInv, RecInv
<1>2. events' \in 0..MaxEvents
  BY NodeClassAssumption DEF FailUpdate, Event, DInv, TypeOK, ClassesOK
<1>3. rec' = NoReconcile /\ rec'.pc = "idle"
  BY DEF FailUpdate, NoReconcile
<1> QED BY <1>1, <1>2, <1>3, NoReconcileIsReconcile
        DEF FailUpdate, regionVars, DInv, TypeOK, ClassesOK, RecInv

(* The actions of the nodes touch nothing of the controller's but the      *)
(* count of events.                                                        *)
LEMMA NodeStepKeeps ==
  ASSUME DInv, UNCHANGED <<regionVars, classes, cached, queue, rec>>, events' \in 0..MaxEvents
  PROVE  ClassesOK' /\ RecInv'
BY DEF regionVars, DInv, TypeOK, ClassesOK, RecInv, JudgedFrom, Good

LEMMA NodesTyped ==
  ASSUME DInv, NEW s \in Nodes,
         \/ \E n \in ClassNames : LaunchFrom(s, n)
         \/ Terminate(s) \/ Relabel(s) \/ CheckDrift(s) \/ WriteDrifted(s)
  PROVE  /\ nodes' \in [Nodes -> Node]
         /\ UNCHANGED <<regionVars, classes, cached, queue, rec>>
         /\ events' \in 0..MaxEvents
<1>1. NoNode \in Node /\ nodes[s] \in Node
  BY AbsentIsClass DEF NoNode, Node, NodeClass, DInv, TypeOK
<1>2. events \in 0..MaxEvents
  BY DEF DInv, TypeOK, ClassesOK
<1>3. CASE \E n \in ClassNames : LaunchFrom(s, n)
  <2>1. PICK n \in ClassNames : LaunchFrom(s, n)
    BY <1>3
  <2>2. cached[n].tags \in Tags
    BY DEF DInv, TypeOK, ClassesOK, NodeClass
  <2>3. [NoNode EXCEPT !.up = TRUE, !.class = n, !.tags = cached[n].tags] \in Node
    BY <1>1, <2>2 DEF Node
  <2> QED BY <1>2, <2>1, <2>3 DEF LaunchFrom, classVars, DInv, TypeOK
<1>4. CASE Terminate(s)
  BY <1>1, <1>2, <1>4 DEF Terminate, classVars, DInv, TypeOK
<1>5. CASE Relabel(s)
  <2>1. PICK label \in {"same", "other", "none"} :
          nodes' = [nodes EXCEPT ![s].label = label, ![s].check = "none"]
    BY <1>5 DEF Relabel
  <2>2. nodes' \in [Nodes -> Node]
    BY <1>1, <2>1 DEF DInv, TypeOK, Node
  <2>3. events' \in 0..MaxEvents
    BY <1>2, <1>5, NodeClassAssumption DEF Relabel, Event
  <2> QED BY <1>5, <2>2, <2>3 DEF Relabel
<1>6. CASE CheckDrift(s)
  <2>1. PICK check \in {"current", "drifted"} : nodes' = [nodes EXCEPT ![s].check = check]
    BY <1>6 DEF CheckDrift
  <2>2. nodes' \in [Nodes -> Node]
    BY <1>1, <2>1 DEF DInv, TypeOK, Node
  <2> QED BY <1>2, <1>6, <2>2 DEF CheckDrift, classVars
<1>7. CASE WriteDrifted(s)
  <2>1. nodes' \in [Nodes -> Node]
    BY <1>1, <1>7 DEF WriteDrifted, DInv, TypeOK, Node
  <2> QED BY <1>2, <1>7, <2>1 DEF WriteDrifted, classVars
<1> QED BY <1>3, <1>4, <1>5, <1>6, <1>7

-----------------------------------------------------------------------------

LEMMA DInvInit == Init => DInv
<1> SUFFICES ASSUME Init PROVE DInv
  OBVIOUS
<1>1. offered \in Listing /\ known \in Listing
  BY DEF Init, ClassInit, RegionInit, NothingKnown, Listing
<1>2. classes \in [ClassNames -> NodeClass] /\ cached = classes
  BY AbsentIsClass DEF Init, ClassInit
<1>3. rec = NoReconcile /\ rec.pc = "idle"
  BY DEF Init, ClassInit, NoReconcile
<1>4. queue = {} /\ events \in 0..MaxEvents
  BY NodeClassAssumption DEF Init, ClassInit
<1>5. nodes \in [Nodes -> Node]
  BY AbsentIsClass DEF Init, NoNode, Node, NodeClass
<1> QED BY <1>1, <1>2, <1>3, <1>4, <1>5, NoReconcileIsReconcile
        DEF DInv, TypeOK, ClassesOK, RecInv

LEMMA DInvStep == DInv /\ [Next]_vars => DInv'
<1> SUFFICES ASSUME DInv, [Next]_vars PROVE DInv'
  OBVIOUS
<1>1. CASE World /\ UNCHANGED nodes
  BY <1>1, PutKeeps, DeleteKeeps, DeliverKeeps, OfferKeeps DEF World, DInv, TypeOK
<1>2. CASE Reconciling /\ UNCHANGED nodes
  BY <1>2, FetchKeeps, ValidateKeeps, UpdateKeeps, FailUpdateKeeps DEF Reconciling, DInv, TypeOK
<1>3. CASE RestartAll
  <2>1. nodes' \in [Nodes -> Node]
    BY <1>3 DEF RestartAll, DInv, TypeOK, Node
  <2> QED BY <1>3, <2>1, RestartKeeps DEF RestartAll, DInv, TypeOK
<1>4. ASSUME NEW s \in Nodes,
             \/ \E n \in ClassNames : LaunchFrom(s, n)
             \/ Terminate(s) \/ Relabel(s) \/ CheckDrift(s) \/ WriteDrifted(s)
      PROVE  DInv'
  BY <1>4, NodesTyped, NodeStepKeeps DEF DInv, TypeOK
<1>5. CASE UNCHANGED vars
  <2>1. events \in 0..MaxEvents /\ nodes \in [Nodes -> Node]
    BY DEF DInv, TypeOK, ClassesOK
  <2> QED BY <1>5, <2>1, NodeStepKeeps DEF vars, classVars, DInv, TypeOK
<1> QED BY <1>1, <1>2, <1>3, <1>4, <1>5 DEF Next

(* Every variable keeps its type: pkg/controllers/nodeclass and the nodes. *)
THEOREM TypeCorrectness == Spec => []TypeOK
<1>1. DInv => TypeOK
  BY DEF DInv
<1> QED BY <1>1, DInvInit, DInvStep, PTL DEF Spec

(* Only events and the status update change a class. *)
LEMMA JudgingStep ==
  ASSUME DInv, [Next]_vars
  PROVE  [\A n \in ClassNames :
            classes[n].exists /\ classes'[n].exists /\ events' = events =>
              /\ classes'[n].validRegion # classes[n].validRegion =>
                   (classes'[n].validRegion.status = "True"
                      <=> classes[n].region = ClusterRegion /\ known[ClusterRegion] = "up")
              /\ classes'[n].ready # classes[n].ready =>
                   classes[n].region = ClusterRegion /\ known[ClusterRegion] = "up"]_classVars
<1>1. CASE UpdateStatus
  <2>1. /\ rec.class \in ClassNames
        /\ classes[rec.class] = rec.read
        /\ rec.new.validRegion.status = "True" <=> Good(rec.read)
        /\ rec.new.ready # rec.read.ready => Good(rec.read)
    BY <1>1 DEF UpdateStatus, Conflict, DInv, RecInv, JudgedFrom
  <2>2. /\ \A n \in ClassNames : n # rec.class => classes'[n] = classes[n]
        /\ classes'[rec.class].validRegion = rec.new.validRegion
        /\ classes'[rec.class].ready = rec.new.ready
    BY <1>1, <2>1 DEF UpdateStatus, DInv, TypeOK, ClassesOK, NodeClass
  <2> QED BY <2>1, <2>2 DEF Good
<1>2. CASE classes' = classes
  BY <1>2
<1>3. ASSUME NEW n \in ClassNames, Put(n) \/ Delete(n)
      PROVE  events' # events
  BY <1>3, PutKeeps, DeleteKeeps
<1>4. \/ UpdateStatus
      \/ classes' = classes
      \/ \E n \in ClassNames : Put(n) \/ Delete(n)
  BY DEF Next, World, Reconciling, RestartAll, Restart, Deliver, Offer, Fetch, Validate,
         FailUpdate, LaunchFrom, Terminate, Relabel, CheckDrift, WriteDrifted, classVars, vars
<1> QED BY <1>1, <1>2, <1>3, <1>4

(* The status written by Reconcile (pkg/controllers/nodeclass) judges the  *)
(* region that the class has when it is written.                           *)
THEOREM StatusIsCurrent == Spec => StatusJudgesCurrentRegion
<1>1. DInv /\ [Next]_vars =>
        [\A n \in ClassNames :
           classes[n].exists /\ classes'[n].exists /\ events' = events =>
             /\ classes'[n].validRegion # classes[n].validRegion =>
                  (classes'[n].validRegion.status = "True"
                     <=> classes[n].region = ClusterRegion /\ known[ClusterRegion] = "up")
             /\ classes'[n].ready # classes[n].ready =>
                  classes[n].region = ClusterRegion /\ known[ClusterRegion] = "up"]_classVars
  BY JudgingStep
<1> QED BY <1>1, DInvInit, DInvStep, PTL DEF Spec, StatusJudgesCurrentRegion

-----------------------------------------------------------------------------
(* What stands behind ComesToRest: a verdict that repeats is not written.  *)

Verdicts == {"InvalidRegion", "RegionMismatch", "Valid"}

(* A class that is valid was made Ready with the same write, or before.    *)
Consistent(class) ==
  /\ class.validRegion.reason = "Valid" => class.ready.status = "True"
  /\ class.validRegion.status = "True" <=> class.validRegion.reason = "Valid"
  /\ class.validRegion.status = "none" <=> class.validRegion.reason = "none"
  /\ class.ready.status = "True" => class.ready.reason = "Ready" /\ class.ready.message = {}

(* What is about to be written is the judgement of the copy. *)
NewIsJudgement ==
  rec.pc = "update" =>
    \E verdict \in Verdicts, now \in Times : rec.new = Judged(rec.read, verdict, now)

RestInv == (\A n \in ClassNames : Consistent(classes[n])) /\ NewIsJudgement

LEMMA JudgedConditions ==
  ASSUME NEW class \in NodeClass, Consistent(class), NEW verdict \in Verdicts, NEW now \in Times
  PROVE  LET new == Judged(class, verdict, now)
         IN  /\ Consistent(new)
             /\ new.validRegion.reason = verdict
             /\ new.validRegion.message = Message(class.region, verdict)
             /\ /\ class.validRegion.reason = verdict
                /\ class.validRegion.message = Message(class.region, verdict)
                => new.validRegion = class.validRegion /\ new.ready = class.ready
<1> DEFINE message == Message(class.region, verdict)
<1>1. class.validRegion \in Condition /\ class.ready \in Condition
  BY DEF NodeClass
<1>2. CASE verdict = "Valid"
  <2> DEFINE valid == SetCondition(class.validRegion, "True", verdict, message, now)
             ready == SetCondition(class.ready, "True", "Ready", {}, now)
  <2>1. /\ valid.status = "True" /\ valid.reason = "Valid" /\ valid.message = message
        /\ ready.status = "True" /\ ready.reason = "Ready" /\ ready.message = {}
    BY <1>2 DEF SetCondition
  <2>2. class.validRegion.reason = "Valid" /\ class.validRegion.message = message
          => valid = class.validRegion /\ ready = class.ready
    BY <1>1, <1>2 DEF SetCondition, Condition, Consistent
  <2>3. Judged(class, verdict, now) = [class EXCEPT !.validRegion = valid, !.ready = ready]
    BY <1>2 DEF Judged
  <2> HIDE DEF valid, ready
  <2> QED BY <1>2, <2>1, <2>2, <2>3 DEF NodeClass, Consistent
<1>3. CASE verdict # "Valid"
  <2> DEFINE invalid == SetCondition(class.validRegion, "False", verdict, message, now)
  <2>1. invalid.status = "False" /\ invalid.reason = verdict /\ invalid.message = message
    BY DEF SetCondition
  <2>2. class.validRegion.status = "False" /\ class.validRegion.reason = verdict
          /\ class.validRegion.message = message => invalid = class.validRegion
    BY <1>1 DEF SetCondition, Condition
  <2>3. Judged(class, verdict, now) = [class EXCEPT !.validRegion = invalid]
    BY <1>3 DEF Judged
  <2> HIDE DEF invalid
  <2>4. /\ Judged(class, verdict, now).validRegion = invalid
        /\ Judged(class, verdict, now).ready = class.ready
    BY <2>3 DEF NodeClass
  <2>5. verdict = class.validRegion.reason => class.validRegion.status = "False"
    BY <1>1, <1>3 DEF Consistent, Condition, Verdicts
  <2>6. Consistent(Judged(class, verdict, now))
    BY <1>3, <2>1, <2>4 DEF Consistent, Verdicts
  <2> QED BY <2>1, <2>2, <2>4, <2>5, <2>6
<1> QED BY <1>2, <1>3

LEMMA RestInvStep ==
  ASSUME DInv, RestInv, [Next]_vars
  PROVE  RestInv'
<1>1. \A n \in ClassNames : classes[n] \in NodeClass
  BY DEF DInv, TypeOK, ClassesOK
<1>2. CASE UNCHANGED <<classes, rec>>
  BY <1>2 DEF RestInv, NewIsJudgement
<1>3. ASSUME NEW n \in ClassNames, Put(n) PROVE RestInv'
  <2>1. \A m \in ClassNames : /\ classes'[m].validRegion = classes[m].validRegion
                              /\ classes'[m].ready = classes[m].ready
    BY <1>1, <1>3 DEF Put, NodeClass, DInv, TypeOK, ClassesOK
  <2>2. rec' = rec
    BY <1>3 DEF Put
  <2> QED BY <2>1, <2>2 DEF RestInv, Consistent, NewIsJudgement
<1>4. ASSUME NEW n \in ClassNames, Delete(n) PROVE RestInv'
  <2>1. \A m \in ClassNames : classes'[m] \in {classes[m], Absent}
    BY <1>4 DEF Delete, DInv, TypeOK, ClassesOK
  <2>2. Consistent(Absent)
    BY DEF Consistent, Absent, NoCondition
  <2>3. rec' = rec
    BY <1>4 DEF Delete
  <2> QED BY <2>1, <2>2, <2>3 DEF RestInv, NewIsJudgement
<1>5. CASE UNCHANGED classes /\ rec'.pc # "update"
  BY <1>5 DEF RestInv, NewIsJudgement
<1>6. CASE Validate
  <2>1. PICK available \in BOOLEAN, now \in Times :
          rec' = [rec EXCEPT !.pc = "update",
                    !.new = Judged(rec.read, Verdict(rec.read.region, available), now)]
    BY <1>6 DEF Validate
  <2> DEFINE verdict == Verdict(rec.read.region, available)
             new     == Judged(rec.read, verdict, now)
  <2>2. verdict \in Verdicts
    BY DEF Verdict, Verdicts
  <2>3. rec'.new = new /\ rec'.read = rec.read
    BY <2>1 DEF DInv, TypeOK, ClassesOK, Reconcile
  <2>4. rec'.new = Judged(rec'.read, verdict, now)
    BY <2>3
  <2> HIDE DEF verdict, new
  <2>5. NewIsJudgement'
    BY <2>2, <2>4 DEF NewIsJudgement
  <2> QED BY <1>6, <2>5 DEF Validate, RestInv
<1>7. CASE UpdateStatus
  <2>1. PICK verdict \in Verdicts, now \in Times : rec.new = Judged(rec.read, verdict, now)
    BY <1>7 DEF UpdateStatus, RestInv, NewIsJudgement
  <2>2. rec.class \in ClassNames /\ rec.read = classes[rec.class]
    BY <1>7 DEF UpdateStatus, Conflict, DInv, RecInv
  <2>3. Consistent(rec.new)
    BY <1>1, <2>1, <2>2, JudgedConditions DEF RestInv
  <2>4. \A n \in ClassNames : \/ classes'[n] = classes[n]
                              \/ /\ classes'[n].validRegion = rec.new.validRegion
                                 /\ classes'[n].ready = rec.new.ready
    BY <1>1, <1>7, <2>2 DEF UpdateStatus, DInv, TypeOK, ClassesOK, NodeClass
  <2>5. \A n \in ClassNames : Consistent(classes'[n])
    BY <2>3, <2>4 DEF Consistent, RestInv
  <2>6. rec'.pc = "idle"
    BY <1>7 DEF UpdateStatus, NoReconcile
  <2> QED BY <2>5, <2>6 DEF RestInv, Consistent, NewIsJudgement
<1>8. ASSUME NEW n \in ClassNames, Fetch(n) PROVE rec'.pc # "update" /\ UNCHANGED classes
  BY <1>8 DEF Fetch, NoReconcile
<1>9. ASSUME FailUpdate \/ Restart PROVE rec'.pc # "update" /\ UNCHANGED classes
  BY <1>9 DEF FailUpdate, Restart, NoReconcile
<1>10. CASE World
  BY <1>2, <1>3, <1>4, <1>10 DEF World, Deliver, Offer
<1>11. CASE Reconciling
  BY <1>5, <1>6, <1>7, <1>8, <1>9, <1>11 DEF Reconciling
<1>12. CASE RestartAll
  BY <1>5, <1>9, <1>12 DEF RestartAll
<1> QED BY <1>2, <1>10, <1>11, <1>12
        DEF Next, LaunchFrom, Terminate, Relabel, CheckDrift, WriteDrifted, classVars, vars

LEMMA SameConditions ==
  ASSUME NEW class \in NodeClass
  PROVE  [class EXCEPT !.validRegion = class.validRegion, !.ready = class.ready] = class
BY DEF NodeClass

(* A write by the controller that repeats a verdict leaves the object as   *)
(* it was, and is no event.                                                *)
LEMMA RepeatingStep ==
  ASSUME DInv, RestInv, [Next]_vars, events' = events,
         NEW n \in ClassNames, classes'[n] # classes[n]
  PROVE  \/ classes'[n].validRegion.reason # classes[n].validRegion.reason
         \/ classes'[n].validRegion.message # classes[n].validRegion.message
<1>1. UpdateStatus
  BY PutKeeps, DeleteKeeps
     DEF Next, World, Reconciling, RestartAll, Restart, Deliver, Offer, Fetch, Validate,
         FailUpdate, LaunchFrom, Terminate, Relabel, CheckDrift, WriteDrifted, classVars, vars
<1>2. PICK verdict \in Verdicts, now \in Times : rec.new = Judged(rec.read, verdict, now)
  BY <1>1 DEF UpdateStatus, RestInv, NewIsJudgement
<1>3. /\ rec.class \in ClassNames /\ rec.read = classes[rec.class]
      /\ classes[rec.class] \in NodeClass
  BY <1>1 DEF UpdateStatus, Conflict, DInv, RecInv, TypeOK, ClassesOK
<1>4. rec.class = n
  BY <1>1 DEF UpdateStatus, DInv, TypeOK, ClassesOK
<1>5. classes' = [classes EXCEPT ![n].validRegion = rec.new.validRegion,
                                 ![n].ready = rec.new.ready]
  BY <1>1, <1>4 DEF UpdateStatus
<1>6. /\ classes'[n].validRegion = rec.new.validRegion
      /\ rec.new.validRegion = classes[n].validRegion /\ rec.new.ready = classes[n].ready
           => classes'[n] = classes[n]
  <2>1. classes'[n] = [classes[n] EXCEPT !.validRegion = rec.new.validRegion,
                                         !.ready = rec.new.ready]
    BY <1>3, <1>4, <1>5 DEF DInv, TypeOK, ClassesOK
  <2>2. classes[n] \in NodeClass
    BY <1>3, <1>4
  <2> QED BY <2>1, <2>2, SameConditions DEF NodeClass
<1>7. /\ rec.new.validRegion.reason = verdict
      /\ rec.new.validRegion.message = Message(classes[n].region, verdict)
      /\ /\ classes[n].validRegion.reason = verdict
         /\ classes[n].validRegion.message = Message(classes[n].region, verdict)
         => /\ rec.new.validRegion = classes[n].validRegion
              /\ rec.new.ready = classes[n].ready
  BY <1>2, <1>3, <1>4, JudgedConditions DEF RestInv
<1> QED BY <1>6, <1>7

(* Reconcile (pkg/controllers/nodeclass) does not wake itself: a verdict   *)
(* that the status has already, of the region that it names, is written    *)
(* without changing the object.                                            *)
THEOREM RepeatsAreSilent == Spec => RepeatedVerdictWritesNothing
<1>1. Init => RestInv
  BY DEF Init, ClassInit, NoReconcile, Absent, NoCondition, RestInv, Consistent, NewIsJudgement
<1>2. DInv /\ RestInv /\ [Next]_vars => RestInv'
  BY RestInvStep
<1>3. DInv /\ RestInv /\ [Next]_vars =>
        [\A n \in ClassNames :
           events' = events /\ classes'[n] # classes[n] =>
             \/ classes'[n].validRegion.reason # classes[n].validRegion.reason
             \/ classes'[n].validRegion.message # classes[n].validRegion.message]_classVars
  BY RepeatingStep
<1> QED BY <1>1, <1>2, <1>3, DInvInit, DInvStep, PTL DEF Spec, RepeatedVerdictWritesNothing

=============================================================================
