------------------------- MODULE NodeClassController -------------------------
(***************************************************************************)
(* pkg/controllers/nodeclass: the controller that writes the conditions    *)
(* ValidRegion and Ready into the status of DONodeClass objects.  It reads *)
(* an object from the manager's cache, asks the region provider and writes *)
(* the status back under the resource version it read.                     *)
(***************************************************************************)
EXTENDS RegionProvider

CONSTANTS
  ClassNames,     \* names of DONodeClasses
  Tags,           \* what the tags of a DONodeClass may be
  ClusterRegion,  \* the region of the DOKS cluster
  MaxEvents,      \* a bound on edits, faults, restarts and changes of offers
  NoClass         \* no name

ASSUME NodeClassAssumption ==
  /\ ClusterRegion \in Regions
  /\ Tags # {}
  /\ MaxEvents \in Nat
  /\ NoClass \notin ClassNames

VARIABLES
  classes,  \* the DONodeClasses in the API server
  cached,   \* the same as the informer's cache shows them
  queue,    \* the reconcile requests waiting
  rec,      \* the reconcile in progress
  events    \* how many of the bounded events happened

classVars == <<regionVars, classes, cached, queue, rec, events>>

-----------------------------------------------------------------------------

(* Two times stand for the clock: all that matters of lastTransitionTime   *)
(* is whether writing it changes the object.                               *)
Times == 0..1

(* message: the regions that its text names, all of it that the reason     *)
(* does not tell.                                                          *)
Condition == [status  : {"none", "True", "False"},
              reason  : {"none", "InvalidRegion", "RegionMismatch", "Valid", "Ready"},
              message : SUBSET Regions,
              since   : Times]

(* edit: the user's edit that made the object what it is, which tells its  *)
(* versions apart together with the status.                                *)
NodeClass == [exists : BOOLEAN, edit : 0..MaxEvents, region : Regions,
              tags : Tags, validRegion : Condition, ready : Condition]

NoCondition == [status |-> "none", reason |-> "none", message |-> {}, since |-> 0]

Absent == [exists |-> FALSE, edit |-> 0, region |-> ClusterRegion,
           tags |-> CHOOSE t \in Tags : TRUE, validRegion |-> NoCondition, ready |-> NoCondition]

(* read: the object as it was read.  new: what is to be written. *)
Reconcile == [pc    : {"idle", "validate", "update"},
              class : ClassNames \cup {NoClass},
              read  : NodeClass,
              new   : NodeClass]

NoReconcile == [pc |-> "idle", class |-> NoClass, read |-> Absent, new |-> Absent]

ClassInit ==
  /\ RegionInit
  /\ classes = [n \in ClassNames |-> Absent]
  /\ cached = classes
  /\ queue = {}
  /\ rec = NoReconcile
  /\ events = 0

-----------------------------------------------------------------------------
(* The world around the controller. *)

Event == events < MaxEvents /\ events' = events + 1

(* Users create and edit node classes, an edit keeps the status. *)
Put(n) ==
  /\ Event
  /\ \E r \in Regions, t \in Tags :
       /\ classes[n].exists => <<r, t>> # <<classes[n].region, classes[n].tags>>
       /\ classes' = [classes EXCEPT ![n] = [@ EXCEPT !.exists = TRUE, !.edit = events',
                                                    !.region = r, !.tags = t]]
  /\ UNCHANGED <<regionVars, cached, queue, rec>>

Delete(n) ==
  /\ Event
  /\ classes[n].exists
  /\ classes' = [classes EXCEPT ![n] = Absent]
  /\ UNCHANGED <<regionVars, cached, queue, rec>>

Offer ==
  /\ Event
  /\ \E r \in Regions, listing \in {"unlisted", "down", "up"} : ChangeOffer(r, listing)
  /\ UNCHANGED <<classes, cached, queue, rec>>

Deliver(n) ==
  /\ cached[n] # classes[n]
  /\ cached' = [cached EXCEPT ![n] = classes[n]]
  /\ queue' = queue \cup {n}
  /\ UNCHANGED <<regionVars, classes, rec, events>>

Restart ==
  /\ Event
  /\ known' = NothingKnown
  /\ cached' = classes
  /\ queue' = {n \in ClassNames : classes[n].exists}
  /\ rec' = NoReconcile
  /\ UNCHANGED <<offered, classes>>

-----------------------------------------------------------------------------
(* Reconcile *)

(* An object that is not found is none of its business any more. *)
Fetch(n) ==
  /\ rec.pc = "idle" /\ n \in queue
  /\ queue' = queue \ {n}
  /\ rec' = IF cached[n].exists
            THEN [NoReconcile EXCEPT !.pc = "validate", !.class = n, !.read = cached[n]]
            ELSE NoReconcile
  /\ UNCHANGED <<regionVars, classes, cached, events>>

Verdict(region, available) ==
  IF ~available THEN "InvalidRegion"
  ELSE IF region # ClusterRegion THEN "RegionMismatch"
  ELSE "Valid"

(* A mismatch is told with the region of the cluster. *)
Message(region, verdict) ==
  IF verdict = "RegionMismatch" THEN {region, ClusterRegion} ELSE {region}

(* Mutants: the time of the last reconcile instead; no reason is set. *)
RestampCondition(old, status, reason, message, now) ==
  [status |-> status, reason |-> reason, message |-> message, since |-> now]

BareCondition(old, status, reason, message, now) ==
  [status |-> status, reason |-> "", message |-> message,
   since  |-> IF old.status = status THEN old.since ELSE now]

(* The time of the last transition is kept while the status is the same,   *)
(* also when the reason or the message is another.                         *)
SetCondition(old, status, reason, message, now) ==
  [status |-> status, reason |-> reason, message |-> message,
   since  |-> IF old.status = status THEN old.since ELSE now]

(* Mutant: Ready is set before the region is compared with the cluster's. *)
ReadyWhenAvailable(class, verdict, now) ==
  LET message == Message(class.region, verdict)
      judged  == [class EXCEPT !.validRegion =
                    SetCondition(@, IF verdict = "Valid" THEN "True" ELSE "False",
                                 verdict, message, now)]
  IN  IF verdict = "InvalidRegion" THEN judged
      ELSE [judged EXCEPT !.ready = SetCondition(@, "True", "Ready", {}, now)]

(* Ready is set with a valid region and otherwise left as it is. *)
Judged(class, verdict, now) ==
  LET message == Message(class.region, verdict)
  IN  IF verdict = "Valid"
      THEN [class EXCEPT !.validRegion = SetCondition(@, "True", verdict, message, now),
                         !.ready       = SetCondition(@, "True", "Ready", {}, now)]
      ELSE [class EXCEPT !.validRegion = SetCondition(@, "False", verdict, message, now)]

Validate ==
  /\ rec.pc = "validate"
  /\ \E available \in BOOLEAN, now \in Times, failed \in BOOLEAN :
       /\ IsAvailable(rec.read.region, available, failed)
       /\ IF failed THEN Event ELSE UNCHANGED events
       /\ rec' = [rec EXCEPT !.pc = "update",
                             !.new = Judged(rec.read, Verdict(rec.read.region, available), now)]
  /\ UNCHANGED <<offered, classes, cached, queue>>

(* Mutant: a status is written whatever the version of the object. *)
Deleted == ~classes[rec.class].exists

(* Update, unlike a patch, is refused when the object is no longer the one  *)
(* that was read (by resource version).                                    *)
Conflict == classes[rec.class] # rec.read

(* Mutant: an invalid region is not an error to be retried. *)
NeverRetried == FALSE

(* The error for an unavailable or another region has it tried again. *)
Rejected == rec.new.validRegion.status = "False"

(* Status().Update writes the status only. *)
UpdateStatus ==
  /\ rec.pc = "update"
  /\ ~Conflict
  /\ classes' = [classes EXCEPT ![rec.class].validRegion = rec.new.validRegion,
                                ![rec.class].ready       = rec.new.ready]
  /\ queue' = IF Rejected THEN queue \cup {rec.class} ELSE queue
  /\ rec' = NoReconcile
  /\ UNCHANGED <<regionVars, cached, events>>

(* A conflict, or a fault, returns the error of the update. *)
FailUpdate ==
  /\ rec.pc = "update"
  /\ \/ Conflict /\ UNCHANGED events
     \/ Event
  /\ queue' = queue \cup {rec.class}
  /\ rec' = NoReconcile
  /\ UNCHANGED <<regionVars, classes, cached>>

Reconciling == (\E n \in ClassNames : Fetch(n)) \/ Validate \/ UpdateStatus \/ FailUpdate

World ==
  \/ \E n \in ClassNames : Put(n) \/ Delete(n) \/ Deliver(n)
  \/ Offer

-----------------------------------------------------------------------------

(* The types of the controller's variables. *)
ClassesOK ==
  /\ offered \in Listing /\ known \in Listing
  /\ classes \in [ClassNames -> NodeClass]
  /\ cached \in [ClassNames -> NodeClass]
  /\ queue \subseteq ClassNames
  /\ rec \in Reconcile
  /\ events \in 0..MaxEvents

(* What is written judges the region that the object has when it is        *)
(* written, however old the copy it was computed from: a class edited      *)
(* meanwhile is never called Ready, or invalid, for what it was before.    *)
StatusJudgesCurrentRegion ==
  [][\A n \in ClassNames :
       classes[n].exists /\ classes'[n].exists /\ events' = events =>
         /\ classes'[n].validRegion # classes[n].validRegion =>
              (classes'[n].validRegion.status = "True"
                 <=> classes[n].region = ClusterRegion /\ known[ClusterRegion] = "up")
         /\ classes'[n].ready # classes[n].ready =>
              classes[n].region = ClusterRegion /\ known[ClusterRegion] = "up"]_classVars

(* What the region provider answers, or would if it were asked. *)
Answer(r) == IF Populated THEN known[r] ELSE offered[r]

(* When edits and faults end, ValidRegion comes to say whether the region  *)
(* is the cluster's and was found available, and to say it of the region   *)
(* that the class has, after failed lists, failed and conflicting updates  *)
(* and restarts.                                                           *)
StatusSettles ==
  \A n \in ClassNames :
    <>[](classes[n].exists =>
           /\ classes[n].validRegion.status # "none"
           /\ classes[n].region \in classes[n].validRegion.message
           /\ classes[n].validRegion.status = "True"
                <=> classes[n].region = ClusterRegion /\ Answer(ClusterRegion) = "up")

(* A reconcile that comes to the verdict that is there already, of the     *)
(* region that it was about, changes nothing, neither a time nor Ready:    *)
(* its write is no event and brings no other reconcile.  Another region    *)
(* with the same verdict is told, and is an event.                         *)
RepeatedVerdictWritesNothing ==
  [][\A n \in ClassNames :
       events' = events /\ classes'[n] # classes[n] =>
         \/ classes'[n].validRegion.reason # classes[n].validRegion.reason
         \/ classes'[n].validRegion.message # classes[n].validRegion.message]_classVars

(* The controller's own writes do not keep it busy: once all classes are   *)
(* valid it comes to rest, although every write is an event for it.        *)
ComesToRest ==
  <>[](\A n \in ClassNames : classes[n].validRegion.status # "False")
    => <>[](queue = {} /\ rec.pc = "idle")

-----------------------------------------------------------------------------
(* What comments of the repository say. *)

(* "ConditionTypeReady indicates the DONodeClass is ready for use", and its *)
(* region "must match the region of the DOKS cluster"                       *)
(* (pkg/apis/v1alpha1/types.go:84 and 50): a class whose region was found   *)
(* invalid does not go on being Ready for good.                             *)
ReadyFollowsRegion ==
  \A n \in ClassNames :
    []<>~(classes[n].ready.status = "True" /\ classes[n].validRegion.status = "False")

=============================================================================
