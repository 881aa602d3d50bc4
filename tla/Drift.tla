-------------------------------- MODULE Drift --------------------------------
(***************************************************************************)
(* Node classes and the nodes made from them: Karpenter launches nodes     *)
(* from a class that is Ready, and asks the cloud provider's IsDrifted     *)
(* again and again whether to replace them (pkg/cloudprovider).  Classes   *)
(* are edited and judged by NodeClassController all the while.             *)
(***************************************************************************)
EXTENDS NodeClassController

CONSTANT Nodes  \* room for nodes

VARIABLE nodes  \* each node with its NodeClaim

vars == <<classVars, nodes>>

-----------------------------------------------------------------------------

(* tags: of its pool.  label: whether the claim's instance-type label is   *)
(* the size of the pool.  drifted: the claim's condition.  check: the call *)
(* of IsDrifted, whose verdict is not written yet.                         *)
Node == [up      : BOOLEAN,
         class   : ClassNames \cup {NoClass},
         tags    : Tags,
         label   : {"same", "other", "none"},
         drifted : BOOLEAN,
         check   : {"none", "current", "drifted"}]

NoNode == [up |-> FALSE, class |-> NoClass, tags |-> Absent.tags, label |-> "same",
           drifted |-> FALSE, check |-> "none"]

Init ==
  /\ ClassInit
  /\ nodes = [s \in Nodes |-> NoNode]

(* Karpenter launches from classes that are Ready, Create looks at nothing *)
(* but the tags of the class: pools are always made in the cluster.        *)
LaunchFrom(s, n) ==
  /\ ~nodes[s].up
  /\ cached[n].exists /\ cached[n].ready.status = "True"
  /\ nodes' = [nodes EXCEPT ![s] = [NoNode EXCEPT !.up = TRUE, !.class = n,
                                                  !.tags = cached[n].tags]]
  /\ UNCHANGED classVars

(* The node is disrupted, because it has drifted or for another reason. *)
Terminate(s) ==
  /\ nodes[s].up
  /\ nodes' = [nodes EXCEPT ![s] = NoNode]
  /\ UNCHANGED classVars

(* Someone edits the claim: a check under way is refused its write. *)
Relabel(s) ==
  /\ Event
  /\ nodes[s].up
  /\ \E label \in {"same", "other", "none"} \ {nodes[s].label} :
       nodes' = [nodes EXCEPT ![s].label = label, ![s].check = "none"]
  /\ UNCHANGED <<regionVars, classes, cached, queue, rec>>

-----------------------------------------------------------------------------
(* IsDrifted *)

(* Mutant: the region is not compared. *)
SizeDrifted(class, node) == node.label = "other"

(* An instance's region is the provider's, whatever pool it is in. *)
IsDrifted(class, node) ==
  \/ class.region # ClusterRegion
  \/ node.label = "other"

(* It fails, and nothing changes, when the class is not found. *)
CheckDrift(s) ==
  /\ nodes[s].up /\ nodes[s].check = "none"
  /\ LET class == cached[nodes[s].class]
     IN  /\ class.exists
         /\ nodes' = [nodes EXCEPT ![s].check =
                        IF IsDrifted(class, nodes[s]) THEN "drifted" ELSE "current"]
  /\ UNCHANGED classVars

(* By then the class may have been edited. *)
WriteDrifted(s) ==
  /\ nodes[s].check # "none"
  /\ nodes' = [nodes EXCEPT ![s].drifted = (nodes[s].check = "drifted"),
                            ![s].check = "none"]
  /\ UNCHANGED classVars

-----------------------------------------------------------------------------

(* The process ends with all it was doing. *)
RestartAll ==
  /\ Restart
  /\ nodes' = [s \in Nodes |-> [nodes[s] EXCEPT !.check = "none"]]

Next ==
  \/ (World \/ Reconciling) /\ UNCHANGED nodes
  \/ RestartAll
  \/ \E s \in Nodes : \/ \E n \in ClassNames : LaunchFrom(s, n)
                      \/ Terminate(s) \/ Relabel(s) \/ CheckDrift(s) \/ WriteDrifted(s)

Spec == Init /\ [][Next]_vars

(* The worker runs, requests wait for their turn, watch events arrive; the *)
(* nodes are checked again and again.                                      *)
Fairness ==
  /\ \A n \in ClassNames : /\ WF_vars(Deliver(n) /\ UNCHANGED nodes)
                           /\ SF_vars(Fetch(n) /\ UNCHANGED nodes)
  /\ WF_vars(Reconciling /\ UNCHANGED nodes)
  /\ \A s \in Nodes : WF_vars(CheckDrift(s)) /\ WF_vars(WriteDrifted(s))

FairSpec == Spec /\ Fairness

-----------------------------------------------------------------------------

(* Every variable has its type. *)
TypeOK == ClassesOK /\ nodes \in [Nodes -> Node]

(* The Drifted condition of a node that stays catches up with its class as *)
(* it is now and its claim's label, although verdicts are computed from an *)
(* old copy of the class, written late and lost in a restart, and although *)
(* the class goes and comes again.                                         *)
DriftIsNoticed ==
  \A s \in Nodes :
    []<>(nodes[s].up /\ classes[nodes[s].class].exists =>
           (nodes[s].drifted <=> \/ classes[nodes[s].class].region # ClusterRegion
                                 \/ nodes[s].label = "other"))

-----------------------------------------------------------------------------
(* What the repository's README says. *)

(* "Drift detection - detects when running nodes drift from their desired  *)
(* DONodeClass configuration" (README.md:13): a node whose pool has other  *)
(* tags than its class now asks for comes to be drifted.                   *)
TagDriftIsNoticed ==
  \A s \in Nodes :
    []<>(nodes[s].up /\ classes[nodes[s].class].exists
           /\ nodes[s].tags # classes[nodes[s].class].tags => nodes[s].drifted)

=============================================================================
