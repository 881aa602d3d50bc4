--------------------------- MODULE NodeClassLedger ---------------------------
(***************************************************************************)
(* What the node class controller promises about the status it writes: the *)
(* abstract specification that Drift implements.  A class is judged in one *)
(* step, as it is and by what is known at that moment, and becomes Ready   *)
(* in no other way.  When what is known is refreshed, and whether Ready is *)
(* taken back, is left open.  There is no cache, no queue, no resource     *)
(* version, no call that can fail and no process.                          *)
(***************************************************************************)
CONSTANTS
  ClassNames,    \* names of DONodeClasses
  Regions,       \* region slugs
  ClusterRegion  \* the region of the DOKS cluster

VARIABLES
  region,  \* what each class names: one region, or none when it is not there
  valid,   \* its condition ValidRegion: none, True, False
  ready,   \* whether its condition Ready is True
  open     \* the regions known to be available

ledger == <<region, valid, ready, open>>

-----------------------------------------------------------------------------

Init ==
  /\ region = [n \in ClassNames |-> {}]
  /\ valid = [n \in ClassNames |-> "none"]
  /\ ready = [n \in ClassNames |-> FALSE]
  /\ open = {}

(* A class is made, or edited: its conditions are not a user's to write. *)
Put(n) ==
  /\ \E r \in Regions : region' = [region EXCEPT ![n] = {r}]
  /\ UNCHANGED <<valid, ready, open>>

(* Its conditions go with it. *)
Delete(n) ==
  /\ region' = [region EXCEPT ![n] = {}]
  /\ valid' = [valid EXCEPT ![n] = "none"]
  /\ ready' = [ready EXCEPT ![n] = FALSE]
  /\ UNCHANGED open

(* What is known may be refreshed, or forgotten, at any time. *)
Learn ==
  /\ open' \in SUBSET Regions
  /\ UNCHANGED <<region, valid, ready>>

Suits(n) == region[n] = {ClusterRegion} /\ ClusterRegion \in open

(* A class that suits is made Ready.  One that does not is never made so,  *)
(* and may keep or lose the Ready that it has.                             *)
Judge(n) ==
  /\ region[n] # {}
  /\ valid' = [valid EXCEPT ![n] = IF Suits(n) THEN "True" ELSE "False"]
  /\ \E given \in BOOLEAN :
       /\ Suits(n) => given
       /\ given => ready[n] \/ Suits(n)
       /\ ready' = [ready EXCEPT ![n] = given]
  /\ UNCHANGED <<region, open>>

Next == Learn \/ \E n \in ClassNames : Put(n) \/ Delete(n) \/ Judge(n)

Spec == Init /\ [][Next]_ledger

=============================================================================
