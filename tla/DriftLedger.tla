----------------------------- MODULE DriftLedger -----------------------------
(***************************************************************************)
(* Drift as an implementation of NodeClassLedger.                          *)
(***************************************************************************)
EXTENDS Drift

ClassLedger == INSTANCE NodeClassLedger WITH
  region <- [n \in ClassNames |-> IF classes[n].exists THEN {classes[n].region} ELSE {}],
  valid  <- [n \in ClassNames |-> classes[n].validRegion.status],
  ready  <- [n \in ClassNames |-> classes[n].ready.status = "True"],
  open   <- {r \in Regions : known[r] = "up"}

(* However old the copy a verdict was computed from, whatever update is    *)
(* refused and whenever the process is started again, the status of a      *)
(* class moves as if it were judged in one step by what it says then: each *)
(* write is a judgement of the object it is written to, of both conditions *)
(* together, Ready is given only to a class that suits then, and one that  *)
(* is made again has nothing left of what was there before.                *)
KeepsClassLedger == ClassLedger!Spec

=============================================================================
