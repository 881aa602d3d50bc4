------------------------------ MODULE MCLaunch ------------------------------
EXTENDS Launch

(* Refused by DOKS; in the cluster's region; elsewhere; sold out. *)
MCOffers ==
  {[accepted |-> FALSE, available |-> TRUE,  regions |-> {"nyc1", "sfo3"}, price |-> 1],
   [accepted |-> TRUE,  available |-> TRUE,  regions |-> {"nyc1"},         price |-> 2],
   [accepted |-> TRUE,  available |-> TRUE,  regions |-> {"sfo3"},         price |-> 1],
   [accepted |-> TRUE,  available |-> FALSE, regions |-> {},               price |-> 2]}

(* A small size and a large one. *)
MCCpu    == [s \in Sizes |-> IF s = "small" THEN 1 ELSE 2]
MCMemory == [s \in Sizes |-> IF s = "small" THEN 2 ELSE 1]

=============================================================================
