--------------------------- MODULE RegionProvider ---------------------------
(***************************************************************************)
(* pkg/providers/region: DigitalOcean's regions, read once and cached for  *)
(* the life of the process.  Only the node class controller asks, on one   *)
(* goroutine, so a question and the fetch it may need are one step.        *)
(***************************************************************************)
EXTENDS Naturals

CONSTANT Regions  \* region slugs, also ones DigitalOcean does not list

VARIABLES
  offered,  \* what the Regions API answers: a region may come, go or be down
  known     \* the map p.regions

regionVars == <<offered, known>>

-----------------------------------------------------------------------------

Listing == [Regions -> {"unlisted", "down", "up"}]

NothingKnown == [r \in Regions |-> "unlisted"]

RegionInit == offered \in Listing /\ known = NothingKnown

Populated == \E r \in Regions : known[r] # "unlisted"

(* List: the API is asked only as long as the map is empty. *)
List(failed) ==
  \/ ~Populated /\ ~failed /\ known' = offered
  \/ /\ Populated \/ failed
     /\ known' = known

IsAvailable(region, available, failed) ==
  /\ \/ known[region] # "unlisted" /\ known' = known
     \/ known[region] = "unlisted" /\ List(failed)
  /\ available = (known'[region] = "up")

(* DigitalOcean's doing. *)
ChangeOffer(r, listing) ==
  /\ offered[r] # listing
  /\ offered' = [offered EXCEPT ![r] = listing]
  /\ UNCHANGED known

=============================================================================
