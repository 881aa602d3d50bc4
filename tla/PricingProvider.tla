--------------------------- MODULE PricingProvider ---------------------------
(***************************************************************************)
(* pkg/providers/pricing: hourly prices of droplet sizes, read once, when  *)
(* the operator is made; and DigitalOcean's catalogue of sizes (external), *)
(* which the prices and the instance types are read from at other times.   *)
(***************************************************************************)
EXTENDS Naturals, Sequences

CONSTANTS
  Sizes,      \* slugs of droplet sizes
  Regions,    \* slugs of regions
  Offers,     \* what the catalogue may say of a size
  MaxChanges  \* a bound on the changes of the catalogue

(* accepted: the Kubernetes options list the size.  The rest is what the   *)
(* Sizes API says of it.                                                   *)
Offer == [accepted : BOOLEAN, available : BOOLEAN,
          regions : SUBSET Regions, price : Nat \ {0}]

ASSUME PricingAssumption == Offers \subseteq Offer /\ MaxChanges \in Nat

VARIABLES
  history,  \* the catalogues since the process started; the last one holds
  prices    \* the map p.prices

pricingVars == <<history, prices>>

-----------------------------------------------------------------------------

Catalogue == [Sizes -> Offers]

Now == history[Len(history)]

(* DigitalOcean's doing. *)
ChangeOffer(s) ==
  /\ Len(history) <= MaxChanges
  /\ \E o \in Offers \ {Now[s]} : history' = Append(history, [Now EXCEPT ![s] = o])
  /\ UNCHANGED prices

-----------------------------------------------------------------------------

Keys(catalogue) == {k \in Sizes \X Regions : k[2] \in catalogue[k[1]].regions}

(* Mutant: the region is left out of the key, as prices are uniform. *)
PricesBySize(catalogue) == [s \in Sizes |-> catalogue[s].price]

(* Sizes that are not available have prices too. *)
PricesOf(catalogue) == [k \in Keys(catalogue) |-> catalogue[k[1]].price]

NoPrices == [k \in {} |-> 0]

(* A failure leaves the empty map and is only logged. *)
LivePricing(catalogue) == {PricesOf(catalogue), NoPrices}

PricingInit ==
  /\ history \in {<<catalogue>> : catalogue \in Catalogue}
  /\ prices \in LivePricing(Now)

HasPrice(s, r) == <<s, r>> \in DOMAIN prices

InstanceTypePrice(s, r) == prices[<<s, r>>]

=============================================================================
