------------------------ MODULE InstanceTypeProvider ------------------------
(***************************************************************************)
(* pkg/providers/instancetype: DigitalOcean's sizes as Karpenter's         *)
(* instance types, cached for the life of the process.  Karpenter's        *)
(* provisioning, disruption and lifecycle controllers call List, each on   *)
(* goroutines of its own.  The cache is looked at under the read lock and  *)
(* filled under the write lock, with two API calls and no lock between.    *)
(***************************************************************************)
EXTENDS PricingProvider

CONSTANT Callers  \* the goroutines that call List

VARIABLES
  cache,  \* p.cache
  lists   \* for each caller, its call of List

typesVars == <<pricingVars, cache, lists>>

-----------------------------------------------------------------------------

(* The zero value of a slice is nil, and an append makes it another. *)
Slice(types) == [nil |-> types = {}, types |-> types]

Nil == Slice({})

(* slugs: the sizes that DOKS accepts.  result: what is to be stored, and  *)
(* then what is returned.                                                  *)
Idle == [pc |-> "idle", region |-> CHOOSE r \in Regions : TRUE,
         slugs |-> {}, result |-> {}]

TypesInit ==
  /\ PricingInit
  /\ cache = Nil
  /\ lists = [w \in Callers |-> Idle]

-----------------------------------------------------------------------------

ByRegion(types, region) == {t \in types : region \in DOMAIN t.offerings}

(* The types of a node class are asked for, by the class's region. *)
Begin(w, region) ==
  /\ lists[w].pc \in {"idle", "answered"}
  /\ lists' = [lists EXCEPT ![w] =
                 IF cache.nil
                 THEN [Idle EXCEPT !.pc = "options", !.region = region]
                 ELSE [Idle EXCEPT !.pc = "answered", !.region = region,
                                   !.result = ByRegion(cache.types, region)]]
  /\ UNCHANGED <<pricingVars, cache>>

(* Either API call may fail, and List then returns its error. *)
FailCall(w) ==
  /\ lists[w].pc \in {"options", "sizes"}
  /\ lists' = [lists EXCEPT ![w] = Idle]
  /\ UNCHANGED <<pricingVars, cache>>

GetOptions(w) ==
  /\ lists[w].pc = "options"
  /\ lists' = [lists EXCEPT ![w].pc = "sizes",
                            ![w].slugs = {s \in Sizes : Now[s].accepted}]
  /\ UNCHANGED <<pricingVars, cache>>

(* Mutant: the answer "no price" is not looked at. *)
ZeroPrice(s, r) == IF HasPrice(s, r) THEN InstanceTypePrice(s, r) ELSE 0

(* The price of the pricing provider, else the one just read. *)
OfferingPrice(s, r) == IF HasPrice(s, r) THEN InstanceTypePrice(s, r) ELSE Now[s].price

(* One offering, with its price, for each of the size's regions. *)
SizeToInstanceType(s) ==
  [name |-> s, offerings |-> [r \in Now[s].regions |-> OfferingPrice(s, r)]]

ListSizes(w) ==
  /\ lists[w].pc = "sizes"
  /\ lists' = [lists EXCEPT
       ![w].pc = "store",
       ![w].result = {SizeToInstanceType(s) :
                        s \in {x \in lists[w].slugs : Now[x].available}}]
  /\ UNCHANGED <<pricingVars, cache>>

(* Mutants: appended to what another call has stored; a slice that is made *)
(* with make and is not nil when it is empty.                              *)
Appended(types) == Slice(cache.types \cup types)
MadeSlice(types) == [nil |-> FALSE, types |-> types]

(* Whatever another call has stored meanwhile is replaced. *)
Stored(types) == Slice(types)

Store(w) ==
  /\ lists[w].pc = "store"
  /\ cache' = Stored(lists[w].result)
  /\ lists' = [lists EXCEPT ![w] =
                 [Idle EXCEPT !.pc = "answered", !.region = lists[w].region,
                              !.result = ByRegion(lists[w].result, lists[w].region)]]
  /\ UNCHANGED pricingVars

ListStep(w) == FailCall(w) \/ GetOptions(w) \/ ListSizes(w) \/ Store(w)

Change ==
  /\ \E s \in Sizes : ChangeOffer(s)
  /\ UNCHANGED <<cache, lists>>

-----------------------------------------------------------------------------

IsType(t) ==
  /\ t.name \in Sizes
  /\ DOMAIN t.offerings \subseteq Regions
  /\ t.offerings \in [DOMAIN t.offerings -> Nat]

(* The types are well formed, in the cache and in every call. *)
TypesOK ==
  /\ history \in Seq(Catalogue)
  /\ DOMAIN prices \subseteq Sizes \X Regions
  /\ \A k \in DOMAIN prices : prices[k] \in Nat
  /\ cache.nil \in BOOLEAN /\ \A t \in cache.types : IsType(t)
  /\ \A w \in Callers :
       /\ lists[w].pc \in {"idle", "options", "sizes", "store", "answered"}
       /\ lists[w].region \in Regions
       /\ lists[w].slugs \subseteq Sizes
       /\ \A t \in lists[w].result : IsType(t)

Versions == DOMAIN history

(* The names and regions of what could be bought in the region by the      *)
(* options of version u and the sizes of version v.                        *)
Offered(region, u, v) ==
  {<<s, history[v][s].regions>> :
     s \in {x \in Sizes : /\ history[u][x].accepted
                          /\ history[v][x].available
                          /\ region \in history[v][x].regions}}

(* A list that was returned is what one reading of the catalogue gives,    *)
(* options first: never a mix of what two calls read, however they fill    *)
(* the cache side by side.                                                 *)
AnswerIsOneReading ==
  \A w \in Callers : lists[w].pc = "answered" =>
    \E u, v \in Versions :
      /\ u <= v
      /\ {<<t.name, DOMAIN t.offerings>> : t \in lists[w].result}
           = Offered(lists[w].region, u, v)

(* Each price in a list was the catalogue's price of that size at some     *)
(* time, with prices and without, so none is made up, not even when the    *)
(* prices could not be read at the start or a region has come since.       *)
NoPriceIsMadeUp ==
  \A w \in Callers : \A t \in lists[w].result : \A r \in DOMAIN t.offerings :
    \E v \in Versions : history[v][t.name].price = t.offerings[r]

=============================================================================
