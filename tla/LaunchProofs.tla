---------------------------- MODULE LaunchProofs ----------------------------
(***************************************************************************)
(* Proofs, for all values of the constants, of the safety of Launch: of    *)
(* the lists of instance types, whatever number of callers overlap, and of *)
(* what is bought from them.                                               *)
(***************************************************************************)
EXTENDS Launch, TLAPS

-----------------------------------------------------------------------------
(* The inductive invariant.  A version of the catalogue is a number.       *)

Accepted(u, s)  == history[u][s].accepted
Available(v, s) == history[v][s].available

(* t was made from version v of the sizes and version u of the options.    *)
MadeAt(t, u, v) ==
  /\ t.name \in Sizes /\ Accepted(u, t.name) /\ Available(v, t.name)
  /\ DOMAIN t.offerings = history[v][t.name].regions

(* All that could be had was. *)
ReadAs(types, u, v) ==
  /\ \A t \in types : MadeAt(t, u, v)
  /\ \A s \in Sizes : Accepted(u, s) /\ Available(v, s) => \E t \in types : t.name = s

WasRead(types) == \E u, v \in Versions : u <= v /\ ReadAs(types, u, v)

AnsweredAs(types, region, u, v) ==
  /\ \A t \in types : MadeAt(t, u, v) /\ region \in DOMAIN t.offerings
  /\ \A s \in Sizes :
       Accepted(u, s) /\ Available(v, s) /\ region \in history[v][s].regions
         => \E t \in types : t.name = s

WasAnswered(types, region) ==
  \E u, v \in Versions : u <= v /\ AnsweredAs(types, region, u, v)

SlugsWereRead(slugs) ==
  \E u \in Versions : slugs = {s \in Sizes : Accepted(u, s)}

WasPrice(s, price) == \E v \in Versions : history[v][s].price = price

Priced(t) == \A r \in DOMAIN t.offerings : WasPrice(t.name, t.offerings[r])

PricesInv == \A k \in DOMAIN prices : WasPrice(k[1], prices[k])

CacheInv ==
  /\ cache.nil \/ WasRead(cache.types)
  /\ \A t \in cache.types : Priced(t)

ListInv(w) ==
  /\ lists[w].pc = "sizes" => SlugsWereRead(lists[w].slugs)
  /\ lists[w].pc = "store" => WasRead(lists[w].result)
  /\ lists[w].pc = "answered" => WasAnswered(lists[w].result, lists[w].region)
  /\ \A t \in lists[w].result : Priced(t)

TypesInv ==
  /\ TypesOK
  /\ history # <<>> /\ DOMAIN lists = Callers
  /\ PricesInv /\ CacheInv
  /\ \A w \in Callers : ListInv(w)

ClaimInv ==
  /\ claim \in Claim
  /\ claim.phase = "pending" => ~claim.required
  /\ claim.phase \in {"scheduled", "refused"} /\ claim.required =>
       \A s \in claim.allowed : Cpu[s] >= claim.demand
  /\ PodsFit

-----------------------------------------------------------------------------
(* The catalogue. *)

LEMMA NowIsCatalogue ==
  ASSUME TypesInv
  PROVE  /\ Len(history) \in Versions
         /\ Now \in Catalogue
         /\ \A s \in Sizes : Now[s] \in Offer
         /\ \A u \in Versions : u <= Len(history)
<1>1. history \in Seq(Catalogue) /\ history # <<>>
  BY DEF TypesInv, TypesOK
<1>2. Len(history) \in Nat /\ Len(history) # 0 /\ Versions = 1..Len(history)
  BY <1>1 DEF Versions
<1>3. Now \in Catalogue
  BY <1>1, <1>2 DEF Now
<1> QED BY <1>2, <1>3, PricingAssumption DEF Catalogue

(* What was read stays what was read when the catalogue changes. *)
LEMMA HistoryKeeps ==
  ASSUME TypesInv, NEW s \in Sizes, ChangeOffer(s)
  PROVE  /\ history' \in Seq(Catalogue) /\ history' # <<>>
         /\ \A v \in Versions : v \in Versions' /\ history'[v] = history[v]
<1>1. PICK o \in Offers : history' = Append(history, [Now EXCEPT ![s] = o])
  BY DEF ChangeOffer
<1>2. [Now EXCEPT ![s] = o] \in Catalogue
  BY NowIsCatalogue DEF Catalogue
<1>3. history \in Seq(Catalogue)
  BY DEF TypesInv, TypesOK
<1> HIDE DEF Now, Catalogue
<1>4. /\ Len(history') = Len(history) + 1
      /\ \A v \in 1..Len(history) : history'[v] = history[v]
      /\ history' \in Seq(Catalogue)
  BY <1>1, <1>2, <1>3
<1>5. Versions = 1..Len(history) /\ Versions' = 1..Len(history')
  BY <1>3, <1>4 DEF Versions
<1>6. history' # <<>>
  BY <1>3, <1>4
<1> QED BY <1>3, <1>4, <1>5, <1>6

LEMMA ChangeKeeps ==
  ASSUME TypesInv, Change
  PROVE  TypesInv'
<1>1. PICK s \in Sizes : ChangeOffer(s)
  BY DEF Change
<1>2. UNCHANGED <<prices, cache, lists>>
  BY <1>1 DEF Change, ChangeOffer
<1>3. /\ history' \in Seq(Catalogue) /\ history' # <<>>
      /\ \A v \in Versions : v \in Versions' /\ history'[v] = history[v]
  BY <1>1, HistoryKeeps
<1>4. TypesOK'
  BY <1>2, <1>3 DEF TypesInv, TypesOK, IsType
<1>5. \A x, price : WasPrice(x, price) => WasPrice(x, price)'
  BY <1>3 DEF WasPrice
<1>6. \A t : Priced(t) => Priced(t)'
  BY <1>5 DEF Priced
<1>7. PricesInv'
  BY <1>2, <1>5 DEF TypesInv, PricesInv
<1>8. \A types : WasRead(types) => WasRead(types)'
  BY <1>3 DEF WasRead, ReadAs, MadeAt, Accepted, Available
<1>9. \A types, region : WasAnswered(types, region) => WasAnswered(types, region)'
  BY <1>3 DEF WasAnswered, AnsweredAs, MadeAt, Accepted, Available
<1>10. \A slugs : SlugsWereRead(slugs) => SlugsWereRead(slugs)'
  BY <1>3 DEF SlugsWereRead, Accepted
<1>11. CacheInv'
  BY <1>2, <1>6, <1>8 DEF TypesInv, CacheInv
<1>12. \A w \in Callers : ListInv(w)'
  BY <1>2, <1>6, <1>8, <1>9, <1>10 DEF TypesInv, ListInv
<1> QED BY <1>2, <1>3, <1>4, <1>7, <1>11, <1>12 DEF TypesInv

-----------------------------------------------------------------------------
(* The steps of List. *)

IsList(call) ==
  /\ call.pc \in {"idle", "options", "sizes", "store", "answered"}
  /\ call.region \in Regions
  /\ call.slugs \subseteq Sizes
  /\ \A t \in call.result : IsType(t)

LEMMA IdleIsList ==
  /\ \A region \in Regions : IsList([Idle EXCEPT !.pc = "options", !.region = region])
  /\ IsList(Idle) /\ Idle.pc = "idle" /\ Idle.result = {} /\ Idle.slugs = {}
<1>1. (CHOOSE r \in Regions : TRUE) \in Regions
  BY LaunchAssumption
<1> QED BY <1>1 DEF Idle, IsList

(* A step on the call of one caller alone. *)
LEMMA OneList ==
  ASSUME TypesInv, NEW w \in Callers, NEW call, IsList(call),
         lists' = [lists EXCEPT ![w] = call],
         UNCHANGED pricingVars,
         cache'.nil \in BOOLEAN, \A t \in cache'.types : IsType(t),
         CacheInv', ListInv(w)'
  PROVE  TypesInv'
<1>1. history' = history /\ prices' = prices
  BY DEF pricingVars
<1>2. DOMAIN lists' = Callers /\ \A x \in Callers : lists'[x] = IF x = w THEN call ELSE lists[x]
  BY DEF TypesInv
<1>3. \A x \in Callers : IsList(lists'[x])
  BY <1>2 DEF TypesInv, TypesOK, IsList
<1>4. TypesOK'
  BY <1>1, <1>3 DEF TypesInv, TypesOK, IsList, IsType
<1>5. PricesInv'
  BY <1>1 DEF TypesInv, PricesInv, WasPrice, Versions
<1>6. ASSUME NEW x \in Callers, x # w PROVE ListInv(x)'
  <2>1. lists'[x] = lists[x]
    BY <1>2, <1>6
  <2> QED BY <1>1, <2>1 DEF TypesInv, ListInv, SlugsWereRead, WasRead, ReadAs, WasAnswered,
             AnsweredAs, MadeAt, Accepted, Available, Priced, WasPrice, Versions
<1> QED BY <1>1, <1>2, <1>4, <1>5, <1>6 DEF TypesInv

(* A call that ends without an answer. *)
LEMMA IdleKeeps ==
  ASSUME TypesInv, NEW w \in Callers, lists' = [lists EXCEPT ![w] = Idle],
         UNCHANGED <<pricingVars, cache>>
  PROVE  TypesInv'
<1>1. lists'[w] = Idle
  BY DEF TypesInv
<1>2. ListInv(w)'
  BY <1>1, IdleIsList DEF ListInv
<1>3. CacheInv'
  BY DEF TypesInv, CacheInv, WasRead, ReadAs, MadeAt, Accepted, Available, Priced, WasPrice,
         Versions, pricingVars
<1>4. cache'.nil \in BOOLEAN /\ \A t \in cache'.types : IsType(t)
  BY DEF TypesInv, TypesOK
<1> QED BY <1>2, <1>3, <1>4, IdleIsList, OneList

LEMMA ReadingAnswers ==
  ASSUME NEW types, NEW region, WasRead(types)
  PROVE  WasAnswered(ByRegion(types, region), region)
BY DEF WasRead, ReadAs, WasAnswered, AnsweredAs, MadeAt, ByRegion

LEMMA CacheKept ==
  ASSUME TypesInv, UNCHANGED <<pricingVars, cache>>
  PROVE  CacheInv' /\ cache'.nil \in BOOLEAN /\ \A t \in cache'.types : IsType(t)
BY DEF TypesInv, TypesOK, CacheInv, WasRead, ReadAs, MadeAt, Accepted, Available, Priced,
       WasPrice, Versions, pricingVars

LEMMA BeginKeeps ==
  ASSUME TypesInv, NEW w \in Callers, NEW region \in Regions, Begin(w, region)
  PROVE  TypesInv'
<1>0. UNCHANGED <<pricingVars, cache>>
  BY DEF Begin
<1>1. CASE cache.nil
  <2> DEFINE call == [Idle EXCEPT !.pc = "options", !.region = region]
  <2>1. lists' = [lists EXCEPT ![w] = call]
    BY <1>1 DEF Begin
  <2>2. IsList(call) /\ call.pc = "options" /\ call.result = {}
    BY IdleIsList DEF Idle
  <2> HIDE DEF call
  <2>3. ListInv(w)'
    BY <2>1, <2>2 DEF TypesInv, ListInv
  <2> QED BY <1>0, <2>1, <2>2, <2>3, CacheKept, OneList
<1>2. CASE ~cache.nil
  <2> DEFINE result == ByRegion(cache.types, region)
             call == [Idle EXCEPT !.pc = "answered", !.region = region, !.result = result]
  <2>1. lists' = [lists EXCEPT ![w] = call]
    BY <1>2 DEF Begin
  <2>2. WasAnswered(result, region)
    BY <1>2, ReadingAnswers DEF TypesInv, CacheInv
  <2>3. \A t \in result : IsType(t) /\ Priced(t)
    BY DEF ByRegion, TypesInv, TypesOK, CacheInv
  <2> HIDE DEF result
  <2>4. IsList(call) /\ call.pc = "answered" /\ call.result = result /\ call.region = region
    BY <2>3 DEF Idle, IsList
  <2> HIDE DEF call
  <2>5. lists'[w] = call
    BY <2>1 DEF TypesInv
  <2>6. ListInv(w)'
    BY <1>0, <2>2, <2>3, <2>4, <2>5
       DEF ListInv, WasAnswered, AnsweredAs, MadeAt, Accepted, Available, Priced, WasPrice,
           Versions, pricingVars
  <2> QED BY <1>0, <2>1, <2>4, <2>6, CacheKept, OneList
<1> QED BY <1>1, <1>2

LEMMA GetOptionsKeeps ==
  ASSUME TypesInv, NEW w \in Callers, GetOptions(w)
  PROVE  TypesInv'
<1> DEFINE slugs == {s \in Sizes : Now[s].accepted}
           call  == [lists[w] EXCEPT !.pc = "sizes", !.slugs = slugs]
<1>1. UNCHANGED <<pricingVars, cache>> /\ lists' = [lists EXCEPT ![w] = call]
  BY DEF GetOptions
<1>2. SlugsWereRead(slugs)
  BY NowIsCatalogue DEF SlugsWereRead, Accepted, Now
<1>3. slugs \subseteq Sizes
  OBVIOUS
<1> HIDE DEF slugs
<1>4. IsList(call) /\ call.pc = "sizes" /\ call.slugs = slugs /\ call.result = lists[w].result
  BY <1>3 DEF IsList, TypesInv, TypesOK
<1> HIDE DEF call
<1>5. lists'[w] = call
  BY <1>1 DEF TypesInv
<1>6. ListInv(w)'
  BY <1>1, <1>2, <1>4, <1>5
     DEF TypesInv, ListInv, SlugsWereRead, Accepted, Priced, WasPrice, Versions, pricingVars
<1> QED BY <1>1, <1>4, <1>6, CacheKept, OneList

(* A size becomes a type with the regions it has now and with prices that  *)
(* were the catalogue's.                                                   *)
LEMMA SizeIsType ==
  ASSUME TypesInv, NEW s \in Sizes
  PROVE  /\ IsType(SizeToInstanceType(s))
         /\ Priced(SizeToInstanceType(s))
         /\ SizeToInstanceType(s).name = s
         /\ DOMAIN SizeToInstanceType(s).offerings = history[Len(history)][s].regions
<1>1. Now[s] \in Offer /\ Now[s].regions \subseteq Regions /\ Now[s].price \in Nat
  BY NowIsCatalogue DEF Offer
<1>2. \A r \in Now[s].regions : OfferingPrice(s, r) \in Nat /\ WasPrice(s, OfferingPrice(s, r))
  <2> SUFFICES ASSUME NEW r \in Now[s].regions
               PROVE  OfferingPrice(s, r) \in Nat /\ WasPrice(s, OfferingPrice(s, r))
    OBVIOUS
  <2>1. CASE HasPrice(s, r)
    <3>1. <<s, r>> \in DOMAIN prices
      BY <2>1 DEF HasPrice
    <3>2. prices[<<s, r>>] \in Nat /\ WasPrice(s, prices[<<s, r>>])
      BY <3>1 DEF TypesInv, TypesOK, PricesInv
    <3> QED BY <2>1, <3>2 DEF OfferingPrice, InstanceTypePrice
  <2>2. CASE ~HasPrice(s, r)
    BY <1>1, <2>2, NowIsCatalogue DEF OfferingPrice, WasPrice, Now
  <2> QED BY <2>1, <2>2
<1>3. /\ SizeToInstanceType(s).name = s
      /\ SizeToInstanceType(s).offerings = [r \in Now[s].regions |-> OfferingPrice(s, r)]
  BY DEF SizeToInstanceType
<1> QED BY <1>1, <1>2, <1>3 DEF IsType, Priced, Now

LEMMA ListSizesKeeps ==
  ASSUME TypesInv, NEW w \in Callers, ListSizes(w)
  PROVE  TypesInv'
<1> DEFINE result == {SizeToInstanceType(s) : s \in {x \in lists[w].slugs : Now[x].available}}
           call   == [lists[w] EXCEPT !.pc = "store", !.result = result]
<1>1. UNCHANGED <<pricingVars, cache>> /\ lists' = [lists EXCEPT ![w] = call]
  BY DEF ListSizes
<1>2. lists[w].slugs \subseteq Sizes
  BY DEF TypesInv, TypesOK
<1>3. \A t \in result : IsType(t) /\ Priced(t)
  BY <1>2, SizeIsType
<1>4. WasRead(result)
  <2>1. PICK u \in Versions : lists[w].slugs = {s \in Sizes : Accepted(u, s)}
    BY DEF ListSizes, TypesInv, ListInv, SlugsWereRead
  <2>2. Len(history) \in Versions /\ u <= Len(history)
    BY NowIsCatalogue
  <2>3. \A s \in Sizes : s \in lists[w].slugs <=> Accepted(u, s)
    BY <2>1
  <2>4. \A s \in Sizes : Now[s].available <=> Available(Len(history), s)
    BY DEF Now, Available
  <2>5. \A t \in result : MadeAt(t, u, Len(history))
    <3> SUFFICES ASSUME NEW s \in {x \in lists[w].slugs : Now[x].available}
                 PROVE  MadeAt(SizeToInstanceType(s), u, Len(history))
      OBVIOUS
    <3> QED BY <1>2, <2>3, <2>4, SizeIsType DEF MadeAt
  <2>6. ASSUME NEW s \in Sizes, Accepted(u, s), Available(Len(history), s)
        PROVE  \E t \in result : t.name = s
    <3>1. SizeToInstanceType(s) \in result /\ SizeToInstanceType(s).name = s
      BY <2>3, <2>4, <2>6, SizeIsType
    <3> QED BY <3>1
  <2> HIDE DEF result
  <2> QED BY <2>2, <2>5, <2>6 DEF WasRead, ReadAs
<1> HIDE DEF result
<1>5. IsList(call) /\ call.pc = "store" /\ call.result = result
  BY <1>3 DEF IsList, TypesInv, TypesOK
<1> HIDE DEF call
<1>6. lists'[w] = call
  BY <1>1 DEF TypesInv
<1>7. ListInv(w)'
  BY <1>1, <1>3, <1>4, <1>5, <1>6
     DEF ListInv, WasRead, ReadAs, MadeAt, Accepted, Available, Priced, WasPrice, Versions,
         pricingVars
<1> QED BY <1>1, <1>5, <1>7, CacheKept, OneList

LEMMA StoreKeeps ==
  ASSUME TypesInv, NEW w \in Callers, Store(w)
  PROVE  TypesInv'
<1> DEFINE types  == lists[w].result
           region == lists[w].region
           result == ByRegion(types, region)
           call   == [Idle EXCEPT !.pc = "answered", !.region = region, !.result = result]
<1>1. /\ UNCHANGED pricingVars
      /\ lists' = [lists EXCEPT ![w] = call]
      /\ cache' = [nil |-> types = {}, types |-> types]
  BY DEF Store, Stored, Slice
<1>2. WasRead(types) /\ region \in Regions /\ \A t \in types : IsType(t) /\ Priced(t)
  BY DEF Store, TypesInv, TypesOK, ListInv
<1> HIDE DEF types, region
<1>3. WasAnswered(result, region) /\ result \subseteq types
  BY <1>2, ReadingAnswers DEF ByRegion
<1>4. CacheInv' /\ cache'.nil \in BOOLEAN /\ \A t \in cache'.types : IsType(t)
  BY <1>1, <1>2 DEF CacheInv, WasRead, ReadAs, MadeAt, Accepted, Available, Priced, WasPrice,
                    Versions, pricingVars
<1> HIDE DEF result
<1>5. IsList(call) /\ call.pc = "answered" /\ call.result = result /\ call.region = region
  BY <1>2, <1>3 DEF Idle, IsList
<1> HIDE DEF call
<1>6. lists'[w] = call
  BY <1>1 DEF TypesInv
<1>7. ListInv(w)'
  BY <1>1, <1>2, <1>3, <1>5, <1>6
     DEF ListInv, WasAnswered, AnsweredAs, MadeAt, Accepted, Available, Priced, WasPrice,
         Versions, pricingVars
<1> QED BY <1>1, <1>4, <1>5, <1>7, OneList

LEMMA ListStepKeeps ==
  ASSUME TypesInv, NEW w \in Callers, ListStep(w)
  PROVE  TypesInv'
BY IdleKeeps, GetOptionsKeeps, ListSizesKeeps, StoreKeeps DEF ListStep, FailCall

-----------------------------------------------------------------------------
(* The claim. *)

LEMMA ClaimUntouched ==
  ASSUME ClaimInv, UNCHANGED claim
  PROVE  ClaimInv'
BY DEF ClaimInv, PodsFit

(* What the scheduler allows fits the pods. *)
LEMMA ScheduleKeeps ==
  ASSUME TypesInv, ClaimInv, NEW w \in Callers, Schedule(w)
  PROVE  ClaimInv'
<1> DEFINE allowed == Fitting(lists[w].result)
<1>1. allowed \subseteq Sizes /\ \A s \in allowed : Cpu[s] >= claim.demand
  BY DEF Fitting, TypesInv, TypesOK, IsType
<1> HIDE DEF allowed
<1>2. claim' = [claim EXCEPT !.phase = "scheduled", !.required = TRUE, !.allowed = allowed]
  BY DEF Schedule, allowed
<1> QED BY <1>1, <1>2 DEF ClaimInv, Claim, PodsFit

LEMMA PutClaimKeeps ==
  ASSUME ClaimInv, PutClaim
  PROVE  ClaimInv'
BY DEF PutClaim, ClaimInv, Claim, PodsFit

LEMMA ExpireKeeps ==
  ASSUME ClaimInv, Expire
  PROVE  ClaimInv'
BY DEF Expire, Pending, ClaimInv, Claim, PodsFit

(* Create buys one of the filtered types, and those the claim allows. *)
LEMMA BuyKeeps ==
  ASSUME TypesInv, ClaimInv, NEW w \in Callers, Buy(w)
  PROVE  ClaimInv'
<1>1. PICK t \in First(lists[w].result) :
        claim' = [claim EXCEPT !.phase = "launched", !.allowed = {}, !.size = t.name]
  BY DEF Buy
<1>2. /\ t \in lists[w].result
      /\ claim.required => t.name \in claim.allowed
  BY DEF First, Filtered
<1>3. t.name \in Sizes
  BY <1>2 DEF TypesInv, TypesOK, IsType
<1>4. claim.required => Cpu[t.name] >= claim.demand
  BY <1>2 DEF Buy, ClaimInv
<1> QED BY <1>1, <1>3, <1>4 DEF ClaimInv, Claim, PodsFit

LEMMA FailCreateKeeps ==
  ASSUME ClaimInv, NEW w \in Callers, FailCreate(w)
  PROVE  ClaimInv'
BY DEF FailCreate, ClaimInv, Claim, PodsFit

-----------------------------------------------------------------------------

LInv == TypesInv /\ ClaimInv

LEMMA LInvInit == Init => LInv
<1> SUFFICES ASSUME Init PROVE LInv
  OBVIOUS
<1>1. PICK catalogue \in Catalogue : history = <<catalogue>>
  BY DEF Init, TypesInit, PricingInit
<1>2. /\ history \in Seq(Catalogue) /\ history # <<>>
      /\ Versions = {1} /\ history[1] = catalogue /\ Now = catalogue
  BY <1>1 DEF Versions, Now
<1>3. \A s \in Sizes : catalogue[s] \in Offer /\ catalogue[s].price \in Nat
  BY PricingAssumption DEF Catalogue, Offer
<1>4. prices \in {PricesOf(catalogue), NoPrices}
  BY <1>2 DEF Init, TypesInit, PricingInit, LivePricing
<1>5. /\ DOMAIN prices \subseteq Sizes \X Regions
      /\ \A k \in DOMAIN prices : prices[k] = catalogue[k[1]].price /\ k[1] \in Sizes
  BY <1>4 DEF PricesOf, NoPrices, Keys
<1>6. \A w \in Callers : lists[w] = Idle /\ IsList(lists[w])
  BY IdleIsList DEF Init, TypesInit
<1>7. DOMAIN lists = Callers /\ cache.nil = TRUE /\ cache.types = {}
  BY DEF Init, TypesInit, Nil, Slice
<1>8. TypesOK
  BY <1>2, <1>3, <1>5, <1>6, <1>7 DEF TypesOK, IsList
<1>9. PricesInv
  BY <1>2, <1>5 DEF PricesInv, WasPrice
<1>10. CacheInv /\ \A w \in Callers : ListInv(w)
  BY <1>6, <1>7, IdleIsList DEF CacheInv, ListInv
<1>11. ClaimInv
  <2>1. PICK s \in Sizes : claim = Pending(Cpu[s])
    BY DEF Init
  <2> QED BY <2>1 DEF Pending, ClaimInv, Claim, PodsFit
<1> QED BY <1>2, <1>7, <1>8, <1>9, <1>10, <1>11 DEF LInv, TypesInv

LEMMA LInvStep == LInv /\ [Next]_vars => LInv'
<1> SUFFICES ASSUME LInv, [Next]_vars PROVE LInv'
  OBVIOUS
<1>1. TypesInv /\ ClaimInv
  BY DEF LInv
<1>2. CASE PutClaim \/ Expire \/ UNCHANGED vars
  <2>1. UNCHANGED typesVars
    BY <1>2 DEF PutClaim, Expire, vars
  <2>2. TypesInv'
    <3>1. TypesOK' /\ PricesInv' /\ CacheInv'
      BY <1>1, <2>1, CacheKept
         DEF typesVars, pricingVars, TypesInv, TypesOK, IsType, PricesInv, WasPrice, Versions
    <3>2. \A w \in Callers : ListInv(w)'
      BY <1>1, <2>1 DEF typesVars, pricingVars, TypesInv, ListInv, SlugsWereRead, WasRead,
           ReadAs, WasAnswered, AnsweredAs, MadeAt, Accepted, Available, Priced, WasPrice,
           Versions
    <3> QED BY <1>1, <2>1, <3>1, <3>2 DEF typesVars, pricingVars, TypesInv
  <2>3. ClaimInv'
    BY <1>1, <1>2, PutClaimKeeps, ExpireKeeps, ClaimUntouched DEF vars
  <2> QED BY <2>2, <2>3 DEF LInv
<1>3. ASSUME NEW w \in Callers, Schedule(w) \/ Buy(w) \/ FailCreate(w)
      PROVE  LInv'
  <2>1. TypesInv'
    BY <1>1, <1>3, IdleKeeps DEF Schedule, Buy, FailCreate, Used
  <2>2. ClaimInv'
    BY <1>1, <1>3, ScheduleKeeps, BuyKeeps, FailCreateKeeps
  <2> QED BY <2>1, <2>2 DEF LInv
<1>4. CASE (Change \/ \E w \in Callers : Listing(w)) /\ UNCHANGED claim
  BY <1>1, <1>4, ChangeKeeps, BeginKeeps, ListStepKeeps, ClaimUntouched, LaunchAssumption
     DEF Listing, LInv
<1> QED BY <1>2, <1>3, <1>4 DEF Next, ClaimStep

(* The invariant of calls of List, of the cache, the prices and the claim. *)
THEOREM LaunchInvariance == Spec => []LInv
BY LInvInit, LInvStep, PTL DEF Spec

(* Every variable keeps its type: pkg/providers/pricing and instancetype,  *)
(* and the claim.                                                          *)
THEOREM TypeCorrectness == Spec => []TypeOK
<1>1. LInv => TypeOK
  BY DEF LInv, TypesInv, ClaimInv, TypeOK
<1> QED BY <1>1, LaunchInvariance, PTL

(* The size that Create picks (pkg/cloudprovider) fits the claim's pods,   *)
(* however the lists of types change between scheduling and launch.        *)
THEOREM PodsAlwaysFit == Spec => []PodsFit
<1>1. LInv => PodsFit
  BY DEF LInv, ClaimInv
<1> QED BY <1>1, LaunchInvariance, PTL

(* Whatever number of calls of List (pkg/providers/instancetype) overlap,  *)
(* each answer is one reading of the catalogue.                            *)
THEOREM AnswersAreReadings == Spec => []AnswerIsOneReading
<1>1. ASSUME LInv, NEW w \in Callers, lists[w].pc = "answered"
      PROVE  \E u, v \in Versions :
               /\ u <= v
               /\ {<<t.name, DOMAIN t.offerings>> : t \in lists[w].result}
                    = Offered(lists[w].region, u, v)
  <2> DEFINE types  == lists[w].result
             region == lists[w].region
  <2>1. PICK u \in Versions, v \in Versions : u <= v /\ AnsweredAs(types, region, u, v)
    BY <1>1 DEF LInv, TypesInv, ListInv, WasAnswered
  <2> HIDE DEF types, region
  <2>2. ASSUME NEW t \in types
        PROVE  <<t.name, DOMAIN t.offerings>> \in Offered(region, u, v)
    <3>1. MadeAt(t, u, v) /\ region \in DOMAIN t.offerings
      BY <2>1, <2>2 DEF AnsweredAs
    <3> QED BY <3>1 DEF MadeAt, Accepted, Available, Offered
  <2>3. ASSUME NEW pair \in Offered(region, u, v)
        PROVE  \E t \in types : pair = <<t.name, DOMAIN t.offerings>>
    <3>1. PICK s \in Sizes : /\ pair = <<s, history[v][s].regions>>
                             /\ Accepted(u, s) /\ Available(v, s)
                             /\ region \in history[v][s].regions
      BY DEF Offered, Accepted, Available
    <3>2. PICK t \in types : t.name = s /\ MadeAt(t, u, v)
      BY <2>1, <3>1 DEF AnsweredAs
    <3> QED BY <3>1, <3>2 DEF MadeAt
  <2>4. {<<t.name, DOMAIN t.offerings>> : t \in types} = Offered(region, u, v)
    BY <2>2, <2>3
  <2> QED BY <2>1, <2>4 DEF types, region
<1>2. LInv => AnswerIsOneReading
  BY <1>1 DEF AnswerIsOneReading
<1> QED BY <1>2, LaunchInvariance, PTL

(* No price is made up by pkg/providers/pricing and instancetype. *)
THEOREM PricesAreReal == Spec => []NoPriceIsMadeUp
<1>1. LInv => NoPriceIsMadeUp
  BY DEF LInv, TypesInv, ListInv, Priced, WasPrice, NoPriceIsMadeUp
<1> QED BY <1>1, LaunchInvariance, PTL

=============================================================================
