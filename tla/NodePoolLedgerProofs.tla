------------------------ MODULE NodePoolLedgerProofs ------------------------
(***************************************************************************)
(* What follows from the ledger alone, and so for everything that keeps    *)
(* it: the accounts are sound at any time.                                 *)
(***************************************************************************)
EXTENDS NodePoolLedger, TLAPS

(* None names neither a claim nor a pool. *)
NamesDiffer == None \notin Claims /\ None \notin Pools

Types ==
  /\ stage \in [Pools -> {"absent", "up", "deleting", "gone"}]
  /\ owner \in [Pools -> Claims \cup {None}]
  /\ phase \in [Claims -> {"absent", "live", "deleting", "gone"}]
  /\ bound \in [Claims -> Pools \cup {None}]
  /\ settled \subseteq Claims

(* A pool that was never rented is nobody's. *)
OwnedOnceRented == \A p \in Pools : stage[p] = "absent" => owner[p] = None

(* A claim's pool was made for it, so that no two claims share one. *)
BoundToOwn == \A c \in Claims : bound[c] # None => owner[bound[c]] = c

(* A settled claim stands, and its node runs. *)
SettledIsServed ==
  \A c \in settled :
    phase[c] = "live" /\ bound[c] \in Pools /\ stage[bound[c]] = "up"

(* Nothing runs for a claim that has been finalized with a node. *)
GoneAfterPool ==
  \A c \in Claims : phase[c] = "gone" /\ bound[c] # None => stage[bound[c]] = "gone"

Sound == Types /\ OwnedOnceRented /\ BoundToOwn /\ SettledIsServed /\ GoneAfterPool

-----------------------------------------------------------------------------
(* Each step keeps the accounts. *)

LEMMA SoundAtFirst ==
  ASSUME NamesDiffer, Init PROVE Sound
BY DEF NamesDiffer, Init, Sound, Types, OwnedOnceRented, BoundToOwn, SettledIsServed, GoneAfterPool

LEMMA DemandKeepsSound ==
  ASSUME Sound, NEW c \in Claims, Open(c) \/ RequestDelete(c) PROVE Sound'
BY DEF Open, RequestDelete, Sound, Types, OwnedOnceRented, BoundToOwn, SettledIsServed, GoneAfterPool

(* A pool that is new is nobody's provider ID. *)
LEMMA RentKeepsSound ==
  ASSUME NamesDiffer, Sound, NEW c \in Claims, NEW p \in Pools, Rent(c, p) PROVE Sound'
<1>1. Types'
  BY DEF Rent, Sound, Types
<1>2. \A d \in Claims : bound[d] # p
  BY DEF NamesDiffer, Rent, Sound, Types, OwnedOnceRented, BoundToOwn
<1>3. \A q \in Pools : q # p => stage'[q] = stage[q] /\ owner'[q] = owner[q]
  BY DEF Rent, Sound, Types
<1>4. stage'[p] = "up" /\ owner'[p] = c
  BY DEF Rent, Sound, Types
<1>5. UNCHANGED <<phase, bound, settled>>
  BY DEF Rent
<1> QED BY <1>1, <1>2, <1>3, <1>4, <1>5
        DEF Sound, Types, OwnedOnceRented, BoundToOwn, SettledIsServed, GoneAfterPool

LEMMA BindKeepsSound ==
  ASSUME NamesDiffer, Sound, NEW c \in Claims, NEW p \in Pools, Bind(c, p) PROVE Sound'
<1>1. c \notin settled
  BY DEF Bind, Sound, SettledIsServed, NamesDiffer
<1>2. phase[c] # "gone"
  BY DEF Bind, HasFinalizer
<1> QED BY <1>1, <1>2
        DEF Bind, Sound, Types, OwnedOnceRented, BoundToOwn, SettledIsServed, GoneAfterPool

LEMMA SettleKeepsSound ==
  ASSUME Sound, Settle PROVE Sound'
<1>1. settled' \subseteq Claims /\ SettledIsServed'
  BY DEF Settle, Sound, Types, SettledIsServed
<1> QED BY <1>1 DEF Settle, Sound, Types, OwnedOnceRented, BoundToOwn, GoneAfterPool

LEMMA GivingBackKeepsSound ==
  ASSUME Sound, NEW p \in Pools, GiveBack(p) \/ Remove(p) PROVE Sound'
BY DEF GiveBack, Remove, Sound, Types, OwnedOnceRented, BoundToOwn, SettledIsServed, GoneAfterPool

LEMMA FinalizeKeepsSound ==
  ASSUME Sound, NEW c \in Claims, Finalize(c) PROVE Sound'
BY DEF Finalize, Sound, Types, OwnedOnceRented, BoundToOwn, SettledIsServed, GoneAfterPool

LEMMA StepKeepsSound ==
  ASSUME NamesDiffer, Sound, [Next]_ledger PROVE Sound'
<1>1. CASE UNCHANGED ledger
  BY <1>1 DEF ledger, Sound, Types, OwnedOnceRented, BoundToOwn, SettledIsServed, GoneAfterPool
<1>2. CASE Next
  BY <1>2, DemandKeepsSound, RentKeepsSound, BindKeepsSound, SettleKeepsSound,
     GivingBackKeepsSound, FinalizeKeepsSound DEF Next
<1> QED BY <1>1, <1>2

(* The accounts are sound: every claim is bound to a pool that was made    *)
(* for it, a settled claim's node runs, and a claim that is gone has left  *)
(* no pool behind, for all claims and pools.                               *)
THEOREM LedgerIsSound ==
  ASSUME NamesDiffer PROVE Spec => []Sound
<1>1. Init => Sound
  BY SoundAtFirst
<1>2. Sound /\ [Next]_ledger => Sound'
  BY StepKeepsSound
<1> QED BY <1>1, <1>2, PTL DEF Spec

SettledIsKept ==
  \A c \in settled : c \in settled' \/ phase'[c] = "deleting"

(* A claim that is settled is so, and its node runs, until its deletion is *)
(* asked for: no other claim, and nobody who gives pools back, ends that.  *)
THEOREM SettledClaimsAreKept ==
  ASSUME NamesDiffer PROVE Spec => [][SettledIsKept]_ledger
<1>1. Sound /\ [Next]_ledger => [SettledIsKept]_ledger
  BY DEF Sound, Types, Next, Open, RequestDelete, Rent, Bind, Settle, GiveBack, Remove, Finalize,
         SettledIsKept, ledger
<1> QED BY LedgerIsSound, <1>1, PTL DEF Spec

=============================================================================
