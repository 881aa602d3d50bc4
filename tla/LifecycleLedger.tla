--------------------------- MODULE LifecycleLedger ---------------------------
(***************************************************************************)
(* Lifecycle as an implementation of NodePoolLedger.                       *)
(***************************************************************************)
EXTENDS Lifecycle

Own == PoolIDs \ ForeignPools

(* c's claim stands, the collector's cache shows its provider ID, and no   *)
(* pass under way holds its pool for an orphan.                            *)
Settled(c) ==
  /\ claims[c].phase = "live"
  /\ claims[c].providerID # None
  /\ seen[c].providerID = claims[c].providerID
  /\ pools[claims[c].providerID].state = "up"
  /\ claims[c].providerID \notin gc.orphans

Ledger == INSTANCE NodePoolLedger WITH
  Pools   <- Own,
  stage   <- [p \in Own |-> pools[p].state],
  owner   <- [p \in Own |-> pools[p].owner],
  phase   <- [c \in Claims |-> claims[c].phase],
  bound   <- [c \in Claims |-> claims[c].providerID],
  settled <- {c \in Claims : Settled(c)}

(* Whatever API calls fail or lose their answers, whatever the cache and   *)
(* the collector have not seen yet, through shutdowns, crashes and edits,  *)
(* the provider keeps the ledger: pools are made for claims that have      *)
(* none, a claim is bound once and to its own pool, a settled claim's pool *)
(* is not given back, and a claim goes only after its pool is gone.        *)
KeepsLedger == Ledger!Spec

=============================================================================
