---------------------------- MODULE CacheBudget ----------------------------
(***************************************************************************)
(* BoundedMap and CacheBudget (src/cache/bounded-map.js): LRU maps, each   *)
(* with its own bound on entries and bytes, charging their entries to one  *)
(* shared ledger with a bound of its own.                                  *)
(*                                                                         *)
(* Two orders are kept by hand and must stay in step: the insertion order  *)
(* of each map, and the ledger's order across all of them.  So must the    *)
(* sums: what each map weighs, and what the ledger weighs.                 *)
(*                                                                         *)
(* JavaScript runs set() and sweep() without interruption.  Their loops    *)
(* are steps here, one iteration each, with pc holding off every other     *)
(* operation until the loop has ended.                                     *)
(*                                                                         *)
(* A JS Map is the sequence of its entries in insertion order.  An entry   *)
(* is an object: its id tells it from another of the same key and weight.  *)
(* Time is left out: a sweep may find any of a map's entries expired.      *)
(*                                                                         *)
(* An operator whose name starts with Fault is a seeded bug: nothing in    *)
(* the specification uses it.                                              *)
(***************************************************************************)
EXTENDS Integers, Sequences, FiniteSets, SequencesExt

CONSTANTS
    Cache,      \* the maps that share the ledger
    Key,        \* the keys of every map
    Id,         \* identities of objects with equal fields
    Weight,     \* the weights an entry may have (its bytes field)
    MaxEntries, \* each map's maxEntries
    MaxBytes,   \* each map's maxBytes, or NoBound
    NoBound,
    Budget      \* the ledger's maxBytes (CACHE_MAX_MB)

ASSUME BoundsAssumption ==
    /\ Weight \subseteq Nat
    /\ MaxEntries \in [Cache -> Nat \ {0}]
    /\ NoBound \notin Nat
    /\ MaxBytes \in [Cache -> Nat \cup {NoBound}]
    /\ Budget \in Nat

Entry == [cache : Cache, key : Key, bytes : Weight, id : Id]

VARIABLES
    store,       \* each map's entries, the least recently used first
    mapBytes,    \* each map's totalBytes
    order,       \* ledger.order: every charged entry, least recent first
    ledgerBytes, \* ledger.totalBytes
    pc,          \* the loop being run, "idle" between operations
    cur,         \* <<the entry set() is writing>>
    expired      \* the entries sweep() has still to drop

budgetVars == <<store, mapBytes, order, ledgerBytes, pc, cur, expired>>

Live == Range(order)
Stored(m) == Range(store[m])

-----------------------------------------------------------------------------
(* The entries a map holds under a key: one or none.                       *)
Under(m, k) == {e \in Stored(m) : e.key = k}

ToEnd(s, e) == Append(RemoveFirst(s, e), e)

FaultReleaseKeepsCharge(e) ==
    /\ store' = [store EXCEPT ![e.cache] = RemoveFirst(@, e)]
    /\ mapBytes' = [mapBytes EXCEPT ![e.cache] = @ - e.bytes]
    /\ UNCHANGED <<order, ledgerBytes>>

(* An entry leaves its map and, if the ledger still holds it, the ledger.  *)
Release(e) ==
    /\ store' = [store EXCEPT ![e.cache] = RemoveFirst(@, e)]
    /\ mapBytes' = [mapBytes EXCEPT ![e.cache] = @ - e.bytes]
    /\ order' = RemoveFirst(order, e)
    /\ ledgerBytes' = IF e \in Live THEN ledgerBytes - e.bytes ELSE ledgerBytes

FaultEvict(m, k) == UNCHANGED <<store, mapBytes, order, ledgerBytes>>

(* evict(key): under a key the map does not hold, nothing is released.     *)
Evict(m, k) ==
    IF Under(m, k) = {}
    THEN UNCHANGED <<store, mapBytes, order, ledgerBytes>>
    ELSE \E e \in Under(m, k) : Release(e)

OverBudget(m) == MaxBytes[m] # NoBound /\ mapBytes[m] > MaxBytes[m]

(* The condition of set()'s own loop, and its break at the written key.    *)
MustTrim(m) ==
    /\ Len(store[m]) > 1
    /\ Len(store[m]) > MaxEntries[m] \/ OverBudget(m)
    /\ Head(store[m]).key # cur[1].key

(* enforce(keep): the oldest entry that is not the one just written.       *)
HasVictim == \E e \in Live : e # cur[1]

FaultVictim == Last(order)

Victim == IF order[1] # cur[1] THEN order[1] ELSE order[2]

(* An entry larger than the whole shared budget is not stored.             *)
Storable(e) == e.bytes <= Budget

-----------------------------------------------------------------------------
(* What a set of entries weighs: the number of its bytes, each byte named  *)
(* by its entry and its position.                                          *)
Bytes(S) == UNION {{e} \X (1 .. e.bytes) : e \in S}
WeightOf(S) == Cardinality(Bytes(S))

(* Type invariant; and the running totals are the weights of what is held, *)
(* at every turn of every loop ("so the total cannot drift").              *)
BudgetTypeOK ==
    /\ store \in [Cache -> Seq(Entry)]
    /\ mapBytes \in [Cache -> Nat]
    /\ order \in Seq(Entry)
    /\ ledgerBytes \in Nat
    /\ pc \in {"idle", "trim", "enforce", "sweep"}
    /\ cur \in Seq(Entry)
    /\ Len(cur) = IF pc \in {"trim", "enforce"} THEN 1 ELSE 0
    /\ expired \subseteq Entry
    /\ ledgerBytes = WeightOf(Live)
    /\ \A m \in Cache : mapBytes[m] = WeightOf(Stored(m))

BudgetInit ==
    /\ store = [m \in Cache |-> <<>>]
    /\ mapBytes = [m \in Cache |-> 0]
    /\ order = <<>>
    /\ ledgerBytes = 0
    /\ pc = "idle"
    /\ cur = <<>>
    /\ expired = {}

(* get(key), on a hit: the entry becomes the most recent in its map and in *)
(* the ledger.  A miss and peek() change nothing.                          *)
Get(m, k) ==
    /\ pc = "idle"
    /\ \E e \in Under(m, k) :
           /\ store' = [store EXCEPT ![m] = Append(RemoveFirst(@, e), e)]
           /\ order' = IF e \in Live THEN ToEnd(order, e) ELSE order
    /\ UNCHANGED <<mapBytes, ledgerBytes, pc, cur, expired>>

(* delete(key), and set(key) of an entry that is not Storable: the entry   *)
(* it would have replaced goes, and nothing is written.                    *)
Delete(m, k) ==
    /\ pc = "idle"
    /\ \E e \in Under(m, k) : Release(e)
    /\ UNCHANGED <<pc, cur, expired>>

FaultFreed(olds) == 0

(* The weight a write gives back: that of the entry it replaces.           *)
Freed(olds) == IF olds = {} THEN 0 ELSE (CHOOSE old \in olds : TRUE).bytes

Replaced(s, olds) ==
    IF olds = {} THEN s ELSE RemoveFirst(s, CHOOSE old \in olds : TRUE)

(* set(key, value) of a new object: the replaced entry out of both orders  *)
(* and both sums, the new one at the end of each.                          *)
SetBegin(e) ==
    LET m == e.cache
        olds == Under(m, e.key)
    IN  /\ pc = "idle"
        /\ e \notin Live
        /\ Storable(e)
        /\ store' = [store EXCEPT ![m] = Append(Replaced(@, olds), e)]
        /\ mapBytes' = [mapBytes EXCEPT ![m] = @ - Freed(olds) + e.bytes]
        /\ order' = Append(Replaced(order, olds), e)
        /\ ledgerBytes' = ledgerBytes - Freed(olds) + e.bytes
        /\ cur' = <<e>>
        /\ pc' = "trim"
        /\ UNCHANGED expired

(* One turn of set()'s loop: the map's own least recently used entry goes. *)
TrimStep ==
    /\ pc = "trim"
    /\ MustTrim(cur[1].cache)
    /\ Evict(cur[1].cache, Head(store[cur[1].cache]).key)
    /\ UNCHANGED <<pc, cur, expired>>

TrimEnd ==
    /\ pc = "trim"
    /\ ~MustTrim(cur[1].cache)
    /\ pc' = "enforce"
    /\ UNCHANGED <<store, mapBytes, order, ledgerBytes, cur, expired>>

(* One turn of ledger.enforce: the victim is evicted through its owner,    *)
(* and the loop is left if that released nothing.                          *)
EnforceStep ==
    /\ pc = "enforce"
    /\ ledgerBytes > Budget
    /\ HasVictim
    /\ Evict(Victim.cache, Victim.key)
    /\ IF Len(order') = Len(order)
       THEN pc' = "idle" /\ cur' = <<>>
       ELSE UNCHANGED <<pc, cur>>
    /\ UNCHANGED expired

EnforceEnd ==
    /\ pc = "enforce"
    /\ ledgerBytes <= Budget \/ ~HasVictim
    /\ pc' = "idle"
    /\ cur' = <<>>
    /\ UNCHANGED <<store, mapBytes, order, ledgerBytes, expired>>

(* sweep(): the expired entries of one map, dropped one turn at a time.    *)
SweepBegin(m) ==
    /\ pc = "idle"
    /\ expired' \in SUBSET Stored(m) \ {{}}
    /\ pc' = "sweep"
    /\ UNCHANGED <<store, mapBytes, order, ledgerBytes, cur>>

SweepStep ==
    /\ pc = "sweep"
    /\ \E e \in expired : Release(e) /\ expired' = expired \ {e}
    /\ UNCHANGED <<pc, cur>>

SweepEnd ==
    /\ pc = "sweep"
    /\ expired = {}
    /\ pc' = "idle"
    /\ UNCHANGED <<store, mapBytes, order, ledgerBytes, cur, expired>>

Loop == TrimStep \/ TrimEnd \/ EnforceStep \/ EnforceEnd \/ SweepStep \/ SweepEnd

Operation ==
    \/ \E m \in Cache, k \in Key : Get(m, k) \/ Delete(m, k)
    \/ \E e \in Entry : SetBegin(e)
    \/ \E m \in Cache : SweepBegin(m)

BudgetNext == Operation \/ Loop

(* A loop that has a turn to take takes it: nothing preempts it.           *)
BudgetSpec == BudgetInit /\ [][BudgetNext]_budgetVars /\ WF_budgetVars(Loop)

-----------------------------------------------------------------------------
Distinct(s) == \A i, j \in DOMAIN s : s[i] = s[j] => i = j

(* x is before y in s. *)
Before(s, x, y) == \E i, j \in DOMAIN s : i < j /\ s[i] = x /\ s[j] = y

(* The ledger charges exactly the entries the maps hold, each once, and a  *)
(* map holds one entry per key: no operation leaves a charge behind for an *)
(* entry that is gone, or an entry nobody is charged for (remove() finds   *)
(* entries by identity, evict() by key; the two must agree).  Each map's   *)
(* recency order is the ledger's, restricted to its entries: a read counts *)
(* as a use in both, so the two evict by the same order.                   *)
LedgerMirrorsMaps ==
    /\ Distinct(order)
    /\ Live = UNION {Stored(m) : m \in Cache}
    /\ \A m \in Cache :
           /\ Distinct(store[m])
           /\ \A e \in Stored(m) : e.cache = m /\ Under(m, e.key) = {e}
           /\ \A x, y \in Stored(m) : Before(store[m], x, y) => Before(order, x, y)

(* Between operations every bound holds: the ledger's, each map's entry    *)
(* count, and each map's bytes unless one entry alone is over them.  And   *)
(* while set() makes room for that, the entry it has just written stays,   *)
(* last of all: it is never the victim of its own write.                   *)
BoundsHold ==
    /\ pc = "idle" =>
           /\ ledgerBytes <= Budget
           /\ \A m \in Cache :
                  /\ Len(store[m]) <= MaxEntries[m]
                  /\ OverBudget(m) => Len(store[m]) = 1
    /\ pc \in {"trim", "enforce"} =>
           /\ cur[1] \in Stored(cur[1].cache)
           /\ Last(order) = cur[1]

(* set(), enforce() and sweep() return: no loop turns for ever.            *)
LoopsEnd == pc # "idle" ~> pc = "idle"
=============================================================================
