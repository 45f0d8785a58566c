----------------------------- MODULE VideoCache -----------------------------
(***************************************************************************)
(* The cache of video metadata (storage.VideoCache): it keeps the metadata *)
(* of the recordings that were asked for most recently.  A request gets    *)
(* the metadata from the cache, or makes it and adds it later; others come *)
(* between.                                                                *)
(***************************************************************************)
EXTENDS Naturals, FiniteSets

CONSTANTS
    Keys,     \* recordings
    Users,    \* requests
    MaxSize,  \* videoCacheSize
    MaxAge    \* bound on the number of changes

ASSUME VideoCacheAssumption == MaxSize \in Nat \ {0} /\ MaxAge \in Nat /\ IsFiniteSet(Keys)

VARIABLES
    items,   \* the keys in the cache
    ageOf,   \* the age of each item
    used,    \* history: the age of the cache when the key was last used
    age,     \* the age of the cache
    making   \* the key each request makes metadata for, if any

cacheVars == <<items, ageOf, used, age, making>>

CacheInit ==
    /\ items = {}
    /\ ageOf = [k \in Keys |-> 0]
    /\ used = [k \in Keys |-> 0]
    /\ age = 0
    /\ making = [u \in Users |-> {}]

\* Mutant of Get: a hit does not make the item younger.
GetStale(u, key) ==
    /\ making[u] = {} /\ key \in items /\ age < MaxAge
    /\ age' = age + 1
    /\ used' = [used EXCEPT ![key] = age + 1]
    /\ UNCHANGED <<items, ageOf, making>>

Get(u, key) ==
    /\ making[u] = {} /\ key \in items /\ age < MaxAge
    /\ age' = age + 1
    /\ ageOf' = [ageOf EXCEPT ![key] = age + 1]
    /\ used' = [used EXCEPT ![key] = age + 1]
    /\ UNCHANGED <<items, making>>

GetMiss(u, key) ==
    /\ making[u] = {} /\ key \notin items
    /\ making' = [making EXCEPT ![u] = {key}]
    /\ UNCHANGED <<items, ageOf, used, age>>

\* The key is there already: another request was faster.
AddDuplicate(u, key) ==
    /\ making[u] = {key} /\ key \in items
    /\ making' = [making EXCEPT ![u] = {}]
    /\ UNCHANGED <<items, ageOf, used, age>>

Oldest(k) == k \in items /\ \A j \in items : ageOf[k] <= ageOf[j]

\* The items that make place for a new one.
Victims == IF Cardinality(items) >= MaxSize THEN {k \in items : Oldest(k)} ELSE {}

Add(u, key) ==
    /\ making[u] = {key} /\ key \notin items /\ age < MaxAge
    /\ age' = age + 1
    /\ items' = (items \ Victims) \union {key}
    /\ ageOf' = [ageOf EXCEPT ![key] = age + 1]
    /\ used' = [used EXCEPT ![key] = age + 1]
    /\ making' = [making EXCEPT ![u] = {}]

CacheNext ==
    \E u \in Users, key \in Keys :
        Get(u, key) \/ GetMiss(u, key) \/ AddDuplicate(u, key) \/ Add(u, key)

CacheSpec == CacheInit /\ [][CacheNext]_cacheVars

-----------------------------------------------------------------------------
(* Properties.                                                             *)

CacheTypeOK ==
    /\ items \subseteq Keys /\ ageOf \in [Keys -> Nat] /\ used \in [Keys -> Nat] /\ age \in Nat
    /\ making \in [Users -> SUBSET Keys]

\* The cache never holds more than its limit, although a request decides to
\* make an item long before it adds it: the count is taken under the lock.
CacheBounded == Cardinality(items) <= MaxSize

\* "Caches the n most recent video readers": whatever is in the cache was used
\* later than whatever is not.
CacheRecent == \A k \in items, j \in Keys \ items : used[j] < used[k]

\* The cache holds the most recent items, and no more than its limit.
CacheKeepsNewest == CacheBounded /\ CacheRecent
=============================================================================
