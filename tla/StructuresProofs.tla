-------------------------- MODULE StructuresProofs --------------------------
(***************************************************************************)
(* Three structures that several goroutines share.                         *)
(* The ring buffer hands packets on in order and once, and its consumer    *)
(* does not sleep over one or over Close, for every size that divides the  *)
(* range of an index, any number of producers and any number of packets.   *)
(* The cache of video metadata keeps its limit and the most recent items,  *)
(* for every limit, every set of recordings and every number of requests.  *)
(* What the requests about groups were answered is on disk, and none of    *)
(* them waits for ever, for every number of requests, groups, failures and *)
(* restarts.                                                               *)
(***************************************************************************)
EXTENDS RingBuffer, VideoCache, Groups, Integers, FiniteSetTheorems, WellFoundedInduction, TLAPS

(***************************************************************************)
(* Groups                                                                  *)
(***************************************************************************)

GroupsTypeOK ==
    /\ groups \in [GroupIds -> GroupConfigs \union {None, Cut}]
    /\ groupFiles \in [GroupIds -> GroupConfigs \union {None, Cut}]
    /\ answered \in [GroupIds -> GroupConfigs \union {None, Cut}]
    /\ faults \subseteq GroupIds
    /\ greq \in [GroupReqs -> [op : {"idle", "set", "delete", "configs"}, id : GroupIds \union {None},
                               config : GroupConfigs \union {None},
                               pc : {"idle", "begin", "locked", "write", "truncated"}]]
    /\ \A r \in GroupReqs :
        /\ greq[r].op = "set" => greq[r].id \in GroupIds /\ greq[r].config \in GroupConfigs
        /\ greq[r].op = "delete" => greq[r].id \in GroupIds

\* The holder of the manager's lock, and nobody else, is past it.
OneHolder ==
    /\ managerMu \in GroupReqs \union {Free, Down}
    /\ \A r \in GroupReqs : greq[r].pc \in {"locked", "write", "truncated"} <=> managerMu = r

Writing(r) == greq[r].op = "set" /\ greq[r].pc \in {"write", "truncated"}

\* A request that writes has changed the group in memory; the file is the old one
\* until it is truncated.  A crash at that point leaves a file that keeps the
\* application down, so that nobody is told something else than before.
FilesFollow ==
    /\ \A r \in GroupReqs : Writing(r) => groups[greq[r].id] = greq[r].config
    /\ \A r \in GroupReqs : At(r, "set", "truncated") => groupFiles[greq[r].id] = Cut
    /\ \A g \in GroupIds \ faults :
        /\ managerMu # Down /\ ~(\E r \in GroupReqs : At(r, "set", "truncated") /\ greq[r].id = g)
              => groupFiles[g] = answered[g]
        /\ managerMu # Down /\ ~(\E r \in GroupReqs : Writing(r) /\ greq[r].id = g)
              => groups[g] = answered[g]

\* An application that did not start has a file that cannot be parsed, and no
\* requests.
DownForGood ==
    managerMu = Down =>
        /\ \E g \in GroupIds : groupFiles[g] = Cut
        /\ \A r \in GroupReqs : greq[r] = NoRequest

GroupsInv == GroupsTypeOK /\ OneHolder /\ FilesFollow /\ DownForGood

LEMMA GroupsInitInv == GroupsInit => GroupsInv
BY GroupsAssumption
   DEF GroupsInit, GroupsInv, GroupsTypeOK, OneHolder, FilesFollow, DownForGood, Writing, At, NoRequest, Free, Down

LEMMA InvImpliesDurable == GroupsInv => GroupsDurable
BY Zenon DEF GroupsInv, FilesFollow, GroupsDurable, Writing, At

\* Who waits behind the manager's lock waits for a holder that is past it, and
\* the only place where a holder waits is the lock of a group that was leaked.
LEMMA InvImpliesAnswer == GroupsInv => GroupsAnswer
<1> SUFFICES ASSUME GroupsInv, \A q \in GroupReqs : Waits(q), NEW r \in GroupReqs, greq[r] # NoRequest
             PROVE  /\ leaked # {} /\ managerMu \in GroupReqs /\ greq[managerMu].pc = "locked"
                    /\ r = managerMu \/ greq[r].pc = "begin"
  BY Zenon DEF GroupsAnswer
<1>1. managerMu \in GroupReqs
  BY Zenon DEF GroupsInv, OneHolder, DownForGood, Waits, At
<1>2. greq[managerMu].pc = "locked" /\ leaked # {}
  <2>1. greq[managerMu].pc \in {"locked", "write", "truncated"} /\ Waits(managerMu)
    BY Zenon, <1>1 DEF GroupsInv, OneHolder
  <2> QED
    BY <2>1 DEF Waits, At, NoRequest
<1>3. r = managerMu \/ greq[r].pc = "begin"
  BY Zenon DEF GroupsInv, OneHolder, Waits, At
<1> QED
  BY Zenon, <1>1, <1>2, <1>3

LEMMA RestartKeeps == GroupsInv /\ GroupsRestart => GroupsInv'
<1> SUFFICES ASSUME GroupsInv, GroupsRestart
             PROVE  GroupsInv'
  OBVIOUS
<1>1. GroupsTypeOK' /\ OneHolder'
  BY Zenon, GroupsAssumption DEF GroupsInv, GroupsTypeOK, OneHolder, GroupsRestart, NoRequest, Free, Down
<1>2. DownForGood'
  BY ZenonT(30) DEF GroupsInv, GroupsTypeOK, DownForGood, GroupsRestart, NoRequest, Free, Down
<1>3. FilesFollow'
  <2>1. \A r \in GroupReqs : ~Writing(r)' /\ ~At(r, "set", "truncated")'
    BY Zenon DEF GroupsRestart, NoRequest, Writing, At
  <2>2. ASSUME NEW g \in GroupIds \ faults, managerMu' # Down
        PROVE  groupFiles[g] = answered[g]
    BY <2>2 DEF GroupsInv, GroupsRestart, FilesFollow, DownForGood, GroupsTypeOK, Down, Free
  <2> QED
    BY Zenon, <2>1, <2>2 DEF GroupsRestart, FilesFollow
<1> QED
  BY Zenon, <1>1, <1>2, <1>3 DEF GroupsInv

NewRequest(r) == RequestConfigs(r) \/ RequestSet(r) \/ RequestDelete(r)

\* The steps that change neither a group nor its file.
LEMMA RequestKeeps ==
    ASSUME GroupsInv, NEW r \in GroupReqs, NewRequest(r) \/ LockManager(r) \/ Configs(r)
    PROVE  GroupsInv'
<1>1. UNCHANGED <<groups, groupFiles, answered, faults>> /\ managerMu # Down
  BY DEF NewRequest, RequestConfigs, RequestSet, RequestDelete, Request, LockManager, Configs, GroupsInv, DownForGood, At, NoRequest, Free, Down
<1>2. GroupsTypeOK'
  BY <1>1 DEF GroupsInv, GroupsTypeOK, NewRequest, RequestConfigs, RequestSet, RequestDelete, Request, LockManager, Configs, Answer, GoOn, NoRequest
<1>3. OneHolder' /\ managerMu' # Down
  BY <1>1, GroupsAssumption
     DEF GroupsInv, GroupsTypeOK, OneHolder, NewRequest, RequestConfigs, RequestSet, RequestDelete, Request, LockManager, Configs, Answer, GoOn, At, NoRequest, Free, Down
<1>4. \A q \in GroupReqs : /\ Writing(q)' <=> Writing(q)
                           /\ At(q, "set", "truncated")' <=> At(q, "set", "truncated")
                           /\ Writing(q) => greq'[q] = greq[q]
  BY DEF GroupsInv, GroupsTypeOK, NewRequest, RequestConfigs, RequestSet, RequestDelete, Request, LockManager, Configs, Answer, GoOn, At, Writing, NoRequest
<1>5. FilesFollow'
  BY <1>1, <1>3, <1>4 DEF GroupsInv, FilesFollow, Writing, At
<1> QED
  BY Zenon, <1>2, <1>3, <1>5 DEF GroupsInv, DownForGood

\* The holder of the lock is the only one who writes.
LEMMA HolderAlone ==
    ASSUME GroupsInv, NEW r \in GroupReqs, greq[r].pc \in {"locked", "write", "truncated"}
    PROVE  /\ managerMu # Down /\ managerMu = r
           /\ \A q \in GroupReqs \ {r} : ~Writing(q) /\ ~At(q, "set", "truncated")
BY Zenon, GroupsAssumption DEF GroupsInv, OneHolder, Writing, At, Down

LEMMA SetKeeps ==
    ASSUME GroupsInv, NEW r \in GroupReqs, SetMemory(r) \/ SetTruncates(r) \/ SetWritten(r) \/ SetFileFails(r)
    PROVE  GroupsInv'
<1> DEFINE g == greq[r].id
<1>1. greq[r].op = "set" /\ greq[r].pc \in {"locked", "write", "truncated"} /\ g \in GroupIds
  BY Zenon DEF SetMemory, SetTruncates, SetWritten, SetFileFails, At, GroupsInv, GroupsTypeOK
<1>2. /\ managerMu # Down /\ managerMu = r
      /\ \A q \in GroupReqs \ {r} : ~Writing(q) /\ ~At(q, "set", "truncated")
  BY Zenon, <1>1, HolderAlone
<1>3. GroupsTypeOK'
  <2>1. CASE SetMemory(r) \/ SetTruncates(r)
    BY <1>1, <2>1 DEF GroupsInv, GroupsTypeOK, SetMemory, SetTruncates, GoOn
  <2>2. CASE SetWritten(r) \/ SetFileFails(r)
    BY <1>1, <2>2 DEF GroupsInv, GroupsTypeOK, SetWritten, SetFileFails, Answer, NoRequest
  <2> QED
    BY Zenon, <2>1, <2>2
<1>4. OneHolder' /\ managerMu' # Down
  BY <1>1, <1>2, GroupsAssumption DEF GroupsInv, GroupsTypeOK, OneHolder, SetMemory, SetTruncates, SetWritten, SetFileFails,
                    Answer, GoOn, NoRequest, Free, Down
<1>5. \A q \in GroupReqs \ {r} : greq'[q] = greq[q] /\ ~Writing(q)' /\ ~At(q, "set", "truncated")'
  BY ZenonT(30), <1>2 DEF GroupsInv, GroupsTypeOK, SetMemory, SetTruncates, SetWritten, SetFileFails, Answer, GoOn, Writing, At
<1>6. FilesFollow'
  <2>1. CASE SetMemory(r)
    BY <1>1, <1>2, <1>5, <2>1 DEF GroupsInv, GroupsTypeOK, FilesFollow, SetMemory, GoOn, Writing, At
  <2>2. CASE SetTruncates(r)
    BY <1>1, <1>2, <1>5, <2>2 DEF GroupsInv, GroupsTypeOK, FilesFollow, SetTruncates, GoOn, Writing, At
  <2>3. CASE SetWritten(r)
    BY <1>1, <1>2, <1>5, <2>3 DEF GroupsInv, GroupsTypeOK, FilesFollow, SetWritten, Answer, NoRequest, Writing, At
  <2>4. CASE SetFileFails(r)
    BY <1>1, <1>2, <1>5, <2>4 DEF GroupsInv, GroupsTypeOK, FilesFollow, SetFileFails, Answer, NoRequest, Writing, At
  <2> QED
    BY Zenon, <2>1, <2>2, <2>3, <2>4
<1> QED
  BY Zenon, <1>3, <1>4, <1>6 DEF GroupsInv, DownForGood

LEMMA DeleteKeeps ==
    ASSUME GroupsInv, NEW r \in GroupReqs, DeleteGroup(r) \/ DeleteFails(r)
    PROVE  GroupsInv'
<1>1. greq[r].op = "delete" /\ greq[r].pc = "locked" /\ greq[r].id \in GroupIds
  BY Zenon DEF DeleteGroup, DeleteFails, At, GroupsInv, GroupsTypeOK
<1>2. /\ managerMu # Down /\ managerMu = r
      /\ \A q \in GroupReqs \ {r} : ~Writing(q) /\ ~At(q, "set", "truncated")
  BY Zenon, <1>1, HolderAlone
<1>3. GroupsTypeOK'
  <2>1. /\ groups' = [groups EXCEPT ![greq[r].id] = None]
        /\ groupFiles' \in {groupFiles, [groupFiles EXCEPT ![greq[r].id] = None]}
        /\ answered' \in {answered, [answered EXCEPT ![greq[r].id] = None]}
    BY ZenonT(30) DEF DeleteGroup, DeleteFails
  <2>2. faults' \subseteq faults \union {greq[r].id} /\ greq' = [greq EXCEPT ![r] = NoRequest]
    BY ZenonT(30) DEF DeleteGroup, DeleteFails, Answer
  <2>3. \A f \in [GroupIds -> GroupConfigs \union {None, Cut}] :
            [f EXCEPT ![greq[r].id] = None] \in [GroupIds -> GroupConfigs \union {None, Cut}]
    BY ZenonT(30)
  <2>4. /\ groups' \in [GroupIds -> GroupConfigs \union {None, Cut}]
        /\ groupFiles' \in [GroupIds -> GroupConfigs \union {None, Cut}]
        /\ answered' \in [GroupIds -> GroupConfigs \union {None, Cut}]
    BY ZenonT(30), <2>1, <2>3 DEF GroupsInv, GroupsTypeOK
  <2>5. faults' \subseteq GroupIds
    BY ZenonT(30), <1>1, <2>2 DEF GroupsInv, GroupsTypeOK
  <2>6. /\ NoRequest \in [op : {"idle", "set", "delete", "configs"}, id : GroupIds \union {None},
                         config : GroupConfigs \union {None},
                         pc : {"idle", "begin", "locked", "write", "truncated"}]
        /\ NoRequest.op = "idle"
    BY DEF NoRequest
  <2>7. \A q \in GroupReqs : greq'[q] = IF q = r THEN NoRequest ELSE greq[q]
    BY ZenonT(30), <2>2 DEF GroupsInv, GroupsTypeOK
  <2>8. greq' \in [GroupReqs -> [op : {"idle", "set", "delete", "configs"}, id : GroupIds \union {None},
                                config : GroupConfigs \union {None},
                                pc : {"idle", "begin", "locked", "write", "truncated"}]]
    BY ZenonT(30), <2>2, <2>6 DEF GroupsInv, GroupsTypeOK
  <2>9. \A q \in GroupReqs :
            /\ greq'[q].op = "set" => greq'[q].id \in GroupIds /\ greq'[q].config \in GroupConfigs
            /\ greq'[q].op = "delete" => greq'[q].id \in GroupIds
    <3>1. NoRequest.op # "set" /\ NoRequest.op # "delete"
      BY <2>6
    <3> QED
      BY ZenonT(30), <2>7, <3>1 DEF GroupsInv, GroupsTypeOK
  <2> QED
    BY ZenonT(30), <2>4, <2>5, <2>8, <2>9 DEF GroupsTypeOK
<1>4. OneHolder' /\ managerMu' # Down
  BY <1>1, <1>2, GroupsAssumption DEF GroupsInv, GroupsTypeOK, OneHolder, DeleteGroup, DeleteFails, Answer, NoRequest, Free, Down
<1>5. \A q \in GroupReqs : ~Writing(q)' /\ ~At(q, "set", "truncated")' /\ ~Writing(q) /\ ~At(q, "set", "truncated")
  BY <1>1, <1>2 DEF GroupsInv, GroupsTypeOK, DeleteGroup, DeleteFails, Answer, NoRequest, Writing, At
<1>6. FilesFollow'
  BY <1>1, <1>2, <1>5 DEF GroupsInv, GroupsTypeOK, FilesFollow, DeleteGroup, DeleteFails
<1> QED
  BY Zenon, <1>3, <1>4, <1>6 DEF GroupsInv, DownForGood

\* What requests that were answered without an error made of a group is in its
\* file and in the manager's memory (GroupSet, GroupDelete, NewManager), and only
\* the lock GroupSet keeps when it fails makes requests wait for ever.
THEOREM GroupsAlwaysSound == GroupsSpec => []GroupsSound
<1>1. GroupsInv /\ [GroupsNext]_groupVars => GroupsInv'
  <2>1. GroupsInv /\ UNCHANGED groupVars => GroupsInv'
    BY DEF GroupsInv, GroupsTypeOK, OneHolder, FilesFollow, DownForGood, Writing, At, groupVars
  <2> QED
    BY Zenon, <2>1, RestartKeeps, RequestKeeps, SetKeeps, DeleteKeeps DEF GroupsNext, GroupStep, NewRequest
<1>2. GroupsInv => GroupsSound
  BY Zenon, InvImpliesDurable, InvImpliesAnswer DEF GroupsSound
<1> QED
  BY <1>1, <1>2, GroupsInitInv, PTL DEF GroupsSpec

(***************************************************************************)
(* The cache of video metadata                                             *)
(***************************************************************************)

\* The age of an item is the age of the cache when it was last used; no two items
\* were used at the same time.  It is the strict order of the uses that makes the
\* oldest item the only one to go, and the one used before all that stay.
AgesExact ==
    /\ \A k \in items : ageOf[k] = used[k]
    /\ \A k \in Keys : used[k] <= age
    /\ \A j, k \in items : used[j] = used[k] => j = k

CacheInv == CacheTypeOK /\ AgesExact /\ CacheKeepsNewest

LEMMA ItemsFinite ==
    ASSUME CacheTypeOK
    PROVE  IsFiniteSet(items) /\ Cardinality(items) \in Nat
BY Zenon, VideoCacheAssumption, FS_Subset, FS_CardinalityType DEF CacheTypeOK

\* A cache with items has an oldest one.
LEMMA OldestExists ==
    ASSUME CacheTypeOK, items # {}
    PROVE  \E k \in items : Oldest(k)
<1> DEFINE Ages == {ageOf[k] : k \in items}
<1>1. Ages \subseteq Nat /\ Ages # {}
  BY Zenon DEF CacheTypeOK
<1>2. PICK a \in Ages : \A b \in Ages : ~(<<b, a>> \in OpToRel(<, Nat))
  <2> HIDE DEF Ages
  <2> QED
    BY ZenonT(30), <1>1, NatLessThanWellFounded, WFMin
<1>3. \A b \in Ages : a <= b
  <2> HIDE DEF Ages
  <2> SUFFICES ASSUME NEW b \in Ages
               PROVE  a <= b
    OBVIOUS
  <2>1. a \in Nat /\ b \in Nat
    BY Zenon, <1>1
  <2>2. <<b, a>> \in OpToRel(<, Nat) <=> b < a
    BY Zenon, <2>1 DEF OpToRel
  <2>3. ~(b < a)
    BY <1>2, <2>2, Zenon
  <2> QED
    BY <2>1, <2>3
<1>4. PICK k \in items : ageOf[k] = a
  OBVIOUS
<1> QED
  BY Zenon, <1>3, <1>4 DEF Oldest

LEMMA CacheInitInv == CacheInit => CacheInv
BY FS_EmptySet, VideoCacheAssumption
   DEF CacheInit, CacheInv, CacheTypeOK, AgesExact, CacheKeepsNewest, CacheBounded, CacheRecent

\* A hit makes one item the youngest.
LEMMA GetKeeps ==
    ASSUME CacheInv, NEW u \in Users, NEW key \in Keys, Get(u, key)
    PROVE  CacheInv'
BY DEF CacheInv, CacheTypeOK, AgesExact, CacheKeepsNewest, CacheBounded, CacheRecent, Get

\* Items that go are replaced by one, and there is one to go when the limit is
\* reached.
LEMMA AddBounded ==
    ASSUME CacheInv, NEW u \in Users, NEW key \in Keys, Add(u, key)
    PROVE  CacheBounded'
<1> DEFINE rest == items \ Victims
<1>1. IsFiniteSet(items) /\ Cardinality(items) \in Nat /\ Cardinality(items) <= MaxSize
  BY Zenon, ItemsFinite DEF CacheInv, CacheKeepsNewest, CacheBounded
<1>2. IsFiniteSet(rest) /\ Cardinality(rest) \in Nat /\ Cardinality(rest) < MaxSize
  <2>1. CASE Cardinality(items) >= MaxSize
    <3>1. PICK k \in items : Oldest(k)
      BY <1>1, <2>1, OldestExists, FS_EmptySet, VideoCacheAssumption DEF CacheInv
    <3>2. IsFiniteSet(items \ {k}) /\ Cardinality(items \ {k}) = Cardinality(items) - 1
      BY Zenon, <1>1, FS_RemoveElement
    <3>3. rest \subseteq items \ {k}
      BY Zenon, <2>1, <3>1 DEF Victims
    <3> QED
      BY <1>1, <3>2, <3>3, FS_Subset, FS_CardinalityType, VideoCacheAssumption
  <2>2. CASE ~(Cardinality(items) >= MaxSize)
    BY <1>1, <2>2, VideoCacheAssumption DEF Victims
  <2> QED
    BY Zenon, <2>1, <2>2
<1>3. items' = rest \union {key}
  BY Zenon DEF Add
<1>4. Cardinality(rest \union {key}) \in Nat /\ Cardinality(rest \union {key}) <= Cardinality(rest) + 1
  <2> HIDE DEF rest
  <2>1. Cardinality(rest \union {key}) = IF key \in rest THEN Cardinality(rest) ELSE Cardinality(rest) + 1
    BY ZenonT(30), <1>2, FS_AddElement
  <2> QED
    BY <1>2, <2>1
<1> HIDE DEF rest
<1>5. Cardinality(rest \union {key}) <= MaxSize
  BY <1>2, <1>4, VideoCacheAssumption
<1> QED
  BY Zenon, <1>3, <1>5 DEF CacheBounded

LEMMA AddKeeps ==
    ASSUME CacheInv, NEW u \in Users, NEW key \in Keys, Add(u, key)
    PROVE  CacheInv'
<1>1. CacheTypeOK' /\ AgesExact'
  BY DEF CacheInv, CacheTypeOK, AgesExact, Add, Victims
<1>2. CacheRecent'
  <2> SUFFICES ASSUME NEW k \in items', NEW j \in Keys \ items'
               PROVE  used'[j] < used'[k]
    BY Zenon DEF CacheRecent
  <2>1. j # key /\ used'[j] = used[j] /\ used[j] <= age
    BY Zenon DEF CacheInv, CacheTypeOK, AgesExact, Add
  <2>2. CASE k = key
    BY <2>1, <2>2 DEF CacheInv, CacheTypeOK, AgesExact, Add
  <2>3. CASE k # key /\ j \in items
    <3>1. Oldest(j) /\ ~Oldest(k) /\ k \in items
      BY Zenon, <2>1, <2>3 DEF Add, Victims
    <3> QED
      BY <2>1, <2>3, <3>1 DEF CacheInv, CacheTypeOK, AgesExact, Add, Oldest
  <2>4. CASE k # key /\ j \notin items
    BY Zenon, <2>1, <2>4 DEF CacheInv, CacheTypeOK, CacheKeepsNewest, CacheRecent, Add
  <2> QED
    BY Zenon, <2>2, <2>3, <2>4
<1> QED
  BY Zenon, <1>1, <1>2, AddBounded DEF CacheInv, CacheKeepsNewest

\* The cache holds the most recent items and no more than its limit, however many
\* requests make metadata at the same time (VideoCache.Get and VideoCache.add).
THEOREM CacheAlwaysKeepsNewest == CacheSpec => []CacheKeepsNewest
<1>1. CacheInv /\ [CacheNext]_cacheVars => CacheInv'
  <2> SUFFICES ASSUME CacheInv, [CacheNext]_cacheVars
               PROVE  CacheInv'
    OBVIOUS
  <2>1. ASSUME NEW u \in Users, NEW key \in Keys, GetMiss(u, key) \/ AddDuplicate(u, key)
        PROVE  CacheInv'
    BY <2>1 DEF CacheInv, CacheTypeOK, AgesExact, CacheKeepsNewest, CacheBounded, CacheRecent,
                GetMiss, AddDuplicate
  <2>2. CASE UNCHANGED cacheVars
    BY ZenonT(30), <2>2 DEF CacheInv, CacheTypeOK, AgesExact, CacheKeepsNewest, CacheBounded, CacheRecent, cacheVars
  <2> QED
    BY Zenon, <2>1, <2>2, GetKeeps, AddKeeps DEF CacheNext
<1>2. CacheInv => CacheKeepsNewest
  BY Zenon DEF CacheInv
<1> QED
  BY <1>1, <1>2, CacheInitInv, PTL DEF CacheSpec

(***************************************************************************)
(* The ring buffer: remainders                                             *)
(***************************************************************************)

LEMMA DivMod ==
    ASSUME NEW a \in Nat, NEW s \in Nat \ {0}
    PROVE  a = (s * (a \div s)) + (a % s) /\ a \div s \in Nat /\ a % s \in 0..(s - 1)
BY SMT

LEMMA ModUnique ==
    ASSUME NEW q \in Nat, NEW r \in Nat, NEW s \in Nat \ {0}, r < s
    PROVE  ((s * q) + r) % s = r
BY SMT

LEMMA TimesAtLeast ==
    ASSUME NEW k \in Nat, NEW s \in Nat, k >= 1
    PROVE  s * k >= s
BY SMT

\* Two numbers with one remainder are equal or at least the divisor apart.
LEMMA ModApart ==
    ASSUME NEW a \in Nat, NEW b \in Nat, NEW s \in Nat \ {0}, a % s = b % s, a < b
    PROVE  b >= a + s
<1> DEFINE q == a \div s
           p == b \div s
           r == a % s
<1>1. a = (s * q) + r /\ b = (s * p) + r /\ q \in Nat /\ p \in Nat /\ r \in Nat
  <2>1. a = (s * q) + r /\ q \in Nat /\ r \in 0..(s - 1)
    BY ZenonT(30), DivMod
  <2>2. b = (s * p) + (b % s) /\ p \in Nat
    BY ZenonT(30), DivMod
  <2> QED
    BY <2>1, <2>2
<1> HIDE DEF q, p, r
<1>2. CASE p <= q
  <2>1. s * q = (s * p) + (s * (q - p)) /\ s * (q - p) >= 0
    BY <1>1, <1>2
  <2> QED
    BY <1>1, <2>1
<1>3. CASE p > q
  <2>1. s * p = (s * q) + (s * (p - q))
    BY <1>1, <1>3
  <2>2. s * (p - q) >= s
    BY <1>1, <1>3, TimesAtLeast
  <2> QED
    BY <1>1, <2>1, <2>2
<1> QED
  BY <1>1, <1>2, <1>3

\* As many numbers in a row as the divisor have remainders of their own.
LEMMA ModDistinct ==
    ASSUME NEW n \in Nat, NEW s \in Nat \ {0}, NEW a \in (n + 1)..(n + s), NEW b \in (n + 1)..(n + s), a # b
    PROVE  a % s # b % s
<1> SUFFICES ASSUME a % s = b % s
             PROVE  FALSE
  OBVIOUS
<1>1. a \in Nat /\ b \in Nat
  OBVIOUS
<1>2. ~(a < b)
  <2>1. a < b => b >= a + s
    BY ZenonT(30), <1>1, ModApart
  <2> QED
    BY <1>1, <2>1
<1>3. ~(b < a)
  <2>1. b < a => a >= b + s
    BY ZenonT(30), <1>1, ModApart
  <2> QED
    BY <1>1, <2>1
<1> QED
  BY <1>1, <1>2, <1>3

LEMMA ModSuccessor ==
    ASSUME NEW a \in Nat, NEW s \in Nat \ {0}
    PROVE  (a + 1) % s = IF (a % s) + 1 = s THEN 0 ELSE (a % s) + 1
<1> DEFINE q == a \div s
           r == a % s
<1>1. a = (s * q) + r /\ q \in Nat /\ r \in 0..(s - 1)
  BY ZenonT(30), DivMod
<1> SUFFICES (a + 1) % s = IF r + 1 = s THEN 0 ELSE r + 1
  OBVIOUS
<1> HIDE DEF q, r
<1>2. CASE r + 1 = s
  <2>1. a + 1 = (s * (q + 1)) + 0
    BY <1>1, <1>2
  <2>2. ((s * (q + 1)) + 0) % s = 0
    BY <1>1, ModUnique
  <2> QED
    BY Zenon, <1>2, <2>1, <2>2
<1>3. CASE r + 1 # s
  <2>1. a + 1 = (s * q) + (r + 1)
    BY <1>1
  <2>2. ((s * q) + (r + 1)) % s = r + 1
    BY <1>1, <1>3, ModUnique
  <2> QED
    BY Zenon, <1>3, <2>1, <2>2
<1> QED
  BY Zenon, <1>2, <1>3

\* An index that wraps keeps counting slots.
LEMMA IndexSuccessor ==
    ASSUME NEW x \in 0..(Word - 1), NEW n \in Nat, x % Size = n % Size
    PROVE  (x + 1) % Word \in 0..(Word - 1) /\ ((x + 1) % Word) % Size = (n + 1) % Size
<1>1. Size \in Nat \ {0} /\ Word \in Nat \ {0, 1} /\ Word % Size = 0
  BY Zenon, RingBufferAssumption
<1>2. (x + 1) % Size = (n + 1) % Size
  <2> x \in Nat
    BY <1>1
  <2>1. (x + 1) % Size = IF (x % Size) + 1 = Size THEN 0 ELSE (x % Size) + 1
    BY ZenonT(30), <1>1, ModSuccessor
  <2>2. (n + 1) % Size = IF (n % Size) + 1 = Size THEN 0 ELSE (n % Size) + 1
    BY ZenonT(30), <1>1, ModSuccessor
  <2> QED
    BY Zenon, <2>1, <2>2
<1>3. CASE x + 1 = Word
  <2>1. (x + 1) % Word = 0 /\ 0 % Size = 0
    BY <1>1, <1>3
  <2> QED
    BY <1>1, <1>2, <1>3, <2>1
<1>4. CASE x + 1 # Word
  <2>1. (x + 1) % Word = x + 1
    BY <1>1, <1>4
  <2> QED
    BY <1>1, <1>2, <1>4, <2>1
<1> QED
  BY Zenon, <1>3, <1>4

(***************************************************************************)
(* The ring buffer: the inductive invariant                                *)
(***************************************************************************)

RingTypeOK ==
    /\ readIndex \in 0..(Word - 1) /\ writeIndex \in 0..(Word - 1)
    /\ pushes \in Nat /\ pulled \in Seq(Nat)
    /\ buffer \in [0..(Size - 1) -> Nat \union {Nil}]
    /\ producer \in [Producers -> [pc : {"idle", "signal", "broadcast"}]
                                 \union [pc : {"store"}, slot : 0..(Size - 1), item : Nat]]
    /\ closed \in BOOLEAN /\ value \in BOOLEAN /\ overrun \in BOOLEAN
    /\ consumer \in {"pull", "empty", "wait", "asleep", "awake", "returned"}
    /\ closer \in {"idle", "signal", "broadcast", "done"}

Storing(p) == producer[p].pc = "store"

\* An item is in one place: with its producer, in one slot, or pulled once.
ItemsOnce ==
    /\ \A p \in Producers : Storing(p) =>
        /\ producer[p].item \in 1..pushes
        /\ \A q \in Producers \ {p} : Storing(q) => producer[q].item # producer[p].item
        /\ \A s \in 0..(Size - 1) : buffer[s] # producer[p].item
        /\ \A k \in 1..Len(pulled) : pulled[k] # producer[p].item
    /\ \A s \in 0..(Size - 1) : buffer[s] # Nil =>
        /\ buffer[s] \in 1..pushes
        /\ \A t \in 0..(Size - 1) \ {s} : buffer[t] # buffer[s]
        /\ \A k \in 1..Len(pulled) : pulled[k] # buffer[s]
    /\ \A k \in 1..Len(pulled) : pulled[k] \in 1..pushes
    /\ NoneTwice

\* The slot of an item is its number, and so are both indexes, up to the size.
SlotsExact ==
    /\ \A p \in Producers : Storing(p) => producer[p].slot = producer[p].item % Size
    /\ \A s \in 0..(Size - 1) : buffer[s] # Nil => buffer[s] % Size = s
    /\ readIndex % Size = (Len(pulled) + 1) % Size
    /\ writeIndex % Size = pushes % Size

\* Producers that are not too far ahead leave one candidate for each slot.
Ahead ==
    ~overrun => /\ pushes <= Len(pulled) + Size
                /\ \A k \in 1..Len(pulled) : pulled[k] = k

\* An item that was not pulled is on its way to its slot, or there.
NothingLost ==
    ~overrun => \A k \in (Len(pulled) + 1)..pushes :
        (\E p \in Producers : Storing(p) /\ producer[p].item = k) \/ buffer[k % Size] = k

\* Pull resets closed only when it returns.
CloseKept == closer # "idle" => closed \/ consumer = "returned"

Offered == buffer[readIndex % Size]   \* what Pull finds next

\* Whoever stores the item the consumer found missing, or closes the buffer, has
\* set the value of the event, or is still to do so, or to wake the consumer.
SomeoneWakes ==
    /\ consumer \in {"empty", "wait"} /\ Offered # Nil => value \/ \E p \in Producers : producer[p].pc = "signal"
    /\ consumer = "wait" /\ closed => value \/ closer = "signal"
    /\ consumer = "asleep" /\ Offered # Nil => \E p \in Producers : producer[p].pc \in {"signal", "broadcast"}
    /\ consumer = "asleep" /\ closed => closer \in {"signal", "broadcast"}

RingInv == RingTypeOK /\ ItemsOnce /\ SlotsExact /\ Ahead /\ NothingLost /\ CloseKept /\ SomeoneWakes

LEMMA InvImpliesSound == RingInv => RingBufferSound
<1> SUFFICES ASSUME RingInv
             PROVE  RingBufferSound
  OBVIOUS
<1>1. NoneTwice
  BY Zenon DEF RingInv, ItemsOnce
<1>2. InOrder
  BY DEF RingInv, RingTypeOK, Ahead, InOrder
<1>3. NoLostWakeup
  BY Zenon DEF RingInv, RingTypeOK, SomeoneWakes, Offered, NoLostWakeup
<1>4. AtRest
  <2> SUFFICES ASSUME Waiting
               PROVE  /\ closer = "done" => consumer = "returned"
                      /\ ~overrun /\ consumer # "returned" => Len(pulled) = pushes
    BY Zenon DEF AtRest
  <2>1. closer = "done" => consumer = "returned"
    BY Zenon, <1>3 DEF RingInv, CloseKept, NoLostWakeup, Waiting
  <2>2. ASSUME ~overrun, consumer # "returned", Len(pulled) # pushes
        PROVE  FALSE
    <3> DEFINE n == Len(pulled)
    <3>1. n \in Nat /\ pushes \in Nat /\ Size \in Nat \ {0} /\ readIndex % Size = (n + 1) % Size
      BY RingBufferAssumption DEF RingInv, RingTypeOK, SlotsExact
    <3>2. n <= pushes
      BY <2>2, <3>1 DEF RingInv, Ahead, ItemsOnce
    <3>3. buffer[(n + 1) % Size] = n + 1
      <4>1. n + 1 \in (n + 1)..pushes
        BY <2>2, <3>1, <3>2
      <4> QED
        BY Zenon, <2>2, <4>1 DEF RingInv, NothingLost, Waiting, Storing
    <3>4. buffer[readIndex % Size] = Nil
      BY Zenon, <1>3, <2>2 DEF NoLostWakeup, Waiting
    <3> QED
      BY <3>1, <3>3, <3>4, RingBufferAssumption
  <2> QED
    BY Zenon, <2>1, <2>2
<1> QED
  BY Zenon, <1>1, <1>2, <1>3, <1>4 DEF RingBufferSound, RingBufferSafe

LEMMA RingInitInv == RingInit => RingInv
<1> SUFFICES ASSUME RingInit
             PROVE  RingInv
  OBVIOUS
<1> USE RingBufferAssumption DEF RingInit
<1>1. RingTypeOK
  <2>1. buffer \in [0..(Size - 1) -> Nat \union {Nil}] /\ pulled \in Seq(Nat)
    OBVIOUS
  <2>2. closed \in BOOLEAN /\ value \in BOOLEAN /\ overrun \in BOOLEAN
    BY Zenon
  <2> QED
    BY <2>1, <2>2 DEF RingTypeOK
<1>4. SomeoneWakes
  BY Zenon DEF SomeoneWakes
<1>2. ItemsOnce /\ Ahead /\ NothingLost /\ CloseKept
  BY DEF ItemsOnce, NoneTwice, Ahead, NothingLost, CloseKept, Storing
<1>3. SlotsExact
  BY DEF SlotsExact, Storing
<1> QED
  BY Zenon, <1>1, <1>2, <1>3, <1>4 DEF RingInv

\* Push takes the next index, and with it the next number.
LEMMA PushIndexKeeps ==
    ASSUME RingInv, NEW p \in Producers, PushIndex(p)
    PROVE  RingInv'
<1> DEFINE index == (writeIndex + 1) % Word
<1>1. index \in 0..(Word - 1) /\ index % Size = (pushes + 1) % Size /\ index % Size \in 0..(Size - 1)
  <2>1. index \in 0..(Word - 1) /\ index % Size = (pushes + 1) % Size
    BY Zenon, IndexSuccessor DEF RingInv, RingTypeOK, SlotsExact
  <2> HIDE DEF index
  <2>2. index \in Nat /\ Size \in Nat \ {0}
    BY <2>1, RingBufferAssumption
  <2>3. index % Size \in 0..(Size - 1)
    BY Zenon, <2>2, DivMod
  <2> QED
    BY Zenon, <2>1, <2>3
<1>2. /\ writeIndex' = index /\ pushes' = pushes + 1
      /\ producer' = [producer EXCEPT ![p] = [pc |-> "store", slot |-> index % Size, item |-> pushes + 1]]
      /\ overrun' = (overrun \/ pushes + 1 > Len(pulled) + Size)
      /\ producer[p].pc = "idle"
      /\ UNCHANGED <<readIndex, closed, buffer, value, consumer, closer, pulled>>
  BY Zenon DEF PushIndex
<1> HIDE DEF index
<1>3. RingTypeOK'
  BY <1>1, <1>2 DEF RingInv, RingTypeOK
<1>4. ItemsOnce'
  <2> USE DEF RingInv, RingTypeOK, Storing
  <2>1. 1..pushes \subseteq 1..pushes' /\ pushes + 1 \in 1..pushes' /\ \A i \in 1..pushes : i # pushes + 1
    BY <1>2
  <2>2. producer'[p].item = pushes + 1 /\ \A q \in Producers \ {p} : producer'[q] = producer[q]
    BY Zenon, <1>2
  <2>3. \A s \in 0..(Size - 1) : buffer[s] # pushes + 1
    BY <2>1, RingBufferAssumption DEF ItemsOnce
  <2>4. \A k \in 1..Len(pulled) : pulled[k] # pushes + 1
    BY Zenon, <2>1 DEF ItemsOnce
  <2>5. ASSUME NEW q \in Producers, Storing(q)'
        PROVE  /\ producer'[q].item \in 1..pushes'
               /\ \A o \in Producers \ {q} : Storing(o)' => producer'[o].item # producer'[q].item
               /\ \A s \in 0..(Size - 1) : buffer'[s] # producer'[q].item
               /\ \A k \in 1..Len(pulled') : pulled'[k] # producer'[q].item
    BY <1>2, <2>1, <2>2, <2>3, <2>4, <2>5 DEF ItemsOnce
  <2>6. NoneTwice'
    BY ZenonT(30), <1>2 DEF ItemsOnce, NoneTwice
  <2> QED
    BY ZenonT(30), <1>2, <2>1, <2>5, <2>6 DEF ItemsOnce
<1>5. SlotsExact'
  BY Zenon, <1>1, <1>2 DEF RingInv, RingTypeOK, SlotsExact, Storing
<1>6. Ahead'
  <2>1. ~overrun' => ~overrun /\ ~(pushes + 1 > Len(pulled) + Size)
    BY <1>2, Zenon
  <2>2. Len(pulled) \in Nat /\ pushes \in Nat /\ Size \in Nat
    BY RingBufferAssumption DEF RingInv, RingTypeOK
  <2>3. pulled' = pulled /\ pushes' = pushes + 1
    BY Zenon, <1>2
  <2> QED
    BY <2>1, <2>2, <2>3 DEF RingInv, Ahead
<1>7. SomeoneWakes' /\ CloseKept'
  BY ZenonT(30), <1>2 DEF RingInv, RingTypeOK, SomeoneWakes, Offered, CloseKept
<1>8. NothingLost'
  <2> SUFFICES ASSUME ~overrun', NEW k \in (Len(pulled') + 1)..pushes'
               PROVE  (\E q \in Producers : Storing(q)' /\ producer'[q].item = k) \/ buffer'[k % Size] = k
    BY Zenon DEF NothingLost
  <2>1. ~overrun /\ pushes \in Nat /\ Len(pulled) \in Nat
    <3>1. ~overrun
      BY <1>2, Zenon
    <3> QED
      BY <3>1 DEF RingInv, RingTypeOK
  <2>2. producer'[p].pc = "store" /\ producer'[p].item = pushes + 1 /\ ~Storing(p)
        /\ \A q \in Producers \ {p} : producer'[q] = producer[q]
    BY Zenon, <1>2 DEF RingInv, RingTypeOK, Storing
  <2>3. CASE k = pushes + 1
    BY Zenon, <2>2, <2>3 DEF Storing
  <2>4. CASE k # pushes + 1
    <3>1. k \in (Len(pulled) + 1)..pushes
      BY <1>2, <2>1, <2>4
    <3> QED
      BY <1>2, <2>1, <2>2, <3>1 DEF RingInv, NothingLost, Storing
  <2> QED
    BY Zenon, <2>3, <2>4
<1> QED
  BY Zenon, <1>3, <1>4, <1>5, <1>6, <1>7, <1>8 DEF RingInv

LEMMA PushStoreKeeps ==
    ASSUME RingInv, NEW p \in Producers, PushStore(p)
    PROVE  RingInv'
<1> DEFINE s == producer[p].slot
           item == producer[p].item
<1>1. s \in 0..(Size - 1) /\ item \in 1..pushes /\ item \in Nat /\ item # Nil /\ s = item % Size
  <2>1. Storing(p) /\ s \in 0..(Size - 1)
    BY Zenon DEF PushStore, RingInv, RingTypeOK, Storing
  <2>2. item \in 1..pushes /\ s = item % Size
    BY <2>1 DEF RingInv, ItemsOnce, SlotsExact
  <2>3. item \in Nat
    <3>1. pushes \in Nat
      BY Zenon DEF RingInv, RingTypeOK
    <3> QED
      BY <2>2, <3>1
  <2> QED
    BY <2>1, <2>2, <2>3, RingBufferAssumption
<1>2. /\ Storing(p)
      /\ buffer' = [buffer EXCEPT ![s] = item]
      /\ producer' = [producer EXCEPT ![p] = [pc |-> "signal"]]
      /\ UNCHANGED <<readIndex, writeIndex, closed, value, consumer, closer, pushes, pulled, overrun>>
  BY Zenon DEF PushStore, Storing
<1>3. RingTypeOK'
  BY ZenonT(30), <1>1, <1>2 DEF RingInv, RingTypeOK
<1>4. ItemsOnce'
  BY <1>1, <1>2 DEF RingInv, RingTypeOK, ItemsOnce, NoneTwice, Storing
<1>5. SlotsExact'
  BY ZenonT(30), <1>1, <1>2 DEF RingInv, RingTypeOK, SlotsExact, Storing
<1>6. Ahead'
  BY Zenon, <1>2 DEF RingInv, Ahead
<1>7. SomeoneWakes' /\ CloseKept'
  <2>1. producer'[p].pc = "signal"
    BY Zenon, <1>2 DEF RingInv, RingTypeOK
  <2> QED
    BY Zenon, <1>2, <2>1 DEF RingInv, SomeoneWakes, CloseKept
<1>8. NothingLost'
  <2> SUFFICES ASSUME ~overrun, NEW k \in (Len(pulled) + 1)..pushes
               PROVE  (\E q \in Producers : Storing(q)' /\ producer'[q].item = k) \/ buffer'[k % Size] = k
    BY Zenon, <1>2 DEF NothingLost
  <2>1. pushes \in Nat /\ Len(pulled) \in Nat /\ Size \in Nat \ {0} /\ pushes <= Len(pulled) + Size /\ k \in Nat
    BY RingBufferAssumption DEF RingInv, RingTypeOK, Ahead
  <2>2. item \in (Len(pulled) + 1)..pushes
    <3>1. \A j \in 1..Len(pulled) : pulled[j] = j /\ pulled[j] # item
      BY Zenon, <1>2 DEF RingInv, Ahead, ItemsOnce
    <3> HIDE DEF item
    <3> QED
      BY <1>1, <2>1, <3>1
  <2>3. CASE k = item
    BY Zenon, <1>1, <1>2, <2>3 DEF RingInv, RingTypeOK
  <2>4. CASE k # item
    <3>1. k % Size # s
      <4> HIDE DEF item, s
      <4>1. item \in (Len(pulled) + 1)..(Len(pulled) + Size) /\ k \in (Len(pulled) + 1)..(Len(pulled) + Size)
        BY <2>1, <2>2
      <4> QED
        BY ZenonT(30), <1>1, <2>1, <2>4, <4>1, ModDistinct
    <3>2. k % Size \in 0..(Size - 1)
      BY ZenonT(30), <2>1, DivMod
    <3>3. buffer'[k % Size] = buffer[k % Size]
      BY Zenon, <1>1, <1>2, <3>1, <3>2 DEF RingInv, RingTypeOK
    <3>4. ASSUME NEW q \in Producers, Storing(q), producer[q].item = k
          PROVE  Storing(q)' /\ producer'[q].item = k
      BY Zenon, <1>2, <2>4, <3>4 DEF RingInv, RingTypeOK, Storing
    <3> QED
      BY Zenon, <3>3, <3>4 DEF RingInv, NothingLost
  <2> QED
    BY Zenon, <2>3, <2>4
<1> QED
  BY Zenon, <1>3, <1>4, <1>5, <1>6, <1>7, <1>8 DEF RingInv

\* The steps that only move a goroutine on, or change the event.
LEMMA EventKeeps ==
    ASSUME RingTypeOK', SomeoneWakes', RingInv,
           UNCHANGED <<readIndex, writeIndex, buffer, pushes, pulled, overrun>>,
           \A p \in Producers : Storing(p) \/ Storing(p)' => producer'[p] = producer[p],
           CloseKept'
    PROVE  RingInv'
<1>1. \A p \in Producers : Storing(p)' <=> Storing(p)
  BY Zenon DEF Storing
<1>2. ItemsOnce'
  BY <1>1 DEF RingInv, ItemsOnce, NoneTwice
<1>3. SlotsExact'
  BY Zenon, <1>1 DEF RingInv, SlotsExact
<1>4. Ahead' /\ NothingLost'
  BY Zenon, <1>1 DEF RingInv, Ahead, NothingLost
<1> QED
  BY Zenon, <1>2, <1>3, <1>4 DEF RingInv

LEMMA SignalKeeps ==
    ASSUME RingInv, NEW p \in Producers, PushSignal(p) \/ PushBroadcast(p)
    PROVE  RingInv'
<1>1. \A q \in Producers : /\ Storing(q) \/ Storing(q)' => producer'[q] = producer[q]
                           /\ q # p => producer'[q] = producer[q]
  BY DEF PushSignal, PushBroadcast, RingInv, RingTypeOK, Storing
<1>2. producer' \in [Producers -> [pc : {"idle", "signal", "broadcast"}]
                                  \union [pc : {"store"}, slot : 0..(Size - 1), item : Nat]]
  <2>1. PICK to \in {"idle", "broadcast"} : producer' = [producer EXCEPT ![p] = [pc |-> to]]
    BY Zenon DEF PushSignal, PushBroadcast
  <2>2. [pc |-> to] \in [pc : {"idle", "signal", "broadcast"}]
    OBVIOUS
  <2> QED
    BY Zenon, <2>1, <2>2 DEF RingInv, RingTypeOK
<1>3. RingTypeOK' /\ CloseKept'
  BY ZenonT(30), <1>2 DEF PushSignal, PushBroadcast, Woken, RingInv, RingTypeOK, CloseKept
<1>4. SomeoneWakes'
  <2>1. CASE PushSignal(p)
    <3>1. value' = TRUE /\ producer'[p].pc = "broadcast" /\ UNCHANGED <<consumer, closer, closed, readIndex, buffer>>
      BY Zenon, <2>1 DEF PushSignal, RingInv, RingTypeOK
    <3> QED
      BY Zenon, <1>1, <3>1 DEF RingInv, SomeoneWakes, Offered
  <2>2. CASE PushBroadcast(p)
    <3>1. /\ producer[p].pc = "broadcast" /\ UNCHANGED <<value, closer, closed, readIndex, buffer>>
          /\ consumer' # "asleep" /\ (consumer' \in {"empty", "wait"} => consumer' = consumer)
      BY Zenon, <2>2 DEF PushBroadcast, Woken
    <3> QED
      BY Zenon, <1>1, <3>1 DEF RingInv, SomeoneWakes, Offered
  <2> QED
    BY Zenon, <2>1, <2>2
<1> QED
  BY Zenon, <1>1, <1>3, <1>4, EventKeeps DEF PushSignal, PushBroadcast

LEMMA CloseKeeps ==
    ASSUME RingInv, Close
    PROVE  RingInv'
<1>1. UNCHANGED <<readIndex, writeIndex, buffer, pushes, pulled, overrun, producer>>
  BY Zenon DEF Close, CloseStore, CloseSignal, CloseBroadcast
<1>2. RingTypeOK' /\ CloseKept'
  <2>1. closed' \in BOOLEAN /\ value' \in BOOLEAN
    BY Zenon DEF Close, CloseStore, CloseSignal, CloseBroadcast, RingInv, RingTypeOK
  <2>2. /\ consumer' \in {"pull", "empty", "wait", "asleep", "awake", "returned"}
        /\ closer' \in {"idle", "signal", "broadcast", "done"}
    BY Zenon DEF Close, CloseStore, CloseSignal, CloseBroadcast, Woken, RingInv, RingTypeOK
  <2>3. CloseKept'
    BY Zenon DEF Close, CloseStore, CloseSignal, CloseBroadcast, Woken, RingInv, CloseKept
  <2> QED
    BY Zenon, <1>1, <2>1, <2>2, <2>3 DEF RingInv, RingTypeOK
<1>3. SomeoneWakes'
  <2>1. CASE CloseStore
    BY Zenon, <1>1, <2>1 DEF CloseStore, RingInv, SomeoneWakes, Offered
  <2>2. CASE CloseSignal
    BY Zenon, <1>1, <2>2 DEF CloseSignal, RingInv, SomeoneWakes, Offered
  <2>3. CASE CloseBroadcast
    BY Zenon, <1>1, <2>3 DEF CloseBroadcast, Woken, RingInv, SomeoneWakes, Offered
  <2> QED
    BY Zenon, <2>1, <2>2, <2>3 DEF Close
<1> QED
  BY Zenon, <1>1, <1>2, <1>3, EventKeeps

LEMMA WaitKeeps ==
    ASSUME RingInv, PullClosed \/ WaitBegins \/ WaitEnds
    PROVE  RingInv'
<1>1. UNCHANGED <<readIndex, writeIndex, buffer, pushes, pulled, overrun, producer, closer>>
  BY Zenon DEF PullClosed, WaitBegins, WaitEnds
<1>2. RingTypeOK' /\ CloseKept'
  <2>1. closed' \in BOOLEAN /\ value' \in BOOLEAN
    BY Zenon DEF PullClosed, WaitBegins, WaitEnds, RingInv, RingTypeOK
  <2>2. consumer' \in {"pull", "empty", "wait", "asleep", "awake", "returned"}
    BY Zenon DEF PullClosed, WaitBegins, WaitEnds
  <2>3. CloseKept'
    BY Zenon DEF PullClosed, WaitBegins, WaitEnds, RingInv, CloseKept
  <2> QED
    BY Zenon, <1>1, <2>1, <2>2, <2>3 DEF RingInv, RingTypeOK
<1>3. SomeoneWakes'
  <2>1. CASE PullClosed
    BY Zenon, <1>1, <2>1 DEF PullClosed, RingInv, SomeoneWakes, Offered
  <2>2. CASE WaitBegins
    BY Zenon, <1>1, <2>2 DEF WaitBegins, RingInv, SomeoneWakes, Offered
  <2>3. CASE WaitEnds
    BY Zenon, <1>1, <2>3 DEF WaitEnds, RingInv, SomeoneWakes, Offered
  <2> QED
    BY Zenon, <2>1, <2>2, <2>3
<1> QED
  BY Zenon, <1>1, <1>2, <1>3, EventKeeps

\* Pull takes the item of the slot whose turn it is: as long as the producers are
\* not too far ahead, that is the next one, because another item for this slot is
\* at least the size of the buffer away.
LEMMA PullSwapKeeps ==
    ASSUME RingInv, PullSwap
    PROVE  RingInv'
<1> DEFINE i == readIndex % Size
           item == buffer[i]
           n == Len(pulled)
<1>1. Size \in Nat \ {0} /\ readIndex \in Nat /\ n \in Nat /\ pushes \in Nat
  BY RingBufferAssumption DEF RingInv, RingTypeOK
<1>2. i \in 0..(Size - 1) /\ i = (n + 1) % Size
  BY Zenon, <1>1, DivMod DEF RingInv, SlotsExact
<1> HIDE DEF i, n
<1>3. buffer' = [buffer EXCEPT ![i] = Nil]
      /\ UNCHANGED <<writeIndex, closed, value, producer, closer, pushes, overrun>>
  BY Zenon DEF PullSwap, i
<1>4. CASE item = Nil
  <2>1. buffer' = buffer /\ UNCHANGED <<readIndex, pulled>> /\ consumer' = "empty"
    BY Zenon, <1>2, <1>3, <1>4 DEF PullSwap, RingInv, RingTypeOK, i
  <2>2. RingTypeOK'
    BY ZenonT(30), <1>3, <2>1 DEF RingInv, RingTypeOK
  <2>3. CloseKept'
    BY <1>3 DEF PullSwap, RingInv, CloseKept
  <2>4. SomeoneWakes'
    BY Zenon, <1>4, <2>1 DEF SomeoneWakes, Offered, i
  <2> QED
    BY Zenon, <1>3, <2>1, <2>2, <2>3, <2>4, EventKeeps DEF Storing
<1>5. CASE item # Nil
  <2>1. /\ pulled' = Append(pulled, item) /\ readIndex' = (readIndex + 1) % Word
        /\ consumer = "pull" /\ consumer' = "pull"
    BY Zenon, <1>5 DEF PullSwap, i
  <2>2. item \in 1..pushes /\ item \in Nat /\ item % Size = i /\ \A k \in 1..n : pulled[k] # item
    BY <1>2, <1>5, <1>1 DEF RingInv, ItemsOnce, SlotsExact, n
  <2>3. /\ Len(pulled') = n + 1 /\ pulled' \in Seq(Nat) /\ pulled'[n + 1] = item
        /\ \A k \in 1..n : pulled'[k] = pulled[k]
    BY <1>1, <2>1, <2>2 DEF RingInv, RingTypeOK, n
  <2>4. readIndex' \in 0..(Word - 1) /\ readIndex' % Size = (n + 2) % Size
    <3>1. readIndex % Size = (n + 1) % Size /\ n + 1 \in Nat
      BY <1>1, <1>2 DEF i
    <3>2. readIndex' \in 0..(Word - 1) /\ readIndex' % Size = ((n + 1) + 1) % Size
      BY Zenon, <2>1, <3>1, IndexSuccessor DEF RingInv, RingTypeOK
    <3> QED
      BY <1>1, <3>2
  <2>5. RingTypeOK' /\ CloseKept'
    <3>1. CloseKept'
      BY Zenon, <1>3, <2>1 DEF RingInv, CloseKept
    <3> QED
      BY ZenonT(30), <1>3, <2>1, <2>3, <2>4, <3>1 DEF RingInv, RingTypeOK
  <2>6. ItemsOnce'
    <3>2. \A k \in 1..Len(pulled') : (k \in 1..n /\ pulled'[k] = pulled[k]) \/ (k = n + 1 /\ pulled'[k] = item)
      BY <1>1, <2>3
    <3> USE DEF RingInv, RingTypeOK, Storing
    <3>1. /\ buffer'[i] = Nil
          /\ \A s \in 0..(Size - 1) \ {i} : buffer'[s] = buffer[s] /\ buffer[s] # item
      BY Zenon, <1>2, <1>3, <1>5 DEF ItemsOnce
    <3>3. NoneTwice'
      <4>1. \A j, k \in 1..n : j # k => pulled[j] # pulled[k]
        BY Zenon DEF NoneTwice, ItemsOnce, n
      <4> QED
        BY ZenonT(30), <2>2, <3>2, <4>1 DEF NoneTwice
    <3>4. ASSUME NEW p \in Producers, Storing(p)'
          PROVE  /\ producer'[p].item \in 1..pushes'
                 /\ \A q \in Producers \ {p} : Storing(q)' => producer'[q].item # producer'[p].item
                 /\ \A s \in 0..(Size - 1) : buffer'[s] # producer'[p].item
                 /\ \A k \in 1..Len(pulled') : pulled'[k] # producer'[p].item
      <4>1. producer[p].item \in Nat /\ producer[p].item # Nil /\ producer[p].item # item
        BY <1>2, <1>3, <3>4, RingBufferAssumption DEF ItemsOnce
      <4> QED
        BY <1>2, <1>3, <3>1, <3>2, <3>4, <4>1 DEF ItemsOnce, n
    <3>5. ASSUME NEW s \in 0..(Size - 1), buffer'[s] # Nil
          PROVE  /\ buffer'[s] \in 1..pushes'
                 /\ \A t \in 0..(Size - 1) \ {s} : buffer'[t] # buffer'[s]
                 /\ \A k \in 1..Len(pulled') : pulled'[k] # buffer'[s]
      <4>1. s # i /\ buffer'[s] = buffer[s] /\ buffer[s] # item /\ buffer[s] # Nil
        BY Zenon, <3>1, <3>5
      <4>2. buffer[s] \in 1..pushes'
        BY Zenon, <1>3, <4>1 DEF ItemsOnce
      <4>3. \A t \in 0..(Size - 1) \ {s} : buffer'[t] # buffer[s]
        BY ZenonT(30), <3>1, <4>1 DEF ItemsOnce
      <4>4. \A k \in 1..Len(pulled') : pulled'[k] # buffer[s]
        BY ZenonT(30), <3>2, <4>1 DEF ItemsOnce, n
      <4> QED
        BY Zenon, <4>1, <4>2, <4>3, <4>4
    <3>6. \A k \in 1..Len(pulled') : pulled'[k] \in 1..pushes'
      BY Zenon, <1>3, <2>2, <3>2 DEF ItemsOnce, n
    <3> QED
      BY Zenon, <3>3, <3>4, <3>5, <3>6 DEF ItemsOnce
  <2>7. SlotsExact'
    <3>1. \A s \in 0..(Size - 1) : buffer'[s] # Nil => buffer'[s] = buffer[s]
      BY Zenon, <1>2, <1>3 DEF RingInv, RingTypeOK
    <3>2. readIndex' % Size = (Len(pulled') + 1) % Size
      BY <1>1, <2>3, <2>4
    <3> QED
      BY Zenon, <1>3, <3>1, <3>2 DEF RingInv, SlotsExact, Storing
  <2>8. Ahead'
    <3> SUFFICES ASSUME ~overrun'
                 PROVE  /\ pushes' <= Len(pulled') + Size
                        /\ \A k \in 1..Len(pulled') : pulled'[k] = k
      BY Zenon DEF Ahead
    <3>1. pushes <= n + Size /\ \A k \in 1..n : pulled[k] = k
      BY Zenon, <1>3 DEF RingInv, Ahead, n
    <3>2. item >= n + 1
      BY <1>1, <2>2, <3>1
    <3>3. ~(n + 1 < item)
      BY <1>1, <1>2, <2>2, <3>1, ModApart
    <3>4. item = n + 1
      BY <1>1, <2>2, <3>2, <3>3
    <3> HIDE DEF item
    <3> QED
      BY <1>1, <1>3, <2>3, <3>1, <3>4
  <2>9. SomeoneWakes'
    BY Zenon, <2>1 DEF SomeoneWakes
  <2>10. NothingLost'
    <3> SUFFICES ASSUME ~overrun, NEW k \in (n + 2)..pushes
                 PROVE  (\E q \in Producers : Storing(q)' /\ producer'[q].item = k) \/ buffer'[k % Size] = k
      <4>1. overrun' = overrun /\ pushes' = pushes /\ Len(pulled') + 1 = n + 2
        BY <1>1, <1>3, <2>3
      <4> QED
        BY Zenon, <4>1 DEF NothingLost
    <3>1. pushes <= n + Size
      BY Zenon DEF RingInv, Ahead, n
    <3>2. k \in Nat /\ k \in (n + 1)..pushes /\ k # n + 1
          /\ k \in (n + 1)..(n + Size) /\ n + 1 \in (n + 1)..(n + Size)
      BY <1>1, <3>1
    <3>3. k % Size \in 0..(Size - 1)
      BY Zenon, <1>1, <3>2, DivMod
    <3>4. k % Size # i
      BY ZenonT(30), <1>1, <1>2, <3>2, ModDistinct
    <3>5. buffer'[k % Size] = buffer[k % Size]
      BY Zenon, <1>2, <1>3, <3>3, <3>4 DEF RingInv, RingTypeOK
    <3> QED
      BY Zenon, <1>3, <3>2, <3>5 DEF RingInv, NothingLost, Storing, n
  <2> QED
    BY Zenon, <2>5, <2>6, <2>7, <2>8, <2>9, <2>10 DEF RingInv
<1> QED
  BY Zenon, <1>4, <1>5

\* Packets are pulled in the order in which they were pushed and none is pulled
\* twice, the consumer does not sleep over a packet or over Close, and when nobody
\* is in the middle of a call the consumer has returned or has pulled everything
\* (RingBuffer.Push, Pull and Close, event.signal and event.wait).
THEOREM RingBufferAlwaysSound == RingSpec => []RingBufferSound
<1>1. RingInv /\ [RingNext]_ringVars => RingInv'
  <2> SUFFICES ASSUME RingInv, [RingNext]_ringVars
               PROVE  RingInv'
    OBVIOUS
  <2>1. CASE UNCHANGED ringVars
    <3>1. RingTypeOK' /\ SomeoneWakes' /\ CloseKept'
      BY <2>1 DEF ringVars, RingInv, RingTypeOK, SomeoneWakes, Offered, CloseKept
    <3> QED
      BY Zenon, <2>1, <3>1, EventKeeps DEF ringVars, Storing
  <2>2. CASE Pull
    BY Zenon, <2>2, PullSwapKeeps, WaitKeeps DEF Pull
  <2>3. ASSUME NEW p \in Producers, Push(p)
        PROVE  RingInv'
    BY Zenon, <2>3, PushIndexKeeps, PushStoreKeeps, SignalKeeps DEF Push
  <2> QED
    BY Zenon, <2>1, <2>2, <2>3, CloseKeeps DEF RingNext
<1> QED
  BY <1>1, RingInitInv, InvImpliesSound, PTL DEF RingSpec
=============================================================================
