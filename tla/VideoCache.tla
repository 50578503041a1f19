----------------------------- MODULE VideoCache -----------------------------
(***************************************************************************)
(* The cache-aside of video entities: a process-local cache (L1, 5 s) over *)
(* Redis (L2, 1 h) over the database.  GetByID loads through a             *)
(* singleflight group, GetByIDs loads what it misses in one query; every   *)
(* writer of a video commits first and deletes the L2 entry afterwards.    *)
(* A video's content is a version number that each commit raises.          *)
(***************************************************************************)
EXTENDS Integers, FiniteSets

CONSTANTS
  Videos,
  Readers,      \* calls of GetByID or GetByIDs, in one API process
  Writers,      \* calls that change or delete a video, in any process
  NoReader, NoVideo,
  Absent,       \* nothing cached
  Gone,         \* no row
  MaxCacheFaults    \* bound: failed calls and crashes in a behaviour

ASSUME VideoCacheAssumption ==
  /\ IsFiniteSet(Videos)
  /\ NoReader \notin Readers /\ NoVideo \notin Videos
  /\ Absent # Gone /\ Absent \notin Nat /\ Gone \notin Nat
  /\ MaxCacheFaults \in Nat

VARIABLES
  db,           \* the row of a video: its version, or Gone
  l2,           \* video:entity:<id> in Redis
  l1,           \* the local cache of the API process
  flight,       \* the reader that leads the singleflight call of a video
  rpc,
  want,         \* videos a reader still has to find
  got,          \* what it has found
  wpc, target,  \* a writer and its video
  cacheFaults,
  \* observers, read by no action
  overtaken,    \* videos whose L2 entry went while a reader still held an older row
  uncleared     \* videos whose deletion from L2 failed or was never tried

reader == <<flight, rpc, want, got>>
writer == <<wpc, target>>
cacheObservers == <<overtaken, uncleared>>
cacheVars == <<db, l2, l1, reader, writer, cacheFaults, cacheObservers>>

Version == Nat
None == [v \in Videos |-> Absent]

CacheTypeOK ==
  /\ db \in [Videos -> Version \cup {Gone}]
  /\ l2 \in [Videos -> Version \cup {Absent}]
  /\ l1 \in [Videos -> Version \cup {Absent}]
  /\ flight \in [Videos -> Readers \cup {NoReader}]
  /\ rpc \in [Readers -> {"idle", "l2", "join", "wait", "again", "load", "store",
                          "mget", "loadAll", "storeAll", "done", "failed"}]
  /\ want \in [Readers -> SUBSET Videos]
  /\ got \in [Readers -> [Videos -> Version \cup {Absent}]]
  /\ wpc \in [Writers -> {"idle", "del", "done"}]
  /\ target \in [Writers -> Videos \cup {NoVideo}]
  /\ cacheFaults \in 0..MaxCacheFaults
  /\ overtaken \in SUBSET Videos
  /\ uncleared \in SUBSET Videos

CacheInit ==
  /\ db = [v \in Videos |-> 0]
  /\ l2 = None /\ l1 = None
  /\ flight = [v \in Videos |-> NoReader]
  /\ rpc = [r \in Readers |-> "idle"]
  /\ want = [r \in Readers |-> {}]
  /\ got = [r \in Readers |-> None]
  /\ wpc = [w \in Writers |-> "idle"]
  /\ target = [w \in Writers |-> NoVideo]
  /\ cacheFaults = 0
  /\ overtaken = {} /\ uncleared = {}

CacheFault == cacheFaults < MaxCacheFaults /\ cacheFaults' = cacheFaults + 1
NoCacheFault == UNCHANGED cacheFaults
CacheGoto(r, label) == rpc' = [rpc EXCEPT ![r] = label]
Wanted(r) == CHOOSE v \in want[r] : TRUE
Others == <<db, writer, cacheObservers>>

----------------------------------------------------------------------------
(* GetByID *)

BeginOne(r, v) ==
  /\ rpc[r] = "idle"
  /\ want' = [want EXCEPT ![r] = {v}]
  /\ got' = [got EXCEPT ![r][v] = l1[v]]
  /\ CacheGoto(r, IF l1[v] = Absent THEN "l2" ELSE "done")
  /\ UNCHANGED <<Others, l2, l1, flight, cacheFaults>>

\* Redis has the entity, or not, or does not answer; a hit refills L1.
LookL2(r, hit, miss) ==
  LET v == Wanted(r) IN
  \/ /\ NoCacheFault /\ l2[v] # Absent
     /\ l1' = [l1 EXCEPT ![v] = l2[v]]
     /\ got' = [got EXCEPT ![r][v] = l2[v]]
     /\ hit
  \/ /\ \/ NoCacheFault /\ l2[v] = Absent
        \/ CacheFault /\ l2[v] # Absent
     /\ miss
     /\ UNCHANGED <<l1, got>>

GetL2(r) ==
  /\ rpc[r] = "l2"
  /\ LookL2(r, CacheGoto(r, "done"), CacheGoto(r, "join"))
  /\ UNCHANGED <<Others, l2, flight, want>>

\* group.Do: the first caller leads, later ones wait for its result.
Join(r) ==
  LET v == Wanted(r) IN
  /\ rpc[r] = "join"
  /\ \/ flight[v] = NoReader /\ flight' = [flight EXCEPT ![v] = r] /\ CacheGoto(r, "again")
     \/ flight[v] # NoReader /\ UNCHANGED flight /\ CacheGoto(r, "wait")
  /\ UNCHANGED <<Others, l2, l1, want, got, cacheFaults>>

Flock(v) == {r \in Readers : rpc[r] = "wait" /\ want[r] = {v}}

\* The call returns: everybody who waited for it gets the leader's result.
Land(r, label, value) ==
  LET v == Wanted(r)
      all == Flock(v) \cup {r}
  IN /\ flight' = [flight EXCEPT ![v] = NoReader]
     /\ rpc' = [x \in Readers |-> IF x \in all THEN label ELSE rpc[x]]
     /\ got' = [x \in Readers |-> IF x \in all THEN [got[x] EXCEPT ![v] = value] ELSE got[x]]

\* The second look at Redis, under the flight.
GetL2Again(r) ==
  LET v == Wanted(r) IN
  /\ rpc[r] = "again"
  /\ \/ /\ NoCacheFault /\ l2[v] # Absent
        /\ l1' = [l1 EXCEPT ![v] = l2[v]]
        /\ Land(r, "done", l2[v])
     \/ /\ \/ NoCacheFault /\ l2[v] = Absent
           \/ CacheFault /\ l2[v] # Absent
        /\ CacheGoto(r, "load")
        /\ UNCHANGED <<l1, flight, got>>
  /\ UNCHANGED <<Others, l2, want>>

Load(r) ==
  LET v == Wanted(r) IN
  /\ rpc[r] = "load"
  /\ db[v] # Gone
  /\ got' = [got EXCEPT ![r][v] = db[v]]
  /\ CacheGoto(r, "store")
  /\ UNCHANGED <<Others, l2, l1, flight, want, cacheFaults>>

\* Mutant: the group does not forget a call that failed.
LoadFailsForGood(r) ==
  LET v == Wanted(r) IN
  /\ rpc[r] = "load"
  /\ (db[v] = Gone /\ NoCacheFault) \/ CacheFault
  /\ CacheGoto(r, "failed")
  /\ UNCHANGED <<Others, l2, l1, flight, want, got>>

\* There is no row, or the query fails (the leader's request was cancelled, for
\* one): everybody gets the error.
LoadFails(r) ==
  LET v == Wanted(r) IN
  /\ rpc[r] = "load"
  /\ (db[v] = Gone /\ NoCacheFault) \/ CacheFault
  /\ Land(r, "failed", Absent)
  /\ UNCHANGED <<Others, l2, l1, want>>

\* SetBytes, whose error is ignored, then the local cache.
StoreEntity(v, value) ==
  /\ l1' = [l1 EXCEPT ![v] = value]
  /\ \/ NoCacheFault /\ l2' = [l2 EXCEPT ![v] = value]
     \/ CacheFault /\ UNCHANGED l2

Store(r) ==
  LET v == Wanted(r) IN
  /\ rpc[r] = "store"
  /\ StoreEntity(v, got[r][v])
  /\ Land(r, "done", got[r][v])
  /\ UNCHANGED <<Others, want>>

----------------------------------------------------------------------------
(* GetByIDs *)

\* Done as soon as nothing is wanted.
Go(r, rest, label) ==
  /\ want' = [want EXCEPT ![r] = rest]
  /\ CacheGoto(r, IF rest = {} THEN "done" ELSE label)

Take(r, S, level) == got' = [got EXCEPT ![r] = [v \in Videos |-> IF v \in S THEN level[v] ELSE @[v]]]

BeginMany(r, S) ==
  LET hits == {v \in S : l1[v] # Absent} IN
  /\ rpc[r] = "idle"
  /\ Take(r, hits, l1)
  /\ Go(r, S \ hits, "mget")
  /\ UNCHANGED <<Others, l2, l1, flight, cacheFaults>>

\* One MGET; when it fails everything comes from the database.
MGet(r) ==
  LET hits == {v \in want[r] : l2[v] # Absent} IN
  /\ rpc[r] = "mget"
  /\ \/ /\ NoCacheFault
        /\ Take(r, hits, l2)
        /\ l1' = [v \in Videos |-> IF v \in hits THEN l2[v] ELSE l1[v]]
        /\ Go(r, want[r] \ hits, "loadAll")
     \/ CacheFault /\ CacheGoto(r, "loadAll") /\ UNCHANGED <<l1, got, want>>
  /\ UNCHANGED <<Others, l2, flight>>

\* Videos without a row are left out of the answer.
LoadAll(r) ==
  LET found == {v \in want[r] : db[v] # Gone} IN
  /\ rpc[r] = "loadAll"
  /\ \/ NoCacheFault /\ Take(r, found, db) /\ Go(r, found, "storeAll")
     \/ CacheFault /\ CacheGoto(r, "failed") /\ UNCHANGED <<want, got>>
  /\ UNCHANGED <<Others, l2, l1, flight>>

\* One video after the other.
StoreNext(r) ==
  /\ rpc[r] = "storeAll"
  /\ \E v \in want[r] :
       /\ StoreEntity(v, got[r][v])
       /\ Go(r, want[r] \ {v}, "storeAll")
  /\ UNCHANGED <<Others, flight, got>>

----------------------------------------------------------------------------
(* The writers (SetRating, the comments' Create and Delete, DeleteVideo)     *)

\* Mutant: the entry is left in Redis.
CommitOnly(w, v) ==
  /\ wpc[w] = "idle" /\ db[v] # Gone
  /\ \/ db' = [db EXCEPT ![v] = @ + 1]
     \/ db' = [db EXCEPT ![v] = Gone]
  /\ target' = [target EXCEPT ![w] = v]
  /\ wpc' = [wpc EXCEPT ![w] = "done"]
  /\ UNCHANGED <<l2, l1, reader, cacheFaults, cacheObservers>>

Commit(w, v) ==
  /\ wpc[w] = "idle" /\ db[v] # Gone
  /\ \/ db' = [db EXCEPT ![v] = @ + 1]
     \/ db' = [db EXCEPT ![v] = Gone]
  /\ target' = [target EXCEPT ![w] = v]
  /\ wpc' = [wpc EXCEPT ![w] = "del"]
  /\ UNCHANGED <<l2, l1, reader, cacheFaults, cacheObservers>>

\* A reader holds a row of the video that it will store and that is out of date.
Lagging(v) ==
  \E r \in Readers : /\ rpc[r] \in {"store", "storeAll"} /\ v \in want[r]
                     /\ got[r][v] # db[v]

\* The entry goes, by deletion or expiry.
Drop(v) ==
  /\ l2' = [l2 EXCEPT ![v] = Absent]
  /\ overtaken' = IF Lagging(v) THEN overtaken \cup {v} ELSE overtaken \ {v}
  /\ uncleared' = uncleared \ {v}

DelEntity(w) ==
  /\ wpc[w] = "del"
  /\ Drop(target[w])
  /\ wpc' = [wpc EXCEPT ![w] = "done"]
  /\ UNCHANGED <<db, l1, reader, target, cacheFaults>>

\* The deletion fails and is only logged, or the writer's process dies before it.
DelFails(w) ==
  /\ wpc[w] = "del"
  /\ CacheFault
  /\ uncleared' = uncleared \cup {target[w]}
  /\ wpc' = [wpc EXCEPT ![w] = "done"]
  /\ UNCHANGED <<db, l2, l1, reader, target, overtaken>>

----------------------------------------------------------------------------
\* Mutant: the entity is stored without a time to live.
ExpireNever(v) == FALSE /\ UNCHANGED cacheVars

ExpireL2(v) ==
  /\ l2[v] # Absent
  /\ Drop(v)
  /\ UNCHANGED <<db, l1, reader, writer, cacheFaults>>

ExpireL1(v) ==
  /\ l1[v] # Absent
  /\ l1' = [l1 EXCEPT ![v] = Absent]
  /\ UNCHANGED <<db, l2, reader, writer, cacheFaults, cacheObservers>>

GetByID(r) == GetL2(r) \/ Join(r) \/ GetL2Again(r) \/ Load(r) \/ LoadFails(r) \/ Store(r)
GetByIDs(r) == MGet(r) \/ LoadAll(r) \/ StoreNext(r)

CacheNext ==
  \/ \E r \in Readers : \/ \E v \in Videos : BeginOne(r, v)
                        \/ \E S \in SUBSET Videos \ {{}} : BeginMany(r, S)
                        \/ GetByID(r) \/ GetByIDs(r)
  \/ \E w \in Writers : DelEntity(w) \/ DelFails(w) \/ \E v \in Videos : Commit(w, v)
  \/ \E v \in Videos : ExpireL2(v) \/ ExpireL1(v)

CacheSpec == CacheInit /\ [][CacheNext]_cacheVars

\* Requests run to their end; entries expire.
CacheFairSpec ==
  /\ CacheSpec
  /\ \A r \in Readers : WF_cacheVars(GetByID(r) \/ GetByIDs(r))
  /\ \A v \in Videos : WF_cacheVars(ExpireL2(v)) /\ WF_cacheVars(ExpireL1(v))

----------------------------------------------------------------------------
(* Properties *)

\* Redis holds an out-of-date entity only while a writer is about to delete it,
\* after that deletion failed, or because a reader that had read the older row
\* stored it once the entry was gone.
StaleEntityExplained ==
  \A v \in Videos :
    l2[v] \notin {Absent, db[v]} =>
      \/ \E w \in Writers : wpc[w] = "del" /\ target[w] = v
      \/ v \in uncleared \cup overtaken

\* Every read returns, in particular to the readers that wait for another one's
\* load, whatever fails.
ReadsReturn == \A r \in Readers : rpc[r] # "idle" ~> rpc[r] \in {"done", "failed"}

\* Once the writes are over both caches agree with the database for good, however
\* stale they were: the times to live make up for every lost deletion.
CachesConverge ==
  <>[](\A v \in Videos : l2[v] \in {Absent, db[v]} /\ l1[v] \in {Absent, db[v]})
============================================================================
