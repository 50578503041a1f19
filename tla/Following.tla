----------------------------- MODULE Following ------------------------------
(***************************************************************************)
(* The following feed of one user (the fan): his follows, the sorted set   *)
(* feed:following:<fan> that caches his feed, and everything that writes   *)
(* it: the lazy rebuild, the backfill of a new follow, the clearing of an  *)
(* unfollow, the fan-out of new videos and the time to live.  The feed he  *)
(* reads is Paging's, over the set and the table.                          *)
(*                                                                         *)
(* Timeline models how a publication becomes an event; here it is one step.*)
(***************************************************************************)
EXTENDS Sequences, Paging

CONSTANTS
  Authors,
  AuthorOf,           \* of each video; a video is its id
  Lag,                \* from a video's time to that of its outbox row, its score
  RebuildLimit,       \* 1000
  BackfillLimit,      \* 100
  MaxTries,           \* attempts of the consumer per event (3)
  Stored,             \* videos published long before, of which no event is left
  Requests,           \* requests of the fan; each runs once
  NoAuthor,
  MaxFaults           \* bound: failed calls and crashes in a behaviour

VARIABLES
  published, db,      \* the newest id; videos table
  follows,            \* socials table: the authors the fan follows
  queue,              \* timeline.events, delivered from the head
  timeline, ttl,      \* feed:following:<fan>, no members = no key; has it a time to live
  cur, consPc, tries, fan,     \* the consumer; fan: the fan is in its list
  pc, author, authors, snap,   \* the requests, and what they have read
  faults,
  \* observers, read by no action
  dropped,            \* videos whose fan-out was given up or never tried
  holes,              \* the set was made, or reaches further down, without a rebuild
  gap,                \* authors it may lack: followed during a rebuild, or not wholly backfilled
  foreign             \* authors it may show unfollowed: not cleared, or written after it

Videos == DOMAIN TimeOf
NoVideo == 0

ASSUME FollowingAssumption ==
  /\ NoAuthor \notin Authors
  /\ AuthorOf \in [Videos -> Authors]
  /\ Lag \in Nat /\ \A v \in Videos : TimeOf[v] + Lag < Now
  \* a video has its time before its id, and its outbox row has its own after it
  /\ \A v, w \in Videos : v < w => TimeOf[v] <= TimeOf[w] + Lag
  /\ Stored \in Nat /\ 1..Stored \subseteq Videos
  /\ RebuildLimit \in Nat \ {0} /\ BackfillLimit \in Nat \ {0}
  /\ MaxTries \in Nat \ {0} /\ MaxFaults \in Nat

videos == <<published, db>>
redis == <<timeline, ttl>>
consumer == <<cur, consPc, tries, fan>>
locals == <<author, authors, snap>>
requests == <<pc, locals>>
observers == <<dropped, holes, gap, foreign>>
vars == <<videos, follows, queue, redis, consumer, requests, faults, observers>>

Rebuilding == {"authors", "videos", "rebuild"}
Backfilling == {"exists", "list", "backfill"}
PCs == {"idle", "ttl", "del", "done"} \cup Rebuilding \cup Backfilling

TypeOK ==
  /\ published \in {0} \cup Videos /\ db \in SUBSET Videos
  /\ follows \in SUBSET Authors
  /\ queue \in Seq(Videos)
  /\ DOMAIN timeline \in SUBSET (Videos \cup {Placeholder})
  /\ \A m \in DOMAIN timeline :
       timeline[m] \in IF m = Placeholder THEN {0} ELSE {TimeOf[m], TimeOf[m] + Lag}
  /\ ttl \in BOOLEAN /\ (ttl => timeline # <<>>)
  /\ cur \in Videos \cup {NoVideo} /\ consPc \in {"idle", "list", "add", "ack"}
  /\ tries \in 0..MaxTries-1 /\ fan \in BOOLEAN
  /\ pc \in [Requests -> PCs]
  /\ author \in [Requests -> Authors \cup {NoAuthor}]
  /\ authors \in [Requests -> SUBSET Authors]
  /\ snap \in [Requests -> SUBSET Videos]
  /\ faults \in 0..MaxFaults
  /\ dropped \in SUBSET Videos /\ holes \in BOOLEAN
  /\ gap \in SUBSET Authors /\ foreign \in SUBSET Authors

Init ==
  /\ published = Stored /\ db = 1..Stored
  /\ follows \in SUBSET Authors
  /\ queue = <<>>
  /\ timeline = <<>> /\ ttl = FALSE
  /\ cur = NoVideo /\ consPc = "idle" /\ tries = 0 /\ fan = FALSE
  /\ pc = [r \in Requests |-> "idle"]
  /\ author = [r \in Requests |-> NoAuthor]
  /\ authors = [r \in Requests |-> {}]
  /\ snap = [r \in Requests |-> {}]
  /\ faults = 0
  /\ dropped = {} /\ holes = FALSE /\ gap = {} /\ foreign = {}

Fault == faults < MaxFaults /\ faults' = faults + 1
NoFault == UNCHANGED faults
Exists == timeline # <<>>
By(S) == {v \in db : AuthorOf[v] \in S}

\* What a rebuild adds.  Mutant: the placeholder is scored by the clock.
MembersScored(vs) == IF vs = {} THEN [m \in {Placeholder} |-> Now] ELSE [m \in vs |-> TimeOf[m]]
Members(vs) == IF vs = {} THEN [m \in {Placeholder} |-> 0] ELSE [m \in vs |-> TimeOf[m]]

\* ZADD: members keep one score, the last one given.
Add(scores) ==
  timeline' = [m \in DOMAIN timeline \cup DOMAIN scores |->
                 IF m \in DOMAIN scores THEN scores[m] ELSE timeline[m]]

----------------------------------------------------------------------------
(* Videos come and go; a deletion leaves the following feeds as they are.   *)

\* The poller's direct write, or a lost event, fans out to nobody.
Publish ==
  /\ published + 1 \in Videos
  /\ published' = published + 1
  /\ db' = db \cup {published'}
  /\ \/ NoFault /\ queue' = Append(queue, published') /\ UNCHANGED dropped
     \/ Fault /\ dropped' = dropped \cup {published'} /\ UNCHANGED queue
  /\ UNCHANGED <<follows, redis, consumer, requests, holes, gap, foreign>>

DeleteVideo(v) ==
  /\ db' = db \ {v}
  /\ UNCHANGED <<published, follows, queue, redis, consumer, requests, faults, observers>>

----------------------------------------------------------------------------
(* TimelineHandler: the fan-out of one event *)

Receive ==
  /\ consPc = "idle" /\ queue # <<>>
  /\ cur' = Head(queue) /\ queue' = Tail(queue)
  /\ consPc' = "list"
  /\ UNCHANGED <<videos, follows, redis, tries, fan, requests, faults, observers>>

ListFanIDs ==
  /\ consPc = "list"
  /\ fan' = (AuthorOf[cur] \in follows)
  /\ consPc' = "add"
  /\ UNCHANGED <<videos, follows, queue, redis, cur, tries, requests, faults, observers>>

\* ZAddFanout: a missing key is made, of this one video and without a time to live.
ZAddFanout ==
  /\ consPc = "add"
  /\ IF fan THEN Add([m \in {cur} |-> TimeOf[m] + Lag]) ELSE UNCHANGED timeline
  /\ holes' = (holes \/ (fan /\ ~Exists))
  /\ consPc' = "ack"
  /\ UNCHANGED <<videos, follows, queue, ttl, cur, tries, fan, requests, faults, dropped, gap, foreign>>

Forget == cur' = NoVideo /\ consPc' = "idle" /\ tries' = 0 /\ fan' = FALSE

Ack ==
  /\ consPc = "ack"
  /\ Forget
  /\ UNCHANGED <<videos, follows, queue, redis, requests, faults, observers>>

ConsFails ==
  /\ consPc \in {"list", "add"}
  /\ Fault
  /\ \/ /\ tries + 1 < MaxTries
        /\ tries' = tries + 1 /\ consPc' = "list" /\ fan' = FALSE
        /\ UNCHANGED <<cur, dropped>>
     \/ /\ tries + 1 >= MaxTries
        /\ dropped' = dropped \cup {cur}
        /\ Forget
  /\ UNCHANGED <<videos, follows, queue, redis, requests, holes, gap, foreign>>

----------------------------------------------------------------------------
(* The fan's requests *)

Goto(r, label) == pc' = [pc EXCEPT ![r] = label]
Leave(r) ==
  /\ Goto(r, "done")
  /\ author' = [author EXCEPT ![r] = NoAuthor]
  /\ authors' = [authors EXCEPT ![r] = {}]
  /\ snap' = [snap EXCEPT ![r] = {}]

\* Authors a request under way, or the event, is about to write into the set.
Held(r) ==
  IF pc[r] \in {"videos", "rebuild"} THEN authors[r]
  ELSE IF pc[r] \in Backfilling THEN {author[r]} ELSE {}
Writing == (UNION {Held(r) : r \in Requests}) \cup (IF fan THEN {AuthorOf[cur]} ELSE {})

\* Authors of whom a rebuild under way does not know, or no longer reads, all videos.
Unknown(a) == \E r \in Requests : pc[r] = "rebuild" \/ (pc[r] = "videos" /\ a \notin authors[r])

\* The key goes: what it lacked is forgotten, what is being written is not; a
\* rebuild that has read the table adds no video fanned out since then.
Drop ==
  /\ timeline' = <<>> /\ ttl' = FALSE
  /\ holes' = FALSE
  /\ gap' = {a \in gap : Unknown(a)} \cup UNION {authors[r] : r \in {x \in Requests : pc[x] = "rebuild"}}
  /\ foreign' = Writing

Follow(r, a) ==
  /\ pc[r] = "idle"
  /\ follows' = follows \cup {a}
  /\ author' = [author EXCEPT ![r] = a]
  /\ Goto(r, "exists")
  /\ gap' = IF Unknown(a) THEN gap \cup {a} ELSE gap
  /\ UNCHANGED <<videos, queue, redis, consumer, authors, snap, faults, dropped, holes, foreign>>

BackfillExists(r) ==
  /\ pc[r] = "exists"
  /\ \/ Exists /\ Goto(r, "list") /\ UNCHANGED locals
     \/ ~Exists /\ Leave(r)
  /\ UNCHANGED <<videos, follows, queue, redis, consumer, faults, observers>>

BackfillList(r) ==
  LET vs == ListLatest(By({author[r]}), Start, BackfillLimit) IN
  /\ pc[r] = "list"
  /\ \/ /\ vs # {}
        /\ snap' = [snap EXCEPT ![r] = vs]
        /\ Goto(r, "backfill")
        /\ UNCHANGED <<author, authors>>
     \/ vs = {} /\ Leave(r)
  /\ UNCHANGED <<videos, follows, queue, redis, consumer, faults, observers>>

BackfillAdd(r) ==
  /\ pc[r] = "backfill"
  /\ Add(Members(snap[r]))
  /\ holes' = (holes \/ BelowWatermark(timeline, At(LastOf(TimeOf, snap[r]))))
  /\ gap' = IF Cardinality(snap[r]) = BackfillLimit THEN gap \cup {author[r]} ELSE gap
  /\ Goto(r, "ttl")
  /\ UNCHANGED <<videos, follows, queue, ttl, consumer, locals, faults, dropped, foreign>>

\* EXPIRE, at the end of a backfill and of a rebuild; its failure is only told.
SetTTL(r) ==
  /\ pc[r] = "ttl"
  /\ \/ NoFault /\ ttl' = Exists
     \/ Fault /\ UNCHANGED ttl
  /\ Leave(r)
  /\ UNCHANGED <<videos, follows, queue, timeline, consumer, observers>>

UnFollow(r, a) ==
  /\ pc[r] = "idle"
  /\ follows' = follows \ {a}
  /\ author' = [author EXCEPT ![r] = a]
  /\ Goto(r, "del")
  /\ UNCHANGED <<videos, queue, redis, consumer, authors, snap, faults, observers>>

\* Mutant: the set is left to its time to live.
KeepTimeline(r) ==
  /\ pc[r] = "del"
  /\ Leave(r)
  /\ UNCHANGED <<videos, follows, queue, redis, consumer, faults, observers>>

ClearFollowingTimeline(r) ==
  /\ pc[r] = "del"
  /\ Drop
  /\ Leave(r)
  /\ UNCHANGED <<videos, follows, queue, consumer, faults, dropped>>

\* ensureFollowingTimeLine, before a page is read; nothing joins two of them.
Read(r) ==
  /\ pc[r] = "idle"
  /\ Goto(r, IF Exists THEN "done" ELSE "authors")
  /\ UNCHANGED <<videos, follows, queue, redis, consumer, locals, faults, observers>>

RebuildAuthors(r) ==
  /\ pc[r] = "authors"
  /\ authors' = [authors EXCEPT ![r] = follows]
  /\ Goto(r, "videos")
  /\ UNCHANGED <<videos, follows, queue, redis, consumer, author, snap, faults, observers>>

RebuildList(r) ==
  /\ pc[r] = "videos"
  /\ snap' = [snap EXCEPT ![r] = ListLatest(By(authors[r]), Start, RebuildLimit)]
  /\ Goto(r, "rebuild")
  /\ UNCHANGED <<videos, follows, queue, redis, consumer, author, authors, faults, observers>>

RebuildAdd(r) ==
  /\ pc[r] = "rebuild"
  /\ Add(Members(snap[r]))
  /\ Goto(r, "ttl")
  /\ UNCHANGED <<videos, follows, queue, ttl, consumer, locals, faults, observers>>

\* A call fails, or the API process dies: the request ends where it is.
RequestFails(r) ==
  /\ pc[r] \in Rebuilding \cup Backfilling \cup {"del"}
  /\ Fault
  /\ gap' = IF pc[r] \in Backfilling THEN gap \cup {author[r]} ELSE gap
  /\ foreign' = IF pc[r] = "del" THEN foreign \cup {author[r]} ELSE foreign
  /\ Leave(r)
  /\ UNCHANGED <<videos, follows, queue, redis, consumer, dropped, holes>>

\* The consumer's process dies; the broker delivers the event again.
Crash ==
  /\ consPc # "idle"
  /\ Fault
  /\ queue' = <<cur>> \o queue
  /\ Forget
  /\ UNCHANGED <<videos, follows, redis, requests, observers>>

\* The seven days are over.
Expire ==
  /\ ttl
  /\ Drop
  /\ UNCHANGED <<videos, follows, queue, consumer, requests, faults, dropped>>

----------------------------------------------------------------------------
TimelineHandler == Receive \/ ListFanIDs \/ ZAddFanout \/ Ack \/ ConsFails \/ Crash
BackfillFollowing(r) == BackfillExists(r) \/ BackfillList(r) \/ BackfillAdd(r)
EnsureFollowingTimeLine(r) == Read(r) \/ RebuildAuthors(r) \/ RebuildList(r) \/ RebuildAdd(r)

Next ==
  \/ Publish \/ TimelineHandler \/ Expire
  \/ \E v \in db : DeleteVideo(v)
  \/ \E r \in Requests :
       \/ BackfillFollowing(r) \/ EnsureFollowingTimeLine(r) \/ SetTTL(r)
       \/ ClearFollowingTimeline(r) \/ RequestFails(r)
       \/ \E a \in Authors : Follow(r, a) \/ UnFollow(r, a)

Spec == Init /\ [][Next]_vars

----------------------------------------------------------------------------
(* Properties *)

\* The feed, read to its end in this state.
Feed == Reading([c \in Cursors |-> FollowingPage(timeline, db, By(follows), c)])

Quiet == \A r \in Requests : pc[r] \in {"idle", "done"}
Pending(v) == v = cur \/ \E i \in DOMAIN queue : queue[i] = v

\* Another video falls into the time between this one and its outbox row: then
\* score and time may order the two differently.
Crowded(v) == \E w \in Videos \ {v} :
  \/ TimeOf[v] <= TimeOf[w] /\ TimeOf[w] <= TimeOf[v] + Lag
  \/ TimeOf[w] <= TimeOf[v] /\ TimeOf[v] <= TimeOf[w] + Lag

\* A page's worth of deleted videos in the set: the feed ends at them.
GhostPage == Cardinality(DOMAIN timeline \ (db \cup {Placeholder})) >= PageSize

\* Between requests, whoever reads the feed to its end sees every video of the
\* authors followed, whichever part comes from Redis.  The exceptions: the set
\* was made or extended by other means than a rebuild, the author was followed
\* during a rebuild or not wholly backfilled, the fan-out was lost, or paging stumbles.
FeedComplete ==
  Quiet /\ ~holes /\ ~GhostPage =>
    \A v \in By(follows) :
      \/ v \in Feed.seen \/ Pending(v) \/ v \in dropped
      \/ AuthorOf[v] \in gap \/ Crowded(v)

\* The feed ends, and shows no video twice; Crowded is the one exception.
FeedOnce ==
  Feed.at = End /\ \A v \in Feed.twice : Crowded(v)

FeedExact == FeedComplete /\ FeedOnce

\* Between requests nobody is shown whom the fan does not follow, unless the
\* clearing failed or was overtaken by a writer that knew the old follows.
OnlyFollowed ==
  Quiet => \A v \in Feed.seen : AuthorOf[v] \in follows \cup foreign
============================================================================
