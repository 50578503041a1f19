------------------------------ MODULE Timeline ------------------------------
(***************************************************************************)
(* From a published video to the feeds in Redis: the transaction that      *)
(* stores the video and its outbox row, the poller that turns rows into    *)
(* events, the consumer that adds a video to the global timeline, trims it *)
(* and fans out to the followers' timelines, the lazy rebuild of an empty  *)
(* timeline, the deletion of a video, and the cleanup tool.                *)
(*                                                                         *)
(* A video is its id, which is also its score: newer videos have larger    *)
(* ids.  All videos are of one author.  The API process runs the poller,   *)
(* the consumer, the rebuild and the deletions, and they die together.     *)
(***************************************************************************)
EXTENDS Integers, Sequences, FiniteSets

CONSTANTS
  Fans,         \* followers of the author
  Limit,        \* videos the global timeline keeps (1000)
  MaxTries,     \* attempts of the consumer per event (3)
  MaxVideos,    \* bound: videos published
  MaxDeletes,   \* bound: videos deleted
  MaxFaults     \* bound: crashes, and failed calls outside the consumer

ASSUME TimelineAssumption ==
  /\ Limit \in Nat \ {0}
  /\ MaxTries \in Nat \ {0}
  /\ MaxVideos \in Nat
  /\ MaxDeletes \in Nat
  /\ MaxFaults \in Nat

Videos == 1..MaxVideos
Placeholder == 0       \* the member "0" of a timeline rebuilt from an empty table

VARIABLES
  published,   \* the newest id
  db,          \* videos table
  outbox,      \* pending outbox rows
  queue,       \* timeline.events, delivered from the head
  timeline,    \* members of feed:global_timeline; empty = no key
  feeds,       \* members of feed:following:<fan>
  batch,       \* rows the poller has read and not yet handled
  pollPc,
  cur,         \* the event the consumer holds, Placeholder = none
  consPc, tries,
  snap,        \* what the rebuild has read from the table
  rebuildPc,
  deletePc,    \* where the deletion of each video is
  faults,
  \* observers, read by no action
  dropped,     \* events given up by the consumer or lost by the broker
  direct,      \* videos the poller wrote into the timeline itself
  unremoved,   \* videos whose removal from the timeline failed or was never tried
  overtaken,   \* videos removed from the timeline while a writer still had them
  outrun,      \* videos trimmed while a rebuild was under way
  reached,     \* the newest video that ever entered the timeline
  late         \* videos that entered it after a newer one had

videos == <<published, db>>
redis == <<timeline, feeds>>
poller == <<batch, pollPc>>
consumer == <<cur, consPc, tries>>
rebuild == <<snap, rebuildPc>>
blame == <<dropped, direct, unremoved, overtaken>>
order == <<reached, late>>
observers == <<blame, outrun, order>>
vars == <<videos, outbox, queue, redis, poller, consumer, rebuild,
          deletePc, faults, observers>>

TypeOK ==
  /\ published \in 0..MaxVideos
  /\ db \in SUBSET Videos
  /\ outbox \in SUBSET Videos
  /\ queue \in Seq(Videos)
  /\ timeline \in SUBSET (Videos \cup {Placeholder})
  /\ feeds \in [Fans -> SUBSET Videos]
  /\ batch \in SUBSET Videos
  /\ pollPc \in {"idle", "publish", "zadd", "trim", "delete"}
  /\ cur \in Videos \cup {Placeholder}
  /\ consPc \in {"idle", "zadd", "trim", "fanout", "ack"}
  /\ tries \in 0..MaxTries-1
  /\ snap \in SUBSET Videos
  /\ rebuildPc \in {"idle", "list", "zadd"}
  /\ deletePc \in [Videos -> {"none", "zrem", "done"}]
  /\ faults \in 0..MaxFaults
  /\ dropped \in SUBSET Videos
  /\ direct \in SUBSET Videos
  /\ unremoved \in SUBSET Videos
  /\ overtaken \in SUBSET Videos
  /\ outrun \in SUBSET (Videos \cup {Placeholder})
  /\ reached \in 0..MaxVideos
  /\ late \in SUBSET Videos

\* The database may hold videos that Redis no longer knows.
Init ==
  /\ published \in {0, 1} \cap (0..MaxVideos)
  /\ db = 1..published
  /\ outbox = {}
  /\ queue = <<>>
  /\ timeline = {}
  /\ feeds = [f \in Fans |-> 1..published]
  /\ batch = {} /\ pollPc = "idle"
  /\ cur = Placeholder /\ consPc = "idle" /\ tries = 0
  /\ snap = {} /\ rebuildPc = "idle"
  /\ deletePc = [v \in Videos |-> "none"]
  /\ faults = 0
  /\ dropped = {} /\ direct = {} /\ unremoved = {} /\ overtaken = {} /\ outrun = {}
  /\ reached = 0 /\ late = {}

Fault == faults < MaxFaults /\ faults' = faults + 1
Oldest(S) == CHOOSE v \in S : \A w \in S : v <= w
Newest(S) == {v \in S : Cardinality({w \in S : w > v}) < Limit}

----------------------------------------------------------------------------
(* Publish: the video and its outbox row in one transaction *)

CreateWithOutbox ==
  /\ published < MaxVideos
  /\ published' = published + 1
  /\ db' = db \cup {published + 1}
  /\ outbox' = outbox \cup {published + 1}
  /\ UNCHANGED <<queue, redis, poller, consumer, rebuild, deletePc, faults, observers>>

----------------------------------------------------------------------------
(* OutboxPoller *)

PollRead ==
  /\ pollPc = "idle"
  /\ outbox # {}
  /\ batch' = outbox
  /\ pollPc' = "publish"
  /\ UNCHANGED <<videos, outbox, queue, redis, consumer, rebuild, deletePc, faults, observers>>

\* On to the next row of the batch.
NextRow ==
  /\ batch' = batch \ {Oldest(batch)}
  /\ pollPc' = IF batch' = {} THEN "idle" ELSE "publish"

PollPublish ==
  /\ pollPc = "publish"
  /\ queue' = Append(queue, Oldest(batch))
  /\ pollPc' = "delete"
  /\ UNCHANGED <<videos, outbox, redis, batch, consumer, rebuild, deletePc, faults, observers>>

\* The broker did not take the event and PublishJSON reports no error.
PollPublishLost ==
  /\ pollPc = "publish"
  /\ Fault
  /\ dropped' = dropped \cup {Oldest(batch)}
  /\ pollPc' = "delete"
  /\ UNCHANGED <<videos, outbox, queue, redis, batch, consumer, rebuild, deletePc, direct,
                 unremoved, overtaken, outrun, order>>

\* There is no publisher, or it reports an error, whether or not the event is out.
PollPublishErr ==
  /\ pollPc = "publish"
  /\ Fault
  /\ queue' \in {queue, Append(queue, Oldest(batch))}
  /\ pollPc' = "zadd"
  /\ UNCHANGED <<videos, outbox, redis, batch, consumer, rebuild, deletePc, observers>>

\* ZADD and ZREMRANGEBYRANK 0 -1001 are two commands, in the poller's fallback
\* and in the consumer.
AddToTimeline(v) ==
  /\ timeline' = timeline \cup {v}
  /\ reached' = IF v > reached THEN v ELSE reached
  /\ late' = IF v < reached /\ v \notin timeline THEN late \cup {v} ELSE late

\* Mutant: the ranks are counted from the newest.
TrimWrongEnd ==
  /\ timeline' = {v \in timeline : Cardinality({w \in timeline : w < v}) < Limit}
  /\ UNCHANGED <<outrun, order>>

Trim ==
  /\ timeline' = Newest(timeline)
  /\ outrun' = IF rebuildPc = "zadd" THEN outrun \cup (timeline \ Newest(timeline)) ELSE outrun
  /\ UNCHANGED order

PollAdd ==
  /\ pollPc = "zadd"
  /\ AddToTimeline(Oldest(batch))
  /\ direct' = direct \cup {Oldest(batch)}
  /\ pollPc' = "trim"
  /\ UNCHANGED <<videos, outbox, queue, feeds, batch, consumer, rebuild, deletePc, faults,
                 dropped, unremoved, overtaken, outrun>>

PollTrim ==
  /\ pollPc = "trim"
  /\ Trim
  /\ pollPc' = "delete"
  /\ UNCHANGED <<videos, outbox, queue, feeds, batch, consumer, rebuild, deletePc, faults, blame>>

\* Mutant: the handled row stays pending.
PollKeeps ==
  /\ pollPc = "delete"
  /\ NextRow
  /\ UNCHANGED <<videos, outbox, queue, redis, consumer, rebuild, deletePc, faults, observers>>

PollDelete ==
  /\ pollPc = "delete"
  /\ outbox' = outbox \ {Oldest(batch)}
  /\ NextRow
  /\ UNCHANGED <<videos, queue, redis, consumer, rebuild, deletePc, faults, observers>>

\* The fallback or the deletion of the row fails: the row stays for the next round.
PollFails ==
  /\ pollPc \in {"zadd", "trim", "delete"}
  /\ Fault
  /\ NextRow
  /\ UNCHANGED <<videos, outbox, queue, redis, consumer, rebuild, deletePc, observers>>

----------------------------------------------------------------------------
(* TimelineHandler *)

Receive ==
  /\ consPc = "idle"
  /\ queue # <<>>
  /\ cur' = Head(queue)
  /\ queue' = Tail(queue)
  /\ consPc' = "zadd"
  /\ UNCHANGED <<videos, outbox, redis, poller, tries, rebuild, deletePc, faults, observers>>

ConsAdd ==
  /\ consPc = "zadd"
  /\ AddToTimeline(cur)
  /\ consPc' = "trim"
  /\ UNCHANGED <<videos, outbox, queue, feeds, poller, cur, tries, rebuild, deletePc, faults,
                 blame, outrun>>

\* Mutant: a retry takes the fan-out for done.
ConsTrimSkips ==
  /\ consPc = "trim"
  /\ Trim
  /\ consPc' = IF tries > 0 THEN "ack" ELSE "fanout"
  /\ UNCHANGED <<videos, outbox, queue, feeds, poller, cur, tries, rebuild, deletePc, faults,
                 blame>>

ConsTrim ==
  /\ consPc = "trim"
  /\ Trim
  /\ consPc' = "fanout"
  /\ UNCHANGED <<videos, outbox, queue, feeds, poller, cur, tries, rebuild, deletePc, faults,
                 blame>>

FanOut(S) == feeds' = [f \in Fans |-> IF f \in S THEN feeds[f] \cup {cur} ELSE feeds[f]]

ConsFanOut ==
  /\ consPc = "fanout"
  /\ FanOut(Fans)
  /\ consPc' = "ack"
  /\ UNCHANGED <<videos, outbox, queue, timeline, poller, cur, tries, rebuild, deletePc, faults,
                 observers>>

\* Any of the calls fails; a failed pipeline may have reached some of the fans.
\* The handler starts over, or gives the event up.
ConsFails ==
  /\ consPc \in {"zadd", "trim", "fanout"}
  /\ \/ consPc = "fanout" /\ \E S \in SUBSET Fans : FanOut(S)
     \/ consPc # "fanout" /\ UNCHANGED feeds
  /\ \/ /\ tries + 1 < MaxTries
        /\ tries' = tries + 1
        /\ consPc' = "zadd"
        /\ UNCHANGED dropped
     \/ /\ tries + 1 >= MaxTries
        /\ dropped' = dropped \cup {cur}
        /\ consPc' = "ack"
        /\ UNCHANGED tries
  /\ UNCHANGED <<videos, outbox, queue, timeline, poller, cur, rebuild, deletePc, faults, direct,
                 unremoved, overtaken, outrun, order>>

Forget == cur' = Placeholder /\ consPc' = "idle" /\ tries' = 0

Ack ==
  /\ consPc = "ack"
  /\ Forget
  /\ UNCHANGED <<videos, outbox, queue, redis, poller, rebuild, deletePc, faults, observers>>

----------------------------------------------------------------------------
(* ensureTimeline: a reader that finds no timeline rebuilds it from the table *)

RebuildStart ==
  /\ rebuildPc = "idle"
  /\ timeline = {}
  /\ rebuildPc' = "list"
  /\ UNCHANGED <<videos, outbox, queue, redis, poller, consumer, snap, deletePc, faults, observers>>

RebuildList ==
  /\ rebuildPc = "list"
  /\ snap' = Newest(db)
  /\ rebuildPc' = "zadd"
  /\ UNCHANGED <<videos, outbox, queue, redis, poller, consumer, deletePc, faults, observers>>

RebuildAdd ==
  /\ rebuildPc = "zadd"
  /\ timeline' = timeline \cup (IF snap = {} THEN {Placeholder} ELSE snap)
  /\ snap' = {}
  /\ reached' = IF \E v \in snap : v > reached THEN CHOOSE v \in snap : snap \subseteq 1..v
                ELSE reached
  /\ late' = late \ snap
  /\ rebuildPc' = "idle"
  /\ UNCHANGED <<videos, outbox, queue, feeds, poller, consumer, deletePc, faults, blame, outrun>>

RebuildFails ==
  /\ rebuildPc # "idle"
  /\ Fault
  /\ snap' = {}
  /\ rebuildPc' = "idle"
  /\ UNCHANGED <<videos, outbox, queue, redis, poller, consumer, deletePc, observers>>

----------------------------------------------------------------------------
(* DeleteVideo: the table first, then the timeline; the outbox is left alone *)

\* Mutant: the timeline is left alone too.
DeleteRowOnly(v) ==
  /\ v \in db
  /\ published - Cardinality(db) < MaxDeletes
  /\ db' = db \ {v}
  /\ deletePc' = [deletePc EXCEPT ![v] = "done"]
  /\ UNCHANGED <<published, outbox, queue, redis, poller, consumer, rebuild, faults, observers>>

DeleteRow(v) ==
  /\ v \in db
  /\ published - Cardinality(db) < MaxDeletes
  /\ db' = db \ {v}
  /\ deletePc' = [deletePc EXCEPT ![v] = "zrem"]
  /\ UNCHANGED <<published, outbox, queue, redis, poller, consumer, rebuild, faults, observers>>

\* Somebody may still add the video to the timeline.
Pending(v) ==
  \/ v \in outbox \cup batch \cup snap
  \/ \E i \in DOMAIN queue : queue[i] = v
  \/ cur = v

RemoveVideoCache(v) ==
  /\ deletePc[v] = "zrem"
  /\ timeline' = timeline \ {v}
  /\ deletePc' = [deletePc EXCEPT ![v] = "done"]
  /\ overtaken' = IF Pending(v) THEN overtaken \cup {v} ELSE overtaken
  /\ UNCHANGED <<videos, outbox, queue, feeds, poller, consumer, rebuild, faults, dropped,
                 direct, unremoved, outrun, order>>

RemoveFails(v) ==
  /\ deletePc[v] = "zrem"
  /\ Fault
  /\ deletePc' = [deletePc EXCEPT ![v] = "done"]
  /\ unremoved' = unremoved \cup {v}
  /\ UNCHANGED <<videos, outbox, queue, redis, poller, consumer, rebuild, dropped, direct,
                 overtaken, outrun, order>>

----------------------------------------------------------------------------
(* cmd/cleanup-timeline, run by hand: members without a row are removed.  It    *)
(* reads, checks and removes in turn; ids do not come back to the table, so      *)
(* nothing that happens in between makes its removals wrong.                     *)

CleanTimeline ==
  /\ timeline' = timeline \cap db
  /\ UNCHANGED <<videos, outbox, queue, feeds, poller, consumer, rebuild, deletePc, faults,
                 observers>>

----------------------------------------------------------------------------
\* The API process dies and starts again; the broker takes its event back.
Crash ==
  /\ Fault
  /\ batch' = {} /\ pollPc' = "idle"
  /\ queue' = IF consPc = "idle" THEN queue ELSE <<cur>> \o queue
  /\ Forget
  /\ snap' = {} /\ rebuildPc' = "idle"
  /\ deletePc' = [v \in Videos |-> IF deletePc[v] = "zrem" THEN "done" ELSE deletePc[v]]
  /\ unremoved' = unremoved \cup {v \in Videos : deletePc[v] = "zrem"}
  /\ UNCHANGED <<videos, outbox, redis, dropped, direct, overtaken, outrun, order>>

OutboxPoller == PollRead \/ PollPublish \/ PollAdd \/ PollTrim \/ PollDelete
TimelineHandler == Receive \/ ConsAdd \/ ConsTrim \/ ConsFanOut \/ Ack
EnsureTimeline == RebuildStart \/ RebuildList \/ RebuildAdd
DeleteVideo(v) == DeleteRow(v) \/ RemoveVideoCache(v)
Failure ==
  \/ PollPublishLost \/ PollPublishErr \/ PollFails \/ ConsFails \/ RebuildFails \/ Crash
  \/ \E v \in Videos : RemoveFails(v)

Next ==
  \/ CreateWithOutbox \/ OutboxPoller \/ TimelineHandler \/ EnsureTimeline \/ CleanTimeline \/ Failure
  \/ \E v \in Videos : DeleteVideo(v)

Spec == Init /\ [][Next]_vars

\* The poller's and the consumer's goroutines run while the process does.
FairSpec == Spec /\ WF_vars(OutboxPoller) /\ WF_vars(TimelineHandler)

----------------------------------------------------------------------------
(* Properties *)

\* GlobalFeed reads videos newer than the oldest member (the watermark) from the
\* timeline and older ones from the database.
Shown(v) == v \in timeline \/ timeline = {} \/ \A w \in timeline : v < w

\* No video falls between the two: a stored video is in the timeline, below the
\* watermark, or on its way; the exceptions are events given up, a rebuild that a
\* thousand newer videos overtook, and an older video that entered after newer
\* ones: it pulls the watermark down below all that were trimmed.
NoHole ==
  \A v \in db :
    \/ Shown(v) \/ Pending(v) \/ v \in dropped \cup outrun
    \/ \E w \in late \cap timeline : w < v

\* A follower has every video that is no longer on its way, unless the event was
\* given up or the poller wrote the global timeline by itself.
FansHaveIt ==
  \A v \in 1..published, f \in Fans :
    v \in feeds[f] \/ Pending(v) \/ v \in dropped \cup direct

\* A deleted video is in the timeline only until its removal, or because the
\* removal failed, or because a writer still had the video when it was removed.
GhostsExplained ==
  \A v \in timeline \ (db \cup {Placeholder}) :
    deletePc[v] = "zrem" \/ v \in unremoved \cup overtaken

\* Every outbox row is turned into an event and every event is handled.
OutboxDrains == <>[](outbox = {} /\ queue = <<>> /\ consPc = "idle")
============================================================================
