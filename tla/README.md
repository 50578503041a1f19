# Formal models of feedsystem

TLA+ modules of the short-video backend in `src/`, the TLC configurations that
check them on small instances, and proofs that TLAPS checks for every value of
the constants. Each module is translated from the Go code; `PROJECT.json` maps
every definition to the lines it models.

    tlc -workers 2 -config MCRating.cfg MCRating      # one run
    tlapm RatingProofs.tla                            # one proof module

## 1. The system

Two processes run. The **API process** (`cmd/main.go`) serves HTTP and runs the
outbox poller, the timeline consumer, the notification consumer and the SSE hub.
The **worker process** (`cmd/worker/main.go`) runs one consumer each for ratings,
comments and popularity. They share MySQL, Redis, RabbitMQ and MinIO, and nothing
else: every race of the system is a race of commands at these four.

| Component (code) | State it keeps | Operations | Module |
|---|---|---|---|
| Rating write path (`service/video/rating.go`, `repository/video/rating.go`, `worker/rating.go`) | `video_ratings` rows, counters of `videos`, `video:entity:*` in Redis, `rating.events` | SetUserRating with fallback, SetRating, RatingHandler | `Rating` |
| Rating sets (`repository/video/rating.go`) | two Redis sets per account, liked and disliked videos | UpdateRatingCache, GetRatingCache, warm-up after a login or a miss | `RatingSets` |
| Comments (`service`, `repository`, `worker` `/comment.go`) | `comments` rows with a unique `event_id`, `comment_count`, `comment.events` | Publish, Delete, CommentHandler | `Comment` |
| Outbox and global timeline (`repository/video/video.go`, `worker/outbox.go`, `worker/timeline.go`, `feed_global.go`) | `videos`, `outbox_msgs`, `timeline.events`, ZSET `feed:global_timeline` | CreateWithOutbox, OutboxPoller, TimelineHandler, ensureTimeline, DeleteVideo, cleanup tool | `Timeline` |
| Feed pages (`service/feed`, `repository/feed`, `data/redis.go`) | none; cursors travel with the client | GlobalFeed, ListByFollowing, runFeed | `Paging`, `GlobalFeed` |
| Following timeline (`service/social`, `followingMaintainer.go`, `feed_following.go`) | `socials`, ZSET `feed:following:<fan>` | Follow, UnFollow, backfill, clearing, lazy rebuild, fan-out | `Following` |
| Notifications (`worker/notification.go`, `worker/ssehub.go`) | `notifications` rows, counter `notification:<user>` | NotificationHandler, MarkReadHandler, UnreadCountHandler | `Notification` |
| SSE hub (`worker/ssehub.go`) | a map of channels behind a RWMutex, one goroutine per stream | Subscribe, UnSubscribe, Push, SSEHandler | `SSEHub`, abstract `Mailbox` |
| Video reader (`service/video/reader.go`) | L1 in memory, L2 `video:entity:*`, single-flight calls | GetByID, GetByIDs, deletion by writers | `VideoCache` |
| Uploads (`service/video/upload.go`, `data/minio.go`) | `chunk:session:*`, `chunk:resume:*`, multipart uploads and objects in MinIO | Init, CompleteUpload, AbortUpload, Publish, DeleteVideo | `Upload` |
| Popularity ranking (`worker/popularity.go`, `repository/video/popularity.go`, `feed_popularity.go`) | minute buckets `hot:video:1m:*`, snapshots `hot:video:60m:*`, `popularity.events` | UpdatePopularity, ListByPopularity | `Popularity` |
| Accounts and sessions (`service/user/user.go`, `middleware/auth`) | three Redis keys per account, a column of `users` | Login, Refresh, Logout | `Sessions` |
| Rate limiting (`middleware/ratelimit`) | a counter per window | one Lua script | none, see 5 |

How they interact: a rating, comment or follow is published to an exchange and
fans out to the worker's queue and to the notification queue; when publishing
fails, the API process does the worker's transaction itself. A publication writes
video and outbox row in one transaction; the poller turns rows into events; the
consumer of the API process writes the global timeline and the following
timelines, which the feeds read together with the table. Writers of a video
delete its entity in L2; readers fill both levels. The notification consumer
writes rows and counters and pushes to the SSE hub. Ratings and comments also
publish popularity events; a login warms the rating sets.

What is hard: (a) the same transaction run by two processes at once, because of
the fallback; (b) redelivery after a crash, with rows already written; (c) Redis
keys that are looked for, computed and stored in separate commands; (d) pages
stitched from a cache and a table that change between two pages and between the
calls of one; (e) channels closed by one goroutine while another sends;
(f) failures that are logged and forgotten; (g) caches that a request changes
ahead of the table its own event will change later. `PROJECT.json` lists every
hazard at its line with the properties that cover it.

## 2. The modules

Conventions: an action is one command at MySQL (a transaction's snapshot read and
its writes with the commit are two), Redis, RabbitMQ, MinIO, or one section under a
lock; control flow is in `pc`. Failures are actions bounded by `MaxFaults`, the one
bound on faults in every module. Variables below the line "observers" are read by
no action (an observer may read another) and only let properties say *why*
something may have happened. A queue is delivered from the head; a crash puts the
unaccepted event back at the head. A definition marked "Mutant" is a plausible bug
used to see that a property can fail; no behaviour takes it.

**Rating.** A request publishes its event and, on an error, runs `SetRating`; the
worker runs it with `MaxTries` attempts and then drops the event. `TxRead` is the
unlocked read under REPEATABLE READ, `TxWrite` the writes and the commit: the first
write takes the row locks, so nothing runs in between. `DupKey` is the error of a
second insert. `PublishLost` is the broker's negative outcome, which `PublishJSON`
ignores.

**RatingSets.** The cache of the same ratings, command by command, for one account:
`Begin` to `Publish` are a request that changes both sets before its event is
published; `GetUserRating` and `Login` start a reader, who fills missing sets from
the table (`ReadRows`, `Fill`, `Expire`) and looks into both. The table changes in
one step here (`RatingHandler`), since the counters are Rating's. A set filled from
no rows holds the member 0 (`NoVideo`). The observer `bare` names sets that a request
made by adding one member to nothing; `muddled` the videos whose events, requests
or warm-ups overlapped or failed; `shaken` the readers under whom a set went away
or was filled incompletely.

**Comment.** The same shape as Rating with the differences of comments: creation is
idempotent by `event_id`, deletion reads the row but updates the counter whether
or not it deleted one, the cached entity is deleted unconditionally, and the
deletion of the video takes the comments with it.

**Timeline.** A video is its id and its score; one author. `PollRead` to
`PollDelete` are the poller, row by row, with its direct write; `Receive` to `Ack`
the consumer; `RebuildStart` to `RebuildAdd` the single-flighted rebuild. `ZADD` and
the trimming are separate commands in both writers. `MaxDeletes` bounds the videos
deleted. The observers `reached` (the newest id the sorted set ever held) and `late`
(ids that entered it below that) name the one order that opens a hole: a published row
that is published again, after everything newer was trimmed.

**GlobalFeed** extends Timeline by one reader of the global feed and its cursor. A
page is three calls: the watermark, the members of the set, the videos behind them;
everything Timeline can do may happen between them and between pages. A page from
the table alone (`listFromDB`) and the cold part of a stitched page are read in the step
that turns to them, since nothing read before is used with them but the cursor and
the videos already found, whose order no step changes. A deleted video may still be
shown from a cache: `GetByIDs` takes any set between the found videos that still
exist and all that were found. `PageFails` is an error or a crash; the client asks
again with the cursor it has. The observer `due` holds what the reader is owed: what
was stored when he began and was at every reading of the set in it, below the
watermark, or read without it.

**Paging.** Operators, no state: the parts of a page as functions of a sorted set, the
table and the cursor, used call by call in GlobalFeed; the whole page of the
following feed, and `Reading`, which follows the cursors to the end, used in
Following. Equal and nearly equal times are kept (`TimeOf`), since the code compares
scores, times and ids differently. Redis orders equal scores by the digits of the
member, the model by id: the same for ids of one length.

**Following** extends Paging: one fan, all writers of his sorted set, the time to
live. Publication is one step here (`Publish`), with the event lost or not. The
score of an event is the time of its outbox row, up to `Lag` after the video's. The
assumption on ids and times is the order of the code: a video has its time before the
INSERT that gives it its id, and its outbox row has its own after that INSERT, from the
same clock (`repository/video/video.go:116`-`132`). The observer `gap` counts an author as
lacking when he is followed while any rebuild has read the table, even a rebuild that
had him: with three requests an event of his can come and go in between, while he is
not followed, and neither the rebuild nor a backfill that finds no set brings the video.

**Notification.** Rows per event and recipient, the counter key or its absence, and
the pushes. `UnreadExists`, `UnreadCount` and `UnreadSet` are the three calls of
`incrUnread`; a pushed row counts as told, whether or not a stream is open:
what becomes of it is SSEHub's.

**Mailbox and SSEHub.** Mailbox says what the hub promises: the newest stream of a
user gets his mail, a stream holds so many notifications, shows them in order or
loses them, and only the current stream can leave the user without one. SSEHub is the
code: goroutines, the RWMutex, channels that are closed. `Push` takes the read lock,
looks up, sends and leaves in two steps (look up; send and leave); `Subscribe` and
`UnSubscribe` are one step each, enabled when no reader is inside. A channel is named
by its connection. The refinement mapping puts the notification a handler is writing
at the head of its mailbox; what a stream was opened for is known from `Subscribe` on.

**VideoCache.** L1, L2 and the table for each video, with values "old", "new" or
gone; single reads join a flight, batch reads do not; writers commit and then
delete the L2 copy. Only Redis is deleted by writers, so L1 stays old for its five
seconds by design and the properties say so.

**Upload.** The session in Redis against the multipart upload in MinIO. A client
acts on what it was told (`started`, `told`). `chunk:resume` is written and deleted
as in the code; nothing reads it there.

**Sessions.** A session is a number that stands for its access and its refresh token.
`Login`, `Refresh` and `Logout` begin a request, whose commands at the keys
`account:<id>`, `account:<id>:refresh` and `refresh:<token>` follow one by one
(`FindOld` to `StoreToken`), their errors ignored as in the code; behind the last one
a goroutine is started that writes the column (`UpdateRefreshToken`), in any order.
`entangled` names the sessions that two requests of one account had in hand at a time,
`hit` those a failed call or a crash was about.

**Popularity.** The event, the consumer that picks the minute anew at each attempt,
the bucket of each minute, the snapshot a reader merges from the buckets before his
minute, its time to live, and a reader who pages by `as_of` and `offset` and falls
back to the current minute when his snapshot is gone. Buckets outlive every snapshot
that counts them and do not expire in the model; deleted videos, which the code passes over
when it answers, are left out.

## 3. The runs

All use `CHECK_DEADLOCK FALSE`: every bounded behaviour ends, when all requests are
done and all queues empty, and that is no error.

| Run | Instance | What it shows |
|---|---|---|
| `rating` | 2 accounts, 1 video, 2 requests, 1 worker, 2 attempts, 2 faults | counters equal rows unless a fallback raced; the last accepted rating wins unless dropped or bypassed; stale entities are owed a deletion; the queue drains |
| `ratingsets` | 1 account, 2 videos, 1 setter, 1 reader, 2 ratings, 1 fault | once the table has caught up, no set holds a rating that was taken back, or lacks one unless a request made it; readers are told ratings the video had |
| `comment` | 1 video, 3 requests, 1 worker, 2 faults | the counter follows the rows; accepted comments are kept and deleted ones stay deleted, up to the named races |
| `global_feed` | 3 videos of which 1 is deleted, a timeline of 2, pages of 2, one attempt per event, no other fault | no stored video is between timeline and database, up to the named causes; a reader is shown none twice and misses none that was in place throughout |
| `timeline_delivery` | 1 fan, 2 videos of which 1 is deleted, a timeline of 1, 2 attempts, 1 fault, under fairness | fans get every handled video and deleted videos stay only for a named reason; every outbox row becomes an event and every event is handled |
| `following` | 4 videos of 2 authors, 2 stored before, pages of 2, rebuild of 2, backfill of 1, 2 requests, 1 fault | the feed read between requests is complete, shows nothing twice and nobody unfollowed, up to the named gaps |
| `notification` | 3 events of 3 people, 2 requests, 1 fault | nobody is told twice; every handled event tells its audience; the counter equals the unread rows unless something raced |
| `ssehub` | 2 users, 2 streams, 1 pusher, channels of 1, 3 pushes | no send on a closed channel, registered streams are the open ones, the hub implements the mailbox, streams end, pushes return |
| `videocache` | 2 videos, 2 readers, 1 writer, 1 fault | a stale L2 copy has a named reason; waiting readers return; both levels converge |
| `upload` | 2 uploads of one file in 2 parts, 2 requests, 2 rows, 1 fault | sessions match uploads and resume keys lead to them, completed keys are told, published videos keep their object |
| `sessions` | 1 account, 2 requests, 3 tokens, 1 pending write, 1 fault | used tokens are dead, only the registered token lives, the last session works, the column follows, up to named overlaps and failures |
| `popularity` | 2 videos, 2 readers, a window of 2 minutes, snapshots of 1, pages of 1, 2 attempts, 3 events, 3 minutes, 1 fault | no increment is lost or doubled, a snapshot equals its minutes, pages are one ranking, up to named failures, late writes and expiries |

Why the bounds are enough: each property relates at most two processes, one event
twice delivered, one page boundary or one overtaking, and every instance has these;
that the cases are reached is shown by the mutants, one per property, each of which
its run refutes. Limits (1000, 100, 20, 3 attempts) are constants and are small,
so that they are reached. Three videos are the fewest with which a timeline trims a
video between an old and a new one, and a reader has a page, a page boundary and a
cold part. Every safety property of the runs is also proved for all bounds (section 4);
what no theorem states is the liveness properties.

Larger instances were run once, by hand, with the same result:

* `Timeline` with 3 videos, 1 deletion, 1 fault, a timeline of 1 and 2 attempts
  (2.9 million states); with 3 videos, a fan and no deletion; with 2 faults (2.4 million);
* `GlobalFeed` with pages of 1 (8.3 million), and with 2 videos, 1 fault, a timeline
  and pages of 1 (15.3 million);
* `Following` with one author, 2 videos, 3 requests and limits of 2, with the parts of
  the invariant the proof of `FeedExact` uses (0.14 million); these too on the run's instance;
* `RatingSets` with two setters (8.9 million), and with two readers and one rating (9.0 million);
* random walks (`tlc -simulate`) of larger instances of every module.

Exceptions a property names are part of its statement: the code has these gaps, the
property says it has no other. For the feed of `Following` every named gap was left
out once, and TLC then found it, but for one: the exception for crowded times of
`FeedExact` needs more videos in the same milliseconds, and was seen in random walks
of an instance with six. `NothingSkipped` without the exception for holes is violated
too. `ImplementsMailbox` is checked with one pushing goroutine, as the code has (the
notification consumer); what is proved of it holds for any number.

### Where the code keeps less than its text says

The README and comments of the code are broader than what the code does; the
exceptions in the properties are these places.

* `src/internal/repository/video/rating.go:25` calls `SetRating` idempotent; with a direct write beside the worker on
  one row both count the same change (`CountsExactUnlessFallback` and its `raced`).
* The eventual consistency of the outbox (`src/README.md:22`) ends at the consumer: after three
  failed attempts an event is dropped with no outbox row left (`dropped` in `NoHole`);
  line 55 lists a dead letter queue as planned.
* Marking a notification read without a counter key stores 0 until the next reading
  with an expired key: it has no time to live (`floored` in `CounterExactUnlessUnsure`).
* The stable paging by `as_of` and `offset` (`src/README.md:24`, `:41`) lasts as long as the snapshot (`unmoored`
  in `PagesStable`).
* A rating that is changed while a warm-up reads can come back, or be forgotten, in the
  sets until they expire (`muddled`); a set that one request made is taken for
  complete (`bare`); between opposite ratings a reader may be told there is none.
* Nothing reads `users.refresh_token`, the copy the "token self-healing" of `src/README.md:14` would need;
  `ColumnFollows` says when the copy is right.

### Fairness

Liveness is checked under fairness of what the code runs in goroutines as long as
the process lives; nothing is assumed of clients, of failures or of new requests.

* Weak: each rating worker's handler; the poller and the timeline handler; each
  video reader and the expiry of each cached entity; the second half of each push.
* Strong, in `SSEHub` only, for the handler of each stream: it needs the write lock
  to subscribe and to leave, and pushers hold the read lock now and then, so its
  steps are enabled again and again and not for good. Go's RWMutex lets no new
  reader in while a writer waits, so the writer does get its turn; and `select`
  chooses at random between ready cases, while a closed channel stays ready.

## 4. What is proved

Eight modules hold the proofs, some of them those of two components. Every theorem
holds for all values of the constants that satisfy the named assumptions of the
module (`RatingAssumption`, ...): bounds are naturals, limits are positive, special
values lie outside the sets, ids and times are in the order the code gives them.
Nothing else is assumed; where a theorem needs one worker or no fallback, that
is an `ASSUME` in its statement. Each component's proofs start with type correctness
(`TypeCorrect`; `HubTypeCorrect`, `CacheTypeCorrect` and `HeatTypeCorrect` for the
component that shares its module); the other theorems are:

| Module | Theorem | Property |
|---|---|---|
| `RatingProofs` | `CountsFollowRows`, `CountsExact` | the counters equal the rows unless a direct write raced; always, while no request falls back |
| | `RacesNeedFallback` | with at most one worker, nothing races without a fallback |
| | `StaleEntitiesAreOwed` | an entity whose counters are old is about to be deleted, or its deletion failed |
| | `LatestWins` | with one worker, the last rating the broker accepted stays, unless dropped or bypassed |
| `RatingSetsProofs` | `NoRatingMadeUp`, `NoRatingForgotten`, `ReadersAreTold` | sets hold no rating taken back, lack none, and readers learn what the video had, up to the named overlaps |
| `CommentProofs` | `CountsFollowRows`, `RacesNeedFallback`, `CountsExact` | as for ratings |
| | `AcceptedAreKept` | an accepted comment has its row until a deletion of it, a dropped event or the video's end |
| | `ErasedStayErased` | with one worker, a deleted comment comes back only if a request wrote around the queue |
| `TimelineProofs` (with `GlobalFeed`) | `NoHoles`, `GhostsAreExplained`, `FansAreServed` | no video between set and table, no deleted video in the set, no fan left out, up to named causes |
| | `PagesSkipNothing` | the global feed, page by page and call by call, shows no video twice and misses none that was in place |
| `FollowingProofs` | `FeedIsExact` | the following feed, read to its end between requests, misses no video and shows none twice, up to the named gaps |
| | `OnlyFollowedShown` | nobody is shown whom the fan does not follow, unless the clearing failed or was overtaken |
| `VideoProofs` (`Upload`, `Popularity`) | `KeysAreTold`, `UploadsAreTracked`, `PublishedPlay` | completed keys, sessions and resume keys, objects of published videos |
| | `HeatStays`, `SnapshotsAreSums`, `PagesGoOn` | every accepted event is in one minute bucket, a snapshot is the sum of its buckets, the pages over it skip and repeat nothing |
| `CacheProofs` (`Sessions`, `VideoCache`) | `TokensDie`, `OneToken`, `LastWorks`, `ColumnCopied` | used tokens, the one working token, the client's last session, the copy in the table |
| | `StaleEntitiesAreExplained` | a stale entity in Redis is about to be deleted, or its deletion failed or was overtaken by a reader |
| `NotificationProofs` (`Notification`, `SSEHub`) | `PushesOnce`, `AudiencesAreTold`, `CounterExact` | nobody twice, everybody once, the counter |
| | `HubNeverPanics`, `RegistrationStays` | no send on a closed channel; the map holds the open channels |
| | `HubIsMailbox`, `StreamsInOrder` | every step of the hub is a step of the mailbox or none; so its streams are in order |

How the proofs go:

* **Counters.** `CountsExactUnlessRaced` is inductive over the types. A write changes
  the set of rows with one status by the row it saw, and the counter by the same one
  (a lemma about cardinalities), unless the row has changed since it was read: and
  then the observer says `raced`. That one worker does not race is a second
  invariant, `RaceInv`: what a transaction of the worker has read is current, since
  only a direct write could have changed it.
* **The line.** With one worker its event and the queue behind it are one sequence
  (`Line`), which grows at the end and shrinks at the head, also through a crash.
  `LatestWins`: the last event of a pair in the line is the last accepted, and without
  one the row is. `ErasedStayErased`: in the line a deletion stands behind the event
  that made its row.
* **Comments** need a book of the events besides: a number identifies one request, in
  its hands, its queue, the worker's or in the table (`Book`). `Kept` follows an
  accepted comment from the queue through the worker to its row.
* **Timeline.** `NoHole` alone is not inductive. With it go: what the set has and
  trimmed stands in the order of ids (`StoredIsCovered`); the snapshot of a rebuild is
  the newest part of the table, up to what was published meanwhile (`SnapIsNewest`);
  every handled video has been reached (`HandledIsReached`); a deleted video is
  nowhere in the table (`DeletedIsGone`).
* **Pages.** `FeedInv`: what the reader has seen lies at his cursor or after it, and
  what he is due lies before it; while a page is read, what is due is among the
  members found, or older than all of them. An operator of `Paging` that takes the first n of a
  set is characterised once (`TopFacts`, `PageFacts`): a page, and its probe of one
  more, take the newest and leave only older ones.
* **Hub.** `Registration` ties the map to the open channels, and under the read lock
  a channel found is open (`FoundOpen`): the two together give that no send panics.
  The refinement needs that a channel found is still the current one (`FoundCurrent`)
  and what a handler carries (`Carrying`). The order of a stream is a property of the
  mailbox, proved there over what is written followed by what waits, and holds
  of the hub through the refinement.
* **Sessions.** Types include whose a token is and that a fresh one is in one
  request's hands (`TypeInv`). `TokenInv` says for each step of a request which keys
  are behind it and which ahead, or that requests overlapped (`Behind`, `Ahead`,
  `Overlapped`). `ColumnCopied` rests on it: the last write on its way, or else the column,
  holds what the account's last request registered.
* **Upload** keeps a book of sessions and uploads (`Book`, `Resumable`); an object
  belongs to the client that was told its key, until a deletion of a video that
  shares it (`PlayInv`).
* **Notification.** A push belongs to one row (`PushInv`); each recipient of a handled
  event is accounted for (`Accounted`); the counter is exact whenever nobody stands
  between a row and its count (`CounterInv`).
* **Rating sets.** `Tracked` names what a set with a wrong member is waiting for: one
  lone request, one event, the table, or a warm-up that holds it; `Informed` and
  `Truthful` carry it to the readers.

* **Stale entities.** `StaleInv`: whatever differs from the row, in Redis or in the hands of
  a reader about to store it, is explained. Writers commit before they delete, so a reader
  who loaded before the commit is named by the deletion he overtakes. What the local
  caches hold plays no part.
* **Popularity.** The sums are folds; that a fold over a set is the sum, whichever element
  it takes first, follows from a smallest set for which it would not be. One write moves one
  bucket by one, so an accepted event is in a queue, in hand or in the buckets (`HeatInv`).
  A snapshot equals its buckets, since later minutes are not among them (`SnapInv`), and
  as long as it lives a reader's offset is the number of videos before it (`PageInv`).
* **Following, who is shown** (`KnownInv`): what is in the set, or what anybody is about to
  write into it, is of an author followed, forgiven, or about to be cleared.
* **Following, one reading.** A page shows only what is older than its cursor and its next
  cursor is the last video shown (`PageOrderly`), so what is left shrinks with every page and
  the feed ends; nothing comes twice but what times and scores order differently. A
  page skips no video that has its place in the set, that is in it or older than all of it
  (`PageSkipsNone`): the hot part, because a member that is far from the others in time is
  where its id says; the cold part, because the newest of the table come first.
  `Reading`'s recursion is unfolded once (`ReadingUnfolds`), its function shown to exist by its
  beginnings, and facts about each turn carried along it by a smallest counterexample.
* **Following, what the set holds** (`CompleteInv`). Events come in the order of ids, so
  behind the one at hand there is one for every newer video (`QueueOrder`). A video that is
  due, of a followed author, not announced any more and not excused, has its place in the
  set or a backfill will add it (`NoneLacking`); what a rebuild has listed would leave it in
  its place (`RebuildsList`), since of every author followed meanwhile it is known that he
  may be lacking (`RebuildsKnow`). A fan-out keeps the place of all older videos because
  it adds a newer one; a backfill, because one that reaches below the set is a hole.

Only model-checked: liveness (`QueueDrains`, `StreamEnds`, `PushReturns`, `OutboxDrains`,
`ReadsReturn`, `CachesConverge`), since the prover has no rule for fairness. Induction over
data is not available as a rule either; where a proof needs it, it reasons from a
smallest counterexample, which the library's theorem on well-founded relations gives.

## 5. Not modelled

* **HTTP handlers, routing, views, signed URLs**: decoding, validation and layout; they
  keep no state. Where a handler orders calls that change state (uploads, the stream, the
  unread counter) the component's module has that order.
* **Author and tag feeds, search and queries** read the table only, with the keyset of
  `FromDB`; nothing is cached between pages.
* **Rate limiting** is one Lua script, atomic in Redis; an error lets the request pass.
* **Register, ChangePassword, profile and tags** are single statements; hashing and
  token signatures are the libraries'.
* **Covers and avatars** are one upload of one object.
* **Configuration and start-up** build the objects once. `Reconnect` of the RabbitMQ client
  appears as failed publishes and as redeliveries.
* **Deleted videos on a popularity page, and the expiry of minute buckets**, as said in 2.
* **The Redis lock** of `data/redis.go` has no caller.

## 6. Plan

What is left, in order: an abstract register of ratings, one row and its counters, that
`Rating` implements while no request falls back, with the refinement proved; a reading
of the following feed between other steps, as `GlobalFeed` does for the global one; two
fans and an unfollowed author's events in flight.
