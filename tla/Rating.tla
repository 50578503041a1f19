------------------------------- MODULE Rating -------------------------------
(***************************************************************************)
(* Like / dislike / none: the path of one rating from the API handler to   *)
(* the tables.  SetUserRating updates the per-account Redis sets, then     *)
(* publishes an event; when publishing fails it writes the database        *)
(* itself.  The worker consumes the queue one event at a time and calls    *)
(* the same SetRating, which keeps the video_ratings rows and the counters *)
(* of the videos table in one transaction and deletes the entity cache.    *)
(*                                                                         *)
(* A process is an API request or the worker's consumer; both run the      *)
(* transaction in two steps, its snapshot read and its writes (the row     *)
(* locks are held from the first write to the commit, so the writes and    *)
(* the commit are one step), then the cache deletion.                      *)
(***************************************************************************)
EXTENDS Integers, Sequences, FiniteSets

CONSTANTS
  Accounts, Videos,
  Requests,      \* API requests; each runs SetUserRating once
  Workers,       \* rating consumers (cmd/worker starts one)
  NoEvent,       \* a process that holds no event
  Placeholder,   \* the member 0 that keeps an otherwise empty Redis set alive
  MaxTries,      \* attempts of the consumer per event (retryWithBackOff: 3)
  MaxFaults      \* bound: failed calls and crashes in a behaviour

ASSUME RatingAssumption ==
  /\ IsFiniteSet(Accounts)
  /\ Requests \cap Workers = {}
  /\ NoEvent \notin [a : Accounts, v : Videos, s : {-1, 0, 1}]
  /\ Placeholder \notin Videos
  /\ MaxTries \in Nat \ {0}
  /\ MaxFaults \in Nat

Like == 1
Dislike == -1
None == 0
Statuses == {Dislike, None, Like}
Event == [a : Accounts, v : Videos, s : Statuses]
Procs == Requests \cup Workers

VARIABLES
  rows,           \* video_ratings: status per video and account, None = no row
  liked,          \* videos.liked_count
  disliked,       \* videos.disliked_count
  entity,         \* video:entity:<id> in Redis: "absent", "fresh" or "stale"
  likedSet,       \* account:<id>:liked in Redis; an empty set is an absent key
  dislikedSet,    \* account:<id>:disliked
  queue,          \* rating.events, delivered from the head
  popularity,     \* number of popularity events published per video
  pc,             \* where each process is
  ev,             \* the rating it handles
  old,            \* the status its transaction has read
  tries,          \* failed attempts of the consumer at its event
  faults,         \* failures so far, bounded by MaxFaults
  \* observers of what happened, read by no action
  accepted,       \* status of the last event of a pair that the broker accepted
  dropped,        \* pairs whose last accepted event was dropped
  raced,          \* pairs written from an outdated snapshot
  uncleared       \* videos whose cache deletion was lost

db == <<rows, liked, disliked>>
sets == <<likedSet, dislikedSet>>
task == <<ev, old, tries>>
observers == <<accepted, dropped, raced, uncleared>>
vars == <<db, entity, sets, queue, popularity, pc, task, faults, observers>>

Final == {"published", "written", "failed"}   \* how a request ended
PCs == {"idle", "cacheAdd", "cacheRem", "publish", "txRead", "txWrite", "inval", "ack"} \cup Final

TypeOK ==
  /\ rows \in [Videos -> [Accounts -> Statuses]]
  /\ liked \in [Videos -> Nat]
  /\ disliked \in [Videos -> Nat]
  /\ entity \in [Videos -> {"absent", "fresh", "stale"}]
  /\ likedSet \in [Accounts -> SUBSET (Videos \cup {Placeholder})]
  /\ dislikedSet \in [Accounts -> SUBSET (Videos \cup {Placeholder})]
  /\ queue \in Seq(Event)
  /\ popularity \in [Videos -> Nat]
  /\ pc \in [Procs -> PCs]
  /\ ev \in [Procs -> Event \cup {NoEvent}]
  /\ old \in [Procs -> Statuses]
  /\ tries \in [Procs -> 0..MaxTries]
  /\ faults \in 0..MaxFaults
  /\ accepted \in [Videos -> [Accounts -> Statuses]]
  /\ dropped \in SUBSET (Videos \X Accounts)
  /\ raced \in SUBSET (Videos \X Accounts)
  /\ uncleared \in SUBSET Videos

Init ==
  /\ rows = [v \in Videos |-> [a \in Accounts |-> None]]
  /\ liked = [v \in Videos |-> 0]
  /\ disliked = [v \in Videos |-> 0]
  /\ entity = [v \in Videos |-> "absent"]
  /\ likedSet = [a \in Accounts |-> {}]
  /\ dislikedSet = [a \in Accounts |-> {}]
  /\ queue = <<>>
  /\ popularity = [v \in Videos |-> 0]
  /\ pc = [p \in Procs |-> "idle"]
  /\ ev = [p \in Procs |-> NoEvent]
  /\ old = [p \in Procs |-> None]
  /\ tries = [p \in Procs |-> 0]
  /\ faults = 0
  /\ accepted = [v \in Videos |-> [a \in Accounts |-> None]]
  /\ dropped = {}
  /\ raced = {}
  /\ uncleared = {}

Fault == faults < MaxFaults /\ faults' = faults + 1
NoFault == UNCHANGED faults
Goto(p, label) == pc' = [pc EXCEPT ![p] = label]

----------------------------------------------------------------------------
(* SetUserRating: the API side *)

Begin(r) ==
  /\ pc[r] = "idle"
  /\ \E e \in Event : ev' = [ev EXCEPT ![r] = e]
  /\ Goto(r, "cacheAdd")
  /\ UNCHANGED <<db, entity, sets, queue, popularity, old, tries, faults, observers>>

\* The first Redis command of UpdateRatingCache; its error is ignored.
CacheAdd(r) ==
  LET a == ev[r].a
      v == ev[r].v
  IN /\ pc[r] = "cacheAdd"
     /\ Goto(r, "cacheRem")
     /\ \/ /\ ev[r].s = Like
           /\ likedSet' = [likedSet EXCEPT ![a] = @ \cup {v}]
           /\ NoFault /\ UNCHANGED dislikedSet
        \/ /\ ev[r].s = Dislike
           /\ dislikedSet' = [dislikedSet EXCEPT ![a] = @ \cup {v}]
           /\ NoFault /\ UNCHANGED likedSet
        \/ /\ ev[r].s = None
           /\ dislikedSet' = [dislikedSet EXCEPT ![a] = @ \ {v}]
           /\ NoFault /\ UNCHANGED likedSet
        \/ Fault /\ UNCHANGED sets
     /\ UNCHANGED <<db, entity, queue, popularity, task, observers>>

\* The second one.
CacheRem(r) ==
  LET a == ev[r].a
      v == ev[r].v
  IN /\ pc[r] = "cacheRem"
     /\ Goto(r, "publish")
     /\ \/ /\ ev[r].s = Like
           /\ dislikedSet' = [dislikedSet EXCEPT ![a] = @ \ {v}]
           /\ NoFault /\ UNCHANGED likedSet
        \/ /\ ev[r].s # Like
           /\ likedSet' = [likedSet EXCEPT ![a] = @ \ {v}]
           /\ NoFault /\ UNCHANGED dislikedSet
        \/ Fault /\ UNCHANGED sets
     /\ UNCHANGED <<db, entity, queue, popularity, task, observers>>

\* A like sends a popularity event as well; the result of sending is ignored.
CountLike(e) ==
  \/ e.s = Like /\ popularity' = [popularity EXCEPT ![e.v] = @ + 1] /\ NoFault
  \/ e.s = Like /\ Fault /\ UNCHANGED popularity
  \/ e.s # Like /\ NoFault /\ UNCHANGED popularity

PublishOk(r) ==
  LET e == ev[r] IN
  /\ pc[r] = "publish"
  /\ queue' = Append(queue, e)
  /\ CountLike(e)
  /\ Goto(r, "published")
  /\ accepted' = [accepted EXCEPT ![e.v][e.a] = e.s]
  /\ dropped' = dropped \ {<<e.v, e.a>>}
  /\ UNCHANGED <<db, entity, sets, task, raced, uncleared>>

\* No error although the broker did not take the event: PublishJSON drops the
\* outcome, so a message that is released or rejected counts as sent.
PublishLost(r) ==
  LET e == ev[r] IN
  /\ pc[r] = "publish"
  /\ Fault
  /\ popularity' \in {popularity, [popularity EXCEPT ![e.v] = IF e.s = Like THEN @ + 1 ELSE @]}
  /\ Goto(r, "published")
  /\ UNCHANGED <<db, entity, sets, queue, task, observers>>

\* The publisher reports an error, whether or not the broker got the event:
\* the request goes on to write the database itself.
PublishErr(r) ==
  /\ pc[r] = "publish"
  /\ Fault
  /\ queue' \in {queue, Append(queue, ev[r])}
  /\ Goto(r, "txRead")
  /\ UNCHANGED <<db, entity, sets, popularity, task, observers>>

----------------------------------------------------------------------------
(* SetRating: the transaction, run by a request or by the consumer *)

Vote(s, kind) == IF s = kind THEN 1 ELSE 0
\* Mutant: the vote being replaced is not taken back.
DeltaLikeForgetsOld(before, after) == Vote(after, Like)
DeltaLike(before, after) == Vote(after, Like) - Vote(before, Like)
DeltaDislike(before, after) == Vote(after, Dislike) - Vote(before, Dislike)

\* SetRating has returned nil: the consumer acknowledges, the request answers.
Finish(p) ==
  \/ p \in Workers /\ Goto(p, "ack") /\ NoFault /\ UNCHANGED popularity
  \/ p \in Requests /\ Goto(p, "written") /\ CountLike(ev[p])

TxRead(p) ==
  /\ pc[p] = "txRead"
  /\ old' = [old EXCEPT ![p] = rows[ev[p].v][ev[p].a]]
  /\ Goto(p, "txWrite")
  /\ UNCHANGED <<db, entity, sets, queue, popularity, ev, tries, faults, observers>>

\* Nothing recorded and nothing to record, or the same status again.
TxNoop(p) ==
  /\ pc[p] = "txWrite"
  /\ old[p] = ev[p].s
  /\ Finish(p)
  /\ UNCHANGED <<db, entity, sets, queue, task, observers>>

\* INSERT of a row that exists by now fails on the primary key.
DupKey(p) == old[p] = None /\ rows[ev[p].v][ev[p].a] # None

\* The row that INSERT, UPDATE or DELETE leaves: an UPDATE of a row that is
\* gone changes nothing and is no error.
RowAfter(current, before, after) ==
  IF before # None /\ current = None THEN None ELSE after

\* GREATEST(n + delta, 0) on an unsigned column.
Clamp(n) == IF n < 0 THEN 0 ELSE n

TxWrite(p) ==
  LET e == ev[p] IN
  /\ pc[p] = "txWrite"
  /\ old[p] # e.s
  /\ ~DupKey(p)
  /\ rows' = [rows EXCEPT ![e.v][e.a] = RowAfter(@, old[p], e.s)]
  /\ liked' = [liked EXCEPT ![e.v] = Clamp(@ + DeltaLike(old[p], e.s))]
  /\ disliked' = [disliked EXCEPT ![e.v] = Clamp(@ + DeltaDislike(old[p], e.s))]
  /\ entity' = [entity EXCEPT ![e.v] = IF @ = "fresh" THEN "stale" ELSE @]
  /\ Goto(p, "inval")
  /\ raced' = IF old[p] = rows[e.v][e.a] THEN raced ELSE raced \cup {<<e.v, e.a>>}
  /\ UNCHANGED <<sets, queue, popularity, task, faults, accepted, dropped, uncleared>>

\* The transaction rolls back.  The consumer tries MaxTries times and then
\* drops the event; a request returns the error.
Rollback(p) ==
  /\ \/ /\ p \in Requests
        /\ Goto(p, "failed")
        /\ UNCHANGED <<tries, dropped>>
     \/ /\ p \in Workers
        /\ tries[p] + 1 < MaxTries
        /\ Goto(p, "txRead")
        /\ tries' = [tries EXCEPT ![p] = @ + 1]
        /\ UNCHANGED dropped
     \/ /\ p \in Workers
        /\ tries[p] + 1 >= MaxTries
        /\ Goto(p, "ack")
        /\ dropped' = dropped \cup {<<ev[p].v, ev[p].a>>}
        /\ UNCHANGED tries
  /\ UNCHANGED <<db, entity, sets, queue, popularity, ev, old, accepted, raced, uncleared>>

\* The statements that fail by themselves: the duplicate key, and an unsigned
\* subtraction below zero, which MySQL may reject before GREATEST sees it.
TxAbort(p) ==
  LET e == ev[p] IN
  /\ pc[p] = "txWrite"
  /\ old[p] # e.s
  /\ \/ DupKey(p)
     \/ liked[e.v] + DeltaLike(old[p], e.s) < 0
     \/ disliked[e.v] + DeltaDislike(old[p], e.s) < 0
  /\ Rollback(p)
  /\ NoFault

\* Any other database error.
TxError(p) ==
  /\ pc[p] \in {"txRead", "txWrite"}
  /\ Rollback(p)
  /\ Fault

\* Mutant: the deletion addresses a key the reader does not use.
InvalidateOtherKey(p) ==
  /\ pc[p] = "inval"
  /\ UNCHANGED entity
  /\ Finish(p)
  /\ UNCHANGED <<db, sets, queue, task, observers>>

\* Del video:entity:<id> after the commit; a failure is only logged.
Invalidate(p) ==
  /\ pc[p] = "inval"
  /\ entity' = [entity EXCEPT ![ev[p].v] = "absent"]
  /\ Finish(p)
  /\ UNCHANGED <<db, sets, queue, task, observers>>

InvalidateFails(p) ==
  LET e == ev[p] IN
  /\ pc[p] = "inval"
  /\ Fault
  /\ Goto(p, IF p \in Workers THEN "ack" ELSE "written")
  /\ popularity' = [popularity EXCEPT ![e.v] = IF p \in Requests /\ e.s = Like THEN @ + 1 ELSE @]
  /\ uncleared' = uncleared \cup {e.v}
  /\ UNCHANGED <<db, entity, sets, queue, task, accepted, dropped, raced>>

----------------------------------------------------------------------------
(* RunConsumer and RatingHandler: the consumer's side *)

Forget(w) ==
  /\ Goto(w, "idle")
  /\ ev' = [ev EXCEPT ![w] = NoEvent]
  /\ old' = [old EXCEPT ![w] = None]
  /\ tries' = [tries EXCEPT ![w] = 0]

Receive(w) ==
  /\ pc[w] = "idle"
  /\ queue # <<>>
  /\ ev' = [ev EXCEPT ![w] = Head(queue)]
  /\ queue' = Tail(queue)
  /\ Goto(w, "txRead")
  /\ UNCHANGED <<db, entity, sets, popularity, old, tries, faults, observers>>

\* Mutant: the event is released (requeued) instead of accepted.
AckRequeues(w) ==
  /\ pc[w] = "ack"
  /\ queue' = Append(queue, ev[w])
  /\ Forget(w)
  /\ UNCHANGED <<db, entity, sets, popularity, faults, observers>>

Ack(w) ==
  /\ pc[w] = "ack"
  /\ Forget(w)
  /\ UNCHANGED <<db, entity, sets, queue, popularity, faults, observers>>

\* Mutant: what was not acknowledged goes to the end of the queue.
CrashRequeuesLast(p) ==
  /\ pc[p] \notin {"idle"} \cup Final
  /\ Fault
  /\ \/ p \in Workers /\ queue' = Append(queue, ev[p]) /\ Forget(p)
     \/ p \in Requests /\ Goto(p, "failed") /\ UNCHANGED <<queue, task>>
  /\ uncleared' = IF pc[p] = "inval" THEN uncleared \cup {ev[p].v} ELSE uncleared
  /\ UNCHANGED <<db, entity, sets, popularity, accepted, dropped, raced>>

\* The process dies, or the consumer's link breaks before the broker has the
\* acknowledgement: the broker puts the event back at the head of the queue.
Crash(p) ==
  /\ pc[p] \notin {"idle"} \cup Final
  /\ Fault
  /\ \/ p \in Workers /\ queue' = <<ev[p]>> \o queue /\ Forget(p)
     \/ p \in Requests /\ Goto(p, "failed") /\ UNCHANGED <<queue, task>>
  /\ uncleared' = IF pc[p] = "inval" THEN uncleared \cup {ev[p].v} ELSE uncleared
  /\ UNCHANGED <<db, entity, sets, popularity, accepted, dropped, raced>>

\* VideoReader loads the entity into Redis (its races are VideoCache's).
LoadEntity(v) ==
  /\ entity[v] = "absent"
  /\ entity' = [entity EXCEPT ![v] = "fresh"]
  /\ UNCHANGED <<db, sets, queue, popularity, pc, task, faults, observers>>

----------------------------------------------------------------------------
SetUserRating(r) ==
  \/ Begin(r) \/ CacheAdd(r) \/ CacheRem(r)
  \/ PublishOk(r) \/ PublishLost(r) \/ PublishErr(r)

SetRating(p) ==
  TxRead(p) \/ TxNoop(p) \/ TxWrite(p) \/ TxAbort(p) \/ Invalidate(p)

SetRatingFails(p) == TxError(p) \/ InvalidateFails(p) \/ Crash(p)

RatingHandler(w) == Receive(w) \/ SetRating(w) \/ Ack(w)

Next ==
  \/ \E r \in Requests : SetUserRating(r)
  \/ \E p \in Procs : SetRating(p) \/ SetRatingFails(p)
  \/ \E w \in Workers : Receive(w) \/ Ack(w)
  \/ \E v \in Videos : LoadEntity(v)

Spec == Init /\ [][Next]_vars

\* The consumer's goroutine runs for as long as the worker process does.
FairSpec == Spec /\ \A w \in Workers : WF_vars(RatingHandler(w))

----------------------------------------------------------------------------
(* Properties *)

ForPair(e, v, a) == e # NoEvent /\ e.v = v /\ e.a = a

\* A request for the pair went around the queue.
Direct(v, a) ==
  \E r \in Requests : /\ ForPair(ev[r], v, a)
                      /\ pc[r] \in {"txRead", "txWrite", "inval", "written", "failed"}

Raters(v, s) == {a \in Accounts : rows[v][a] = s}

\* The counters of a video are the numbers of its rows, which ranking and every
\* entity read rely on while SetRating only ever adds deltas.  They can leave the
\* rows only through a transaction that wrote a pair whose row had changed since it
\* read it; the comment on SetRating makes no such exception.
CountsExactUnlessRaced ==
  \A v \in Videos :
    (\A a \in Accounts : <<v, a>> \notin raced) =>
      /\ liked[v] = Cardinality(Raters(v, Like))
      /\ disliked[v] = Cardinality(Raters(v, Dislike))

\* With one consumer such a write needs a request that fell back to writing the
\* database itself: redelivery, retries and crashes of the consumer never race.
RacedOnlyByFallback ==
  \A v \in Videos, a \in Accounts : <<v, a>> \in raced => Direct(v, a)

\* So the counters are exact until a request for the pair goes around the queue
\* while the consumer or another request is at the same row.
CountsExactUnlessFallback == CountsExactUnlessRaced /\ RacedOnlyByFallback

PendingAt(v, a) == {i \in DOMAIN queue : ForPair(queue[i], v, a)}

\* What the tables will hold for the pair once the queue has drained.
Settled(v, a) ==
  IF PendingAt(v, a) # {}
  THEN queue[CHOOSE i \in PendingAt(v, a) : \A j \in PendingAt(v, a) : j <= i].s
  ELSE IF \E w \in Workers : ForPair(ev[w], v, a)
       THEN ev[CHOOSE w \in Workers : ForPair(ev[w], v, a)].s
       ELSE rows[v][a]

\* The last status the broker accepted for a pair is the one that stays, through
\* redelivery and retries, unless that event was dropped or a request wrote directly.
LatestAcceptedWins ==
  \A v \in Videos, a \in Accounts :
    \/ Settled(v, a) = accepted[v][a]
    \/ <<v, a>> \in dropped
    \/ Direct(v, a)

\* A cached entity whose counters are out of date is about to be deleted, or
\* its deletion failed or died with its process.
StaleEntityBeingCleared ==
  \A v \in Videos :
    entity[v] = "stale" =>
      \/ v \in uncleared
      \/ \E p \in Procs : pc[p] = "inval" /\ ev[p].v = v

\* Every accepted event is applied or dropped: the queue ends up empty and the
\* consumer idle, whatever it was retried or redelivered.
QueueDrains == <>[](queue = <<>> /\ \A w \in Workers : pc[w] = "idle")
============================================================================
