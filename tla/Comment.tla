------------------------------ MODULE Comment ------------------------------
(***************************************************************************)
(* Comments: a request publishes a comment or deletes one, through the     *)
(* queue or, when publishing fails, by itself.  The worker applies the     *)
(* events one at a time.  A comment is known by the event that created it  *)
(* (its unique event_id) and by the id of its row; an event applied again  *)
(* after its row is gone makes a new row.  The transactions are two steps, *)
(* the snapshot read and the writes with the commit, as in Rating.         *)
(***************************************************************************)
EXTENDS Integers, Sequences, FiniteSets

CONSTANTS
  Videos,
  Requests,     \* API requests, one call each; a publishing one is its event
  Workers,      \* comment consumers (cmd/worker starts one)
  NoMsg,
  MaxTries,     \* attempts of the consumer per event (retryWithBackOff: 3)
  MaxFaults     \* bound: failed calls and crashes in a behaviour

ASSUME CommentAssumption ==
  /\ IsFiniteSet(Requests)
  /\ Requests \cap Workers = {}
  /\ MaxTries \in Nat \ {0}
  /\ MaxFaults \in Nat
  /\ NoMsg \notin [op : {"publish", "delete"}, e : Requests, v : Videos, id : Nat]

Procs == Requests \cup Workers
Msg == [op : {"publish", "delete"}, e : Requests, v : Videos, id : Nat]
Row == [id : Nat, e : Requests, v : Videos]

VARIABLES
  videos,       \* videos table
  rows,         \* comments table
  nextId,
  count,        \* videos.comment_count
  entity,       \* video:entity:<id>: "absent", "fresh" or "stale"
  queue,        \* comment.events, delivered from the head
  popularity,   \* number of popularity events published per video
  pc,
  msg,          \* the event a process handles
  seen,         \* what its transaction has read: the row exists
  tries,
  faults,
  \* observers, read by no action
  accepted,     \* publish events the broker took
  dropped,      \* events the worker gave up
  erased,       \* events whose row a deletion removed
  raced         \* videos decremented for a row that was gone

tables == <<videos, rows, nextId, count>>
task == <<msg, seen, tries>>
observers == <<accepted, dropped, erased, raced>>
vars == <<tables, entity, queue, popularity, pc, task, faults, observers>>

Final == {"published", "written", "failed"}
PCs == {"idle", "send", "txRead", "txWrite", "inval", "ack"} \cup Final

TypeOK ==
  /\ videos \in SUBSET Videos
  /\ rows \in SUBSET Row
  /\ nextId \in Nat
  /\ count \in [Videos -> Nat]
  /\ entity \in [Videos -> {"absent", "fresh", "stale"}]
  /\ queue \in Seq(Msg)
  /\ popularity \in [Videos -> Nat]
  /\ pc \in [Procs -> PCs]
  /\ msg \in [Procs -> Msg \cup {NoMsg}]
  /\ seen \in [Procs -> BOOLEAN]
  /\ tries \in [Procs -> 0..MaxTries-1]
  /\ faults \in 0..MaxFaults
  /\ accepted \in SUBSET Requests
  /\ dropped \in SUBSET Requests
  /\ erased \in SUBSET Requests
  /\ raced \in SUBSET Videos

Init ==
  /\ videos = Videos
  /\ rows = {} /\ nextId = 1
  /\ count = [v \in Videos |-> 0]
  /\ entity = [v \in Videos |-> "absent"]
  /\ queue = <<>>
  /\ popularity = [v \in Videos |-> 0]
  /\ pc = [p \in Procs |-> "idle"]
  /\ msg = [p \in Procs |-> NoMsg]
  /\ seen = [p \in Procs |-> FALSE]
  /\ tries = [p \in Procs |-> 0]
  /\ faults = 0
  /\ accepted = {} /\ dropped = {} /\ erased = {} /\ raced = {}

Fault == faults < MaxFaults /\ faults' = faults + 1
NoFault == UNCHANGED faults
Goto(p, label) == pc' = [pc EXCEPT ![p] = label]
\* GREATEST(n - 1, 0)
Decrement(n) == IF n > 0 THEN n - 1 ELSE 0
Touch(v) == entity' = [entity EXCEPT ![v] = IF @ = "fresh" THEN "stale" ELSE @]

----------------------------------------------------------------------------
(* CommentService: Publish and Delete *)

\* The video exists (FindByID).
BeginPublish(r) ==
  /\ pc[r] = "idle"
  /\ \E v \in videos : msg' = [msg EXCEPT ![r] = [op |-> "publish", e |-> r, v |-> v, id |-> 0]]
  /\ Goto(r, "send")
  /\ UNCHANGED <<tables, entity, queue, popularity, seen, tries, faults, observers>>

\* The comment exists (GetByID) and the caller wrote it or owns the video.
BeginDelete(r) ==
  /\ pc[r] = "idle"
  /\ \E c \in rows : msg' = [msg EXCEPT ![r] = [op |-> "delete", e |-> r, v |-> c.v, id |-> c.id]]
  /\ Goto(r, "send")
  /\ UNCHANGED <<tables, entity, queue, popularity, seen, tries, faults, observers>>

\* A new comment sends a popularity event; the result of sending is ignored.
Count(k) ==
  \/ k.op = "publish" /\ popularity' = [popularity EXCEPT ![k.v] = @ + 1] /\ NoFault
  \/ k.op = "publish" /\ Fault /\ UNCHANGED popularity
  \/ k.op = "delete" /\ NoFault /\ UNCHANGED popularity

SendOk(r) ==
  /\ pc[r] = "send"
  /\ queue' = Append(queue, msg[r])
  /\ Count(msg[r])
  /\ Goto(r, "published")
  /\ accepted' = IF msg[r].op = "publish" THEN accepted \cup {r} ELSE accepted
  /\ UNCHANGED <<tables, entity, task, dropped, erased, raced>>

\* No error although the broker did not take the event.
SendLost(r) ==
  LET k == msg[r] IN
  /\ pc[r] = "send"
  /\ Fault
  /\ popularity' = [popularity EXCEPT ![k.v] = IF k.op = "publish" THEN @ + 1 ELSE @]
  /\ Goto(r, "published")
  /\ UNCHANGED <<tables, entity, queue, task, observers>>

\* An error, whether or not the event is out: the request writes by itself.
SendErr(r) ==
  /\ pc[r] = "send"
  /\ Fault
  /\ queue' \in {queue, Append(queue, msg[r])}
  /\ Goto(r, "txRead")
  /\ UNCHANGED <<tables, entity, popularity, task, observers>>

----------------------------------------------------------------------------
(* Create and Delete: the transactions *)

Exists(k) == \E c \in rows : IF k.op = "publish" THEN c.e = k.e ELSE c.id = k.id

\* Mutant: the row to delete is not looked up.
TxReadBlind(p) ==
  /\ pc[p] = "txRead"
  /\ seen' = [seen EXCEPT ![p] = msg[p].op = "delete"]
  /\ Goto(p, "txWrite")
  /\ UNCHANGED <<tables, entity, queue, popularity, msg, tries, faults, observers>>

TxRead(p) ==
  /\ pc[p] = "txRead"
  /\ seen' = [seen EXCEPT ![p] = Exists(msg[p])]
  /\ Goto(p, "txWrite")
  /\ UNCHANGED <<tables, entity, queue, popularity, msg, tries, faults, observers>>

\* The call has returned nil.
Finish(p) ==
  \/ p \in Workers /\ Goto(p, "ack") /\ NoFault /\ UNCHANGED popularity
  \/ p \in Requests /\ Goto(p, "written") /\ Count(msg[p])

\* Created before: nothing to insert, but the entity is deleted all the same.
CreateSeen(p) ==
  /\ pc[p] = "txWrite" /\ msg[p].op = "publish" /\ seen[p]
  /\ Goto(p, "inval")
  /\ UNCHANGED <<tables, entity, queue, popularity, task, faults, observers>>

Create(p) ==
  LET k == msg[p] IN
  /\ pc[p] = "txWrite" /\ k.op = "publish" /\ ~seen[p]
  /\ ~Exists(k)
  /\ rows' = rows \cup {[id |-> nextId, e |-> k.e, v |-> k.v]}
  /\ nextId' = nextId + 1
  /\ count' = [count EXCEPT ![k.v] = IF k.v \in videos THEN @ + 1 ELSE @]
  /\ Touch(k.v)
  /\ Goto(p, "inval")
  /\ UNCHANGED <<videos, queue, popularity, task, faults, observers>>

\* The row was not found: the rest of the transaction, and the cache deletion,
\* address a zero comment.
DeleteUnseen(p) ==
  /\ pc[p] = "txWrite" /\ msg[p].op = "delete" /\ ~seen[p]
  /\ Finish(p)
  /\ UNCHANGED <<tables, entity, queue, task, observers>>

\* The row that was read may be gone by now: DELETE is no error, and the
\* counter is decremented all the same.
Delete(p) ==
  LET k == msg[p]
      gone == {c \in rows : c.id = k.id}
  IN /\ pc[p] = "txWrite" /\ k.op = "delete" /\ seen[p]
     /\ rows' = rows \ gone
     /\ count' = [count EXCEPT ![k.v] = IF k.v \in videos THEN Decrement(@) ELSE @]
     /\ Touch(k.v)
     /\ Goto(p, "inval")
     /\ erased' = erased \cup {c.e : c \in gone}
     /\ raced' = IF gone = {} /\ k.v \in videos THEN raced \cup {k.v} ELSE raced
     /\ UNCHANGED <<videos, nextId, queue, popularity, task, faults, accepted, dropped>>

\* The transaction rolls back: the consumer tries again or drops the event,
\* a request returns the error.
Rollback(p) ==
  /\ \/ /\ p \in Requests
        /\ Goto(p, "failed")
        /\ UNCHANGED <<tries, dropped>>
     \/ /\ p \in Workers
        /\ tries[p] + 1 < MaxTries
        /\ Goto(p, "txRead")
        /\ tries' = [tries EXCEPT ![p] = @ + 1]
        /\ UNCHANGED dropped
     \/ /\ p \in Workers
        /\ tries[p] + 1 >= MaxTries
        /\ Goto(p, "ack")
        /\ dropped' = dropped \cup {msg[p].e}
        /\ UNCHANGED tries
  /\ UNCHANGED <<tables, entity, queue, popularity, msg, seen, accepted, erased, raced>>

\* INSERT meets the unique event_id (the driver's error is not translated, so it
\* is returned), or the unsigned counter would fall below zero.
TxAbort(p) ==
  LET k == msg[p] IN
  /\ pc[p] = "txWrite"
  /\ \/ k.op = "publish" /\ ~seen[p] /\ Exists(k)
     \/ k.op = "delete" /\ seen[p] /\ k.v \in videos /\ count[k.v] = 0
  /\ Rollback(p)
  /\ NoFault

TxError(p) ==
  /\ pc[p] \in {"txRead", "txWrite"}
  /\ Rollback(p)
  /\ Fault

\* Del video:entity:<id> after the commit.
Invalidate(p) ==
  /\ pc[p] = "inval"
  /\ entity' = [entity EXCEPT ![msg[p].v] = "absent"]
  /\ Finish(p)
  /\ UNCHANGED <<tables, queue, task, observers>>

\* Its failure is only logged.
InvalidateFails(p) ==
  LET k == msg[p] IN
  /\ pc[p] = "inval"
  /\ Fault
  /\ Goto(p, IF p \in Workers THEN "ack" ELSE "written")
  /\ popularity' = [popularity EXCEPT ![k.v] = IF p \in Requests /\ k.op = "publish" THEN @ + 1 ELSE @]
  /\ UNCHANGED <<tables, entity, queue, task, observers>>

----------------------------------------------------------------------------
(* CommentHandler *)

Forget(w) ==
  /\ Goto(w, "idle")
  /\ msg' = [msg EXCEPT ![w] = NoMsg]
  /\ seen' = [seen EXCEPT ![w] = FALSE]
  /\ tries' = [tries EXCEPT ![w] = 0]

Receive(w) ==
  /\ pc[w] = "idle"
  /\ queue # <<>>
  /\ msg' = [msg EXCEPT ![w] = Head(queue)]
  /\ queue' = Tail(queue)
  /\ Goto(w, "txRead")
  /\ UNCHANGED <<tables, entity, popularity, seen, tries, faults, observers>>

Ack(w) ==
  /\ pc[w] = "ack"
  /\ Forget(w)
  /\ UNCHANGED <<tables, entity, queue, popularity, faults, observers>>

\* Mutants: what was not acknowledged is gone, or goes to the end.
CrashForgets(p) ==
  /\ pc[p] \notin {"idle"} \cup Final
  /\ Fault
  /\ \/ p \in Workers /\ Forget(p) /\ UNCHANGED queue
     \/ p \in Requests /\ Goto(p, "failed") /\ UNCHANGED <<queue, task>>
  /\ UNCHANGED <<tables, entity, popularity, observers>>

CrashRequeuesLast(p) ==
  /\ pc[p] \notin {"idle"} \cup Final
  /\ Fault
  /\ \/ p \in Workers /\ queue' = Append(queue, msg[p]) /\ Forget(p)
     \/ p \in Requests /\ Goto(p, "failed") /\ UNCHANGED <<queue, task>>
  /\ UNCHANGED <<tables, entity, popularity, observers>>

\* The process dies before the broker has the acknowledgement.
Crash(p) ==
  /\ pc[p] \notin {"idle"} \cup Final
  /\ Fault
  /\ \/ p \in Workers /\ queue' = <<msg[p]>> \o queue /\ Forget(p)
     \/ p \in Requests /\ Goto(p, "failed") /\ UNCHANGED <<queue, task>>
  /\ UNCHANGED <<tables, entity, popularity, observers>>

----------------------------------------------------------------------------
\* A video goes with its comments; RemoveVideoCache deletes its entity.
DeleteVideo(v) ==
  /\ v \in videos
  /\ videos' = videos \ {v}
  /\ rows' = {c \in rows : c.v # v}
  /\ entity' = [entity EXCEPT ![v] = "absent"]
  /\ UNCHANGED <<nextId, count, queue, popularity, pc, task, faults, observers>>

LoadEntity(v) ==
  /\ v \in videos /\ entity[v] = "absent"
  /\ entity' = [entity EXCEPT ![v] = "fresh"]
  /\ UNCHANGED <<tables, queue, popularity, pc, task, faults, observers>>

CommentService(r) == BeginPublish(r) \/ BeginDelete(r) \/ SendOk(r) \/ SendLost(r) \/ SendErr(r)

Transaction(p) ==
  \/ TxRead(p) \/ CreateSeen(p) \/ Create(p) \/ DeleteUnseen(p) \/ Delete(p)
  \/ TxAbort(p) \/ TxError(p) \/ Invalidate(p) \/ InvalidateFails(p)

Next ==
  \/ \E r \in Requests : CommentService(r)
  \/ \E p \in Procs : Transaction(p) \/ Crash(p)
  \/ \E w \in Workers : Receive(w) \/ Ack(w)
  \/ \E v \in Videos : DeleteVideo(v) \/ LoadEntity(v)

Spec == Init /\ [][Next]_vars

----------------------------------------------------------------------------
(* Properties *)

\* A request went around the queue.
Direct(r) == pc[r] \in {"txRead", "txWrite", "inval", "written", "failed"}
DirectDelete(v) == \E r \in Requests : msg[r] # NoMsg /\ msg[r].op = "delete" /\ msg[r].v = v /\ Direct(r)

\* comment_count is the number of a video's comments, through redelivery, retries
\* and repeated publishing; it can leave them only by a deletion that decremented
\* for a row another one had removed.
CountExactUnlessRaced ==
  \A v \in videos \ raced : count[v] = Cardinality({c \in rows : c.v = v})

\* Two deletions race only when a request fell back to deleting by itself.
RacedOnlyByFallback == \A v \in raced : DirectDelete(v)

\* So the counter is exact until a request deletes by itself beside the consumer.
CountExactUnlessFallback == CountExactUnlessRaced /\ RacedOnlyByFallback

Pending(e) ==
  \/ \E i \in DOMAIN queue : queue[i].op = "publish" /\ queue[i].e = e
  \/ \E w \in Workers : msg[w] # NoMsg /\ msg[w].op = "publish" /\ msg[w].e = e

\* A comment the broker accepted is stored or still on its way, unless it was
\* deleted, given up after the last attempt, or its video is gone.
AcceptedKept ==
  \A e \in accepted :
    \/ \E c \in rows : c.e = e
    \/ Pending(e)
    \/ e \in erased \cup dropped
    \/ msg[e].v \notin videos

\* A deleted comment comes back only if a request wrote around the queue: the
\* deletion overtook a publish event that was still to be delivered again, or
\* the comment was written while its event was in the queue.
ErasedStaysErased ==
  \A c \in rows : c.e \in erased => Direct(c.e) \/ DirectDelete(c.v)
============================================================================
