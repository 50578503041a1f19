---------------------------- MODULE Notification ----------------------------
(***************************************************************************)
(* Notifications: the consumer of notification.events stores one row per   *)
(* event and recipient, keeps the recipient's unread counter in Redis and  *)
(* pushes to the hub (SSEHub); requests mark rows read and ask for the     *)
(* counter.  Like, comment and follow events come from three exchanges     *)
(* into one queue; other events of those exchanges are accepted unread.    *)
(*                                                                         *)
(* The counter is a cache of a count over the table that both sides keep   *)
(* with separate Redis and database commands, so each command is a step.   *)
(***************************************************************************)
EXTENDS Integers, Sequences, FiniteSets

CONSTANTS
  Users,
  Events,       \* records [kind, to, from, ats]: ats are the users mentioned
  Requests,     \* API requests; each runs one handler once
  NoEvent, NoUser,
  Absent,       \* no Redis key
  MaxTries,     \* attempts of the consumer per event (4)
  MaxFaults     \* bound: failed calls and crashes in a behaviour

ASSUME NotificationAssumption ==
  /\ IsFiniteSet(Users) /\ IsFiniteSet(Events) /\ IsFiniteSet(Requests)
  /\ \A e \in Events : /\ e.kind \in {"like", "comment", "follow"}
                       /\ e.to \in Users
                       /\ e.ats \subseteq Users
                       /\ e.kind # "comment" => e.ats = {}
  /\ NoEvent \notin Events /\ NoUser \notin Users
  /\ Absent \notin Nat
  /\ MaxTries \in Nat \ {0}
  /\ MaxFaults \in Nat

VARIABLES
  published,    \* events sent so far
  queue,        \* notification.events, delivered from the head
  unreadRows,   \* notifications table: the unread rows, as <<event, recipient>>
  readRows,     \* ... and the read ones
  counter,      \* notification:<user> in Redis
  lasting,      \* counters without a time to live
  pc, cur, to, todo, tries, cnt,   \* the consumer
  rpc, user, rcnt,                 \* the requests
  faults,
  \* observers, read by no action
  handled,      \* events the consumer has accepted
  dropped,      \* ... after the last failed attempt
  partial,      \* events ended early by a failure or by a row that was there
  pushed,       \* notifications given to the hub, in order
  unsure,       \* users whose counter overlapping, failed or interrupted steps touched
  floored       \* users whose missing counter was decremented

table == <<unreadRows, readRows>>
redis == <<counter, lasting>>
consumer == <<pc, cur, to, todo, tries, cnt>>
requests == <<rpc, user, rcnt>>
history == <<handled, dropped, partial, pushed>>
vars == <<published, queue, table, redis, consumer, requests, faults, history, unsure, floored>>

Counting == {"exists", "count", "set", "incr", "expire"}
PCs == {"idle", "create", "push", "names", "ack"} \cup Counting
RPCs == {"idle", "get", "count", "set", "del", "decr", "done"}

TypeOK ==
  /\ published \in SUBSET Events
  /\ queue \in Seq(Events)
  /\ unreadRows \in SUBSET (Events \X Users)
  /\ readRows \in SUBSET (Events \X Users)
  /\ unreadRows \cap readRows = {}
  /\ counter \in [Users -> Nat \cup {Absent}]
  /\ lasting \in SUBSET {u \in Users : counter[u] # Absent}
  /\ pc \in PCs /\ cur \in Events \cup {NoEvent} /\ to \in Users \cup {NoUser}
  /\ todo \in SUBSET Users /\ tries \in 0..MaxTries-1 /\ cnt \in Nat
  /\ rpc \in [Requests -> RPCs]
  /\ user \in [Requests -> Users \cup {NoUser}]
  /\ rcnt \in [Requests -> Nat]
  /\ faults \in 0..MaxFaults
  /\ handled \in SUBSET Events /\ dropped \in SUBSET handled /\ partial \in SUBSET Events
  /\ pushed \in Seq(Events \X Users)
  /\ unsure \in SUBSET Users /\ floored \in SUBSET Users

Init ==
  /\ published = {} /\ queue = <<>>
  /\ unreadRows = {} /\ readRows = {}
  /\ counter = [u \in Users |-> Absent] /\ lasting = {}
  /\ pc = "idle" /\ cur = NoEvent /\ to = NoUser /\ todo = {} /\ tries = 0 /\ cnt = 0
  /\ rpc = [r \in Requests |-> "idle"]
  /\ user = [r \in Requests |-> NoUser]
  /\ rcnt = [r \in Requests |-> 0]
  /\ faults = 0
  /\ handled = {} /\ dropped = {} /\ partial = {} /\ pushed = <<>>
  /\ unsure = {} /\ floored = {}

Fault == faults < MaxFaults /\ faults' = faults + 1
NoFault == UNCHANGED faults
Unread(u) == Cardinality({n \in unreadRows : n[2] = u})
Rows == unreadRows \cup readRows

SetCounter(u, n) ==
  /\ counter' = [counter EXCEPT ![u] = n]
  /\ lasting' = lasting \ {u}

\* The steps on a user's counter that are under way.
Busy(u) ==
  Cardinality({r \in Requests : user[r] = u /\ rpc[r] \notin {"idle", "done"}})
  + IF to = u /\ pc \in Counting THEN 1 ELSE 0

\* Kept beside every step: work that overlaps, fails or meets an expiry makes a
\* counter unsure; an absent key that nobody works on makes it sure again.
Observe ==
  LET shaken(u) == \/ Busy(u)' > 1
                   \/ faults' # faults /\ Busy(u) > 0
                   \/ counter[u] # Absent /\ counter'[u] = Absent /\ Busy(u)' > 0
      sunk(u) == counter[u] = Absent /\ counter'[u] = 0 /\ u \in lasting'
      sound(u) == counter'[u] = Absent /\ Busy(u)' = 0
  IN /\ unsure' = {u \in Users : (u \in unsure \/ shaken(u)) /\ ~sound(u)}
     /\ floored' = {u \in Users : (u \in floored \/ sunk(u)) /\ ~sound(u)}

----------------------------------------------------------------------------
(* NotificationHandler *)

\* A service publishes an event (RatingService, CommentService, SocialService).
Publish(e) ==
  /\ e \notin published
  /\ published' = published \cup {e}
  /\ queue' = Append(queue, e)
  /\ UNCHANGED <<table, redis, consumer, requests, faults, history>>

\* The handling of an event is over.
Done == pc' = "ack" /\ to' = NoUser /\ todo' = {}

\* Nobody is told of a like or a comment of his own, nor of its mentions.
Receive ==
  /\ pc = "idle" /\ queue # <<>>
  /\ cur' = Head(queue)
  /\ queue' = Tail(queue)
  /\ \/ cur'.kind # "follow" /\ cur'.from = cur'.to /\ Done
     \/ (cur'.kind = "follow" \/ cur'.from # cur'.to) /\ pc' = "create" /\ to' = cur'.to /\ UNCHANGED todo
  /\ UNCHANGED <<published, table, redis, tries, cnt, requests, faults, history>>

\* Mutant: a row that exists is told again.
CreateAgain ==
  /\ pc = "create"
  /\ \/ <<cur, to>> \in Rows /\ UNCHANGED unreadRows
     \/ <<cur, to>> \notin Rows /\ unreadRows' = unreadRows \cup {<<cur, to>>}
  /\ pc' = "exists"
  /\ UNCHANGED <<published, queue, readRows, redis, cur, to, todo, tries, cnt, requests, faults, history>>

\* createNotification: a row that exists ends the handling of the event; only
\* this consumer inserts rows, so its COUNT and INSERT are one step.
Create ==
  /\ pc = "create"
  /\ \/ /\ <<cur, to>> \in Rows
        /\ Done
        /\ partial' = IF todo = {} THEN partial ELSE partial \cup {cur}
        /\ UNCHANGED unreadRows
     \/ /\ <<cur, to>> \notin Rows
        /\ unreadRows' = unreadRows \cup {<<cur, to>>}
        /\ pc' = "exists"
        /\ UNCHANGED <<to, todo, partial>>
  /\ UNCHANGED <<published, queue, readRows, redis, cur, tries, cnt, requests, faults, handled,
                 dropped, pushed>>

\* incrUnread.  A failed EXISTS leaves the counter as it is.
UnreadExists ==
  /\ pc = "exists"
  /\ \/ NoFault /\ pc' = (IF counter[to] = Absent THEN "count" ELSE "incr")
     \/ Fault /\ pc' = "push"
  /\ UNCHANGED <<published, queue, table, redis, cur, to, todo, tries, cnt, requests, history>>

\* The error of the COUNT is ignored; its result is then 0.
UnreadCount ==
  /\ pc = "count"
  /\ \/ NoFault /\ cnt' = Unread(to)
     \/ Fault /\ cnt' = 0
  /\ pc' = "set"
  /\ UNCHANGED <<published, queue, table, redis, cur, to, todo, tries, requests, history>>

UnreadSet ==
  /\ pc = "set"
  /\ \/ NoFault /\ SetCounter(to, cnt)
     \/ Fault /\ UNCHANGED redis
  /\ pc' = "push" /\ cnt' = 0
  /\ UNCHANGED <<published, queue, table, cur, to, todo, tries, requests, history>>

\* INCR makes a missing key 1, without a time to live.
UnreadIncr ==
  /\ pc = "incr"
  /\ \/ /\ NoFault
        /\ counter' = [counter EXCEPT ![to] = IF @ = Absent THEN 1 ELSE @ + 1]
        /\ lasting' = IF counter[to] = Absent THEN lasting \cup {to} ELSE lasting
     \/ Fault /\ UNCHANGED redis
  /\ pc' = "expire"
  /\ UNCHANGED <<published, queue, table, cur, to, todo, tries, cnt, requests, history>>

UnreadExpire ==
  /\ pc = "expire"
  /\ \/ NoFault /\ lasting' = lasting \ {to}
     \/ Fault /\ UNCHANGED lasting
  /\ pc' = "push"
  /\ UNCHANGED <<published, queue, table, counter, cur, to, todo, tries, cnt, requests, history>>

\* On to the next user mentioned, in the order the database returns them.
NextMention(S) ==
  \/ S = {} /\ Done
  \/ \E u \in S : to' = u /\ todo' = S \ {u} /\ pc' = "create"

\* Mutant: a comment is handled like the other kinds.
HubPushReturns ==
  /\ pc = "push"
  /\ pushed' = Append(pushed, <<cur, to>>)
  /\ Done
  /\ UNCHANGED <<published, queue, table, redis, cur, tries, cnt, requests, faults, handled, dropped, partial>>

\* The first push is the author's; the mentions are looked up after it.
HubPush ==
  /\ pc = "push"
  /\ pushed' = Append(pushed, <<cur, to>>)
  /\ \/ cur.kind # "comment" /\ Done
     \/ /\ cur.kind = "comment" /\ to = cur.to
        /\ pc' = "names" /\ UNCHANGED <<to, todo>>
     \/ cur.kind = "comment" /\ to # cur.to /\ NextMention(todo)
  /\ UNCHANGED <<published, queue, table, redis, cur, tries, cnt, requests, faults, handled, dropped, partial>>

\* Users by name; the sender is passed over.
Names ==
  /\ pc = "names"
  /\ NextMention(cur.ats \ {cur.from})
  /\ UNCHANGED <<published, queue, table, redis, cur, tries, cnt, requests, faults, history>>

Started == \E u \in Users : <<cur, u>> \in Rows

\* A query or an insertion fails: the event is processed again from the start,
\* or given up.
ProcessFails ==
  /\ pc \in {"create", "names"}
  /\ Fault
  /\ partial' = IF Started THEN partial \cup {cur} ELSE partial
  /\ \/ /\ tries + 1 < MaxTries
        /\ tries' = tries + 1
        /\ pc' = "create" /\ to' = cur.to /\ todo' = {}
        /\ UNCHANGED dropped
     \/ /\ tries + 1 >= MaxTries
        /\ dropped' = dropped \cup {cur}
        /\ Done /\ UNCHANGED tries
  /\ handled' = handled \cup dropped'
  /\ UNCHANGED <<published, queue, table, redis, cur, cnt, requests, pushed>>

Forget == pc' = "idle" /\ cur' = NoEvent /\ to' = NoUser /\ todo' = {} /\ tries' = 0 /\ cnt' = 0

\* Accept; the events that are no news for anybody end here too.
Ack ==
  /\ pc = "ack"
  /\ Forget
  /\ handled' = handled \cup {cur}
  /\ UNCHANGED <<published, queue, table, redis, requests, faults, dropped, partial, pushed>>

\* The API process dies, with its requests; the broker delivers the event again.
Crash ==
  /\ Fault
  /\ queue' = IF pc = "idle" THEN queue ELSE <<cur>> \o queue
  /\ Forget
  /\ partial' = IF pc \notin {"idle", "ack"} /\ Started THEN partial \cup {cur} ELSE partial
  /\ rpc' = [r \in Requests |-> IF rpc[r] = "idle" THEN "idle" ELSE "done"]
  /\ UNCHANGED <<published, table, redis, user, rcnt, handled, dropped, pushed>>

----------------------------------------------------------------------------
(* MarkReadHandler and UnreadCountHandler *)

RGoto(r, label) == rpc' = [rpc EXCEPT ![r] = label]
ReqStays == <<published, queue, consumer, history>>

Begin(r, u) ==
  /\ rpc[r] = "idle"
  /\ user' = [user EXCEPT ![r] = u]

\* All of a user's rows are marked, then his counter is deleted; the result of
\* the UPDATE is not looked at.
MarkAll(r, u) ==
  /\ Begin(r, u)
  /\ \/ /\ NoFault
        /\ unreadRows' = {n \in unreadRows : n[2] # u}
        /\ readRows' = readRows \cup {n \in unreadRows : n[2] = u}
     \/ Fault /\ UNCHANGED table
  /\ RGoto(r, "del")
  /\ UNCHANGED <<ReqStays, redis, rcnt>>

\* Mutant: the counter is left.
KeepCounter(r) ==
  /\ rpc[r] = "del"
  /\ RGoto(r, "done")
  /\ UNCHANGED <<ReqStays, table, redis, user, rcnt, faults>>

DelCounter(r) ==
  LET u == user[r] IN
  /\ rpc[r] = "del"
  /\ RGoto(r, "done")
  /\ \/ NoFault /\ SetCounter(u, Absent)
     \/ Fault /\ UNCHANGED redis
  /\ UNCHANGED <<ReqStays, table, user, rcnt>>

\* One row: RowsAffected tells whether it was unread.
MarkOne(r, u) ==
  /\ Begin(r, u)
  /\ \/ \E n \in {x \in unreadRows : x[2] = u} :
          /\ unreadRows' = unreadRows \ {n}
          /\ readRows' = readRows \cup {n}
          /\ RGoto(r, "decr")
     \/ \E n \in {x \in readRows : x[2] = u} : RGoto(r, "done") /\ UNCHANGED table
  /\ UNCHANGED <<ReqStays, redis, rcnt, faults>>

\* Mutant: a plain DECR.
DecrPlain(r) ==
  /\ rpc[r] = "decr"
  /\ RGoto(r, "done")
  /\ counter' = [counter EXCEPT ![user[r]] = IF @ = Absent THEN -1 ELSE @ - 1]
  /\ UNCHANGED <<ReqStays, table, lasting, user, rcnt, faults>>

\* DecrNotNegative, one script: below zero it stores 0, without a time to live.
DecrCounter(r) ==
  LET u == user[r]
      low == counter[u] \in {Absent, 0}
  IN /\ rpc[r] = "decr"
     /\ RGoto(r, "done")
     /\ \/ /\ NoFault
           /\ counter' = [counter EXCEPT ![u] = IF low THEN 0 ELSE @ - 1]
           /\ lasting' = IF low THEN lasting \cup {u} ELSE lasting
        \/ Fault /\ UNCHANGED redis
     /\ UNCHANGED <<ReqStays, table, user, rcnt>>

\* UnreadCountHandler: a hit answers, anything else asks the table.
GetCounter(r, u) ==
  /\ Begin(r, u)
  /\ \/ counter[u] # Absent /\ RGoto(r, "done") /\ NoFault
     \/ counter[u] = Absent /\ RGoto(r, "count") /\ NoFault
     \/ counter[u] # Absent /\ RGoto(r, "count") /\ Fault
  /\ UNCHANGED <<ReqStays, table, redis, rcnt>>

CountRows(r) ==
  /\ rpc[r] = "count"
  /\ \/ NoFault /\ rcnt' = [rcnt EXCEPT ![r] = Unread(user[r])] /\ RGoto(r, "set")
     \/ Fault /\ UNCHANGED rcnt /\ RGoto(r, "done")
  /\ UNCHANGED <<ReqStays, table, redis, user>>

StoreCount(r) ==
  /\ rpc[r] = "set"
  /\ RGoto(r, "done")
  /\ \/ NoFault /\ SetCounter(user[r], rcnt[r])
     \/ Fault /\ UNCHANGED redis
  /\ UNCHANGED <<ReqStays, table, user, rcnt>>

\* The seven days are over.
CounterExpires(u) ==
  /\ counter[u] # Absent /\ u \notin lasting
  /\ SetCounter(u, Absent)
  /\ UNCHANGED <<ReqStays, table, requests, faults>>

----------------------------------------------------------------------------
IncrUnread == UnreadExists \/ UnreadCount \/ UnreadSet \/ UnreadIncr \/ UnreadExpire
NotificationHandler ==
  Receive \/ Create \/ IncrUnread \/ HubPush \/ Names \/ ProcessFails \/ Ack
MarkReadHandler(r) ==
  DelCounter(r) \/ DecrCounter(r) \/ \E u \in Users : MarkAll(r, u) \/ MarkOne(r, u)
UnreadCountHandler(r) ==
  CountRows(r) \/ StoreCount(r) \/ \E u \in Users : GetCounter(r, u)

Step ==
  \/ \E e \in Events : Publish(e)
  \/ NotificationHandler \/ Crash
  \/ \E r \in Requests : MarkReadHandler(r) \/ UnreadCountHandler(r)
  \/ \E u \in Users : CounterExpires(u)

Next == Step /\ Observe

Spec == Init /\ [][Next]_vars

----------------------------------------------------------------------------
(* Properties *)

\* Nobody is pushed the same notification twice, however often its event is
\* retried or delivered again.
PushedOnce == \A i, j \in DOMAIN pushed : pushed[i] = pushed[j] => i = j

\* Users an event is news for: the recipient, and the ones a comment mentions;
\* an author's own likes and comments are news for nobody.
Audience(e) ==
  IF e.kind # "follow" /\ e.from = e.to THEN {} ELSE {e.to} \cup (e.ats \ {e.from})

\* Every event handled has told its audience, unless it was given up or its
\* handling was interrupted after the first row (a second run then ends at that
\* row), or it mentions the author and others after him (the loop ends at him).
AudienceTold ==
  \A e \in handled \ (dropped \cup partial) : \A u \in Audience(e) : <<e, u>> \in Rows

\* The counter shows the number of unread rows whenever nothing is under way for
\* its user: across expiry, marking one or all and new rows, and until its next
\* expiry after steps that overlapped or failed, or a missing key decremented.
CounterExactUnlessUnsure ==
  \A u \in Users \ (unsure \cup floored) :
    counter[u] # Absent /\ Busy(u) = 0 => counter[u] = Unread(u)

==============================================================================
