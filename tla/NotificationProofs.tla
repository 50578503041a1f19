-------------------------- MODULE NotificationProofs --------------------------
(***************************************************************************)
(* Proofs about Notification and SSEHub, the way of a notification from an *)
(* event to a stream: for any users, events, requests, connections and     *)
(* faults, the types, what is pushed, who is told, the counter against the *)
(* rows, that the hub never panics, that the registered streams are the    *)
(* open ones, and that the hub is a mailbox.                               *)
(***************************************************************************)
EXTENDS Notification, SSEHub, FiniteSetTheorems, SequenceTheorems, TLAPS

\* The consumer at work holds an event, and a user where it writes rows and
\* counters; a request at work has its user.
InHand ==
  /\ pc # "idle" => cur \in Events
  /\ pc \in Counting \cup {"create", "push"} => to \in Users
  /\ \A r \in Requests : rpc[r] # "idle" => user[r] \in Users
TypeInv == TypeOK /\ InHand

LEMMA EventFields ==
  ASSUME NEW e \in Events
  PROVE  /\ e.kind \in {"like", "comment", "follow"} /\ e.to \in Users /\ e.ats \subseteq Users
         /\ e.kind # "comment" => e.ats = {}
  BY NotificationAssumption

LEMMA FaultType == ASSUME TypeOK, Fault \/ NoFault PROVE faults' \in 0..MaxFaults
  BY NotificationAssumption DEF TypeOK, Fault, NoFault

LEMMA RowsFinite ==
  ASSUME TypeOK
  PROVE  IsFiniteSet(unreadRows)
<1>1. IsFiniteSet(Events \X Users)
  BY NotificationAssumption, FS_Product
<1> QED BY <1>1, FS_Subset DEF TypeOK

LEMMA UnreadType ==
  ASSUME TypeOK, NEW u
  PROVE  IsFiniteSet({n \in unreadRows : n[2] = u}) /\ Unread(u) \in Nat
<1>1. IsFiniteSet({n \in unreadRows : n[2] = u})
  BY RowsFinite, FS_Subset
<1> QED BY <1>1, FS_CardinalityType DEF Unread

LEMMA SetCounterType ==
  ASSUME TypeOK, NEW u \in Users, NEW n \in Nat \cup {Absent}, SetCounter(u, n)
  PROVE  /\ counter' \in [Users -> Nat \cup {Absent}]
         /\ lasting' \in SUBSET {x \in Users : counter'[x] # Absent}
  BY DEF TypeOK, SetCounter

LEMMA ObserveType == ASSUME Observe PROVE unsure' \subseteq Users /\ floored' \subseteq Users
  BY DEF Observe

\* A step types the parts of the state it changes one group at a time.
TableOK ==
  /\ unreadRows \in SUBSET (Events \X Users) /\ readRows \in SUBSET (Events \X Users)
  /\ unreadRows \cap readRows = {}
RedisOK ==
  /\ counter \in [Users -> Nat \cup {Absent}]
  /\ lasting \in SUBSET {u \in Users : counter[u] # Absent}
ConsumerOK ==
  /\ pc \in PCs /\ cur \in Events \cup {NoEvent} /\ to \in Users \cup {NoUser}
  /\ todo \in SUBSET Users /\ tries \in 0..MaxTries-1 /\ cnt \in Nat
  /\ pc # "idle" => cur \in Events
  /\ pc \in Counting \cup {"create", "push"} => to \in Users
RequestsOK ==
  /\ rpc \in [Requests -> RPCs]
  /\ user \in [Requests -> Users \cup {NoUser}]
  /\ rcnt \in [Requests -> Nat]
  /\ \A r \in Requests : rpc[r] # "idle" => user[r] \in Users
HistoryOK ==
  /\ published \in SUBSET Events /\ queue \in Seq(Events) /\ faults \in 0..MaxFaults
  /\ handled \in SUBSET Events /\ dropped \in SUBSET handled /\ partial \in SUBSET Events
  /\ pushed \in Seq(Events \X Users)
Typed == TableOK /\ RedisOK /\ ConsumerOK /\ RequestsOK /\ HistoryOK

LEMMA TypedIsType == Typed /\ unsure \subseteq Users /\ floored \subseteq Users <=> TypeInv
  BY DEF Typed, TypeInv, TypeOK, InHand, TableOK, RedisOK, ConsumerOK, RequestsOK, HistoryOK

LEMMA RestOK ==
  ASSUME Typed
  PROVE  /\ UNCHANGED table => TableOK'
         /\ UNCHANGED redis => RedisOK'
         /\ UNCHANGED consumer => ConsumerOK'
         /\ UNCHANGED requests => RequestsOK'
         /\ UNCHANGED <<published, queue, history>> /\ faults' \in 0..MaxFaults => HistoryOK'
  BY DEF Typed, TableOK, RedisOK, ConsumerOK, RequestsOK, HistoryOK,
         table, redis, consumer, requests, history

----------------------------------------------------------------------------
(* Types *)

LEMMA ConsumerTypes ==
  ASSUME Typed, TypeInv, NotificationHandler
  PROVE  Typed'
<1> USE DEF NoFault
<1>f. (Fault \/ UNCHANGED faults) => faults' \in 0..MaxFaults
  BY FaultType DEF TypeInv, NoFault
<1>p. PCs = {"idle", "create", "push", "names", "ack", "exists", "count", "set", "incr", "expire"}
  BY DEF PCs, Counting
<1>1. CASE Receive
  <2>1. cur' \in Events /\ queue' \in Seq(Events)
    BY <1>1 DEF Receive, Typed, HistoryOK
  <2>2. cur'.to \in Users
    BY <2>1, EventFields
  <2>3. ConsumerOK'
    BY <1>1, <1>p, <2>1, <2>2 DEF Receive, Done, Typed, ConsumerOK, Counting
  <2>4. HistoryOK'
    BY <1>1, <2>1 DEF Receive, Typed, HistoryOK, history
  <2> QED BY <1>1, <2>3, <2>4, RestOK DEF Receive, Typed
<1>2. CASE Create
  <2>1. <<cur, to>> \in Events \X Users
    BY <1>2, <1>p DEF Create, Typed, ConsumerOK
  <2>2. TableOK'
    BY <1>2, <2>1 DEF Create, Rows, Typed, TableOK
  <2>3. ConsumerOK'
    BY <1>2, <1>p, <2>1 DEF Create, Done, Typed, ConsumerOK, Counting
  <2>4. HistoryOK'
    BY <1>2, <2>1 DEF Create, Typed, HistoryOK
  <2> QED BY <1>2, <2>2, <2>3, <2>4, RestOK DEF Create, Typed
<1>3. CASE UnreadExists
  <2>1. ConsumerOK'
    BY <1>3, <1>p DEF UnreadExists, Typed, ConsumerOK, Counting
  <2> QED BY <1>3, <1>f, <2>1, RestOK DEF UnreadExists, Typed
<1>4. CASE UnreadCount
  <2>0. Unread(to) \in Nat
    BY UnreadType DEF TypeInv
  <2>1. cnt' \in Nat
    BY <1>4, <2>0 DEF UnreadCount
  <2>2. ConsumerOK'
    BY <1>4, <1>p, <2>1 DEF UnreadCount, Typed, ConsumerOK, Counting
  <2> QED BY <1>4, <1>f, <2>2, RestOK DEF UnreadCount, Typed
<1>5. CASE UnreadSet
  <2>1. to \in Users /\ cnt \in Nat
    BY <1>5 DEF UnreadSet, Typed, ConsumerOK, Counting
  <2>2. RedisOK'
    BY <1>5, <2>1, RestOK, SetCounterType DEF UnreadSet, TypeInv, RedisOK
  <2>3. ConsumerOK'
    BY <1>5, <1>p, <2>1 DEF UnreadSet, Typed, ConsumerOK, Counting
  <2> QED BY <1>5, <1>f, <2>2, <2>3, RestOK DEF UnreadSet, Typed
<1>6. CASE UnreadIncr
  <2>1. to \in Users
    BY <1>6 DEF UnreadIncr, Typed, ConsumerOK, Counting
  <2>2. RedisOK'
    <3>1. CASE UNCHANGED redis
      BY <3>1, RestOK
    <3>2. CASE ~UNCHANGED redis
      <4>1. /\ counter' = [counter EXCEPT ![to] = IF @ = Absent THEN 1 ELSE @ + 1]
            /\ lasting' = IF counter[to] = Absent THEN lasting \cup {to} ELSE lasting
        BY <1>6, <3>2 DEF UnreadIncr
      <4> QED BY <2>1, <4>1, NotificationAssumption DEF Typed, RedisOK
    <3> QED BY <3>1, <3>2
  <2>3. ConsumerOK'
    BY <1>6, <1>p DEF UnreadIncr, Typed, ConsumerOK, Counting
  <2> QED BY <1>6, <1>f, <2>2, <2>3, RestOK DEF UnreadIncr, Typed
<1>7. CASE UnreadExpire
  <2>1. RedisOK'
    BY <1>7 DEF UnreadExpire, Typed, RedisOK
  <2>2. ConsumerOK'
    BY <1>7, <1>p DEF UnreadExpire, Typed, ConsumerOK, Counting
  <2> QED BY <1>7, <1>f, <2>1, <2>2, RestOK DEF UnreadExpire, Typed
<1>8. CASE HubPush
  <2>1. <<cur, to>> \in Events \X Users
    BY <1>8 DEF HubPush, Typed, ConsumerOK
  <2>2. ConsumerOK'
    BY <1>8, <1>p, <2>1 DEF HubPush, NextMention, Done, Typed, ConsumerOK, Counting
  <2>3. HistoryOK'
    BY <1>8, <2>1 DEF HubPush, Typed, HistoryOK
  <2> QED BY <1>8, <2>2, <2>3, RestOK DEF HubPush, Typed
<1>9. CASE Names
  <2>1. cur.ats \subseteq Users
    BY <1>9, EventFields DEF Names, Typed, ConsumerOK
  <2>2. ConsumerOK'
    BY <1>9, <1>p, <2>1 DEF Names, NextMention, Done, Typed, ConsumerOK, Counting
  <2> QED BY <1>9, <1>f, <2>2, RestOK DEF Names, Typed
<1>10. CASE ProcessFails
  <2>1. cur \in Events /\ cur.to \in Users
    BY <1>10, EventFields DEF ProcessFails, Typed, ConsumerOK
  <2>2. tries' \in 0..MaxTries-1
    BY <1>10, NotificationAssumption DEF ProcessFails, Typed, ConsumerOK
  <2>3. ConsumerOK'
    BY <1>10, <1>p, <2>1, <2>2 DEF ProcessFails, Done, Typed, ConsumerOK, Counting
  <2>4. faults' \in 0..MaxFaults
    BY <1>10, <1>f DEF ProcessFails
  <2>5. HistoryOK'
    BY <1>10, <2>1, <2>4 DEF ProcessFails, Typed, HistoryOK
  <2> QED BY <1>10, <2>3, <2>5, RestOK DEF ProcessFails, Typed
<1>11. CASE Ack
  <2>1. cur \in Events
    BY <1>11 DEF Ack, Typed, ConsumerOK
  <2>2. ConsumerOK'
    BY <1>11, <1>p, NotificationAssumption DEF Ack, Forget, Typed, ConsumerOK, Counting
  <2>3. HistoryOK'
    BY <1>11, <2>1 DEF Ack, Typed, HistoryOK
  <2> QED BY <1>11, <2>2, <2>3, RestOK DEF Ack, Typed
<1> QED BY <1>1, <1>2, <1>3, <1>4, <1>5, <1>6, <1>7, <1>8, <1>9, <1>10, <1>11
        DEF NotificationHandler, IncrUnread

LEMMA RequestTypes ==
  ASSUME Typed, TypeInv, NEW r \in Requests, MarkReadHandler(r) \/ UnreadCountHandler(r)
  PROVE  Typed'
<1>f. (Fault \/ NoFault) => faults' \in 0..MaxFaults
  BY FaultType DEF TypeInv
<1>r. \A s \in {"get", "count", "set", "del", "decr", "done"} : s \in RPCs /\ s # "idle"
  BY DEF RPCs
<1>0. UNCHANGED ReqStays /\ faults' \in 0..MaxFaults => ConsumerOK' /\ HistoryOK'
  BY DEF ReqStays, Typed, ConsumerOK, HistoryOK, consumer, history
<1>1. ASSUME NEW u \in Users, MarkAll(r, u)
      PROVE  Typed'
  <2>1. TableOK'
    BY <1>1 DEF MarkAll, table, Typed, TableOK
  <2>2. RequestsOK'
    BY <1>1, <1>r DEF MarkAll, Begin, RGoto, Typed, RequestsOK
  <2> QED BY <1>0, <1>1, <1>f, <2>1, <2>2, RestOK DEF MarkAll, Typed
<1>2. CASE DelCounter(r)
  <2>1. user[r] \in Users
    BY <1>2 DEF DelCounter, Typed, RequestsOK
  <2>2. RedisOK'
    BY <1>2, <2>1, RestOK, SetCounterType DEF DelCounter, TypeInv, RedisOK
  <2>3. RequestsOK'
    BY <1>2, <1>r DEF DelCounter, RGoto, Typed, RequestsOK
  <2> QED BY <1>0, <1>2, <1>f, <2>2, <2>3, RestOK DEF DelCounter, Typed
<1>3. ASSUME NEW u \in Users, MarkOne(r, u)
      PROVE  Typed'
  <2>1. TableOK'
    BY <1>3 DEF MarkOne, table, Typed, TableOK
  <2>2. RequestsOK'
    BY <1>3, <1>r DEF MarkOne, Begin, RGoto, Typed, RequestsOK
  <2>3. faults' \in 0..MaxFaults
    BY <1>3 DEF MarkOne, Typed, HistoryOK
  <2> QED BY <1>0, <1>3, <2>1, <2>2, <2>3, RestOK DEF MarkOne, Typed
<1>4. CASE DecrCounter(r)
  <2>1. user[r] \in Users
    BY <1>4 DEF DecrCounter, Typed, RequestsOK
  <2>2. RedisOK'
    <3>1. CASE UNCHANGED redis
      BY <3>1, RestOK
    <3>2. CASE counter[user[r]] \in {Absent, 0} /\ ~UNCHANGED redis
      <4>1. /\ counter' = [counter EXCEPT ![user[r]] = 0]
            /\ lasting' = lasting \cup {user[r]}
        BY <1>4, <3>2 DEF DecrCounter
      <4> QED BY <2>1, <4>1, NotificationAssumption DEF Typed, RedisOK
    <3>3. CASE counter[user[r]] \notin {Absent, 0} /\ ~UNCHANGED redis
      <4>1. counter' = [counter EXCEPT ![user[r]] = @ - 1] /\ lasting' = lasting
        BY <1>4, <3>3 DEF DecrCounter
      <4>2. counter[user[r]] - 1 \in Nat
        BY <2>1, <3>3 DEF Typed, RedisOK
      <4> QED BY <2>1, <4>1, <4>2, NotificationAssumption DEF Typed, RedisOK
    <3> QED BY <3>1, <3>2, <3>3
  <2>3. RequestsOK'
    BY <1>4, <1>r DEF DecrCounter, RGoto, Typed, RequestsOK
  <2> QED BY <1>0, <1>4, <1>f, <2>2, <2>3, RestOK DEF DecrCounter, Typed
<1>5. ASSUME NEW u \in Users, GetCounter(r, u)
      PROVE  Typed'
  <2>1. RequestsOK'
    BY <1>5, <1>r DEF GetCounter, Begin, RGoto, Typed, RequestsOK
  <2> QED BY <1>0, <1>5, <1>f, <2>1, RestOK DEF GetCounter, Typed
<1>6. CASE CountRows(r)
  <2>1. Unread(user[r]) \in Nat
    BY UnreadType DEF TypeInv
  <2>2. RequestsOK'
    BY <1>6, <1>r, <2>1 DEF CountRows, RGoto, Typed, RequestsOK
  <2> QED BY <1>0, <1>6, <1>f, <2>2, RestOK DEF CountRows, Typed
<1>7. CASE StoreCount(r)
  <2>1. user[r] \in Users /\ rcnt[r] \in Nat
    BY <1>7 DEF StoreCount, Typed, RequestsOK
  <2>2. RedisOK'
    BY <1>7, <2>1, RestOK, SetCounterType DEF StoreCount, TypeInv, RedisOK
  <2>3. RequestsOK'
    BY <1>7, <1>r DEF StoreCount, RGoto, Typed, RequestsOK
  <2> QED BY <1>0, <1>7, <1>f, <2>2, <2>3, RestOK DEF StoreCount, Typed
<1> QED BY <1>1, <1>2, <1>3, <1>4, <1>5, <1>6, <1>7 DEF MarkReadHandler, UnreadCountHandler

LEMMA StepTypes ==
  ASSUME Typed, TypeInv, Step
  PROVE  Typed'
<1>1. ASSUME NEW e \in Events, Publish(e)
      PROVE  Typed'
  <2>1. HistoryOK'
    BY <1>1 DEF Publish, Typed, HistoryOK, history
  <2> QED BY <1>1, <2>1, RestOK DEF Publish, Typed
<1>2. CASE NotificationHandler
  BY <1>2, ConsumerTypes
<1>3. CASE Crash
  <2>1. ConsumerOK'
    BY <1>3, NotificationAssumption DEF Crash, Forget, Typed, ConsumerOK, PCs, Counting
  <2>2. queue' \in Seq(Events) /\ partial' \in SUBSET Events
    <3>1. CASE pc = "idle"
      BY <1>3, <3>1 DEF Crash, Typed, HistoryOK
    <3>2. CASE pc # "idle"
      <4>1. cur \in Events
        BY <3>2 DEF Typed, ConsumerOK
      <4>2. <<cur>> \in Seq(Events)
        BY <4>1
      <4> QED BY <1>3, <3>2, <4>1, <4>2 DEF Crash, Typed, HistoryOK
    <3> QED BY <3>1, <3>2
  <2>3. faults' \in 0..MaxFaults
    BY <1>3, FaultType DEF Crash, TypeInv
  <2>4. HistoryOK'
    BY <1>3, <2>2, <2>3 DEF Crash, Typed, HistoryOK
  <2>5. RequestsOK'
    BY <1>3 DEF Crash, Typed, RequestsOK, RPCs
  <2> QED BY <1>3, <2>1, <2>4, <2>5, RestOK DEF Crash, Typed
<1>4. ASSUME NEW r \in Requests, MarkReadHandler(r) \/ UnreadCountHandler(r)
      PROVE  Typed'
  BY <1>4, RequestTypes
<1>5. ASSUME NEW u \in Users, CounterExpires(u)
      PROVE  Typed'
  <2>1. RedisOK'
    BY <1>5, SetCounterType DEF CounterExpires, TypeInv, RedisOK
  <2> QED BY <1>5, <2>1 DEF CounterExpires, ReqStays, table, requests, consumer, history,
             Typed, TableOK, ConsumerOK, RequestsOK, HistoryOK
<1> QED BY <1>1, <1>2, <1>3, <1>4, <1>5 DEF Step

LEMMA InitTypes == Init => TypeInv
  BY NotificationAssumption DEF Init, TypeInv, TypeOK, InHand, PCs, RPCs, Counting

LEMMA NextTypes == TypeInv /\ [Next]_vars => TypeInv'
<1> SUFFICES ASSUME TypeInv, [Next]_vars
             PROVE  TypeInv'
  OBVIOUS
<1>1. Typed
  BY TypedIsType
<1>2. CASE Next
  <2>1. Typed'
    BY <1>1, <1>2, StepTypes DEF Next
  <2>2. unsure' \subseteq Users /\ floored' \subseteq Users
    BY <1>2, ObserveType DEF Next
  <2> QED BY <2>1, <2>2 DEF Typed, TypeInv, TypeOK, InHand, TableOK, RedisOK, ConsumerOK, RequestsOK, HistoryOK
<1>3. CASE UNCHANGED vars
  BY <1>3 DEF TypeInv, TypeOK, InHand, vars, table, redis, consumer, requests, history
<1> QED BY <1>2, <1>3

LEMMA TypeInvariant == Spec => []TypeInv
  BY InitTypes, NextTypes, PTL DEF Spec

\* Every variable of the notifications keeps its type: NotificationHandler, MarkReadHandler
\* and UnreadCountHandler store counters that are never negative and rows that are either
\* unread or read.
THEOREM TypeCorrect == Spec => []TypeOK
<1>1. TypeInv => TypeOK
  BY DEF TypeInv
<1> QED BY <1>1, TypeInvariant, PTL

----------------------------------------------------------------------------
(* What is pushed *)

\* A notification is pushed once: only a row that was not there is taken on to the
\* push, and what was pushed has its row.
PushInv ==
  /\ PushedOnce
  /\ \A i \in DOMAIN pushed : pushed[i] \in Rows
  /\ pc \in Counting \cup {"push"} =>
       <<cur, to>> \in Rows /\ \A i \in DOMAIN pushed : pushed[i] # <<cur, to>>

LEMMA RowsStay ==
  ASSUME TypeInv, Step
  PROVE  Rows \subseteq Rows'
<1>1. ASSUME NEW r \in Requests, MarkReadHandler(r) \/ UnreadCountHandler(r)
      PROVE  Rows \subseteq Rows'
  <2>1. ASSUME NEW u \in Users, MarkAll(r, u) \/ MarkOne(r, u)
        PROVE  Rows \subseteq Rows'
    BY <2>1 DEF MarkAll, MarkOne, Rows, table
  <2> QED BY <1>1, <2>1 DEF MarkReadHandler, UnreadCountHandler, DelCounter, DecrCounter, GetCounter,
             CountRows, StoreCount, Rows, table
<1> QED BY <1>1 DEF Step, Publish, NotificationHandler, IncrUnread, Receive, Create, UnreadExists, UnreadCount,
           UnreadSet, UnreadIncr, UnreadExpire, HubPush, Names, ProcessFails, Ack, Crash, CounterExpires, Rows, table

LEMMA PushStep ==
  ASSUME TypeInv, PushInv, Step
  PROVE  PushInv'
<1>1. Rows \subseteq Rows'
  BY RowsStay
<1>2. pushed \in Seq(Events \X Users)
  BY DEF TypeInv, TypeOK
<1>3. CASE HubPush
  <2>1. pushed' = Append(pushed, <<cur, to>>) /\ pc' \notin Counting \cup {"push"} /\ pc = "push"
    BY <1>3 DEF HubPush, NextMention, Done, Counting
  <2>2. /\ DOMAIN pushed' = DOMAIN pushed \cup {Len(pushed) + 1}
        /\ pushed'[Len(pushed) + 1] = <<cur, to>>
        /\ \A i \in DOMAIN pushed : pushed'[i] = pushed[i]
    BY <1>2, <2>1
  <2>3. Len(pushed) + 1 \notin DOMAIN pushed
    BY <1>2
  <2>4. \A i \in DOMAIN pushed : pushed[i] # <<cur, to>>
    BY <2>1 DEF PushInv
  <2>5. <<cur, to>> \in Rows
    BY <2>1 DEF PushInv
  <2>6. PushedOnce'
    BY <2>2, <2>3, <2>4 DEF PushInv, PushedOnce
  <2> QED BY <1>1, <2>1, <2>2, <2>5, <2>6 DEF PushInv
<1>4. CASE Create
  <2>1. pushed' = pushed /\ cur' = cur
    BY <1>4 DEF Create
  <2>2. pc' \in Counting \cup {"push"} => to' = to /\ <<cur, to>> \notin Rows /\ <<cur, to>> \in Rows'
    BY <1>4 DEF Create, Done, Counting, Rows
  <2>3. pc' \in Counting \cup {"push"} => \A i \in DOMAIN pushed : pushed[i] # <<cur, to>>
    BY <2>2 DEF PushInv
  <2> QED BY <1>1, <2>1, <2>2, <2>3 DEF PushInv, PushedOnce
<1>5. CASE ~HubPush /\ ~Create
  <2>1. pushed' = pushed
    BY <1>5 DEF Step, Publish, NotificationHandler, IncrUnread, Receive, UnreadExists, UnreadCount,
           UnreadSet, UnreadIncr, UnreadExpire, Names, ProcessFails, Ack, Crash, CounterExpires, MarkReadHandler,
           UnreadCountHandler, MarkAll, MarkOne, DelCounter, DecrCounter, GetCounter, CountRows, StoreCount,
           ReqStays, history
  <2>2. pc' \in Counting \cup {"push"} => pc \in Counting \cup {"push"} /\ cur' = cur /\ to' = to
    BY <1>5 DEF Step, Publish, NotificationHandler, IncrUnread, Receive, UnreadExists, UnreadCount,
           UnreadSet, UnreadIncr, UnreadExpire, Names, NextMention, Done, ProcessFails, Ack, Forget, Crash,
           CounterExpires, MarkReadHandler, UnreadCountHandler, MarkAll, MarkOne, DelCounter, DecrCounter, GetCounter,
           CountRows, StoreCount, ReqStays, consumer, Counting
  <2> QED BY <1>1, <2>1, <2>2 DEF PushInv, PushedOnce
<1> QED BY <1>3, <1>4, <1>5

\* No notification is pushed twice to the same user, however often createNotification
\* runs for its event after a failure or a crash.
THEOREM PushesOnce == Spec => []PushedOnce
<1>1. Init => PushInv
  BY DEF Init, PushInv, PushedOnce, Counting
<1>2. TypeInv /\ PushInv /\ [Next]_vars => PushInv'
  <2>1. ASSUME PushInv, UNCHANGED vars
        PROVE  PushInv'
    BY <2>1 DEF PushInv, PushedOnce, Rows, vars, table, consumer, history
  <2> QED BY <2>1, PushStep DEF Next
<1>3. PushInv => PushedOnce
  BY DEF PushInv
<1> QED BY <1>1, <1>2, <1>3, TypeInvariant, PTL DEF Spec

----------------------------------------------------------------------------
(* Who is told *)

Told(e) == \A u \in Audience(e) : <<e, u>> \in Rows
Untouched(e) == e \notin handled /\ \A u \in Users : <<e, u>> \notin Rows

\* The consumer is at the event, and has told everybody it has passed: first the
\* recipient, then, of a comment, the mentions before to and todo.
FirstToldNext(e) == pc = "create" /\ to = e.to /\ todo = {} /\ Untouched(e)
FirstTold(e) == pc \in Counting \cup {"push"} /\ to = e.to /\ todo = {} /\ <<e, to>> \in Rows
MentionsNext(e) == pc = "names" /\ e.kind = "comment" /\ <<e, e.to>> \in Rows
MentionToldNext(e) ==
  /\ pc = "create" /\ e.kind = "comment" /\ <<e, e.to>> \in Rows
  /\ \A u \in Audience(e) \ ({to} \cup todo) : <<e, u>> \in Rows
MentionTold(e) ==
  /\ pc \in Counting \cup {"push"} /\ e.kind = "comment" /\ to # e.to /\ <<e, e.to>> \in Rows
  /\ \A u \in Audience(e) \ todo : <<e, u>> \in Rows
Telling(e) ==
  /\ e = cur /\ e \notin handled
  /\ FirstToldNext(e) \/ FirstTold(e) \/ MentionsNext(e) \/ MentionToldNext(e) \/ MentionTold(e)

Accounted(e) ==
  \/ e \in partial \cup dropped \/ Told(e)
  \/ Untouched(e) /\ e # cur
  \/ Telling(e)
TellInv ==
  /\ pc = "idle" => cur = NoEvent /\ todo = {}
  /\ \A e \in Events : Accounted(e)

LEMMA HistoryGrows ==
  ASSUME Step
  PROVE  /\ partial \subseteq partial' /\ dropped \subseteq dropped'
         /\ handled' \subseteq handled \cup {cur} \cup dropped
         /\ cur' \in {cur, NoEvent} \/ Receive
         /\ \A n \in Rows' \ Rows : Create /\ n = <<cur, to>>
<1>1. ASSUME NEW r \in Requests, MarkReadHandler(r) \/ UnreadCountHandler(r)
      PROVE  UNCHANGED <<cur, history>> /\ Rows' \subseteq Rows
  <2>1. ASSUME NEW u \in Users, MarkAll(r, u) \/ MarkOne(r, u)
        PROVE  UNCHANGED <<cur, history>> /\ Rows' \subseteq Rows
    BY <2>1 DEF MarkAll, MarkOne, Rows, table, ReqStays, consumer
  <2> QED BY <1>1, <2>1 DEF MarkReadHandler, UnreadCountHandler, DelCounter, DecrCounter, GetCounter,
             CountRows, StoreCount, Rows, table, ReqStays, consumer
<1> QED BY <1>1 DEF Step, Publish, NotificationHandler, IncrUnread, Receive, Create, UnreadExists, UnreadCount,
           UnreadSet, UnreadIncr, UnreadExpire, HubPush, Names, ProcessFails, Ack, Forget, Crash, CounterExpires,
           Rows, table, ReqStays, consumer, history

LEMMA UntouchedStep ==
  ASSUME TypeInv, TellInv, Step, NEW e \in Events, Untouched(e), e # cur
  PROVE  Accounted(e)'
<1>1. Untouched(e)'
  <2>1. dropped \subseteq handled
    BY DEF TypeInv, TypeOK
  <2> QED BY <2>1, HistoryGrows DEF Untouched
<1>2. CASE cur' # e
  BY <1>1, <1>2 DEF Accounted
<1>3. CASE cur' = e
  <2>1. Receive
    BY <1>3, HistoryGrows, NotificationAssumption
  <2>2. CASE e.kind # "follow" /\ e.from = e.to
    BY <2>2 DEF Accounted, Told, Audience
  <2>3. CASE ~(e.kind # "follow" /\ e.from = e.to)
    <3>1. pc' = "create" /\ to' = e.to /\ todo' = todo
      BY <1>3, <2>1, <2>3 DEF Receive
    <3>2. todo = {}
      BY <2>1 DEF Receive, TellInv
    <3> QED BY <1>1, <1>3, <3>1, <3>2 DEF Accounted, Telling, FirstToldNext, Untouched
  <2> QED BY <2>2, <2>3
<1> QED BY <1>2, <1>3

\* Steps of the consumer's own that leave where it is, or move on among its commands.
LEMMA TellingStep ==
  ASSUME TypeInv, TellInv, NEW e \in Events, Telling(e), NotificationHandler, Rows \subseteq Rows'
  PROVE  Accounted(e)'
<1>e. e = cur /\ e \notin handled /\ e.to \in Users /\ e.ats \subseteq Users /\ (e.kind # "comment" => e.ats = {})
  BY EventFields DEF Telling
<1>a. Audience(e)' = Audience(e) /\ Audience(e) \subseteq {e.to} \cup (e.ats \ {e.from})
  BY DEF Audience
<1>d. dropped \subseteq handled
  BY DEF TypeInv, TypeOK
<1>1. CASE Receive
  BY <1>1 DEF Receive, Telling, FirstToldNext, FirstTold, MentionsNext, MentionToldNext, MentionTold, Counting
<1>2. CASE Create
  <2>0. pc = "create" /\ handled' = handled /\ cur' = cur
    BY <1>2 DEF Create
  <2>1. CASE <<cur, to>> \in Rows
    <3>1. pc' = "ack" /\ partial' = IF todo = {} THEN partial ELSE partial \cup {cur}
      BY <1>2, <2>1 DEF Create, Done
    <3>2. CASE todo # {}
      BY <1>e, <3>1, <3>2 DEF Accounted
    <3>3. CASE todo = {}
      <4>1. ~FirstToldNext(e)
        BY <1>e, <2>1 DEF FirstToldNext, Untouched
      <4>2. MentionToldNext(e)
        BY <2>0, <4>1 DEF Telling, FirstTold, MentionsNext, MentionTold, Counting
      <4>3. Told(e)
        BY <1>e, <2>1, <3>3, <4>2 DEF MentionToldNext, Told
      <4> QED BY <1>a, <4>3 DEF Told, Accounted
    <3> QED BY <3>2, <3>3
  <2>2. CASE <<cur, to>> \notin Rows
    <3>1. pc' = "exists" /\ UNCHANGED <<to, todo>> /\ <<cur, to>> \in Rows'
      BY <1>2, <2>2 DEF Create, Rows
    <3>2. FirstToldNext(e) => FirstTold(e)'
      BY <1>e, <3>1 DEF FirstToldNext, FirstTold, Counting
    <3>3. MentionToldNext(e) => MentionTold(e)'
      BY <1>e, <1>a, <2>2, <3>1 DEF MentionToldNext, MentionTold, Counting
    <3>4. FirstToldNext(e) \/ MentionToldNext(e)
      BY <2>0 DEF Telling, FirstTold, MentionsNext, MentionTold, Counting
    <3> QED BY <1>e, <2>0, <3>2, <3>3, <3>4 DEF Accounted, Telling
  <2> QED BY <2>1, <2>2
<1>3. CASE IncrUnread
  <2>1. pc \in Counting /\ pc' \in Counting \cup {"push"} /\ UNCHANGED <<cur, to, todo, handled>>
    BY <1>3 DEF IncrUnread, UnreadExists, UnreadCount, UnreadSet, UnreadIncr, UnreadExpire, Counting, history
  <2>2. FirstTold(e) => FirstTold(e)'
    BY <1>e, <2>1 DEF FirstTold
  <2>3. MentionTold(e) => MentionTold(e)'
    BY <1>a, <2>1 DEF MentionTold
  <2>4. FirstTold(e) \/ MentionTold(e)
    BY <2>1 DEF Telling, FirstToldNext, MentionsNext, MentionToldNext, Counting
  <2> QED BY <1>e, <2>1, <2>2, <2>3, <2>4 DEF Accounted, Telling
<1>4. CASE HubPush
  <2>0. pc = "push" /\ UNCHANGED <<cur, handled>>
    BY <1>4 DEF HubPush
  <2>1. CASE FirstTold(e)
    <3>1. CASE e.kind # "comment"
      <4>1. Told(e)
        BY <1>e, <1>a, <2>1, <3>1 DEF FirstTold, Told
      <4> QED BY <1>a, <4>1 DEF Told, Accounted
    <3>2. CASE e.kind = "comment"
      <4>1. pc' = "names"
        BY <1>e, <1>4, <2>1, <3>2 DEF HubPush, FirstTold
      <4>2. MentionsNext(e)'
        BY <1>e, <2>1, <3>2, <4>1 DEF FirstTold, MentionsNext
      <4> QED BY <1>e, <2>0, <4>2 DEF Accounted, Telling
    <3> QED BY <3>1, <3>2
  <2>2. CASE MentionTold(e)
    <3>1. NextMention(todo)
      BY <1>e, <1>4, <2>2 DEF HubPush, MentionTold
    <3>2. CASE todo = {}
      <4>1. Told(e)
        BY <2>2, <3>2 DEF MentionTold, Told
      <4> QED BY <1>a, <4>1 DEF Told, Accounted
    <3>3. CASE todo # {}
      <4>1. PICK u \in todo : to' = u /\ todo' = todo \ {u} /\ pc' = "create"
        BY <3>1, <3>3 DEF NextMention
      <4>2. {to'} \cup todo' = todo
        BY <4>1
      <4>3. MentionToldNext(e)'
        BY <1>a, <2>2, <4>1, <4>2 DEF MentionTold, MentionToldNext
      <4> QED BY <1>e, <2>0, <4>3 DEF Accounted, Telling
    <3> QED BY <3>2, <3>3
  <2> QED BY <2>0, <2>1, <2>2 DEF Telling, FirstToldNext, MentionsNext, MentionToldNext
<1>5. CASE Names
  <2>0. pc = "names" /\ UNCHANGED <<cur, handled>>
    BY <1>5 DEF Names, history
  <2>1. MentionsNext(e)
    BY <2>0 DEF Telling, FirstTold, FirstToldNext, MentionToldNext, MentionTold, Counting
  <2>2. CASE cur.ats \ {cur.from} = {}
    <3>1. Told(e)
      BY <1>e, <1>a, <2>1, <2>2 DEF MentionsNext, Told
    <3> QED BY <1>a, <3>1 DEF Told, Accounted
  <2>3. CASE cur.ats \ {cur.from} # {}
    <3>1. PICK u \in cur.ats \ {cur.from} :
             to' = u /\ todo' = (cur.ats \ {cur.from}) \ {u} /\ pc' = "create"
      BY <1>5, <2>3 DEF Names, NextMention
    <3>2. MentionToldNext(e)'
      BY <1>e, <1>a, <2>1, <3>1 DEF MentionsNext, MentionToldNext
    <3> QED BY <1>e, <2>0, <3>2 DEF Accounted, Telling
  <2> QED BY <2>2, <2>3
<1>6. CASE ProcessFails
  <2>0. Rows' = Rows /\ cur' = cur
    BY <1>6 DEF ProcessFails, Rows, table
  <2>1. CASE Started
    BY <1>6, <1>e, <2>1 DEF ProcessFails, Accounted
  <2>2. CASE ~Started /\ dropped' # dropped
    BY <1>6, <1>e, <2>2 DEF ProcessFails, Accounted
  <2>3. CASE ~Started /\ dropped' = dropped
    <3>1. \A u \in Users : <<e, u>> \notin Rows
      BY <1>e, <2>3 DEF Started
    <3>2. handled' = handled
      BY <1>6, <1>d, <2>3 DEF ProcessFails
    <3>3. CASE pc' = "create" /\ to' = cur.to /\ todo' = {}
      BY <1>e, <2>0, <3>1, <3>2, <3>3 DEF Accounted, Telling, FirstToldNext, Untouched
    <3>4. CASE dropped' = dropped \cup {cur}
      BY <1>e, <3>4 DEF Accounted
    <3> QED BY <1>6, <3>3, <3>4 DEF ProcessFails
  <2> QED BY <2>1, <2>2, <2>3
<1>7. CASE Ack
  BY <1>7 DEF Ack, Telling, FirstToldNext, FirstTold, MentionsNext, MentionToldNext, MentionTold, Counting
<1> QED BY <1>1, <1>2, <1>3, <1>4, <1>5, <1>6, <1>7 DEF NotificationHandler

LEMMA TellStep ==
  ASSUME TypeInv, TellInv, Step
  PROVE  TellInv'
<1>1. Rows \subseteq Rows'
  BY RowsStay
<1>2. pc' = "idle" => cur' = NoEvent /\ todo' = {}
  BY DEF TellInv, Step, Publish, NotificationHandler, IncrUnread, Receive, Create, UnreadExists, UnreadCount, UnreadSet,
         UnreadIncr, UnreadExpire, HubPush, Names, NextMention, Done, ProcessFails, Ack, Forget, Crash,
         CounterExpires, MarkReadHandler, UnreadCountHandler, MarkAll, MarkOne, DelCounter, DecrCounter, GetCounter,
         CountRows, StoreCount, ReqStays, consumer
<1>3. ASSUME NEW e \in Events
      PROVE  Accounted(e)'
  <2>1. CASE e \in partial \cup dropped \/ Told(e)
    BY <1>1, <2>1, HistoryGrows DEF Accounted, Told, Audience
  <2>2. CASE Untouched(e) /\ e # cur
    BY <2>2, UntouchedStep
  <2>3. CASE Telling(e)
    <3>1. CASE NotificationHandler
      BY <1>1, <2>3, <3>1, TellingStep
    <3>2. CASE Crash
      <4>1. cur' = NoEvent /\ Rows' = Rows /\ handled' = handled /\ e # NoEvent
        BY <3>2, NotificationAssumption DEF Crash, Forget, Rows, table
      <4>2. pc \notin {"idle", "ack"} /\ e = cur
        BY <2>3 DEF Telling, FirstToldNext, FirstTold, MentionsNext, MentionToldNext, MentionTold, Counting
      <4>3. CASE Started
        BY <3>2, <4>2, <4>3 DEF Crash, Accounted
      <4>4. CASE ~Started
        BY <2>3, <4>1, <4>2, <4>4 DEF Started, Accounted, Untouched, Telling
      <4> QED BY <4>3, <4>4
    <3>3. CASE ~NotificationHandler /\ ~Crash
      <4>1. UNCHANGED <<consumer, handled>>
        BY <3>3 DEF Step, Publish, CounterExpires, MarkReadHandler, UnreadCountHandler, MarkAll, MarkOne, DelCounter,
           DecrCounter, GetCounter, CountRows, StoreCount, ReqStays, history
      <4>2. \A u \in Users : <<e, u>> \notin Rows => <<e, u>> \notin Rows'
        BY <3>3, HistoryGrows DEF NotificationHandler
      <4>3. Untouched(e) => Untouched(e)'
        BY <4>1, <4>2 DEF Untouched
      <4>4. Telling(e)'
        BY <1>1, <2>3, <4>1, <4>3 DEF Telling, FirstToldNext, FirstTold, MentionsNext, MentionToldNext, MentionTold,
           Audience, consumer
      <4> QED BY <4>4 DEF Accounted
    <3> QED BY <3>1, <3>2, <3>3
  <2> QED BY <2>1, <2>2, <2>3 DEF TellInv, Accounted
<1> QED BY <1>2, <1>3 DEF TellInv

\* Every event NotificationHandler has accepted has a row for everybody it is news for,
\* except those given up, interrupted after their first row, or ended at a row that was there.
THEOREM AudiencesAreTold == Spec => []AudienceTold
<1>1. Init => TellInv
  BY NotificationAssumption DEF Init, TellInv, Accounted, Untouched, Rows
<1>2. TypeInv /\ TellInv /\ [Next]_vars => TellInv'
  <2>1. ASSUME TellInv, UNCHANGED vars
        PROVE  TellInv'
    BY <2>1 DEF TellInv, Accounted, Told, Untouched, Telling, FirstToldNext, FirstTold, MentionsNext, MentionToldNext,
       MentionTold, Audience, Rows, vars, table, consumer, history
  <2> QED BY <2>1, TellStep DEF Next
<1>3. TypeInv /\ TellInv => AudienceTold
  BY DEF TypeInv, TypeOK, TellInv, AudienceTold, Accounted, Told, Untouched, Telling
<1> QED BY <1>1, <1>2, <1>3, TypeInvariant, PTL DEF Spec

----------------------------------------------------------------------------
(* The counter against the rows *)

\* Who is at work on a user's counter: requests, and the consumer.
Working(u) == {r \in Requests : user[r] = u /\ rpc[r] \notin {"idle", "done"}}
Consuming(u) == to = u /\ pc \in Counting
AtRest(u) == Working(u) = {} /\ ~Consuming(u)
Alone(u) == (\A r, q \in Working(u) : r = q) /\ (Consuming(u) => Working(u) = {})

\* What the one at work knows of the counter; at rest it is exact.
Present(u) == counter[u] # Absent
Exact(u) ==
  /\ AtRest(u) /\ Present(u) => counter[u] = Unread(u)
  /\ Consuming(u) =>
       /\ pc = "exists" /\ Present(u) => counter[u] + 1 = Unread(u)
       /\ pc = "incr" => Present(u) /\ counter[u] + 1 = Unread(u)
       /\ pc = "set" => cnt = Unread(u)
       /\ pc = "expire" /\ Present(u) => counter[u] = Unread(u)
  /\ \A r \in Working(u) :
       /\ rpc[r] = "decr" /\ Present(u) => counter[u] = Unread(u) + 1
       /\ rpc[r] = "set" => rcnt[r] = Unread(u)
CounterInv == \A u \in Users \ (unsure \cup floored) : Alone(u) /\ Exact(u)

\* Counting requests and the consumer.
LEMMA Few ==
  ASSUME NEW S, IsFiniteSet(S), NEW c \in 0..1, NEW n, n = Cardinality(S) + c
  PROVE  /\ n \in Nat
         /\ n = 0 <=> S = {} /\ c = 0
         /\ n <= 1 => (\A r, q \in S : r = q) /\ (c = 1 => S = {})
<1>1. Cardinality(S) \in Nat /\ (Cardinality(S) = 0 <=> S = {})
  BY FS_CardinalityType, FS_EmptySet
<1>2. ASSUME Cardinality(S) = 1
      PROVE  \A r, q \in S : r = q
  <2>1. \E x : S = {x}
    BY <1>2, FS_Singleton
  <2> QED BY <2>1
<1>3. n \in Nat /\ (n = 0 <=> S = {} /\ c = 0)
  BY <1>1
<1>4. ASSUME n <= 1
      PROVE  (\A r, q \in S : r = q) /\ (c = 1 => S = {})
  <2>1. Cardinality(S) = 0 \/ (Cardinality(S) = 1 /\ c = 0)
    BY <1>1, <1>4
  <2> QED BY <1>1, <1>2, <2>1
<1> QED BY <1>3, <1>4

LEMMA BusyNow ==
  ASSUME NEW u
  PROVE  Busy(u) \in Nat /\ (Busy(u) = 0 <=> AtRest(u)) /\ (Busy(u) <= 1 => Alone(u))
<1> DEFINE c == IF Consuming(u) THEN 1 ELSE 0
<1>1. IsFiniteSet(Working(u))
  BY NotificationAssumption, FS_Subset DEF Working
<1>2. c \in 0..1
  OBVIOUS
<1>3. Busy(u) = Cardinality(Working(u)) + c
  BY DEF Busy, Working, Consuming
<1>4. /\ Busy(u) \in Nat
      /\ Busy(u) = 0 <=> Working(u) = {} /\ c = 0
      /\ Busy(u) <= 1 => (\A r, q \in Working(u) : r = q) /\ (c = 1 => Working(u) = {})
  BY <1>1, <1>2, <1>3, Few
<1> QED BY <1>4 DEF AtRest, Alone

LEMMA BusyThen ==
  ASSUME NEW u \in Users
  PROVE  Busy(u)' \in Nat /\ (Busy(u)' = 0 <=> AtRest(u)') /\ (Busy(u)' <= 1 => Alone(u)')
<1>1. \A x \in Users : Busy(x) \in Nat /\ (Busy(x) = 0 <=> AtRest(x)) /\ (Busy(x) <= 1 => Alone(x))
  BY BusyNow
<1>2. (\A x \in Users : Busy(x) \in Nat /\ (Busy(x) = 0 <=> AtRest(x)) /\ (Busy(x) <= 1 => Alone(x)))'
  BY <1>1, PTL
<1> QED BY <1>2

\* A step after which the counter is sure, and which did not make it sure by itself.
Calm(u) ==
  /\ u \notin unsure \cup floored
  /\ Alone(u)'
  /\ faults' # faults => AtRest(u)
  /\ Present(u) /\ ~Present(u)' => AtRest(u)'
  /\ ~(~Present(u) /\ counter'[u] = 0 /\ u \in lasting')

LEMMA Observed ==
  ASSUME Observe, NEW u \in Users, u \notin unsure' \cup floored'
  PROVE  Calm(u) \/ (AtRest(u)' /\ ~Present(u)')
<1>1. Busy(u) \in Nat /\ (Busy(u) = 0 <=> AtRest(u))
  BY BusyNow
<1>2. Busy(u)' \in Nat /\ (Busy(u)' = 0 <=> AtRest(u)') /\ (Busy(u)' <= 1 => Alone(u)')
  BY BusyThen
<1> DEFINE shaken == \/ Busy(u)' > 1
                     \/ faults' # faults /\ Busy(u) > 0
                     \/ Present(u) /\ ~Present(u)' /\ Busy(u)' > 0
           sunk == ~Present(u) /\ counter'[u] = 0 /\ u \in lasting'
           sound == ~Present(u)' /\ Busy(u)' = 0
<1>3. \/ sound
      \/ u \notin unsure /\ ~shaken /\ u \notin floored /\ ~sunk
  BY DEF Observe, Present
<1>4. CASE sound
  BY <1>2, <1>4
<1>5. CASE u \notin unsure /\ ~shaken /\ u \notin floored /\ ~sunk
  BY <1>1, <1>2, <1>5 DEF Calm
<1> QED BY <1>3, <1>4, <1>5

LEMMA UnreadAdd ==
  ASSUME TypeOK, NEW n, n \notin unreadRows, unreadRows' = unreadRows \cup {n}
  PROVE  Unread(n[2])' = Unread(n[2]) + 1
<1> DEFINE own == {x \in unreadRows : x[2] = n[2]}
<1>1. IsFiniteSet(own) /\ n \notin own
  BY UnreadType
<1>2. {x \in unreadRows' : x[2] = n[2]} = own \cup {n}
  OBVIOUS
<1> QED BY <1>1, <1>2, FS_AddElement DEF Unread

LEMMA UnreadRemove ==
  ASSUME TypeOK, NEW n \in unreadRows, unreadRows' = unreadRows \ {n}
  PROVE  Unread(n[2])' = Unread(n[2]) - 1
<1> DEFINE own == {x \in unreadRows : x[2] = n[2]}
<1>1. IsFiniteSet(own) /\ n \in own
  BY UnreadType
<1>2. {x \in unreadRows' : x[2] = n[2]} = own \ {n}
  OBVIOUS
<1> QED BY <1>1, <1>2, FS_RemoveElement DEF Unread

\* Steps that are no business of u's counter.
LEMMA Elsewhere ==
  ASSUME NEW u \in Users, Exact(u), Unread(u)' = Unread(u), counter'[u] \in {counter[u], Absent},
         Working(u)' = Working(u), \A q \in Working(u) : rpc'[q] = rpc[q] /\ rcnt'[q] = rcnt[q],
         (~Consuming(u) /\ ~Consuming(u)') \/ (UNCHANGED consumer /\ counter'[u] = counter[u])
  PROVE  Exact(u)'
<1>1. CASE ~Consuming(u) /\ ~Consuming(u)'
  BY <1>1 DEF Exact, AtRest, Present
<1>2. CASE UNCHANGED consumer /\ counter'[u] = counter[u]
  BY <1>2 DEF Exact, AtRest, Present, Consuming, consumer
<1> QED BY <1>1, <1>2

LEMMA ConsumerExact ==
  ASSUME TypeInv, NEW u \in Users, Calm(u), Alone(u), Exact(u), NotificationHandler
  PROVE  Exact(u)'
<1>r. rpc' = rpc /\ user' = user /\ rcnt' = rcnt /\ Working(u)' = Working(u)
  BY DEF NotificationHandler, IncrUnread, Receive, Create, UnreadExists, UnreadCount, UnreadSet, UnreadIncr,
         UnreadExpire, HubPush, Names, ProcessFails, Ack, requests, Working
<1>t. pc \in Counting \cup {"create"} => to \in Users
  BY DEF TypeInv, InHand
<1>c. counter \in [Users -> Nat \cup {Absent}]
  BY DEF TypeInv, TypeOK
<1>n. Absent \notin Nat /\ (\A k \in Nat : k + 1 # Absent)
  BY NotificationAssumption
<1>1. CASE Create
  <2>1. counter' = counter /\ ~Consuming(u) /\ pc = "create"
    BY <1>1 DEF Create, redis, Consuming, Counting
  <2>2. CASE u = to /\ <<cur, to>> \notin Rows
    <3>1. unreadRows' = unreadRows \cup {<<cur, u>>} /\ <<cur, u>> \notin unreadRows /\ pc' = "exists" /\ to' = u
      BY <1>1, <2>2 DEF Create, Rows
    <3>2. Unread(u)' = Unread(u) + 1
      BY <3>1, UnreadAdd DEF TypeInv
    <3>3. Consuming(u)'
      BY <3>1 DEF Consuming, Counting
    <3>4. AtRest(u)
      BY <1>r, <2>1, <3>3 DEF Calm, Alone, AtRest
    <3> QED BY <1>r, <2>1, <3>1, <3>2, <3>3, <3>4 DEF Exact, AtRest, Present
  <2>3. CASE u # to \/ <<cur, to>> \in Rows
    <3>1. {n \in unreadRows' : n[2] = u} = {n \in unreadRows : n[2] = u}
      BY <1>1, <2>3 DEF Create
    <3>2. ~Consuming(u)'
      BY <1>1, <2>3 DEF Create, Done, Consuming, Counting
    <3> QED BY <1>r, <2>1, <3>1, <3>2, Elsewhere DEF Unread
  <2> QED BY <2>2, <2>3
<1>2. CASE IncrUnread /\ u # to
  <2>1. Unread(u)' = Unread(u) /\ to' = to
    BY <1>2 DEF IncrUnread, UnreadExists, UnreadCount, UnreadSet, UnreadIncr, UnreadExpire, table, Unread
  <2>2. counter'[u] = counter[u]
    BY <1>2, <1>c, <1>t DEF IncrUnread, UnreadExists, UnreadCount, UnreadSet, UnreadIncr, UnreadExpire, SetCounter, redis,
                            Counting
  <2> QED BY <1>2, <1>r, <2>1, <2>2, Elsewhere DEF Consuming
<1>3. CASE IncrUnread /\ u = to
  <2>1. Consuming(u) /\ Working(u) = {} /\ Working(u)' = {} /\ Unread(u)' = Unread(u) /\ to' = to
    BY <1>3, <1>r DEF IncrUnread, UnreadExists, UnreadCount, UnreadSet, UnreadIncr, UnreadExpire, table, Unread, Consuming,
                      Counting, Alone
  <2>2. faults' = faults
    BY <2>1 DEF Calm, AtRest
  <2>3. ~Fault
    BY <2>2, NotificationAssumption DEF Fault, TypeInv, TypeOK
  <2>4. CASE UnreadExists
    BY <1>3, <2>1, <2>3, <2>4 DEF UnreadExists, redis, Exact, AtRest, Present, Consuming, Counting
  <2>5. CASE UnreadCount
    BY <1>3, <2>1, <2>3, <2>5 DEF UnreadCount, Exact, AtRest, Present, Consuming, Counting
  <2>6. CASE UnreadSet
    <3>1. counter'[u] = Unread(u)
      BY <1>3, <1>c, <2>1, <2>3, <2>6 DEF UnreadSet, SetCounter, Exact
    <3>2. ~Consuming(u)'
      BY <2>6 DEF UnreadSet, Consuming, Counting
    <3> QED BY <2>1, <3>1, <3>2 DEF Exact
  <2>7. CASE UnreadIncr
    <3>1. Present(u) /\ counter[u] + 1 = Unread(u)
      BY <2>1, <2>7 DEF UnreadIncr, Exact
    <3>2. counter'[u] = Unread(u) /\ pc' = "expire"
      BY <1>3, <1>c, <2>3, <2>7, <3>1 DEF UnreadIncr, Present
    <3> QED BY <2>1, <3>2 DEF Exact, AtRest, Consuming, Counting
  <2>8. CASE UnreadExpire
    BY <1>3, <2>1, <2>8 DEF UnreadExpire, Exact, AtRest, Present, Consuming, Counting
  <2> QED BY <1>3, <2>4, <2>5, <2>6, <2>7, <2>8 DEF IncrUnread
<1>4. CASE Receive \/ HubPush \/ Names \/ ProcessFails \/ Ack
  <2>1. ~Consuming(u) /\ ~Consuming(u)' /\ counter' = counter /\ unreadRows' = unreadRows
    BY <1>4 DEF Receive, HubPush, Names, NextMention, Done, ProcessFails, Ack, Forget, redis, table, Consuming, Counting
  <2> QED BY <1>r, <2>1, Elsewhere DEF Unread
<1> QED BY <1>1, <1>2, <1>3, <1>4 DEF NotificationHandler

\* A request's step is one on the counter of its user.
LEMMA OthersExact ==
  ASSUME TypeInv, NEW u \in Users, Exact(u), NEW r \in Requests, UNCHANGED consumer,
         rpc[r] # "idle" => user[r] # u, user'[r] # u,
         \A q \in Requests \ {r} : rpc'[q] = rpc[q] /\ user'[q] = user[q] /\ rcnt'[q] = rcnt[q],
         counter'[u] = counter[u], Unread(u)' = Unread(u)
  PROVE  Exact(u)'
<1>1. Working(u)' = Working(u) /\ r \notin Working(u)
  BY DEF Working
<1>2. \A q \in Working(u) : rpc'[q] = rpc[q] /\ rcnt'[q] = rcnt[q]
  BY <1>1 DEF Working
<1> QED BY <1>1, <1>2, Elsewhere

LEMMA BeginExact ==
  ASSUME TypeInv, NEW u \in Users, Calm(u), Alone(u), Exact(u), NEW r \in Requests, NEW w \in Users,
         MarkAll(r, w) \/ MarkOne(r, w) \/ GetCounter(r, w)
  PROVE  Exact(u)'
<1>0. rpc[r] = "idle" /\ user' = [user EXCEPT ![r] = w] /\ counter' = counter /\ rcnt' = rcnt /\ UNCHANGED consumer
  BY DEF MarkAll, MarkOne, GetCounter, Begin, ReqStays, redis
<1>t. /\ user \in [Requests -> Users \cup {NoUser}] /\ rpc \in [Requests -> RPCs]
      /\ counter \in [Users -> Nat \cup {Absent}]
  BY DEF TypeInv, TypeOK
<1>p. PICK label \in {"del", "decr", "done", "count"} : rpc' = [rpc EXCEPT ![r] = label]
  BY DEF MarkAll, MarkOne, GetCounter, RGoto
<1>1. CASE u # w
  <2>1. {n \in unreadRows' : n[2] = u} = {n \in unreadRows : n[2] = u}
    BY <1>1 DEF MarkAll, MarkOne, GetCounter, table
  <2>2. \A q \in Requests \ {r} : rpc'[q] = rpc[q] /\ user'[q] = user[q] /\ rcnt'[q] = rcnt[q]
    BY <1>0, <1>t, <1>p
  <2>3. user'[r] # u
    BY <1>0, <1>t, <1>1
  <2> QED BY <1>0, <2>1, <2>2, <2>3, OthersExact DEF Unread
<1>2. CASE u = w /\ label # "done"
  <2>1. r \in Working(u)'
    BY <1>0, <1>t, <1>p, <1>2 DEF Working
  <2>2. Working(u)' = {r} /\ ~Consuming(u)'
    BY <2>1 DEF Calm, Alone
  <2>3. AtRest(u)
    BY <1>0, <1>t, <1>p, <2>2 DEF AtRest, Working, Consuming, consumer
  <2>4. rpc'[r] = label
    BY <1>p, <1>t
  <2>5. CASE label = "decr"
    <3>1. MarkOne(r, w)
      BY <1>t, <2>4, <2>5 DEF MarkAll, GetCounter, RGoto
    <3>2. PICK n \in unreadRows : n[2] = u /\ unreadRows' = unreadRows \ {n}
      BY <1>2, <1>t, <2>4, <2>5, <3>1 DEF MarkOne, RGoto
    <3>3. Unread(u)' = Unread(u) - 1
      BY <3>2, UnreadRemove DEF TypeInv
    <3>4. Unread(u) \in Nat
      BY UnreadType DEF TypeInv
    <3> QED BY <1>0, <2>2, <2>3, <2>4, <2>5, <3>3, <3>4 DEF Exact, AtRest, Present
  <2> QED BY <2>2, <2>4, <2>5, <1>2 DEF Exact, AtRest
<1>3. CASE u = w /\ label = "done"
  <2>1. unreadRows' = unreadRows
    BY <1>3, <1>p, <1>t DEF MarkAll, MarkOne, GetCounter, RGoto, table
  <2>2. Working(u)' = Working(u) /\ r \notin Working(u)
    BY <1>0, <1>t, <1>p, <1>3 DEF Working
  <2>3. \A q \in Working(u) : rpc'[q] = rpc[q] /\ rcnt'[q] = rcnt[q]
    BY <1>0, <1>t, <1>p, <2>2 DEF Working
  <2> QED BY <1>0, <2>1, <2>2, <2>3, Elsewhere DEF Unread
<1> QED BY <1>1, <1>2, <1>3

LEMMA RequestExact ==
  ASSUME TypeInv, NEW u \in Users, Calm(u), Alone(u), Exact(u), NEW r \in Requests,
         DelCounter(r) \/ DecrCounter(r) \/ CountRows(r) \/ StoreCount(r)
  PROVE  Exact(u)'
<1>0. /\ rpc[r] \in {"del", "decr", "count", "set"} /\ UNCHANGED <<consumer, user, unreadRows>>
      /\ Unread(u)' = Unread(u) /\ user[r] \in Users
  BY DEF DelCounter, DecrCounter, CountRows, StoreCount, ReqStays, table, TypeInv, InHand, Unread
<1>t. /\ user \in [Requests -> Users \cup {NoUser}] /\ rpc \in [Requests -> RPCs] /\ rcnt \in [Requests -> Nat]
      /\ counter \in [Users -> Nat \cup {Absent}] /\ Absent \notin Nat
  BY NotificationAssumption DEF TypeInv, TypeOK
<1>q. \A q \in Requests \ {r} : rpc'[q] = rpc[q] /\ rcnt'[q] = rcnt[q]
  BY <1>t DEF DelCounter, DecrCounter, CountRows, StoreCount, RGoto
<1>1. CASE user[r] # u
  <2>1. counter'[u] = counter[u]
    BY <1>0, <1>1, <1>t DEF DelCounter, DecrCounter, CountRows, StoreCount, SetCounter, redis
  <2> QED BY <1>0, <1>1, <1>q, <2>1, OthersExact
<1>2. CASE user[r] = u
  <2>1. Working(u) = {r} /\ ~Consuming(u)
    <3>1. r \in Working(u)
      BY <1>0, <1>2 DEF Working
    <3> QED BY <3>1 DEF Alone
  <2>2. ~Fault
    <3>1. faults' = faults
      BY <2>1 DEF Calm, AtRest
    <3> QED BY <3>1, NotificationAssumption DEF Fault, TypeInv, TypeOK
  <2>3. ~Consuming(u)'
    BY <1>0, <2>1 DEF Consuming, consumer
  <2>4. rpc'[r] \in {"done", "set"} /\ (rpc'[r] = "done" => Working(u)' = {}) /\ Working(u)' \subseteq {r}
    <3>1. rpc'[r] \in {"done", "set"}
      BY <1>t, <2>2 DEF DelCounter, DecrCounter, CountRows, StoreCount, RGoto
    <3>2. \A q \in Requests \ {r} : q \notin Working(u)'
      BY <1>0, <1>q, <2>1 DEF Working
    <3> QED BY <3>1, <3>2 DEF Working
  <2>5. CASE DelCounter(r)
    <3>1. counter'[u] = Absent /\ rpc'[r] = "done"
      BY <1>2, <1>t, <2>2, <2>5 DEF DelCounter, SetCounter, RGoto
    <3> QED BY <2>3, <2>4, <3>1 DEF Exact, Present
  <2>6. CASE DecrCounter(r)
    <3>1. Present(u)
      <4>1. CASE ~Present(u)
        BY <1>2, <1>t, <2>2, <2>6, <4>1 DEF DecrCounter, Calm, Present
      <4> QED BY <4>1
    <3>2. rpc[r] = "decr" /\ rpc'[r] = "done"
      BY <1>t, <2>6 DEF DecrCounter, RGoto
    <3>3. counter[u] = Unread(u) + 1 /\ Unread(u) \in Nat
      BY <2>1, <3>1, <3>2, UnreadType DEF Exact, TypeInv
    <3>4. counter[u] \notin {Absent, 0}
      BY <3>1, <3>3 DEF Present
    <3>5. counter'[u] = counter[u] - 1
      BY <1>2, <1>t, <2>2, <2>6, <3>4 DEF DecrCounter
    <3> QED BY <1>0, <2>3, <2>4, <3>2, <3>3, <3>5 DEF Exact
  <2>7. CASE CountRows(r)
    <3>1. rpc'[r] = "set" /\ rcnt'[r] = Unread(u) /\ r \in Working(u)'
      BY <1>0, <1>2, <1>t, <2>2, <2>7 DEF CountRows, RGoto, Working
    <3> QED BY <1>0, <2>3, <2>4, <3>1 DEF Exact, AtRest
  <2>8. CASE StoreCount(r)
    <3>1. rpc[r] = "set" /\ rpc'[r] = "done" /\ counter'[u] = rcnt[r]
      BY <1>2, <1>t, <2>2, <2>8 DEF StoreCount, SetCounter, RGoto
    <3>2. rcnt[r] = Unread(u)
      BY <2>1, <3>1 DEF Exact
    <3> QED BY <1>0, <2>3, <2>4, <3>1, <3>2 DEF Exact
  <2> QED BY <2>5, <2>6, <2>7, <2>8
<1> QED BY <1>1, <1>2

LEMMA CounterStep ==
  ASSUME TypeInv, NEW u \in Users, Calm(u), Alone(u), Exact(u), Step
  PROVE  Exact(u)'
<1>1. CASE NotificationHandler
  BY <1>1, ConsumerExact
<1>2. ASSUME NEW r \in Requests, MarkReadHandler(r) \/ UnreadCountHandler(r)
      PROVE  Exact(u)'
  BY <1>2, BeginExact, RequestExact DEF MarkReadHandler, UnreadCountHandler
<1>3. CASE Crash
  <2>1. faults' # faults
    BY <1>3, NotificationAssumption DEF Crash, Fault, TypeInv, TypeOK
  <2>2. AtRest(u)
    BY <2>1 DEF Calm
  <2>3. counter' = counter /\ Unread(u)' = Unread(u) /\ Working(u)' = {} /\ ~Consuming(u)'
    BY <1>3 DEF Crash, Forget, redis, table, Unread, Working, Consuming, Counting
  <2> QED BY <2>2, <2>3 DEF Exact, Present
<1>4. ASSUME NEW w \in Users, CounterExpires(w)
      PROVE  Exact(u)'
  <2>1. UNCHANGED <<consumer, requests>> /\ Unread(u)' = Unread(u) /\ Working(u)' = Working(u)
    BY <1>4 DEF CounterExpires, ReqStays, requests, table, Unread, Working
  <2>2. counter \in [Users -> Nat \cup {Absent}]
    BY DEF TypeInv, TypeOK
  <2>3. CASE w = u
    <3>1. Present(u) /\ ~Present(u)'
      BY <1>4, <2>2, <2>3 DEF CounterExpires, SetCounter, Present
    <3>2. AtRest(u)'
      BY <3>1 DEF Calm
    <3> QED BY <3>1, <3>2 DEF Exact, AtRest
  <2>4. CASE w # u
    <3>1. counter'[u] = counter[u]
      BY <1>4, <2>2, <2>4 DEF CounterExpires, SetCounter
    <3> QED BY <2>1, <3>1, Elsewhere DEF requests
  <2> QED BY <2>3, <2>4
<1>5. ASSUME NEW e \in Events, Publish(e)
      PROVE  Exact(u)'
  <2>1. UNCHANGED <<consumer, requests, counter>> /\ Unread(u)' = Unread(u) /\ Working(u)' = Working(u)
    BY <1>5 DEF Publish, requests, table, redis, Unread, Working
  <2> QED BY <2>1, Elsewhere DEF requests
<1> QED BY <1>1, <1>2, <1>3, <1>4, <1>5 DEF Step

\* The red dot shows the number of unread rows whenever nobody is at work on it, through
\* incrUnread, marking one or all, expiry and recount, except for users on whom steps
\* overlapped or failed, or whose missing key was decremented, until it is next absent.
THEOREM CounterExact == Spec => []CounterExactUnlessUnsure
<1>1. Init => CounterInv
  <2> SUFFICES ASSUME Init, NEW u \in Users
               PROVE  Alone(u) /\ Exact(u)
    BY DEF CounterInv
  <2>1. counter[u] = Absent /\ Working(u) = {} /\ ~Consuming(u)
    BY DEF Init, Working, Consuming, Counting
  <2> QED BY <2>1 DEF Alone, Exact, Present
<1>2. TypeInv /\ CounterInv /\ [Next]_vars => CounterInv'
  <2>1. ASSUME CounterInv, UNCHANGED vars
        PROVE  CounterInv'
    <3> SUFFICES ASSUME NEW u \in Users, u \notin unsure' \cup floored'
                 PROVE  Alone(u)' /\ Exact(u)'
      BY DEF CounterInv
    <3>1. Alone(u) /\ Exact(u)
      BY <2>1 DEF CounterInv, vars
    <3>2. /\ Unread(u)' = Unread(u) /\ Working(u)' = Working(u) /\ Consuming(u)' = Consuming(u)
          /\ UNCHANGED <<counter, pc, cnt, rpc, rcnt>>
      BY <2>1 DEF vars, table, redis, consumer, requests, Unread, Working, Consuming
    <3> QED BY <3>1, <3>2 DEF Alone, Exact, AtRest, Present
  <2>2. ASSUME TypeInv, CounterInv, Next, NEW u \in Users, u \notin unsure' \cup floored'
        PROVE  Alone(u)' /\ Exact(u)'
    <3>1. CASE AtRest(u)' /\ ~Present(u)'
      BY <3>1 DEF AtRest, Alone, Exact
    <3>2. CASE Calm(u)
      <4>1. Alone(u) /\ Exact(u)
        BY <2>2, <3>2 DEF Calm, CounterInv
      <4> QED BY <2>2, <3>2, <4>1, CounterStep DEF Next, Calm
    <3> QED BY <2>2, <3>1, <3>2, Observed DEF Next
  <2> QED BY <2>1, <2>2 DEF CounterInv
<1>3. CounterInv => CounterExactUnlessUnsure
  BY BusyNow DEF CounterInv, Exact, Present, CounterExactUnlessUnsure
<1> QED BY <1>1, <1>2, <1>3, TypeInvariant, PTL DEF Spec

----------------------------------------------------------------------------
(***************************************************************************)
(* SSEHub.                                                                 *)
(***************************************************************************)
(* Why no panic: nobody can close a channel while a pusher holds the lock,   *)
(* what the map holds is open, and a handler closes its channel only through *)
(* the map.                                                                  *)
FoundOpen ==
  \A p \in readers : found[p] # NoConn => found[p] \notin closed

UserKnown == \A c \in Conns : connPc[c] # "new" => whose[c] \in Subscribers

\* A handler in its loop has not reached the limit of failed writes.
Patient == \A c \in Conns : connPc[c] \notin {"leave", "done"} => failcount[c] < MaxFailures

UnopenedNotClosed == \A c \in Conns : connPc[c] \in {"new", "subscribe"} => c \notin closed

\* A handler carries a notification while it writes.
Carrying == \A c \in Conns : connPc[c] = "write" <=> note[c] # NoNote

\* A pusher inside pushes to somebody.
Targeted == \A p \in readers : target[p] \in Subscribers

HubTypeInv == HubTypeOK /\ UserKnown /\ Patient /\ Carrying /\ Targeted

Registration ==
  NoPanic /\ OpenStreamRegistered /\ RegisteredStreamOpen /\ FoundOpen /\ UnopenedNotClosed

----------------------------------------------------------------------------
(* Types *)

LEMMA TypeInvInit == HubInit => HubTypeInv
<1> SUFFICES ASSUME HubInit PROVE HubTypeInv
  OBVIOUS
<1> USE DEF HubInit
<1>1. HubTypeOK
  <2>1. buffer \in [Conns -> Seq(Notes)] /\ written \in [Conns -> Seq(Notes)]
    OBVIOUS
  <2>2. pushes \in Nat /\ failcount \in [Conns -> 0..MaxFailures]
    BY SSEHubAssumption
  <2>3. panicked \in BOOLEAN
    OBVIOUS
  <2> QED BY <2>1, <2>2, <2>3 DEF HubTypeOK, HubPCs
<1>2. UserKnown /\ Carrying /\ Targeted
  BY DEF UserKnown, Carrying, Targeted
<1>3. Patient
  BY SSEHubAssumption DEF Patient
<1> QED BY <1>1, <1>2, <1>3 DEF HubTypeInv

LEMMA WriteResultType ==
  ASSUME HubTypeInv, NEW c \in Conns, NEW ok \in BOOLEAN, WriteResult(c, ok),
         connPc[c] \in {"loop", "write"}
  PROVE  /\ failcount' \in [Conns -> 0..MaxFailures] 
         /\ connPc' \in [Conns -> HubPCs]
         /\ Patient'
         /\ connPc'[c] \in {"loop", "leave"}
         /\ \A d \in Conns \ {c} : connPc'[d] = connPc[d]
<1> USE DEF HubTypeInv, HubTypeOK, Goto, HubPCs
<1>1. failcount[c] + 1 \in 0..MaxFailures /\ MaxFailures \in Nat \ {0}
  <2>1. failcount[c] \in 0..MaxFailures /\ MaxFailures \in Nat \ {0}
    BY SSEHubAssumption
  <2>2. failcount[c] < MaxFailures
    BY DEF Patient
  <2> QED BY <2>1, <2>2
<1>2. CASE failcount' = [failcount EXCEPT ![c] = 0] /\ Goto(c, "loop")
  BY <1>1, <1>2 DEF Patient
<1>3. CASE failcount' = [failcount EXCEPT ![c] = @ + 1] /\ failcount[c] + 1 >= MaxFailures /\ Goto(c, "leave")
  BY <1>1, <1>3 DEF Patient
<1>4. CASE failcount' = [failcount EXCEPT ![c] = @ + 1] /\ failcount[c] + 1 < MaxFailures /\ Goto(c, "loop")
  BY <1>1, <1>4 DEF Patient
<1>5. \/ failcount[c] + 1 >= MaxFailures
      \/ failcount[c] + 1 < MaxFailures
  BY <1>1, SSEHubAssumption
<1> QED BY <1>1, <1>2, <1>3, <1>4, <1>5 DEF WriteResult

LEMMA TypeInvNext == HubTypeInv /\ [HubNext]_hubVars => HubTypeInv'
<1> SUFFICES ASSUME HubTypeInv, [HubNext]_hubVars PROVE HubTypeInv'
  OBVIOUS
<1> USE DEF HubTypeInv, HubTypeOK, UserKnown, Patient, Carrying, Targeted, Goto, HubPCs, handler, pusher
<1>1. ASSUME NEW c \in Conns, Connect(c) PROVE HubTypeInv'
  BY <1>1 DEF Connect
<1>2. ASSUME NEW c \in Conns, Disconnect(c) PROVE HubTypeInv'
  BY <1>2 DEF Disconnect
<1>3. ASSUME NEW c \in Conns, Subscribe(c) PROVE HubTypeInv'
  BY <1>3 DEF Subscribe, Close
<1>4. ASSUME NEW c \in Conns, UnSubscribe(c) PROVE HubTypeInv'
  BY <1>4 DEF UnSubscribe, Close
<1>5. ASSUME NEW c \in Conns, SeeDone(c) PROVE HubTypeInv'
  BY <1>5 DEF SeeDone
<1>6. ASSUME NEW c \in Conns, ReceiveNote(c) PROVE HubTypeInv'
  <2>1. Head(buffer[c]) \in Notes /\ Tail(buffer[c]) \in Seq(Notes)
    BY <1>6 DEF ReceiveNote
  <2>2. Head(buffer[c]) # NoNote
    BY <2>1 DEF Notes, NoNote
  <2> QED BY <1>6, <2>1, <2>2 DEF ReceiveNote
<1>7. ASSUME NEW c \in Conns, SeeClosed(c) PROVE HubTypeInv'
  BY <1>7 DEF SeeClosed
<1>8. ASSUME NEW c \in Conns, NEW ok \in BOOLEAN, Write(c, ok) PROVE HubTypeInv'
  <2>1. /\ failcount' \in [Conns -> 0..MaxFailures] /\ connPc' \in [Conns -> HubPCs] /\ Patient'
        /\ connPc'[c] \in {"loop", "leave"} /\ \A d \in Conns \ {c} : connPc'[d] = connPc[d]
    BY <1>8, WriteResultType DEF Write
  <2>2. note' \in [Conns -> Notes \cup {NoNote}] /\ Carrying'
    BY <1>8, <2>1 DEF Write
  <2>3. written' \in [Conns -> Seq(Notes)]
    <3>1. note[c] \in Notes
      BY <1>8 DEF Write
    <3>2. CASE written' = [written EXCEPT ![c] = Append(@, note[c])]
      BY <3>1, <3>2
    <3>3. CASE written' = written
      BY <3>3
    <3> QED BY <1>8, <3>2, <3>3 DEF Write
  <2>4. UserKnown'
    BY <1>8, <2>1 DEF Write
  <2> QED BY <1>8, <2>1, <2>2, <2>3, <2>4 DEF Write
<1>9. ASSUME NEW c \in Conns, NEW ok \in BOOLEAN, KeepAlive(c, ok) PROVE HubTypeInv'
  <2>1. /\ failcount' \in [Conns -> 0..MaxFailures] /\ connPc' \in [Conns -> HubPCs] /\ Patient'
        /\ connPc'[c] \in {"loop", "leave"} /\ \A d \in Conns \ {c} : connPc'[d] = connPc[d]
    BY <1>9, WriteResultType DEF KeepAlive
  <2>2. Carrying' /\ UserKnown'
    BY <1>9, <2>1 DEF KeepAlive
  <2> QED BY <1>9, <2>1, <2>2 DEF KeepAlive
<1>10. ASSUME NEW p \in Pushers, NEW u \in Subscribers, PushLookup(p, u) PROVE HubTypeInv'
  BY <1>10 DEF PushLookup
<1>11. ASSUME NEW p \in Pushers, PushSend(p) PROVE HubTypeInv'
  <2> DEFINE m == [n |-> pushes + 1, to |-> target[p]]
  <2>1. m \in Notes
    BY <1>11 DEF PushSend, Notes
  <2>2. buffer' \in [Conns -> Seq(Notes)] /\ panicked' \in BOOLEAN
    <3>1. CASE UNCHANGED <<buffer, panicked>>
      BY <3>1
    <3>2. CASE found[p] # NoConn /\ Send(found[p], m)
      <4>1. found[p] \in Conns
        BY <3>2, <1>11 DEF PushSend
      <4>2. CASE buffer' = [buffer EXCEPT ![found[p]] = Append(@, m)] /\ UNCHANGED panicked
        <5> HIDE DEF m
        <5> QED BY <2>1, <4>1, <4>2
      <4>3. CASE UNCHANGED buffer /\ (panicked' = TRUE \/ UNCHANGED panicked)
        BY <4>3
      <4> QED BY <3>2, <4>2, <4>3 DEF Send
    <3> QED BY <1>11, <3>1, <3>2 DEF PushSend
  <2>3. pushes' \in Nat /\ target' \in [Pushers -> Subscribers \cup {NoSubscriber}] /\ Targeted'
    BY <1>11 DEF PushSend
  <2> QED BY <1>11, <2>2, <2>3 DEF PushSend
<1>12. CASE UNCHANGED hubVars
  BY <1>12 DEF hubVars
<1> QED BY <1>1, <1>2, <1>3, <1>4, <1>5, <1>6, <1>7, <1>8, <1>9, <1>10, <1>11, <1>12 DEF HubNext, SSEHandler

\* Every variable stays in its range; no stream counts more failures than it
\* may before it ends.
THEOREM HubTypeCorrect == HubSpec => []HubTypeOK
<1>1. HubSpec => []HubTypeInv
  BY TypeInvInit, TypeInvNext, PTL DEF HubSpec
<1>2. HubTypeInv => HubTypeOK
  BY DEF HubTypeInv
<1> QED BY <1>1, <1>2, PTL

----------------------------------------------------------------------------
(* Registration *)

LEMMA RegistrationInit == HubInit => Registration
  BY DEF HubInit, Registration, NoPanic, OpenStreamRegistered, RegisteredStreamOpen, FoundOpen,
         UnopenedNotClosed, Streaming

\* A step of one handler from one streaming state to another, or a step that
\* moves no handler, disturbs nothing while the map and the channels stay.
LEMMA RegistrationFrame ==
  ASSUME HubTypeInv, Registration, UNCHANGED <<clients, closed, whose, panicked>>,
         \A c \in Conns : connPc'[c] = connPc[c] \/ {connPc[c], connPc'[c]} \subseteq Streaming,
         \A p \in readers' : found'[p] # NoConn => found'[p] \notin closed
  PROVE  Registration'
<1> USE DEF HubTypeInv, HubTypeOK, Registration, Streaming
<1>1. NoPanic' /\ FoundOpen'
  BY DEF NoPanic, FoundOpen
<1>2. OpenStreamRegistered'
  BY DEF OpenStreamRegistered
<1>3. RegisteredStreamOpen'
  <2> SUFFICES ASSUME NEW u \in Subscribers, clients[u] # NoConn
               PROVE  clients[u] \notin closed /\ connPc'[clients[u]] \in Streaming /\ whose[clients[u]] = u
    BY DEF RegisteredStreamOpen
  <2>1. clients[u] \in Conns
    OBVIOUS
  <2> QED BY <2>1 DEF RegisteredStreamOpen
<1>4. UnopenedNotClosed'
  BY DEF UnopenedNotClosed
<1> QED BY <1>1, <1>2, <1>3, <1>4

LEMMA RegistrationNext == HubTypeInv /\ Registration /\ [HubNext]_hubVars => Registration'
<1> SUFFICES ASSUME HubTypeInv, Registration, [HubNext]_hubVars PROVE Registration'
  OBVIOUS
<1> USE DEF HubTypeInv, HubTypeOK, Registration, Goto, handler, pusher
<1>1. ASSUME NEW c \in Conns, Connect(c) PROVE Registration'
  <2>1. NoPanic' /\ FoundOpen' /\ UnopenedNotClosed'
    BY <1>1 DEF Connect, NoPanic, FoundOpen, UnopenedNotClosed
  <2>2. OpenStreamRegistered'
    BY <1>1 DEF Connect, OpenStreamRegistered, Streaming
  <2>3. RegisteredStreamOpen'
    BY <1>1 DEF Connect, RegisteredStreamOpen, Streaming
  <2> QED BY <2>1, <2>2, <2>3
<1>2. ASSUME NEW c \in Conns, Disconnect(c) PROVE Registration'
  BY <1>2, RegistrationFrame DEF Disconnect, FoundOpen
<1>3. ASSUME NEW c \in Conns, Subscribe(c) PROVE Registration'
  <2> DEFINE u == whose[c]
  <2>1. u \in Subscribers /\ c \notin closed /\ c # NoConn
    BY <1>3, SSEHubAssumption DEF Subscribe, UserKnown, UnopenedNotClosed
  <2>2. readers' = {} /\ clients' = [clients EXCEPT ![u] = c] /\ connPc' = [connPc EXCEPT ![c] = "loop"] /\ whose' = whose
    BY <1>3 DEF Subscribe
  <2>3. clients[u] # c
    BY <1>3, <2>1 DEF Subscribe, RegisteredStreamOpen, Streaming
  <2>4. closed' = closed \cup ({clients[u]} \ {NoConn}) /\ panicked' = FALSE
    <3>1. CASE clients[u] # NoConn
      BY <1>3, <2>1, <3>1 DEF Subscribe, Close, RegisteredStreamOpen, NoPanic
    <3>2. CASE clients[u] = NoConn
      BY <1>3, <2>1, <3>2 DEF Subscribe, Close, NoPanic
    <3> QED BY <3>1, <3>2
  <2>5. NoPanic' /\ FoundOpen'
    BY <2>2, <2>4 DEF NoPanic, FoundOpen
  <2>6. UnopenedNotClosed'
    <3> SUFFICES ASSUME NEW d \in Conns, connPc'[d] \in {"new", "subscribe"} PROVE d \notin closed'
      BY DEF UnopenedNotClosed
    <3>1. d # c /\ connPc[d] \in {"new", "subscribe"} /\ d \notin closed
      BY <2>2 DEF UnopenedNotClosed
    <3>2. d # clients[u]
      BY <2>1, <3>1, SSEHubAssumption DEF RegisteredStreamOpen, Streaming
    <3> QED BY <2>4, <3>1, <3>2
  <2>7. OpenStreamRegistered'
    <3> SUFFICES ASSUME NEW d \in Conns, connPc'[d] \in Streaming, d \notin closed'
                 PROVE  clients'[whose[d]] = d
      BY <2>2 DEF OpenStreamRegistered
    <3>1. CASE d = c
      BY <2>1, <2>2, <3>1
    <3>2. CASE d # c
      <4>1. connPc[d] \in Streaming /\ d \notin closed /\ clients[whose[d]] = d
        BY <2>2, <2>4, <3>2 DEF OpenStreamRegistered
      <4>2. whose[d] # u
        BY <2>4, <4>1, SSEHubAssumption
      <4> QED BY <2>1, <2>2, <4>1, <4>2
    <3> QED BY <3>1, <3>2
  <2>8. RegisteredStreamOpen'
    <3> SUFFICES ASSUME NEW w \in Subscribers, clients'[w] # NoConn
                 PROVE  clients'[w] \notin closed' /\ connPc'[clients'[w]] \in Streaming /\ whose[clients'[w]] = w
      BY <2>2 DEF RegisteredStreamOpen
    <3>1. CASE w = u
      BY <2>1, <2>2, <2>3, <2>4, <3>1 DEF Streaming
    <3>2. CASE w # u
      <4>1. /\ clients'[w] = clients[w] /\ clients[w] \in Conns /\ clients[w] \notin closed
            /\ connPc[clients[w]] \in Streaming /\ whose[clients[w]] = w
        BY <2>2, <3>2 DEF RegisteredStreamOpen
      <4>2. clients[w] # clients[u]
        BY <2>1, <3>2, <4>1, SSEHubAssumption DEF RegisteredStreamOpen
      <4> QED BY <2>2, <2>4, <4>1, <4>2 DEF Streaming
    <3> QED BY <3>1, <3>2
  <2> QED BY <2>5, <2>6, <2>7, <2>8
<1>4. ASSUME NEW c \in Conns, UnSubscribe(c) PROVE Registration'
  <2> DEFINE u == whose[c]
  <2>1. u \in Subscribers /\ c # NoConn /\ readers' = {} /\ connPc' = [connPc EXCEPT ![c] = "done"] /\ whose' = whose
    BY <1>4, SSEHubAssumption DEF UnSubscribe, UserKnown
  <2>2. CASE clients[u] = c
    <3>1. clients' = [clients EXCEPT ![u] = NoConn] /\ closed' = closed \cup {c} /\ panicked' = FALSE
      BY <1>4, <2>1, <2>2 DEF UnSubscribe, Close, RegisteredStreamOpen, NoPanic
    <3>2. NoPanic' /\ FoundOpen'
      BY <2>1, <3>1 DEF NoPanic, FoundOpen
    <3>3. UnopenedNotClosed'
      BY <2>1, <3>1 DEF UnopenedNotClosed
    <3>4. OpenStreamRegistered'
      <4> SUFFICES ASSUME NEW d \in Conns, connPc'[d] \in Streaming, d \notin closed'
                   PROVE  clients'[whose[d]] = d
        BY <2>1 DEF OpenStreamRegistered
      <4>1. d # c /\ connPc[d] \in Streaming /\ clients[whose[d]] = d
        BY <2>1, <3>1 DEF OpenStreamRegistered, Streaming
      <4>2. whose[d] # u
        BY <2>2, <4>1
      <4> QED BY <3>1, <4>1, <4>2
    <3>5. RegisteredStreamOpen'
      <4> SUFFICES ASSUME NEW w \in Subscribers, clients'[w] # NoConn
                   PROVE  clients'[w] \notin closed' /\ connPc'[clients'[w]] \in Streaming /\ whose[clients'[w]] = w
        BY <2>1 DEF RegisteredStreamOpen
      <4>1. w # u
        BY <2>1, <3>1
      <4>2. /\ clients'[w] = clients[w] /\ clients[w] \in Conns /\ clients[w] \notin closed
            /\ connPc[clients[w]] \in Streaming /\ whose[clients[w]] = w
        BY <3>1, <4>1 DEF RegisteredStreamOpen
      <4>3. clients[w] # c
        BY <4>1, <4>2
      <4> QED BY <2>1, <3>1, <4>2, <4>3
    <3> QED BY <3>2, <3>3, <3>4, <3>5
  <2>3. CASE clients[u] # c
    <3>1. UNCHANGED <<clients, closed, panicked>>
      BY <1>4, <2>3 DEF UnSubscribe
    <3>2. NoPanic' /\ FoundOpen' /\ UnopenedNotClosed'
      BY <2>1, <3>1 DEF NoPanic, FoundOpen, UnopenedNotClosed
    <3>3. OpenStreamRegistered'
      BY <2>1, <3>1 DEF OpenStreamRegistered, Streaming
    <3>4. RegisteredStreamOpen'
      <4> SUFFICES ASSUME NEW w \in Subscribers, clients[w] # NoConn
                   PROVE  clients[w] \notin closed /\ connPc'[clients[w]] \in Streaming /\ whose[clients[w]] = w
        BY <2>1, <3>1 DEF RegisteredStreamOpen
      <4>1. clients[w] \in Conns /\ whose[clients[w]] = w /\ clients[w] \notin closed /\ connPc[clients[w]] \in Streaming
        BY DEF RegisteredStreamOpen
      <4>2. clients[w] # c
        BY <2>3, <4>1
      <4> QED BY <2>1, <4>1, <4>2
    <3> QED BY <3>2, <3>3, <3>4
  <2> QED BY <2>2, <2>3
<1>5. ASSUME NEW c \in Conns, SeeDone(c) PROVE Registration'
  BY <1>5, RegistrationFrame DEF SeeDone, FoundOpen, Streaming
<1>6. ASSUME NEW c \in Conns, ReceiveNote(c) PROVE Registration'
  BY <1>6, RegistrationFrame DEF ReceiveNote, FoundOpen, Streaming
<1>7. ASSUME NEW c \in Conns, SeeClosed(c) PROVE Registration'
  BY <1>7, RegistrationFrame DEF SeeClosed, FoundOpen, Streaming
<1>8. ASSUME NEW c \in Conns, NEW ok \in BOOLEAN, Write(c, ok) PROVE Registration'
  <2>1. connPc'[c] \in {"loop", "leave"} /\ \A d \in Conns \ {c} : connPc'[d] = connPc[d]
    BY <1>8, WriteResultType DEF Write
  <2> QED BY <1>8, <2>1, RegistrationFrame DEF Write, FoundOpen, Streaming
<1>9. ASSUME NEW c \in Conns, NEW ok \in BOOLEAN, KeepAlive(c, ok) PROVE Registration'
  <2>1. connPc'[c] \in {"loop", "leave"} /\ \A d \in Conns \ {c} : connPc'[d] = connPc[d]
    BY <1>9, WriteResultType DEF KeepAlive
  <2> QED BY <1>9, <2>1, RegistrationFrame DEF KeepAlive, FoundOpen, Streaming
<1>10. ASSUME NEW p \in Pushers, NEW u \in Subscribers, PushLookup(p, u) PROVE Registration'
  <2>1. \A q \in readers' : found'[q] # NoConn => found'[q] \notin closed
    BY <1>10 DEF PushLookup, FoundOpen, RegisteredStreamOpen
  <2> QED BY <1>10, <2>1, RegistrationFrame DEF PushLookup
<1>11. ASSUME NEW p \in Pushers, PushSend(p) PROVE Registration'
  <2>1. UNCHANGED panicked
    BY <1>11 DEF PushSend, Send, FoundOpen
  <2>2. \A q \in readers' : found'[q] # NoConn => found'[q] \notin closed
    BY <1>11 DEF PushSend, FoundOpen
  <2> QED BY <1>11, <2>1, <2>2, RegistrationFrame DEF PushSend
<1>12. CASE UNCHANGED hubVars
  BY <1>12, RegistrationFrame DEF hubVars, FoundOpen
<1> QED BY <1>1, <1>2, <1>3, <1>4, <1>5, <1>6, <1>7, <1>8, <1>9, <1>10, <1>11, <1>12 DEF HubNext, SSEHandler

LEMMA RegistrationInvariant == HubSpec => []Registration
<1>1. HubInit => HubTypeInv /\ Registration
  BY TypeInvInit, RegistrationInit
<1>2. HubTypeInv /\ Registration /\ [HubNext]_hubVars => (HubTypeInv /\ Registration)'
  BY TypeInvNext, RegistrationNext
<1> QED BY <1>1, <1>2, PTL DEF HubSpec

\* No pusher and no handler ever touches a closed channel, whatever the number
\* of streams that take over from each other.
THEOREM HubNeverPanics == HubSpec => []NoPanic
<1>1. Registration => NoPanic
  BY DEF Registration
<1> QED BY <1>1, RegistrationInvariant, PTL

\* No open stream is ever cut off from the notifications of its user, and what Push
\* finds in the map is open and belongs to the user it is for.
THEOREM RegistrationStays == HubSpec => []RegistrationExact
<1>1. Registration => RegistrationExact
  BY DEF Registration, RegistrationExact
<1> QED BY <1>1, RegistrationInvariant, PTL

----------------------------------------------------------------------------
(* The mailbox *)

LEMMA HeadAndTail ==
  ASSUME NEW S, NEW s \in Seq(S), s # <<>>
  PROVE  <<Head(s)>> \o Tail(s) = s
OBVIOUS

LEMMA InFront ==
  ASSUME NEW S, NEW s \in Seq(S), NEW x \in S
  PROVE  /\ <<x>> \o s # <<>> /\ <<x>> \o s \in Seq(S)
         /\ Len(<<x>> \o s) = Len(s) + 1
         /\ Head(<<x>> \o s) = x /\ Tail(<<x>> \o s) = s
OBVIOUS

LEMMA AppendInFront ==
  ASSUME NEW S, NEW s \in Seq(S), NEW x \in S, NEW y \in S
  PROVE  Append(<<x>> \o s, y) = <<x>> \o Append(s, y)
OBVIOUS

\* A pusher keeps the lock, so what it found is still what the map holds.
FoundCurrent == \A p \in readers : found[p] = clients[target[p]]

LEMMA FoundCurrentInit == HubInit => FoundCurrent
  BY DEF HubInit, FoundCurrent

LEMMA FoundCurrentNext == HubTypeInv /\ FoundCurrent /\ [HubNext]_hubVars => FoundCurrent'
<1> SUFFICES ASSUME HubTypeInv, FoundCurrent, [HubNext]_hubVars PROVE FoundCurrent'
  OBVIOUS
<1> USE DEF HubTypeInv, HubTypeOK, FoundCurrent, handler, pusher
<1>1. ASSUME NEW c \in Conns, Subscribe(c) \/ UnSubscribe(c) PROVE FoundCurrent'
  BY <1>1 DEF Subscribe, UnSubscribe
<1>2. ASSUME NEW p \in Pushers, NEW u \in Subscribers, PushLookup(p, u) PROVE FoundCurrent'
  BY <1>2 DEF PushLookup
<1>3. ASSUME NEW p \in Pushers, PushSend(p) PROVE FoundCurrent'
  BY <1>3 DEF PushSend
<1>4. CASE UNCHANGED <<clients, readers, target, found>>
  BY <1>4
<1> QED BY <1>1, <1>2, <1>3, <1>4
        DEF HubNext, SSEHandler, Connect, Disconnect, SeeDone, ReceiveNote, SeeClosed, Write, KeepAlive, hubVars

\* The mailboxes change only where the hand or the channel does, the owners only where
\* a stream subscribes.
LEMMA WaitingType == ASSUME HubTypeInv, NEW c \in Conns PROVE Waiting(c) \in Seq(Notes)
<1>1. CASE note[c] = NoNote
  BY <1>1 DEF Waiting, HubTypeInv, HubTypeOK
<1>2. CASE note[c] # NoNote
  BY <1>2, InFront DEF Waiting, HubTypeInv, HubTypeOK
<1> QED BY <1>1, <1>2

LEMMA WaitingSame ==
  ASSUME NEW c \in Conns, note'[c] = note[c], buffer'[c] = buffer[c]
  PROVE  Waiting(c)' = Waiting(c)
  BY DEF Waiting

LEMMA OwnerSame ==
  ASSUME NEW c \in Conns, whose'[c] = whose[c] \/ connPc'[c] \in {"new", "subscribe"},
         connPc'[c] \in {"new", "subscribe"} <=> connPc[c] \in {"new", "subscribe"}
  PROVE  Owner(c)' = Owner(c)
  BY DEF Owner

Owners == [c \in Conns |-> Owner(c)]
Mails == [c \in Conns |-> Waiting(c)]

LEMMA MailboxInit == HubInit => Hub!Init
<1> SUFFICES ASSUME HubInit PROVE Hub!Init
  OBVIOUS
<1>1. Owners = [c \in Conns |-> NoSubscriber] /\ Mails = [c \in Conns |-> <<>>]
  BY DEF HubInit, Owners, Mails, Owner, Waiting
<1> QED BY <1>1 DEF HubInit, Hub!Init, Owners, Mails

\* A step that leaves the streams, their owners and what they wait for alone.
LEMMA MailboxStutter ==
  ASSUME UNCHANGED <<clients, written, pushes>>,
         \A c \in Conns : Owner(c)' = Owner(c) /\ Waiting(c)' = Waiting(c)
  PROVE  UNCHANGED Hub!vars
  BY DEF Hub!vars

LEMMA MailboxNext ==
  ASSUME HubTypeInv, HubTypeInv', Registration, FoundCurrent, [HubNext]_hubVars
  PROVE  [Hub!Next]_(Hub!vars)
<1> USE DEF HubTypeInv, HubTypeOK, handler, pusher, Goto
<1>1. ASSUME NEW c \in Conns, Connect(c) \/ Disconnect(c) \/ SeeDone(c) \/ SeeClosed(c)
      PROVE  UNCHANGED Hub!vars
  <2>1. \A d \in Conns : Waiting(d)' = Waiting(d)
    BY <1>1 DEF Connect, Disconnect, SeeDone, SeeClosed, Waiting
  <2>2. \A d \in Conns : Owner(d)' = Owner(d)
    BY <1>1 DEF Connect, Disconnect, SeeDone, SeeClosed, Owner
  <2> QED BY <1>1, <2>1, <2>2, MailboxStutter DEF Connect, Disconnect, SeeDone, SeeClosed
<1>2. ASSUME NEW c \in Conns, NEW ok \in BOOLEAN, KeepAlive(c, ok) PROVE UNCHANGED Hub!vars
  <2>1. connPc'[c] \in {"loop", "leave"} /\ \A d \in Conns \ {c} : connPc'[d] = connPc[d]
    BY <1>2, WriteResultType DEF KeepAlive
  <2>2. \A d \in Conns : Owner(d)' = Owner(d) /\ Waiting(d)' = Waiting(d)
    BY <1>2, <2>1 DEF KeepAlive, Owner, Waiting
  <2> QED BY <1>2, <2>2, MailboxStutter DEF KeepAlive
<1>3. ASSUME NEW c \in Conns, ReceiveNote(c) PROVE UNCHANGED Hub!vars
  <2>1. note[c] = NoNote /\ Head(buffer[c]) \in Notes /\ Tail(buffer[c]) \in Seq(Notes)
    BY <1>3 DEF ReceiveNote, Carrying
  <2>2. note' = [note EXCEPT ![c] = Head(buffer[c])] /\ buffer' = [buffer EXCEPT ![c] = Tail(@)]
    BY <1>3 DEF ReceiveNote
  <2>3. Head(buffer[c]) # NoNote
    BY <2>1 DEF Notes, NoNote
  <2>4. Waiting(c) = buffer[c]
    BY <2>1 DEF Waiting
  <2>5. Waiting(c)' = <<Head(buffer[c])>> \o Tail(buffer[c])
    BY <2>2, <2>3 DEF Waiting
  <2>6. Waiting(c)' = Waiting(c)
    BY <2>4, <2>5, <1>3, HeadAndTail DEF ReceiveNote
  <2>7. \A d \in Conns : Owner(d)' = Owner(d) /\ Waiting(d)' = Waiting(d)
    BY <2>2, <2>6, <1>3 DEF ReceiveNote, Owner, Waiting
  <2> QED BY <1>3, <2>7, MailboxStutter DEF ReceiveNote
<1>4. ASSUME NEW c \in Conns, Subscribe(c) PROVE Hub!Open(c, whose[c])
  <2>1. whose[c] \in Subscribers /\ Owners[c] = NoSubscriber
    BY <1>4 DEF Subscribe, UserKnown, Owners, Owner
  <2>2. Owners' = [Owners EXCEPT ![c] = whose[c]]
    BY <1>4 DEF Subscribe, Owners, Owner
  <2>3. Mails' = Mails
    BY <1>4 DEF Subscribe, Mails, Waiting
  <2> QED BY <1>4, <2>1, <2>2, <2>3 DEF Subscribe, Hub!Open, Owners, Mails
<1>5. ASSUME NEW c \in Conns, UnSubscribe(c) PROVE Hub!Leave(whose[c]) \/ UNCHANGED Hub!vars
  <2>1. Owners' = Owners /\ Mails' = Mails
    BY <1>5 DEF UnSubscribe, Owners, Owner, Mails, Waiting
  <2>2. CASE clients[whose[c]] = c
    BY <1>5, <2>1, <2>2 DEF UnSubscribe, Hub!Leave, Owners, Mails
  <2>3. CASE clients[whose[c]] # c
    BY <1>5, <2>1, <2>3 DEF UnSubscribe, Hub!vars, Owners, Mails
  <2> QED BY <2>2, <2>3
<1>6. ASSUME NEW c \in Conns, NEW ok \in BOOLEAN, Write(c, ok) PROVE Hub!Take(c)
  <2>1. connPc'[c] \in {"loop", "leave"} /\ \A d \in Conns \ {c} : connPc'[d] = connPc[d]
    BY <1>6, WriteResultType DEF Write
  <2>2. note[c] \in Notes /\ note[c] # NoNote
    BY <1>6 DEF Write, Carrying
  <2>3. Waiting(c) = <<note[c]>> \o buffer[c]
    BY <2>2 DEF Waiting
  <2>4. Waiting(c) # <<>> /\ Head(Waiting(c)) = note[c] /\ Tail(Waiting(c)) = buffer[c]
    BY <2>2, <2>3, InFront
  <2>5. Mails' = [Mails EXCEPT ![c] = Tail(Mails[c])]
    BY <1>6, <2>4 DEF Write, Mails, Waiting
  <2>6. Owners' = Owners
    BY <1>6, <2>1 DEF Write, Owners, Owner
  <2>7. written' = [written EXCEPT ![c] = Append(@, Head(Mails[c]))] \/ written' = written
    BY <1>6, <2>4 DEF Write, Mails
  <2>8. Mails[c] # <<>>
    BY <2>4 DEF Mails
  <2> QED BY <1>6, <2>5, <2>6, <2>7, <2>8 DEF Write, Hub!Take, Owners, Mails
<1>7. ASSUME NEW p \in Pushers, NEW u \in Subscribers, PushLookup(p, u) PROVE UNCHANGED Hub!vars
  <2>1. \A d \in Conns : Owner(d)' = Owner(d) /\ Waiting(d)' = Waiting(d)
    BY <1>7 DEF PushLookup, Owner, Waiting
  <2> QED BY <1>7, <2>1, MailboxStutter DEF PushLookup
<1>8. ASSUME NEW p \in Pushers, PushSend(p) PROVE Hub!Post(target[p])
  <2>u. PICK u \in Subscribers : u = target[p]
    BY <1>8 DEF PushSend, Targeted
  <2>c. PICK c : c = clients[u]
    OBVIOUS
  <2> DEFINE m == [n |-> pushes + 1, to |-> u]
  <2>1. found[p] = c /\ pushes' = pushes + 1 /\ m \in Notes
    BY <1>8, <2>u, <2>c DEF PushSend, FoundCurrent, Notes
  <2>2. Owners' = Owners
    BY <1>8 DEF PushSend, Owners, Owner
  <2>3. CASE c = NoConn
    <3>1. Mails' = Mails
      BY <1>8, <2>1, <2>3 DEF PushSend, Mails, Waiting
    <3> QED BY <1>8, <2>u, <2>c, <2>1, <2>2, <2>3, <3>1 DEF PushSend, Hub!Post, Owners, Mails
  <2>4. CASE c # NoConn
    <3>1. c \in Conns /\ c \notin closed
      BY <2>c, <2>4 DEF Registration, RegisteredStreamOpen
    <3>2. Send(c, m)
      BY <1>8, <2>u, <2>1, <2>4 DEF PushSend
    <3>3. Capacity \in Nat /\ Len(buffer[c]) \in Nat
      BY <3>1, SSEHubAssumption
    <3>4. Len(Waiting(c)) \in {Len(buffer[c]), Len(buffer[c]) + 1}
      BY <3>1, InFront DEF Waiting
    <3>5. CASE Len(buffer[c]) < Capacity /\ buffer' = [buffer EXCEPT ![c] = Append(@, m)]
      <4>1. Len(Waiting(c)) <= Capacity
        BY <3>3, <3>4, <3>5
      <4>2. Waiting(c)' = Append(Waiting(c), m)
        <5>1. note'[c] = note[c] /\ buffer'[c] = Append(buffer[c], m)
          BY <1>8, <3>1, <3>5 DEF PushSend
        <5>2. CASE note[c] = NoNote
          BY <5>1, <5>2 DEF Waiting
        <5>3. CASE note[c] # NoNote
          <6>1. note[c] \in Notes /\ buffer[c] \in Seq(Notes)
            BY <3>1, <5>3
          <6>2. Append(<<note[c]>> \o buffer[c], m) = <<note[c]>> \o Append(buffer[c], m)
            <7>1. \A y \in Notes : Append(<<note[c]>> \o buffer[c], y) = <<note[c]>> \o Append(buffer[c], y)
              <8> HIDE DEF HubTypeInv, HubTypeOK
              <8> QED BY <6>1, AppendInFront
            <7> QED BY <2>1, <7>1
          <6> QED BY <5>1, <5>3, <6>2 DEF Waiting
        <5> QED BY <5>2, <5>3
      <4>3. \A d \in Conns \ {c} : Waiting(d)' = Waiting(d)
        BY <1>8, <3>5 DEF PushSend, Waiting
      <4>4. Mails' = [Mails EXCEPT ![c] = Append(Mails[c], m)]
        BY <3>1, <4>2, <4>3 DEF Mails
      <4>5. Len(Mails[c]) <= Capacity
        BY <3>1, <4>1 DEF Mails
      <4> QED BY <1>8, <2>u, <2>c, <2>1, <2>2, <2>4, <4>4, <4>5 DEF PushSend, Hub!Post, Owners, Mails
    <3>6. CASE Len(buffer[c]) >= Capacity /\ UNCHANGED buffer
      <4>1. Len(Waiting(c)) >= Capacity
        BY <3>3, <3>4, <3>6
      <4>2. Mails' = Mails
        BY <1>8, <3>6 DEF PushSend, Mails, Waiting
      <4>3. Len(Mails[c]) >= Capacity
        BY <3>1, <4>1 DEF Mails
      <4> QED BY <1>8, <2>u, <2>c, <2>1, <2>2, <4>2, <4>3 DEF PushSend, Hub!Post, Owners, Mails
    <3> QED BY <3>1, <3>2, <3>5, <3>6 DEF Send
  <2> QED BY <2>3, <2>4
<1>9. CASE UNCHANGED hubVars
  BY <1>9, MailboxStutter DEF hubVars, Owner, Waiting
<1>10. \A c \in Conns : connPc[c] # "new" => whose[c] \in Subscribers
  BY DEF UserKnown
<1>11. \A p \in readers : target[p] \in Subscribers
  BY DEF Targeted
<1>12. ASSUME NEW c \in Conns, SSEHandler(c) PROVE [Hub!Next]_(Hub!vars)
  <2>1. CASE Subscribe(c)
    BY <1>4, <1>10, <2>1 DEF Subscribe, Hub!Next
  <2>2. CASE UnSubscribe(c)
    BY <1>5, <1>10, <2>2 DEF UnSubscribe, Hub!Next
  <2>3. CASE \E ok \in BOOLEAN : Write(c, ok)
    BY <1>6, <2>3 DEF Hub!Next
  <2>4. CASE SeeDone(c) \/ SeeClosed(c) \/ ReceiveNote(c)
    BY <1>1, <1>3, <2>4
  <2> QED BY <1>12, <2>1, <2>2, <2>3, <2>4 DEF SSEHandler
<1>13. ASSUME NEW p \in Pushers, PushSend(p) PROVE Hub!Next
  BY <1>8, <1>11, <1>13 DEF PushSend, Hub!Next
<1> QED BY <1>1, <1>2, <1>7, <1>9, <1>12, <1>13 DEF HubNext

\* The hub does what a mailbox does, for any number of users, streams and pushers and
\* any capacity.
THEOREM HubIsMailbox == HubSpec => ImplementsMailbox
<1>1. HubInit => HubTypeInv /\ Registration /\ FoundCurrent
  BY TypeInvInit, RegistrationInit, FoundCurrentInit
<1>2. HubTypeInv /\ Registration /\ FoundCurrent /\ [HubNext]_hubVars
      => (HubTypeInv /\ Registration /\ FoundCurrent)'
  BY TypeInvNext, RegistrationNext, FoundCurrentNext
<1>3. HubTypeInv /\ HubTypeInv' /\ Registration /\ FoundCurrent /\ [HubNext]_hubVars => [Hub!Next]_(Hub!vars)
  BY MailboxNext
<1> QED BY <1>1, <1>2, <1>3, MailboxInit, PTL DEF HubSpec, ImplementsMailbox, Hub!Spec

----------------------------------------------------------------------------
(* Order.  The argument is the mailbox's: what a stream has shown and still *)
(* waits for is one increasing sequence of notifications for its owner.     *)

Shown(c) == written[c] \o Waiting(c)

Increasing(s, u, top) ==
  /\ \A i, j \in 1..Len(s) : i < j => s[i].n < s[j].n
  /\ \A i \in 1..Len(s) : s[i].to = u /\ s[i].n <= top

InOrder ==
  \A c \in Conns : /\ Increasing(Shown(c), Owner(c), pushes)
                   /\ Owner(c) = NoSubscriber => Shown(c) = <<>>

LEMMA ShownType == ASSUME HubTypeInv, NEW c \in Conns PROVE Shown(c) \in Seq(Notes)
  BY WaitingType, ConcatProperties DEF Shown, HubTypeInv, HubTypeOK

LEMMA IncreasingEmpty == ASSUME NEW u, NEW top PROVE Increasing(<<>>, u, top)
  BY DEF Increasing

\* The next notification is the greatest.
LEMMA IncreasingAppend ==
  ASSUME NEW s \in Seq(Notes), NEW u \in Subscribers, NEW top \in Nat, Increasing(s, u, top)
  PROVE  Increasing(Append(s, [n |-> top + 1, to |-> u]), u, top + 1)
<1> DEFINE m == [n |-> top + 1, to |-> u]
           t == Append(s, m)
<1>1. m \in Notes /\ m.n = top + 1 /\ m.to = u
  BY DEF Notes
<1>2. Len(t) = Len(s) + 1 /\ t[Len(s) + 1] = m /\ \A i \in 1..Len(s) : t[i] = s[i]
  <2> HIDE DEF m
  <2> QED BY <1>1, AppendProperties
<1>3. Len(s) \in Nat /\ \A i \in 1..Len(s) : s[i].n \in Nat /\ s[i].n <= top
  <2>1. \A i \in 1..Len(s) : s[i] \in Notes
    BY ElementOfSeq
  <2> QED BY <2>1, LenProperties DEF Increasing, Notes
<1> HIDE DEF m, t
<1>4. \A i \in 1..Len(t) : t[i].to = u /\ t[i].n <= top + 1
  <2> SUFFICES ASSUME NEW i \in 1..Len(t) PROVE t[i].to = u /\ t[i].n <= top + 1
    OBVIOUS
  <2>1. CASE i \in 1..Len(s)
    BY <1>2, <1>3, <2>1 DEF Increasing
  <2>2. CASE i = Len(s) + 1
    BY <1>1, <1>2, <2>2
  <2> QED BY <1>2, <1>3, <2>1, <2>2
<1>5. \A i, j \in 1..Len(t) : i < j => t[i].n < t[j].n
  <2> SUFFICES ASSUME NEW i \in 1..Len(t), NEW j \in 1..Len(t), i < j PROVE t[i].n < t[j].n
    OBVIOUS
  <2>1. i \in 1..Len(s)
    BY <1>2, <1>3
  <2>2. CASE j \in 1..Len(s)
    BY <1>2, <2>1, <2>2 DEF Increasing
  <2>3. CASE j = Len(s) + 1
    BY <1>1, <1>2, <1>3, <2>1, <2>3
  <2> QED BY <1>2, <1>3, <2>2, <2>3
<1> QED BY <1>4, <1>5 DEF Increasing, t, m

\* One that is lost leaves the order of the others.
LEMMA IncreasingLose ==
  ASSUME NEW g \in Seq(Notes), NEW m \in Seq(Notes), m # <<>>, NEW u, NEW top \in Nat,
         Increasing(g \o m, u, top)
  PROVE  Increasing(g \o Tail(m), u, top)
<1> DEFINE s == g \o m
           t == g \o Tail(m)
<1>1. /\ Len(g) \in Nat /\ Len(m) \in Nat \ {0} /\ Tail(m) \in Seq(Notes) /\ Len(Tail(m)) = Len(m) - 1
      /\ \A i \in 1..Len(Tail(m)) : Tail(m)[i] = m[i + 1]
  BY HeadTailProperties, EmptySeq, LenProperties
<1>2. /\ Len(s) = Len(g) + Len(m)
      /\ \A i \in 1..Len(g) + Len(m) : s[i] = IF i <= Len(g) THEN g[i] ELSE m[i - Len(g)]
  BY ConcatProperties
<1>3. /\ Len(t) = Len(g) + Len(Tail(m))
      /\ \A i \in 1..Len(g) + Len(Tail(m)) : t[i] = IF i <= Len(g) THEN g[i] ELSE Tail(m)[i - Len(g)]
  BY <1>1, ConcatProperties
<1> HIDE DEF s, t
<1>4. Len(t) = Len(s) - 1 /\ Len(s) \in Nat
  BY <1>1, <1>2, <1>3
<1>5. ASSUME NEW i \in 1..Len(t)
      PROVE  t[i] = IF i <= Len(g) THEN s[i] ELSE s[i + 1]
  <2>1. CASE i <= Len(g)
    BY <1>1, <1>2, <1>3, <1>4, <2>1
  <2>2. CASE i > Len(g)
    <3>1. i - Len(g) \in 1..Len(Tail(m)) /\ i \in 1..Len(g) + Len(Tail(m))
      BY <1>1, <1>3, <2>2
    <3>2. t[i] = m[i - Len(g) + 1]
      BY <1>1, <1>3, <2>2, <3>1
    <3>3. s[i + 1] = m[i + 1 - Len(g)]
      BY <1>1, <1>2, <1>4, <2>2
    <3>4. i - Len(g) + 1 = i + 1 - Len(g)
      BY <1>1
    <3> QED BY <1>1, <2>2, <3>2, <3>3, <3>4
  <2> QED BY <1>1, <2>1, <2>2
<1> DEFINE place(i) == IF i <= Len(g) THEN i ELSE i + 1
<1>6. \A i \in 1..Len(t) : place(i) \in 1..Len(s) /\ t[i] = s[place(i)]
  BY <1>1, <1>4, <1>5
<1>7. \A i, j \in 1..Len(t) : i < j => place(i) < place(j)
  BY <1>1, <1>4
<1> HIDE DEF place
<1>8. Increasing(s, u, top)
  BY DEF s
<1>9. Increasing(t, u, top)
  BY <1>6, <1>7, <1>8 DEF Increasing
<1> QED BY <1>9 DEF t

LEMMA InOrderInit == HubInit => InOrder
<1> SUFFICES ASSUME HubInit, NEW c \in Conns PROVE Increasing(Shown(c), Owner(c), pushes) /\ Shown(c) = <<>>
  BY DEF InOrder
<1>1. Shown(c) = <<>>
  BY DEF HubInit, Shown, Waiting
<1> QED BY <1>1, IncreasingEmpty

LEMMA InOrderNext ==
  ASSUME HubTypeInv, HubTypeInv', Registration, InOrder, [Hub!Next]_(Hub!vars)
  PROVE  InOrder'
<1> SUFFICES ASSUME NEW c \in Conns
             PROVE  /\ Increasing(Shown(c)', Owner(c)', pushes')
                    /\ Owner(c)' = NoSubscriber => Shown(c)' = <<>>
  BY DEF InOrder
<1>1. Increasing(Shown(c), Owner(c), pushes) /\ (Owner(c) = NoSubscriber => Shown(c) = <<>>)
  BY DEF InOrder
<1>2. /\ written[c] \in Seq(Notes) /\ Waiting(c) \in Seq(Notes) /\ Shown(c) \in Seq(Notes)
      /\ pushes \in Nat /\ written \in [Conns -> Seq(Notes)]
  BY WaitingType, ShownType DEF HubTypeInv, HubTypeOK
<1> DEFINE Same == /\ Owner(c)' = Owner(c) /\ written'[c] = written[c]
                   /\ Waiting(c)' = Waiting(c) /\ pushes' = pushes
<1>3. CASE Same
  <2>1. Shown(c)' = Shown(c)
    BY <1>3 DEF Shown
  <2> QED BY <1>1, <1>3, <2>1
<1>4. CASE UNCHANGED Hub!vars
  <2>1. Owners' = Owners /\ Mails' = Mails /\ written' = written /\ pushes' = pushes
    BY <1>4 DEF Hub!vars, Owners, Mails
  <2>2. Owners'[c] = Owner(c)' /\ Owners[c] = Owner(c) /\ Mails'[c] = Waiting(c)' /\ Mails[c] = Waiting(c)
    BY DEF Owners, Mails
  <2> QED BY <1>3, <2>1, <2>2
<1>5. Owners'[c] = Owner(c)' /\ Owners[c] = Owner(c) /\ Mails'[c] = Waiting(c)' /\ Mails[c] = Waiting(c)
  BY DEF Owners, Mails
<1>6. Owners \in [Conns -> Subscribers \cup {NoSubscriber}] /\ DOMAIN Owners = Conns /\ DOMAIN Mails = Conns
  BY DEF Owners, Mails, Owner, HubTypeInv, HubTypeOK
<1>7. ASSUME NEW d \in Conns, NEW u \in Subscribers, Hub!Open(d, u)
      PROVE  Increasing(Shown(c)', Owner(c)', pushes') /\ (Owner(c)' = NoSubscriber => Shown(c)' = <<>>)
  <2>1. /\ Owners[d] = NoSubscriber /\ Owners' = [Owners EXCEPT ![d] = u]
        /\ Mails' = Mails /\ written' = written /\ pushes' = pushes
    BY <1>7 DEF Hub!Open, Owners, Mails
  <2>2. CASE c = d
    <3>1. Shown(c)' = Shown(c) /\ Shown(c) = <<>>
      BY <1>1, <1>5, <2>1, <2>2 DEF Shown
    <3>2. Owner(c)' = u /\ u # NoSubscriber
      BY <1>5, <1>6, <2>1, <2>2, SSEHubAssumption
    <3> QED BY <3>1, <3>2, IncreasingEmpty
  <2>3. CASE c # d
    BY <1>3, <1>5, <1>6, <2>1, <2>3
  <2> QED BY <2>2, <2>3
<1>8. ASSUME NEW u \in Subscribers, Hub!Leave(u) PROVE Same
  <2>1. Owners' = Owners /\ Mails' = Mails /\ written' = written /\ pushes' = pushes
    BY <1>8 DEF Hub!Leave, Owners, Mails
  <2> QED BY <1>5, <2>1
<1>9. ASSUME NEW u \in Subscribers, Hub!Post(u)
      PROVE  Increasing(Shown(c)', Owner(c)', pushes') /\ (Owner(c)' = NoSubscriber => Shown(c)' = <<>>)
  <2> DEFINE m == [n |-> pushes + 1, to |-> u]
  <2>1. /\ Owners' = Owners /\ written' = written /\ pushes' = pushes + 1
        /\ \/ clients[u] # NoConn /\ Mails' = [Mails EXCEPT ![clients[u]] = Append(@, m)]
           \/ Mails' = Mails
    BY <1>9 DEF Hub!Post, Owners, Mails
  <2>2. Owner(c)' = Owner(c) /\ written'[c] = written[c]
    BY <1>5, <2>1
  <2>3. CASE clients[u] = c /\ Mails' = [Mails EXCEPT ![clients[u]] = Append(@, m)] /\ clients[u] # NoConn
    <3>1. Owner(c) = u
      BY <2>3 DEF Owner, Registration, RegisteredStreamOpen, Streaming
    <3>2. Waiting(c)' = Append(Waiting(c), m)
      BY <1>5, <1>6, <2>3
    <3>3. m \in Notes
      BY <1>2 DEF Notes
    <3>4. Shown(c)' = Append(Shown(c), m)
      <4>1. written[c] \o Append(Waiting(c), m) = Append(written[c] \o Waiting(c), m)
        <5> HIDE DEF m
        <5> QED BY <1>2, <3>3
      <4> QED BY <2>2, <3>2, <4>1 DEF Shown
    <3>5. Increasing(Append(Shown(c), m), u, pushes + 1)
      BY <1>1, <1>2, <3>1, IncreasingAppend
    <3> QED BY <2>1, <2>2, <3>1, <3>4, <3>5, SSEHubAssumption
  <2>4. CASE Mails'[c] = Mails[c]
    <3>1. Shown(c)' = Shown(c)
      BY <1>5, <2>2, <2>4 DEF Shown
    <3>2. Increasing(Shown(c), Owner(c), pushes + 1)
      <4>1. \A i \in 1..Len(Shown(c)) : Shown(c)[i] \in Notes
        BY <1>2, ElementOfSeq
      <4>2. pushes \in Nat
        BY DEF HubTypeInv, HubTypeOK
      <4>3. \A i \in 1..Len(Shown(c)) : Shown(c)[i].n \in Nat /\ Shown(c)[i].n <= pushes
        BY <1>1, <4>1 DEF Increasing, Notes
      <4>4. \A i \in 1..Len(Shown(c)) : Shown(c)[i].n <= pushes + 1
        <5> SUFFICES ASSUME NEW i \in 1..Len(Shown(c)) PROVE Shown(c)[i].n <= pushes + 1
          OBVIOUS
        <5> QED BY <4>2, <4>3
      <4> QED BY <1>1, <4>4 DEF Increasing
    <3> QED BY <1>1, <2>1, <2>2, <3>1, <3>2
  <2> QED BY <1>6, <2>1, <2>3, <2>4
<1>10. ASSUME NEW d \in Conns, Hub!Take(d)
       PROVE  Increasing(Shown(c)', Owner(c)', pushes') /\ (Owner(c)' = NoSubscriber => Shown(c)' = <<>>)
  <2>1. /\ Owners' = Owners /\ pushes' = pushes /\ Mails[d] # <<>>
        /\ Mails' = [Mails EXCEPT ![d] = Tail(@)]
        /\ \/ written' = [written EXCEPT ![d] = Append(@, Head(Mails[d]))]
           \/ written' = written
    BY <1>10 DEF Hub!Take, Owners, Mails
  <2>2. CASE c # d
    BY <1>3, <1>5, <1>6, <1>2, <2>1, <2>2
  <2>3. CASE c = d
    <3>1. Owner(c)' = Owner(c) /\ Waiting(c) # <<>> /\ Waiting(c)' = Tail(Waiting(c))
      BY <1>5, <1>6, <2>1, <2>3
    <3>2. Owner(c) # NoSubscriber
      <4>1. written[c] \o Waiting(c) # <<>>
        BY <1>2, <3>1, ConcatEqualIffEmpty
      <4> QED BY <1>1, <4>1 DEF Shown
    <3>3. CASE written'[c] = Append(written[c], Head(Waiting(c)))
      <4>1. Append(written[c], Head(Waiting(c))) \o Tail(Waiting(c)) = written[c] \o Waiting(c)
        BY <1>2, <3>1
      <4>2. Shown(c)' = Shown(c)
        BY <3>1, <3>3, <4>1 DEF Shown
      <4> QED BY <1>1, <2>1, <3>1, <3>2, <4>2
    <3>4. CASE written'[c] = written[c]
      <4>1. Increasing(written[c] \o Tail(Waiting(c)), Owner(c), pushes)
        BY <1>1, <1>2, <3>1, IncreasingLose DEF Shown
      <4>2. Shown(c)' = written[c] \o Tail(Waiting(c))
        BY <3>1, <3>4 DEF Shown
      <4> QED BY <2>1, <3>1, <3>2, <4>1, <4>2
    <3> QED BY <1>2, <1>5, <2>1, <2>3, <3>3, <3>4
  <2> QED BY <2>2, <2>3
<1> QED BY <1>3, <1>4, <1>7, <1>8, <1>9, <1>10 DEF Hub!Next

\* A stream shows the notifications of its own user only, each at most once and in the
\* order they were sent, whatever takes over, fails or is discarded in between.
THEOREM StreamsInOrder == HubSpec => []Hub!OwnMailInOrder
<1>1. HubInit => HubTypeInv /\ Registration /\ FoundCurrent /\ InOrder
  BY TypeInvInit, RegistrationInit, FoundCurrentInit, InOrderInit
<1>2. HubTypeInv /\ Registration /\ FoundCurrent /\ InOrder /\ [HubNext]_hubVars
      => (HubTypeInv /\ Registration /\ FoundCurrent /\ InOrder)'
  BY TypeInvNext, RegistrationNext, FoundCurrentNext, MailboxNext, InOrderNext
<1>3. HubTypeInv /\ InOrder => Hub!OwnMailInOrder
  <2> SUFFICES ASSUME HubTypeInv, InOrder, NEW c \in Conns
               PROVE  /\ \A i, j \in DOMAIN Shown(c) : i < j => Shown(c)[i].n < Shown(c)[j].n
                      /\ \A i \in DOMAIN Shown(c) : Shown(c)[i].to = Owner(c)
    BY DEF Hub!OwnMailInOrder, Shown
  <2>1. DOMAIN Shown(c) = 1..Len(Shown(c))
    BY ShownType, LenProperties
  <2> QED BY <2>1 DEF InOrder, Increasing
<1> QED BY <1>1, <1>2, <1>3, PTL DEF HubSpec
===============================================================================
