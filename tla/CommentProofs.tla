--------------------------- MODULE CommentProofs ---------------------------
(***************************************************************************)
(* Proofs about Comment, for any number of videos, requests and faults:    *)
(* types, the counter against the rows, the races behind a wrong counter,  *)
(* and what becomes of accepted comments.                                  *)
(***************************************************************************)
EXTENDS Comment, FiniteSetTheorems, SequenceTheorems, TLAPS

\* A process that is at work holds an event.
HoldsMsg == \A p \in Procs : pc[p] # "idle" => msg[p] \in Msg
TypeInv == TypeOK /\ HoldsMsg

LEMMA MsgFields ==
  ASSUME NEW k \in Msg
  PROVE  k.op \in {"publish", "delete"} /\ k.e \in Requests /\ k.v \in Videos /\ k.id \in Nat
  BY DEF Msg

LEMMA FaultType == ASSUME TypeOK, Fault PROVE faults' \in 0..MaxFaults
  BY CommentAssumption DEF TypeOK, Fault

LEMMA GotoType ==
  ASSUME TypeInv, NEW p \in Procs, NEW label \in PCs, Goto(p, label), pc[p] # "idle", msg' = msg
  PROVE  pc' \in [Procs -> PCs] /\ HoldsMsg'
  BY DEF TypeInv, TypeOK, HoldsMsg, Goto

LEMMA CountType ==
  ASSUME TypeOK, NEW k \in Msg, Count(k)
  PROVE  popularity' \in [Videos -> Nat] /\ faults' \in 0..MaxFaults
<1>1. k.v \in Videos
  BY MsgFields
<1>2. faults' \in 0..MaxFaults
  <2>1. CASE Fault
    BY <2>1, FaultType
  <2>2. CASE NoFault
    BY <2>2 DEF NoFault, TypeOK
  <2> QED BY <2>1, <2>2 DEF Count
<1>3. popularity' = [popularity EXCEPT ![k.v] = @ + 1] \/ UNCHANGED popularity
  BY DEF Count
<1>4. popularity' \in [Videos -> Nat]
  BY <1>1, <1>3 DEF TypeOK
<1> QED BY <1>2, <1>4

LEMMA FinishType ==
  ASSUME TypeInv, NEW p \in Procs, pc[p] # "idle", Finish(p), msg' = msg
  PROVE  /\ popularity' \in [Videos -> Nat]
         /\ faults' \in 0..MaxFaults
         /\ pc' \in [Procs -> PCs]
         /\ HoldsMsg'
<1>1. msg[p] \in Msg
  BY DEF TypeInv, HoldsMsg
<1>2. CASE p \in Workers /\ Goto(p, "ack") /\ NoFault /\ UNCHANGED popularity
  <2>1. "ack" \in PCs
    BY DEF PCs
  <2> QED BY <1>2, <2>1, GotoType DEF NoFault, TypeInv, TypeOK
<1>3. CASE p \in Requests /\ Goto(p, "written") /\ Count(msg[p])
  <2>1. "written" \in PCs
    BY DEF PCs, Final
  <2> QED BY <1>1, <1>3, <2>1, GotoType, CountType DEF TypeInv
<1> QED BY <1>2, <1>3 DEF Finish

LEMMA TouchType ==
  ASSUME TypeOK, NEW v \in Videos, Touch(v)
  PROVE  entity' \in [Videos -> {"absent", "fresh", "stale"}]
  BY DEF Touch, TypeOK

LEMMA DecrementType == ASSUME NEW n \in Nat PROVE Decrement(n) \in Nat
  BY DEF Decrement

LEMMA TypeInvInit == Init => TypeInv
  BY CommentAssumption DEF Init, TypeInv, TypeOK, HoldsMsg, PCs

LEMMA TypeInvStep == TypeInv /\ [Next]_vars => TypeInv'
<1> SUFFICES ASSUME TypeInv, [Next]_vars PROVE TypeInv'
  OBVIOUS
<1> USE DEF TypeInv, tables, task, observers
<1>0. /\ {"idle", "send", "txRead", "txWrite", "inval", "ack"} \subseteq PCs
      /\ {"published", "written", "failed"} \subseteq PCs
      /\ Requests \subseteq Procs /\ Workers \subseteq Procs
  BY DEF PCs, Final, Procs
<1>1. ASSUME NEW r \in Requests, BeginPublish(r) PROVE TypeInv'
  <2>1. PICK v \in Videos : msg' = [msg EXCEPT ![r] = [op |-> "publish", e |-> r, v |-> v, id |-> 0]]
    BY <1>1 DEF BeginPublish, TypeOK
  <2>2. [op |-> "publish", e |-> r, v |-> v, id |-> 0] \in Msg
    BY DEF Msg
  <2> QED BY <1>0, <1>1, <2>1, <2>2 DEF BeginPublish, Goto, TypeOK, HoldsMsg
<1>2. ASSUME NEW r \in Requests, BeginDelete(r) PROVE TypeInv'
  <2>1. PICK c \in rows : msg' = [msg EXCEPT ![r] = [op |-> "delete", e |-> r, v |-> c.v, id |-> c.id]]
    BY <1>2 DEF BeginDelete
  <2>2. [op |-> "delete", e |-> r, v |-> c.v, id |-> c.id] \in Msg
    BY DEF Msg, Row, TypeOK
  <2> QED BY <1>0, <1>2, <2>1, <2>2 DEF BeginDelete, Goto, TypeOK, HoldsMsg
<1>3. ASSUME NEW r \in Requests, SendOk(r) PROVE TypeInv'
  <2>1. msg[r] \in Msg /\ msg' = msg /\ pc[r] # "idle"
    BY <1>0, <1>3 DEF SendOk, HoldsMsg
  <2>2. popularity' \in [Videos -> Nat] /\ faults' \in 0..MaxFaults
    BY <1>3, <2>1, CountType DEF SendOk
  <2>3. queue' \in Seq(Msg) /\ accepted' \in SUBSET Requests
    BY <1>3, <2>1 DEF SendOk, TypeOK
  <2>4. pc' \in [Procs -> PCs] /\ HoldsMsg'
    BY <1>0, <1>3, <2>1, GotoType DEF SendOk
  <2> QED BY <1>3, <2>2, <2>3, <2>4 DEF SendOk, TypeOK
<1>4. ASSUME NEW r \in Requests, SendLost(r) PROVE TypeInv'
  <2>1. msg[r] \in Msg /\ msg' = msg /\ pc[r] # "idle"
    BY <1>0, <1>4 DEF SendLost, HoldsMsg
  <2>2. popularity' \in [Videos -> Nat]
    BY <1>4, <2>1, MsgFields DEF SendLost, TypeOK
  <2>3. faults' \in 0..MaxFaults
    BY <1>4, FaultType DEF SendLost
  <2>4. pc' \in [Procs -> PCs] /\ HoldsMsg'
    BY <1>0, <1>4, <2>1, GotoType DEF SendLost
  <2> QED BY <1>4, <2>2, <2>3, <2>4 DEF SendLost, TypeOK
<1>5. ASSUME NEW r \in Requests, SendErr(r) PROVE TypeInv'
  <2>1. msg[r] \in Msg /\ msg' = msg /\ pc[r] # "idle"
    BY <1>0, <1>5 DEF SendErr, HoldsMsg
  <2>2. queue' \in Seq(Msg)
    <3>1. CASE queue' = queue
      BY <3>1 DEF TypeOK
    <3>2. CASE queue' = Append(queue, msg[r])
      BY <2>1, <3>2 DEF TypeOK
    <3> QED BY <1>5, <3>1, <3>2 DEF SendErr
  <2>3. faults' \in 0..MaxFaults
    BY <1>5, FaultType DEF SendErr
  <2>4. pc' \in [Procs -> PCs] /\ HoldsMsg'
    BY <1>0, <1>5, <2>1, GotoType DEF SendErr
  <2> QED BY <1>5, <2>2, <2>3, <2>4 DEF SendErr, TypeOK
<1>6. ASSUME NEW p \in Procs, TxRead(p) PROVE TypeInv'
  <2>1. msg' = msg /\ pc[p] # "idle" /\ Exists(msg[p]) \in BOOLEAN
    BY <1>6 DEF TxRead, Exists
  <2>2. seen' \in [Procs -> BOOLEAN]
    BY <1>6, <2>1 DEF TxRead, TypeOK
  <2>3. pc' \in [Procs -> PCs] /\ HoldsMsg'
    BY <1>0, <1>6, <2>1, GotoType DEF TxRead
  <2> QED BY <1>6, <2>2, <2>3 DEF TxRead, TypeOK
<1>7. ASSUME NEW p \in Procs, CreateSeen(p) PROVE TypeInv'
  <2>1. pc' \in [Procs -> PCs] /\ HoldsMsg'
    BY <1>0, <1>7, GotoType DEF CreateSeen
  <2> QED BY <1>7, <2>1 DEF CreateSeen, TypeOK
<1>8. ASSUME NEW p \in Procs, Create(p) PROVE TypeInv'
  <2> DEFINE k == msg[p]
  <2>1. k \in Msg /\ msg' = msg /\ pc[p] # "idle"
    BY <1>8 DEF Create, HoldsMsg
  <2>2. k.v \in Videos /\ k.e \in Requests
    BY <2>1, MsgFields
  <2>3. rows' \in SUBSET Row /\ nextId' \in Nat
    BY <1>8, <2>2 DEF Create, TypeOK, Row
  <2>4. count' \in [Videos -> Nat]
    BY <1>8, <2>2 DEF Create, TypeOK
  <2>5. entity' \in [Videos -> {"absent", "fresh", "stale"}]
    BY <1>8, <2>2, TouchType DEF Create
  <2>6. pc' \in [Procs -> PCs] /\ HoldsMsg'
    BY <1>0, <1>8, <2>1, GotoType DEF Create
  <2> QED BY <1>8, <2>3, <2>4, <2>5, <2>6 DEF Create, TypeOK
<1>9. ASSUME NEW p \in Procs, DeleteUnseen(p) PROVE TypeInv'
  <2>1. Finish(p) /\ msg' = msg /\ pc[p] # "idle"
    BY <1>9 DEF DeleteUnseen
  <2> QED BY <1>9, <2>1, FinishType DEF DeleteUnseen, TypeOK
<1>10. ASSUME NEW p \in Procs, Delete(p) PROVE TypeInv'
  <2> DEFINE k == msg[p]
  <2>1. k \in Msg /\ msg' = msg /\ pc[p] # "idle"
    BY <1>10 DEF Delete, HoldsMsg
  <2>2. k.v \in Videos
    BY <2>1, MsgFields
  <2>3. count' \in [Videos -> Nat]
    <3>1. Decrement(count[k.v]) \in Nat
      BY <2>2, DecrementType DEF TypeOK
    <3> QED BY <1>10, <2>2, <3>1 DEF Delete, TypeOK
  <2>4. rows' \in SUBSET Row /\ erased' \in SUBSET Requests /\ raced' \in SUBSET Videos
    BY <1>10, <2>2 DEF Delete, TypeOK, Row
  <2>5. entity' \in [Videos -> {"absent", "fresh", "stale"}]
    BY <1>10, <2>2, TouchType DEF Delete
  <2>6. pc' \in [Procs -> PCs] /\ HoldsMsg'
    BY <1>0, <1>10, <2>1, GotoType DEF Delete
  <2> QED BY <1>10, <2>3, <2>4, <2>5, <2>6 DEF Delete, TypeOK
<1>11. ASSUME NEW p \in Procs, pc[p] # "idle", Rollback(p), faults' \in 0..MaxFaults
       PROVE  TypeInv'
  <2>1. msg[p] \in Msg /\ msg' = msg
    BY <1>11 DEF Rollback, HoldsMsg
  <2>2. tries' \in [Procs -> 0..MaxTries-1]
    BY <1>11, CommentAssumption DEF Rollback, TypeOK
  <2>3. dropped' \in SUBSET Requests
    BY <1>11, <2>1, MsgFields DEF Rollback, TypeOK
  <2>4. Goto(p, "failed") \/ Goto(p, "txRead") \/ Goto(p, "ack")
    BY <1>11 DEF Rollback
  <2>5. pc' \in [Procs -> PCs] /\ HoldsMsg'
    BY <1>0, <1>11, <2>1, <2>4, GotoType
  <2> QED BY <1>11, <2>2, <2>3, <2>5 DEF Rollback, TypeOK
<1>12. ASSUME NEW p \in Procs, TxAbort(p) PROVE TypeInv'
  BY <1>11, <1>12 DEF TxAbort, NoFault, TypeOK
<1>13. ASSUME NEW p \in Procs, TxError(p) PROVE TypeInv'
  BY <1>11, <1>13, FaultType DEF TxError
<1>14. ASSUME NEW p \in Procs, Invalidate(p) PROVE TypeInv'
  <2>1. msg[p] \in Msg /\ Finish(p) /\ msg' = msg /\ pc[p] # "idle"
    BY <1>14 DEF Invalidate, HoldsMsg
  <2>2. entity' \in [Videos -> {"absent", "fresh", "stale"}]
    BY <1>14, <2>1, MsgFields DEF Invalidate, TypeOK
  <2> QED BY <1>14, <2>1, <2>2, FinishType DEF Invalidate, TypeOK
<1>15. ASSUME NEW p \in Procs, InvalidateFails(p) PROVE TypeInv'
  <2>1. msg[p] \in Msg /\ msg' = msg /\ pc[p] # "idle"
    BY <1>15 DEF InvalidateFails, HoldsMsg
  <2>2. popularity' \in [Videos -> Nat]
    BY <1>15, <2>1, MsgFields DEF InvalidateFails, TypeOK
  <2>3. faults' \in 0..MaxFaults
    BY <1>15, FaultType DEF InvalidateFails
  <2>4. pc' \in [Procs -> PCs] /\ HoldsMsg'
    BY <1>0, <1>15, <2>1, GotoType DEF InvalidateFails
  <2> QED BY <1>15, <2>2, <2>3, <2>4 DEF InvalidateFails, TypeOK
<1>16. ASSUME NEW w \in Workers, Forget(w)
       PROVE  /\ pc' \in [Procs -> PCs] /\ msg' \in [Procs -> Msg \cup {NoMsg}]
              /\ seen' \in [Procs -> BOOLEAN] /\ tries' \in [Procs -> 0..MaxTries-1]
              /\ HoldsMsg'
  BY <1>0, <1>16, CommentAssumption DEF Forget, Goto, TypeOK, HoldsMsg
<1>17. ASSUME NEW w \in Workers, Receive(w) PROVE TypeInv'
  <2>1. Head(queue) \in Msg /\ queue' \in Seq(Msg)
    BY <1>17 DEF Receive, TypeOK
  <2> QED BY <1>0, <1>17, <2>1 DEF Receive, Goto, TypeOK, HoldsMsg
<1>18. ASSUME NEW w \in Workers, Ack(w) PROVE TypeInv'
  BY <1>16, <1>18 DEF Ack, TypeOK
<1>19. ASSUME NEW p \in Procs, Crash(p) PROVE TypeInv'
  <2>1. msg[p] \in Msg /\ pc[p] # "idle" /\ faults' \in 0..MaxFaults
    BY <1>19, FaultType DEF Crash, HoldsMsg
  <2>2. CASE p \in Workers /\ queue' = <<msg[p]>> \o queue /\ Forget(p)
    <3>1. queue' \in Seq(Msg)
      BY <2>1, <2>2 DEF TypeOK
    <3> QED BY <1>16, <1>19, <2>1, <2>2, <3>1 DEF Crash, TypeOK
  <2>3. CASE p \in Requests /\ Goto(p, "failed") /\ UNCHANGED <<queue, task>>
    <3>1. pc' \in [Procs -> PCs] /\ HoldsMsg'
      BY <1>0, <2>1, <2>3, GotoType
    <3> QED BY <1>19, <2>1, <2>3, <3>1 DEF Crash, TypeOK
  <2> QED BY <1>19, <2>2, <2>3 DEF Crash
<1>20. ASSUME NEW v \in Videos, DeleteVideo(v) \/ LoadEntity(v) PROVE TypeInv'
  BY <1>20 DEF DeleteVideo, LoadEntity, TypeOK, HoldsMsg
<1>21. CASE UNCHANGED vars
  BY <1>21 DEF vars, TypeOK, HoldsMsg
<1> QED
  BY <1>1, <1>2, <1>3, <1>4, <1>5, <1>6, <1>7, <1>8, <1>9, <1>10, <1>12, <1>13, <1>14, <1>15,
     <1>17, <1>18, <1>19, <1>20, <1>21 DEF Next, CommentService, Transaction

\* Every variable stays in its range, for any number of processes.
THEOREM TypeCorrect == Spec => []TypeOK
<1>1. Spec => []TypeInv
  BY TypeInvInit, TypeInvStep, PTL DEF Spec
<1> QED BY <1>1, PTL DEF TypeInv

----------------------------------------------------------------------------
(***************************************************************************)
(* What the messages and rows say of each other.  A message is the one its *)
(* request holds for ever; a deletion addresses the video of its row.      *)
(***************************************************************************)

IdleHoldsNothing == \A p \in Procs : pc[p] = "idle" => msg[p] = NoMsg
Sent ==
  /\ \A p \in Procs : pc[p] # "idle" => msg[msg[p].e] = msg[p]
  /\ \A i \in DOMAIN queue : msg[queue[i].e] = queue[i]
OwnMsg == \A r \in Requests : pc[r] # "idle" => msg[r].e = r
RowsNumbered ==
  /\ IsFiniteSet(rows)
  /\ \A c \in rows : c.id < nextId
  /\ \A c, d \in rows : c.id = d.id => c = d
RowsSent ==
  \A c \in rows : pc[c.e] # "idle" /\ msg[c.e].op = "publish" /\ msg[c.e].v = c.v
Addressed ==
  \A r \in Requests : pc[r] # "idle" /\ msg[r].op = "delete" =>
    msg[r].id < nextId /\ \A c \in rows : c.id = msg[r].id => c.v = msg[r].v
Book == TypeInv /\ IdleHoldsNothing /\ OwnMsg /\ Sent /\ RowsNumbered /\ RowsSent /\ Addressed

LEMMA NoMsgIsNone == NoMsg \notin Msg
  BY CommentAssumption DEF Msg

\* A message at work is its request's, and that request is not idle.
LEMMA SenderBusy ==
  ASSUME TypeInv, IdleHoldsNothing, NEW k \in Msg, msg[k.e] = k
  PROVE  k.e \in Requests /\ k.e \in Procs /\ pc[k.e] # "idle"
<1>1. k.e \in Requests /\ k.e \in Procs
  BY MsgFields DEF Procs
<1> QED BY <1>1, NoMsgIsNone DEF IdleHoldsNothing

LEMMA RequestKeepsMsg ==
  ASSUME TypeInv, [Next]_vars, NEW r \in Requests, pc[r] # "idle"
  PROVE  msg'[r] = msg[r] /\ pc'[r] # "idle"
<1> USE DEF TypeInv, TypeOK, Goto, task
<1>0. r \in Procs /\ r \notin Workers
  BY CommentAssumption DEF Procs
<1> DEFINE Goal == msg'[r] = msg[r] /\ pc'[r] # "idle"
<1>1. ASSUME NEW q \in Requests, CommentService(q) PROVE Goal
  BY <1>0, <1>1 DEF CommentService, BeginPublish, BeginDelete, SendOk, SendLost, SendErr
<1>2. ASSUME NEW p \in Procs, Transaction(p) PROVE Goal
  <2>1. CASE TxRead(p) \/ CreateSeen(p) \/ Create(p) \/ Delete(p)
    BY <1>0, <2>1 DEF TxRead, CreateSeen, Create, Delete
  <2>2. CASE DeleteUnseen(p) \/ Invalidate(p) \/ InvalidateFails(p)
    BY <1>0, <2>2 DEF DeleteUnseen, Invalidate, InvalidateFails, Finish
  <2>3. CASE TxAbort(p) \/ TxError(p)
    BY <1>0, <2>3 DEF TxAbort, TxError, Rollback
  <2> QED BY <1>2, <2>1, <2>2, <2>3 DEF Transaction
<1>3. ASSUME NEW p \in Procs, Crash(p) PROVE Goal
  BY <1>0, <1>3 DEF Crash, Forget
<1>4. ASSUME NEW w \in Workers, Receive(w) \/ Ack(w) PROVE Goal
  BY <1>0, <1>4 DEF Receive, Ack, Forget
<1>5. ASSUME NEW v \in Videos, DeleteVideo(v) \/ LoadEntity(v) PROVE Goal
  BY <1>5 DEF DeleteVideo, LoadEntity
<1>6. CASE UNCHANGED vars
  BY <1>6 DEF vars
<1> QED BY <1>1, <1>2, <1>3, <1>4, <1>5, <1>6 DEF Next

\* What a process comes to hold is its own, was begun by it, or was in the queue.
LEMMA HeldFrom ==
  ASSUME TypeInv, [Next]_vars, NEW p \in Procs, pc'[p] # "idle"
  PROVE  \/ pc[p] # "idle" /\ msg'[p] = msg[p]
         \/ p \in Requests /\ pc[p] = "idle" /\ (BeginPublish(p) \/ BeginDelete(p))
         \/ p \in Workers /\ \E i \in DOMAIN queue : msg'[p] = queue[i]
<1> USE DEF TypeInv, TypeOK, Goto, task
<1> DEFINE Goal == \/ pc[p] # "idle" /\ msg'[p] = msg[p]
                   \/ p \in Requests /\ pc[p] = "idle" /\ (BeginPublish(p) \/ BeginDelete(p))
                   \/ p \in Workers /\ \E i \in DOMAIN queue : msg'[p] = queue[i]
<1>1. ASSUME NEW q \in Requests, CommentService(q) PROVE Goal
  BY <1>1 DEF CommentService, BeginPublish, BeginDelete, SendOk, SendLost, SendErr
<1>2. ASSUME NEW q \in Procs, Transaction(q) PROVE Goal
  <2>1. CASE TxRead(q) \/ CreateSeen(q) \/ Create(q) \/ Delete(q)
    BY <2>1 DEF TxRead, CreateSeen, Create, Delete
  <2>2. CASE DeleteUnseen(q) \/ Invalidate(q) \/ InvalidateFails(q)
    BY <2>2 DEF DeleteUnseen, Invalidate, InvalidateFails, Finish
  <2>3. CASE TxAbort(q) \/ TxError(q)
    BY <2>3 DEF TxAbort, TxError, Rollback
  <2> QED BY <1>2, <2>1, <2>2, <2>3 DEF Transaction
<1>3. ASSUME NEW q \in Procs, Crash(q) PROVE Goal
  BY <1>3 DEF Crash, Forget
<1>4. ASSUME NEW w \in Workers, Receive(w) PROVE Goal
  <2>1. 1 \in DOMAIN queue /\ Head(queue) = queue[1]
    BY <1>4 DEF Receive
  <2> QED BY <1>4, <2>1 DEF Receive
<1>40. ASSUME NEW w \in Workers, Ack(w) PROVE Goal
  BY <1>40 DEF Ack, Forget
<1>5. ASSUME NEW v \in Videos, DeleteVideo(v) \/ LoadEntity(v) PROVE Goal
  BY <1>5 DEF DeleteVideo, LoadEntity
<1>6. CASE UNCHANGED vars
  BY <1>6 DEF vars
<1> QED BY <1>1, <1>2, <1>3, <1>4, <1>40, <1>5, <1>6 DEF Next

\* What is in the queue was there before, or a process at work held it.
LEMMA QueuedFrom ==
  ASSUME TypeInv, [Next]_vars, NEW i \in DOMAIN queue'
  PROVE  \/ \E j \in DOMAIN queue : queue'[i] = queue[j]
         \/ \E p \in Procs : pc[p] # "idle" /\ queue'[i] = msg[p]
<1> USE DEF TypeInv, TypeOK
<1> DEFINE Goal == \/ \E j \in DOMAIN queue : queue'[i] = queue[j]
                   \/ \E p \in Procs : pc[p] # "idle" /\ queue'[i] = msg[p]
<1>0. Requests \subseteq Procs /\ Workers \subseteq Procs
  BY DEF Procs
<1>1. ASSUME NEW k \in Msg, queue' = Append(queue, k)
      PROVE  queue'[i] = k \/ \E j \in DOMAIN queue : queue'[i] = queue[j]
  BY <1>1
<1>2. ASSUME NEW q \in Requests, SendOk(q) \/ SendErr(q) PROVE Goal
  <2>1. msg[q] \in Msg /\ pc[q] # "idle" /\ q \in Procs
    BY <1>0, <1>2 DEF SendOk, SendErr, HoldsMsg
  <2>2. queue' = queue \/ queue' = Append(queue, msg[q])
    BY <1>2 DEF SendOk, SendErr
  <2> QED BY <1>1, <2>1, <2>2
<1>3. ASSUME NEW w \in Workers, Receive(w) PROVE Goal
  <2>1. queue # <<>> /\ queue' = Tail(queue)
    BY <1>3 DEF Receive
  <2>2. i + 1 \in DOMAIN queue /\ queue'[i] = queue[i + 1]
    BY <2>1
  <2> QED BY <2>2
<1>4. ASSUME NEW q \in Procs, Crash(q) PROVE Goal
  <2>1. msg[q] \in Msg /\ pc[q] # "idle"
    BY <1>4 DEF Crash, HoldsMsg
  <2>2. CASE queue' = queue
    BY <2>2
  <2>3. CASE queue' = <<msg[q]>> \o queue
    <3>0. Len(queue') = 1 + Len(queue) /\ i \in 1..Len(queue')
      BY <2>1, <2>3
    <3>1. queue'[i] = msg[q] \/ (i - 1 \in DOMAIN queue /\ queue'[i] = queue[i - 1])
      BY <2>1, <2>3, <3>0
    <3>2. CASE i - 1 \in DOMAIN queue /\ queue'[i] = queue[i - 1]
      <4>1. \E j \in DOMAIN queue : queue'[i] = queue[j]
        BY <3>2
      <4> QED BY <4>1
    <3> QED BY <2>1, <3>1, <3>2
  <2> QED BY <1>4, <2>2, <2>3 DEF Crash
<1>5. CASE queue' = queue
  BY <1>5
<1>6. \/ queue' = queue
      \/ \E q \in Requests : SendOk(q) \/ SendErr(q)
      \/ \E w \in Workers : Receive(w)
      \/ \E q \in Procs : Crash(q)
  BY DEF Next, vars, tables, CommentService, Transaction, BeginPublish, BeginDelete, SendLost, TxRead, CreateSeen,
         Create, DeleteUnseen, Delete, TxAbort, TxError, Rollback, Invalidate, InvalidateFails, Ack,
         DeleteVideo, LoadEntity
<1> QED BY <1>2, <1>3, <1>4, <1>5, <1>6

\* Only these touch the tables.
LEMMA TablesTouched ==
  ASSUME [Next]_vars
  PROVE  \/ UNCHANGED <<tables, erased, raced>>
         \/ \E p \in Procs : Create(p) \/ Delete(p)
         \/ \E v \in Videos : DeleteVideo(v)
  BY DEF Next, vars, tables, observers, CommentService, Transaction, BeginPublish, BeginDelete, SendOk, SendLost,
         SendErr, TxRead, CreateSeen, DeleteUnseen, TxAbort, TxError, Rollback, Invalidate,
         InvalidateFails, Crash, Receive, Ack, LoadEntity

LEMMA IdleStep == TypeInv /\ IdleHoldsNothing /\ [Next]_vars => IdleHoldsNothing'
<1> SUFFICES ASSUME TypeInv, IdleHoldsNothing, [Next]_vars, NEW p \in Procs, pc'[p] = "idle"
             PROVE  msg'[p] = NoMsg
  BY DEF IdleHoldsNothing
<1> USE DEF TypeInv, TypeOK, Goto, task, IdleHoldsNothing
<1>1. ASSUME NEW q \in Requests, CommentService(q) PROVE msg'[p] = NoMsg
  BY <1>1 DEF CommentService, BeginPublish, BeginDelete, SendOk, SendLost, SendErr
<1>2. ASSUME NEW q \in Procs, Transaction(q) PROVE msg'[p] = NoMsg
  <2>1. CASE TxRead(q) \/ CreateSeen(q) \/ Create(q) \/ Delete(q)
    BY <2>1 DEF TxRead, CreateSeen, Create, Delete
  <2>2. CASE DeleteUnseen(q) \/ Invalidate(q) \/ InvalidateFails(q)
    BY <2>2 DEF DeleteUnseen, Invalidate, InvalidateFails, Finish
  <2>3. CASE TxAbort(q) \/ TxError(q)
    BY <2>3 DEF TxAbort, TxError, Rollback
  <2> QED BY <1>2, <2>1, <2>2, <2>3 DEF Transaction
<1>3. ASSUME NEW q \in Procs, Crash(q) PROVE msg'[p] = NoMsg
  BY <1>3 DEF Crash, Forget
<1>4. ASSUME NEW w \in Workers, Receive(w) \/ Ack(w) PROVE msg'[p] = NoMsg
  BY <1>4 DEF Receive, Ack, Forget
<1>5. ASSUME NEW v \in Videos, DeleteVideo(v) \/ LoadEntity(v) PROVE msg'[p] = NoMsg
  BY <1>5 DEF DeleteVideo, LoadEntity
<1>6. CASE UNCHANGED vars
  BY <1>6 DEF vars
<1> QED BY <1>1, <1>2, <1>3, <1>4, <1>5, <1>6 DEF Next

\* A message at work stays the one of its request.
LEMMA SentStays ==
  ASSUME TypeInv, IdleHoldsNothing, [Next]_vars, NEW k \in Msg, msg[k.e] = k
  PROVE  msg'[k.e] = k /\ pc'[k.e] # "idle"
  BY SenderBusy, RequestKeepsMsg

LEMMA SentStep == TypeInv /\ IdleHoldsNothing /\ Sent /\ [Next]_vars => Sent'
<1> SUFFICES ASSUME TypeInv, IdleHoldsNothing, Sent, [Next]_vars PROVE Sent'
  OBVIOUS
<1>1. ASSUME NEW i \in DOMAIN queue PROVE queue[i] \in Msg /\ msg[queue[i].e] = queue[i]
  BY DEF Sent, TypeInv, TypeOK
<1>2. ASSUME NEW p \in Procs, pc[p] # "idle" PROVE msg[p] \in Msg /\ msg[msg[p].e] = msg[p]
  BY <1>2 DEF Sent, TypeInv, HoldsMsg
<1>3. ASSUME NEW p \in Procs, pc'[p] # "idle" PROVE msg'[msg'[p].e] = msg'[p]
  <2>1. CASE pc[p] # "idle" /\ msg'[p] = msg[p]
    BY <1>2, <2>1, SentStays
  <2>2. CASE p \in Requests /\ BeginPublish(p)
    BY <2>2 DEF BeginPublish, TypeInv, TypeOK
  <2>3. CASE p \in Requests /\ BeginDelete(p)
    BY <2>3 DEF BeginDelete, TypeInv, TypeOK
  <2>4. CASE \E i \in DOMAIN queue : msg'[p] = queue[i]
    BY <1>1, <2>4, SentStays
  <2> QED BY <1>3, <2>1, <2>2, <2>3, <2>4, HeldFrom
<1>4. ASSUME NEW i \in DOMAIN queue' PROVE msg'[queue'[i].e] = queue'[i]
  <2>1. CASE \E j \in DOMAIN queue : queue'[i] = queue[j]
    BY <1>1, <2>1, SentStays
  <2>2. CASE \E p \in Procs : pc[p] # "idle" /\ queue'[i] = msg[p]
    BY <1>2, <2>2, SentStays
  <2> QED BY <1>4, <2>1, <2>2, QueuedFrom
<1> QED BY <1>3, <1>4 DEF Sent

LEMMA OwnMsgStep == TypeInv /\ OwnMsg /\ [Next]_vars => OwnMsg'
<1> SUFFICES ASSUME TypeInv, OwnMsg, [Next]_vars, NEW r \in Requests, pc'[r] # "idle"
             PROVE  msg'[r].e = r
  BY DEF OwnMsg
<1>1. r \in Procs /\ r \notin Workers
  BY CommentAssumption DEF Procs
<1>2. CASE pc[r] # "idle" /\ msg'[r] = msg[r]
  BY <1>2 DEF OwnMsg
<1>3. CASE BeginPublish(r) \/ BeginDelete(r)
  BY <1>1, <1>3 DEF BeginPublish, BeginDelete, TypeInv, TypeOK
<1> QED BY <1>1, <1>2, <1>3, HeldFrom

LEMMA RowsNumberedStep == Book /\ [Next]_vars => RowsNumbered'
<1> SUFFICES ASSUME Book, [Next]_vars PROVE RowsNumbered'
  OBVIOUS
<1> USE DEF Book, tables
<1>0. nextId \in Nat /\ \A c \in rows : c.id \in Nat
  BY DEF TypeInv, TypeOK, Row
<1>1. CASE UNCHANGED <<tables, erased, raced>>
  BY <1>1 DEF RowsNumbered
<1>2. ASSUME NEW p \in Procs, Create(p) PROVE RowsNumbered'
  <2> DEFINE new == [id |-> nextId, e |-> msg[p].e, v |-> msg[p].v]
  <2>1. rows' = rows \cup {new} /\ nextId' = nextId + 1 /\ new.id = nextId
    BY <1>2 DEF Create
  <2>2. IsFiniteSet(rows')
    BY <2>1, FS_AddElement DEF RowsNumbered
  <2> HIDE DEF new
  <2> QED BY <1>0, <2>1, <2>2 DEF RowsNumbered
<1>3. ASSUME rows' \subseteq rows, nextId' = nextId PROVE RowsNumbered'
  BY <1>3, FS_Subset DEF RowsNumbered
<1>4. ASSUME NEW p \in Procs, Delete(p) PROVE RowsNumbered'
  BY <1>3, <1>4 DEF Delete
<1>5. ASSUME NEW v \in Videos, DeleteVideo(v) PROVE RowsNumbered'
  BY <1>3, <1>5 DEF DeleteVideo
<1> QED BY <1>1, <1>2, <1>4, <1>5, TablesTouched

LEMMA RowsSentStep == Book /\ [Next]_vars => RowsSent'
<1> SUFFICES ASSUME Book, [Next]_vars, NEW c \in rows'
             PROVE  pc'[c.e] # "idle" /\ msg'[c.e].op = "publish" /\ msg'[c.e].v = c.v
  BY DEF RowsSent
<1> USE DEF Book, tables
<1>1. CASE c \in rows
  <2>1. c.e \in Requests
    BY <1>1 DEF TypeInv, TypeOK, Row
  <2> QED BY <1>1, <2>1, RequestKeepsMsg DEF RowsSent
<1>2. CASE c \notin rows
  <2>1. PICK p \in Procs : Create(p)
    BY <1>2, TablesTouched DEF Delete, DeleteVideo
  <2> DEFINE k == msg[p]
  <2>2. c.e = k.e /\ c.v = k.v /\ k.op = "publish"
    BY <1>2, <2>1 DEF Create
  <2>3. k \in Msg /\ msg[k.e] = k
    BY <2>1 DEF Create, Sent, TypeInv, HoldsMsg
  <2> QED BY <2>2, <2>3, SentStays
<1> QED BY <1>1, <1>2

LEMMA AddressedStep == Book /\ [Next]_vars => Addressed'
<1> SUFFICES ASSUME Book, [Next]_vars, NEW r \in Requests, pc'[r] # "idle", msg'[r].op = "delete"
             PROVE  msg'[r].id < nextId' /\ \A c \in rows' : c.id = msg'[r].id => c.v = msg'[r].v
  BY DEF Addressed
<1> USE DEF Book, tables
<1>0. r \in Procs /\ r \notin Workers /\ nextId \in Nat
  BY CommentAssumption DEF Procs, TypeInv, TypeOK
<1>1. msg'[r].id \in Nat /\ msg'[r].id < nextId /\ \A c \in rows : c.id = msg'[r].id => c.v = msg'[r].v
  <2>1. CASE pc[r] # "idle" /\ msg'[r] = msg[r]
    <3>1. msg[r].id \in Nat
      BY <1>0, <2>1, MsgFields DEF TypeInv, HoldsMsg
    <3> QED BY <2>1, <3>1 DEF Addressed
  <2>2. CASE BeginPublish(r)
    BY <1>0, <2>2 DEF BeginPublish, TypeInv, TypeOK
  <2>3. CASE BeginDelete(r)
    <3>1. PICK d \in rows : msg' = [msg EXCEPT ![r] = [op |-> "delete", e |-> r, v |-> d.v, id |-> d.id]]
      BY <2>3 DEF BeginDelete
    <3>2. msg'[r].id = d.id /\ msg'[r].v = d.v
      BY <1>0, <3>1 DEF TypeInv, TypeOK
    <3>3. d.id \in Nat /\ d.id < nextId
      BY DEF RowsNumbered, TypeInv, TypeOK, Row
    <3> QED BY <3>2, <3>3 DEF RowsNumbered
  <2> QED BY <1>0, <2>1, <2>2, <2>3, HeldFrom
<1>2. ASSUME rows' \subseteq rows, nextId' = nextId
      PROVE  msg'[r].id < nextId' /\ \A c \in rows' : c.id = msg'[r].id => c.v = msg'[r].v
  BY <1>1, <1>2
<1>3. ASSUME NEW p \in Procs, Create(p)
      PROVE  msg'[r].id < nextId' /\ \A c \in rows' : c.id = msg'[r].id => c.v = msg'[r].v
  <2>1. nextId' = nextId + 1 /\ \A c \in rows' : c \in rows \/ c.id = nextId
    BY <1>3 DEF Create
  <2> QED BY <1>0, <1>1, <2>1
<1> QED BY <1>2, <1>3, TablesTouched DEF Delete, DeleteVideo

LEMMA BookInit == Init => Book
<1> SUFFICES ASSUME Init PROVE Book
  OBVIOUS
<1>1. TypeInv /\ IsFiniteSet({})
  BY TypeInvInit, FS_EmptySet
<1> QED BY <1>1 DEF Init, Book, IdleHoldsNothing, OwnMsg, Sent, RowsNumbered, RowsSent, Addressed, Procs

LEMMA BookStep == Book /\ [Next]_vars => Book'
  BY TypeInvStep, IdleStep, OwnMsgStep, SentStep, RowsNumberedStep, RowsSentStep, AddressedStep DEF Book

----------------------------------------------------------------------------
(***************************************************************************)
(* The counter and the rows.                                               *)
(***************************************************************************)

\* A deletion at work is about the video of the row it addresses.
LEMMA GoneAreOfVideo ==
  ASSUME Book, NEW p \in Procs, pc[p] # "idle", msg[p].op = "delete",
         NEW c \in rows, c.id = msg[p].id
  PROVE  c.v = msg[p].v
<1>1. msg[p] \in Msg /\ msg[msg[p].e] = msg[p]
  BY DEF Book, Sent, TypeInv, HoldsMsg
<1>2. msg[p].e \in Requests /\ pc[msg[p].e] # "idle"
  BY <1>1, SenderBusy DEF Book
<1> QED BY <1>1, <1>2 DEF Book, Addressed

LEMMA CountStep == Book /\ CountExactUnlessRaced /\ [Next]_vars => CountExactUnlessRaced'
<1> SUFFICES ASSUME Book, CountExactUnlessRaced, [Next]_vars PROVE CountExactUnlessRaced'
  OBVIOUS
<1> USE DEF tables
<1> DEFINE Of(v) == {c \in rows : c.v = v}
<1>0. ASSUME NEW v \in videos \ raced
      PROVE  v \in Videos /\ IsFiniteSet(Of(v)) /\ count[v] = Cardinality(Of(v)) /\ count[v] \in Nat
  <2>1. IsFiniteSet(Of(v))
    BY FS_Subset DEF Book, RowsNumbered
  <2> QED BY <2>1 DEF CountExactUnlessRaced, Book, TypeInv, TypeOK
<1>1. CASE UNCHANGED <<tables, erased, raced>>
  BY <1>1 DEF CountExactUnlessRaced
<1>2. ASSUME NEW p \in Procs, Create(p) PROVE CountExactUnlessRaced'
  <2> SUFFICES ASSUME NEW v \in videos \ raced
               PROVE  count'[v] = Cardinality({c \in rows' : c.v = v})
    BY <1>2 DEF Create, CountExactUnlessRaced, observers
  <2> DEFINE new == [id |-> nextId, e |-> msg[p].e, v |-> msg[p].v]
  <2>1. rows' = rows \cup {new} /\ new.v = msg[p].v /\ new.id = nextId
    BY <1>2 DEF Create
  <2>2. msg[p].v \in Videos /\ count' = [count EXCEPT ![msg[p].v] = IF msg[p].v \in videos THEN @ + 1 ELSE @]
    BY <1>2, MsgFields DEF Create, Book, TypeInv, HoldsMsg
  <2>3. new \notin rows
    BY <2>1 DEF Book, RowsNumbered, TypeInv, TypeOK, Row
  <2> HIDE DEF new
  <2>4. CASE v = msg[p].v
    <3>1. {c \in rows' : c.v = v} = Of(v) \cup {new} /\ new \notin Of(v)
      BY <2>1, <2>3, <2>4
    <3>2. Cardinality(Of(v) \cup {new}) = Cardinality(Of(v)) + 1
      BY <1>0, <3>1, FS_AddElement
    <3>3. count'[v] = count[v] + 1
      BY <1>0, <2>2, <2>4 DEF Book, TypeInv, TypeOK
    <3> QED BY <1>0, <3>1, <3>2, <3>3
  <2>5. CASE v # msg[p].v
    <3>1. {c \in rows' : c.v = v} = Of(v)
      BY <2>1, <2>5
    <3>2. count'[v] = count[v]
      BY <1>0, <2>2, <2>5 DEF Book, TypeInv, TypeOK
    <3> QED BY <1>0, <3>1, <3>2
  <2> QED BY <2>4, <2>5
<1>3. ASSUME NEW p \in Procs, Delete(p) PROVE CountExactUnlessRaced'
  <2> DEFINE k == msg[p]
             gone == {c \in rows : c.id = k.id}
  <2> SUFFICES ASSUME NEW v \in videos \ raced'
               PROVE  count'[v] = Cardinality({c \in rows' : c.v = v})
    BY <1>3 DEF Delete, CountExactUnlessRaced
  <2>1. v \in videos \ raced
    BY <1>3 DEF Delete
  <2>2. k.v \in Videos /\ rows' = rows \ gone
        /\ count' = [count EXCEPT ![k.v] = IF k.v \in videos THEN Decrement(@) ELSE @]
    BY <1>3, MsgFields DEF Delete, Book, TypeInv, HoldsMsg
  <2>3. \A c \in gone : c.v = k.v
    BY <1>3, GoneAreOfVideo DEF Delete
  <2>4. CASE v = k.v
    <3>1. PICK d \in rows : d.id = k.id
      BY <1>3, <2>1, <2>4 DEF Delete
    <3>2. gone = {d}
      BY <3>1 DEF Book, RowsNumbered
    <3>3. {c \in rows' : c.v = v} = Of(v) \ {d} /\ d \in Of(v)
      BY <2>2, <2>3, <2>4, <3>2
    <3>4. Cardinality(Of(v) \ {d}) = Cardinality(Of(v)) - 1
      BY <1>0, <2>1, <3>3, FS_RemoveElement
    <3>5. Cardinality(Of(v)) # 0
      BY <1>0, <2>1, <3>3, FS_EmptySet
    <3>6. count'[v] = Decrement(count[v])
      BY <1>0, <2>1, <2>2, <2>4 DEF Book, TypeInv, TypeOK
    <3>7. count[v] \in Nat /\ count[v] = Cardinality(Of(v))
      BY <1>0, <2>1
    <3>8. Decrement(count[v]) = count[v] - 1
      BY <3>5, <3>7 DEF Decrement
    <3> QED BY <3>3, <3>4, <3>6, <3>7, <3>8
  <2>5. CASE v # k.v
    <3>1. {c \in rows' : c.v = v} = Of(v)
      BY <2>2, <2>3, <2>5
    <3>2. count'[v] = count[v]
      BY <1>0, <2>1, <2>2, <2>5 DEF Book, TypeInv, TypeOK
    <3> QED BY <1>0, <2>1, <3>1, <3>2
  <2> QED BY <2>4, <2>5
<1>4. ASSUME NEW u \in Videos, DeleteVideo(u) PROVE CountExactUnlessRaced'
  <2> SUFFICES ASSUME NEW v \in videos' \ raced'
               PROVE  count'[v] = Cardinality({c \in rows' : c.v = v})
    BY DEF CountExactUnlessRaced
  <2>1. v \in videos \ raced /\ v # u /\ count' = count
    BY <1>4 DEF DeleteVideo, observers
  <2>2. {c \in rows' : c.v = v} = Of(v)
    BY <1>4, <2>1 DEF DeleteVideo
  <2> QED BY <1>0, <2>1, <2>2
<1> QED BY <1>1, <1>2, <1>3, <1>4, TablesTouched

\* For any number of videos, requests and workers, comment_count is the number of
\* a video's comments, until a deletion decrements for a row that was gone.
THEOREM CountsFollowRows == Spec => []CountExactUnlessRaced
<1>1. Init => CountExactUnlessRaced
  <2> SUFFICES ASSUME Init, NEW v \in Videos PROVE count[v] = Cardinality({c \in rows : c.v = v})
    BY DEF Init, CountExactUnlessRaced
  <2>1. {c \in rows : c.v = v} = {} /\ Cardinality({}) = 0
    BY FS_EmptySet DEF Init
  <2> QED BY <2>1 DEF Init
<1>2. Spec => [](Book /\ CountExactUnlessRaced)
  BY <1>1, BookInit, BookStep, CountStep, PTL DEF Spec
<1> QED BY <1>2, PTL

----------------------------------------------------------------------------
(***************************************************************************)
(* The races: a deletion that is about to write has a row to delete, or a  *)
(* request deletes comments of that video by itself.                       *)
(***************************************************************************)

SeenCurrent ==
  \A p \in Procs : pc[p] = "txWrite" /\ seen[p] /\ msg[p].op = "delete" /\ msg[p].v \in videos =>
    (\E c \in rows : c.id = msg[p].id) \/ DirectDelete(msg[p].v)
RaceInv == Book /\ SeenCurrent /\ RacedOnlyByFallback

DirectPCs == {"txRead", "txWrite", "inval", "written", "failed"}

LEMMA DirectRequest ==
  ASSUME TypeInv, [Next]_vars, NEW r \in Requests, pc[r] \in DirectPCs
  PROVE  pc'[r] \in DirectPCs
<1> USE DEF TypeInv, TypeOK, Goto, DirectPCs, task
<1>0. r \in Procs /\ r \notin Workers
  BY CommentAssumption DEF Procs
<1>1. ASSUME NEW q \in Requests, CommentService(q) PROVE pc'[r] \in DirectPCs
  <2>1. pc[q] \in {"idle", "send"} /\ \E label : pc' = [pc EXCEPT ![q] = label]
    BY <1>1 DEF CommentService, BeginPublish, BeginDelete, SendOk, SendLost, SendErr
  <2>2. q # r
    BY <2>1
  <2> QED BY <2>1, <2>2
<1>2. ASSUME NEW p \in Procs, Transaction(p) PROVE pc'[r] \in DirectPCs
  <2>1. CASE TxRead(p) \/ CreateSeen(p) \/ Create(p) \/ Delete(p)
    <3>1. pc' = [pc EXCEPT ![p] = "txWrite"] \/ pc' = [pc EXCEPT ![p] = "inval"]
      BY <2>1 DEF TxRead, CreateSeen, Create, Delete
    <3>2. CASE p = r
      BY <1>0, <3>1, <3>2
    <3>3. CASE p # r
      BY <1>0, <3>1, <3>3
    <3> QED BY <3>2, <3>3
  <2>2. CASE DeleteUnseen(p) \/ Invalidate(p) \/ InvalidateFails(p)
    BY <1>0, <2>2 DEF DeleteUnseen, Invalidate, InvalidateFails, Finish
  <2>3. CASE TxAbort(p) \/ TxError(p)
    BY <1>0, <2>3 DEF TxAbort, TxError, Rollback
  <2> QED BY <1>2, <2>1, <2>2, <2>3 DEF Transaction
<1>3. ASSUME NEW p \in Procs, Crash(p) PROVE pc'[r] \in DirectPCs
  BY <1>0, <1>3 DEF Crash, Forget
<1>4. ASSUME NEW w \in Workers, Receive(w) \/ Ack(w) PROVE pc'[r] \in DirectPCs
  BY <1>0, <1>4 DEF Receive, Ack, Forget
<1>5. ASSUME NEW v \in Videos, DeleteVideo(v) \/ LoadEntity(v) PROVE pc'[r] \in DirectPCs
  BY <1>5 DEF DeleteVideo, LoadEntity
<1>6. CASE UNCHANGED vars
  BY <1>6 DEF vars
<1> QED BY <1>1, <1>2, <1>3, <1>4, <1>5, <1>6 DEF Next

LEMMA DirectDeleteStays ==
  ASSUME TypeInv, [Next]_vars, NEW v, DirectDelete(v)
  PROVE  DirectDelete(v)'
<1>1. PICK r \in Requests : msg[r] # NoMsg /\ msg[r].op = "delete" /\ msg[r].v = v /\ pc[r] \in DirectPCs
  BY DEF DirectDelete, Direct, DirectPCs
<1>2. pc'[r] \in DirectPCs /\ msg'[r] = msg[r]
  BY <1>1, DirectRequest, RequestKeepsMsg DEF DirectPCs
<1> QED BY <1>1, <1>2 DEF DirectDelete, Direct, DirectPCs

\* A request that deletes by itself.
LEMMA DirectDeleteBy ==
  ASSUME TypeInv, NEW r \in Requests, pc[r] \in DirectPCs, msg[r].op = "delete"
  PROVE  DirectDelete(msg[r].v)
<1>1. r \in Procs /\ msg[r] \in Msg
  BY DEF Procs, TypeInv, HoldsMsg, DirectPCs
<1> QED BY <1>1, NoMsgIsNone DEF DirectDelete, Direct, DirectPCs

LEMMA AboutToWrite ==
  ASSUME TypeInv, [Next]_vars, NEW p \in Procs, pc'[p] = "txWrite"
  PROVE  \/ TxRead(p)
         \/ pc[p] = "txWrite" /\ msg'[p] = msg[p] /\ seen'[p] = seen[p] /\ ~Create(p) /\ ~Delete(p)
<1> USE DEF TypeInv, TypeOK, Goto, task
<1> DEFINE Goal == \/ TxRead(p)
                   \/ pc[p] = "txWrite" /\ msg'[p] = msg[p] /\ seen'[p] = seen[p]
<1>1. ASSUME NEW q \in Requests, CommentService(q) PROVE Goal
  BY <1>1 DEF CommentService, BeginPublish, BeginDelete, SendOk, SendLost, SendErr
<1>2. ASSUME NEW q \in Procs, Transaction(q) PROVE Goal
  <2>1. CASE TxRead(q) \/ CreateSeen(q) \/ Create(q) \/ Delete(q)
    BY <2>1 DEF TxRead, CreateSeen, Create, Delete
  <2>2. CASE DeleteUnseen(q) \/ Invalidate(q) \/ InvalidateFails(q)
    BY <2>2 DEF DeleteUnseen, Invalidate, InvalidateFails, Finish
  <2>3. CASE TxAbort(q) \/ TxError(q)
    BY <2>3 DEF TxAbort, TxError, Rollback
  <2> QED BY <1>2, <2>1, <2>2, <2>3 DEF Transaction
<1>3. ASSUME NEW q \in Procs, Crash(q) PROVE Goal
  BY <1>3 DEF Crash, Forget
<1>4. ASSUME NEW w \in Workers, Receive(w) \/ Ack(w) PROVE Goal
  BY <1>4 DEF Receive, Ack, Forget
<1>5. ASSUME NEW v \in Videos, DeleteVideo(v) \/ LoadEntity(v) PROVE Goal
  BY <1>5 DEF DeleteVideo, LoadEntity
<1>6. ~Create(p) /\ ~Delete(p)
  BY DEF Create, Delete
<1>7. CASE UNCHANGED vars
  <2>1. pc' = pc /\ msg' = msg /\ seen' = seen
    BY <1>7 DEF vars
  <2>2. pc[p] = "txWrite" /\ msg'[p] = msg[p]
    BY <2>1
  <2>3. seen'[p] = seen[p]
    BY <2>1
  <2> QED BY <1>6, <2>2, <2>3
<1> QED BY <1>1, <1>2, <1>3, <1>4, <1>5, <1>6, <1>7 DEF Next

LEMMA SeenCurrentStep ==
  ASSUME \A w1, w2 \in Workers : w1 = w2, RaceInv, [Next]_vars
  PROVE  SeenCurrent'
<1> SUFFICES ASSUME NEW p \in Procs, pc'[p] = "txWrite", seen'[p], msg'[p].op = "delete", msg'[p].v \in videos'
             PROVE  (\E c \in rows' : c.id = msg'[p].id) \/ DirectDelete(msg[p].v)'
  BY DEF SeenCurrent
<1> USE DEF tables
<1>0. Book /\ TypeInv /\ Book'
  BY BookStep DEF RaceInv, Book
<1>1. CASE TxRead(p)
  <2>1. seen'[p] = Exists(msg[p]) /\ msg' = msg /\ rows' = rows
    BY <1>0, <1>1 DEF TxRead, TypeInv, TypeOK
  <2>2. \E c \in rows : c.id = msg[p].id
    BY <2>1 DEF Exists
  <2> QED BY <2>1, <2>2
<1>2. CASE p \in Requests
  <2>1. pc[p] \in {"txRead", "txWrite"} /\ msg'[p] = msg[p]
    BY <1>0, AboutToWrite DEF TxRead
  <2>2. PICK v \in Videos : v = msg[p].v
    BY <1>0, <2>1, MsgFields DEF TypeInv, HoldsMsg
  <2>3. DirectDelete(v)
    BY <1>0, <1>2, <2>1, <2>2, DirectDeleteBy DEF DirectPCs
  <2>4. DirectDelete(v)'
    BY <1>0, <2>3, DirectDeleteStays
  <2> QED BY <2>1, <2>2, <2>4 DEF DirectDelete
<1>3. CASE p \in Workers /\ ~TxRead(p)
  <2>1. pc[p] = "txWrite" /\ msg'[p] = msg[p] /\ seen[p] /\ ~Delete(p)
    BY <1>0, <1>3, AboutToWrite
  <2>2. PICK v \in videos : v = msg[p].v
    BY <2>1, TablesTouched DEF Create, Delete, DeleteVideo
  <2>3. CASE DirectDelete(v)
    <3>1. DirectDelete(v)'
      BY <1>0, <2>3, DirectDeleteStays
    <3> QED BY <2>1, <2>2, <3>1 DEF DirectDelete
  <2>4. CASE ~DirectDelete(v)
    <3>1. PICK c \in rows : c.id = msg[p].id
      BY <2>1, <2>2, <2>4 DEF RaceInv, SeenCurrent
    <3>2. c.v = v
      BY <1>0, <2>1, <2>2, <3>1, GoneAreOfVideo
    <3>3. ASSUME NEW q \in Procs, Delete(q), c.id = msg[q].id PROVE DirectDelete(v)'
      <4>1. q \in Requests
        BY <1>3, <2>1, <3>3 DEF Procs
      <4>2. pc[q] = "txWrite" /\ msg[q].op = "delete" /\ msg[q].v = v
        BY <1>0, <3>2, <3>3, GoneAreOfVideo DEF Delete
      <4>3. DirectDelete(v)
        BY <1>0, <4>1, <4>2, DirectDeleteBy DEF DirectPCs
      <4> QED BY <1>0, <4>3, DirectDeleteStays
    <3>4. c \in rows' \/ DirectDelete(v)'
      <4>1. ASSUME NEW q \in Procs, Delete(q) PROVE c \in rows' \/ DirectDelete(v)'
        BY <3>3, <4>1 DEF Delete
      <4>2. ASSUME NEW u \in Videos, DeleteVideo(u) PROVE c \in rows'
        BY <2>1, <2>2, <3>2, <4>2 DEF DeleteVideo
      <4>3. ASSUME NEW q \in Procs, Create(q) PROVE c \in rows'
        BY <4>3 DEF Create
      <4> QED BY <4>1, <4>2, <4>3, TablesTouched
    <3> QED BY <2>1, <2>2, <3>1, <3>4 DEF DirectDelete
  <2> QED BY <2>3, <2>4
<1> QED BY <1>1, <1>2, <1>3 DEF Procs

LEMMA RacedStep ==
  ASSUME RaceInv, [Next]_vars
  PROVE  RacedOnlyByFallback'
<1> SUFFICES ASSUME NEW v \in raced' PROVE DirectDelete(v)'
  BY DEF RacedOnlyByFallback
<1>0. TypeInv
  BY DEF RaceInv, Book
<1>1. CASE v \in raced
  BY <1>0, <1>1, DirectDeleteStays DEF RaceInv, RacedOnlyByFallback
<1>2. CASE v \notin raced
  <2>1. PICK p \in Procs : Delete(p)
    BY <1>2, TablesTouched DEF Create, DeleteVideo, observers
  <2>2. v = msg[p].v /\ msg[p].v \in videos /\ ~ \E c \in rows : c.id = msg[p].id
    BY <1>2, <2>1 DEF Delete
  <2>3. DirectDelete(v)
    BY <2>1, <2>2 DEF Delete, RaceInv, SeenCurrent
  <2> QED BY <1>0, <2>3, DirectDeleteStays
<1> QED BY <1>1, <1>2

\* With one consumer, as the worker process starts it, two deletions of one comment
\* race only if a request deletes by itself.
THEOREM RacesNeedFallback ==
  ASSUME \A w1, w2 \in Workers : w1 = w2
  PROVE  Spec => []RacedOnlyByFallback
<1>1. Init => RaceInv
  BY BookInit DEF Init, RaceInv, SeenCurrent, RacedOnlyByFallback
<1>2. RaceInv /\ [Next]_vars => RaceInv'
  BY BookStep, SeenCurrentStep, RacedStep DEF RaceInv
<1> QED BY <1>1, <1>2, PTL DEF Spec, RaceInv

\* So the counter of every video is exact until a request deletes by itself.
THEOREM CountsExact ==
  ASSUME \A w1, w2 \in Workers : w1 = w2
  PROVE  Spec => []CountExactUnlessFallback
<1>1. Spec => []CountExactUnlessRaced
  BY CountsFollowRows
<1>2. Spec => []RacedOnlyByFallback
  BY RacesNeedFallback
<1> QED BY <1>1, <1>2, PTL DEF CountExactUnlessFallback

----------------------------------------------------------------------------
(***************************************************************************)
(* Accepted comments.  An accepted event waits in the queue or is with a   *)
(* worker that has still to write it, until it is settled for good.        *)
(***************************************************************************)

Settled(e) == (\E c \in rows : c.e = e) \/ e \in erased \cup dropped \/ msg[e].v \notin videos
Queued(e) == \E i \in DOMAIN queue : queue[i].op = "publish" /\ queue[i].e = e
Worked(e) == \E w \in Workers : pc[w] \in {"txRead", "txWrite"} /\ msg[w].op = "publish" /\ msg[w].e = e

Kept == \A e \in accepted : pc[e] # "idle" /\ (Settled(e) \/ Queued(e) \/ Worked(e))
SeenStored == \A p \in Procs : pc[p] = "txWrite" /\ seen[p] /\ msg[p].op = "publish" => Settled(msg[p].e)
KeptInv == Book /\ Kept /\ SeenStored

\* Nobody's record of what was erased or given up is ever taken back.
LEMMA RecordsGrow ==
  ASSUME [Next]_vars
  PROVE  erased \subseteq erased' /\ dropped \subseteq dropped' /\ videos' \subseteq videos
<1>1. erased \subseteq erased' /\ videos' \subseteq videos
  BY TablesTouched DEF tables, Create, Delete, DeleteVideo, observers
<1>2. \/ dropped' = dropped
      \/ \E p \in Procs : dropped' = dropped \cup {msg[p].e}
  BY DEF Next, vars, observers, CommentService, Transaction, BeginPublish, BeginDelete, SendOk, SendLost, SendErr,
         TxRead, CreateSeen, Create, DeleteUnseen, Delete, TxAbort, TxError, Rollback, Invalidate,
         InvalidateFails, Crash, Receive, Ack, DeleteVideo, LoadEntity
<1> QED BY <1>1, <1>2

LEMMA SettledStays ==
  ASSUME Book, [Next]_vars, NEW e \in Requests, pc[e] # "idle", Settled(e)
  PROVE  Settled(e)'
<1>1. msg'[e] = msg[e]
  BY RequestKeepsMsg DEF Book
<1>2. CASE e \in erased \cup dropped \/ msg[e].v \notin videos
  BY <1>1, <1>2, RecordsGrow DEF Settled
<1>3. CASE \E c \in rows : c.e = e
  <2>1. PICK c \in rows : c.e = e
    BY <1>3
  <2>2. msg[e].v = c.v
    BY <2>1 DEF Book, RowsSent
  <2>3. CASE c \in rows'
    BY <2>1, <2>3 DEF Settled
  <2>4. CASE c \notin rows'
    <3>1. ASSUME NEW p \in Procs, Delete(p) PROVE e \in erased'
      BY <2>1, <2>4, <3>1 DEF Delete
    <3>2. ASSUME NEW v \in Videos, DeleteVideo(v) PROVE msg'[e].v \notin videos'
      BY <1>1, <2>1, <2>2, <2>4, <3>2 DEF DeleteVideo
    <3> QED BY <2>1, <2>4, <3>1, <3>2, TablesTouched DEF Settled, tables, Create
  <2> QED BY <2>3, <2>4
<1> QED BY <1>2, <1>3 DEF Settled

\* What a worker does with an event it has still to write.
LEMMA WorkerMoves ==
  ASSUME TypeInv, [Next]_vars, NEW w \in Workers, pc[w] \in {"txRead", "txWrite"}, msg[w].op = "publish"
  PROVE  \/ pc'[w] \in {"txRead", "txWrite"} /\ msg'[w] = msg[w]
         \/ CreateSeen(w) \/ Create(w)
         \/ msg[w].e \in dropped'
         \/ queue' = <<msg[w]>> \o queue
<1> USE DEF TypeInv, TypeOK, Goto, task
<1>0. w \in Procs /\ w \notin Requests
  BY CommentAssumption DEF Procs
<1> DEFINE Goal == \/ pc'[w] \in {"txRead", "txWrite"} /\ msg'[w] = msg[w]
                   \/ CreateSeen(w) \/ Create(w)
                   \/ msg[w].e \in dropped'
                   \/ queue' = <<msg[w]>> \o queue
<1>1. ASSUME NEW q \in Requests, CommentService(q) PROVE Goal
  <2>1. q # w /\ msg'[w] = msg[w] /\ pc'[w] = pc[w]
    BY <1>0, <1>1 DEF CommentService, BeginPublish, BeginDelete, SendOk, SendLost, SendErr
  <2> QED BY <2>1
<1>2. ASSUME NEW p \in Procs, Transaction(p), p # w PROVE Goal
  <2>1. \E label : pc' = [pc EXCEPT ![p] = label]
    BY <1>2 DEF Transaction, TxRead, CreateSeen, Create, DeleteUnseen, Delete, TxAbort, TxError, Rollback,
                Invalidate, InvalidateFails, Finish
  <2>2. msg' = msg
    BY <1>2 DEF Transaction, TxRead, CreateSeen, Create, DeleteUnseen, Delete, TxAbort, TxError, Rollback,
                Invalidate, InvalidateFails
  <2> QED BY <1>0, <1>2, <2>1, <2>2
<1>3. CASE Transaction(w)
  <2>1. CASE TxRead(w)
    BY <1>0, <2>1 DEF TxRead
  <2>2. CASE TxAbort(w) \/ TxError(w)
    <3>1. Rollback(w)
      BY <2>2 DEF TxAbort, TxError
    <3> QED BY <1>0, <3>1 DEF Rollback
  <2> QED BY <1>3, <2>1, <2>2 DEF Transaction, DeleteUnseen, Delete, Invalidate, InvalidateFails
<1>4. ASSUME NEW p \in Procs, Crash(p) PROVE Goal
  <2>1. CASE p = w
    BY <1>0, <1>4, <2>1 DEF Crash
  <2>2. CASE p # w
    BY <1>0, <1>4, <2>2 DEF Crash, Forget
  <2> QED BY <2>1, <2>2
<1>5. ASSUME NEW x \in Workers, Receive(x) \/ Ack(x) PROVE Goal
  BY <1>0, <1>5 DEF Receive, Ack, Forget
<1>6. ASSUME NEW v \in Videos, DeleteVideo(v) \/ LoadEntity(v) PROVE Goal
  BY <1>6 DEF DeleteVideo, LoadEntity
<1>7. CASE UNCHANGED vars
  BY <1>7 DEF vars
<1> QED BY <1>1, <1>2, <1>3, <1>4, <1>5, <1>6, <1>7 DEF Next

LEMMA SeenStoredStep == KeptInv /\ [Next]_vars => SeenStored'
<1> SUFFICES ASSUME KeptInv, [Next]_vars, NEW p \in Procs, pc'[p] = "txWrite", seen'[p], msg'[p].op = "publish"
             PROVE  Settled(msg[p].e)'
  BY DEF SeenStored
<1>0. Book /\ TypeInv
  BY DEF KeptInv, Book
<1>1. msg'[p] = msg[p] /\ pc[p] \in {"txRead", "txWrite"}
  BY <1>0, AboutToWrite DEF TxRead
<1>2. PICK e \in Requests : e = msg[p].e /\ pc[e] # "idle"
  BY <1>0, <1>1, SenderBusy DEF Book, Sent, TypeInv, HoldsMsg
<1>3. Settled(e)
  <2>1. CASE TxRead(p)
    <3>1. Exists(msg[p])
      BY <1>0, <2>1 DEF TxRead, TypeInv, TypeOK
    <3> QED BY <1>1, <1>2, <3>1 DEF Exists, Settled
  <2>2. CASE pc[p] = "txWrite" /\ seen'[p] = seen[p]
    BY <1>1, <1>2, <2>2 DEF KeptInv, SeenStored
  <2> QED BY <1>0, <2>1, <2>2, AboutToWrite
<1>4. Settled(e)'
  BY <1>0, <1>2, <1>3, SettledStays
<1> QED BY <1>1, <1>2, <1>4 DEF Settled

\* What the queue loses, the worker that takes it holds.
LEMMA QueuedMoves ==
  ASSUME TypeInv, [Next]_vars, NEW i \in DOMAIN queue
  PROVE  \/ \E j \in DOMAIN queue' : queue'[j] = queue[i]
         \/ \E w \in Workers : pc'[w] = "txRead" /\ msg'[w] = queue[i]
<1> DEFINE Goal == \/ \E j \in DOMAIN queue' : queue'[j] = queue[i]
                   \/ \E w \in Workers : pc'[w] = "txRead" /\ msg'[w] = queue[i]
<1>0. queue \in Seq(Msg)
  BY DEF TypeInv, TypeOK
<1>1. CASE queue' = queue
  BY <1>1
<1>2. ASSUME NEW k \in Msg, queue' = Append(queue, k) PROVE Goal
  <2>1. i \in DOMAIN queue' /\ queue'[i] = queue[i]
    BY <1>0, <1>2
  <2> QED BY <2>1
<1>3. ASSUME NEW k \in Msg, queue' = <<k>> \o queue PROVE Goal
  <2>1. i + 1 \in DOMAIN queue' /\ queue'[i + 1] = queue[i]
    BY <1>0, <1>3
  <2> QED BY <2>1
<1>4. ASSUME NEW w \in Workers, Receive(w) PROVE Goal
  <2>1. queue # <<>> /\ queue' = Tail(queue) /\ w \in Procs
    BY <1>4 DEF Receive, Procs
  <2>2. CASE i = 1
    BY <1>0, <1>4, <2>1, <2>2 DEF Receive, Goto, TypeInv, TypeOK
  <2>3. CASE i # 1
    <3>1. i - 1 \in DOMAIN queue' /\ queue'[i - 1] = queue[i]
      BY <1>0, <2>1, <2>3
    <3> QED BY <3>1
  <2> QED BY <2>2, <2>3
<1>5. \/ queue' = queue
      \/ \E q \in Requests : pc[q] # "idle" /\ queue' = Append(queue, msg[q])
      \/ \E w \in Workers : Receive(w)
      \/ \E q \in Procs : pc[q] # "idle" /\ queue' = <<msg[q]>> \o queue
  BY DEF Next, vars, tables, CommentService, Transaction, BeginPublish, BeginDelete, SendOk, SendErr, SendLost,
         TxRead, CreateSeen, Create, DeleteUnseen, Delete, TxAbort, TxError, Rollback, Invalidate,
         InvalidateFails, Ack, Crash, DeleteVideo, LoadEntity
<1>6. ASSUME NEW q \in Procs, pc[q] # "idle" PROVE msg[q] \in Msg
  BY <1>6 DEF TypeInv, HoldsMsg
<1> QED BY <1>1, <1>2, <1>3, <1>4, <1>5, <1>6 DEF Procs

LEMMA KeptStep == KeptInv /\ [Next]_vars => Kept'
<1> SUFFICES ASSUME KeptInv, [Next]_vars, NEW e \in accepted'
             PROVE  pc'[e] # "idle" /\ (Settled(e)' \/ Queued(e)' \/ Worked(e)')
  BY DEF Kept
<1>0. Book /\ TypeInv /\ TypeInv' /\ Book'
  BY BookStep DEF KeptInv, Book
<1>1. CASE e \in accepted
  <2>1. e \in Requests /\ pc[e] # "idle" /\ pc'[e] # "idle"
    BY <1>0, <1>1, RequestKeepsMsg DEF KeptInv, Kept, TypeInv, TypeOK
  <2>2. CASE Settled(e)
    BY <1>0, <2>1, <2>2, SettledStays
  <2>3. CASE Queued(e)
    <3>1. PICK i \in DOMAIN queue : queue[i].op = "publish" /\ queue[i].e = e
      BY <2>3 DEF Queued
    <3>2. CASE \E j \in DOMAIN queue' : queue'[j] = queue[i]
      BY <2>1, <3>1, <3>2 DEF Queued
    <3>3. CASE \E w \in Workers : pc'[w] = "txRead" /\ msg'[w] = queue[i]
      BY <2>1, <3>1, <3>3 DEF Worked
    <3> QED BY <1>0, <3>2, <3>3, QueuedMoves
  <2>4. CASE Worked(e)
    <3>1. PICK w \in Workers : pc[w] \in {"txRead", "txWrite"} /\ msg[w].op = "publish" /\ msg[w].e = e
      BY <2>4 DEF Worked
    <3>2. CASE pc'[w] \in {"txRead", "txWrite"} /\ msg'[w] = msg[w]
      BY <2>1, <3>1, <3>2 DEF Worked
    <3>3. CASE CreateSeen(w)
      <4>1. Settled(e)
        BY <3>1, <3>3 DEF CreateSeen, KeptInv, SeenStored, Procs
      <4> QED BY <1>0, <2>1, <4>1, SettledStays
    <3>4. CASE Create(w)
      <4> DEFINE c == [id |-> nextId, e |-> msg[w].e, v |-> msg[w].v]
      <4>1. c \in rows'
        BY <3>4 DEF Create
      <4>2. c.e = e
        BY <3>1
      <4> QED BY <2>1, <4>1, <4>2 DEF Settled
    <3>5. CASE msg[w].e \in dropped'
      BY <2>1, <3>1, <3>5 DEF Settled
    <3>6. CASE queue' = <<msg[w]>> \o queue
      <4>1. 1 \in DOMAIN queue' /\ queue'[1] = msg[w]
        BY <1>0, <3>6 DEF TypeInv, TypeOK
      <4> QED BY <2>1, <3>1, <4>1 DEF Queued
    <3> QED BY <1>0, <3>1, <3>2, <3>3, <3>4, <3>5, <3>6, WorkerMoves
  <2> QED BY <1>1, <2>2, <2>3, <2>4 DEF KeptInv, Kept
<1>2. CASE e \notin accepted
  <2>1. PICK r \in Requests : SendOk(r)
    BY <1>2 DEF Next, vars, observers, CommentService, Transaction, BeginPublish, BeginDelete, SendLost, SendErr,
                TxRead, CreateSeen, Create, DeleteUnseen, Delete, TxAbort, TxError, Rollback, Invalidate,
                InvalidateFails, Ack, Receive, Crash, DeleteVideo, LoadEntity
  <2>2. e = r /\ msg[r].op = "publish" /\ queue' = Append(queue, msg[r]) /\ pc[r] = "send"
    BY <1>2, <2>1 DEF SendOk
  <2>3. r \in Procs /\ msg[r] \in Msg /\ queue \in Seq(Msg)
    BY <1>0, <2>2 DEF TypeInv, TypeOK, HoldsMsg, Procs
  <2>4. msg[r].e = r
    BY <1>0, <2>2, <2>3 DEF Book, OwnMsg
  <2>5. Len(queue) + 1 \in DOMAIN queue' /\ queue'[Len(queue) + 1] = msg[r]
    BY <2>2, <2>3
  <2>6. pc'[r] # "idle"
    BY <1>0, <2>2, RequestKeepsMsg
  <2> QED BY <2>2, <2>4, <2>5, <2>6 DEF Queued
<1> QED BY <1>1, <1>2

\* An accepted comment is stored or on its way, for any number of requests, workers
\* and faults, unless it was deleted, given up, or its video is gone.
THEOREM AcceptedAreKept == Spec => []AcceptedKept
<1>1. Init => KeptInv
  BY BookInit DEF Init, KeptInv, Kept, SeenStored
<1>2. KeptInv /\ [Next]_vars => KeptInv'
  BY BookStep, KeptStep, SeenStoredStep DEF KeptInv
<1>3. KeptInv => AcceptedKept
  <2> SUFFICES ASSUME KeptInv, NEW e \in accepted
               PROVE  \/ \E c \in rows : c.e = e
                      \/ Pending(e)
                      \/ e \in erased \cup dropped
                      \/ msg[e].v \notin videos
    BY DEF AcceptedKept
  <2>1. CASE Settled(e)
    BY <2>1 DEF Settled
  <2>2. CASE Queued(e)
    BY <2>2 DEF Queued, Pending
  <2>3. CASE Worked(e)
    <3>1. PICK w \in Workers : pc[w] \in {"txRead", "txWrite"} /\ msg[w].op = "publish" /\ msg[w].e = e
      BY <2>3 DEF Worked
    <3>2. msg[w] # NoMsg
      BY <3>1, NoMsgIsNone DEF KeptInv, Book, TypeInv, HoldsMsg, Procs
    <3> QED BY <3>1, <3>2 DEF Pending
  <2> QED BY <2>1, <2>2, <2>3 DEF KeptInv, Kept
<1> QED BY <1>1, <1>2, <1>3, PTL DEF Spec

----------------------------------------------------------------------------
(***************************************************************************)
(* Deleted comments.  With one worker, what it has and what the queue has  *)
(* after it are one line that grows at its end and shrinks at its head,    *)
(* also through a crash.  A deletion is sent when the row is there, so it  *)
(* stands in the line behind the event that made the row; when it is       *)
(* handled that event is out of the line, and nothing brings it back.      *)
(***************************************************************************)

Line(w) == IF pc[w] = "idle" THEN queue ELSE <<msg[w]>> \o queue
InLine(w, e) == \E i \in DOMAIN Line(w) : Line(w)[i].e = e
Around(e, v) == Direct(e) \/ DirectDelete(v)

RowsOnce == \A c, d \in rows : c.e = d.e => c = d
Unsent(w) == \A r \in Requests : pc[r] \in {"idle", "send"} =>
  ~InLine(w, r) /\ r \notin erased /\ \A c \in rows : c.e # r
InOrder(w) == \A c \in rows : Around(c.e, c.v) \/
  \A i, j \in DOMAIN Line(w) :
    Line(w)[i].e = c.e /\ Line(w)[j].op = "delete" /\ Line(w)[j].id = c.id => i < j
Buried(w) == \A e \in erased : Around(e, msg[e].v) \/ (~InLine(w, e) /\ \A c \in rows : c.e # e)
ErasedInv(w) == Book /\ RowsOnce /\ Unsent(w) /\ InOrder(w) /\ Buried(w)

LEMMA LineType ==
  ASSUME TypeInv, NEW w \in Workers
  PROVE  /\ Line(w) \in Seq(Msg) /\ Len(Line(w)) \in Nat /\ DOMAIN Line(w) = 1..Len(Line(w))
         /\ pc[w] # "idle" => 1 \in DOMAIN Line(w) /\ Line(w)[1] = msg[w]
<1>1. queue \in Seq(Msg) /\ (pc[w] # "idle" => msg[w] \in Msg)
  BY DEF TypeInv, TypeOK, HoldsMsg, Procs
<1> QED BY <1>1 DEF Line

\* Everything in the line was sent by a request that still holds it.
LEMMA LineSent ==
  ASSUME Book, NEW w \in Workers, NEW i \in DOMAIN Line(w)
  PROVE  /\ Line(w)[i] \in Msg /\ msg[Line(w)[i].e] = Line(w)[i]
         /\ Line(w)[i].e \in Requests /\ pc[Line(w)[i].e] # "idle"
<1>1. TypeInv /\ w \in Procs /\ queue \in Seq(Msg)
  BY DEF Book, TypeInv, TypeOK, Procs
<1>2. Line(w)[i] \in Msg /\ msg[Line(w)[i].e] = Line(w)[i]
  <2>1. CASE pc[w] = "idle"
    BY <1>1, <2>1 DEF Book, Sent, Line
  <2>2. CASE pc[w] # "idle"
    <3>1. msg[w] \in Msg /\ msg[msg[w].e] = msg[w]
      BY <1>1, <2>2 DEF Book, Sent, TypeInv, HoldsMsg
    <3>2. \/ i = 1 /\ Line(w)[i] = msg[w]
          \/ i - 1 \in DOMAIN queue /\ Line(w)[i] = queue[i - 1]
      BY <1>1, <2>2, <3>1 DEF Line
    <3>3. \A j \in DOMAIN queue : queue[j] \in Msg /\ msg[queue[j].e] = queue[j]
      BY <1>1 DEF Book, Sent
    <3> QED BY <3>1, <3>2, <3>3
  <2> QED BY <2>1, <2>2
<1> QED BY <1>1, <1>2, SenderBusy DEF Book

\* How the line changes.
LEMMA LineMoves ==
  ASSUME TypeInv, TypeInv', [Next]_vars, NEW w, Workers = {w}
  PROVE  \/ Line(w)' = Line(w)
         \/ \E r \in Requests : (SendOk(r) \/ SendErr(r)) /\ Line(w)' = Append(Line(w), msg[r])
         \/ pc[w] # "idle" /\ Line(w)' = Tail(Line(w)) /\ UNCHANGED <<tables, erased>>
<1> USE DEF TypeInv, TypeOK, Goto
<1>0. w \in Procs /\ w \notin Requests /\ queue \in Seq(Msg) /\ (pc[w] # "idle" => msg[w] \in Msg)
  BY CommentAssumption DEF Procs, HoldsMsg
<1>1. ASSUME UNCHANGED <<pc, msg, queue>> PROVE Line(w)' = Line(w)
  BY <1>1 DEF Line
<1>2. ASSUME NEW r \in Requests, CommentService(r)
      PROVE  \/ Line(w)' = Line(w)
             \/ (SendOk(r) \/ SendErr(r)) /\ Line(w)' = Append(Line(w), msg[r])
  <2>1. pc'[w] = pc[w] /\ msg'[w] = msg[w] /\ r \in Procs
    BY <1>0, <1>2 DEF CommentService, BeginPublish, BeginDelete, SendOk, SendLost, SendErr, task, Procs
  <2>2. CASE queue' = queue
    BY <2>1, <2>2 DEF Line
  <2>3. CASE queue' = Append(queue, msg[r]) /\ (SendOk(r) \/ SendErr(r))
    <3>1. msg[r] \in Msg
      BY <2>1, <2>3 DEF SendOk, SendErr, HoldsMsg
    <3>2. Line(w)' = Append(Line(w), msg[r])
      <4>1. CASE pc[w] = "idle"
        BY <2>1, <2>3, <4>1 DEF Line
      <4>2. CASE pc[w] # "idle"
        <5>1. <<msg[w]>> \o Append(queue, msg[r]) = Append(<<msg[w]>> \o queue, msg[r])
          BY <1>0, <3>1, <4>2
        <5> QED BY <2>1, <2>3, <4>2, <5>1 DEF Line
      <4> QED BY <4>1, <4>2
    <3> QED BY <2>3, <3>2
  <2> QED BY <1>2, <2>2, <2>3 DEF CommentService, BeginPublish, BeginDelete, SendOk, SendLost, SendErr
<1>3. ASSUME NEW p \in Procs, Transaction(p) PROVE Line(w)' = Line(w)
  <2>1. /\ UNCHANGED <<msg, queue>> /\ pc[p] # "idle"
        /\ \E label : label # "idle" /\ pc' = [pc EXCEPT ![p] = label]
    BY <1>3 DEF Transaction, TxRead, CreateSeen, Create, DeleteUnseen, Delete, TxAbort, TxError, Rollback,
                Invalidate, InvalidateFails, Finish, task
  <2> QED BY <1>0, <2>1 DEF Line
<1>4. ASSUME NEW p \in Procs, Crash(p) PROVE Line(w)' = Line(w)
  <2>1. CASE p = w
    <3>1. pc[w] # "idle" /\ queue' = <<msg[w]>> \o queue /\ pc'[w] = "idle"
      BY <1>0, <1>4, <2>1 DEF Crash, Forget
    <3> QED BY <3>1 DEF Line
  <2>2. CASE p # w
    <3>1. p \in Requests
      BY <2>2 DEF Procs
    <3>2. p \notin Workers /\ queue' = queue /\ msg' = msg /\ pc'[w] = pc[w]
      BY <1>0, <1>4, <2>2, <3>1, CommentAssumption DEF Crash, task
    <3> QED BY <3>2 DEF Line
  <2> QED BY <2>1, <2>2
<1>5. CASE Receive(w)
  <2>1. pc[w] = "idle" /\ queue # <<>> /\ queue' = Tail(queue) /\ pc'[w] = "txRead" /\ msg'[w] = Head(queue)
    BY <1>0, <1>5 DEF Receive
  <2>2. <<Head(queue)>> \o Tail(queue) = queue
    BY <1>0, <2>1
  <2> QED BY <2>1, <2>2 DEF Line
<1>6. CASE Ack(w)
  <2>1. pc[w] = "ack" /\ pc'[w] = "idle" /\ queue' = queue /\ UNCHANGED <<tables, erased>>
    BY <1>0, <1>6 DEF Ack, Forget, observers
  <2>2. Tail(<<msg[w]>> \o queue) = queue
    BY <1>0, <2>1
  <2> QED BY <2>1, <2>2 DEF Line
<1>7. ASSUME NEW v \in Videos, DeleteVideo(v) \/ LoadEntity(v) PROVE Line(w)' = Line(w)
  BY <1>1, <1>7 DEF DeleteVideo, LoadEntity, task
<1>8. CASE UNCHANGED vars
  BY <1>1, <1>8 DEF vars, task
<1> QED BY <1>2, <1>3, <1>4, <1>5, <1>6, <1>7, <1>8 DEF Next

\* A request that has sent its event, or fallen back, has done so for good.
LEMMA SentForGood ==
  ASSUME TypeInv, [Next]_vars, NEW r \in Requests, pc[r] \notin {"idle", "send"}
  PROVE  pc'[r] \notin {"idle", "send"}
<1> USE DEF TypeInv, TypeOK, Goto, task
<1>0. r \in Procs /\ r \notin Workers
  BY CommentAssumption DEF Procs
<1>1. CASE pc[r] \in DirectPCs
  BY <1>1, DirectRequest DEF DirectPCs
<1>2. CASE pc[r] \notin DirectPCs
  <2>1. pc[r] \notin {"txRead", "txWrite", "inval", "written", "failed"}
    BY <1>2 DEF DirectPCs
  <2>2. pc[r] = "published" \/ pc[r] = "ack"
    BY <1>0, <2>1 DEF PCs, Final
  <2>3. ASSUME NEW q \in Requests, CommentService(q) PROVE pc'[r] = pc[r]
    BY <1>0, <2>2, <2>3 DEF CommentService, BeginPublish, BeginDelete, SendOk, SendLost, SendErr
  <2>4. ASSUME NEW p \in Procs, Transaction(p) PROVE pc'[r] = pc[r]
    <3>1. pc[p] \in {"txRead", "txWrite", "inval"} /\ \E label : pc' = [pc EXCEPT ![p] = label]
      BY <2>4 DEF Transaction, TxRead, CreateSeen, Create, DeleteUnseen, Delete, TxAbort, TxError, Rollback,
                  Invalidate, InvalidateFails, Finish
    <3> QED BY <1>0, <2>2, <3>1
  <2>5. ASSUME NEW p \in Procs, Crash(p) PROVE pc'[r] \notin {"idle", "send"}
    BY <1>0, <2>2, <2>5 DEF Crash, Forget
  <2>6. ASSUME NEW w \in Workers, Receive(w) \/ Ack(w) PROVE pc'[r] = pc[r]
    BY <1>0, <2>6 DEF Receive, Ack, Forget
  <2>7. ASSUME NEW v \in Videos, DeleteVideo(v) \/ LoadEntity(v) PROVE pc'[r] = pc[r]
    BY <2>7 DEF DeleteVideo, LoadEntity
  <2>8. UNCHANGED vars => pc' = pc
    BY DEF vars
  <2> QED BY <2>2, <2>3, <2>4, <2>5, <2>6, <2>7, <2>8 DEF Next
<1> QED BY <1>1, <1>2

LEMMA AroundStays ==
  ASSUME TypeInv, [Next]_vars, NEW e \in Requests, NEW v, Around(e, v)
  PROVE  Around(e, v)'
<1>1. CASE Direct(e)
  BY <1>1, DirectRequest DEF Direct, DirectPCs, Around
<1>2. CASE DirectDelete(v)
  BY <1>2, DirectDeleteStays DEF Around
<1> QED BY <1>1, <1>2 DEF Around

\* Who creates a row: the worker, from the head of the line, or the request itself.
LEMMA CreatedBy ==
  ASSUME Book, NEW w, Workers = {w}, [Next]_vars, NEW p \in Procs, Create(p)
  PROVE  InLine(w, msg[p].e) \/ Direct(msg[p].e)
<1>1. TypeInv /\ pc[p] = "txWrite"
  BY DEF Book, Create
<1>2. CASE p = w
  <2>1. 1 \in DOMAIN Line(w) /\ Line(w)[1] = msg[w]
    BY <1>1, <1>2, LineType
  <2>2. Line(w)[1].e = msg[p].e
    BY <1>2, <2>1
  <2> QED BY <2>1, <2>2 DEF InLine
<1>3. CASE p \in Requests
  BY <1>1, <1>3 DEF Book, OwnMsg, Direct
<1> QED BY <1>2, <1>3 DEF Procs

LEMMA RowsOnceStep == Book /\ RowsOnce /\ [Next]_vars => RowsOnce'
<1> SUFFICES ASSUME Book, RowsOnce, [Next]_vars PROVE RowsOnce'
  OBVIOUS
<1>1. ASSUME NEW p \in Procs, Create(p) PROVE RowsOnce'
  <2>1. \A c \in rows : c.e # msg[p].e
    BY <1>1 DEF Create, Exists
  <2> QED BY <1>1, <2>1 DEF Create, RowsOnce
<1>2. ASSUME NEW p \in Procs, Delete(p) PROVE RowsOnce'
  BY <1>2 DEF Delete, RowsOnce
<1>3. ASSUME NEW v \in Videos, DeleteVideo(v) PROVE RowsOnce'
  BY <1>3 DEF DeleteVideo, RowsOnce
<1> QED BY <1>1, <1>2, <1>3, TablesTouched DEF tables, RowsOnce

\* What is in the line after a step was there before, or was just sent.
LEMMA LineFrom ==
  ASSUME TypeInv, TypeInv', [Next]_vars, NEW w, Workers = {w}, NEW e \in Requests, InLine(w, e)'
  PROVE  InLine(w, e) \/ \E r \in Requests : (SendOk(r) \/ SendErr(r)) /\ msg[r].e = e
<1>1. /\ Line(w) \in Seq(Msg) /\ Len(Line(w)) \in Nat /\ DOMAIN Line(w) = 1..Len(Line(w))
      /\ pc[w] # "idle" => 1 \in DOMAIN Line(w)
  BY LineType
<1>2. PICK i \in DOMAIN Line(w)' : Line(w)'[i].e = e
  BY DEF InLine
<1>3. CASE Line(w)' = Line(w)
  BY <1>2, <1>3 DEF InLine
<1>4. ASSUME NEW r \in Requests, SendOk(r) \/ SendErr(r), Line(w)' = Append(Line(w), msg[r])
      PROVE  InLine(w, e) \/ msg[r].e = e
  <2>1. (i \in DOMAIN Line(w) /\ Line(w)'[i] = Line(w)[i]) \/ Line(w)'[i] = msg[r]
    BY <1>1, <1>2, <1>4
  <2> QED BY <1>2, <2>1 DEF InLine
<1>5. CASE pc[w] # "idle" /\ Line(w)' = Tail(Line(w))
  <2>1. i + 1 \in DOMAIN Line(w) /\ Line(w)'[i] = Line(w)[i + 1]
    BY <1>1, <1>2, <1>5
  <2> QED BY <1>2, <2>1 DEF InLine
<1> QED BY <1>3, <1>4, <1>5, LineMoves

\* Rows and erased rows of an event that was not in the line come from its request.
LEMMA RowsFrom ==
  ASSUME Book, [Next]_vars, NEW w, Workers = {w}, NEW e \in Requests, \A c \in rows : c.e # e,
         ~InLine(w, e), pc[e] \notin {"txRead", "txWrite", "inval", "written", "failed"}
  PROVE  (\A c \in rows' : c.e # e) /\ (e \in erased' => e \in erased)
<1>1. ASSUME NEW p \in Procs, Create(p)
      PROVE  rows' = rows \cup {[id |-> nextId, e |-> msg[p].e, v |-> msg[p].v]} /\ msg[p].e # e
  BY <1>1, CreatedBy DEF Create, Direct
<1>2. \A p \in Procs : Create(p) => erased' = erased
  BY DEF Create, observers
<1>3. ASSUME NEW p \in Procs, Delete(p) PROVE (\A c \in rows' : c.e # e) /\ (e \in erased' => e \in erased)
  BY <1>3 DEF Delete
<1>4. ASSUME NEW v \in Videos, DeleteVideo(v) PROVE rows' \subseteq rows /\ erased' = erased
  BY <1>4 DEF DeleteVideo, observers
<1> QED BY <1>1, <1>2, <1>3, <1>4, TablesTouched DEF tables

LEMMA UnsentStep ==
  ASSUME NEW w, Workers = {w}, ErasedInv(w), [Next]_vars
  PROVE  Unsent(w)'
<1>0. Book /\ TypeInv /\ TypeInv' /\ Unsent(w)
  BY BookStep DEF ErasedInv, Book
<1> SUFFICES ASSUME NEW r \in Requests, pc'[r] \in {"idle", "send"}
             PROVE  ~InLine(w, r)' /\ r \notin erased' /\ \A c \in rows' : c.e # r
  BY DEF Unsent
<1>1. pc[r] \in {"idle", "send"}
  BY <1>0, SentForGood
<1>2. ~InLine(w, r) /\ r \notin erased /\ \A c \in rows : c.e # r
  BY <1>0, <1>1 DEF Unsent
<1>3. ~InLine(w, r)'
  <2> SUFFICES ASSUME NEW q \in Requests, SendOk(q) \/ SendErr(q), msg[q].e = r PROVE FALSE
    BY <1>0, <1>2, LineFrom
  <2>1. q = r /\ pc[q] = "send"
    BY <1>0 DEF SendOk, SendErr, Book, OwnMsg
  <2> QED BY <1>0, <2>1 DEF SendOk, SendErr, Goto, TypeInv, TypeOK, Procs
<1> QED BY <1>0, <1>1, <1>2, <1>3, RowsFrom

LEMMA InOrderStep ==
  ASSUME NEW w, Workers = {w}, ErasedInv(w), [Next]_vars
  PROVE  InOrder(w)'
<1>0. Book /\ TypeInv /\ TypeInv' /\ Unsent(w) /\ InOrder(w)
  BY BookStep DEF ErasedInv, Book
<1>1. Line(w) \in Seq(Msg) /\ Len(Line(w)) \in Nat /\ DOMAIN Line(w) = 1..Len(Line(w))
  BY <1>0, LineType
<1> SUFFICES ASSUME NEW c \in rows', ~Around(c.e, c.v)', NEW i \in DOMAIN Line(w)', NEW j \in DOMAIN Line(w)',
                    Line(w)'[i].e = c.e, Line(w)'[j].op = "delete", Line(w)'[j].id = c.id
             PROVE  i < j
  BY DEF InOrder
<1>2. CASE c \in rows
  <2>1. c.e \in Requests /\ ~Around(c.e, c.v)
    BY <1>0, <1>2, AroundStays DEF TypeInv, TypeOK, Row
  <2>2. \A x, y \in DOMAIN Line(w) :
          Line(w)[x].e = c.e /\ Line(w)[y].op = "delete" /\ Line(w)[y].id = c.id => x < y
    BY <1>0, <1>2, <2>1 DEF InOrder
  <2>3. CASE Line(w)' = Line(w)
    BY <2>2, <2>3
  <2>4. ASSUME NEW r \in Requests, SendOk(r) \/ SendErr(r), Line(w)' = Append(Line(w), msg[r])
        PROVE  i < j
    <3>1. pc[r] = "send" /\ msg[r].e = r /\ \A d \in rows : d.e # r
      BY <1>0, <2>4 DEF SendOk, SendErr, Book, OwnMsg, Unsent
    <3>2. i \in DOMAIN Line(w) /\ Line(w)'[i] = Line(w)[i]
      <4>1. (i \in DOMAIN Line(w) /\ Line(w)'[i] = Line(w)[i]) \/ Line(w)'[i] = msg[r]
        BY <1>1, <2>4
      <4> QED BY <1>2, <3>1, <4>1
    <3>3. (j \in DOMAIN Line(w) /\ Line(w)'[j] = Line(w)[j]) \/ j = Len(Line(w)) + 1
      BY <1>1, <2>4
    <3>4. i \in 1..Len(Line(w))
      BY <1>1, <3>2
    <3>5. CASE j = Len(Line(w)) + 1
      BY <1>1, <3>4, <3>5
    <3> QED BY <2>2, <3>2, <3>3, <3>5
  <2>5. CASE pc[w] # "idle" /\ Line(w)' = Tail(Line(w))
    <3>1. /\ i + 1 \in DOMAIN Line(w) /\ Line(w)'[i] = Line(w)[i + 1] /\ i \in Nat
          /\ j + 1 \in DOMAIN Line(w) /\ Line(w)'[j] = Line(w)[j + 1] /\ j \in Nat
      BY <1>0, <1>1, <2>5, LineType
    <3>2. i + 1 < j + 1
      BY <2>2, <3>1
    <3> QED BY <3>1, <3>2
  <2> QED BY <1>0, <2>3, <2>4, <2>5, LineMoves
<1>3. CASE c \notin rows
  <2>1. PICK p \in Procs : Create(p)
    <3>1. \A p \in Procs : Delete(p) => rows' \subseteq rows
      BY DEF Delete
    <3>2. \A v \in Videos : DeleteVideo(v) => rows' \subseteq rows
      BY DEF DeleteVideo
    <3> QED BY <1>3, <3>1, <3>2, TablesTouched DEF tables
  <2>2. c.id = nextId /\ c.e = msg[p].e
    BY <1>3, <2>1 DEF Create
  <2>3. Line(w)' = Line(w)
    <3>1. ~ \E r \in Requests : SendOk(r) \/ SendErr(r)
      BY <2>1 DEF Create, SendOk, SendErr, tables
    <3>2. ~UNCHANGED <<tables, erased>>
      BY <1>3 DEF tables
    <3> QED BY <1>0, <3>1, <3>2, LineMoves
  <2>4. j \in DOMAIN Line(w) /\ Line(w)[j].id < nextId
    <3>1. j \in DOMAIN Line(w) /\ Line(w)[j].op = "delete"
      BY <2>3
    <3>2. msg[Line(w)[j].e] = Line(w)[j] /\ Line(w)[j].e \in Requests /\ pc[Line(w)[j].e] # "idle"
      BY <1>0, <3>1, LineSent
    <3> QED BY <1>0, <3>1, <3>2 DEF Book, Addressed
  <2> QED BY <1>0, <2>2, <2>3, <2>4 DEF TypeInv, TypeOK
<1> QED BY <1>2, <1>3

LEMMA BuriedStep ==
  ASSUME NEW w, Workers = {w}, ErasedInv(w), [Next]_vars
  PROVE  Buried(w)'
<1>0. Book /\ TypeInv /\ TypeInv' /\ Unsent(w) /\ InOrder(w) /\ Buried(w) /\ RowsOnce
  BY BookStep DEF ErasedInv, Book
<1> SUFFICES ASSUME NEW e \in Requests, e \in erased', NEW u, u = msg'[e].v, ~Around(e, u)'
             PROVE  ~InLine(w, e)' /\ \A c \in rows' : c.e # e
  <2>1. erased' \subseteq Requests
    BY <1>0 DEF TypeInv, TypeOK
  <2> QED BY <2>1 DEF Buried, Around
<1>1. CASE e \in erased
  <2>1. pc[e] \notin {"idle", "send"}
    BY <1>0, <1>1 DEF Unsent
  <2>2. msg'[e] = msg[e]
    BY <1>0, <2>1, RequestKeepsMsg
  <2>3. u = msg[e].v /\ ~Around(e, u)
    BY <1>0, <2>2, AroundStays
  <2>4. ~InLine(w, e) /\ \A c \in rows : c.e # e
    BY <1>0, <1>1, <2>3 DEF Buried
  <2>5. ~InLine(w, e)'
    <3> SUFFICES ASSUME NEW q \in Requests, SendOk(q) \/ SendErr(q), msg[q].e = e PROVE FALSE
      BY <1>0, <2>4, LineFrom
    <3> QED BY <1>0, <2>1 DEF SendOk, SendErr, Book, OwnMsg
  <2> QED BY <1>0, <2>3, <2>4, <2>5, RowsFrom DEF Around, Direct
<1>2. CASE e \notin erased
  <2>1. PICK p \in Procs : Delete(p)
    BY <1>2, TablesTouched DEF Create, DeleteVideo, observers
  <2>2. PICK c \in rows : c.id = msg[p].id /\ c.e = e
    BY <1>2, <2>1 DEF Delete
  <2>3. rows' = {d \in rows : d.id # msg[p].id} /\ pc[p] = "txWrite" /\ msg[p].op = "delete"
    BY <2>1 DEF Delete
  <2>4. \A d \in rows' : d.e # e
    BY <1>0, <2>2, <2>3 DEF RowsOnce
  <2>5. c.v = msg[p].v /\ c.v = msg[e].v /\ pc[e] # "idle"
    BY <1>0, <2>2, <2>3, GoneAreOfVideo DEF Book, RowsSent
  <2>6. u = c.v /\ ~Around(e, u)
    <3>1. msg'[e] = msg[e]
      BY <1>0, <2>5, RequestKeepsMsg
    <3> QED BY <1>0, <2>5, <3>1, AroundStays
  <2>7. p = w
    <3>1. p \notin Requests
      BY <1>0, <2>3, <2>5, <2>6, DirectDeleteBy DEF Around, DirectPCs
    <3> QED BY <3>1 DEF Procs
  <2>8. 1 \in DOMAIN Line(w) /\ Line(w)[1] = msg[w] /\ DOMAIN Line(w) = 1..Len(Line(w)) /\ Len(Line(w)) \in Nat
    BY <1>0, <2>3, <2>7, LineType
  <2>9. \A i \in DOMAIN Line(w) : Line(w)[i].e = e => i < 1
    BY <1>0, <2>2, <2>3, <2>6, <2>7, <2>8 DEF InOrder
  <2>10. ~InLine(w, e)
    BY <2>8, <2>9 DEF InLine
  <2>11. ~InLine(w, e)'
    <3>1. ~ \E r \in Requests : SendOk(r) \/ SendErr(r)
      <4>1. \A r \in Requests : SendOk(r) \/ SendErr(r) => erased' = erased
        BY DEF SendOk, SendErr, observers
      <4> QED BY <1>2, <4>1
    <3> QED BY <1>0, <2>10, <3>1, LineFrom
  <2> QED BY <2>4, <2>11
<1> QED BY <1>1, <1>2

\* With one consumer, a deleted comment comes back only if a request wrote around the
\* queue: redelivery after a crash brings nothing back, for any number of requests and
\* faults.
THEOREM ErasedStayErased ==
  ASSUME NEW w, Workers = {w}
  PROVE  Spec => []ErasedStaysErased
<1>1. Init => ErasedInv(w)
  <2> SUFFICES ASSUME Init PROVE RowsOnce /\ Unsent(w) /\ InOrder(w) /\ Buried(w)
    BY BookInit DEF ErasedInv
  <2>1. Line(w) = <<>> /\ rows = {} /\ erased = {}
    BY DEF Init, Line, Procs
  <2> QED BY <2>1 DEF RowsOnce, Unsent, InOrder, Buried, InLine
<1>2. ErasedInv(w) /\ [Next]_vars => ErasedInv(w)'
  BY BookStep, RowsOnceStep, UnsentStep, InOrderStep, BuriedStep DEF ErasedInv
<1>3. ErasedInv(w) => ErasedStaysErased
  BY DEF ErasedInv, Buried, Around, ErasedStaysErased, Book, RowsSent
<1> QED BY <1>1, <1>2, <1>3, PTL DEF Spec
============================================================================
