---------------------------- MODULE RatingProofs ----------------------------
(***************************************************************************)
(* Theorems about Rating for every set of accounts, videos, requests and   *)
(* consumers and every bound on the faults.                                *)
(***************************************************************************)
EXTENDS Rating, FiniteSetTheorems, TLAPS

\* A process that has left its initial state holds an event.
HoldsEvent == \A p \in Procs : pc[p] # "idle" => ev[p] \in Event

TypeInv == TypeOK /\ HoldsEvent

LEMMA DeltaTypes ==
  ASSUME NEW before \in Statuses, NEW after \in Statuses
  PROVE  DeltaLike(before, after) \in {-1, 0, 1} /\ DeltaDislike(before, after) \in {-1, 0, 1}
  BY DEF DeltaLike, DeltaDislike, Vote, Statuses, Like, Dislike, None

LEMMA ClampType == ASSUME NEW n \in Int PROVE Clamp(n) \in Nat
  BY DEF Clamp

LEMMA EventFields ==
  ASSUME NEW e \in Event PROVE e.v \in Videos /\ e.a \in Accounts /\ e.s \in Statuses
  BY DEF Event

LEMMA FaultType == ASSUME TypeOK, Fault PROVE faults' \in 0..MaxFaults
  BY RatingAssumption DEF TypeOK, Fault

LEMMA CountLikeType ==
  ASSUME TypeOK, NEW e \in Event, CountLike(e)
  PROVE  popularity' \in [Videos -> Nat] /\ faults' \in 0..MaxFaults
<1>1. e.v \in Videos
  BY EventFields
<1>2. faults' \in 0..MaxFaults
  BY FaultType DEF CountLike, NoFault, TypeOK
<1>3. popularity' \in [Videos -> Nat]
  BY <1>1 DEF CountLike, TypeOK
<1> QED BY <1>2, <1>3

LEMMA GotoType ==
  ASSUME TypeInv, NEW p \in Procs, NEW label \in PCs, Goto(p, label), pc[p] # "idle", ev' = ev
  PROVE  pc' \in [Procs -> PCs] /\ HoldsEvent'
  BY DEF TypeInv, TypeOK, HoldsEvent, Goto

LEMMA FinishType ==
  ASSUME TypeInv, NEW p \in Procs, pc[p] # "idle", Finish(p), ev' = ev
  PROVE  /\ popularity' \in [Videos -> Nat]
         /\ faults' \in 0..MaxFaults
         /\ pc' \in [Procs -> PCs]
         /\ HoldsEvent'
<1>1. ev[p] \in Event
  BY DEF TypeInv, HoldsEvent
<1>2. popularity' \in [Videos -> Nat] /\ faults' \in 0..MaxFaults
  BY <1>1, CountLikeType DEF Finish, NoFault, TypeInv, TypeOK
<1>3. Goto(p, "ack") \/ Goto(p, "written")
  BY DEF Finish
<1>4. "ack" \in PCs /\ "written" \in PCs
  BY DEF PCs, Final
<1> QED BY <1>2, <1>3, <1>4, GotoType

LEMMA TypeInvInit == Init => TypeInv
  BY RatingAssumption DEF Init, TypeInv, TypeOK, HoldsEvent, Statuses, Like, Dislike, None, PCs

LEMMA TypeInvStep == TypeInv /\ [Next]_vars => TypeInv'
<1> SUFFICES ASSUME TypeInv, [Next]_vars PROVE TypeInv'
  OBVIOUS
<1> USE DEF TypeInv, db, sets, task, observers
<1>0. /\ {"idle", "cacheAdd", "cacheRem", "publish", "txRead", "txWrite", "inval", "ack"} \subseteq PCs
      /\ {"published", "written", "failed"} \subseteq PCs
      /\ Requests \subseteq Procs /\ Workers \subseteq Procs
  BY DEF PCs, Final, Procs
<1>1. ASSUME NEW r \in Requests, Begin(r) PROVE TypeInv'
  BY <1>0, <1>1 DEF Begin, Goto, TypeOK, HoldsEvent
<1>2. ASSUME NEW r \in Requests, CacheAdd(r) PROVE TypeInv'
  <2>1. ev[r] \in Event
    BY <1>0, <1>2 DEF CacheAdd, HoldsEvent
  <2>2. /\ likedSet' \in [Accounts -> SUBSET (Videos \cup {Placeholder})]
        /\ dislikedSet' \in [Accounts -> SUBSET (Videos \cup {Placeholder})]
    <3>1. ev[r].v \in Videos /\ ev[r].a \in Accounts
      BY <2>1, EventFields
    <3>2. CASE UNCHANGED sets
      BY <3>2 DEF TypeOK
    <3>3. CASE likedSet' = [likedSet EXCEPT ![ev[r].a] = @ \cup {ev[r].v}] /\ UNCHANGED dislikedSet
      BY <3>1, <3>3 DEF TypeOK
    <3>4. CASE dislikedSet' = [dislikedSet EXCEPT ![ev[r].a] = @ \cup {ev[r].v}] /\ UNCHANGED likedSet
      BY <3>1, <3>4 DEF TypeOK
    <3>5. CASE dislikedSet' = [dislikedSet EXCEPT ![ev[r].a] = @ \ {ev[r].v}] /\ UNCHANGED likedSet
      BY <3>1, <3>5 DEF TypeOK
    <3> QED BY <1>2, <3>2, <3>3, <3>4, <3>5 DEF CacheAdd
  <2>3. faults' \in 0..MaxFaults
    BY <1>2, FaultType DEF CacheAdd, NoFault, TypeOK
  <2>4. pc' \in [Procs -> PCs] /\ HoldsEvent'
    BY <1>0, <1>2, GotoType DEF CacheAdd
  <2> QED BY <1>2, <2>2, <2>3, <2>4 DEF CacheAdd, TypeOK
<1>3. ASSUME NEW r \in Requests, CacheRem(r) PROVE TypeInv'
  <2>1. ev[r] \in Event
    BY <1>0, <1>3 DEF CacheRem, HoldsEvent
  <2>2. /\ likedSet' \in [Accounts -> SUBSET (Videos \cup {Placeholder})]
        /\ dislikedSet' \in [Accounts -> SUBSET (Videos \cup {Placeholder})]
    BY <1>3, <2>1, EventFields DEF CacheRem, TypeOK
  <2>3. faults' \in 0..MaxFaults
    BY <1>3, FaultType DEF CacheRem, NoFault, TypeOK
  <2>4. pc' \in [Procs -> PCs] /\ HoldsEvent'
    BY <1>0, <1>3, GotoType DEF CacheRem
  <2> QED BY <1>3, <2>2, <2>3, <2>4 DEF CacheRem, TypeOK
<1>4. ASSUME NEW r \in Requests, PublishOk(r) PROVE TypeInv'
  <2>1. ev[r] \in Event /\ ev' = ev /\ pc[r] # "idle"
    BY <1>0, <1>4 DEF PublishOk, HoldsEvent
  <2>2. popularity' \in [Videos -> Nat] /\ faults' \in 0..MaxFaults
    BY <1>4, <2>1, CountLikeType DEF PublishOk
  <2>3. /\ accepted' \in [Videos -> [Accounts -> Statuses]]
        /\ dropped' \in SUBSET (Videos \X Accounts)
    BY <1>4, <2>1, EventFields DEF PublishOk, TypeOK
  <2>4. queue' \in Seq(Event)
    BY <1>4, <2>1 DEF PublishOk, TypeOK
  <2>5. pc' \in [Procs -> PCs] /\ HoldsEvent'
    BY <1>0, <1>4, <2>1, GotoType DEF PublishOk
  <2> QED BY <1>4, <2>2, <2>3, <2>4, <2>5 DEF PublishOk, TypeOK
<1>5. ASSUME NEW r \in Requests, PublishErr(r) PROVE TypeInv'
  <2>1. ev[r] \in Event /\ ev' = ev /\ pc[r] # "idle"
    BY <1>0, <1>5 DEF PublishErr, HoldsEvent
  <2>2. queue' \in Seq(Event)
    <3>1. CASE queue' = queue
      BY <3>1 DEF TypeOK
    <3>2. CASE queue' = Append(queue, ev[r])
      BY <2>1, <3>2 DEF TypeOK
    <3> QED BY <1>5, <3>1, <3>2 DEF PublishErr
  <2>3. faults' \in 0..MaxFaults
    BY <1>5, FaultType DEF PublishErr
  <2>4. pc' \in [Procs -> PCs] /\ HoldsEvent'
    BY <1>0, <1>5, <2>1, GotoType DEF PublishErr
  <2> QED BY <1>5, <2>2, <2>3, <2>4 DEF PublishErr, TypeOK
<1>50. ASSUME NEW r \in Requests, PublishLost(r) PROVE TypeInv'
  <2>1. ev[r] \in Event /\ ev' = ev /\ pc[r] # "idle"
    BY <1>0, <1>50 DEF PublishLost, HoldsEvent
  <2>2. popularity' \in [Videos -> Nat]
    <3>1. CASE popularity' = popularity
      BY <3>1 DEF TypeOK
    <3>2. CASE popularity' = [popularity EXCEPT ![ev[r].v] = IF ev[r].s = Like THEN @ + 1 ELSE @]
      BY <2>1, <3>2, EventFields DEF TypeOK
    <3> QED BY <1>50, <3>1, <3>2 DEF PublishLost
  <2>3. faults' \in 0..MaxFaults
    BY <1>50, FaultType DEF PublishLost
  <2>4. pc' \in [Procs -> PCs] /\ HoldsEvent'
    BY <1>0, <1>50, <2>1, GotoType DEF PublishLost
  <2> QED BY <1>50, <2>2, <2>3, <2>4 DEF PublishLost, TypeOK
<1>6. ASSUME NEW p \in Procs, TxRead(p) PROVE TypeInv'
  <2>1. ev[p] \in Event /\ ev' = ev /\ pc[p] # "idle"
    BY <1>6 DEF TxRead, HoldsEvent
  <2>2. old' \in [Procs -> Statuses]
    BY <1>6, <2>1, EventFields DEF TxRead, TypeOK
  <2>3. pc' \in [Procs -> PCs] /\ HoldsEvent'
    BY <1>0, <1>6, <2>1, GotoType DEF TxRead
  <2> QED BY <1>6, <2>2, <2>3 DEF TxRead, TypeOK
<1>7. ASSUME NEW p \in Procs, TxNoop(p) PROVE TypeInv'
  <2>1. Finish(p) /\ ev' = ev /\ pc[p] # "idle"
    BY <1>7 DEF TxNoop
  <2> QED BY <1>7, <2>1, FinishType DEF TxNoop, TypeOK
<1>8. ASSUME NEW p \in Procs, TxWrite(p) PROVE TypeInv'
  <2> DEFINE e == ev[p]
  <2>1. e \in Event /\ ev' = ev /\ pc[p] # "idle" /\ old[p] \in Statuses
    BY <1>8 DEF TxWrite, HoldsEvent, TypeOK
  <2>2. e.v \in Videos /\ e.a \in Accounts /\ e.s \in Statuses
    BY <2>1, EventFields
  <2>3. Clamp(liked[e.v] + DeltaLike(old[p], e.s)) \in Nat
    <3>1. liked[e.v] + DeltaLike(old[p], e.s) \in Int
      <4>1. DeltaLike(old[p], e.s) \in {-1, 0, 1}
        BY <2>1, <2>2, DeltaTypes
      <4> QED BY <2>2, <4>1 DEF TypeOK
    <3> QED BY <3>1, ClampType
  <2>4. Clamp(disliked[e.v] + DeltaDislike(old[p], e.s)) \in Nat
    <3>1. disliked[e.v] + DeltaDislike(old[p], e.s) \in Int
      <4>1. DeltaDislike(old[p], e.s) \in {-1, 0, 1}
        BY <2>1, <2>2, DeltaTypes
      <4> QED BY <2>2, <4>1 DEF TypeOK
    <3> QED BY <3>1, ClampType
  <2>5. RowAfter(rows[e.v][e.a], old[p], e.s) \in Statuses
    BY <2>2 DEF RowAfter, Statuses, None
  <2>6. rows' \in [Videos -> [Accounts -> Statuses]]
    BY <1>8, <2>2, <2>5 DEF TxWrite, TypeOK
  <2>7. liked' \in [Videos -> Nat] /\ disliked' \in [Videos -> Nat]
    BY <1>8, <2>2, <2>3, <2>4 DEF TxWrite, TypeOK
  <2>8. entity' \in [Videos -> {"absent", "fresh", "stale"}]
    BY <1>8, <2>2 DEF TxWrite, TypeOK
  <2>9. raced' \in SUBSET (Videos \X Accounts)
    BY <1>8, <2>2 DEF TxWrite, TypeOK
  <2>10. pc' \in [Procs -> PCs] /\ HoldsEvent'
    BY <1>0, <1>8, <2>1, GotoType DEF TxWrite
  <2> QED BY <1>8, <2>6, <2>7, <2>8, <2>9, <2>10 DEF TxWrite, TypeOK
<1>9. ASSUME NEW p \in Procs, pc[p] # "idle", Rollback(p), faults' \in 0..MaxFaults
      PROVE  TypeInv'
  <2>1. ev[p] \in Event /\ ev' = ev
    BY <1>9 DEF Rollback, HoldsEvent
  <2>2. tries' \in [Procs -> 0..MaxTries]
    BY <1>9, RatingAssumption DEF Rollback, TypeOK
  <2>3. dropped' \in SUBSET (Videos \X Accounts)
    <3>1. ev[p].v \in Videos /\ ev[p].a \in Accounts
      BY <2>1, EventFields
    <3>2. dropped' = dropped \/ dropped' = dropped \cup {<<ev[p].v, ev[p].a>>}
      BY <1>9 DEF Rollback
    <3> QED BY <3>1, <3>2 DEF TypeOK
  <2>4. Goto(p, "failed") \/ Goto(p, "txRead") \/ Goto(p, "ack")
    BY <1>9 DEF Rollback
  <2>5. pc' \in [Procs -> PCs] /\ HoldsEvent'
    BY <1>0, <1>9, <2>1, <2>4, GotoType
  <2> QED BY <1>9, <2>2, <2>3, <2>5 DEF Rollback, TypeOK
<1>10. ASSUME NEW p \in Procs, TxAbort(p) PROVE TypeInv'
  BY <1>10, <1>9 DEF TxAbort, NoFault, TypeOK
<1>11. ASSUME NEW p \in Procs, TxError(p) PROVE TypeInv'
  BY <1>11, <1>9, FaultType DEF TxError
<1>12. ASSUME NEW p \in Procs, Invalidate(p) PROVE TypeInv'
  <2>1. ev[p] \in Event /\ Finish(p) /\ ev' = ev /\ pc[p] # "idle"
    BY <1>12 DEF Invalidate, HoldsEvent
  <2>2. entity' \in [Videos -> {"absent", "fresh", "stale"}]
    BY <1>12, <2>1, EventFields DEF Invalidate, TypeOK
  <2> QED BY <1>12, <2>1, <2>2, FinishType DEF Invalidate, TypeOK
<1>13. ASSUME NEW p \in Procs, InvalidateFails(p) PROVE TypeInv'
  <2>1. ev[p] \in Event /\ ev' = ev /\ pc[p] # "idle"
    BY <1>13 DEF InvalidateFails, HoldsEvent
  <2>2. popularity' \in [Videos -> Nat] /\ uncleared' \in SUBSET Videos
    BY <1>13, <2>1, EventFields DEF InvalidateFails, TypeOK
  <2>3. faults' \in 0..MaxFaults
    BY <1>13, FaultType DEF InvalidateFails
  <2>4. pc' \in [Procs -> PCs] /\ HoldsEvent'
    BY <1>0, <1>13, <2>1, GotoType DEF InvalidateFails
  <2> QED BY <1>13, <2>2, <2>3, <2>4 DEF InvalidateFails, TypeOK
<1>14. ASSUME NEW w \in Workers, Forget(w)
       PROVE  /\ pc' \in [Procs -> PCs] /\ ev' \in [Procs -> Event \cup {NoEvent}]
              /\ old' \in [Procs -> Statuses] /\ tries' \in [Procs -> 0..MaxTries]
              /\ HoldsEvent'
  BY <1>0, <1>14, RatingAssumption DEF Forget, Goto, TypeOK, HoldsEvent, Statuses, None
<1>15. ASSUME NEW w \in Workers, Receive(w) PROVE TypeInv'
  <2>1. Head(queue) \in Event /\ queue' \in Seq(Event)
    BY <1>15 DEF Receive, TypeOK
  <2> QED BY <1>0, <1>15, <2>1 DEF Receive, Goto, TypeOK, HoldsEvent
<1>16. ASSUME NEW w \in Workers, Ack(w) PROVE TypeInv'
  BY <1>14, <1>16 DEF Ack, TypeOK
<1>17. ASSUME NEW p \in Procs, Crash(p) PROVE TypeInv'
  <2>1. ev[p] \in Event /\ pc[p] # "idle"
    BY <1>17 DEF Crash, HoldsEvent
  <2>2. uncleared' \in SUBSET Videos /\ faults' \in 0..MaxFaults
    BY <1>17, <2>1, EventFields, FaultType DEF Crash, TypeOK
  <2>3. CASE p \in Workers /\ queue' = <<ev[p]>> \o queue /\ Forget(p)
    <3>1. queue' \in Seq(Event)
      BY <2>1, <2>3 DEF TypeOK
    <3> QED BY <1>14, <1>17, <2>2, <2>3, <3>1 DEF Crash, TypeOK
  <2>4. CASE p \in Requests /\ Goto(p, "failed") /\ UNCHANGED <<queue, task>>
    <3>1. pc' \in [Procs -> PCs] /\ HoldsEvent'
      BY <1>0, <2>1, <2>4, GotoType
    <3> QED BY <1>17, <2>2, <2>4, <3>1 DEF Crash, TypeOK
  <2> QED BY <1>17, <2>3, <2>4 DEF Crash
<1>18. ASSUME NEW v \in Videos, LoadEntity(v) PROVE TypeInv'
  BY <1>18 DEF LoadEntity, TypeOK, HoldsEvent
<1>19. CASE UNCHANGED vars
  BY <1>19 DEF vars, TypeOK, HoldsEvent
<1> QED
  BY <1>1, <1>2, <1>3, <1>4, <1>5, <1>50, <1>6, <1>7, <1>8, <1>10, <1>11, <1>12, <1>13, <1>15, <1>16,
     <1>17, <1>18, <1>19 DEF Next, SetUserRating, SetRating, SetRatingFails

\* Every variable stays in its range, for any number of processes: in
\* particular no counter of the videos table goes below zero.
THEOREM TypeCorrect == Spec => []TypeOK
<1>1. Spec => []TypeInv
  BY TypeInvInit, TypeInvStep, PTL DEF Spec
<1> QED BY <1>1, PTL DEF TypeInv

----------------------------------------------------------------------------
(***************************************************************************)
(* Counters and rows.                                                      *)
(***************************************************************************)

\* Changing one account's row moves the number of rows of each kind by what
\* deltaCount computes for that kind.
LEMMA RatersChange ==
  ASSUME NEW R \in [Accounts -> Statuses], NEW a \in Accounts, NEW s \in Statuses, NEW k \in Statuses
  PROVE  LET S == {x \in Accounts : R[x] = k}
             T == {x \in Accounts : [R EXCEPT ![a] = s][x] = k}
         IN /\ Cardinality(S) \in Nat
            /\ Cardinality(T) = Cardinality(S) + (Vote(s, k) - Vote(R[a], k))
            /\ Cardinality(S) + (Vote(s, k) - Vote(R[a], k)) >= 0
<1> DEFINE S == {x \in Accounts : R[x] = k}
           T == {x \in Accounts : [R EXCEPT ![a] = s][x] = k}
<1>1. IsFiniteSet(S) /\ IsFiniteSet(T)
  BY RatingAssumption, FS_Subset
<1>2. Cardinality(S) \in Nat /\ Cardinality(T) \in Nat
  BY <1>1, FS_CardinalityType
<1>3. CASE R[a] = k /\ s = k
  <2>1. T = S
    BY <1>3
  <2>2. Vote(s, k) - Vote(R[a], k) = 0
    BY <1>3 DEF Vote
  <2>3. Cardinality(T) = Cardinality(S) + 0 /\ Cardinality(S) + 0 >= 0
    <3> HIDE DEF S, T
    <3> QED BY <1>2, <2>1
  <2> QED BY <1>2, <2>2, <2>3
<1>4. CASE R[a] # k /\ s # k
  <2>1. T = S
    BY <1>4
  <2> QED BY <1>2, <1>4, <2>1 DEF Vote
<1>5. CASE R[a] # k /\ s = k
  <2>1. T = S \cup {a} /\ a \notin S
    BY <1>5
  <2>2. Cardinality(T) = Cardinality(S) + 1
    BY <1>1, <2>1, FS_AddElement
  <2> QED BY <1>2, <1>5, <2>2 DEF Vote
<1>6. CASE R[a] = k /\ s # k
  <2>1. T = S \ {a} /\ a \in S
    BY <1>6
  <2>2. Cardinality(T) = Cardinality(S) - 1
    BY <1>1, <2>1, FS_RemoveElement
  <2> QED BY <1>2, <1>6, <2>2 DEF Vote
<1> QED BY <1>3, <1>4, <1>5, <1>6

LEMMA CountsInit == Init => CountsExactUnlessRaced
<1> SUFFICES ASSUME Init PROVE CountsExactUnlessRaced
  OBVIOUS
<1>1. ASSUME NEW v \in Videos PROVE Raters(v, Like) = {} /\ Raters(v, Dislike) = {}
  BY DEF Init, Raters, Like, Dislike, None
<1>2. Cardinality({}) = 0
  BY FS_EmptySet
<1> QED BY <1>1, <1>2 DEF Init, CountsExactUnlessRaced

\* The write itself: from a current snapshot the deltas follow the row.
LEMMA CountsWrite ==
  ASSUME TypeInv, CountsExactUnlessRaced, NEW p \in Procs, TxWrite(p)
  PROVE  CountsExactUnlessRaced'
<1> DEFINE e == ev[p]
<1>1. e \in Event /\ old[p] \in Statuses
  BY DEF TxWrite, TypeInv, HoldsEvent, TypeOK
<1>2. e.v \in Videos /\ e.a \in Accounts /\ e.s \in Statuses
  BY <1>1, EventFields
<1> SUFFICES ASSUME NEW v \in Videos, \A a \in Accounts : <<v, a>> \notin raced'
             PROVE  /\ liked'[v] = Cardinality(Raters(v, Like)')
                    /\ disliked'[v] = Cardinality(Raters(v, Dislike)')
  BY DEF CountsExactUnlessRaced
<1>3. \A a \in Accounts : <<v, a>> \notin raced
  BY DEF TxWrite
<1>4. liked[v] = Cardinality(Raters(v, Like)) /\ disliked[v] = Cardinality(Raters(v, Dislike))
  BY <1>3 DEF CountsExactUnlessRaced
<1>5. CASE v # e.v
  <2>1. rows'[v] = rows[v] /\ liked'[v] = liked[v] /\ disliked'[v] = disliked[v]
    BY <1>2, <1>5 DEF TxWrite, TypeInv, TypeOK
  <2>2. Raters(v, Like)' = Raters(v, Like) /\ Raters(v, Dislike)' = Raters(v, Dislike)
    BY <2>1 DEF Raters
  <2> QED BY <1>4, <2>1, <2>2
<1>6. CASE v = e.v
  <2> DEFINE R == rows[v]
  <2>1. old[p] = R[e.a]
    BY <1>2, <1>6 DEF TxWrite
  <2>2. R \in [Accounts -> Statuses]
    BY DEF TypeInv, TypeOK
  <2>3. RowAfter(R[e.a], old[p], e.s) = e.s
    BY <2>1 DEF RowAfter
  <2>4. rows'[v] = [R EXCEPT ![e.a] = e.s]
    BY <1>2, <1>6, <2>2, <2>3 DEF TxWrite, TypeInv, TypeOK
  <2>5. /\ liked'[v] = Clamp(liked[v] + DeltaLike(old[p], e.s))
        /\ disliked'[v] = Clamp(disliked[v] + DeltaDislike(old[p], e.s))
    BY <1>2, <1>6 DEF TxWrite, TypeInv, TypeOK
  <2>6. ASSUME NEW k \in Statuses, NEW n, n = Cardinality(Raters(v, k))
        PROVE  Cardinality(Raters(v, k)') = Clamp(n + (Vote(e.s, k) - Vote(old[p], k)))
    <3> DEFINE S == {x \in Accounts : R[x] = k}
               T == {x \in Accounts : [R EXCEPT ![e.a] = e.s][x] = k}
    <3>1. /\ Cardinality(S) \in Nat
          /\ Cardinality(T) = Cardinality(S) + (Vote(e.s, k) - Vote(R[e.a], k))
          /\ Cardinality(S) + (Vote(e.s, k) - Vote(R[e.a], k)) >= 0
      BY <1>2, <2>2, RatersChange
    <3>2. Raters(v, k) = S
      BY DEF Raters
    <3>3. Raters(v, k)' = T
      BY <2>4 DEF Raters
    <3>4. n + (Vote(e.s, k) - Vote(old[p], k)) = Cardinality(T)
      BY <2>1, <2>6, <3>1, <3>2
    <3>5. Cardinality(T) \in Int /\ Cardinality(T) >= 0
      <4>1. Vote(e.s, k) - Vote(R[e.a], k) \in Int
        BY DEF Vote
      <4> HIDE DEF S, T
      <4> QED BY <3>1, <4>1
    <3> HIDE DEF S, T
    <3>6. Clamp(Cardinality(T)) = Cardinality(T)
      BY <3>5 DEF Clamp
    <3> QED BY <3>3, <3>4, <3>6
  <2>7. Cardinality(Raters(v, Like)') = Clamp(liked[v] + DeltaLike(old[p], e.s))
    BY <1>4, <2>6 DEF DeltaLike, Statuses
  <2>8. Cardinality(Raters(v, Dislike)') = Clamp(disliked[v] + DeltaDislike(old[p], e.s))
    BY <1>4, <2>6 DEF DeltaDislike, Statuses
  <2> QED BY <2>5, <2>7, <2>8
<1> QED BY <1>5, <1>6

\* No other step touches the rows, the counters or the record of races.
LEMMA OnlyWriteTouchesDb ==
  ASSUME [Next]_vars, ~ \E p \in Procs : TxWrite(p)
  PROVE  UNCHANGED <<rows, liked, disliked, raced>>
<1> USE DEF db, observers
<1>1. ASSUME NEW r \in Requests, SetUserRating(r) PROVE UNCHANGED <<rows, liked, disliked, raced>>
  BY <1>1 DEF SetUserRating, Begin, CacheAdd, CacheRem, PublishOk, PublishLost, PublishErr
<1>2. ASSUME NEW p \in Procs, SetRating(p) PROVE UNCHANGED <<rows, liked, disliked, raced>>
  BY <1>2 DEF SetRating, TxRead, TxNoop, TxAbort, Rollback, Invalidate
<1>3. ASSUME NEW p \in Procs, SetRatingFails(p) PROVE UNCHANGED <<rows, liked, disliked, raced>>
  BY <1>3 DEF SetRatingFails, TxError, Rollback, InvalidateFails, Crash
<1>4. ASSUME NEW w \in Workers, Receive(w) \/ Ack(w) PROVE UNCHANGED <<rows, liked, disliked, raced>>
  BY <1>4 DEF Receive, Ack
<1>5. ASSUME NEW v \in Videos, LoadEntity(v) PROVE UNCHANGED <<rows, liked, disliked, raced>>
  BY <1>5 DEF LoadEntity
<1>6. CASE UNCHANGED vars
  BY <1>6 DEF vars
<1> QED BY <1>1, <1>2, <1>3, <1>4, <1>5, <1>6 DEF Next

LEMMA CountsStep == TypeInv /\ CountsExactUnlessRaced /\ [Next]_vars => CountsExactUnlessRaced'
<1> SUFFICES ASSUME TypeInv, CountsExactUnlessRaced, [Next]_vars PROVE CountsExactUnlessRaced'
  OBVIOUS
<1>1. CASE \E p \in Procs : TxWrite(p)
  BY <1>1, CountsWrite
<1>2. CASE ~ \E p \in Procs : TxWrite(p)
  <2>1. UNCHANGED <<rows, liked, disliked, raced>>
    BY <1>2, OnlyWriteTouchesDb
  <2> QED BY <2>1 DEF CountsExactUnlessRaced, Raters
<1> QED BY <1>1, <1>2

\* However many consumers and fallbacks write at the same time, the counters of
\* a video equal its rows for as long as no transaction wrote one of its pairs
\* from an outdated snapshot: retries, redelivery and crashes do no harm.
THEOREM CountsFollowRows == Spec => []CountsExactUnlessRaced
<1>1. Spec => [](TypeInv /\ CountsExactUnlessRaced)
  BY TypeInvInit, TypeInvStep, CountsInit, CountsStep, PTL DEF Spec
<1> QED BY <1>1, PTL

----------------------------------------------------------------------------
(***************************************************************************)
(* Races need a request that writes the database itself.                   *)
(***************************************************************************)
DirectPCs == {"txRead", "txWrite", "inval", "written", "failed"}

\* A request that has left the queue's path stays off it, with its event.
LEMMA DirectRequest ==
  ASSUME TypeInv, [Next]_vars, NEW r \in Requests, pc[r] \in DirectPCs
  PROVE  ev'[r] = ev[r] /\ pc'[r] \in DirectPCs
<1> USE DEF TypeInv, TypeOK, Goto, DirectPCs, task
<1>0. r \in Procs /\ r \notin Workers
  BY RatingAssumption DEF Procs
<1>1. ASSUME NEW q \in Requests, SetUserRating(q) PROVE ev'[r] = ev[r] /\ pc'[r] \in DirectPCs
  BY <1>0, <1>1 DEF SetUserRating, Begin, CacheAdd, CacheRem, PublishOk, PublishLost, PublishErr
<1>2. ASSUME NEW q \in Procs, SetRating(q) PROVE ev'[r] = ev[r] /\ pc'[r] \in DirectPCs
  BY <1>0, <1>2 DEF SetRating, TxRead, TxNoop, TxWrite, TxAbort, Rollback, Invalidate, Finish
<1>3. ASSUME NEW q \in Procs, SetRatingFails(q) PROVE ev'[r] = ev[r] /\ pc'[r] \in DirectPCs
  BY <1>0, <1>3 DEF SetRatingFails, TxError, Rollback, InvalidateFails, Crash, Forget
<1>4. ASSUME NEW w \in Workers, Receive(w) \/ Ack(w) PROVE ev'[r] = ev[r] /\ pc'[r] \in DirectPCs
  BY <1>0, <1>4 DEF Receive, Ack, Forget
<1>5. ASSUME NEW v \in Videos, LoadEntity(v) PROVE ev'[r] = ev[r] /\ pc'[r] \in DirectPCs
  BY <1>5 DEF LoadEntity
<1>6. CASE UNCHANGED vars
  BY <1>6 DEF vars
<1> QED BY <1>1, <1>2, <1>3, <1>4, <1>5, <1>6 DEF Next

LEMMA DirectStays ==
  ASSUME TypeInv, [Next]_vars, NEW v, NEW a, Direct(v, a)
  PROVE  Direct(v, a)'
<1>1. PICK r \in Requests : ForPair(ev[r], v, a) /\ pc[r] \in DirectPCs
  BY DEF Direct, DirectPCs
<1>2. ev'[r] = ev[r] /\ pc'[r] \in DirectPCs
  BY <1>1, DirectRequest
<1> QED BY <1>1, <1>2 DEF Direct, DirectPCs, ForPair

\* A process that is about to write has just read, or was about to write already.
LEMMA AboutToWrite ==
  ASSUME TypeInv, [Next]_vars, NEW p \in Procs, pc'[p] = "txWrite"
  PROVE  \/ TxRead(p)
         \/ pc[p] = "txWrite" /\ ev'[p] = ev[p] /\ old'[p] = old[p] /\ ~TxWrite(p)
<1> USE DEF TypeInv, TypeOK, Goto, task
<1> DEFINE Goal == \/ TxRead(p)
                   \/ pc[p] = "txWrite" /\ ev'[p] = ev[p] /\ old'[p] = old[p] /\ ~TxWrite(p)
<1>1. ASSUME NEW q \in Requests, SetUserRating(q) PROVE Goal
  <2>1. q \in Procs
    BY DEF Procs
  <2> QED BY <1>1, <2>1 DEF SetUserRating, Begin, CacheAdd, CacheRem, PublishOk, PublishLost, PublishErr, TxWrite
<1>2. ASSUME NEW q \in Procs, SetRating(q) PROVE Goal
  <2>1. CASE TxRead(q)
    BY <2>1 DEF TxRead, TxWrite
  <2>2. CASE TxNoop(q) \/ TxWrite(q) \/ TxAbort(q) \/ Invalidate(q)
    BY <2>2 DEF TxNoop, TxWrite, TxAbort, Rollback, Invalidate, Finish
  <2> QED BY <1>2, <2>1, <2>2 DEF SetRating
<1>3. ASSUME NEW q \in Procs, SetRatingFails(q) PROVE Goal
  BY <1>3 DEF SetRatingFails, TxError, Rollback, InvalidateFails, Crash, Forget, TxWrite
<1>4. ASSUME NEW w \in Workers, Receive(w) \/ Ack(w) PROVE Goal
  <2>1. w \in Procs
    BY DEF Procs
  <2> QED BY <1>4, <2>1 DEF Receive, Ack, Forget, TxWrite
<1>5. ASSUME NEW v \in Videos, LoadEntity(v) PROVE Goal
  BY <1>5 DEF LoadEntity, TxWrite
<1>6. CASE UNCHANGED vars
  BY <1>6 DEF vars, TxWrite
<1> QED BY <1>1, <1>2, <1>3, <1>4, <1>5, <1>6 DEF Next

\* The strengthening: a snapshot about to be written is current, or a request
\* has left the queue's path for its pair.
SnapshotCurrent ==
  \A p \in Procs :
    pc[p] = "txWrite" => \/ old[p] = rows[ev[p].v][ev[p].a]
                         \/ Direct(ev[p].v, ev[p].a)

RaceInv == TypeInv /\ SnapshotCurrent /\ RacedOnlyByFallback

LEMMA RaceInvInit == Init => RaceInv
<1>1. Init => SnapshotCurrent /\ RacedOnlyByFallback
  BY DEF Init, SnapshotCurrent, RacedOnlyByFallback
<1> QED BY <1>1, TypeInvInit DEF RaceInv

LEMMA SnapshotCurrentStep ==
  ASSUME \A w1, w2 \in Workers : w1 = w2, RaceInv, [Next]_vars
  PROVE  SnapshotCurrent'
<1> SUFFICES ASSUME NEW p \in Procs, pc'[p] = "txWrite"
             PROVE  (old[p] = rows[ev[p].v][ev[p].a] \/ Direct(ev[p].v, ev[p].a))'
  BY DEF SnapshotCurrent
<1>1. CASE TxRead(p)
  BY <1>1 DEF TxRead, db, RaceInv, TypeInv, TypeOK
<1>2. CASE pc[p] = "txWrite" /\ ev'[p] = ev[p] /\ old'[p] = old[p] /\ ~TxWrite(p)
  <2> PICK v, a : v = ev[p].v /\ a = ev[p].a
    OBVIOUS
  <2>0. ev[p] \in Event /\ v \in Videos /\ a \in Accounts
    BY <1>2, EventFields DEF RaceInv, TypeInv, HoldsEvent
  <2>1. CASE Direct(v, a)
    <3>1. Direct(v, a)'
      BY <2>1, DirectStays DEF RaceInv
    <3> QED BY <1>2, <3>1 DEF Direct
  <2>2. CASE ~Direct(v, a)
    <3>1. old[p] = rows[v][a]
      BY <1>2, <2>2 DEF RaceInv, SnapshotCurrent
    <3>2. p \in Workers
      <4>1. ForPair(ev[p], v, a)
        BY <2>0, RatingAssumption DEF ForPair, Event, Statuses, Like, Dislike, None
      <4> QED BY <1>2, <2>2, <4>1 DEF Direct, Procs
    <3>3. ASSUME NEW q \in Procs, TxWrite(q), ev[q].v = v, ev[q].a = a PROVE FALSE
      <4>1. q # p
        BY <1>2, <3>3
      <4>2. q \in Requests
        BY <3>2, <4>1 DEF Procs
      <4>3. ev[q] \in Event
        BY <3>3 DEF TxWrite, RaceInv, TypeInv, HoldsEvent
      <4>4. ForPair(ev[q], v, a)
        BY <3>3, <4>3, RatingAssumption DEF ForPair, Event, Statuses, Like, Dislike, None
      <4>5. pc[q] = "txWrite"
        BY <3>3 DEF TxWrite
      <4>6. Direct(v, a)
        BY <4>2, <4>4, <4>5 DEF Direct
      <4> QED BY <2>2, <4>6
    <3>4. rows'[v][a] = rows[v][a]
      <4>1. CASE \E q \in Procs : TxWrite(q)
        <5>1. PICK q \in Procs : TxWrite(q)
          BY <4>1
        <5>2. ev[q].v # v \/ ev[q].a # a
          BY <3>3, <5>1
        <5>3. ev[q].v \in Videos /\ ev[q].a \in Accounts
          BY <5>1, EventFields DEF TxWrite, RaceInv, TypeInv, HoldsEvent
        <5>4. rows' = [rows EXCEPT ![ev[q].v][ev[q].a] = RowAfter(@, old[q], ev[q].s)]
          BY <5>1 DEF TxWrite
        <5>5. rows \in [Videos -> [Accounts -> Statuses]]
          BY DEF RaceInv, TypeInv, TypeOK
        <5> QED BY <2>0, <5>2, <5>3, <5>4, <5>5
      <4>2. CASE ~ \E q \in Procs : TxWrite(q)
        BY <4>2, OnlyWriteTouchesDb
      <4> QED BY <4>1, <4>2
    <3> QED BY <1>2, <3>1, <3>4
  <2> QED BY <2>1, <2>2
<1> QED BY <1>1, <1>2, AboutToWrite DEF RaceInv

LEMMA RacedStep ==
  ASSUME RaceInv, [Next]_vars
  PROVE  RacedOnlyByFallback'
<1> SUFFICES ASSUME NEW v \in Videos, NEW a \in Accounts, <<v, a>> \in raced'
             PROVE  Direct(v, a)'
  BY DEF RacedOnlyByFallback
<1>1. CASE <<v, a>> \in raced
  <2>1. Direct(v, a)
    BY <1>1 DEF RaceInv, RacedOnlyByFallback
  <2> QED BY <2>1, DirectStays DEF RaceInv
<1>2. CASE <<v, a>> \notin raced
  <2>1. PICK p \in Procs : TxWrite(p)
    BY <1>2, OnlyWriteTouchesDb
  <2>2. ev[p].v = v /\ ev[p].a = a /\ old[p] # rows[v][a] /\ pc[p] = "txWrite"
    BY <1>2, <2>1 DEF TxWrite
  <2>3. Direct(v, a)
    BY <2>2 DEF RaceInv, SnapshotCurrent
  <2> QED BY <2>3, DirectStays DEF RaceInv
<1> QED BY <1>1, <1>2

\* With one consumer, as the worker process starts it, a pair is written from an
\* outdated snapshot only if a request for it fell back to the database.
THEOREM RacesNeedFallback ==
  ASSUME \A w1, w2 \in Workers : w1 = w2
  PROVE  Spec => []RacedOnlyByFallback
<1>1. RaceInv /\ [Next]_vars => RaceInv'
  BY TypeInvStep, SnapshotCurrentStep, RacedStep DEF RaceInv
<1>2. Spec => []RaceInv
  BY <1>1, RaceInvInit, PTL DEF Spec
<1> QED BY <1>2, PTL DEF RaceInv

\* So the counters of every video are those of its rows until a request for the
\* pair falls back to the database, for any number of accounts, videos and requests.
THEOREM CountsExact ==
  ASSUME \A w1, w2 \in Workers : w1 = w2
  PROVE  Spec => []CountsExactUnlessFallback
<1>1. Spec => []CountsExactUnlessRaced
  BY CountsFollowRows
<1>2. Spec => []RacedOnlyByFallback
  BY RacesNeedFallback
<1> QED BY <1>1, <1>2, PTL DEF CountsExactUnlessFallback

----------------------------------------------------------------------------
(***************************************************************************)
(* Out-of-date cached counters.                                            *)
(***************************************************************************)

\* A process that owes the deletion keeps owing it, does it, or is recorded.
LEMMA OwedDeletion ==
  ASSUME TypeInv, [Next]_vars, NEW p \in Procs, pc[p] = "inval"
  PROVE  \/ pc'[p] = "inval" /\ ev'[p] = ev[p]
         \/ entity' = [entity EXCEPT ![ev[p].v] = "absent"]
         \/ ev[p].v \in uncleared'
<1> USE DEF TypeInv, TypeOK, Goto, task
<1> DEFINE Goal == \/ pc'[p] = "inval" /\ ev'[p] = ev[p]
                   \/ entity' = [entity EXCEPT ![ev[p].v] = "absent"]
                   \/ ev[p].v \in uncleared'
<1>1. ASSUME NEW q \in Requests, SetUserRating(q) PROVE Goal
  BY <1>1 DEF SetUserRating, Begin, CacheAdd, CacheRem, PublishOk, PublishLost, PublishErr
<1>2. ASSUME NEW q \in Procs, SetRating(q) PROVE Goal
  <2>1. CASE TxRead(q) \/ TxNoop(q) \/ TxWrite(q) \/ TxAbort(q)
    BY <2>1 DEF TxRead, TxNoop, TxWrite, TxAbort, Rollback, Finish
  <2>2. CASE Invalidate(q)
    BY <2>2 DEF Invalidate, Finish
  <2> QED BY <1>2, <2>1, <2>2 DEF SetRating
<1>3. ASSUME NEW q \in Procs, SetRatingFails(q) PROVE Goal
  BY <1>3 DEF SetRatingFails, TxError, Rollback, InvalidateFails, Crash, Forget
<1>4. ASSUME NEW w \in Workers, Receive(w) \/ Ack(w) PROVE Goal
  BY <1>4 DEF Receive, Ack, Forget
<1>5. ASSUME NEW v \in Videos, LoadEntity(v) PROVE Goal
  BY <1>5 DEF LoadEntity
<1>6. CASE UNCHANGED vars
  BY <1>6 DEF vars
<1> QED BY <1>1, <1>2, <1>3, <1>4, <1>5, <1>6 DEF Next

\* An entity is out of date because it was, or because a write just made it so;
\* lost deletions stay on record.
LEMMA StaleOrigin ==
  ASSUME TypeInv, [Next]_vars, NEW v \in Videos, entity'[v] = "stale"
  PROVE  /\ \/ entity[v] = "stale"
            \/ \E p \in Procs : ev[p].v = v /\ pc'[p] = "inval" /\ ev'[p] = ev[p]
         /\ uncleared \subseteq uncleared'
<1> USE DEF TypeInv, TypeOK, Goto, db, sets, task, observers
<1> DEFINE Goal == /\ \/ entity[v] = "stale"
                      \/ \E p \in Procs : ev[p].v = v /\ pc'[p] = "inval" /\ ev'[p] = ev[p]
                   /\ uncleared \subseteq uncleared'
<1>1. ASSUME NEW q \in Requests, SetUserRating(q) PROVE Goal
  BY <1>1 DEF SetUserRating, Begin, CacheAdd, CacheRem, PublishOk, PublishLost, PublishErr
<1>2. ASSUME NEW q \in Procs, SetRating(q) PROVE Goal
  <2>1. CASE TxRead(q) \/ TxNoop(q) \/ TxAbort(q)
    BY <2>1 DEF TxRead, TxNoop, TxAbort, Rollback
  <2>2. CASE Invalidate(q)
    <3>1. ev[q].v \in Videos
      BY <2>2, EventFields DEF Invalidate, HoldsEvent
    <3> QED BY <2>2, <3>1 DEF Invalidate
  <2>3. CASE TxWrite(q)
    <3>1. ev[q].v \in Videos
      BY <2>3, EventFields DEF TxWrite, HoldsEvent
    <3>2. pc'[q] = "inval" /\ ev'[q] = ev[q]
      BY <2>3 DEF TxWrite
    <3>3. CASE ev[q].v = v
      BY <2>3, <3>2, <3>3 DEF TxWrite
    <3>4. CASE ev[q].v # v
      <4>1. entity'[v] = entity[v]
        BY <2>3, <3>1, <3>4 DEF TxWrite
      <4> QED BY <2>3, <4>1 DEF TxWrite
    <3> QED BY <3>3, <3>4
  <2> QED BY <1>2, <2>1, <2>2, <2>3 DEF SetRating
<1>3. ASSUME NEW q \in Procs, SetRatingFails(q) PROVE Goal
  BY <1>3 DEF SetRatingFails, TxError, Rollback, InvalidateFails, Crash
<1>4. ASSUME NEW w \in Workers, Receive(w) \/ Ack(w) PROVE Goal
  BY <1>4 DEF Receive, Ack
<1>5. ASSUME NEW x \in Videos, LoadEntity(x) PROVE Goal
  BY <1>5 DEF LoadEntity
<1>6. CASE UNCHANGED vars
  BY <1>6 DEF vars
<1> QED BY <1>1, <1>2, <1>3, <1>4, <1>5, <1>6 DEF Next

LEMMA StaleStep == TypeInv /\ StaleEntityBeingCleared /\ [Next]_vars => StaleEntityBeingCleared'
<1> SUFFICES ASSUME TypeInv, StaleEntityBeingCleared, [Next]_vars,
                    NEW v \in Videos, entity'[v] = "stale"
             PROVE  v \in uncleared' \/ \E p \in Procs : pc'[p] = "inval" /\ ev'[p].v = v
  BY DEF StaleEntityBeingCleared
<1>1. CASE \E p \in Procs : ev[p].v = v /\ pc'[p] = "inval" /\ ev'[p] = ev[p]
  BY <1>1
<1>2. CASE entity[v] = "stale"
  <2>1. CASE v \in uncleared
    BY <2>1, StaleOrigin
  <2>2. CASE v \notin uncleared
    <3>1. PICK p \in Procs : pc[p] = "inval" /\ ev[p].v = v
      BY <1>2, <2>2 DEF StaleEntityBeingCleared
    <3>2. ~(entity' = [entity EXCEPT ![ev[p].v] = "absent"])
      BY <3>1 DEF TypeInv, TypeOK
    <3> QED BY <3>1, <3>2, OwedDeletion
  <2> QED BY <2>1, <2>2
<1> QED BY <1>1, <1>2, StaleOrigin

\* Whatever the number of writers, a cached entity with out-of-date counters has
\* a writer about to delete it, unless a deletion failed or its process died.
THEOREM StaleEntitiesAreOwed == Spec => []StaleEntityBeingCleared
<1>1. Init => StaleEntityBeingCleared
  BY DEF Init, StaleEntityBeingCleared
<1>2. Spec => [](TypeInv /\ StaleEntityBeingCleared)
  BY <1>1, TypeInvInit, TypeInvStep, StaleStep, PTL DEF Spec
<1> QED BY <1>2, PTL
----------------------------------------------------------------------------
(***************************************************************************)
(* The latest accepted rating.  With one consumer, what it has and what    *)
(* the queue has after it are one line that grows at its end and shrinks   *)
(* at its head, also through a crash.  The last event of a pair in it is   *)
(* the last that was accepted; without one, the row is what was accepted.  *)
(***************************************************************************)

Line(w) == IF pc[w] = "idle" THEN queue ELSE <<ev[w]>> \o queue
Of(e, v, a) == e.v = v /\ e.a = a
Waits(w, v, a) == \E i \in DOMAIN Line(w) : Of(Line(w)[i], v, a)
LastIs(w, v, a, s) == \E i \in DOMAIN Line(w) :
  Of(Line(w)[i], v, a) /\ Line(w)[i].s = s /\ \A j \in DOMAIN Line(w) : Of(Line(w)[j], v, a) => j <= i
Excused(v, a) == <<v, a>> \in dropped \/ Direct(v, a)

Promised(w) == \A v \in Videos, a \in Accounts :
  \/ Excused(v, a)
  \/ LastIs(w, v, a, accepted[v][a])
  \/ ~Waits(w, v, a) /\ rows[v][a] = accepted[v][a]
Handled(w) == pc[w] \in {"inval", "ack"} => \A v \in Videos, a \in Accounts : Of(ev[w], v, a) =>
  \/ Excused(v, a)
  \/ \E i \in DOMAIN queue : Of(queue[i], v, a)
  \/ rows[v][a] = ev[w].s
IdleEmpty(w) == pc[w] = "idle" => ev[w] = NoEvent
PromiseInv(w) == RaceInv /\ Promised(w) /\ Handled(w) /\ IdleEmpty(w)

LEMMA NoEventIsNone == NoEvent \notin Event
  BY RatingAssumption DEF Event, Statuses, Like, Dislike, None

LEMMA AppendFacts ==
  ASSUME NEW S, NEW l \in Seq(S), NEW e \in S, NEW n, n = Len(l), NEW L, L = Append(l, e)
  PROVE  /\ n \in Nat /\ DOMAIN l = 1..n /\ DOMAIN L = 1..n + 1 /\ n + 1 \in DOMAIN L
         /\ L[n + 1] = e /\ \A i \in DOMAIN l : i \in DOMAIN L /\ L[i] = l[i]
         /\ \A j \in DOMAIN L : j <= n + 1 /\ (j \in DOMAIN l \/ j = n + 1)
<1>1. n \in Nat /\ DOMAIN l = 1..n
  OBVIOUS
<1>2. DOMAIN L = 1..n + 1 /\ L[n + 1] = e /\ \A i \in 1..n : L[i] = l[i]
  OBVIOUS
<1> QED BY <1>1, <1>2

LEMMA LineType ==
  ASSUME TypeInv, NEW w \in Workers
  PROVE  /\ Line(w) \in Seq(Event) /\ Len(Line(w)) \in Nat /\ DOMAIN Line(w) = 1..Len(Line(w))
         /\ pc[w] # "idle" => /\ 1 \in DOMAIN Line(w) /\ Line(w)[1] = ev[w] /\ Len(Line(w)) = Len(queue) + 1
                              /\ \A i \in 1..Len(queue) : Line(w)[i + 1] = queue[i]
<1>1. queue \in Seq(Event) /\ (pc[w] # "idle" => ev[w] \in Event)
  BY DEF TypeInv, TypeOK, HoldsEvent, Procs
<1> QED BY <1>1 DEF Line

\* Steps of others leave a consumer where it is, and take nothing from the queue.
LEMMA OthersMove ==
  ASSUME TypeInv, [Next]_vars, NEW w, Workers = {w},
         ~SetRating(w), ~SetRatingFails(w), ~Receive(w), ~Ack(w)
  PROVE  /\ pc'[w] = pc[w] /\ ev'[w] = ev[w]
         /\ \/ queue' = queue /\ UNCHANGED <<accepted, dropped>>
            \/ \E r \in Requests : PublishOk(r) \/ (PublishErr(r) /\ queue' = Append(queue, ev[r]))
<1> USE DEF TypeInv, TypeOK, Goto, task, observers
<1>0. w \in Procs /\ w \notin Requests
  BY RatingAssumption DEF Procs
<1>1. ASSUME NEW r \in Requests, SetUserRating(r)
      PROVE  /\ pc'[w] = pc[w] /\ ev'[w] = ev[w]
             /\ \/ queue' = queue /\ UNCHANGED <<accepted, dropped>>
                \/ PublishOk(r) \/ (PublishErr(r) /\ queue' = Append(queue, ev[r]))
  BY <1>0, <1>1 DEF SetUserRating, Begin, CacheAdd, CacheRem, PublishOk, PublishLost, PublishErr
<1>2. ASSUME NEW p \in Procs, SetRating(p) \/ SetRatingFails(p)
      PROVE  pc'[w] = pc[w] /\ ev'[w] = ev[w] /\ queue' = queue /\ UNCHANGED <<accepted, dropped>>
  <2>1. p \in Requests /\ p # w /\ p \notin Workers
    BY <1>0, <1>2, RatingAssumption DEF Procs
  <2>2. CASE SetRating(p)
    BY <1>0, <2>1, <2>2 DEF SetRating, TxRead, TxNoop, TxWrite, TxAbort, Rollback, Invalidate, Finish
  <2>3. CASE SetRatingFails(p)
    BY <1>0, <2>1, <2>3 DEF SetRatingFails, TxError, Rollback, InvalidateFails, Crash
  <2> QED BY <1>2, <2>2, <2>3
<1>3. ASSUME NEW v \in Videos, LoadEntity(v)
      PROVE  pc'[w] = pc[w] /\ ev'[w] = ev[w] /\ queue' = queue /\ UNCHANGED <<accepted, dropped>>
  BY <1>3 DEF LoadEntity
<1>4. CASE UNCHANGED vars
  BY <1>4 DEF vars
<1> QED BY <1>1, <1>2, <1>3, <1>4 DEF Next

\* How the line changes.
LEMMA LineMoves ==
  ASSUME TypeInv, [Next]_vars, NEW w, Workers = {w}
  PROVE  \/ Line(w)' = Line(w) /\ accepted' = accepted /\ dropped \subseteq dropped'
         \/ \E r \in Requests : Line(w)' = Append(Line(w), ev[r]) /\ (PublishOk(r) \/ PublishErr(r))
         \/ Ack(w) /\ Line(w)' = Tail(Line(w)) /\ queue = Tail(Line(w))
<1> USE DEF TypeInv, TypeOK, Goto, task, observers
<1>0. w \in Procs /\ w \notin Requests /\ queue \in Seq(Event) /\ (pc[w] # "idle" => ev[w] \in Event)
  BY RatingAssumption DEF Procs, HoldsEvent
<1>1. CASE SetRating(w)
  <2>1. /\ UNCHANGED <<ev, queue, accepted>> /\ pc[w] # "idle" /\ dropped \subseteq dropped'
        /\ \E label : label # "idle" /\ pc' = [pc EXCEPT ![w] = label]
    BY <1>1 DEF SetRating, TxRead, TxNoop, TxWrite, TxAbort, Rollback, Invalidate, Finish
  <2> QED BY <1>0, <2>1 DEF Line
<1>2. CASE TxError(w) \/ InvalidateFails(w)
  <2>1. /\ UNCHANGED <<ev, queue, accepted>> /\ pc[w] # "idle" /\ dropped \subseteq dropped'
        /\ \E label : label # "idle" /\ pc' = [pc EXCEPT ![w] = label]
    BY <1>2 DEF TxError, Rollback, InvalidateFails
  <2> QED BY <1>0, <2>1 DEF Line
<1>3. CASE Crash(w)
  <2>1. pc[w] # "idle" /\ queue' = <<ev[w]>> \o queue /\ pc'[w] = "idle" /\ UNCHANGED <<accepted, dropped>>
    BY <1>0, <1>3 DEF Crash, Forget
  <2> QED BY <2>1 DEF Line
<1>4. CASE Receive(w)
  <2>1. /\ pc[w] = "idle" /\ queue # <<>> /\ queue' = Tail(queue) /\ pc'[w] = "txRead" /\ ev'[w] = Head(queue)
        /\ UNCHANGED <<accepted, dropped>>
    BY <1>0, <1>4 DEF Receive
  <2>2. <<Head(queue)>> \o Tail(queue) = queue
    BY <1>0, <2>1
  <2> QED BY <2>1, <2>2 DEF Line
<1>5. CASE Ack(w)
  <2>1. pc[w] = "ack" /\ pc'[w] = "idle" /\ queue' = queue
    BY <1>0, <1>5 DEF Ack, Forget
  <2>2. Tail(<<ev[w]>> \o queue) = queue
    BY <1>0, <2>1
  <2> QED BY <1>5, <2>1, <2>2 DEF Line
<1>6. CASE ~SetRating(w) /\ ~SetRatingFails(w) /\ ~Receive(w) /\ ~Ack(w)
  <2>1. pc'[w] = pc[w] /\ ev'[w] = ev[w]
    BY <1>6, OthersMove
  <2>2. CASE queue' = queue /\ UNCHANGED <<accepted, dropped>>
    BY <2>1, <2>2 DEF Line
  <2>3. ASSUME NEW r \in Requests, PublishOk(r) \/ PublishErr(r), queue' = Append(queue, ev[r])
        PROVE  Line(w)' = Append(Line(w), ev[r])
    <3>1. ev[r] \in Event
      BY <2>3 DEF PublishOk, PublishErr, HoldsEvent, Procs
    <3>2. CASE pc[w] = "idle"
      BY <2>1, <2>3, <3>2 DEF Line
    <3>3. CASE pc[w] # "idle"
      <4>1. <<ev[w]>> \o Append(queue, ev[r]) = Append(<<ev[w]>> \o queue, ev[r])
        BY <1>0, <3>1, <3>3
      <4> QED BY <2>1, <2>3, <3>3, <4>1 DEF Line
    <3> QED BY <3>2, <3>3
  <2>4. \A r \in Requests : PublishOk(r) => queue' = Append(queue, ev[r])
    BY DEF PublishOk
  <2> QED BY <1>6, <2>2, <2>3, <2>4, OthersMove
<1> QED BY <1>1, <1>2, <1>3, <1>4, <1>5, <1>6 DEF SetRatingFails

\* A request that is about to write, or has written, a pair by itself.
LEMMA DirectBy ==
  ASSUME TypeInv, NEW r \in Requests, pc[r] \in DirectPCs, NEW v, NEW a, Of(ev[r], v, a)
  PROVE  Direct(v, a)
<1>1. ev[r] \in Event
  BY DEF DirectPCs, TypeInv, HoldsEvent, Procs
<1> QED BY <1>1, NoEventIsNone DEF Direct, DirectPCs, ForPair, Of

\* The row of a pair is written by a request, or by the consumer from its event.
LEMMA RowWritten ==
  ASSUME TypeInv, [Next]_vars, NEW w, Workers = {w}, NEW v \in Videos, NEW a \in Accounts, ~Direct(v, a),
         ~(TxWrite(w) /\ Of(ev[w], v, a))
  PROVE  rows'[v][a] = rows[v][a]
<1>1. CASE ~ \E p \in Procs : TxWrite(p)
  BY <1>1, OnlyWriteTouchesDb
<1>2. ASSUME NEW p \in Procs, TxWrite(p) PROVE rows'[v][a] = rows[v][a]
  <2>1. ~Of(ev[p], v, a)
    <3>1. pc[p] \in DirectPCs
      BY <1>2 DEF TxWrite, DirectPCs
    <3> QED BY <1>2, <3>1, DirectBy DEF Procs
  <2>2. ev[p].v \in Videos /\ ev[p].a \in Accounts
    BY <1>2, EventFields DEF TxWrite, TypeInv, HoldsEvent
  <2>3. rows' = [rows EXCEPT ![ev[p].v][ev[p].a] = RowAfter(@, old[p], ev[p].s)]
    BY <1>2 DEF TxWrite
  <2> QED BY <2>1, <2>2, <2>3 DEF Of, TypeInv, TypeOK
<1> QED BY <1>1, <1>2

LEMMA PromisedStep ==
  ASSUME NEW w, Workers = {w}, PromiseInv(w), [Next]_vars
  PROVE  Promised(w)'
<1>0. TypeInv /\ TypeInv' /\ Promised(w) /\ Handled(w)
  BY TypeInvStep DEF PromiseInv, RaceInv
<1>1. /\ Line(w) \in Seq(Event) /\ Len(Line(w)) \in Nat /\ DOMAIN Line(w) = 1..Len(Line(w))
      /\ pc[w] # "idle" => /\ 1 \in DOMAIN Line(w) /\ Line(w)[1] = ev[w] /\ Len(Line(w)) = Len(queue) + 1
                           /\ \A i \in 1..Len(queue) : Line(w)[i + 1] = queue[i]
  BY <1>0, LineType
<1> SUFFICES ASSUME NEW v \in Videos, NEW a \in Accounts, ~Excused(v, a)', NEW s, s = accepted'[v][a]
             PROVE  LastIs(w, v, a, s)' \/ (~Waits(w, v, a)' /\ rows'[v][a] = s)
  BY DEF Promised, LastIs
<1>2. ~Direct(v, a) /\ <<v, a>> \notin dropped'
  BY <1>0, DirectStays DEF Excused
<1>3. CASE Line(w)' = Line(w) /\ accepted' = accepted /\ dropped \subseteq dropped'
  <2>1. LastIs(w, v, a, s) \/ (~Waits(w, v, a) /\ rows[v][a] = s)
    BY <1>0, <1>2, <1>3 DEF Promised, Excused
  <2>2. CASE LastIs(w, v, a, s)
    BY <1>3, <2>2 DEF LastIs
  <2>3. CASE ~Waits(w, v, a) /\ rows[v][a] = s
    <3>1. ~(TxWrite(w) /\ Of(ev[w], v, a))
      BY <1>1, <2>3 DEF TxWrite, Waits
    <3>2. rows'[v][a] = s
      BY <1>0, <1>2, <2>3, <3>1, RowWritten
    <3> QED BY <1>3, <2>3, <3>2 DEF Waits
  <2> QED BY <2>1, <2>2, <2>3
<1>4. ASSUME NEW r \in Requests, Line(w)' = Append(Line(w), ev[r]), PublishOk(r) \/ PublishErr(r)
      PROVE  LastIs(w, v, a, s)' \/ (~Waits(w, v, a)' /\ rows'[v][a] = s)
  <2>2. r \in Procs /\ ev[r] \in Event /\ rows' = rows
    BY <1>0, <1>4 DEF PublishOk, PublishErr, TypeInv, HoldsEvent, Procs, db
  <2> PICK n : n = Len(Line(w))
    OBVIOUS
  <2>1. /\ n + 1 \in DOMAIN Line(w)' /\ Line(w)'[n + 1] = ev[r]
        /\ \A i \in DOMAIN Line(w) : i \in DOMAIN Line(w)' /\ Line(w)'[i] = Line(w)[i]
        /\ \A j \in DOMAIN Line(w)' : j <= n + 1 /\ (j \in DOMAIN Line(w) \/ j = n + 1)
    BY <1>1, <1>4, <2>2, AppendFacts
  <2>3. CASE Of(ev[r], v, a)
    <3>1. CASE PublishErr(r)
      <4>1. pc'[r] = "txRead" /\ ev' = ev
        BY <1>0, <2>2, <3>1 DEF PublishErr, Goto, task, TypeInv, TypeOK
      <4>2. Direct(v, a)'
        BY <1>0, <2>2, <2>3, <4>1, NoEventIsNone DEF Direct, ForPair, Of
      <4> QED BY <4>2 DEF Excused
    <3>2. CASE PublishOk(r)
      <4>1. ev[r].s = s
        BY <1>0, <2>3, <3>2 DEF PublishOk, Of, TypeInv, TypeOK
      <4> QED BY <2>1, <2>3, <4>1 DEF LastIs
    <3> QED BY <1>4, <3>1, <3>2
  <2>4. CASE ~Of(ev[r], v, a)
    <3>1. accepted'[v][a] = accepted[v][a] /\ <<v, a>> \notin dropped
      <4>1. CASE PublishErr(r)
        BY <1>2, <4>1 DEF PublishErr, observers
      <4>2. CASE PublishOk(r)
        <5>1. <<v, a>> # <<ev[r].v, ev[r].a>>
          BY <2>4 DEF Of
        <5>2. ev[r].v \in Videos /\ ev[r].a \in Accounts
          BY <2>2, EventFields
        <5> QED BY <1>0, <1>2, <2>4, <4>2, <5>1, <5>2 DEF PublishOk, Of, TypeInv, TypeOK
      <4> QED BY <1>4, <4>1, <4>2
    <3>2. LastIs(w, v, a, s) \/ (~Waits(w, v, a) /\ rows[v][a] = s)
      BY <1>0, <1>2, <3>1 DEF Promised, Excused
    <3>3. \A j \in DOMAIN Line(w)' : Of(Line(w)'[j], v, a) => j \in DOMAIN Line(w) /\ Of(Line(w)[j], v, a)
      BY <2>1, <2>4
    <3>5. CASE LastIs(w, v, a, s)
      <4>1. PICK i \in DOMAIN Line(w) : /\ Of(Line(w)[i], v, a) /\ Line(w)[i].s = s
                                        /\ \A j \in DOMAIN Line(w) : Of(Line(w)[j], v, a) => j <= i
        BY <3>5 DEF LastIs
      <4>2. i \in DOMAIN Line(w)' /\ Line(w)'[i] = Line(w)[i]
        BY <2>1
      <4>3. \A j \in DOMAIN Line(w)' : Of(Line(w)'[j], v, a) => j <= i
        BY <3>3, <4>1
      <4> QED BY <4>1, <4>2, <4>3 DEF LastIs
    <3>6. CASE ~Waits(w, v, a) /\ rows[v][a] = s
      <4>1. ~Waits(w, v, a)'
        BY <3>3, <3>6 DEF Waits
      <4> QED BY <2>2, <3>6, <4>1
    <3> QED BY <3>2, <3>5, <3>6
  <2> QED BY <2>3, <2>4
<1>5. CASE Ack(w) /\ Line(w)' = Tail(Line(w)) /\ queue = Tail(Line(w))
  <2>1. pc[w] = "ack" /\ rows' = rows /\ UNCHANGED <<accepted, dropped>>
    BY <1>5 DEF Ack, db, observers
  <2>2. Line(w)' = queue /\ queue \in Seq(Event) /\ DOMAIN queue = 1..Len(queue) /\ Len(queue) \in Nat
    BY <1>0, <1>5 DEF TypeInv, TypeOK
  <2>3. LastIs(w, v, a, s) \/ (~Waits(w, v, a) /\ rows[v][a] = s)
    BY <1>0, <1>2, <2>1 DEF Promised, Excused
  <2>4. \A j \in 1..Len(queue) : j + 1 \in DOMAIN Line(w) /\ Line(w)[j + 1] = queue[j]
    BY <1>1, <2>1, <2>2
  <2>5. CASE ~Waits(w, v, a) /\ rows[v][a] = s
    <3>1. ~Waits(w, v, a)'
      BY <2>2, <2>4, <2>5 DEF Waits
    <3> QED BY <2>1, <2>5, <3>1
  <2>6. CASE LastIs(w, v, a, s)
    <3>1. PICK i \in DOMAIN Line(w) : /\ Of(Line(w)[i], v, a) /\ Line(w)[i].s = s
                                      /\ \A j \in DOMAIN Line(w) : Of(Line(w)[j], v, a) => j <= i
      BY <2>6 DEF LastIs
    <3>2. CASE i = 1
      <4>1. \A j \in 1..Len(queue) : ~Of(queue[j], v, a)
        <5> SUFFICES ASSUME NEW j \in 1..Len(queue), Of(queue[j], v, a) PROVE FALSE
          OBVIOUS
        <5>1. j + 1 <= i
          BY <2>4, <3>1
        <5> QED BY <3>2, <5>1
      <4>2. ~Waits(w, v, a)'
        BY <2>2, <4>1 DEF Waits
      <4>3. Of(ev[w], v, a) /\ ev[w].s = s
        BY <1>1, <2>1, <3>1, <3>2
      <4>4. rows[v][a] = s
        BY <1>0, <1>2, <2>1, <2>2, <4>1, <4>3 DEF Handled, Excused
      <4> QED BY <2>1, <4>2, <4>4
    <3>3. CASE i # 1
      <4>0. i \in 1..Len(queue) + 1
        BY <1>1, <2>1
      <4> DEFINE k == i - 1
      <4>1. k \in 1..Len(queue) /\ i = k + 1
        BY <2>2, <3>3, <4>0
      <4>2. queue[k] = Line(w)[i]
        BY <2>4, <4>1
      <4>3. ASSUME NEW j \in 1..Len(queue), Of(queue[j], v, a) PROVE j <= k
        <5>1. j + 1 <= i
          BY <2>4, <3>1, <4>3
        <5> QED BY <4>1, <5>1
      <4> HIDE DEF k
      <4> QED BY <2>2, <3>1, <4>1, <4>2, <4>3 DEF LastIs
    <3> QED BY <3>2, <3>3
  <2> QED BY <2>3, <2>5, <2>6
<1> QED BY <1>0, <1>3, <1>4, <1>5, LineMoves

LEMMA HandledStep ==
  ASSUME NEW w, Workers = {w}, PromiseInv(w), [Next]_vars
  PROVE  Handled(w)'
<1>0. TypeInv /\ TypeInv' /\ SnapshotCurrent /\ Handled(w) /\ w \in Procs /\ w \notin Requests
  BY TypeInvStep, RatingAssumption DEF PromiseInv, RaceInv, Procs
<1> SUFFICES ASSUME pc'[w] \in {"inval", "ack"}, NEW v \in Videos, NEW a \in Accounts, Of(ev'[w], v, a),
                    ~Excused(v, a)', \A i \in DOMAIN queue' : ~Of(queue'[i], v, a)
             PROVE  rows'[v][a] = ev'[w].s
  BY DEF Handled
<1>1. ~Direct(v, a) /\ <<v, a>> \notin dropped'
  BY <1>0, DirectStays DEF Excused
<1> USE DEF TypeInv, TypeOK, Goto, task
<1>2. CASE TxNoop(w) \/ TxWrite(w)
  <2>1. ev' = ev /\ pc[w] = "txWrite"
    BY <1>2 DEF TxNoop, TxWrite
  <2>2. old[w] = rows[v][a] /\ ev[w].v = v /\ ev[w].a = a
    BY <1>0, <1>1, <2>1 DEF SnapshotCurrent, Of
  <2>3. CASE TxNoop(w)
    BY <2>1, <2>2, <2>3 DEF TxNoop, db
  <2>4. CASE TxWrite(w)
    BY <1>0, <2>1, <2>2, <2>4 DEF TxWrite, RowAfter
  <2> QED BY <1>2, <2>3, <2>4
<1>3. CASE TxRead(w) \/ Receive(w) \/ Ack(w) \/ Crash(w)
  BY <1>0, <1>3 DEF TxRead, Receive, Ack, Crash, Forget
<1>4. CASE TxAbort(w) \/ TxError(w)
  <2>1. Rollback(w)
    BY <1>4 DEF TxAbort, TxError
  <2>2. <<ev[w].v, ev[w].a>> \in dropped' /\ ev' = ev
    BY <1>0, <2>1 DEF Rollback
  <2> QED BY <1>1, <2>2 DEF Of
<1>5. CASE Invalidate(w) \/ InvalidateFails(w)
  <2>1. pc[w] = "inval" /\ UNCHANGED <<rows, ev, queue, dropped>>
    BY <1>5 DEF Invalidate, InvalidateFails, db, observers
  <2> QED BY <1>0, <1>1, <2>1 DEF Handled, Excused
<1>6. CASE ~SetRating(w) /\ ~SetRatingFails(w) /\ ~Receive(w) /\ ~Ack(w)
  <2>1. pc'[w] = pc[w] /\ ev'[w] = ev[w]
    BY <1>0, <1>6, OthersMove
  <2>2. rows'[v][a] = rows[v][a]
    BY <1>0, <1>1, <1>6, RowWritten DEF SetRating
  <2>3. queue \in Seq(Event)
    BY <1>0
  <2>4. CASE queue' = queue /\ UNCHANGED <<accepted, dropped>>
    BY <1>0, <1>1, <2>1, <2>2, <2>4 DEF Handled, Excused
  <2>5. ASSUME NEW r \in Requests, PublishOk(r) \/ (PublishErr(r) /\ queue' = Append(queue, ev[r]))
        PROVE  rows'[v][a] = ev'[w].s
    <3>1. queue' = Append(queue, ev[r]) /\ ev[r] \in Event
      BY <1>0, <2>5 DEF PublishOk, PublishErr, HoldsEvent, Procs
    <3>2. /\ Len(queue) + 1 \in DOMAIN queue' /\ queue'[Len(queue) + 1] = ev[r]
          /\ \A i \in DOMAIN queue : i \in DOMAIN queue' /\ queue'[i] = queue[i]
      BY <2>3, <3>1
    <3>3. ~Of(ev[r], v, a) /\ \A i \in DOMAIN queue : ~Of(queue[i], v, a)
      BY <3>2
    <3>4. <<v, a>> \notin dropped
      <4>1. <<v, a>> # <<ev[r].v, ev[r].a>>
        BY <3>3 DEF Of
      <4> QED BY <1>1, <2>5, <4>1 DEF PublishOk, PublishErr, observers
    <3> QED BY <1>0, <1>1, <2>1, <2>2, <3>3, <3>4 DEF Handled, Excused
  <2> QED BY <1>0, <1>6, <2>4, <2>5, OthersMove
<1> QED BY <1>2, <1>3, <1>4, <1>5, <1>6 DEF SetRating, SetRatingFails

LEMMA IdleEmptyStep ==
  ASSUME NEW w, Workers = {w}, TypeInv, IdleEmpty(w), [Next]_vars
  PROVE  IdleEmpty(w)'
<1>0. w \in Procs /\ w \notin Requests
  BY RatingAssumption DEF Procs
<1> USE DEF TypeInv, TypeOK, Goto, task
<1>1. CASE SetRating(w) \/ TxError(w) \/ InvalidateFails(w)
  <2>1. pc'[w] # "idle"
    BY <1>0, <1>1 DEF SetRating, TxRead, TxNoop, TxWrite, TxAbort, TxError, Rollback, Invalidate, InvalidateFails,
                      Finish
  <2> QED BY <2>1 DEF IdleEmpty
<1>2. CASE Crash(w) \/ Receive(w) \/ Ack(w)
  BY <1>0, <1>2 DEF Crash, Receive, Ack, Forget, IdleEmpty
<1>3. CASE ~SetRating(w) /\ ~SetRatingFails(w) /\ ~Receive(w) /\ ~Ack(w)
  BY <1>3, OthersMove DEF IdleEmpty
<1> QED BY <1>1, <1>2, <1>3 DEF SetRatingFails

\* What the tables will hold, from the line.
LEMMA SettledFromLine ==
  ASSUME NEW w, Workers = {w}, PromiseInv(w), NEW v \in Videos, NEW a \in Accounts, ~Excused(v, a)
  PROVE  Settled(v, a) = accepted[v][a]
<1> DEFINE s == accepted[v][a]
<1>0. TypeInv /\ IdleEmpty(w) /\ w \in Procs /\ queue \in Seq(Event)
  BY DEF PromiseInv, RaceInv, TypeInv, TypeOK, Procs
<1>1. LastIs(w, v, a, s) \/ (~Waits(w, v, a) /\ rows[v][a] = s)
  BY DEF PromiseInv, Promised
<1>2. /\ Len(queue) \in Nat /\ DOMAIN queue = 1..Len(queue)
      /\ \A i \in DOMAIN queue : ForPair(queue[i], v, a) <=> Of(queue[i], v, a)
  <2>1. \A i \in DOMAIN queue : queue[i] # NoEvent
    BY <1>0, NoEventIsNone
  <2> QED BY <1>0, <2>1 DEF ForPair, Of
<1>3. ForPair(ev[w], v, a) <=> pc[w] # "idle" /\ Of(ev[w], v, a)
  BY <1>0, NoEventIsNone DEF ForPair, Of, IdleEmpty, TypeInv, HoldsEvent
<1>4. /\ pc[w] = "idle" => Line(w) = queue
      /\ pc[w] # "idle" => /\ DOMAIN Line(w) = 1..Len(queue) + 1 /\ Line(w)[1] = ev[w]
                           /\ \A i \in 1..Len(queue) : Line(w)[i + 1] = queue[i]
  BY <1>0, LineType DEF Line
<1> HIDE DEF s
<1>5. CASE PendingAt(v, a) # {}
  <2>1. \E i \in PendingAt(v, a) : queue[i].s = s /\ \A j \in PendingAt(v, a) : j <= i
    <3>1. Waits(w, v, a)
      <4>1. PICK i \in DOMAIN queue : Of(queue[i], v, a)
        BY <1>2, <1>5 DEF PendingAt
      <4>2. CASE pc[w] = "idle"
        BY <1>4, <4>1, <4>2 DEF Waits
      <4>3. CASE pc[w] # "idle"
        <5>1. i + 1 \in DOMAIN Line(w) /\ Line(w)[i + 1] = queue[i]
          BY <1>2, <1>4, <4>3
        <5> QED BY <4>1, <5>1 DEF Waits
      <4> QED BY <4>2, <4>3
    <3>2. PICK m \in DOMAIN Line(w) : /\ Of(Line(w)[m], v, a) /\ Line(w)[m].s = s
                                      /\ \A j \in DOMAIN Line(w) : Of(Line(w)[j], v, a) => j <= m
      BY <1>1, <3>1 DEF LastIs
    <3>3. CASE pc[w] = "idle"
      BY <1>2, <1>4, <3>2, <3>3 DEF PendingAt
    <3>4. CASE pc[w] # "idle"
      <4>1. \A j \in PendingAt(v, a) : j \in 1..Len(queue) /\ j + 1 <= m
        <5> SUFFICES ASSUME NEW j \in PendingAt(v, a) PROVE j \in 1..Len(queue) /\ j + 1 <= m
          OBVIOUS
        <5>1. j \in 1..Len(queue) /\ Of(queue[j], v, a)
          BY <1>2 DEF PendingAt
        <5>2. j + 1 \in DOMAIN Line(w) /\ Line(w)[j + 1] = queue[j]
          BY <1>2, <1>4, <3>4, <5>1
        <5> QED BY <3>2, <5>1, <5>2
      <4> DEFINE k == m - 1
      <4>2. m \in 1..Len(queue) + 1 /\ m # 1
        <5>1. PICK j : j \in PendingAt(v, a)
          BY <1>5
        <5>2. j \in 1..Len(queue) /\ j + 1 <= m
          BY <4>1, <5>1
        <5>3. m \in 1..Len(queue) + 1
          BY <1>4, <3>4
        <5> QED BY <1>2, <5>2, <5>3
      <4>3. k \in 1..Len(queue) /\ m = k + 1
        BY <1>2, <4>2
      <4>4. queue[k] = Line(w)[m]
        BY <1>4, <3>4, <4>3
      <4>5. \A j \in PendingAt(v, a) : j <= k
        BY <4>1, <4>3
      <4> HIDE DEF k
      <4>6. k \in PendingAt(v, a)
        BY <1>2, <3>2, <4>3, <4>4 DEF PendingAt
      <4> QED BY <3>2, <4>4, <4>5, <4>6
    <3> QED BY <3>3, <3>4
  <2> DEFINE m == CHOOSE i \in PendingAt(v, a) : \A j \in PendingAt(v, a) : j <= i
  <2>2. PICK i \in PendingAt(v, a) : queue[i].s = s /\ \A j \in PendingAt(v, a) : j <= i
    BY <2>1
  <2>3. m \in PendingAt(v, a) /\ \A j \in PendingAt(v, a) : j <= m
    BY <2>2
  <2>4. m \in Int /\ i \in Int /\ m <= i /\ i <= m
    BY <1>2, <2>2, <2>3 DEF PendingAt
  <2>5. queue[m].s = s
    BY <2>2, <2>4
  <2> QED BY <1>5, <2>5 DEF Settled, s
<1>6. CASE PendingAt(v, a) = {} /\ ForPair(ev[w], v, a)
  <2>1. \A i \in 1..Len(queue) : ~Of(queue[i], v, a)
    BY <1>2, <1>6 DEF PendingAt
  <2>2. Waits(w, v, a)
    BY <1>2, <1>3, <1>4, <1>6 DEF Waits
  <2>3. PICK m \in DOMAIN Line(w) : Of(Line(w)[m], v, a) /\ Line(w)[m].s = s
    BY <1>1, <2>2 DEF LastIs
  <2>4. m = 1
    <3>1. m \in 1..Len(queue) + 1
      BY <1>3, <1>4, <1>6
    <3> SUFFICES ASSUME m # 1 PROVE FALSE
      OBVIOUS
    <3> DEFINE k == m - 1
    <3>2. k \in 1..Len(queue) /\ m = k + 1
      BY <1>2, <3>1
    <3>3. Line(w)[m] = queue[k]
      BY <1>3, <1>4, <1>6, <3>2
    <3> HIDE DEF k
    <3> QED BY <2>1, <2>3, <3>2, <3>3
  <2>5. ev[w].s = s
    BY <1>3, <1>4, <1>6, <2>3, <2>4
  <2>6. (CHOOSE x \in Workers : ForPair(ev[x], v, a)) = w
    BY <1>6
  <2> QED BY <1>6, <2>5, <2>6 DEF Settled, s
<1>7. CASE PendingAt(v, a) = {} /\ ~ForPair(ev[w], v, a)
  <2>1. ~Waits(w, v, a)
    <3> SUFFICES ASSUME NEW m \in DOMAIN Line(w), Of(Line(w)[m], v, a) PROVE FALSE
      BY DEF Waits
    <3>1. \A i \in 1..Len(queue) : ~Of(queue[i], v, a)
      BY <1>2, <1>7 DEF PendingAt
    <3>2. CASE pc[w] = "idle"
      BY <1>2, <1>4, <3>1, <3>2
    <3>3. CASE pc[w] # "idle"
      <4>1. m \in 1..Len(queue) + 1 /\ m # 1
        BY <1>3, <1>4, <1>7, <3>3
      <4> DEFINE k == m - 1
      <4>2. k \in 1..Len(queue) /\ m = k + 1
        BY <1>2, <4>1
      <4>3. Line(w)[m] = queue[k]
        BY <1>4, <3>3, <4>2
      <4> HIDE DEF k
      <4> QED BY <3>1, <4>2, <4>3
    <3> QED BY <3>2, <3>3
  <2>2. rows[v][a] = s
    BY <1>1, <2>1 DEF LastIs, Waits
  <2> QED BY <1>7, <2>2 DEF Settled, s
<1> QED BY <1>5, <1>6, <1>7

\* With one consumer, the last rating the broker accepted for a pair stays, unless its
\* event was dropped or a request wrote the pair by itself, for any number of accounts,
\* videos, requests and faults.
THEOREM LatestWins ==
  ASSUME NEW w, Workers = {w}
  PROVE  Spec => []LatestAcceptedWins
<1>1. Init => PromiseInv(w)
  <2> SUFFICES ASSUME Init PROVE Promised(w) /\ Handled(w) /\ IdleEmpty(w)
    BY RaceInvInit DEF PromiseInv
  <2>1. Line(w) = <<>> /\ pc[w] = "idle" /\ ev[w] = NoEvent
    BY DEF Init, Line, Procs
  <2>2. \A v \in Videos, a \in Accounts : rows[v][a] = accepted[v][a]
    BY DEF Init
  <2> QED BY <2>1, <2>2 DEF Promised, Waits, Handled, IdleEmpty
<1>2. PromiseInv(w) /\ [Next]_vars => PromiseInv(w)'
  <2> SUFFICES ASSUME PromiseInv(w), [Next]_vars PROVE PromiseInv(w)'
    OBVIOUS
  <2>1. \A w1, w2 \in Workers : w1 = w2
    OBVIOUS
  <2>2. RaceInv'
    BY <2>1, TypeInvStep, SnapshotCurrentStep, RacedStep DEF PromiseInv, RaceInv
  <2>3. IdleEmpty(w)'
    BY IdleEmptyStep DEF PromiseInv, RaceInv
  <2> QED BY <2>2, <2>3, PromisedStep, HandledStep DEF PromiseInv
<1>3. PromiseInv(w) => LatestAcceptedWins
  BY SettledFromLine DEF LatestAcceptedWins, Excused
<1> QED BY <1>1, <1>2, <1>3, PTL DEF Spec
============================================================================
