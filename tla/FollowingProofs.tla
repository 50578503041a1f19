-------------------------- MODULE FollowingProofs ---------------------------
(***************************************************************************)
(* Proofs about Following, for any number of authors, videos, requests and *)
(* faults, any size of a page and any limits: types, who is shown, how the *)
(* pages of one reading follow each other, and that the feed lacks nothing *)
(* but what the exceptions of FeedComplete name.                           *)
(***************************************************************************)
EXTENDS Following, FiniteSetTheorems, SequenceTheorems, WellFoundedInduction, TLAPS

(***************************************************************************)
(* Types.  A request that backfills or clears has its author, a consumer   *)
(* at work its event, and the set is a function.                           *)
(***************************************************************************)

Shape(z) ==
  /\ z = [m \in DOMAIN z |-> z[m]]
  /\ DOMAIN z \in SUBSET (Videos \cup {Placeholder})
  /\ \A m \in DOMAIN z : z[m] \in IF m = Placeholder THEN {0} ELSE {TimeOf[m], TimeOf[m] + Lag}

HasAuthor ==
  \A r \in Requests : pc[r] \in Backfilling \cup {"del"} => author[r] \in Authors

HasEvent == (consPc # "idle" => cur \in Videos) /\ (fan => consPc \in {"add", "ack"})

TypeInv == TypeOK /\ Shape(timeline) /\ HasAuthor /\ HasEvent

LEMMA VideoFacts ==
  /\ \A v \in Videos : v \in Nat /\ v # 0 /\ TimeOf[v] \in Nat /\ TimeOf[v] > 0 /\ TimeOf[v] < Now
  /\ Lag \in Nat /\ Now \in Nat /\ PageSize \in Nat /\ PageSize > 0 /\ IsFiniteSet(Videos)
  /\ Placeholder \notin Videos /\ NoVideo \notin Videos
  /\ \A v \in Videos : AuthorOf[v] \in Authors
<1>1. \A v \in Videos : v \in Nat \ {0} /\ TimeOf[v] \in 1..Now-1
  BY PagingAssumption DEF Videos
<1> QED BY <1>1, PagingAssumption, FollowingAssumption DEF Videos, Placeholder, NoVideo

LEMMA FirstNIn == ASSUME NEW f, NEW S, NEW n PROVE FirstN(f, S, n) \subseteq S
  BY DEF FirstN

LEMMA ListLatestIn ==
  ASSUME NEW DB, NEW c, NEW n PROVE ListLatest(DB, c, n) \subseteq DB
  BY FirstNIn DEF ListLatest

LEMMA TypeInvInit == Init => TypeInv
<1> SUFFICES ASSUME Init PROVE TypeInv
  OBVIOUS
<1>1. timeline = <<>> /\ DOMAIN timeline = {}
  BY DEF Init
<1>2. Shape(timeline)
  <2>1. timeline = [m \in {} |-> timeline[m]]
    BY <1>1
  <2> QED BY <1>1, <2>1 DEF Shape
<1>3. published \in {0} \cup Videos /\ db \in SUBSET Videos
  <2>1. Stored \in Nat /\ 1..Stored \subseteq Videos
    BY FollowingAssumption
  <2>2. Stored = 0 \/ Stored \in 1..Stored
    BY <2>1
  <2> QED BY <2>1, <2>2 DEF Init
<1>4. HasAuthor /\ HasEvent
  BY DEF Init, HasAuthor, HasEvent, Backfilling
<1>5. TypeOK
  <2>1. queue \in Seq(Videos) /\ 0 \in 0..MaxTries-1 /\ 0 \in 0..MaxFaults
    BY FollowingAssumption DEF Init
  <2> QED BY <1>1, <1>3, <2>1, FollowingAssumption DEF Init, TypeOK, PCs, NoVideo
<1> QED BY <1>2, <1>4, <1>5 DEF TypeInv

LEMMA AddTypes ==
  ASSUME TypeInv, NEW scores, Add(scores),
         DOMAIN scores \in SUBSET (Videos \cup {Placeholder}),
         \A m \in DOMAIN scores :
           scores[m] \in IF m = Placeholder THEN {0} ELSE {TimeOf[m], TimeOf[m] + Lag}
  PROVE  Shape(timeline)' /\ (timeline # <<>> => timeline' # <<>>)
<1>1. timeline' = [m \in DOMAIN timeline \cup DOMAIN scores |->
                     IF m \in DOMAIN scores THEN scores[m] ELSE timeline[m]]
  BY DEF Add
<1>2. DOMAIN timeline' = DOMAIN timeline \cup DOMAIN scores
  BY <1>1
<1>3. Shape(timeline)'
  <2>1. timeline' = [m \in DOMAIN timeline' |-> timeline'[m]]
    BY <1>1, <1>2
  <2>2. \A m \in DOMAIN timeline' :
          timeline'[m] \in IF m = Placeholder THEN {0} ELSE {TimeOf[m], TimeOf[m] + Lag}
    BY <1>1, <1>2 DEF TypeInv, Shape
  <2> QED BY <1>2, <2>1, <2>2 DEF TypeInv, Shape
<1>4. ASSUME timeline # <<>> PROVE timeline' # <<>>
  <2>1. DOMAIN timeline # {}
    <3> SUFFICES ASSUME DOMAIN timeline = {} PROVE FALSE
      OBVIOUS
    <3>1. timeline = [m \in {} |-> timeline[m]]
      BY DEF TypeInv, Shape
    <3>2. <<>> = [m \in {} |-> timeline[m]]
      OBVIOUS
    <3> QED BY <1>4, <3>1, <3>2
  <2>2. DOMAIN timeline' # {}
    BY <1>2, <2>1
  <2> QED BY <2>2
<1> QED BY <1>3, <1>4

LEMMA MembersTypes ==
  ASSUME NEW vs \in SUBSET Videos
  PROVE  /\ DOMAIN Members(vs) \in SUBSET (Videos \cup {Placeholder})
         /\ \A m \in DOMAIN Members(vs) :
              Members(vs)[m] \in IF m = Placeholder THEN {0} ELSE {TimeOf[m], TimeOf[m] + Lag}
         /\ DOMAIN Members(vs) = IF vs = {} THEN {Placeholder} ELSE vs
  BY VideoFacts DEF Members

LEMMA FaultTypes == ASSUME TypeInv, NoFault \/ Fault PROVE faults' \in 0..MaxFaults
  BY FollowingAssumption DEF TypeInv, TypeOK, NoFault, Fault

LEMMA LeaveTypes ==
  ASSUME TypeInv, NEW r \in Requests, Leave(r)
  PROVE  /\ pc' \in [Requests -> PCs] /\ author' \in [Requests -> Authors \cup {NoAuthor}]
         /\ authors' \in [Requests -> SUBSET Authors] /\ snap' \in [Requests -> SUBSET Videos]
         /\ HasAuthor'
<1> USE DEF TypeInv, TypeOK, Leave, Goto, PCs, Backfilling, Rebuilding
<1>1. HasAuthor'
  BY DEF HasAuthor
<1> QED BY <1>1

LEMMA WritingTypes == TypeInv => Writing \in SUBSET Authors
<1> SUFFICES ASSUME TypeInv, NEW a \in Writing PROVE a \in Authors
  OBVIOUS
<1>1. CASE \E r \in Requests : a \in Held(r)
  BY <1>1 DEF Held, TypeInv, TypeOK, HasAuthor
<1>2. CASE fan /\ a = AuthorOf[cur]
  BY <1>2, VideoFacts DEF TypeInv, HasEvent
<1> QED BY <1>1, <1>2 DEF Writing

LEMMA DropTypes ==
  ASSUME TypeInv, Drop
  PROVE  /\ Shape(timeline)' /\ ttl' = FALSE /\ holes' \in BOOLEAN
         /\ gap' \in SUBSET Authors /\ foreign' \in SUBSET Authors
<1>1. timeline' = <<>> /\ DOMAIN timeline' = {}
  BY DEF Drop
<1>2. Shape(timeline)'
  <2>1. timeline' = [m \in {} |-> timeline'[m]]
    BY <1>1
  <2> QED BY <1>1, <2>1 DEF Shape
<1>3. gap' \in SUBSET Authors
  BY DEF Drop, TypeInv, TypeOK
<1> QED BY <1>2, <1>3, WritingTypes DEF Drop

LEMMA RequestTypes ==
  ASSUME TypeInv, NEW r \in Requests,
         \/ BackfillFollowing(r) \/ EnsureFollowingTimeLine(r) \/ SetTTL(r)
         \/ ClearFollowingTimeline(r) \/ RequestFails(r)
         \/ \E a \in Authors : Follow(r, a) \/ UnFollow(r, a)
  PROVE  TypeInv'
<1> USE DEF TypeInv, TypeOK, videos, redis, consumer, locals, requests, observers, NoFault
<1>1. ASSUME NEW a \in Authors, Follow(r, a) PROVE TypeInv'
  <2>1. pc' \in [Requests -> PCs] /\ author' \in [Requests -> Authors \cup {NoAuthor}] /\ HasAuthor'
    BY <1>1 DEF Follow, Goto, PCs, HasAuthor, Backfilling, Rebuilding
  <2>2. HasEvent' /\ Shape(timeline)' /\ gap' \in SUBSET Authors
    BY <1>1 DEF Follow, HasEvent, Shape
  <2> QED BY <1>1, <2>1, <2>2 DEF Follow
<1>2. ASSUME NEW a \in Authors, UnFollow(r, a) PROVE TypeInv'
  <2>1. pc' \in [Requests -> PCs] /\ author' \in [Requests -> Authors \cup {NoAuthor}] /\ HasAuthor'
    BY <1>2 DEF UnFollow, Goto, PCs, HasAuthor, Backfilling, Rebuilding
  <2>2. HasEvent' /\ Shape(timeline)'
    BY <1>2 DEF UnFollow, HasEvent, Shape
  <2> QED BY <1>2, <2>1, <2>2 DEF UnFollow
<1>3. CASE BackfillExists(r)
  <2>1. HasEvent' /\ Shape(timeline)'
    BY <1>3 DEF BackfillExists, HasEvent, Shape
  <2>2. CASE Goto(r, "list") /\ UNCHANGED locals
    <3>1. pc' \in [Requests -> PCs] /\ HasAuthor'
      BY <1>3, <2>2 DEF BackfillExists, Goto, PCs, HasAuthor, Backfilling, Rebuilding
    <3> QED BY <1>3, <2>1, <2>2, <3>1 DEF BackfillExists
  <2>3. CASE Leave(r)
    BY <1>3, <2>1, <2>3, LeaveTypes DEF BackfillExists
  <2> QED BY <1>3, <2>2, <2>3 DEF BackfillExists
<1>4. CASE BackfillList(r)
  <2> DEFINE vs == ListLatest(By({author[r]}), Start, BackfillLimit)
  <2>1. HasEvent' /\ Shape(timeline)'
    BY <1>4 DEF BackfillList, HasEvent, Shape
  <2>2. vs \in SUBSET Videos
    BY ListLatestIn DEF By
  <2>3. CASE snap' = [snap EXCEPT ![r] = vs] /\ Goto(r, "backfill") /\ UNCHANGED <<author, authors>>
    <3> HIDE DEF vs
    <3>1. pc' \in [Requests -> PCs] /\ HasAuthor' /\ snap' \in [Requests -> SUBSET Videos]
      BY <1>4, <2>2, <2>3 DEF BackfillList, Goto, PCs, HasAuthor, Backfilling, Rebuilding
    <3> QED BY <1>4, <2>1, <2>3, <3>1 DEF BackfillList
  <2>4. CASE Leave(r)
    BY <1>4, <2>1, <2>4, LeaveTypes DEF BackfillList
  <2> QED BY <1>4, <2>3, <2>4 DEF BackfillList
<1>5. CASE BackfillAdd(r)
  <2>1. Shape(timeline)' /\ (timeline # <<>> => timeline' # <<>>)
    BY <1>5, MembersTypes, AddTypes DEF BackfillAdd
  <2>2. pc' \in [Requests -> PCs] /\ HasAuthor' /\ HasEvent'
    BY <1>5 DEF BackfillAdd, Goto, PCs, HasAuthor, Backfilling, Rebuilding, HasEvent
  <2>3. gap' \in SUBSET Authors
    BY <1>5 DEF BackfillAdd, HasAuthor, Backfilling
  <2>4. holes' \in BOOLEAN
    BY <1>5, Zenon DEF BackfillAdd
  <2> QED BY <1>5, <2>1, <2>2, <2>3, <2>4 DEF BackfillAdd, Shape
<1>6. CASE SetTTL(r)
  <2>1. Shape(timeline)' /\ HasEvent'
    BY <1>6 DEF SetTTL, HasEvent, Shape
  <2>2. ttl' \in BOOLEAN /\ (ttl' => timeline' # <<>>)
    <3>1. timeline' = timeline /\ (ttl' = (timeline # <<>>) \/ ttl' = ttl)
      BY <1>6 DEF SetTTL, Exists
    <3>2. CASE ttl' = (timeline # <<>>)
      BY <3>1, <3>2, Zenon
    <3> QED BY <3>1, <3>2
  <2>3. faults' \in 0..MaxFaults
    BY <1>6, FaultTypes DEF SetTTL
  <2> QED BY <1>6, <2>1, <2>2, <2>3, LeaveTypes DEF SetTTL
<1>7. CASE ClearFollowingTimeline(r)
  <2>1. HasEvent'
    BY <1>7 DEF ClearFollowingTimeline, HasEvent
  <2> QED BY <1>7, <2>1, LeaveTypes, DropTypes DEF ClearFollowingTimeline, Shape
<1>8. CASE RequestFails(r)
  <2>1. Shape(timeline)' /\ HasEvent'
    BY <1>8 DEF RequestFails, HasEvent, Shape
  <2>2. gap' \in SUBSET Authors /\ foreign' \in SUBSET Authors
    BY <1>8 DEF RequestFails, HasAuthor
  <2>3. faults' \in 0..MaxFaults
    BY <1>8, FaultTypes DEF RequestFails
  <2> QED BY <1>8, <2>1, <2>2, <2>3, LeaveTypes DEF RequestFails
<1>9. CASE Read(r)
  <2>1. pc' \in [Requests -> PCs] /\ HasAuthor' /\ HasEvent' /\ Shape(timeline)'
    BY <1>9 DEF Read, Goto, PCs, HasAuthor, Backfilling, Rebuilding, HasEvent, Shape
  <2> QED BY <1>9, <2>1 DEF Read
<1>10. CASE RebuildAuthors(r)
  <2>1. /\ pc' \in [Requests -> PCs] /\ HasAuthor' /\ HasEvent' /\ Shape(timeline)'
        /\ authors' \in [Requests -> SUBSET Authors]
    BY <1>10 DEF RebuildAuthors, Goto, PCs, HasAuthor, Backfilling, Rebuilding, HasEvent, Shape
  <2> QED BY <1>10, <2>1 DEF RebuildAuthors
<1>11. CASE RebuildList(r)
  <2> DEFINE vs == ListLatest(By(authors[r]), Start, RebuildLimit)
  <2>1. vs \in SUBSET Videos /\ snap' = [snap EXCEPT ![r] = vs]
    BY <1>11, ListLatestIn DEF By, RebuildList
  <2> HIDE DEF vs
  <2>2. /\ pc' \in [Requests -> PCs] /\ HasAuthor' /\ HasEvent' /\ Shape(timeline)'
        /\ snap' \in [Requests -> SUBSET Videos]
    BY <1>11, <2>1 DEF RebuildList, Goto, PCs, HasAuthor, Backfilling, Rebuilding, HasEvent, Shape
  <2> QED BY <1>11, <2>2 DEF RebuildList
<1>12. CASE RebuildAdd(r)
  <2>1. Shape(timeline)' /\ (timeline # <<>> => timeline' # <<>>)
    BY <1>12, MembersTypes, AddTypes DEF RebuildAdd
  <2>2. pc' \in [Requests -> PCs] /\ HasAuthor' /\ HasEvent'
    BY <1>12 DEF RebuildAdd, Goto, PCs, HasAuthor, Backfilling, Rebuilding, HasEvent
  <2> QED BY <1>12, <2>1, <2>2 DEF RebuildAdd, Shape
<1> QED BY <1>1, <1>2, <1>3, <1>4, <1>5, <1>6, <1>7, <1>8, <1>9, <1>10, <1>11, <1>12
        DEF BackfillFollowing, EnsureFollowingTimeLine

LEMMA WorkerTypes ==
  ASSUME TypeInv, Publish \/ TimelineHandler \/ Expire \/ \E v \in db : DeleteVideo(v)
  PROVE  TypeInv'
<1> USE DEF TypeInv, TypeOK, videos, redis, consumer, locals, requests, observers, NoFault
<1>0. HasAuthor' /\ UNCHANGED requests
  BY DEF Publish, TimelineHandler, Receive, ListFanIDs, ZAddFanout, Ack, ConsFails, Crash, Expire,
         DeleteVideo, HasAuthor
<1>1. CASE Publish
  <2>1. published' \in Videos /\ HasEvent' /\ Shape(timeline)'
    BY <1>1 DEF Publish, HasEvent, Shape
  <2>2. queue' \in Seq(Videos) /\ dropped' \in SUBSET Videos
    <3>1. CASE queue' = Append(queue, published') /\ UNCHANGED dropped
      BY <2>1, <3>1
    <3>2. CASE dropped' = dropped \cup {published'} /\ UNCHANGED queue
      BY <2>1, <3>2
    <3> QED BY <1>1, <3>1, <3>2 DEF Publish
  <2>3. faults' \in 0..MaxFaults
    BY <1>1, FaultTypes DEF Publish
  <2> QED BY <1>0, <1>1, <2>1, <2>2, <2>3 DEF Publish
<1>2. ASSUME NEW v \in db, DeleteVideo(v) PROVE TypeInv'
  BY <1>0, <1>2 DEF DeleteVideo, HasEvent, Shape
<1>3. CASE Receive
  <2>1. cur' \in Videos /\ queue' \in Seq(Videos)
    BY <1>3, HeadTailProperties DEF Receive
  <2>2. HasEvent' /\ Shape(timeline)'
    BY <1>3, <2>1 DEF Receive, HasEvent, Shape
  <2> QED BY <1>0, <1>3, <2>1, <2>2 DEF Receive
<1>4. CASE ListFanIDs
  <2>1. HasEvent' /\ Shape(timeline)'
    BY <1>4 DEF ListFanIDs, HasEvent, Shape
  <2> QED BY <1>0, <1>4, <2>1 DEF ListFanIDs
<1>5. CASE ZAddFanout
  <2> DEFINE one == [m \in {cur} |-> TimeOf[m] + Lag]
  <2>1. cur \in Videos /\ cur # Placeholder
    BY <1>5, VideoFacts DEF ZAddFanout, HasEvent
  <2>2. Shape(timeline)' /\ (timeline # <<>> => timeline' # <<>>)
    <3>1. CASE fan
      <4>1. Add(one)
        BY <1>5, <3>1 DEF ZAddFanout
      <4>2. /\ DOMAIN one \in SUBSET (Videos \cup {Placeholder})
            /\ \A m \in DOMAIN one :
                 one[m] \in IF m = Placeholder THEN {0} ELSE {TimeOf[m], TimeOf[m] + Lag}
        BY <2>1
      <4> HIDE DEF one
      <4> QED BY <4>1, <4>2, AddTypes
    <3>2. CASE ~fan
      BY <1>5, <3>2 DEF ZAddFanout, Shape
    <3> QED BY <3>1, <3>2
  <2>3. HasEvent'
    BY <1>5 DEF ZAddFanout, HasEvent
  <2>4. holes' \in BOOLEAN
    BY <1>5, Zenon DEF ZAddFanout
  <2> QED BY <1>0, <1>5, <2>2, <2>3, <2>4 DEF ZAddFanout, Shape
<1>6. CASE Ack
  <2>1. HasEvent' /\ Shape(timeline)' /\ 0 \in 0..MaxTries-1
    BY <1>6, FollowingAssumption DEF Ack, Forget, HasEvent, Shape
  <2> QED BY <1>0, <1>6, <2>1 DEF Ack, Forget
<1>7. CASE ConsFails
  <2>1. HasEvent' /\ Shape(timeline)' /\ 0 \in 0..MaxTries-1
    BY <1>7, FollowingAssumption DEF ConsFails, Forget, HasEvent, Shape
  <2>2. tries' \in 0..MaxTries-1
    BY <1>7, <2>1, FollowingAssumption DEF ConsFails, Forget
  <2>3. faults' \in 0..MaxFaults
    BY <1>7, FaultTypes DEF ConsFails
  <2>4. /\ dropped' \in SUBSET Videos /\ cur' \in Videos \cup {NoVideo} /\ fan' \in BOOLEAN
        /\ consPc' \in {"idle", "list", "add", "ack"}
    BY <1>7 DEF ConsFails, Forget, HasEvent
  <2> QED BY <1>0, <1>7, <2>1, <2>2, <2>3, <2>4 DEF ConsFails, Shape
<1>8. CASE Crash
  <2>1. HasEvent' /\ Shape(timeline)' /\ 0 \in 0..MaxTries-1
    BY <1>8, FollowingAssumption DEF Crash, Forget, HasEvent, Shape
  <2>2. queue' \in Seq(Videos)
    BY <1>8 DEF Crash, HasEvent
  <2>3. faults' \in 0..MaxFaults
    BY <1>8, FaultTypes DEF Crash
  <2> QED BY <1>0, <1>8, <2>1, <2>2, <2>3 DEF Crash, Forget
<1>9. CASE Expire
  <2>1. HasEvent'
    BY <1>9 DEF Expire, HasEvent
  <2> QED BY <1>0, <1>9, <2>1, DropTypes DEF Expire, Shape
<1> QED BY <1>1, <1>2, <1>3, <1>4, <1>5, <1>6, <1>7, <1>8, <1>9 DEF TimelineHandler

LEMMA TypeInvStep == TypeInv /\ [Next]_vars => TypeInv'
<1>1. ASSUME TypeInv, UNCHANGED vars PROVE TypeInv'
  BY <1>1 DEF TypeInv, TypeOK, Shape, HasAuthor, HasEvent, vars, videos, redis, consumer, locals,
              requests, observers
<1> QED BY <1>1, RequestTypes, WorkerTypes DEF Next

\* Every variable of the following timeline keeps its type: the members of the set and
\* their scores, and the time to live, which only a set that is there has.
THEOREM TypeCorrect == Spec => []TypeOK
<1>1. TypeInv => TypeOK
  BY DEF TypeInv
<1> QED BY <1>1, TypeInvInit, TypeInvStep, PTL DEF Spec

(***************************************************************************)
(* Who is shown.  What is in the set or on its way into it is of an author *)
(* that is followed, forgiven, or about to be cleared.                     *)
(***************************************************************************)

Leaving == {author[r] : r \in {x \in Requests : pc[x] = "del"}}
Known == follows \cup foreign \cup Leaving

SetKnown == \A m \in DOMAIN timeline : m # Placeholder => AuthorOf[m] \in Known
WritingKnown == Writing \subseteq Known

\* What a request is about to add is of the authors it holds.
SnapOwn ==
  \A r \in Requests : \A v \in snap[r] :
    /\ pc[r] = "rebuild" => AuthorOf[v] \in authors[r]
    /\ pc[r] = "backfill" => AuthorOf[v] = author[r]

KnownInv == TypeInv /\ SetKnown /\ WritingKnown /\ SnapOwn

LEMMA InWriting ==
  ASSUME NEW a
  PROVE  a \in Writing <=> (\E r \in Requests : a \in Held(r)) \/ (fan /\ a = AuthorOf[cur])
  BY DEF Writing

LEMMA KnownInvInit == Init => KnownInv
<1> SUFFICES ASSUME Init PROVE KnownInv
  OBVIOUS
<1>1. Writing = {}
  BY DEF Init, Writing, Held, Backfilling
<1>2. SnapOwn
  BY DEF Init, SnapOwn
<1>3. DOMAIN timeline = {}
  BY DEF Init
<1> QED BY <1>1, <1>2, <1>3, TypeInvInit DEF KnownInv, SetKnown, WritingKnown

\* A request that ends, or goes on without new authors, holds no more than before.
LEMMA HoldsNoMore ==
  ASSUME NEW r \in Requests, UNCHANGED <<fan, cur>>, Held(r)' \subseteq Held(r),
         \A x \in Requests \ {r} : Held(x)' = Held(x)
  PROVE  Writing' \subseteq Writing
<1> SUFFICES ASSUME NEW a \in Writing' PROVE a \in Writing
  OBVIOUS
<1>1. (\E x \in Requests : a \in Held(x)') \/ (fan /\ a = AuthorOf[cur])
  BY DEF Writing
<1>2. (\E x \in Requests : a \in Held(x)) \/ (fan /\ a = AuthorOf[cur])
  BY <1>1
<1> QED BY <1>2, InWriting

LEMMA OthersHold ==
  ASSUME TypeInv, NEW r \in Requests,
         \A x \in Requests \ {r} : pc'[x] = pc[x] /\ author'[x] = author[x] /\ authors'[x] = authors[x]
  PROVE  /\ \A x \in Requests \ {r} : Held(x)' = Held(x)
         /\ Leaving \ {author[r]} \subseteq Leaving'
         /\ pc[r] # "del" => Leaving \subseteq Leaving'
         /\ pc'[r] = "del" => author'[r] \in Leaving'
  BY DEF Held, Leaving

LEMMA LeaveHolds ==
  ASSUME TypeInv, NEW r \in Requests, Leave(r), UNCHANGED <<fan, cur>>
  PROVE  /\ Writing' \subseteq Writing /\ (SnapOwn => SnapOwn')
         /\ Leaving \ {author[r]} \subseteq Leaving'
         /\ pc[r] # "del" => Leaving \subseteq Leaving'
<1> USE DEF TypeInv, TypeOK, Leave, Goto
<1>1. \A x \in Requests \ {r} :
        pc'[x] = pc[x] /\ author'[x] = author[x] /\ authors'[x] = authors[x] /\ snap'[x] = snap[x]
  OBVIOUS
<1>2. pc'[r] = "done" /\ snap'[r] = {}
  OBVIOUS
<1>3. Held(r)' = {}
  BY <1>2 DEF Held, Backfilling
<1>4. SnapOwn => SnapOwn'
  BY <1>1, <1>2 DEF SnapOwn
<1> QED BY <1>1, <1>3, <1>4, OthersHold, HoldsNoMore

\* Nothing is added to the set, and what is written stays known.
LEMMA SetKept ==
  ASSUME KnownInv, timeline' = timeline, Known \subseteq Known'
  PROVE  SetKnown' /\ (Writing' \subseteq Writing => WritingKnown')
  BY DEF KnownInv, SetKnown, WritingKnown

LEMMA AddKeeps ==
  ASSUME KnownInv, NEW vs \in SUBSET Videos, Add(Members(vs)), Known \subseteq Known',
         \A v \in vs : AuthorOf[v] \in Known
  PROVE  SetKnown'
<1> SUFFICES ASSUME NEW m \in DOMAIN timeline', m # Placeholder PROVE AuthorOf[m] \in Known'
  BY DEF SetKnown
<1>1. m \in DOMAIN timeline \/ m \in DOMAIN Members(vs)
  BY DEF Add
<1>2. m \in DOMAIN timeline \/ m \in vs
  BY <1>1, MembersTypes
<1> QED BY <1>2 DEF KnownInv, SetKnown

LEMMA KnownRequest ==
  ASSUME KnownInv, NEW r \in Requests,
         \/ BackfillFollowing(r) \/ EnsureFollowingTimeLine(r) \/ SetTTL(r)
         \/ ClearFollowingTimeline(r) \/ RequestFails(r)
         \/ \E a \in Authors : Follow(r, a) \/ UnFollow(r, a)
  PROVE  SetKnown' /\ WritingKnown' /\ SnapOwn'
<1>0. TypeInv /\ SnapOwn /\ SetKnown /\ WritingKnown
  BY DEF KnownInv
<1> USE DEF TypeInv, TypeOK, consumer, locals, observers, redis, requests
<1>1. ASSUME NEW a \in Authors, Follow(r, a) PROVE SetKnown' /\ WritingKnown' /\ SnapOwn'
  <2>1. /\ pc[r] = "idle" /\ pc'[r] = "exists" /\ author'[r] = a /\ follows' = follows \cup {a}
        /\ UNCHANGED <<fan, cur, foreign, timeline, snap>>
        /\ \A x \in Requests \ {r} :
             pc'[x] = pc[x] /\ author'[x] = author[x] /\ authors'[x] = authors[x]
    BY <1>0, <1>1 DEF Follow, Goto
  <2>2. Known \subseteq Known' /\ a \in Known'
    BY <1>0, <2>1, OthersHold DEF Known
  <2>3. Held(r)' = {a}
    BY <2>1 DEF Held, Backfilling
  <2>4. WritingKnown'
    <3> SUFFICES ASSUME NEW b \in Writing' PROVE b \in Known'
      BY DEF WritingKnown
    <3>1. (\E x \in Requests : b \in Held(x)') \/ (fan /\ b = AuthorOf[cur])
      BY <2>1 DEF Writing
    <3>2. b = a \/ b \in Writing
      BY <1>0, <2>1, <2>3, <3>1, OthersHold, InWriting
    <3> QED BY <1>0, <2>2, <3>2 DEF WritingKnown
  <2>5. SnapOwn'
    BY <1>0, <2>1 DEF SnapOwn
  <2> QED BY <2>1, <2>2, <2>4, <2>5, SetKept
<1>2. ASSUME NEW a \in Authors, UnFollow(r, a) PROVE SetKnown' /\ WritingKnown' /\ SnapOwn'
  <2>1. /\ pc[r] = "idle" /\ pc'[r] = "del" /\ author'[r] = a /\ follows' = follows \ {a}
        /\ UNCHANGED <<fan, cur, foreign, timeline, snap>>
        /\ \A x \in Requests \ {r} :
             pc'[x] = pc[x] /\ author'[x] = author[x] /\ authors'[x] = authors[x]
    BY <1>0, <1>2 DEF UnFollow, Goto
  <2>2. Known \subseteq Known'
    BY <1>0, <2>1, OthersHold DEF Known
  <2>3. Held(r)' = {}
    BY <2>1 DEF Held, Backfilling
  <2>4. SnapOwn'
    BY <1>0, <2>1 DEF SnapOwn
  <2> QED BY <1>0, <2>1, <2>2, <2>3, <2>4, SetKept, OthersHold, HoldsNoMore
<1>3. ASSUME Leave(r), UNCHANGED <<fan, cur, timeline, follows>>,
             foreign \subseteq foreign', pc[r] = "del" => author[r] \in foreign'
      PROVE  SetKnown' /\ WritingKnown' /\ SnapOwn'
  <2>1. Known \subseteq Known'
    BY <1>0, <1>3, LeaveHolds DEF Known
  <2> QED BY <1>0, <1>3, <2>1, LeaveHolds, SetKept
<1>4. CASE BackfillExists(r)
  <2>1. CASE Leave(r)
    BY <1>3, <1>4, <2>1 DEF BackfillExists
  <2>2. CASE Goto(r, "list") /\ UNCHANGED locals
    <3>1. /\ pc[r] = "exists" /\ pc'[r] = "list" /\ UNCHANGED <<fan, cur, foreign, timeline, snap, follows>>
          /\ author' = author /\ authors' = authors
          /\ \A x \in Requests \ {r} : pc'[x] = pc[x]
      BY <1>0, <1>4, <2>2 DEF BackfillExists, Goto
    <3>2. Known \subseteq Known'
      BY <1>0, <3>1, OthersHold DEF Known
    <3>3. Held(r)' = Held(r)
      BY <3>1 DEF Held, Backfilling
    <3>4. SnapOwn'
      BY <1>0, <3>1 DEF SnapOwn
    <3> QED BY <1>0, <3>1, <3>2, <3>3, <3>4, SetKept, OthersHold, HoldsNoMore
  <2> QED BY <1>4, <2>1, <2>2 DEF BackfillExists
<1>5. CASE BackfillList(r)
  <2> DEFINE vs == ListLatest(By({author[r]}), Start, BackfillLimit)
  <2>1. CASE Leave(r)
    BY <1>3, <1>5, <2>1 DEF BackfillList
  <2>2. CASE snap' = [snap EXCEPT ![r] = vs] /\ Goto(r, "backfill") /\ UNCHANGED <<author, authors>>
    <3>0. \A v \in vs : AuthorOf[v] = author[r]
      BY ListLatestIn DEF By
    <3> HIDE DEF vs
    <3>1. /\ pc[r] = "list" /\ pc'[r] = "backfill" /\ UNCHANGED <<fan, cur, foreign, timeline, follows>>
          /\ author' = author /\ authors' = authors /\ snap'[r] = vs
          /\ \A x \in Requests \ {r} : pc'[x] = pc[x] /\ snap'[x] = snap[x]
      BY <1>0, <1>5, <2>2 DEF BackfillList, Goto
    <3>2. Known \subseteq Known'
      BY <1>0, <3>1, OthersHold DEF Known
    <3>3. Held(r)' = Held(r)
      BY <3>1 DEF Held, Backfilling
    <3>4. SnapOwn'
      BY <1>0, <3>0, <3>1 DEF SnapOwn
    <3> QED BY <1>0, <3>1, <3>2, <3>3, <3>4, SetKept, OthersHold, HoldsNoMore
  <2> QED BY <1>5, <2>1, <2>2 DEF BackfillList
<1>6. CASE BackfillAdd(r)
  <2>1. /\ pc[r] = "backfill" /\ pc'[r] = "ttl" /\ UNCHANGED <<fan, cur, foreign, snap, follows>>
        /\ author' = author /\ authors' = authors /\ Add(Members(snap[r])) /\ snap[r] \in SUBSET Videos
        /\ \A x \in Requests \ {r} : pc'[x] = pc[x]
    BY <1>0, <1>6 DEF BackfillAdd, Goto
  <2>2. Known \subseteq Known'
    BY <1>0, <2>1, OthersHold DEF Known
  <2>3. Held(r)' = {} /\ Held(r) = {author[r]}
    BY <2>1 DEF Held, Backfilling
  <2>4. SnapOwn'
    BY <1>0, <2>1 DEF SnapOwn
  <2>5. \A v \in snap[r] : AuthorOf[v] \in Known
    BY <1>0, <2>1, <2>3, InWriting DEF SnapOwn, WritingKnown
  <2>6. SetKnown'
    BY <2>1, <2>2, <2>5, AddKeeps
  <2>7. Writing' \subseteq Writing
    BY <1>0, <2>1, <2>3, OthersHold, HoldsNoMore
  <2> QED BY <1>0, <2>2, <2>4, <2>6, <2>7 DEF WritingKnown
<1>7. CASE SetTTL(r)
  BY <1>3, <1>7 DEF SetTTL
<1>8. CASE ClearFollowingTimeline(r)
  <2>1. Leave(r) /\ UNCHANGED <<fan, cur>> /\ foreign' = Writing /\ timeline' = <<>>
    BY <1>8 DEF ClearFollowingTimeline, Drop
  <2>2. DOMAIN timeline' = {}
    BY <2>1
  <2> QED BY <1>0, <2>1, <2>2, LeaveHolds DEF SetKnown, WritingKnown, Known
<1>9. CASE RequestFails(r)
  BY <1>3, <1>9 DEF RequestFails
<1>10. CASE Read(r)
  <2>1. /\ pc[r] = "idle" /\ pc'[r] \in {"done", "authors"}
        /\ UNCHANGED <<fan, cur, foreign, timeline, snap, follows>>
        /\ author' = author /\ authors' = authors
        /\ \A x \in Requests \ {r} : pc'[x] = pc[x]
    BY <1>0, <1>10 DEF Read, Goto
  <2>2. Known \subseteq Known'
    BY <1>0, <2>1, OthersHold DEF Known
  <2>3. Held(r)' = {}
    BY <2>1 DEF Held, Backfilling
  <2>4. SnapOwn'
    BY <1>0, <2>1 DEF SnapOwn
  <2> QED BY <1>0, <2>1, <2>2, <2>3, <2>4, SetKept, OthersHold, HoldsNoMore
<1>11. CASE RebuildAuthors(r)
  <2>1. /\ pc[r] = "authors" /\ pc'[r] = "videos" /\ authors'[r] = follows
        /\ UNCHANGED <<fan, cur, foreign, timeline, snap, follows>> /\ author' = author
        /\ \A x \in Requests \ {r} : pc'[x] = pc[x] /\ authors'[x] = authors[x]
    BY <1>0, <1>11 DEF RebuildAuthors, Goto
  <2>2. Known \subseteq Known'
    BY <1>0, <2>1, OthersHold DEF Known
  <2>3. Held(r)' = follows
    BY <2>1 DEF Held
  <2>4. WritingKnown'
    <3> SUFFICES ASSUME NEW b \in Writing' PROVE b \in Known'
      BY DEF WritingKnown
    <3>1. (\E x \in Requests : b \in Held(x)') \/ (fan /\ b = AuthorOf[cur])
      BY <2>1 DEF Writing
    <3>2. b \in follows \/ b \in Writing
      BY <1>0, <2>1, <2>3, <3>1, OthersHold, InWriting
    <3> QED BY <1>0, <2>2, <3>2 DEF WritingKnown, Known
  <2>5. SnapOwn'
    BY <1>0, <2>1 DEF SnapOwn
  <2> QED BY <2>1, <2>2, <2>4, <2>5, SetKept
<1>12. CASE RebuildList(r)
  <2> DEFINE vs == ListLatest(By(authors[r]), Start, RebuildLimit)
  <2>0. \A v \in vs : AuthorOf[v] \in authors[r]
    BY ListLatestIn DEF By
  <2>1. /\ pc[r] = "videos" /\ pc'[r] = "rebuild" /\ UNCHANGED <<fan, cur, foreign, timeline, follows>>
        /\ author' = author /\ authors' = authors /\ snap'[r] = vs
        /\ \A x \in Requests \ {r} : pc'[x] = pc[x] /\ snap'[x] = snap[x]
    BY <1>0, <1>12 DEF RebuildList, Goto
  <2> HIDE DEF vs
  <2>2. Known \subseteq Known'
    BY <1>0, <2>1, OthersHold DEF Known
  <2>3. Held(r)' = Held(r)
    BY <2>1 DEF Held
  <2>4. SnapOwn'
    BY <1>0, <2>0, <2>1 DEF SnapOwn
  <2> QED BY <1>0, <2>1, <2>2, <2>3, <2>4, SetKept, OthersHold, HoldsNoMore
<1>13. CASE RebuildAdd(r)
  <2>1. /\ pc[r] = "rebuild" /\ pc'[r] = "ttl" /\ UNCHANGED <<fan, cur, foreign, snap, follows>>
        /\ author' = author /\ authors' = authors /\ Add(Members(snap[r])) /\ snap[r] \in SUBSET Videos
        /\ \A x \in Requests \ {r} : pc'[x] = pc[x]
    BY <1>0, <1>13 DEF RebuildAdd, Goto
  <2>2. Known \subseteq Known'
    BY <1>0, <2>1, OthersHold DEF Known
  <2>3. Held(r)' = {} /\ Held(r) = authors[r]
    BY <2>1 DEF Held, Backfilling
  <2>4. SnapOwn'
    BY <1>0, <2>1 DEF SnapOwn
  <2>5. \A v \in snap[r] : AuthorOf[v] \in Known
    BY <1>0, <2>1, <2>3, InWriting DEF SnapOwn, WritingKnown
  <2>6. SetKnown'
    BY <2>1, <2>2, <2>5, AddKeeps
  <2>7. Writing' \subseteq Writing
    BY <1>0, <2>1, <2>3, OthersHold, HoldsNoMore
  <2> QED BY <1>0, <2>2, <2>4, <2>6, <2>7 DEF WritingKnown
<1> QED BY <1>1, <1>2, <1>4, <1>5, <1>6, <1>7, <1>8, <1>9, <1>10, <1>11, <1>12, <1>13
        DEF BackfillFollowing, EnsureFollowingTimeLine

LEMMA KnownWorker ==
  ASSUME KnownInv, Publish \/ TimelineHandler \/ Expire \/ \E v \in db : DeleteVideo(v)
  PROVE  SetKnown' /\ WritingKnown' /\ SnapOwn'
<1>0. TypeInv /\ SnapOwn /\ SetKnown /\ WritingKnown
  BY DEF KnownInv
<1> USE DEF consumer, locals, observers, redis, requests, videos
<1>1. /\ UNCHANGED <<pc, author, authors, snap, follows>> /\ Leaving' = Leaving /\ SnapOwn'
      /\ \A r \in Requests : Held(r)' = Held(r)
  BY <1>0 DEF Publish, TimelineHandler, Receive, ListFanIDs, ZAddFanout, Ack, ConsFails, Crash, Expire,
              DeleteVideo, Leaving, SnapOwn, Held
<1>2. ASSUME fan' => AuthorOf[cur'] \in follows \/ (fan /\ cur' = cur)
      PROVE  \A a \in Writing' : a \in Writing \/ a \in follows
  <2> SUFFICES ASSUME NEW a \in Writing' PROVE a \in Writing \/ a \in follows
    OBVIOUS
  <2>1. (\E x \in Requests : a \in Held(x)') \/ (fan' /\ a = AuthorOf[cur'])
    BY DEF Writing
  <2> QED BY <1>1, <1>2, <2>1, InWriting
<1>3. CASE Publish \/ Receive \/ ListFanIDs \/ Ack \/ ConsFails \/ Crash \/ \E v \in db : DeleteVideo(v)
  <2>1. UNCHANGED <<timeline, foreign>> /\ (fan' => AuthorOf[cur'] \in follows \/ (fan /\ cur' = cur))
    <3>1. CASE Publish \/ Receive \/ \E v \in db : DeleteVideo(v)
      BY <1>0, <3>1 DEF Publish, Receive, DeleteVideo, TypeInv, HasEvent
    <3>2. CASE ListFanIDs
      BY <3>2 DEF ListFanIDs
    <3>3. CASE Ack \/ ConsFails \/ Crash
      BY <3>3 DEF Ack, ConsFails, Crash, Forget
    <3> QED BY <1>3, <3>1, <3>2, <3>3
  <2>2. Known' = Known /\ follows \subseteq Known
    BY <1>1, <2>1 DEF Known
  <2> QED BY <1>0, <1>1, <1>2, <2>1, <2>2, SetKept DEF WritingKnown
<1>4. CASE ZAddFanout
  <2>1. UNCHANGED <<fan, cur, foreign>>
    BY <1>4 DEF ZAddFanout
  <2>2. Known' = Known /\ Writing' \subseteq Known
    BY <1>0, <1>1, <1>2, <2>1 DEF Known, WritingKnown
  <2>3. \A m \in DOMAIN timeline' : m \in DOMAIN timeline \/ (fan /\ m = cur)
    BY <1>4 DEF ZAddFanout, Add
  <2>4. fan => AuthorOf[cur] \in Known
    BY <1>0, InWriting DEF WritingKnown
  <2> QED BY <1>0, <1>1, <2>2, <2>3, <2>4 DEF SetKnown, WritingKnown
<1>5. CASE Expire
  <2>1. foreign' = Writing /\ timeline' = <<>> /\ UNCHANGED <<fan, cur>>
    BY <1>5 DEF Expire, Drop
  <2>2. Writing' = Writing
    BY <1>1, <2>1 DEF Writing
  <2>3. DOMAIN timeline' = {}
    BY <2>1
  <2> QED BY <1>1, <2>1, <2>2, <2>3 DEF SetKnown, WritingKnown, Known
<1> QED BY <1>3, <1>4, <1>5 DEF TimelineHandler

LEMMA KnownInvStep == KnownInv /\ [Next]_vars => KnownInv'
<1>1. ASSUME KnownInv, UNCHANGED vars PROVE SetKnown' /\ WritingKnown' /\ SnapOwn'
  <2> USE <1>1 DEF vars, videos, redis, consumer, locals, requests, observers
  <2>1. Known' = Known /\ Writing' = Writing
    BY DEF Known, Leaving, Writing, Held
  <2> QED BY <2>1 DEF KnownInv, SetKnown, WritingKnown, SnapOwn
<1> QED BY <1>1, TypeInvStep, KnownRequest, KnownWorker DEF KnownInv, Next

(***************************************************************************)
(* Pages.  What is shown is older than the cursor; the next cursor is that *)
(* of the last video shown, and nothing shown is older than it but what    *)
(* another video is close to.                                              *)
(***************************************************************************)

LEMMA SmallestNumber ==
  ASSUME NEW T \in SUBSET Nat, T # {}
  PROVE  \E n \in T : \A k \in T : n <= k
<1>1. PICK n \in T : \A k \in T : <<k, n>> \notin OpToRel(<, Nat)
  BY NatLessThanWellFounded, WFMin
<1>2. \A k \in T : ~(k < n)
  BY <1>1 DEF OpToRel
<1> QED BY <1>2

LEMMA LastIs ==
  ASSUME NEW S \in SUBSET Nat, S # {}, NEW f, \A v \in S : f[v] \in Nat
  PROVE  LastOf(f, S) \in S /\ \A w \in S \ {LastOf(f, S)} : Later(f, w, LastOf(f, S))
<1> DEFINE Scores == {f[v] : v \in S}
<1>1. PICK n \in Scores : \A k \in Scores : n <= k
  <2>1. Scores \in SUBSET Nat /\ Scores # {}
    OBVIOUS
  <2> HIDE DEF Scores
  <2> QED BY <2>1, SmallestNumber
<1> DEFINE Lowest == {v \in S : f[v] = n}
<1>2. PICK l \in Lowest : \A k \in Lowest : l <= k
  <2>1. Lowest \in SUBSET Nat /\ Lowest # {}
    OBVIOUS
  <2> HIDE DEF Lowest
  <2> QED BY <2>1, SmallestNumber
<1>3. l \in S /\ f[l] = n /\ n \in Nat /\ l \in Nat
  OBVIOUS
<1>4. \A w \in S \ {l} : Later(f, w, l)
  <2> SUFFICES ASSUME NEW w \in S, w # l PROVE Later(f, w, l)
    OBVIOUS
  <2>1. n <= f[w] /\ f[w] \in Nat /\ w \in Nat
    BY <1>1
  <2>2. f[w] = n => l <= w
    BY <1>2
  <2> QED BY <1>3, <2>1, <2>2 DEF Later
<1> QED BY <1>3, <1>4 DEF LastOf

Rest(c) == {v \in Videos : Older(c, v)}

LEMMA RestEnd == Rest(End) = {}
  BY VideoFacts DEF Rest, Older, End

LEMMA RestAt ==
  ASSUME NEW l \in Videos
  PROVE  /\ l \notin Rest(At(l))
         /\ \A v \in Videos : v \in Rest(At(l)) <=> TimeOf[v] < TimeOf[l] \/ (TimeOf[v] = TimeOf[l] /\ v < l)
  BY VideoFacts DEF Rest, Older, At

LEMMA RestOfRest ==
  ASSUME NEW c \in Cursors, NEW l \in Rest(c)
  PROVE  Rest(At(l)) \subseteq Rest(c)
<1>1. c[1] \in Nat /\ c[2] \in Nat
  BY VideoFacts DEF Cursors, Start, End, At, Videos
<1> SUFFICES ASSUME NEW v \in Rest(At(l)) PROVE v \in Rest(c)
  OBVIOUS
<1>2. v \in Videos /\ l \in Videos
  BY DEF Rest
<1>3. TimeOf[v] < TimeOf[l] \/ (TimeOf[v] = TimeOf[l] /\ v < l)
  BY <1>2, RestAt
<1>4. TimeOf[l] < c[1] \/ (TimeOf[l] = c[1] /\ l < c[2])
  BY DEF Rest, Older
<1>5. TimeOf[v] \in Nat /\ TimeOf[l] \in Nat /\ v \in Nat /\ l \in Nat
  BY <1>2, VideoFacts
<1>6. TimeOf[v] < c[1] \/ (TimeOf[v] = c[1] /\ v < c[2])
  BY <1>1, <1>3, <1>4, <1>5
<1> QED BY <1>2, <1>6 DEF Rest, Older

\* What the scores of the set and the times of its videos order differently is crowded.
LEMMA ScoredAbove ==
  ASSUME NEW Z, Shape(Z), NEW v \in DOMAIN Z \cap Videos, NEW l \in DOMAIN Z \cap Videos, v # l,
         Z[v] >= Z[l], v \in Rest(At(l))
  PROVE  Crowded(v)
<1>1. Z[v] \in {TimeOf[v], TimeOf[v] + Lag} /\ Z[l] \in {TimeOf[l], TimeOf[l] + Lag}
  BY VideoFacts DEF Shape
<1>2. TimeOf[v] \in Nat /\ TimeOf[l] \in Nat /\ Lag \in Nat
  BY VideoFacts
<1>3. TimeOf[v] <= TimeOf[l]
  BY <1>2, RestAt
<1>4. TimeOf[l] <= TimeOf[v] + Lag
  BY <1>1, <1>2
<1>5. l \in Videos \ {v}
  OBVIOUS
<1> QED BY <1>3, <1>4, <1>5 DEF Crowded

\* The parts of a page, and the cursor between them.
Part(Z, hot, cold, c) ==
  /\ hot \subseteq DOMAIN Z /\ hot \subseteq Rest(c)
  /\ cold \subseteq Rest(ColdFrom(Z, hot, c))

LEMMA HotLast ==
  ASSUME NEW Z, Shape(Z), NEW c \in Cursors, NEW hot, hot # {},
         hot \subseteq DOMAIN Z, hot \subseteq Rest(c)
  PROVE  /\ LastOf(Z, hot) \in hot /\ LastOf(Z, hot) \in Videos
         /\ Rest(At(LastOf(Z, hot))) \subseteq Rest(c)
         /\ \A v \in hot : v \in Rest(At(LastOf(Z, hot))) => Crowded(v)
<1> DEFINE l == LastOf(Z, hot)
<1>1. hot \subseteq Videos /\ hot \subseteq Nat
  BY VideoFacts DEF Rest
<1>2. \A v \in hot : Z[v] \in Nat
  <2> SUFFICES ASSUME NEW v \in hot PROVE Z[v] \in Nat
    OBVIOUS
  <2>1. Z[v] \in {TimeOf[v], TimeOf[v] + Lag} /\ TimeOf[v] \in Nat /\ Lag \in Nat
    BY <1>1, VideoFacts DEF Shape
  <2> QED BY <2>1
<1>3. l \in hot /\ \A w \in hot \ {l} : Later(Z, w, l)
  BY <1>1, <1>2, LastIs
<1> HIDE DEF l
<1>4. Rest(At(l)) \subseteq Rest(c)
  BY <1>3, RestOfRest
<1>5. ASSUME NEW v \in hot, v \in Rest(At(l)) PROVE Crowded(v)
  <2>1. v # l
    BY <1>1, <1>3, <1>5, RestAt
  <2>2. Z[v] >= Z[l]
    BY <1>2, <1>3, <2>1 DEF Later
  <2> QED BY <1>1, <1>3, <1>5, <2>1, <2>2, ScoredAbove
<1> QED BY <1>1, <1>3, <1>4, <1>5 DEF l

\* What an answer made of two such parts promises of the page.
Orderly(p, c) ==
  /\ p.shown \subseteq Rest(c)
  /\ p.twice \subseteq p.shown
  /\ p.next \in Cursors
  /\ p.next = End \/ p.shown # {}
  /\ Rest(p.next) \subseteq Rest(c)
  /\ p.next = End \/ Rest(p.next) # Rest(c)
  /\ \A v \in p.shown : v \in Rest(p.next) => Crowded(v)
  /\ \A v \in p.twice : Crowded(v)

LEMMA AnswerOrderly ==
  ASSUME NEW Z, Shape(Z), NEW c \in Cursors, NEW hot, NEW cold, NEW more \in BOOLEAN,
         Part(Z, hot, cold, c)
  PROVE  Orderly(Answer(Z, hot, cold, more), c)
<1> DEFINE p == Answer(Z, hot, cold, more)
           from == ColdFrom(Z, hot, c)
<1>1. /\ hot \subseteq Videos /\ hot \subseteq Rest(c) /\ cold \subseteq Rest(from) /\ cold \subseteq Videos
      /\ cold \subseteq Nat /\ \A v \in cold : TimeOf[v] \in Nat
  BY VideoFacts DEF Part, Rest
<1>2. from \in Cursors /\ Rest(from) \subseteq Rest(c)
  <2>1. CASE hot = {}
    BY <2>1 DEF ColdFrom
  <2>2. CASE hot # {}
    BY <2>2, HotLast DEF Part, ColdFrom, Cursors, Videos
  <2> QED BY <2>1, <2>2
<1>3. \A v \in hot : v \in Rest(from) => Crowded(v) \/ hot = {}
  BY HotLast DEF Part, ColdFrom
<1> HIDE DEF from
<1>4. p.shown = hot \cup cold /\ p.twice = hot \cap cold
  BY DEF Answer
<1> SUFFICES Orderly(p, c)
  OBVIOUS
<1>5. p.shown \subseteq Rest(c) /\ p.twice \subseteq p.shown /\ \A v \in p.twice : Crowded(v)
  BY <1>1, <1>2, <1>3, <1>4
<1>6. CASE ~more \/ hot \cup cold = {}
  <2>1. p.next = End
    BY <1>6 DEF Answer
  <2> HIDE DEF p
  <2> QED BY <1>5, <2>1, RestEnd DEF Orderly, Cursors
<1>7. CASE more /\ hot # {} /\ cold = {}
  <2> DEFINE l == LastOf(Z, hot)
  <2>1. p.next = At(l)
    BY <1>7 DEF Answer
  <2> HIDE DEF p
  <2>2. l \in hot /\ l \in Videos /\ Rest(At(l)) \subseteq Rest(c) /\ \A v \in hot : v \in Rest(At(l)) => Crowded(v)
    BY <1>7, HotLast DEF Part
  <2> HIDE DEF l
  <2>3. At(l) \in Cursors /\ l \notin Rest(At(l)) /\ l \in Rest(c)
    BY <1>1, <2>2, RestAt DEF Cursors, Videos
  <2> QED BY <1>4, <1>5, <1>7, <2>1, <2>2, <2>3 DEF Orderly
<1>8. CASE more /\ cold # {}
  <2> DEFINE k == LastOf(TimeOf, cold)
  <2>1. p.next = At(k)
    BY <1>8 DEF Answer
  <2> HIDE DEF p
  <2>2. k \in cold /\ \A w \in cold \ {k} : Later(TimeOf, w, k)
    BY <1>1, <1>8, LastIs
  <2> HIDE DEF k
  <2>3. k \in Videos /\ k \in Rest(from) /\ k \in Rest(c) /\ k \notin Rest(At(k)) /\ At(k) \in Cursors
    BY <1>1, <1>2, <2>2, RestAt DEF Cursors, Videos
  <2>4. Rest(At(k)) \subseteq Rest(from) /\ Rest(At(k)) \subseteq Rest(c)
    BY <1>2, <2>3, RestOfRest
  <2>5. \A v \in cold : v \notin Rest(At(k))
    <3> SUFFICES ASSUME NEW v \in cold, v \in Rest(At(k)) PROVE FALSE
      OBVIOUS
    <3>1. v # k /\ Later(TimeOf, v, k)
      BY <2>2, <2>3
    <3>2. TimeOf[v] < TimeOf[k] \/ (TimeOf[v] = TimeOf[k] /\ v < k)
      BY <1>1, <2>3, RestAt
    <3>3. TimeOf[v] \in Nat /\ TimeOf[k] \in Nat /\ v \in Nat /\ k \in Nat
      BY <1>1, <2>2
    <3> QED BY <3>1, <3>2, <3>3 DEF Later
  <2> QED BY <1>3, <1>4, <1>5, <1>8, <2>1, <2>2, <2>3, <2>4, <2>5 DEF Orderly
<1> QED BY <1>6, <1>7, <1>8

LEMMA ListLatestRest ==
  ASSUME NEW DB \in SUBSET Videos, NEW c, NEW n PROVE ListLatest(DB, c, n) \subseteq Rest(c)
<1>1. ListLatest(DB, c, n) \subseteq {v \in DB : Older(c, v)}
  BY FirstNIn DEF ListLatest
<1> QED BY <1>1 DEF Rest

LEMMA HotFacts ==
  ASSUME NEW Z, Shape(Z), NEW DB \in SUBSET Videos, NEW c \in Cursors
  PROVE  Hot(Z, DB, c).vs \subseteq DOMAIN Z \cap DB /\ Hot(Z, DB, c).vs \subseteq Rest(c)
<1> DEFINE fetched == FirstN(Z, {m \in DOMAIN Z : Z[m] <= c[1]}, 2 * (PageSize + 1))
           found == ZRevRangeByScore(Z, c, PageSize + 1)
<1>1. Hot(Z, DB, c).vs \subseteq found /\ Hot(Z, DB, c).vs \subseteq DB
  BY FirstNIn DEF Hot
<1>2. found \subseteq {m \in fetched : Z[m] # c[1] /\ (c[2] > 0 => m < c[2])}
  BY FirstNIn DEF ZRevRangeByScore
<1>3. fetched \subseteq {m \in DOMAIN Z : Z[m] <= c[1]}
  BY FirstNIn
<1> HIDE DEF fetched, found
<1>4. c[1] \in Nat
  BY VideoFacts DEF Cursors, Start, End, At, Videos
<1> SUFFICES ASSUME NEW v \in Hot(Z, DB, c).vs PROVE v \in DOMAIN Z /\ v \in Rest(c)
  BY <1>1
<1>5. v \in Videos /\ v \in DOMAIN Z /\ Z[v] <= c[1] /\ Z[v] # c[1]
  BY <1>1, <1>2, <1>3
<1>6. Z[v] \in {TimeOf[v], TimeOf[v] + Lag} /\ TimeOf[v] \in Nat /\ Lag \in Nat
  BY <1>5, VideoFacts DEF Shape
<1>7. TimeOf[v] < c[1]
  BY <1>4, <1>5, <1>6
<1> QED BY <1>5, <1>7 DEF Rest, Older

LEMMA PageOrderly ==
  ASSUME NEW Z, Shape(Z), NEW DB \in SUBSET Videos, NEW mine \in SUBSET DB, NEW c \in Cursors
  PROVE  /\ Orderly(FollowingPage(Z, DB, mine, c), c)
         /\ FollowingPage(Z, DB, mine, c).shown \subseteq (DOMAIN Z \cap DB) \cup mine
<1> DEFINE hot == Hot(Z, DB, c)
           remain == PageSize - Cardinality(hot.vs)
           from == ColdFrom(Z, hot.vs, c)
           cold == ListLatest(mine, from, remain + 1)
<1>1. CASE BelowWatermark(Z, c)
  <2> DEFINE vs == ListLatest(mine, c, PageSize + 1)
             some == FirstN(TimeOf, vs, PageSize)
             more == Cardinality(vs) > PageSize
  <2>1. FollowingPage(Z, DB, mine, c) = Answer(TimeOf, {}, some, more)
    BY <1>1 DEF FollowingPage, FromDB
  <2>2. some \subseteq mine /\ some \subseteq Rest(c)
    BY FirstNIn, ListLatestIn, ListLatestRest
  <2>3. more \in BOOLEAN
    OBVIOUS
  <2> HIDE DEF some, more
  <2>4. Answer(TimeOf, {}, some, more) = Answer(Z, {}, some, more)
    BY DEF Answer
  <2>5. Part(Z, {}, some, c)
    BY <2>2 DEF Part, ColdFrom
  <2>6. Answer(Z, {}, some, more).shown = some
    BY DEF Answer
  <2> QED BY <2>1, <2>2, <2>3, <2>4, <2>5, <2>6, AnswerOrderly
<1>2. CASE ~BelowWatermark(Z, c)
  <2>1. hot.vs \subseteq DOMAIN Z \cap DB /\ hot.vs \subseteq Rest(c)
    BY HotFacts
  <2>2. CASE hot.more \/ remain = 0
    <3>1. FollowingPage(Z, DB, mine, c) = Answer(Z, hot.vs, {}, TRUE)
      BY <1>2, <2>2 DEF FollowingPage
    <3> HIDE DEF hot
    <3>2. Part(Z, hot.vs, {}, c)
      BY <2>1 DEF Part
    <3>3. Answer(Z, hot.vs, {}, TRUE).shown = hot.vs
      BY DEF Answer
    <3> QED BY <2>1, <3>1, <3>2, <3>3, AnswerOrderly
  <2>3. CASE ~(hot.more \/ remain = 0)
    <3> DEFINE some == FirstN(TimeOf, cold, remain)
               more == Cardinality(cold) > remain
    <3>1. FollowingPage(Z, DB, mine, c) = Answer(Z, hot.vs, some, more)
      BY <1>2, <2>3 DEF FollowingPage
    <3>2. some \subseteq mine /\ some \subseteq Rest(from)
      BY FirstNIn, ListLatestIn, ListLatestRest
    <3>3. more \in BOOLEAN
      OBVIOUS
    <3> HIDE DEF some, more, hot
    <3>4. Part(Z, hot.vs, some, c)
      BY <2>1, <3>2 DEF Part
    <3>5. Answer(Z, hot.vs, some, more).shown = hot.vs \cup some
      BY DEF Answer
    <3> QED BY <2>1, <3>1, <3>2, <3>3, <3>4, <3>5, AnswerOrderly
  <2> QED BY <2>2, <2>3
<1> QED BY <1>1, <1>2

(***************************************************************************)
(* The first n of an ordered set: they precede the others, and are n of    *)
(* them where there are others.                                            *)
(***************************************************************************)

Ranked(f, S) == S \in SUBSET Nat /\ IsFiniteSet(S) /\ \A v \in S : f[v] \in Nat
Above(f, S, v) == {w \in S : Later(f, w, v)}

LEMMA AboveCounts ==
  ASSUME NEW f, NEW S, Ranked(f, S), NEW v
  PROVE  /\ Above(f, S, v) \in SUBSET S /\ IsFiniteSet(Above(f, S, v))
         /\ Cardinality(Above(f, S, v)) \in Nat
<1>1. Above(f, S, v) \in SUBSET S
  BY DEF Above
<1> QED BY <1>1, FS_Subset, FS_CardinalityType DEF Ranked

LEMMA FirstNAbove ==
  ASSUME NEW f, NEW S, NEW n
  PROVE  FirstN(f, S, n) = {v \in S : Cardinality(Above(f, S, v)) < n}
  BY DEF FirstN, Above

LEMMA FirstNTop ==
  ASSUME NEW f, NEW S, Ranked(f, S), NEW n \in Nat,
         NEW m \in FirstN(f, S, n), NEW v \in S \ FirstN(f, S, n)
  PROVE  Later(f, m, v)
<1>1. m \in S /\ m # v /\ Cardinality(Above(f, S, m)) < n /\ ~(Cardinality(Above(f, S, v)) < n)
  BY FirstNAbove
<1>2. f[m] \in Nat /\ f[v] \in Nat /\ m \in Nat /\ v \in Nat
  BY <1>1 DEF Ranked
<1> SUFFICES ASSUME Later(f, v, m) PROVE FALSE
  BY <1>1, <1>2 DEF Later
<1>3. Above(f, S, v) \subseteq Above(f, S, m)
  <2> SUFFICES ASSUME NEW w \in S, Later(f, w, v) PROVE Later(f, w, m)
    BY DEF Above
  <2>1. f[w] \in Nat /\ w \in Nat
    BY DEF Ranked
  <2> QED BY <1>2, <2>1 DEF Later
<1>4. Cardinality(Above(f, S, v)) <= Cardinality(Above(f, S, m))
  BY <1>3, AboveCounts, FS_Subset
<1>5. Cardinality(Above(f, S, v)) \in Nat /\ Cardinality(Above(f, S, m)) \in Nat
  BY AboveCounts
<1> QED BY <1>1, <1>4, <1>5

LEMMA FirstNFull ==
  ASSUME NEW f, NEW S, Ranked(f, S), NEW n \in Nat, FirstN(f, S, n) # S
  PROVE  Cardinality(FirstN(f, S, n)) >= n
<1> DEFINE Left == S \ FirstN(f, S, n)
           Counts == {Cardinality(Above(f, S, v)) : v \in Left}
<1>1. PICK k \in Counts : \A j \in Counts : k <= j
  <2>1. Left # {}
    BY FirstNIn
  <2>2. Counts \in SUBSET Nat /\ Counts # {}
    BY <2>1, AboveCounts
  <2> HIDE DEF Counts
  <2> QED BY <2>2, SmallestNumber
<1>2. PICK v \in Left : Cardinality(Above(f, S, v)) = k
  OBVIOUS
<1>3. Above(f, S, v) \subseteq FirstN(f, S, n)
  <2> SUFFICES ASSUME NEW w \in Left, Later(f, w, v) PROVE FALSE
    BY DEF Above
  <2>1. v \in S /\ w \in S
    OBVIOUS
  <2>2. f[w] \in Nat /\ f[v] \in Nat /\ w \in Nat /\ v \in Nat
    BY <2>1 DEF Ranked
  <2>3. Above(f, S, w) \subseteq Above(f, S, v)
    <3> SUFFICES ASSUME NEW x \in S, Later(f, x, w) PROVE Later(f, x, v)
      BY DEF Above
    <3>1. f[x] \in Nat /\ x \in Nat
      BY DEF Ranked
    <3> QED BY <2>2, <3>1 DEF Later
  <2>4. w \in Above(f, S, v) /\ w \notin Above(f, S, w)
    BY <2>1, <2>2 DEF Above, Later
  <2>5. Cardinality(Above(f, S, w)) <= Cardinality(Above(f, S, v))
        /\ Cardinality(Above(f, S, w)) # Cardinality(Above(f, S, v))
    BY <2>3, <2>4, AboveCounts, FS_Subset
  <2>6. k <= Cardinality(Above(f, S, w))
    BY <1>1
  <2>7. Cardinality(Above(f, S, v)) \in Nat /\ Cardinality(Above(f, S, w)) \in Nat
    BY AboveCounts
  <2> QED BY <1>2, <2>5, <2>6, <2>7
<1>4. ~(Cardinality(Above(f, S, v)) < n)
  BY FirstNAbove
<1>5. IsFiniteSet(FirstN(f, S, n)) /\ Cardinality(FirstN(f, S, n)) \in Nat
  BY FirstNIn, FS_Subset, FS_CardinalityType DEF Ranked
<1>6. Cardinality(Above(f, S, v)) <= Cardinality(FirstN(f, S, n))
  BY <1>3, <1>5, FS_Subset
<1>7. Cardinality(Above(f, S, v)) \in Nat
  BY AboveCounts
<1> QED BY <1>4, <1>5, <1>6, <1>7

LEMMA FirstNSome ==
  ASSUME NEW f, NEW S, Ranked(f, S), S # {}, NEW n \in Nat \ {0}
  PROVE  FirstN(f, S, n) # {}
<1> SUFFICES ASSUME FirstN(f, S, n) = {} PROVE FALSE
  OBVIOUS
<1>1. Cardinality(FirstN(f, S, n)) >= n
  BY FirstNFull
<1> QED BY <1>1, FS_EmptySet

LEMMA FirstNAtMost ==
  ASSUME NEW f, NEW S, Ranked(f, S), NEW n \in Nat
  PROVE  IsFiniteSet(FirstN(f, S, n)) /\ Cardinality(FirstN(f, S, n)) \in Nat
         /\ Cardinality(FirstN(f, S, n)) <= n
<1> DEFINE top == FirstN(f, S, n)
<1>1. top \in SUBSET S /\ IsFiniteSet(top) /\ Cardinality(top) \in Nat
  BY FirstNIn, FS_Subset, FS_CardinalityType DEF Ranked
<1>2. CASE top = {}
  BY <1>2, FS_EmptySet
<1>3. CASE top # {}
  <2> DEFINE l == LastOf(f, top)
  <2>1. top \in SUBSET Nat /\ \A v \in top : f[v] \in Nat
    BY <1>1 DEF Ranked
  <2>2. l \in top /\ \A w \in top \ {l} : Later(f, w, l)
    <3> HIDE DEF top
    <3> QED BY <1>3, <2>1, LastIs
  <2>3. Cardinality(Above(f, S, l)) < n
    BY <2>2, FirstNAbove
  <2> HIDE DEF top, l
  <2>4. top \ {l} \subseteq Above(f, S, l)
    BY <1>1, <2>2 DEF Above
  <2>5. Cardinality(top \ {l}) <= Cardinality(Above(f, S, l)) /\ Cardinality(Above(f, S, l)) \in Nat
    BY <2>4, AboveCounts, FS_Subset
  <2>6. Cardinality(top \ {l}) = Cardinality(top) - 1
    BY <1>1, <2>2, FS_RemoveElement
  <2>7. Cardinality(top) <= n
    BY <1>1, <2>3, <2>5, <2>6
  <2> QED BY <1>1, <2>7 DEF top
<1> QED BY <1>1, <1>2, <1>3

LEMMA FirstNRanked ==
  ASSUME NEW f, NEW S, Ranked(f, S), NEW T \in SUBSET S
  PROVE  Ranked(f, T)
  BY FS_Subset DEF Ranked

LEMMA VideosRanked ==
  ASSUME NEW S \in SUBSET Videos
  PROVE  Ranked(TimeOf, S)
<1>1. Ranked(TimeOf, Videos)
  BY VideoFacts DEF Ranked
<1> QED BY <1>1, FirstNRanked

LEMMA SetRanked ==
  ASSUME NEW Z, Shape(Z)
  PROVE  Ranked(Z, DOMAIN Z)
<1>1. DOMAIN Z \in SUBSET (Videos \cup {Placeholder}) /\ IsFiniteSet(Videos \cup {Placeholder})
  BY VideoFacts, FS_AddElement DEF Shape
<1>2. IsFiniteSet(DOMAIN Z)
  BY <1>1, FS_Subset
<1>3. \A m \in DOMAIN Z : m \in Nat /\ Z[m] \in Nat
  <2> SUFFICES ASSUME NEW m \in DOMAIN Z PROVE m \in Nat /\ Z[m] \in Nat
    OBVIOUS
  <2>1. CASE m = Placeholder
    BY <2>1 DEF Placeholder, Shape
  <2>2. CASE m # Placeholder
    <3>1. m \in Videos /\ Z[m] \in {TimeOf[m], TimeOf[m] + Lag}
      BY <1>1, <2>2 DEF Shape
    <3>2. m \in Nat /\ TimeOf[m] \in Nat /\ Lag \in Nat
      BY <3>1, VideoFacts
    <3> QED BY <3>1, <3>2
  <2> QED BY <2>1, <2>2
<1> QED BY <1>2, <1>3 DEF Ranked

(***************************************************************************)
(* No page skips a video that is in the set, or is older than all of it,   *)
(* and is far from the others.                                             *)
(***************************************************************************)

\* Older than every video of the set, which is not that of a fan without any.
DeepIn(Z, v) == Placeholder \notin DOMAIN Z /\ \A m \in DOMAIN Z : TimeOf[m] > TimeOf[v]
Placed(Z, v) == DOMAIN Z = {} \/ v \in DOMAIN Z \/ DeepIn(Z, v)

LEMMA FarApart ==
  ASSUME NEW v \in Videos, ~Crowded(v), NEW w \in Videos, w # v
  PROVE  TimeOf[w] > TimeOf[v] + Lag \/ TimeOf[v] > TimeOf[w] + Lag
<1>1. /\ ~(TimeOf[v] <= TimeOf[w] /\ TimeOf[w] <= TimeOf[v] + Lag)
      /\ ~(TimeOf[w] <= TimeOf[v] /\ TimeOf[v] <= TimeOf[w] + Lag)
  BY DEF Crowded
<1>2. TimeOf[v] \in Nat /\ TimeOf[w] \in Nat /\ Lag \in Nat
  BY VideoFacts
<1> QED BY <1>1, <1>2

LEMMA InOrder ==
  ASSUME NEW v \in Videos, NEW w \in Videos, ~Crowded(v), v # w
  PROVE  v < w <=> TimeOf[v] < TimeOf[w]
<1>1. TimeOf[v] \in Nat /\ TimeOf[w] \in Nat /\ Lag \in Nat /\ v \in Nat /\ w \in Nat
  BY VideoFacts
<1>2. /\ v < w => TimeOf[v] <= TimeOf[w] + Lag
      /\ w < v => TimeOf[w] <= TimeOf[v] + Lag
  BY FollowingAssumption
<1> QED BY <1>1, <1>2, FarApart

\* The cold part is the table's: what it leaves out is older than its last video.
LEMMA ColdSkipsNone ==
  ASSUME NEW mine \in SUBSET Videos, NEW c, NEW n \in Nat \ {0}, NEW v \in mine, v \in Rest(c),
         v \notin FirstN(TimeOf, ListLatest(mine, c, n + 1), n)
  PROVE  /\ Cardinality(ListLatest(mine, c, n + 1)) > n
         /\ FirstN(TimeOf, ListLatest(mine, c, n + 1), n) # {}
         /\ v \in Rest(At(LastOf(TimeOf, FirstN(TimeOf, ListLatest(mine, c, n + 1), n))))
<1> DEFINE S == {u \in mine : Older(c, u)}
           cold == FirstN(TimeOf, S, n + 1)
           some == FirstN(TimeOf, cold, n)
<1>1. cold = ListLatest(mine, c, n + 1)
  BY DEF ListLatest
<1>2. v \in S /\ S \in SUBSET Videos /\ S # {}
  BY DEF Rest
<1>3. Ranked(TimeOf, S)
  BY <1>2, VideosRanked
<1> HIDE DEF S
<1>4. cold \in SUBSET S /\ cold # {} /\ Ranked(TimeOf, cold) /\ IsFiniteSet(cold) /\ Cardinality(cold) \in Nat
  <2>1. cold \in SUBSET S /\ cold # {}
    BY <1>2, <1>3, FirstNIn, FirstNSome
  <2>2. Ranked(TimeOf, cold)
    BY <1>3, <2>1, FirstNRanked
  <2> QED BY <2>1, <2>2, FS_CardinalityType DEF Ranked
<1>5. v \notin some
  BY <1>1
<1> HIDE DEF cold
<1>6. some \in SUBSET cold /\ some # {} /\ some \subseteq Videos
  BY <1>2, <1>4, FirstNIn, FirstNSome
<1>7. Cardinality(cold) > n /\ \A m \in some : Later(TimeOf, m, v)
  <2>1. CASE v \notin cold
    <3>1. Cardinality(cold) >= n + 1
      BY <1>2, <1>3, <2>1, FirstNFull DEF cold
    <3>2. \A m \in some : Later(TimeOf, m, v)
      BY <1>2, <1>3, <1>6, <2>1, FirstNTop DEF cold
    <3> QED BY <1>4, <3>1, <3>2
  <2>2. CASE v \in cold
    <3>1. Cardinality(some) >= n
      BY <1>4, <1>5, <2>2, FirstNFull
    <3>2. \A m \in some : Later(TimeOf, m, v)
      BY <1>4, <1>5, <2>2, FirstNTop
    <3>3. IsFiniteSet(some) /\ Cardinality(some) \in Nat
      BY <1>4, <1>6, FS_Subset, FS_CardinalityType
    <3>4. some \cup {v} \subseteq cold /\ Cardinality(some \cup {v}) = Cardinality(some) + 1
      BY <1>5, <1>6, <2>2, <3>3, FS_AddElement
    <3>5. Cardinality(some \cup {v}) <= Cardinality(cold)
      BY <1>4, <3>4, FS_Subset
    <3> QED BY <1>4, <3>1, <3>2, <3>3, <3>4, <3>5
  <2> QED BY <2>1, <2>2
<1> DEFINE k == LastOf(TimeOf, some)
<1>8. k \in some
  <2>1. some \in SUBSET Nat /\ \A u \in some : TimeOf[u] \in Nat
    BY <1>6, VideoFacts
  <2> HIDE DEF some
  <2> QED BY <1>6, <2>1, LastIs
<1>9. v \in Rest(At(k))
  <2>1. k \in Videos /\ v \in Videos /\ Later(TimeOf, k, v)
    BY <1>6, <1>7, <1>8
  <2> HIDE DEF k
  <2>2. TimeOf[v] < TimeOf[k] \/ (TimeOf[v] = TimeOf[k] /\ v < k)
    <3>1. TimeOf[v] \in Nat /\ TimeOf[k] \in Nat /\ v \in Nat /\ k \in Nat
      BY <2>1, VideoFacts
    <3> QED BY <2>1, <3>1 DEF Later
  <2> QED BY <2>1, <2>2, RestAt
<1> QED BY <1>1, <1>6, <1>7, <1>9

\* A member that is far from the others and older than the cursor is not passed over.
LEMMA NotPassedOver ==
  ASSUME NEW Z, Shape(Z), NEW c \in Cursors, NEW v \in DOMAIN Z, v \in Rest(c), ~Crowded(v)
  PROVE  Z[v] <= c[1] /\ Z[v] # c[1] /\ (c[2] > 0 => v < c[2])
<1>1. v \in Videos /\ Z[v] \in {TimeOf[v], TimeOf[v] + Lag}
  BY VideoFacts DEF Rest, Shape
<1>2. TimeOf[v] \in Nat /\ Lag \in Nat /\ v \in Nat /\ TimeOf[v] + Lag < Now /\ Now \in Nat
  BY <1>1, VideoFacts, FollowingAssumption
<1>3. CASE c = Start
  <2>1. c[1] = Now /\ c[2] = 0
    BY <1>3 DEF Start
  <2> QED BY <1>1, <1>2, <2>1
<1>4. CASE c = End
  BY <1>4, RestEnd
<1>5. ASSUME NEW w \in Videos, c = At(w)
      PROVE  Z[v] <= c[1] /\ Z[v] # c[1] /\ (c[2] > 0 => v < c[2])
  <2>1. c[1] = TimeOf[w] /\ c[2] = w /\ TimeOf[w] \in Nat /\ w \in Nat
    BY <1>5, VideoFacts DEF At
  <2>2. v # w /\ (TimeOf[v] < TimeOf[w] \/ (TimeOf[v] = TimeOf[w] /\ v < w))
    BY <1>1, <1>5, RestAt
  <2>3. TimeOf[w] > TimeOf[v] + Lag
    BY <1>1, <1>2, <2>1, <2>2, FarApart
  <2>4. v < w
    BY <1>1, <1>2, <2>1, <2>2, <2>3, InOrder
  <2> QED BY <1>1, <1>2, <2>1, <2>3, <2>4
<1> QED BY <1>3, <1>4, <1>5 DEF Cursors, Videos

\* What the set does not yield is older than the last video it yields.
LEMMA HotSkipsNone ==
  ASSUME NEW Z, Shape(Z), NEW DB \in SUBSET Videos, NEW c \in Cursors, NEW v \in DB, v \in Rest(c),
         ~Crowded(v), Placed(Z, v), Hot(Z, DB, c).vs # {}, v \notin Hot(Z, DB, c).vs
  PROVE  v \in Rest(At(LastOf(Z, Hot(Z, DB, c).vs)))
<1> DEFINE hot == Hot(Z, DB, c).vs
           l == LastOf(Z, hot)
<1>1. hot \subseteq DOMAIN Z \cap DB /\ hot \subseteq Rest(c) /\ v \in Videos
  BY HotFacts
<1>2. l \in hot /\ l \in Videos
  <2> HIDE DEF hot
  <2> QED BY <1>1, HotLast DEF hot
<1>3. TimeOf[v] < TimeOf[l]
  <2>1. CASE v \notin DOMAIN Z
    <3>1. l \in DOMAIN Z
      BY <1>1, <1>2
    <3>2. TimeOf[l] > TimeOf[v]
      BY <2>1, <3>1 DEF Placed, DeepIn
    <3> QED BY <1>1, <1>2, <3>2, VideoFacts
  <2>2. CASE v \in DOMAIN Z
    <3> DEFINE M == {m \in DOMAIN Z : Z[m] <= c[1]}
               fetched == FirstN(Z, M, 2 * (PageSize + 1))
               F == {m \in fetched : Z[m] # c[1] /\ (c[2] > 0 => m < c[2])}
               found == FirstN(Z, F, PageSize + 1)
               top == FirstN(Z, found, PageSize)
    <3>1. hot = (top \ {Placeholder}) \cap DB
      BY DEF Hot, ZRevRangeByScore
    <3>2. v \in M /\ (v \in fetched => v \in F)
      BY <2>2, NotPassedOver
    <3>3. v \notin top
      BY <1>1, <3>1, VideoFacts
    <3>4. l \in top
      BY <1>2, <3>1
    <3> HIDE DEF hot, l
    <3>5. Ranked(Z, M) /\ Ranked(Z, fetched) /\ Ranked(Z, F) /\ Ranked(Z, found)
      <4>1. Ranked(Z, M)
        BY SetRanked, FirstNRanked
      <4>2. Ranked(Z, fetched)
        <5> HIDE DEF M
        <5> QED BY <4>1, FirstNIn, FirstNRanked
      <4>3. Ranked(Z, F)
        <5>1. F \in SUBSET fetched
          OBVIOUS
        <5> HIDE DEF fetched, F
        <5> QED BY <4>2, <5>1, FirstNRanked
      <4>4. Ranked(Z, found)
        <5> HIDE DEF F
        <5> QED BY <4>3, FirstNIn, FirstNRanked
      <4> QED BY <4>1, <4>2, <4>3, <4>4
    <3>6. top \subseteq found /\ found \subseteq F /\ F \subseteq fetched
      BY FirstNIn
    <3>7. PageSize \in Nat /\ PageSize + 1 \in Nat /\ 2 * (PageSize + 1) \in Nat
      BY VideoFacts
    <3>8. Later(Z, l, v)
      <4>1. CASE v \in found
        <5> HIDE DEF found
        <5> QED BY <3>3, <3>4, <3>5, <3>7, <4>1, FirstNTop
      <4>2. CASE v \in F /\ v \notin found
        <5>1. l \in found
          BY <3>4, <3>6
        <5> HIDE DEF F, top
        <5> QED BY <3>5, <3>7, <4>2, <5>1, FirstNTop
      <4>3. CASE v \notin F
        <5>1. l \in fetched /\ v \notin fetched
          BY <3>2, <3>4, <3>6, <4>3
        <5> HIDE DEF M, F, found, top
        <5> QED BY <3>2, <3>5, <3>7, <5>1, FirstNTop
      <4> QED BY <4>1, <4>2, <4>3
    <3>9. l \in DOMAIN Z /\ l \in Videos
      BY <1>1, <1>2 DEF l, hot
    <3>10. Z[v] \in {TimeOf[v], TimeOf[v] + Lag} /\ Z[l] \in {TimeOf[l], TimeOf[l] + Lag}
      BY <1>1, <2>2, <3>9, VideoFacts DEF Shape
    <3>11. TimeOf[v] \in Nat /\ TimeOf[l] \in Nat /\ Lag \in Nat /\ v \in Nat /\ l \in Nat
      BY <1>1, <3>9, VideoFacts
    <3>12. v # l /\ Z[l] >= Z[v]
      BY <3>8, <3>10, <3>11 DEF Later
    <3>13. TimeOf[l] > TimeOf[v] + Lag \/ TimeOf[v] > TimeOf[l] + Lag
      BY <1>1, <3>9, <3>12, FarApart
    <3> QED BY <3>10, <3>11, <3>12, <3>13
  <2> QED BY <2>1, <2>2
<1> HIDE DEF hot, l
<1>4. v \in Rest(At(l))
  BY <1>1, <1>2, <1>3, RestAt
<1> QED BY <1>4 DEF hot, l

GhostsFew(Z, DB) == ~(Cardinality(DOMAIN Z \ (DB \cup {Placeholder})) >= PageSize)

\* A page's worth of members of which none exists any more would be ghosts.
LEMMA SomeExist ==
  ASSUME NEW Z, Shape(Z), NEW DB \in SUBSET Videos, NEW c \in Cursors, GhostsFew(Z, DB),
         Hot(Z, DB, c).more
  PROVE  Hot(Z, DB, c).vs # {}
<1> DEFINE found == ZRevRangeByScore(Z, c, PageSize + 1)
           top == FirstN(Z, found, PageSize)
<1>1. Cardinality(found) > PageSize /\ Hot(Z, DB, c).vs = (top \ {Placeholder}) \cap DB
  BY DEF Hot
<1>2. found \subseteq DOMAIN Z
  <2>1. found \subseteq FirstN(Z, {m \in DOMAIN Z : Z[m] <= c[1]}, 2 * (PageSize + 1))
    BY FirstNIn DEF ZRevRangeByScore
  <2>2. FirstN(Z, {m \in DOMAIN Z : Z[m] <= c[1]}, 2 * (PageSize + 1)) \subseteq {m \in DOMAIN Z : Z[m] <= c[1]}
    BY FirstNIn
  <2> QED BY <2>1, <2>2
<1> HIDE DEF found
<1>3. Ranked(Z, found) /\ IsFiniteSet(found) /\ Cardinality(found) \in Nat /\ PageSize \in Nat /\ PageSize > 0
  <2>1. Ranked(Z, found)
    BY <1>2, SetRanked, FirstNRanked
  <2> QED BY <2>1, VideoFacts, FS_CardinalityType DEF Ranked
<1>4. top \subseteq found /\ IsFiniteSet(top) /\ Cardinality(top) \in Nat
  BY <1>3, FirstNIn, FS_Subset, FS_CardinalityType
<1>5. Cardinality(top) >= PageSize
  <2>1. CASE top = found
    BY <1>1, <1>3, <2>1
  <2>2. CASE top # found
    BY <1>3, <2>2, FirstNFull
  <2> QED BY <2>1, <2>2
<1>6. Placeholder \notin top
  <2> SUFFICES ASSUME Placeholder \in top PROVE FALSE
    OBVIOUS
  <2>1. Placeholder \in found /\ Cardinality(Above(Z, found, Placeholder)) < PageSize
    BY FirstNAbove
  <2>2. Z[Placeholder] = 0
    BY <1>2, <2>1 DEF Shape
  <2>3. \A w \in found \ {Placeholder} : Later(Z, w, Placeholder)
    <3> SUFFICES ASSUME NEW w \in found, w # Placeholder PROVE Later(Z, w, Placeholder)
      OBVIOUS
    <3>1. w \in Videos /\ Z[w] \in {TimeOf[w], TimeOf[w] + Lag}
      BY <1>2 DEF Shape
    <3>2. TimeOf[w] \in Nat /\ TimeOf[w] > 0 /\ Lag \in Nat
      BY <3>1, VideoFacts
    <3> QED BY <2>2, <3>1, <3>2 DEF Later
  <2>4. found \ {Placeholder} \subseteq Above(Z, found, Placeholder)
    BY <2>3 DEF Above
  <2>5. Cardinality(found \ {Placeholder}) = Cardinality(found) - 1
    BY <1>3, <2>1, FS_RemoveElement
  <2>6. Cardinality(found \ {Placeholder}) <= Cardinality(Above(Z, found, Placeholder))
        /\ Cardinality(Above(Z, found, Placeholder)) \in Nat
    BY <1>3, <2>4, AboveCounts, FS_Subset
  <2> QED BY <1>1, <1>3, <2>1, <2>5, <2>6
<1> SUFFICES ASSUME top \cap DB = {} PROVE FALSE
  BY <1>1, <1>6
<1>7. top \subseteq DOMAIN Z \ (DB \cup {Placeholder})
  BY <1>2, <1>4, <1>6
<1>8. IsFiniteSet(DOMAIN Z \ (DB \cup {Placeholder})) /\ Cardinality(DOMAIN Z \ (DB \cup {Placeholder})) \in Nat
  <2>1. IsFiniteSet(DOMAIN Z)
    BY SetRanked DEF Ranked
  <2> QED BY <2>1, FS_Subset, FS_CardinalityType
<1>9. Cardinality(top) <= Cardinality(DOMAIN Z \ (DB \cup {Placeholder}))
  BY <1>7, <1>8, FS_Subset
<1> QED BY <1>3, <1>4, <1>5, <1>8, <1>9 DEF GhostsFew

LEMMA PageSkipsNone ==
  ASSUME NEW Z, Shape(Z), NEW DB \in SUBSET Videos, NEW mine \in SUBSET DB, NEW c \in Cursors,
         GhostsFew(Z, DB), NEW v \in mine, v \in Rest(c), ~Crowded(v), Placed(Z, v)
  PROVE  \/ v \in FollowingPage(Z, DB, mine, c).shown
         \/ v \in Rest(FollowingPage(Z, DB, mine, c).next)
<1> DEFINE hot == Hot(Z, DB, c)
           remain == PageSize - Cardinality(hot.vs)
           from == ColdFrom(Z, hot.vs, c)
           cold == ListLatest(mine, from, remain + 1)
<1>0. mine \in SUBSET Videos /\ v \in DB /\ PageSize \in Nat \ {0}
  BY VideoFacts
<1>1. CASE BelowWatermark(Z, c)
  <2> DEFINE vs == ListLatest(mine, c, PageSize + 1)
             some == FirstN(TimeOf, vs, PageSize)
             more == Cardinality(vs) > PageSize
  <2>1. FollowingPage(Z, DB, mine, c) = Answer(TimeOf, {}, some, more)
    BY <1>1 DEF FollowingPage, FromDB
  <2>2. v \notin some => more /\ some # {} /\ v \in Rest(At(LastOf(TimeOf, some)))
    BY <1>0, ColdSkipsNone
  <2> HIDE DEF some, more
  <2>3. Answer(TimeOf, {}, some, more).shown = some
    BY DEF Answer
  <2>4. more /\ some # {} => Answer(TimeOf, {}, some, more).next = At(LastOf(TimeOf, some))
    BY DEF Answer
  <2> QED BY <2>1, <2>2, <2>3, <2>4
<1>2. CASE ~BelowWatermark(Z, c)
  <2>1. hot.vs \subseteq DOMAIN Z \cap DB /\ hot.vs \subseteq Rest(c)
    BY HotFacts
  <2>2. Cardinality(hot.vs) \in Nat /\ (hot.vs = {} => remain = PageSize)
    <3>1. IsFiniteSet(hot.vs)
      BY <2>1, SetRanked, FS_Subset DEF Ranked
    <3> HIDE DEF hot
    <3> QED BY <1>0, <3>1, FS_CardinalityType, FS_EmptySet
  <2>3. hot.vs # {} /\ v \notin hot.vs => v \in Rest(At(LastOf(Z, hot.vs)))
    BY <1>0, HotSkipsNone
  <2>4. hot.more => hot.vs # {}
    BY SomeExist
  <2>5. CASE hot.more \/ remain = 0
    <3>1. FollowingPage(Z, DB, mine, c) = Answer(Z, hot.vs, {}, TRUE)
      BY <1>2, <2>5 DEF FollowingPage
    <3>2. hot.vs # {}
      BY <1>0, <2>2, <2>4, <2>5
    <3> HIDE DEF hot
    <3>3. Answer(Z, hot.vs, {}, TRUE).shown = hot.vs /\ Answer(Z, hot.vs, {}, TRUE).next = At(LastOf(Z, hot.vs))
      BY <3>2 DEF Answer
    <3> QED BY <2>3, <3>1, <3>2, <3>3
  <2>6. CASE ~(hot.more \/ remain = 0)
    <3> DEFINE some == FirstN(TimeOf, cold, remain)
               more == Cardinality(cold) > remain
    <3>1. FollowingPage(Z, DB, mine, c) = Answer(Z, hot.vs, some, more)
      BY <1>2, <2>6 DEF FollowingPage
    <3>2. Answer(Z, hot.vs, some, more).shown = hot.vs \cup some
      BY DEF Answer
    <3>3. more /\ some # {} => Answer(Z, hot.vs, some, more).next = At(LastOf(TimeOf, some))
      <4> HIDE DEF more, some
      <4> QED BY DEF Answer
    <3>4. remain \in Nat \ {0}
      <4>1. Cardinality(hot.vs) <= PageSize
        <5> DEFINE found == ZRevRangeByScore(Z, c, PageSize + 1)
        <5>1. Cardinality(found) <= PageSize /\ hot.vs \subseteq found
          <6>1. hot.vs \subseteq found
            BY FirstNIn DEF Hot
          <6>2. ~(Cardinality(found) > PageSize)
            BY <2>6 DEF Hot
          <6>3. IsFiniteSet(found)
            <7>1. found \subseteq FirstN(Z, {m \in DOMAIN Z : Z[m] <= c[1]}, 2 * (PageSize + 1))
              BY FirstNIn DEF ZRevRangeByScore
            <7>2. FirstN(Z, {m \in DOMAIN Z : Z[m] <= c[1]}, 2 * (PageSize + 1)) \subseteq {m \in DOMAIN Z : Z[m] <= c[1]}
              BY FirstNIn
            <7>3. found \subseteq DOMAIN Z
              BY <7>1, <7>2
            <7> HIDE DEF found
            <7> QED BY <7>3, SetRanked, FS_Subset DEF Ranked
          <6> HIDE DEF found, hot
          <6>4. Cardinality(found) \in Nat
            BY <6>3, FS_CardinalityType
          <6> QED BY <1>0, <6>1, <6>2, <6>4
        <5>2. IsFiniteSet(found) /\ Cardinality(found) \in Nat
          <6>1. found \subseteq FirstN(Z, {m \in DOMAIN Z : Z[m] <= c[1]}, 2 * (PageSize + 1))
            BY FirstNIn DEF ZRevRangeByScore
          <6>2. FirstN(Z, {m \in DOMAIN Z : Z[m] <= c[1]}, 2 * (PageSize + 1)) \subseteq {m \in DOMAIN Z : Z[m] <= c[1]}
            BY FirstNIn
          <6>3. found \subseteq DOMAIN Z
            BY <6>1, <6>2
          <6> HIDE DEF found
          <6> QED BY <6>3, SetRanked, FS_Subset, FS_CardinalityType DEF Ranked
        <5> HIDE DEF found, hot
        <5>3. Cardinality(hot.vs) <= Cardinality(found)
          BY <5>1, <5>2, FS_Subset
        <5> QED BY <1>0, <2>2, <5>1, <5>2, <5>3
      <4> HIDE DEF hot
      <4> QED BY <1>0, <2>2, <2>6, <4>1
    <3>5. v \notin hot.vs => v \in Rest(from)
      BY <2>3 DEF ColdFrom
    <3>6. v \in Rest(from) /\ v \notin some => more /\ some # {} /\ v \in Rest(At(LastOf(TimeOf, some)))
      <4> HIDE DEF remain, from
      <4> QED BY <1>0, <3>4, ColdSkipsNone
    <3> HIDE DEF hot, some, more, from
    <3> QED BY <3>1, <3>2, <3>3, <3>5, <3>6
  <2> QED BY <2>5, <2>6
<1> QED BY <1>1, <1>2

(***************************************************************************)
(* Feeds.  A feed read to its end is a recursive function; it exists, and  *)
(* what holds of every page holds of the feed, by induction on the number  *)
(* of pages.                                                               *)
(***************************************************************************)

LEMMA Induct ==
  ASSUME NEW P \in SUBSET Nat, 0 \in P, \A n \in P : n + 1 \in P
  PROVE  Nat \subseteq P
<1> SUFFICES ASSUME Nat \ P # {} PROVE FALSE
  OBVIOUS
<1>1. PICK n \in Nat \ P : \A k \in Nat \ P : n <= k
  BY SmallestNumber
<1>2. n # 0 /\ n - 1 \in Nat
  BY <1>1
<1>3. n - 1 \in P
  BY <1>1, <1>2
<1> QED BY <1>1, <1>2, <1>3

\* The first n values of the function on the numbers that begins with b and goes on by g.
Begins(R, b, g, h, n) ==
  h \in [0..n -> R] /\ h[0] = b /\ \A i \in 1..n : h[i] = g[h[i-1]]

LEMMA BeginningsAgree ==
  ASSUME NEW R, NEW b \in R, NEW g \in [R -> R], NEW n \in Nat, NEW m \in Nat,
         NEW h, NEW k, Begins(R, b, g, h, n), Begins(R, b, g, k, m)
  PROVE  \A i \in Nat : i <= n /\ i <= m => h[i] = k[i]
<1> DEFINE P == {i \in Nat : i <= n /\ i <= m => h[i] = k[i]}
<1>1. 0 \in P
  BY DEF Begins
<1>2. ASSUME NEW i \in P, i + 1 <= n, i + 1 <= m PROVE h[i+1] = k[i+1]
  <2>1. i \in Nat /\ h[i] = k[i]
    BY <1>2
  <2>2. i + 1 \in 1..n /\ i + 1 \in 1..m /\ (i + 1) - 1 = i
    BY <1>2, <2>1
  <2>3. h[i+1] = g[h[(i+1)-1]] /\ k[i+1] = g[k[(i+1)-1]]
    BY <2>2 DEF Begins
  <2> QED BY <2>1, <2>2, <2>3
<1>3. P \in SUBSET Nat /\ \A i \in P : i + 1 \in P
  BY <1>2
<1> HIDE DEF P
<1>4. Nat \subseteq P
  BY <1>1, <1>3, Induct
<1> QED BY <1>4 DEF P

LEMMA BeginningsExist ==
  ASSUME NEW R, NEW b \in R, NEW g \in [R -> R]
  PROVE  \A n \in Nat : \E h : Begins(R, b, g, h, n)
<1> DEFINE P == {n \in Nat : \E h : Begins(R, b, g, h, n)}
<1>1. 0 \in P
  <2>1. Begins(R, b, g, [i \in 0..0 |-> b], 0)
    BY DEF Begins
  <2> QED BY <2>1
<1>2. ASSUME NEW n \in P PROVE n + 1 \in P
  <2>1. n \in Nat
    BY <1>2
  <2>2. PICK h : Begins(R, b, g, h, n)
    BY <1>2
  <2> DEFINE k == [i \in 0..n+1 |-> IF i = n + 1 THEN g[h[n]] ELSE h[i]]
  <2>3. h[n] \in R
    BY <2>1, <2>2 DEF Begins
  <2>4. k \in [0..n+1 -> R]
    BY <2>1, <2>2, <2>3 DEF Begins
  <2>5. k[0] = b
    BY <2>1, <2>2 DEF Begins
  <2>6. ASSUME NEW i \in 1..n+1 PROVE k[i] = g[k[i-1]]
    <3>1. CASE i = n + 1
      <4>1. k[i] = g[h[n]] /\ i - 1 = n /\ k[n] = h[n]
        BY <2>1, <3>1
      <4> QED BY <4>1
    <3>2. CASE i # n + 1
      <4>1. i \in 1..n /\ k[i] = h[i] /\ k[i-1] = h[i-1]
        BY <2>1, <2>6, <3>2
      <4>2. h[i] = g[h[i-1]]
        BY <2>2, <4>1 DEF Begins
      <4> QED BY <4>1, <4>2
    <3> QED BY <3>1, <3>2
  <2> HIDE DEF k
  <2>7. Begins(R, b, g, k, n + 1)
    BY <2>4, <2>5, <2>6 DEF Begins
  <2> QED BY <2>1, <2>7
<1>3. P \in SUBSET Nat
  OBVIOUS
<1> HIDE DEF P
<1>4. Nat \subseteq P
  BY <1>1, <1>2, <1>3, Induct
<1> QED BY <1>4 DEF P

LEMMA RecursionExists ==
  ASSUME NEW R, NEW b \in R, NEW g \in [R -> R]
  PROVE  \E f \in [Nat -> R] : f[0] = b /\ \A n \in Nat \ {0} : f[n] = g[f[n-1]]
<1> DEFINE H(n) == CHOOSE h : Begins(R, b, g, h, n)
           f == [n \in Nat |-> H(n)[n]]
<1>1. \A n \in Nat : Begins(R, b, g, H(n), n)
  BY BeginningsExist
<1> HIDE DEF H
<1>2. f \in [Nat -> R]
  <2> SUFFICES ASSUME NEW n \in Nat PROVE H(n)[n] \in R
    OBVIOUS
  <2>1. H(n) \in [0..n -> R] /\ n \in 0..n
    BY <1>1 DEF Begins
  <2> QED BY <2>1
<1>3. f[0] = b
  BY <1>1 DEF Begins
<1>4. ASSUME NEW n \in Nat \ {0} PROVE f[n] = g[f[n-1]]
  <2>1. n - 1 \in Nat /\ n \in Nat /\ n \in 1..n /\ n - 1 <= n /\ n - 1 <= n - 1
    OBVIOUS
  <2>2. H(n)[n] = g[H(n)[n-1]]
    <3>1. Begins(R, b, g, H(n), n)
      BY <1>1
    <3> QED BY <2>1, <3>1 DEF Begins
  <2>3. H(n)[n-1] = H(n-1)[n-1]
    <3>1. Begins(R, b, g, H(n), n) /\ Begins(R, b, g, H(n-1), n-1)
      BY <1>1, <2>1
    <3> QED BY <2>1, <3>1, BeginningsAgree
  <2> QED BY <2>1, <2>2, <2>3
<1> HIDE DEF f
<1> QED BY <1>2, <1>3, <1>4

Page == [shown : SUBSET Videos, twice : SUBSET Videos, next : Cursors]
Progress == [seen : SUBSET Videos, twice : SUBSET Videos, at : Cursors]
Begun == [seen |-> {}, twice |-> {}, at |-> Start]
Turn(page, r) ==
  IF r.at = End THEN r
  ELSE [seen |-> r.seen \cup page[r.at].shown,
        twice |-> r.twice \cup page[r.at].twice \cup (r.seen \cap page[r.at].shown),
        at |-> page[r.at].next]
Pages(page, f) ==
  f \in [Nat -> Progress] /\ f[0] = Begun /\ \A n \in Nat \ {0} : f[n] = Turn(page, f[n-1])

LEMMA TurnType ==
  ASSUME NEW page \in [Cursors -> Page], NEW r \in Progress
  PROVE  Turn(page, r) \in Progress
<1>1. page[r.at] \in Page
  BY DEF Progress
<1> QED BY <1>1 DEF Turn, Progress, Page

LEMMA ReadingUnfolds ==
  ASSUME NEW page \in [Cursors -> Page]
  PROVE  \E f : Pages(page, f) /\ Reading(page) = f[2 * Cardinality(Videos) + 1]
<1> DEFINE pages[n \in Nat] ==
             IF n = 0 THEN [seen |-> {}, twice |-> {}, at |-> Start]
             ELSE LET r == pages[n - 1]
                      p == page[r.at]
                  IN IF r.at = End THEN r
                     ELSE [seen |-> r.seen \cup p.shown,
                           twice |-> r.twice \cup p.twice \cup (r.seen \cap p.shown),
                           at |-> p.next]
           Unfolds(f) == f = [n \in Nat |-> IF n = 0 THEN Begun ELSE Turn(page, f[n-1])]
<1>1. \E f : Pages(page, f) /\ Unfolds(f)
  <2> DEFINE g == [r \in Progress |-> Turn(page, r)]
  <2>1. g \in [Progress -> Progress]
    BY TurnType
  <2>2. Begun \in Progress
    BY DEF Begun, Progress, Cursors
  <2> HIDE DEF g
  <2>3. PICK f \in [Nat -> Progress] : f[0] = Begun /\ \A n \in Nat \ {0} : f[n] = g[f[n-1]]
    BY <2>1, <2>2, RecursionExists
  <2>4. ASSUME NEW n \in Nat \ {0} PROVE f[n] = Turn(page, f[n-1])
    <3>1. f[n-1] \in Progress
      BY <2>4
    <3> QED BY <2>3, <3>1 DEF g
  <2>5. Pages(page, f)
    BY <2>3, <2>4 DEF Pages
  <2>6. f = [n \in Nat |-> IF n = 0 THEN Begun ELSE Turn(page, f[n-1])]
    BY <2>3, <2>4
  <2> QED BY <2>5, <2>6
<1>2. pages = CHOOSE f : Unfolds(f)
  BY DEF Turn, Begun
<1>3. Unfolds(pages)
  BY <1>1, <1>2
<1>4. Reading(page) = pages[2 * Cardinality(Videos) + 1]
  BY DEF Reading, Videos
<1> HIDE DEF pages
<1>5. Pages(page, pages)
  <2> DEFINE P == {n \in Nat : pages[n] \in Progress}
  <2>1. pages[0] = Begun /\ \A n \in Nat \ {0} : pages[n] = Turn(page, pages[n-1])
    BY <1>3
  <2>2. 0 \in P
    BY <2>1 DEF Begun, Progress, Cursors
  <2>3. \A n \in P : n + 1 \in P
    <3> SUFFICES ASSUME NEW n \in Nat, pages[n] \in Progress PROVE pages[n+1] \in Progress
      OBVIOUS
    <3>1. pages[n+1] = Turn(page, pages[n])
      BY <2>1
    <3> QED BY <3>1, TurnType
  <2>4. P \in SUBSET Nat
    OBVIOUS
  <2> HIDE DEF P
  <2>5. Nat \subseteq P
    BY <2>2, <2>3, <2>4, Induct
  <2>6. \A n \in Nat : pages[n] \in Progress
    BY <2>5 DEF P
  <2>7. pages = [n \in Nat |-> IF n = 0 THEN Begun ELSE Turn(page, pages[n-1])]
    BY <1>3
  <2>8. pages \in [Nat -> Progress]
    BY <2>1, <2>6, <2>7
  <2> QED BY <2>1, <2>8 DEF Pages
<1> QED BY <1>4, <1>5

LEMMA TurnOrderly ==
  ASSUME NEW page \in [Cursors -> Page], \A c \in Cursors : Orderly(page[c], c),
         NEW f, Pages(page, f), NEW n \in Nat
  PROVE  /\ f[n] \in Progress /\ f[n+1] = Turn(page, f[n])
         /\ f[n].at # End => Orderly(page[f[n].at], f[n].at)
<1>1. f[n] \in Progress /\ f[n+1] = Turn(page, f[(n+1)-1]) /\ (n + 1) - 1 = n
  BY DEF Pages
<1> QED BY <1>1 DEF Progress

LEMMA FeedEnds ==
  ASSUME NEW page \in [Cursors -> Page], \A c \in Cursors : Orderly(page[c], c)
  PROVE  Reading(page).at = End
<1>1. PICK f : Pages(page, f) /\ Reading(page) = f[2 * Cardinality(Videos) + 1]
  BY ReadingUnfolds
<1>2. \A c : IsFiniteSet(Rest(c)) /\ Cardinality(Rest(c)) \in Nat /\ Cardinality(Rest(c)) <= Cardinality(Videos)
  <2> SUFFICES ASSUME NEW c PROVE IsFiniteSet(Rest(c)) /\ Cardinality(Rest(c)) \in Nat
                                  /\ Cardinality(Rest(c)) <= Cardinality(Videos)
    OBVIOUS
  <2>1. Rest(c) \in SUBSET Videos /\ IsFiniteSet(Videos)
    BY VideoFacts DEF Rest
  <2> QED BY <2>1, FS_Subset, FS_CardinalityType
<1>3. Cardinality(Videos) \in Nat
  BY VideoFacts, FS_CardinalityType
<1> DEFINE Left(n) == f[n].at = End \/ Cardinality(Rest(f[n].at)) + n <= Cardinality(Videos)
           P == {n \in Nat : Left(n)}
<1>4. 0 \in P
  <2>1. Cardinality(Rest(f[0].at)) \in Nat /\ Cardinality(Rest(f[0].at)) <= Cardinality(Videos)
    BY <1>2
  <2> QED BY <1>3, <2>1
<1>5. ASSUME NEW n \in P PROVE n + 1 \in P
  <2>1. n \in Nat /\ Left(n)
    BY <1>5
  <2>2. f[n] \in Progress /\ f[n+1] = Turn(page, f[n]) /\ (f[n].at # End => Orderly(page[f[n].at], f[n].at))
    BY <1>1, <2>1, TurnOrderly
  <2>3. CASE f[n].at = End
    BY <2>1, <2>2, <2>3 DEF Turn
  <2>4. CASE f[n].at # End
    <3> DEFINE c == f[n].at
               d == page[c].next
    <3>1. f[n+1].at = d /\ Orderly(page[c], c)
      BY <2>2, <2>4 DEF Turn
    <3>2. Cardinality(Rest(c)) + n <= Cardinality(Videos)
      BY <2>1, <2>4
    <3>3. d = End \/ (Rest(d) \subseteq Rest(c) /\ Rest(d) # Rest(c))
      BY <3>1 DEF Orderly
    <3> HIDE DEF c, d
    <3>4. CASE d = End
      BY <2>1, <3>1, <3>4
    <3>5. CASE Rest(d) \subseteq Rest(c) /\ Rest(d) # Rest(c)
      <4>1. Cardinality(Rest(d)) <= Cardinality(Rest(c)) /\ Cardinality(Rest(d)) # Cardinality(Rest(c))
        BY <1>2, <3>5, FS_Subset
      <4>2. Cardinality(Rest(d)) \in Nat /\ Cardinality(Rest(c)) \in Nat
        BY <1>2
      <4>3. Cardinality(Rest(d)) + (n + 1) <= Cardinality(Videos)
        BY <1>3, <2>1, <3>2, <4>1, <4>2
      <4> QED BY <2>1, <3>1, <4>3
    <3> QED BY <3>3, <3>4, <3>5
  <2> QED BY <2>3, <2>4
<1>6. P \in SUBSET Nat
  OBVIOUS
<1> HIDE DEF P
<1>7. Nat \subseteq P
  BY <1>4, <1>5, <1>6, Induct
<1>8. Left(2 * Cardinality(Videos) + 1)
  <2>1. 2 * Cardinality(Videos) + 1 \in P
    BY <1>3, <1>7
  <2> QED BY <2>1 DEF P
<1>9. Cardinality(Rest(f[2 * Cardinality(Videos) + 1].at)) \in Nat
  BY <1>2
<1> QED BY <1>1, <1>3, <1>8, <1>9

LEMMA FeedShowsOnce ==
  ASSUME NEW page \in [Cursors -> Page], \A c \in Cursors : Orderly(page[c], c)
  PROVE  \A v \in Reading(page).twice : Crowded(v)
<1>1. PICK f : Pages(page, f) /\ Reading(page) = f[2 * Cardinality(Videos) + 1]
  BY ReadingUnfolds
<1> DEFINE Once(n) == /\ \A v \in f[n].seen : v \in Rest(f[n].at) => Crowded(v)
                      /\ \A v \in f[n].twice : Crowded(v)
           P == {n \in Nat : Once(n)}
<1>2. 0 \in P
  BY <1>1 DEF Pages, Begun
<1>3. ASSUME NEW n \in P PROVE n + 1 \in P
  <2>1. n \in Nat /\ Once(n)
    BY <1>3
  <2>2. f[n] \in Progress /\ f[n+1] = Turn(page, f[n]) /\ (f[n].at # End => Orderly(page[f[n].at], f[n].at))
    BY <1>1, <2>1, TurnOrderly
  <2>3. CASE f[n].at = End
    BY <2>1, <2>2, <2>3 DEF Turn
  <2>4. CASE f[n].at # End
    <3> DEFINE c == f[n].at
               q == page[c]
    <3>1. /\ f[n+1].at = q.next /\ f[n+1].seen = f[n].seen \cup q.shown
          /\ f[n+1].twice = f[n].twice \cup q.twice \cup (f[n].seen \cap q.shown)
          /\ Orderly(q, c)
      BY <2>2, <2>4 DEF Turn
    <3>2. \A v \in f[n].seen : v \in Rest(c) => Crowded(v)
      BY <2>1
    <3>3. \A v \in f[n].twice : Crowded(v)
      BY <2>1
    <3> HIDE DEF c, q
    <3>4. Once(n + 1)
      BY <3>1, <3>2, <3>3 DEF Orderly
    <3> QED BY <2>1, <3>4
  <2> QED BY <2>3, <2>4
<1>4. P \in SUBSET Nat
  OBVIOUS
<1> HIDE DEF P
<1>5. Nat \subseteq P
  BY <1>2, <1>3, <1>4, Induct
<1>6. 2 * Cardinality(Videos) + 1 \in P
  <2>1. Cardinality(Videos) \in Nat
    BY VideoFacts, FS_CardinalityType
  <2> QED BY <1>5, <2>1
<1> QED BY <1>1, <1>6 DEF P

LEMMA FeedShowsOnly ==
  ASSUME NEW page \in [Cursors -> Page], \A c \in Cursors : Orderly(page[c], c),
         NEW X, \A c \in Cursors : page[c].shown \subseteq X
  PROVE  Reading(page).seen \subseteq X
<1>1. PICK f : Pages(page, f) /\ Reading(page) = f[2 * Cardinality(Videos) + 1]
  BY ReadingUnfolds
<1> DEFINE P == {n \in Nat : f[n].seen \subseteq X}
<1>2. 0 \in P
  BY <1>1 DEF Pages, Begun
<1>3. ASSUME NEW n \in P PROVE n + 1 \in P
  <2>1. n \in Nat /\ f[n].seen \subseteq X
    BY <1>3
  <2>2. f[n] \in Progress /\ f[n+1] = Turn(page, f[n])
    BY <1>1, <2>1, TurnOrderly
  <2>3. f[n].at \in Cursors
    BY <2>2 DEF Progress
  <2>4. f[n+1].seen \subseteq X
    BY <2>1, <2>2, <2>3 DEF Turn
  <2> QED BY <2>1, <2>4
<1>4. P \in SUBSET Nat
  OBVIOUS
<1> HIDE DEF P
<1>5. Nat \subseteq P
  BY <1>2, <1>3, <1>4, Induct
<1>6. 2 * Cardinality(Videos) + 1 \in P
  <2>1. Cardinality(Videos) \in Nat
    BY VideoFacts, FS_CardinalityType
  <2> QED BY <1>5, <2>1
<1> QED BY <1>1, <1>6 DEF P

LEMMA FeedSkipsNone ==
  ASSUME NEW page \in [Cursors -> Page], \A c \in Cursors : Orderly(page[c], c),
         NEW v \in Rest(Start),
         \A c \in Cursors : v \in Rest(c) => v \in page[c].shown \/ v \in Rest(page[c].next)
  PROVE  v \in Reading(page).seen
<1>1. PICK f : Pages(page, f) /\ Reading(page) = f[2 * Cardinality(Videos) + 1]
  BY ReadingUnfolds
<1> DEFINE P == {n \in Nat : v \in f[n].seen \/ v \in Rest(f[n].at)}
<1>2. 0 \in P
  BY <1>1 DEF Pages, Begun
<1>3. ASSUME NEW n \in P PROVE n + 1 \in P
  <2>1. n \in Nat /\ (v \in f[n].seen \/ v \in Rest(f[n].at))
    BY <1>3
  <2>2. f[n] \in Progress /\ f[n+1] = Turn(page, f[n])
    BY <1>1, <2>1, TurnOrderly
  <2>3. f[n].at \in Cursors
    BY <2>2 DEF Progress
  <2>4. v \in f[n+1].seen \/ v \in Rest(f[n+1].at)
    BY <2>1, <2>2, <2>3 DEF Turn
  <2> QED BY <2>1, <2>4
<1>4. P \in SUBSET Nat
  OBVIOUS
<1> HIDE DEF P
<1>5. Nat \subseteq P
  BY <1>2, <1>3, <1>4, Induct
<1>6. 2 * Cardinality(Videos) + 1 \in P
  <2>1. Cardinality(Videos) \in Nat
    BY VideoFacts, FS_CardinalityType
  <2> QED BY <1>5, <2>1
<1>7. v \in Reading(page).seen \/ v \in Rest(Reading(page).at)
  BY <1>1, <1>6 DEF P
<1> QED BY <1>7, FeedEnds, RestEnd

\* The pages of the fan's feed in the state at hand.
FanPage == [c \in Cursors |-> FollowingPage(timeline, db, By(follows), c)]

LEMMA FanPages ==
  ASSUME TypeInv
  PROVE  /\ FanPage \in [Cursors -> Page]
         /\ \A c \in Cursors : Orderly(FanPage[c], c)
         /\ \A c \in Cursors : FanPage[c].shown \subseteq (DOMAIN timeline \cap db) \cup By(follows)
<1>1. db \in SUBSET Videos /\ By(follows) \in SUBSET db /\ Shape(timeline)
  BY DEF TypeInv, TypeOK, By
<1>2. ASSUME NEW c \in Cursors
      PROVE  /\ FollowingPage(timeline, db, By(follows), c) \in Page
             /\ Orderly(FanPage[c], c)
             /\ FanPage[c].shown \subseteq (DOMAIN timeline \cap db) \cup By(follows)
  <2> DEFINE q == FollowingPage(timeline, db, By(follows), c)
  <2>1. FanPage[c] = q
    BY DEF FanPage
  <2>2. Orderly(q, c) /\ q.shown \subseteq (DOMAIN timeline \cap db) \cup By(follows)
    BY <1>1, PageOrderly
  <2>3. q = [shown |-> q.shown, twice |-> q.twice, next |-> q.next]
    BY DEF FollowingPage, FromDB, Answer
  <2> HIDE DEF q
  <2>4. q.shown \in SUBSET Videos /\ q.twice \in SUBSET Videos /\ q.next \in Cursors
    BY <2>2 DEF Orderly, Rest
  <2>5. q \in Page
    BY <2>3, <2>4 DEF Page
  <2> QED BY <2>1, <2>2, <2>5 DEF q
<1> QED BY <1>2 DEF FanPage

\* Whoever reads the following feed to its end in one state comes to an end, after at
\* most as many pages as there are videos, and sees a video twice only if another falls
\* between its time and that of its outbox row.
LEMMA FeedShowsNoneTwice == TypeInv => FeedOnce
<1> SUFFICES ASSUME TypeInv PROVE FeedOnce
  OBVIOUS
<1>1. Feed = Reading(FanPage)
  BY DEF Feed, FanPage
<1> QED BY <1>1, FanPages, FeedEnds, FeedShowsOnce DEF FeedOnce

\* Between requests the feed shows videos of followed authors only, unless the clearing
\* after an unfollow failed or a writer that knew the old follows came after it.
THEOREM OnlyFollowedShown == Spec => []OnlyFollowed
<1>1. KnownInv => OnlyFollowed
  <2> SUFFICES ASSUME KnownInv, Quiet, NEW v \in Feed.seen PROVE AuthorOf[v] \in follows \cup foreign
    BY DEF OnlyFollowed
  <2>1. Feed = Reading(FanPage)
    BY DEF Feed, FanPage
  <2>2. v \in (DOMAIN timeline \cap db) \cup By(follows)
    BY <2>1, FanPages, FeedShowsOnly DEF KnownInv
  <2>3. Leaving = {}
    BY DEF Quiet, Leaving
  <2>4. v # Placeholder
    BY <2>2, VideoFacts DEF KnownInv, TypeInv, TypeOK, By
  <2> QED BY <2>2, <2>3, <2>4 DEF KnownInv, SetKnown, Known, By
<1> QED BY <1>1, KnownInvInit, KnownInvStep, PTL DEF Spec

(***************************************************************************)
(* What the set holds.  Events come in the order of the videos: behind the *)
(* one at hand there is an event for every newer video but the dropped.    *)
(***************************************************************************)

InQueue(v) == \E i \in 1..Len(queue) : queue[i] = v

QueueOrder ==
  /\ \A u \in db : u <= published
  /\ \A i \in 1..Len(queue) :
       /\ queue[i] <= published
       /\ consPc # "idle" => cur < queue[i]
       /\ \A j \in 1..Len(queue) : i < j => queue[i] < queue[j]
       /\ \A u \in db \ dropped : u > queue[i] => InQueue(u)
  /\ consPc # "idle" => cur <= published /\ \A u \in db \ dropped : u > cur => InQueue(u)

LEMMA QueueOrderInit == Init => QueueOrder
<1> SUFFICES ASSUME Init PROVE QueueOrder
  OBVIOUS
<1>1. db = 1..published /\ published \in Nat /\ queue = <<>> /\ consPc = "idle"
  BY FollowingAssumption DEF Init
<1>2. Len(queue) = 0
  BY <1>1
<1> QED BY <1>1, <1>2 DEF QueueOrder

LEMMA PublishOrder == ASSUME TypeInv, QueueOrder, Publish PROVE QueueOrder'
<1>1. PICK p \in Videos : /\ p = published + 1 /\ published' = p /\ db' = db \cup {p}
                         /\ UNCHANGED <<cur, consPc>>
                         /\ \/ queue' = Append(queue, p) /\ dropped' = dropped
                            \/ queue' = queue /\ dropped' = dropped \cup {p}
  BY DEF Publish, consumer
<1>2. /\ published \in Nat /\ queue \in Seq(Videos) /\ Len(queue) \in Nat /\ p \in Nat
      /\ \A i \in 1..Len(queue) : queue[i] \in Nat
      /\ \A u \in db : u \in Nat
      /\ consPc # "idle" => cur \in Nat
  <2>1. Videos \subseteq Nat
    BY VideoFacts
  <2>2. published \in Nat
    BY <2>1 DEF TypeInv, TypeOK
  <2>3. queue \in Seq(Videos) /\ \A i \in 1..Len(queue) : queue[i] \in Videos
    BY DEF TypeInv, TypeOK
  <2>4. p \in Nat /\ \A i \in 1..Len(queue) : queue[i] \in Nat
    BY <2>1, <2>3
  <2>5. \A u \in db : u \in Nat
    BY <2>1 DEF TypeInv, TypeOK
  <2>6. consPc # "idle" => cur \in Nat
    BY <2>1 DEF TypeInv, HasEvent
  <2> QED BY <2>2, <2>3, <2>4, <2>5, <2>6
<1>3. p = published + 1
  BY <1>1
<1>4. CASE queue' = Append(queue, p) /\ dropped' = dropped
  <2>1. /\ Len(queue') = Len(queue) + 1 /\ queue'[Len(queue) + 1] = p
        /\ \A i \in 1..Len(queue) : queue'[i] = queue[i]
    BY <1>2, <1>4
  <2>a. Len(queue) + 1 \in 1..Len(queue') /\ \A i \in 1..Len(queue) : i \in 1..Len(queue')
    BY <1>2, <2>1
  <2>2. \A u : InQueue(u) => InQueue(u)'
    BY <2>1, <2>a DEF InQueue
  <2>3. InQueue(p)'
    BY <2>1, <2>a DEF InQueue
  <2>4. \A u \in db' : u <= p
    BY <1>1, <1>2, <1>3 DEF QueueOrder
  <2>5. ASSUME NEW i \in 1..Len(queue')
        PROVE  /\ queue'[i] <= p
               /\ consPc # "idle" => cur < queue'[i]
               /\ \A j \in 1..Len(queue') : i < j => queue'[i] < queue'[j]
               /\ \A u \in db' \ dropped : u > queue'[i] => InQueue(u)'
    <3>1. CASE i = Len(queue) + 1
      <4>1. queue'[i] = p /\ \A j \in 1..Len(queue') : ~(i < j)
        BY <1>2, <2>1, <3>1
      <4>2. consPc # "idle" => cur < p
        BY <1>1, <1>2, <1>3 DEF QueueOrder
      <4>3. \A u \in db' : ~(u > p)
        BY <1>1, <1>2, <2>4
      <4> QED BY <1>2, <4>1, <4>2, <4>3
    <3>2. CASE i # Len(queue) + 1
      <4>0. i \in 1..Len(queue)
        BY <1>2, <2>1, <3>2
      <4>1. queue'[i] = queue[i] /\ queue[i] <= published
        BY <2>1, <4>0 DEF QueueOrder
      <4>2. \A j \in 1..Len(queue') : i < j => queue'[i] < queue'[j]
        <5> SUFFICES ASSUME NEW j \in 1..Len(queue'), i < j PROVE queue[i] < queue'[j]
          BY <4>1
        <5>1. CASE j = Len(queue) + 1
          BY <1>2, <1>3, <2>1, <4>0, <4>1, <5>1
        <5>2. CASE j # Len(queue) + 1
          <6>1. j \in 1..Len(queue)
            BY <1>2, <2>1, <5>2
          <6>2. queue'[j] = queue[j]
            BY <2>1, <6>1
          <6> QED BY <4>0, <6>1, <6>2 DEF QueueOrder
        <5> QED BY <5>1, <5>2
      <4>3. \A u \in db' \ dropped : u > queue'[i] => InQueue(u)'
        <5>1. \A u \in db \ dropped : u > queue[i] => InQueue(u)'
          BY <2>2, <4>0 DEF QueueOrder
        <5> QED BY <1>1, <2>3, <4>1, <5>1
      <4>4. consPc # "idle" => cur < queue'[i]
        BY <4>0, <4>1 DEF QueueOrder
      <4>5. queue'[i] <= p
        BY <1>2, <1>3, <4>0, <4>1
      <4> QED BY <4>2, <4>3, <4>4, <4>5
    <3> QED BY <3>1, <3>2
  <2>6. consPc # "idle" => cur <= p /\ \A u \in db' \ dropped : u > cur => InQueue(u)'
    <3> SUFFICES ASSUME consPc # "idle"
                 PROVE  cur <= p /\ \A u \in db' \ dropped : u > cur => InQueue(u)'
      OBVIOUS
    <3>1. cur <= published /\ \A u \in db \ dropped : u > cur => InQueue(u)
      BY DEF QueueOrder
    <3>2. cur <= p
      BY <1>2, <1>3, <3>1
    <3> QED BY <1>1, <2>2, <2>3, <3>1, <3>2
  <2>7. UNCHANGED <<cur, consPc, dropped>> /\ published' = p
    BY <1>1, <1>4
  <2> QED BY <2>4, <2>5, <2>6, <2>7 DEF QueueOrder
<1>5. CASE queue' = queue /\ dropped' = dropped \cup {p}
  <2>1. \A u : InQueue(u)' <=> InQueue(u)
    BY <1>5 DEF InQueue
  <2>2. db' \ dropped' \subseteq db \ dropped
    BY <1>1, <1>5
  <2>3. \A u \in db' : u <= published'
    BY <1>1, <1>2, <1>3 DEF QueueOrder
  <2>4. \A i \in 1..Len(queue) : queue[i] <= published'
    BY <1>1, <1>2, <1>3 DEF QueueOrder
  <2>5. consPc # "idle" => cur <= published'
    BY <1>1, <1>2, <1>3 DEF QueueOrder
  <2> QED BY <1>1, <1>5, <2>1, <2>2, <2>3, <2>4, <2>5 DEF QueueOrder
<1> QED BY <1>1, <1>4, <1>5

LEMMA ReceiveOrder == ASSUME TypeInv, QueueOrder, Receive PROVE QueueOrder'
<1>1. /\ queue # <<>> /\ cur' = Head(queue) /\ queue' = Tail(queue) /\ consPc' = "list"
      /\ UNCHANGED <<published, db, dropped>>
  BY DEF Receive, videos, observers
<1>2. /\ queue \in Seq(Videos) /\ Len(queue) \in Nat /\ Len(queue) > 0 /\ Head(queue) = queue[1]
      /\ Len(queue') = Len(queue) - 1 /\ \A i \in 1..Len(queue') : queue'[i] = queue[i+1]
  BY <1>1 DEF TypeInv, TypeOK
<1>3. \A i \in 1..Len(queue) : queue[i] \in Nat
  BY <1>2, VideoFacts
<1>4. ASSUME NEW u \in db \ dropped, NEW k \in 1..Len(queue), u > queue[k] PROVE InQueue(u)'
  <2>1. PICK j \in 1..Len(queue) : queue[j] = u
    BY <1>4 DEF QueueOrder, InQueue
  <2>2. k = 1 \/ queue[1] < queue[k]
    <3>1. 1 \in 1..Len(queue) /\ (k = 1 \/ 1 < k)
      BY <1>2
    <3> QED BY <3>1 DEF QueueOrder
  <2>3. queue[1] \in Nat /\ queue[k] \in Nat /\ u \in Nat
    <3>1. 1 \in 1..Len(queue)
      BY <1>2
    <3> QED BY <1>3, <2>1, <3>1
  <2>4. j # 1
    BY <1>4, <2>1, <2>2, <2>3
  <2>5. j - 1 \in 1..Len(queue') /\ queue'[j-1] = u
    <3>1. j - 1 \in 1..Len(queue') /\ (j - 1) + 1 = j
      BY <1>2, <2>4
    <3> QED BY <1>2, <2>1, <3>1
  <2> QED BY <2>5 DEF InQueue
<1>5. 1 \in 1..Len(queue) /\ \A i \in 1..Len(queue') : i + 1 \in 1..Len(queue) /\ 1 < i + 1
  BY <1>2
<1>6. ASSUME NEW i \in 1..Len(queue')
      PROVE  /\ queue'[i] <= published'
             /\ cur' < queue'[i]
             /\ \A j \in 1..Len(queue') : i < j => queue'[i] < queue'[j]
             /\ \A u \in db' \ dropped' : u > queue'[i] => InQueue(u)'
  <2>1. queue'[i] = queue[i+1] /\ i + 1 \in 1..Len(queue) /\ 1 < i + 1
    BY <1>2, <1>5
  <2>2. queue[i+1] <= published /\ queue[1] < queue[i+1]
    BY <1>5, <2>1 DEF QueueOrder
  <2>3. \A j \in 1..Len(queue') : i < j => queue'[i] < queue'[j]
    <3> SUFFICES ASSUME NEW j \in 1..Len(queue'), i < j PROVE queue[i+1] < queue'[j]
      BY <2>1
    <3>1. j + 1 \in 1..Len(queue) /\ i + 1 < j + 1 /\ queue'[j] = queue[j+1]
      BY <1>2, <1>5
    <3> QED BY <2>1, <3>1 DEF QueueOrder
  <2>4. \A u \in db' \ dropped' : u > queue'[i] => InQueue(u)'
    BY <1>1, <1>4, <2>1
  <2> QED BY <1>1, <1>2, <2>1, <2>2, <2>3, <2>4
<1>7. cur' <= published' /\ \A u \in db' \ dropped' : u > cur' => InQueue(u)'
  <2>1. queue[1] <= published
    BY <1>5 DEF QueueOrder
  <2> QED BY <1>1, <1>2, <1>4, <1>5, <2>1
<1> QED BY <1>1, <1>6, <1>7 DEF QueueOrder

LEMMA CrashOrder == ASSUME TypeInv, QueueOrder, Crash PROVE QueueOrder'
<1>1. /\ consPc # "idle" /\ queue' = <<cur>> \o queue /\ consPc' = "idle"
      /\ UNCHANGED <<published, db, dropped>>
  BY DEF Crash, Forget, videos, observers
<1>2. queue \in Seq(Videos) /\ cur \in Videos /\ Len(queue) \in Nat
  BY <1>1 DEF TypeInv, TypeOK, HasEvent
<1>3. /\ Len(queue') = Len(queue) + 1 /\ queue'[1] = cur
      /\ \A i \in 1..Len(queue') : i = 1 \/ (i - 1 \in 1..Len(queue) /\ queue'[i] = queue[i-1])
      /\ \A i \in 1..Len(queue) : i + 1 \in 1..Len(queue') /\ queue'[i+1] = queue[i]
  BY <1>1, <1>2
<1>4. \A u : InQueue(u) => InQueue(u)'
  BY <1>3 DEF InQueue
<1>5. ASSUME NEW i \in 1..Len(queue')
      PROVE  /\ queue'[i] <= published'
             /\ \A j \in 1..Len(queue') : i < j => queue'[i] < queue'[j]
             /\ \A u \in db' \ dropped' : u > queue'[i] => InQueue(u)'
  <2>1. CASE i = 1
    <3>1. queue'[i] = cur
      BY <1>3, <2>1
    <3>2. \A j \in 1..Len(queue') : i < j => cur < queue'[j]
      <4> SUFFICES ASSUME NEW j \in 1..Len(queue'), i < j PROVE cur < queue'[j]
        OBVIOUS
      <4>1. j - 1 \in 1..Len(queue) /\ queue'[j] = queue[j-1]
        BY <1>3, <2>1
      <4> QED BY <1>1, <4>1 DEF QueueOrder
    <3>3. cur <= published /\ \A u \in db \ dropped : u > cur => InQueue(u)
      BY <1>1 DEF QueueOrder
    <3> QED BY <1>1, <1>4, <3>1, <3>2, <3>3
  <2>2. CASE i # 1
    <3>1. i - 1 \in 1..Len(queue) /\ queue'[i] = queue[i-1]
      BY <1>3, <2>2
    <3>2. \A j \in 1..Len(queue') : i < j => queue'[i] < queue'[j]
      <4> SUFFICES ASSUME NEW j \in 1..Len(queue'), i < j PROVE queue[i-1] < queue'[j]
        BY <3>1
      <4>1. j - 1 \in 1..Len(queue) /\ queue'[j] = queue[j-1] /\ i - 1 < j - 1
        BY <1>3, <3>1
      <4> QED BY <3>1, <4>1 DEF QueueOrder
    <3>3. queue[i-1] <= published /\ \A u \in db \ dropped : u > queue[i-1] => InQueue(u)
      BY <3>1 DEF QueueOrder
    <3> QED BY <1>1, <1>4, <3>1, <3>2, <3>3
  <2> QED BY <2>1, <2>2
<1>6. \A u \in db' : u <= published'
  BY <1>1 DEF QueueOrder
<1> QED BY <1>1, <1>5, <1>6 DEF QueueOrder

LEMMA QueueOrderStep == ASSUME TypeInv, QueueOrder, [Next]_vars PROVE QueueOrder'
<1> USE DEF videos, redis, consumer, locals, requests, observers
<1>1. CASE UNCHANGED <<published, queue, cur, consPc, dropped>> /\ db' \subseteq db
  BY <1>1 DEF QueueOrder, InQueue
<1>2. CASE ListFanIDs \/ ZAddFanout \/ Ack \/ ConsFails
  <2>1. /\ UNCHANGED <<published, queue, db>> /\ dropped \subseteq dropped'
        /\ consPc' # "idle" => consPc # "idle" /\ cur' = cur
    BY <1>2 DEF ListFanIDs, ZAddFanout, Ack, ConsFails, Forget
  <2>2. \A u : InQueue(u)' <=> InQueue(u)
    BY <2>1 DEF InQueue
  <2> QED BY <2>1, <2>2 DEF QueueOrder
<1>3. CASE Expire \/ \E v \in db : DeleteVideo(v)
  BY <1>1, <1>3 DEF Expire, DeleteVideo
<1>4. ASSUME NEW r \in Requests,
             \/ BackfillFollowing(r) \/ EnsureFollowingTimeLine(r) \/ SetTTL(r)
             \/ ClearFollowingTimeline(r) \/ RequestFails(r)
             \/ \E a \in Authors : Follow(r, a) \/ UnFollow(r, a)
      PROVE  QueueOrder'
  <2>1. UNCHANGED <<published, queue, cur, consPc, dropped, db>>
    BY <1>4 DEF BackfillFollowing, BackfillExists, BackfillList, BackfillAdd, EnsureFollowingTimeLine,
       Read, RebuildAuthors, RebuildList, RebuildAdd, SetTTL, ClearFollowingTimeline, RequestFails,
       Follow, UnFollow
  <2> QED BY <1>1, <2>1
<1>5. CASE UNCHANGED vars
  BY <1>1, <1>5 DEF vars
<1> QED BY <1>2, <1>3, <1>4, <1>5, PublishOrder, ReceiveOrder, CrashOrder DEF Next, TimelineHandler

(***************************************************************************)
(* Nothing is lacking.  A video that is due, that is whose author is       *)
(* followed, that no event announces and that no exception excuses, is in  *)
(* the set, or older than all of it, or a backfill will add it; and what a *)
(* rebuild is about to add would not put it out of its place.              *)
(***************************************************************************)

Open(v) == InQueue(v) \/ (v = cur /\ (consPc = "list" \/ (consPc = "add" /\ fan)))

Due(v) == v \in By(follows) /\ v \notin dropped /\ ~Open(v) /\ AuthorOf[v] \notin gap /\ ~Crowded(v)

\* A backfill will add the video, or knows that it does not add all.
ComingBy(r, v) ==
  /\ author[r] = AuthorOf[v]
  /\ \/ pc[r] \in {"exists", "list"}
     \/ pc[r] = "backfill" /\ (v \in snap[r] \/ Cardinality(snap[r]) = BackfillLimit)

Listed(r, v) == v \in DOMAIN timeline \/ Placed(Members(snap[r]), v)

NoneLacking ==
  ~holes => \A v \in Videos : Due(v) => Placed(timeline, v) \/ \E r \in Requests : ComingBy(r, v)
RebuildsList ==
  \A r \in Requests : pc[r] = "rebuild" => \A v \in Videos : Due(v) => Listed(r, v)
RebuildsKnow ==
  \A r \in Requests : pc[r] \in {"videos", "rebuild"} => follows \ authors[r] \subseteq gap
BackfillsSome == \A r \in Requests : pc[r] = "backfill" => snap[r] # {}

CompleteInv == TypeInv /\ QueueOrder /\ NoneLacking /\ RebuildsList /\ RebuildsKnow /\ BackfillsSome

LEMMA CompleteInvInit == Init => CompleteInv
<1> SUFFICES ASSUME Init PROVE CompleteInv
  OBVIOUS
<1>1. DOMAIN timeline = {} /\ \A r \in Requests : pc[r] = "idle"
  BY DEF Init
<1>2. NoneLacking
  BY <1>1 DEF NoneLacking, Placed
<1> QED BY <1>1, <1>2, TypeInvInit, QueueOrderInit
        DEF CompleteInv, RebuildsList, RebuildsKnow, BackfillsSome

LEMMA EmptySet == ASSUME TypeInv PROVE Exists <=> DOMAIN timeline # {}
<1>1. ASSUME DOMAIN timeline = {} PROVE timeline = <<>>
  <2>1. timeline = [m \in {} |-> timeline[m]]
    BY <1>1 DEF TypeInv, Shape
  <2>2. <<>> = [m \in {} |-> timeline[m]]
    OBVIOUS
  <2> QED BY <2>1, <2>2
<1>2. ASSUME timeline = <<>> PROVE DOMAIN timeline = {}
  BY <1>2
<1> QED BY <1>1, <1>2 DEF Exists

LEMMA DueFacts ==
  ASSUME NEW v, Due(v)
  PROVE  v \in db /\ AuthorOf[v] \in follows /\ v \notin dropped /\ ~Open(v) /\ AuthorOf[v] \notin gap
         /\ ~Crowded(v)
  BY DEF Due, By

\* The requests and the set stay as they are, and nothing falls due.
LEMMA NothingDue ==
  ASSUME CompleteInv, UNCHANGED <<timeline, holes, requests, follows, gap>>,
         \A v \in Videos : Due(v)' => Due(v)
  PROVE  NoneLacking' /\ RebuildsList' /\ RebuildsKnow' /\ BackfillsSome'
<1>1. UNCHANGED <<pc, author, authors, snap>>
  BY DEF requests, locals
<1>2. \A r \in Requests, v \in Videos : (ComingBy(r, v)' <=> ComingBy(r, v)) /\ (Listed(r, v)' <=> Listed(r, v))
  BY <1>1 DEF ComingBy, Listed, Members
<1>3. NoneLacking'
  BY <1>2 DEF CompleteInv, NoneLacking, Placed, DeepIn
<1>4. RebuildsList'
  BY <1>1, <1>2 DEF CompleteInv, RebuildsList
<1> QED BY <1>1, <1>3, <1>4 DEF CompleteInv, RebuildsKnow, BackfillsSome

\* One request goes on, and the set stays as it is.
LEMMA RequestKeeps ==
  ASSUME CompleteInv, NEW r \in Requests, UNCHANGED <<timeline, holes>>,
         \A x \in Requests \ {r} :
           pc'[x] = pc[x] /\ author'[x] = author[x] /\ authors'[x] = authors[x] /\ snap'[x] = snap[x],
         \A v \in Videos :
           Due(v)' => Due(v) \/ (ComingBy(r, v)' /\ \A x \in Requests \ {r} : pc[x] # "rebuild"),
         \A v \in Videos : Due(v)' /\ ComingBy(r, v) => ComingBy(r, v)' \/ Placed(timeline, v),
         pc'[r] = "rebuild" => \A v \in Videos : Due(v)' => Listed(r, v)'
  PROVE  NoneLacking' /\ RebuildsList'
<1>1. \A x \in Requests \ {r}, v \in Videos :
        (ComingBy(x, v)' <=> ComingBy(x, v)) /\ (Listed(x, v)' <=> Listed(x, v))
  BY DEF ComingBy, Listed, Members
<1>2. NoneLacking'
  <2> SUFFICES ASSUME ~holes, NEW v \in Videos, Due(v)'
               PROVE  Placed(timeline, v) \/ \E x \in Requests : ComingBy(x, v)'
    BY DEF NoneLacking, Placed, DeepIn
  <2>1. CASE ComingBy(r, v)'
    BY <2>1
  <2>2. CASE Due(v)
    <3>1. Placed(timeline, v) \/ \E x \in Requests : ComingBy(x, v)
      BY <2>2 DEF CompleteInv, NoneLacking
    <3> QED BY <1>1, <3>1
  <2> QED BY <2>1, <2>2
<1>3. RebuildsList'
  <2> SUFFICES ASSUME NEW x \in Requests, pc'[x] = "rebuild", NEW v \in Videos, Due(v)'
               PROVE  Listed(x, v)'
    BY DEF RebuildsList
  <2>1. CASE x = r
    BY <2>1
  <2>2. CASE x # r
    BY <1>1, <2>2 DEF CompleteInv, RebuildsList
  <2> QED BY <2>1, <2>2
<1> QED BY <1>2, <1>3

\* A video keeps its place when others are added among which it has one too.
LEMMA PlacedBoth ==
  ASSUME NEW Z, NEW M, NEW Y, DOMAIN Y = DOMAIN Z \cup DOMAIN M, NEW v,
         Placed(Z, v), v \in DOMAIN Z \/ Placed(M, v)
  PROVE  Placed(Y, v)
  BY DEF Placed, DeepIn

\* The key goes.
LEMMA DropKeeps ==
  ASSUME CompleteInv, Drop, follows' = follows,
         \A x \in Requests : pc'[x] \in {"videos", "rebuild", "backfill"} =>
           pc'[x] = pc[x] /\ snap'[x] = snap[x] /\ authors'[x] = authors[x]
  PROVE  NoneLacking' /\ RebuildsList' /\ RebuildsKnow' /\ BackfillsSome'
<1>1. timeline' = <<>> /\ DOMAIN timeline' = {}
  BY DEF Drop
<1>2. NoneLacking'
  BY <1>1 DEF NoneLacking, Placed
<1>3. \A x \in Requests : pc[x] \in {"videos", "rebuild"} => follows \ authors[x] \subseteq gap'
  <2> SUFFICES ASSUME NEW x \in Requests, pc[x] \in {"videos", "rebuild"}, NEW a \in follows \ authors[x]
               PROVE  a \in gap'
    OBVIOUS
  <2>1. a \in gap /\ Unknown(a)
    BY DEF CompleteInv, RebuildsKnow, Unknown
  <2> QED BY <2>1 DEF Drop
<1>4. \A x \in Requests : pc[x] = "rebuild" => authors[x] \subseteq gap'
  BY DEF Drop
<1>5. RebuildsList'
  <2> SUFFICES ASSUME NEW x \in Requests, pc'[x] = "rebuild", NEW v \in Videos, Due(v)' PROVE FALSE
    BY DEF RebuildsList
  <2>1. AuthorOf[v] \in follows /\ AuthorOf[v] \notin gap'
    BY DEF Due, By
  <2> QED BY <1>3, <1>4, <2>1
<1> QED BY <1>2, <1>3, <1>5 DEF RebuildsKnow, BackfillsSome, CompleteInv

LEMMA CompleteWorker ==
  ASSUME CompleteInv, Publish \/ TimelineHandler \/ Expire \/ \E v \in db : DeleteVideo(v)
  PROVE  NoneLacking' /\ RebuildsList' /\ RebuildsKnow' /\ BackfillsSome'
<1>0. TypeInv /\ QueueOrder
  BY DEF CompleteInv
<1> USE DEF videos, redis, consumer, observers
<1>1. CASE Publish
  <2>1. UNCHANGED <<timeline, holes, requests, follows, gap, cur, consPc, fan>>
    BY <1>1 DEF Publish
  <2>2. PICK p : db' = db \cup {p} /\ (queue' = Append(queue, p) \/ (queue' = queue /\ dropped' = dropped \cup {p}))
               /\ dropped \subseteq dropped'
    BY <1>1 DEF Publish
  <2>3. queue \in Seq(Videos) /\ Len(queue) \in Nat
    BY <1>0 DEF TypeInv, TypeOK
  <2>4. (\A u : InQueue(u) => InQueue(u)') /\ (p \in dropped' \/ InQueue(p)')
    <3>1. CASE queue' = Append(queue, p)
      <4>1. /\ Len(queue) + 1 \in 1..Len(queue') /\ queue'[Len(queue) + 1] = p
            /\ \A i \in 1..Len(queue) : i \in 1..Len(queue') /\ queue'[i] = queue[i]
        BY <2>3, <3>1
      <4> QED BY <4>1 DEF InQueue
    <3>2. CASE queue' = queue /\ dropped' = dropped \cup {p}
      BY <3>2 DEF InQueue
    <3> QED BY <2>2, <3>1, <3>2
  <2>5. \A v \in Videos : Due(v)' => Due(v)
    BY <2>1, <2>2, <2>4 DEF Due, By, Open, Crowded
  <2> QED BY <2>1, <2>5, NothingDue
<1>2. ASSUME NEW w \in db, DeleteVideo(w)
      PROVE  NoneLacking' /\ RebuildsList' /\ RebuildsKnow' /\ BackfillsSome'
  <2>1. UNCHANGED <<timeline, holes, requests, follows, gap, cur, consPc, fan, queue, dropped>> /\ db' \subseteq db
    BY <1>2 DEF DeleteVideo
  <2>2. \A v \in Videos : Due(v)' => Due(v)
    BY <2>1 DEF Due, By, Open, InQueue, Crowded
  <2> QED BY <2>1, <2>2, NothingDue
<1>3. CASE Receive
  <2>1. /\ UNCHANGED <<timeline, holes, requests, follows, gap, db, dropped>>
        /\ consPc = "idle" /\ consPc' = "list" /\ queue # <<>> /\ cur' = Head(queue) /\ queue' = Tail(queue)
    BY <1>3 DEF Receive
  <2>2. \A u : InQueue(u) => InQueue(u)' \/ u = cur'
    <3>1. /\ queue \in Seq(Videos) /\ Len(queue) \in Nat /\ Len(queue') = Len(queue) - 1
          /\ Head(queue) = queue[1] /\ \A i \in 1..Len(queue') : queue'[i] = queue[i+1]
      BY <1>0, <2>1 DEF TypeInv, TypeOK
    <3>2. \A i \in 1..Len(queue) : i = 1 \/ (i - 1 \in 1..Len(queue') /\ (i - 1) + 1 = i)
      BY <3>1
    <3>3. \A i \in 1..Len(queue) : i = 1 \/ (i - 1 \in 1..Len(queue') /\ queue'[i-1] = queue[i])
      BY <3>1, <3>2
    <3> QED BY <2>1, <3>1, <3>3 DEF InQueue
  <2>3. \A v \in Videos : Due(v)' => Due(v)
    BY <2>1, <2>2 DEF Due, By, Open, Crowded
  <2> QED BY <2>1, <2>3, NothingDue
<1>4. CASE ListFanIDs
  <2>1. /\ UNCHANGED <<timeline, holes, requests, follows, gap, db, dropped, queue, cur>>
        /\ consPc = "list" /\ consPc' = "add" /\ (fan' <=> AuthorOf[cur] \in follows)
    BY <1>4 DEF ListFanIDs
  <2>2. \A v \in Videos : Due(v)' => Due(v)
    BY <2>1 DEF Due, By, Open, InQueue, Crowded
  <2> QED BY <2>1, <2>2, NothingDue
<1>5. CASE Ack \/ ConsFails
  <2>1. /\ UNCHANGED <<timeline, holes, requests, follows, gap, db, queue>>
        /\ dropped \subseteq dropped'
        /\ \A v : (consPc = "list" \/ (consPc = "add" /\ fan)) /\ v = cur => v \in dropped' \/ (consPc' = "list" /\ cur' = cur)
    BY <1>5 DEF Ack, ConsFails, Forget
  <2>2. \A v \in Videos : Due(v)' => Due(v)
    BY <2>1 DEF Due, By, Open, InQueue, Crowded
  <2> QED BY <2>1, <2>2, NothingDue
<1>6. CASE Crash
  <2>1. UNCHANGED <<timeline, holes, requests, follows, gap, db, dropped>> /\ queue' = <<cur>> \o queue
    BY <1>6 DEF Crash
  <2>2. \A u : InQueue(u) \/ u = cur => InQueue(u)'
    <3>1. queue \in Seq(Videos) /\ Len(queue) \in Nat /\ cur \in Videos
      BY <1>0, <1>6 DEF TypeInv, TypeOK, HasEvent, Crash
    <3>2. /\ 1 \in 1..Len(queue') /\ queue'[1] = cur
          /\ \A i \in 1..Len(queue) : i + 1 \in 1..Len(queue') /\ queue'[i+1] = queue[i]
      BY <2>1, <3>1
    <3> QED BY <3>2 DEF InQueue
  <2>3. \A v \in Videos : Due(v)' => Due(v)
    BY <2>1, <2>2 DEF Due, By, Open, Crowded
  <2> QED BY <2>1, <2>3, NothingDue
<1>7. CASE ZAddFanout
  <2>1. /\ UNCHANGED <<requests, follows, gap, db, dropped, queue, cur, fan>>
        /\ consPc = "add" /\ consPc' = "ack"
    BY <1>7 DEF ZAddFanout
  <2>2. CASE ~fan
    <3>1. UNCHANGED <<timeline, holes>>
      <4>1. timeline' = timeline /\ holes' = (holes \/ (fan /\ ~Exists)) /\ holes \in BOOLEAN
        BY <1>0, <1>7, <2>2 DEF ZAddFanout, TypeInv, TypeOK
      <4>2. holes' = holes
        BY <2>2, <4>1, Zenon
      <4> QED BY <4>1, <4>2
    <3>2. \A v \in Videos : Due(v)' => Due(v)
      BY <2>1, <2>2 DEF Due, By, Open, InQueue, Crowded
    <3> QED BY <2>1, <3>1, <3>2, NothingDue
  <2>3. CASE fan
    <3>1. /\ DOMAIN timeline' = DOMAIN timeline \cup {cur} /\ holes' = (holes \/ ~Exists)
          /\ UNCHANGED <<pc, author, authors, snap>>
      BY <1>7, <2>1, <2>3 DEF ZAddFanout, Add, requests, locals
    <3>2. \A v \in Videos : Due(v)' => v = cur \/ Due(v)
      BY <2>1 DEF Due, By, Open, InQueue, Crowded
    <3>3. \A r \in Requests, v \in Videos :
            (ComingBy(r, v)' <=> ComingBy(r, v)) /\ (Listed(r, v) \/ v = cur => Listed(r, v)')
      BY <3>1 DEF ComingBy, Listed, Members
    <3>4. RebuildsList'
      BY <3>1, <3>2, <3>3 DEF CompleteInv, RebuildsList
    <3>5. NoneLacking'
      <4> SUFFICES ASSUME ~holes', NEW v \in Videos, Due(v)'
                   PROVE  Placed(timeline', v) \/ \E x \in Requests : ComingBy(x, v)'
        BY DEF NoneLacking, Placed, DeepIn
      <4>1. ~holes /\ DOMAIN timeline # {}
        BY <1>0, <3>1, EmptySet
      <4>2. CASE v = cur
        BY <3>1, <4>2 DEF Placed
      <4>3. CASE v # cur
        <5>1. Due(v)
          BY <3>2, <4>3
        <5>2. Placed(timeline, v) \/ \E x \in Requests : ComingBy(x, v)
          BY <4>1, <5>1 DEF CompleteInv, NoneLacking
        <5>3. TimeOf[cur] > TimeOf[v] /\ cur # Placeholder
          <6>1. v \in db \ dropped /\ ~InQueue(v) /\ ~Crowded(v)
            BY <5>1, DueFacts DEF Open
          <6>2. ~(v > cur)
            BY <1>0, <2>1, <6>1 DEF QueueOrder
          <6>3. cur \in Videos /\ cur \in Nat /\ v \in Nat /\ cur # Placeholder
            BY <1>0, <2>1, VideoFacts DEF TypeInv, HasEvent
          <6>4. v < cur
            BY <4>3, <6>2, <6>3
          <6>5. TimeOf[v] < TimeOf[cur]
            BY <4>3, <6>1, <6>3, <6>4, InOrder
          <6>6. TimeOf[v] \in Nat /\ TimeOf[cur] \in Nat
            BY <6>3, VideoFacts
          <6> QED BY <6>3, <6>5, <6>6
        <5>4. Placed(timeline, v) => Placed(timeline', v)
          BY <3>1, <4>1, <5>3 DEF Placed, DeepIn
        <5> QED BY <3>3, <5>2, <5>4
      <4> QED BY <4>2, <4>3
    <3> QED BY <2>1, <3>1, <3>4, <3>5 DEF CompleteInv, RebuildsKnow, BackfillsSome
  <2> QED BY <2>2, <2>3
<1>8. CASE Expire
  <2>1. Drop /\ UNCHANGED <<follows, requests>>
    BY <1>8 DEF Expire
  <2>2. UNCHANGED <<pc, snap, authors>>
    BY <2>1 DEF requests, locals
  <2> QED BY <2>1, <2>2, DropKeeps
<1> QED BY <1>1, <1>2, <1>3, <1>4, <1>5, <1>6, <1>7, <1>8 DEF TimelineHandler

\* What a list of the newest leaves out is older than all of it, and the list is full.
LEMMA LatestListed ==
  ASSUME NEW DB \in SUBSET Videos, NEW n \in Nat \ {0}, NEW v \in DB, v \notin ListLatest(DB, Start, n)
  PROVE  /\ Cardinality(ListLatest(DB, Start, n)) = n /\ ListLatest(DB, Start, n) # {}
         /\ \A m \in ListLatest(DB, Start, n) : Later(TimeOf, m, v)
<1>1. {u \in DB : Older(Start, u)} = DB
  <2> SUFFICES ASSUME NEW u \in DB PROVE Older(Start, u)
    OBVIOUS
  <2> QED BY VideoFacts DEF Older, Start
<1>2. ListLatest(DB, Start, n) = FirstN(TimeOf, DB, n)
  BY <1>1 DEF ListLatest
<1> DEFINE vs == FirstN(TimeOf, DB, n)
<1>3. Ranked(TimeOf, DB) /\ vs # DB /\ v \in DB \ vs
  BY <1>2, VideosRanked
<1>4. \A m \in vs : Later(TimeOf, m, v)
  BY <1>3, FirstNTop
<1>5. Cardinality(vs) >= n /\ Cardinality(vs) <= n /\ Cardinality(vs) \in Nat
  BY <1>3, FirstNFull, FirstNAtMost
<1>6. vs # {}
  BY <1>3, FirstNSome
<1> HIDE DEF vs
<1>7. Cardinality(vs) = n
  BY <1>5
<1> QED BY <1>2, <1>4, <1>6, <1>7 DEF vs

LEMMA AllListed ==
  ASSUME NEW DB \in SUBSET Videos, NEW n \in Nat \ {0}, ListLatest(DB, Start, n) = {}
  PROVE  DB = {}
<1> SUFFICES ASSUME NEW v \in DB PROVE FALSE
  OBVIOUS
<1> QED BY LatestListed

LEMMA MembersListed ==
  ASSUME NEW DB \in SUBSET Videos, NEW n \in Nat \ {0}, NEW v \in DB, ~Crowded(v)
  PROVE  Placed(Members(ListLatest(DB, Start, n)), v)
<1> DEFINE vs == ListLatest(DB, Start, n)
<1>1. vs \in SUBSET Videos
  BY ListLatestIn
<1>2. DOMAIN Members(vs) = IF vs = {} THEN {Placeholder} ELSE vs
  BY <1>1, MembersTypes
<1>3. CASE v \in vs
  BY <1>2, <1>3 DEF Placed
<1>4. CASE v \notin vs
  <2>1. vs # {} /\ \A m \in vs : Later(TimeOf, m, v)
    BY <1>4, LatestListed
  <2> HIDE DEF vs
  <2>2. Placeholder \notin vs
    BY <1>1, VideoFacts
  <2>3. ASSUME NEW m \in vs PROVE TimeOf[m] > TimeOf[v]
    <3>1. m \in Videos /\ v \in Videos /\ m # v /\ Later(TimeOf, m, v)
      BY <1>1, <1>4, <2>1
    <3>2. TimeOf[m] \in Nat /\ TimeOf[v] \in Nat /\ Lag \in Nat
      BY <3>1, VideoFacts
    <3>3. TimeOf[m] # TimeOf[v]
      BY <3>1, <3>2, FarApart
    <3> QED BY <3>1, <3>2, <3>3 DEF Later
  <2>4. Placed(Members(vs), v)
    BY <1>2, <2>1, <2>2, <2>3 DEF Placed, DeepIn
  <2> QED BY <2>4 DEF vs
<1> QED BY <1>3, <1>4

\* A backfill that reaches no further down than the set did leaves all others in place.
LEMMA BackfillPlaces ==
  ASSUME CompleteInv, NEW r \in Requests, BackfillAdd(r), ~holes', NEW v \in Videos, Placed(timeline, v)
  PROVE  Placed(timeline', v)
<1> DEFINE l == LastOf(TimeOf, snap[r])
<1>1. TypeInv /\ snap[r] \in SUBSET Videos /\ snap[r] # {} /\ Shape(timeline)
  BY DEF CompleteInv, TypeInv, TypeOK, BackfillsSome, BackfillAdd
<1>2. ~BelowWatermark(timeline, At(l)) /\ DOMAIN timeline' = DOMAIN timeline \cup snap[r]
  <2>1. holes' = (holes \/ BelowWatermark(timeline, At(l))) /\ Add(Members(snap[r]))
    BY DEF BackfillAdd
  <2>2. DOMAIN Members(snap[r]) = snap[r]
    BY <1>1, MembersTypes
  <2> QED BY <2>1, <2>2 DEF Add
<1>3. l \in snap[r] /\ \A w \in snap[r] \ {l} : Later(TimeOf, w, l)
  <2>1. snap[r] \in SUBSET Nat /\ \A w \in snap[r] : TimeOf[w] \in Nat
    BY <1>1, VideoFacts
  <2> QED BY <1>1, <2>1, LastIs
<1>4. PICK m \in DOMAIN timeline : ~(At(l)[1] <= timeline[m])
  BY <1>2 DEF BelowWatermark
<1>5. At(l)[1] = TimeOf[l]
  BY DEF At
<1> HIDE DEF l
<1>6. CASE v \in DOMAIN timeline
  BY <1>2, <1>6 DEF Placed
<1>7. CASE DeepIn(timeline, v)
  <2>1. m \in Videos /\ timeline[m] \in {TimeOf[m], TimeOf[m] + Lag} /\ TimeOf[m] > TimeOf[v]
    BY <1>1, <1>4, <1>7 DEF Shape, DeepIn
  <2>2. TimeOf[m] \in Nat /\ Lag \in Nat /\ TimeOf[l] \in Nat /\ TimeOf[v] \in Nat
    BY <1>1, <1>3, <2>1, VideoFacts
  <2>3. TimeOf[l] > TimeOf[v]
    BY <1>4, <1>5, <2>1, <2>2
  <2>4. ASSUME NEW w \in snap[r] PROVE TimeOf[w] > TimeOf[v]
    <3>1. TimeOf[w] \in Nat
      BY <1>1, VideoFacts
    <3> QED BY <1>3, <2>2, <2>3, <3>1 DEF Later
  <2>5. Placeholder \notin snap[r]
    BY <1>1, VideoFacts
  <2> QED BY <1>2, <1>7, <2>4, <2>5 DEF Placed, DeepIn
<1> QED BY <1>4, <1>6, <1>7 DEF Placed

LEMMA CompleteRequest ==
  ASSUME CompleteInv, NEW r \in Requests,
         \/ BackfillFollowing(r) \/ EnsureFollowingTimeLine(r) \/ SetTTL(r)
         \/ ClearFollowingTimeline(r) \/ RequestFails(r)
         \/ \E a \in Authors : Follow(r, a) \/ UnFollow(r, a)
  PROVE  NoneLacking' /\ RebuildsList' /\ RebuildsKnow' /\ BackfillsSome'
<1>0. TypeInv
  BY DEF CompleteInv
<1> DEFINE Done == NoneLacking' /\ RebuildsList' /\ RebuildsKnow' /\ BackfillsSome'
<1> SUFFICES Done
  OBVIOUS
<1> USE DEF videos, redis, consumer, observers, locals, requests
<1>a. \A v : UNCHANGED <<db, queue, cur, consPc, fan, dropped>> => (Open(v)' <=> Open(v))
  BY DEF Open, InQueue
<1>b. ASSUME UNCHANGED <<db, queue, cur, consPc, fan, dropped>>, follows' \subseteq follows, gap \subseteq gap',
             NEW v \in Videos, Due(v)'
      PROVE  Due(v)
  BY <1>a, <1>b DEF Due, By, Crowded
\* The request ends, and leaves no video of its author behind.
<1>c. ASSUME Leave(r), UNCHANGED <<db, queue, cur, consPc, fan, dropped, timeline, holes, follows>>,
             gap \subseteq gap',
             \A v \in Videos : Due(v)' /\ ComingBy(r, v) => Placed(timeline, v)
      PROVE  Done
  <2>1. \A x \in Requests \ {r} :
          pc'[x] = pc[x] /\ author'[x] = author[x] /\ authors'[x] = authors[x] /\ snap'[x] = snap[x]
    BY <1>0, <1>c DEF Leave, Goto, TypeInv, TypeOK
  <2>2. pc'[r] = "done"
    BY <1>0, <1>c DEF Leave, Goto, TypeInv, TypeOK
  <2>3. NoneLacking' /\ RebuildsList'
    BY <1>b, <1>c, <2>1, <2>2, RequestKeeps
  <2>4. RebuildsKnow' /\ BackfillsSome'
    BY <1>c, <2>1, <2>2 DEF CompleteInv, RebuildsKnow, BackfillsSome
  <2> QED BY <2>3, <2>4
<1>1. ASSUME NEW a \in Authors, Follow(r, a) PROVE Done
  <2>1. /\ pc[r] = "idle" /\ pc'[r] = "exists" /\ author'[r] = a /\ follows' = follows \cup {a}
        /\ UNCHANGED <<db, queue, cur, consPc, fan, dropped, timeline, holes>>
        /\ gap' = (IF Unknown(a) THEN gap \cup {a} ELSE gap)
        /\ \A x \in Requests \ {r} :
             pc'[x] = pc[x] /\ author'[x] = author[x] /\ authors'[x] = authors[x] /\ snap'[x] = snap[x]
    BY <1>0, <1>1 DEF Follow, Goto, TypeInv, TypeOK
  <2>2. gap \subseteq gap' /\ (Unknown(a) => a \in gap')
    BY <2>1
  <2>3. ASSUME NEW v \in Videos, Due(v)', ~Due(v)
        PROVE  AuthorOf[v] = a /\ a \notin gap'
    BY <1>a, <2>1, <2>2, <2>3 DEF Due, By, Crowded
  <2>4. ASSUME NEW v \in Videos, Due(v)'
        PROVE  Due(v) \/ (ComingBy(r, v)' /\ \A x \in Requests \ {r} : pc[x] # "rebuild")
    <3> SUFFICES ASSUME ~Due(v) PROVE ComingBy(r, v)' /\ \A x \in Requests \ {r} : pc[x] # "rebuild"
      OBVIOUS
    <3>1. AuthorOf[v] = a /\ ~Unknown(a)
      BY <2>2, <2>3, <2>4
    <3> QED BY <2>1, <3>1 DEF Unknown, ComingBy
  <2>5. \A v : ~ComingBy(r, v)
    BY <2>1 DEF ComingBy
  <2>6. NoneLacking' /\ RebuildsList'
    BY <2>1, <2>4, <2>5, RequestKeeps
  <2>7. RebuildsKnow'
    <3> SUFFICES ASSUME NEW x \in Requests, pc'[x] \in {"videos", "rebuild"}, NEW b \in follows' \ authors'[x]
                 PROVE  b \in gap'
      BY DEF RebuildsKnow
    <3>1. x # r /\ pc[x] \in {"videos", "rebuild"} /\ authors'[x] = authors[x]
      BY <2>1
    <3>2. CASE b \in follows
      BY <2>2, <3>1, <3>2 DEF CompleteInv, RebuildsKnow
    <3>3. CASE b = a
      BY <2>2, <3>1, <3>3 DEF Unknown
    <3> QED BY <2>1, <3>2, <3>3
  <2>8. BackfillsSome'
    BY <2>1 DEF CompleteInv, BackfillsSome
  <2> QED BY <2>6, <2>7, <2>8
\* The request goes on and changes neither the set nor the observers.
<1>d. ASSUME UNCHANGED <<db, queue, cur, consPc, fan, dropped, timeline, holes, gap>>, follows' \subseteq follows,
             \A x \in Requests \ {r} :
               pc'[x] = pc[x] /\ author'[x] = author[x] /\ authors'[x] = authors[x] /\ snap'[x] = snap[x],
             \A v \in Videos : Due(v) /\ ComingBy(r, v) => ComingBy(r, v)' \/ Placed(timeline, v),
             pc'[r] = "rebuild" => \A v \in Videos : Due(v) => Listed(r, v)',
             pc'[r] \in {"videos", "rebuild"} => follows' \ authors'[r] \subseteq gap',
             pc'[r] = "backfill" => snap'[r] # {}
      PROVE  Done
  <2>1. \A v \in Videos : Due(v)' => Due(v)
    BY <1>b, <1>d
  <2>2. NoneLacking' /\ RebuildsList'
    BY <1>d, <2>1, RequestKeeps
  <2>3. RebuildsKnow' /\ BackfillsSome'
    BY <1>d DEF CompleteInv, RebuildsKnow, BackfillsSome
  <2> QED BY <2>2, <2>3
<1>2. ASSUME NEW a \in Authors, UnFollow(r, a) PROVE Done
  <2>1. /\ pc[r] = "idle" /\ pc'[r] = "del" /\ follows' \subseteq follows
        /\ UNCHANGED <<db, queue, cur, consPc, fan, dropped, timeline, holes, gap>>
        /\ \A x \in Requests \ {r} :
             pc'[x] = pc[x] /\ author'[x] = author[x] /\ authors'[x] = authors[x] /\ snap'[x] = snap[x]
    BY <1>0, <1>2 DEF UnFollow, Goto, TypeInv, TypeOK
  <2>2. \A v : ~ComingBy(r, v)
    BY <2>1 DEF ComingBy
  <2> HIDE DEF Done
  <2> QED BY <1>d, <2>1, <2>2
<1>3. CASE BackfillExists(r)
  <2>1. pc[r] = "exists" /\ UNCHANGED <<db, queue, cur, consPc, fan, dropped, timeline, holes, gap, follows>>
    BY <1>3 DEF BackfillExists
  <2>2. CASE ~Exists /\ Leave(r)
    <3>1. \A v : Placed(timeline, v)
      BY <1>0, <2>2, EmptySet DEF Placed
    <3> HIDE DEF Done
    <3> QED BY <1>c, <2>1, <2>2, <3>1
  <2>3. CASE Goto(r, "list") /\ UNCHANGED locals
    <3>1. /\ pc'[r] = "list" /\ UNCHANGED <<author, authors, snap>>
          /\ \A x \in Requests \ {r} : pc'[x] = pc[x]
      BY <1>0, <2>3 DEF Goto, TypeInv, TypeOK
    <3>2. \A v : ComingBy(r, v) => ComingBy(r, v)'
      BY <3>1 DEF ComingBy
    <3> HIDE DEF Done
    <3> QED BY <1>d, <2>1, <3>1, <3>2
  <2> QED BY <1>3, <2>2, <2>3 DEF BackfillExists
<1>4. CASE BackfillList(r)
  <2> DEFINE vs == ListLatest(By({author[r]}), Start, BackfillLimit)
  <2>1. /\ pc[r] = "list" /\ UNCHANGED <<db, queue, cur, consPc, fan, dropped, timeline, holes, gap, follows>>
        /\ \/ vs = {} /\ Leave(r)
           \/ vs # {} /\ snap' = [snap EXCEPT ![r] = vs] /\ Goto(r, "backfill") /\ UNCHANGED <<author, authors>>
    BY <1>4 DEF BackfillList
  <2>2. By({author[r]}) \in SUBSET Videos /\ BackfillLimit \in Nat \ {0}
    BY <1>0, FollowingAssumption DEF By, TypeInv, TypeOK
  <2>3. \A v : v \in By(follows) /\ AuthorOf[v] = author[r] => v \in By({author[r]})
    BY DEF By
  <2>4. ASSUME vs = {} PROVE By({author[r]}) = {}
    BY <2>2, <2>4, AllListed
  <2>5. \A v \in By({author[r]}) : v \in vs \/ Cardinality(vs) = BackfillLimit
    BY <2>2, LatestListed
  <2> HIDE DEF vs
  <2>6. CASE vs = {} /\ Leave(r)
    <3>1. ASSUME NEW v \in Videos, Due(v)', ComingBy(r, v) PROVE FALSE
      <4>1. v \in By(follows) /\ AuthorOf[v] = author[r]
        BY <2>1, <3>1 DEF Due, By, ComingBy
      <4> QED BY <2>3, <2>4, <2>6, <4>1
    <3> HIDE DEF Done
    <3> QED BY <1>c, <2>1, <2>6, <3>1
  <2>7. CASE vs # {} /\ snap' = [snap EXCEPT ![r] = vs] /\ Goto(r, "backfill") /\ UNCHANGED <<author, authors>>
    <3>1. /\ pc'[r] = "backfill" /\ snap'[r] = vs /\ UNCHANGED <<author, authors>>
          /\ \A x \in Requests \ {r} : pc'[x] = pc[x] /\ snap'[x] = snap[x]
      BY <1>0, <2>7 DEF Goto, TypeInv, TypeOK
    <3>2. ASSUME NEW v \in Videos, Due(v), ComingBy(r, v) PROVE ComingBy(r, v)'
      <4>1. v \in By(follows) /\ AuthorOf[v] = author[r]
        BY <3>2 DEF Due, ComingBy
      <4>2. v \in vs \/ Cardinality(vs) = BackfillLimit
        BY <2>3, <2>5, <4>1
      <4> QED BY <3>1, <4>1, <4>2 DEF ComingBy
    <3> HIDE DEF Done
    <3> QED BY <1>d, <2>1, <2>7, <3>1, <3>2
  <2> QED BY <2>1, <2>6, <2>7
<1>5. CASE BackfillAdd(r)
  <2>1. /\ pc[r] = "backfill" /\ pc'[r] = "ttl" /\ UNCHANGED <<author, authors, snap>>
        /\ UNCHANGED <<db, queue, cur, consPc, fan, dropped, follows>>
        /\ \A x \in Requests \ {r} : pc'[x] = pc[x]
        /\ gap' = IF Cardinality(snap[r]) = BackfillLimit THEN gap \cup {author[r]} ELSE gap
    BY <1>0, <1>5 DEF BackfillAdd, Goto, TypeInv, TypeOK
  <2>2. snap[r] \in SUBSET Videos /\ snap[r] # {}
    BY <1>0, <2>1 DEF TypeInv, TypeOK, CompleteInv, BackfillsSome
  <2>3. DOMAIN timeline' = DOMAIN timeline \cup snap[r]
    <3>1. DOMAIN Members(snap[r]) = snap[r]
      BY <2>2, MembersTypes
    <3> QED BY <1>5, <3>1 DEF BackfillAdd, Add
  <2>4. ~holes' => ~holes
    BY <1>5 DEF BackfillAdd
  <2>5. \A v \in Videos : Due(v)' => Due(v)
    BY <1>b, <2>1
  <2>6. \A x \in Requests \ {r}, v \in Videos :
          (ComingBy(x, v)' <=> ComingBy(x, v)) /\ (Listed(x, v) => Listed(x, v)')
    BY <2>1, <2>3 DEF ComingBy, Listed, Members
  <2>7. RebuildsList'
    BY <2>1, <2>5, <2>6 DEF CompleteInv, RebuildsList
  <2>8. NoneLacking'
    <3> SUFFICES ASSUME ~holes', NEW v \in Videos, Due(v)'
                 PROVE  Placed(timeline', v) \/ \E x \in Requests : ComingBy(x, v)'
      BY DEF NoneLacking, Placed, DeepIn
    <3>1. Placed(timeline, v) \/ \E x \in Requests : ComingBy(x, v)
      BY <2>4, <2>5 DEF CompleteInv, NoneLacking
    <3>2. CASE Placed(timeline, v)
      BY <1>5, <3>2, BackfillPlaces
    <3>3. CASE \E x \in Requests \ {r} : ComingBy(x, v)
      BY <2>6, <3>3
    <3>4. CASE ComingBy(r, v)
      <4>1. author[r] \notin gap'
        BY <3>4 DEF Due, ComingBy
      <4>2. v \in snap[r]
        BY <2>1, <3>4, <4>1 DEF ComingBy
      <4> QED BY <2>3, <4>2 DEF Placed
    <3> QED BY <3>1, <3>2, <3>3, <3>4
  <2>9. RebuildsKnow' /\ BackfillsSome'
    BY <2>1 DEF CompleteInv, RebuildsKnow, BackfillsSome
  <2> QED BY <2>7, <2>8, <2>9
<1>6. CASE SetTTL(r)
  <2>1. /\ pc[r] = "ttl" /\ Leave(r)
        /\ UNCHANGED <<db, queue, cur, consPc, fan, dropped, timeline, holes, gap, follows>>
    BY <1>6 DEF SetTTL
  <2>2. \A v : ~ComingBy(r, v)
    BY <2>1 DEF ComingBy
  <2> HIDE DEF Done
  <2> QED BY <1>c, <2>1, <2>2
<1>7. CASE ClearFollowingTimeline(r)
  <2>1. Drop /\ Leave(r) /\ follows' = follows
    BY <1>7 DEF ClearFollowingTimeline
  <2>2. \A x \in Requests : pc'[x] \in {"videos", "rebuild", "backfill"} =>
          pc'[x] = pc[x] /\ snap'[x] = snap[x] /\ authors'[x] = authors[x]
    BY <1>0, <2>1 DEF Leave, Goto, TypeInv, TypeOK
  <2> QED BY <2>1, <2>2, DropKeeps
<1>8. CASE RequestFails(r)
  <2>1. /\ Leave(r) /\ UNCHANGED <<db, queue, cur, consPc, fan, dropped, timeline, holes, follows>>
        /\ gap \subseteq gap' /\ (pc[r] \in Backfilling => author[r] \in gap')
    BY <1>8 DEF RequestFails
  <2>2. \A v : Due(v)' => ~ComingBy(r, v)
    BY <2>1 DEF Due, ComingBy, Backfilling
  <2> HIDE DEF Done
  <2> QED BY <1>c, <2>1, <2>2
<1>9. CASE Read(r)
  <2>1. /\ pc[r] = "idle" /\ pc'[r] \in {"done", "authors"} /\ UNCHANGED <<author, authors, snap>>
        /\ UNCHANGED <<db, queue, cur, consPc, fan, dropped, timeline, holes, gap, follows>>
        /\ \A x \in Requests \ {r} : pc'[x] = pc[x]
    BY <1>0, <1>9 DEF Read, Goto, TypeInv, TypeOK
  <2>2. \A v : ~ComingBy(r, v)
    BY <2>1 DEF ComingBy
  <2> HIDE DEF Done
  <2> QED BY <1>d, <2>1, <2>2
<1>10. CASE RebuildAuthors(r)
  <2>1. /\ pc[r] = "authors" /\ pc'[r] = "videos" /\ authors'[r] = follows /\ UNCHANGED <<author, snap>>
        /\ UNCHANGED <<db, queue, cur, consPc, fan, dropped, timeline, holes, gap, follows>>
        /\ \A x \in Requests \ {r} : pc'[x] = pc[x] /\ authors'[x] = authors[x]
    BY <1>0, <1>10 DEF RebuildAuthors, Goto, TypeInv, TypeOK
  <2>2. \A v : ~ComingBy(r, v)
    BY <2>1 DEF ComingBy
  <2> HIDE DEF Done
  <2> QED BY <1>d, <2>1, <2>2
<1>11. CASE RebuildList(r)
  <2> DEFINE vs == ListLatest(By(authors[r]), Start, RebuildLimit)
  <2>1. /\ pc[r] = "videos" /\ pc'[r] = "rebuild" /\ snap'[r] = vs /\ UNCHANGED <<author, authors>>
        /\ UNCHANGED <<db, queue, cur, consPc, fan, dropped, timeline, holes, gap, follows>>
        /\ \A x \in Requests \ {r} : pc'[x] = pc[x] /\ snap'[x] = snap[x]
    BY <1>0, <1>11 DEF RebuildList, Goto, TypeInv, TypeOK
  <2>2. follows \ authors[r] \subseteq gap
    BY <2>1 DEF CompleteInv, RebuildsKnow
  <2>3. By(authors[r]) \in SUBSET Videos /\ RebuildLimit \in Nat \ {0}
    BY <1>0, FollowingAssumption DEF By, TypeInv, TypeOK
  <2>4. \A v \in By(authors[r]) : ~Crowded(v) => Placed(Members(vs), v)
    BY <2>3, MembersListed
  <2> HIDE DEF vs
  <2>5. ASSUME NEW v \in Videos, Due(v) PROVE Listed(r, v)'
    <3>1. v \in By(authors[r]) /\ ~Crowded(v)
      BY <2>2, <2>5 DEF Due, By
    <3>2. Placed(Members(vs), v)
      BY <2>4, <3>1
    <3> QED BY <2>1, <3>2 DEF Listed, Placed, DeepIn, Members
  <2>6. \A v : ~ComingBy(r, v)
    BY <2>1 DEF ComingBy
  <2> HIDE DEF Done
  <2> QED BY <1>d, <2>1, <2>2, <2>5, <2>6
<1>12. CASE RebuildAdd(r)
  <2>1. /\ pc[r] = "rebuild" /\ pc'[r] = "ttl" /\ UNCHANGED <<author, authors, snap>>
        /\ UNCHANGED <<db, queue, cur, consPc, fan, dropped, holes, gap, follows>>
        /\ \A x \in Requests \ {r} : pc'[x] = pc[x]
        /\ DOMAIN timeline' = DOMAIN timeline \cup DOMAIN Members(snap[r])
    BY <1>0, <1>12 DEF RebuildAdd, Goto, TypeInv, TypeOK, Add
  <2>2. \A v \in Videos : Due(v)' => Due(v)
    BY <1>b, <2>1
  <2>3. \A x \in Requests \ {r}, v \in Videos :
          (ComingBy(x, v)' <=> ComingBy(x, v)) /\ (Listed(x, v) => Listed(x, v)')
    BY <2>1 DEF ComingBy, Listed, Members
  <2>4. RebuildsList'
    BY <2>1, <2>2, <2>3 DEF CompleteInv, RebuildsList
  <2>5. NoneLacking'
    <3> SUFFICES ASSUME ~holes, NEW v \in Videos, Due(v)'
                 PROVE  Placed(timeline', v) \/ \E x \in Requests : ComingBy(x, v)'
      BY <2>1 DEF NoneLacking, Placed, DeepIn
    <3>1. Placed(timeline, v) \/ \E x \in Requests : ComingBy(x, v)
      BY <2>2 DEF CompleteInv, NoneLacking
    <3>2. CASE Placed(timeline, v)
      <4>1. v \in DOMAIN timeline \/ Placed(Members(snap[r]), v)
        BY <2>1, <2>2 DEF CompleteInv, RebuildsList, Listed
      <4> QED BY <2>1, <3>2, <4>1, PlacedBoth
    <3>3. CASE \E x \in Requests : ComingBy(x, v)
      <4>1. ~ComingBy(r, v)
        BY <2>1 DEF ComingBy
      <4> QED BY <2>3, <3>3, <4>1
    <3> QED BY <3>1, <3>2, <3>3
  <2>6. RebuildsKnow' /\ BackfillsSome'
    BY <2>1 DEF CompleteInv, RebuildsKnow, BackfillsSome
  <2> QED BY <2>4, <2>5, <2>6
<1> HIDE DEF Done
<1> QED BY <1>1, <1>2, <1>3, <1>4, <1>5, <1>6, <1>7, <1>8, <1>9, <1>10, <1>11, <1>12
        DEF BackfillFollowing, EnsureFollowingTimeLine

LEMMA CompleteInvStep == CompleteInv /\ [Next]_vars => CompleteInv'
<1>1. ASSUME CompleteInv, UNCHANGED vars PROVE NoneLacking' /\ RebuildsList' /\ RebuildsKnow' /\ BackfillsSome'
  <2> USE <1>1 DEF vars, videos, redis, consumer, locals, requests, observers
  <2>1. \A v \in Videos : Due(v)' => Due(v)
    BY DEF Due, By, Open, InQueue, Crowded
  <2> QED BY <2>1, NothingDue
<1> QED BY <1>1, TypeInvStep, QueueOrderStep, CompleteRequest, CompleteWorker DEF CompleteInv, Next

\* What the invariant gives for the pages: none of them skips a video that is due.
LEMMA FeedShowsDue ==
  ASSUME CompleteInv, Quiet, ~holes, ~GhostPage, NEW v, Due(v)
  PROVE  v \in Feed.seen
<1>1. TypeInv /\ Feed = Reading(FanPage) /\ Shape(timeline) /\ db \in SUBSET Videos /\ By(follows) \in SUBSET db
  BY DEF CompleteInv, Feed, FanPage, TypeInv, TypeOK, By
<1>2. v \in By(follows) /\ v \in Videos /\ ~Crowded(v)
  BY <1>1 DEF Due
<1>3. Placed(timeline, v)
  BY <1>2 DEF CompleteInv, NoneLacking, Quiet, ComingBy
<1>4. GhostsFew(timeline, db)
  BY DEF GhostPage, GhostsFew
<1>5. v \in Rest(Start)
  BY <1>2, VideoFacts DEF Rest, Older, Start
<1>6. ASSUME NEW c \in Cursors, v \in Rest(c) PROVE v \in FanPage[c].shown \/ v \in Rest(FanPage[c].next)
  <2>1. FanPage[c] = FollowingPage(timeline, db, By(follows), c)
    BY DEF FanPage
  <2> QED BY <1>1, <1>2, <1>3, <1>4, <1>6, <2>1, PageSkipsNone
<1> QED BY <1>1, <1>5, <1>6, FanPages, FeedSkipsNone

\* Between requests whoever reads the feed to its end sees every video of the authors
\* followed, wherever it comes from, but for the exceptions FeedComplete names; the feed
\* ends, and shows no video twice unless its time and its score are crossed by another's.
THEOREM FeedIsExact == Spec => []FeedExact
<1>1. CompleteInv => FeedExact
  <2> SUFFICES ASSUME CompleteInv PROVE FeedComplete /\ FeedOnce
    BY DEF FeedExact
  <2>1. ASSUME Quiet, ~holes, ~GhostPage, NEW v \in By(follows),
               ~Pending(v), v \notin dropped, AuthorOf[v] \notin gap, ~Crowded(v)
        PROVE  v \in Feed.seen
    <3>1. ~Open(v)
      <4>1. queue \in Seq(Videos) /\ DOMAIN queue = 1..Len(queue)
        BY DEF CompleteInv, TypeInv, TypeOK
      <4> QED BY <2>1, <4>1 DEF Pending, Open, InQueue
    <3>2. Due(v)
      BY <2>1, <3>1 DEF Due
    <3> QED BY <2>1, <3>2, FeedShowsDue
  <2>2. FeedComplete
    BY <2>1 DEF FeedComplete
  <2>3. FeedOnce
    BY FeedShowsNoneTwice DEF CompleteInv
  <2> QED BY <2>2, <2>3
<1> QED BY <1>1, CompleteInvInit, CompleteInvStep, PTL DEF Spec
=============================================================================
