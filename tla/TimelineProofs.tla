--------------------------- MODULE TimelineProofs ---------------------------
(***************************************************************************)
(* For any limit of the timeline, any number of videos, fans and failures: *)
(* types, no stored video falls between the timeline and the database, and *)
(* a reader of its pages, of any size, misses none and sees none twice.    *)
(***************************************************************************)
EXTENDS GlobalFeed, FiniteSetTheorems, WellFoundedInduction, TLAPS

\* What the pollers and the consumer hold while they work.
Holding ==
  /\ pollPc # "idle" => batch # {}
  /\ consPc # "idle" => cur \in Videos
  /\ batch \subseteq outbox

TypeInv == TypeOK /\ Holding

\* The poller has handed the row over and has only to delete it.
HandedOver(v) == pollPc \in {"trim", "delete"} /\ v = Oldest(batch)

\* Some step of the poller or of the consumer will still add v.
ToAdd(v) ==
  \/ v \in outbox /\ ~HandedOver(v)
  \/ \E i \in DOMAIN queue : queue[i] = v
  \/ cur = v /\ consPc = "zadd"

\* v is in the timeline, or nothing older is but what came in late.
Covered(v) == v \in timeline \/ \A w \in timeline : w < v => w \in late

(* Why no hole: what is stored is still to be added, was given up, or is      *)
(* covered; and what a rebuild has read is the newest part of the table, up   *)
(* to videos that are still to be added or were added since.                  *)
StoredIsCovered ==
  \A v \in db : ToAdd(v) \/ v \in dropped \cup outrun \/ Covered(v)

SnapIsNewest ==
  rebuildPc = "zadd" =>
    \A v \in db \ snap :
      \/ snap # {} /\ \A w \in snap : v < w
      \/ ToAdd(v) \/ v \in dropped \cup outrun \cup timeline

\* reached is what late is measured by.
HandledIsReached ==
  \A v \in db : v = 1 \/ ToAdd(v) \/ v \in dropped \/ v <= reached

\* Ids are new, and a deleted video does not come back.
DeletedIsGone ==
  /\ db \cup outbox \subseteq 1..published
  /\ \A v \in Videos : deletePc[v] # "none" => v <= published /\ v \notin db

IInv == TypeInv /\ StoredIsCovered /\ SnapIsNewest /\ HandledIsReached /\ DeletedIsGone
----------------------------------------------------------------------------
(* Sets of videos *)

LEMMA SomeFinite == ASSUME NEW S \in SUBSET (0..MaxVideos) PROVE IsFiniteSet(S)
<1>1. IsFiniteSet(0..MaxVideos)
  BY FS_Interval, TimelineAssumption
<1> QED BY <1>1, FS_Subset

\* Among the members of a set, the one with the fewest below, or above, it.
LEMMA ExtremesExist ==
  ASSUME NEW S \in SUBSET (0..MaxVideos), S # {}
  PROVE  /\ \E x \in S : \A y \in S : x <= y
         /\ \E x \in S : \A y \in S : y <= x
<1> DEFINE Below(x) == {u \in S : u < x}
           Above(x) == {u \in S : u > x}
<1>1. IsFiniteSet(S)
  BY SomeFinite
<1>0. \A x \in S : x \in Int
  BY TimelineAssumption
<1>2. IsWellFoundedOn(StrictSubsetOrdering(S), FiniteSubsetsOf(S))
  BY FS_StrictSubsetOrderingWellFounded
<1>3. FiniteSubsetsOf(S) = SUBSET S
  BY <1>1, FS_FiniteSubsetsOfFinite
<1>4. \E x \in S : \A y \in S : x <= y
  <2> DEFINE B == {Below(x) : x \in S}
  <2>1. B \subseteq FiniteSubsetsOf(S) /\ B # {}
    <3>1. \A x \in S : Below(x) \in SUBSET S
      OBVIOUS
    <3>2. \A x \in S : Below(x) \in FiniteSubsetsOf(S)
      BY <1>3, <3>1
    <3>3. \E x \in S : Below(x) \in B
      OBVIOUS
    <3> HIDE DEF Below
    <3> QED BY <3>2, <3>3
  <2>2. PICK b \in B : \A c \in B : ~ (<<c, b>> \in StrictSubsetOrdering(S))
    <3> HIDE DEF B
    <3> QED BY <1>2, <2>1, WFMin
  <2>3. PICK x \in S : b = Below(x)
    BY <2>2
  <2>4. SUFFICES ASSUME NEW y \in S, y < x PROVE FALSE
    BY <2>3
  <2>5. Below(y) \subseteq Below(x) /\ y \in Below(x) /\ y \notin Below(y) /\ Below(y) \in B
    <3>1. \A u \in S : u < y => u < x
      BY <1>0, <2>4
    <3>2. ~ (y < y)
      BY <1>0
    <3> QED BY <2>4, <3>1, <3>2
  <2>6. <<Below(y), b>> \in StrictSubsetOrdering(S)
    BY <2>3, <2>5 DEF StrictSubsetOrdering
  <2> QED BY <2>2, <2>5, <2>6
<1>5. \E x \in S : \A y \in S : y <= x
  <2> DEFINE B == {Above(x) : x \in S}
  <2>1. B \subseteq FiniteSubsetsOf(S) /\ B # {}
    <3>1. \A x \in S : Above(x) \in SUBSET S
      OBVIOUS
    <3>2. \A x \in S : Above(x) \in FiniteSubsetsOf(S)
      BY <1>3, <3>1
    <3>3. \E x \in S : Above(x) \in B
      OBVIOUS
    <3> HIDE DEF Above
    <3> QED BY <3>2, <3>3
  <2>2. PICK b \in B : \A c \in B : ~ (<<c, b>> \in StrictSubsetOrdering(S))
    <3> HIDE DEF B
    <3> QED BY <1>2, <2>1, WFMin
  <2>3. PICK x \in S : b = Above(x)
    BY <2>2
  <2>4. SUFFICES ASSUME NEW y \in S, y > x PROVE FALSE
    BY <2>3
  <2>5. Above(y) \subseteq Above(x) /\ y \in Above(x) /\ y \notin Above(y) /\ Above(y) \in B
    <3>1. \A u \in S : u > y => u > x
      BY <1>0, <2>4
    <3>2. ~ (y > y)
      BY <1>0
    <3> QED BY <2>4, <3>1, <3>2
  <2>6. <<Above(y), b>> \in StrictSubsetOrdering(S)
    BY <2>3, <2>5 DEF StrictSubsetOrdering
  <2> QED BY <2>2, <2>5, <2>6
<1> QED BY <1>4, <1>5

LEMMA OldestIn ==
  ASSUME NEW S \in SUBSET Videos, S # {}
  PROVE  Oldest(S) \in S
<1>1. S \in SUBSET (0..MaxVideos)
  BY TimelineAssumption DEF Videos
<1> QED BY <1>1, ExtremesExist DEF Oldest

Members == Videos \cup {Placeholder}

LEMMA NewestUpward ==
  ASSUME NEW S \in SUBSET Members, NEW w \in Newest(S), NEW v \in S, v > w
  PROVE  v \in Newest(S)
<1> DEFINE Above(x) == {u \in S : u > x}
<1>1. S \subseteq 0..MaxVideos
  BY TimelineAssumption DEF Members, Videos, Placeholder
<1>2. IsFiniteSet(Above(w))
  BY <1>1, SomeFinite
<1>3. Above(v) \subseteq Above(w)
  <2>1. \A u \in S : u \in Int
    BY <1>1, TimelineAssumption
  <2>2. \A u \in S : u > v => u > w
    BY <2>1 DEF Newest
  <2> QED BY <2>2
<1>4. /\ Cardinality(Above(v)) <= Cardinality(Above(w))
      /\ Cardinality(Above(v)) \in Nat /\ Cardinality(Above(w)) \in Nat
  BY <1>2, <1>3, FS_Subset, FS_CardinalityType
<1>5. Cardinality(Above(w)) < Limit
  BY DEF Newest
<1> HIDE DEF Above
<1>6. Cardinality(Above(v)) < Limit
  BY <1>4, <1>5, TimelineAssumption
<1> QED BY <1>6 DEF Newest, Above

LEMMA NewestNonEmpty ==
  ASSUME NEW S \in SUBSET Videos, S # {}
  PROVE  Newest(S) # {}
<1>1. PICK x \in S : \A y \in S : y <= x
  BY ExtremesExist, TimelineAssumption DEF Videos
<1>2. {u \in S : u > x} = {}
  <2>1. \A u \in S : u \in Int
    BY TimelineAssumption DEF Videos
  <2>2. \A u \in S : ~ (u > x)
    BY <1>1, <2>1
  <2> QED BY <2>2
<1>3. Cardinality({u \in S : u > x}) = 0
  BY <1>2, FS_EmptySet
<1> QED BY <1>3, TimelineAssumption DEF Newest

LEMMA NewestSubset == ASSUME NEW S PROVE Newest(S) \subseteq S
  BY DEF Newest

----------------------------------------------------------------------------
(* Types *)

LEMMA TypeInvInit == Init => TypeInv
<1> SUFFICES ASSUME Init PROVE TypeInv
  OBVIOUS
<1>1. published \in 0..MaxVideos /\ db \in SUBSET Videos /\ feeds \in [Fans -> SUBSET Videos]
  BY TimelineAssumption DEF Init, Videos
<1>2. queue \in Seq(Videos) /\ tries \in 0..MaxTries-1 /\ faults \in 0..MaxFaults /\ reached \in 0..MaxVideos
  BY TimelineAssumption DEF Init
<1> QED BY <1>1, <1>2 DEF Init, TypeInv, TypeOK, Holding, Placeholder

LEMMA NextRowType ==
  ASSUME TypeInv, batch # {}, NextRow, outbox' \in {outbox, outbox \ {Oldest(batch)}}
  PROVE  /\ batch' \in SUBSET Videos /\ batch' \subseteq outbox'
         /\ pollPc' \in {"idle", "publish"} /\ (pollPc' # "idle" => batch' # {})
  BY DEF NextRow, TypeInv, TypeOK, Holding

LEMMA AddType ==
  ASSUME TypeInv, NEW v \in Videos, AddToTimeline(v)
  PROVE  timeline' \in SUBSET (Videos \cup {Placeholder}) /\ reached' \in 0..MaxVideos
         /\ late' \in SUBSET Videos
  BY TimelineAssumption DEF AddToTimeline, TypeInv, TypeOK, Videos

LEMMA TrimType ==
  ASSUME TypeInv, Trim
  PROVE  /\ timeline' \in SUBSET (Videos \cup {Placeholder})
         /\ outrun' \in SUBSET (Videos \cup {Placeholder})
         /\ late' = late /\ reached' = reached
<1>1. timeline' \subseteq timeline
  BY NewestSubset DEF Trim
<1> QED BY <1>1 DEF Trim, TypeInv, TypeOK, order

LEMMA FaultType == ASSUME TypeOK, Fault PROVE faults' \in 0..MaxFaults
  BY TimelineAssumption DEF TypeOK, Fault

LEMMA OldestType == ASSUME TypeInv, pollPc # "idle" PROVE Oldest(batch) \in Videos /\ batch # {}
  BY OldestIn DEF TypeInv, TypeOK, Holding

\* The step that goes on at the given action keeps the types.
LEMMA TypeInvStep == TypeInv /\ [Next]_vars => TypeInv'
<1> SUFFICES ASSUME TypeInv, [Next]_vars PROVE TypeInv'
  OBVIOUS
<1> USE DEF videos, redis, poller, consumer, rebuild, observers, blame, order
<1>1. CASE CreateWithOutbox
  <2>1. published + 1 \in Videos /\ published' \in 0..MaxVideos
    BY <1>1, TimelineAssumption DEF CreateWithOutbox, TypeInv, TypeOK, Videos
  <2> QED BY <1>1, <2>1 DEF CreateWithOutbox, TypeInv, TypeOK, Holding
<1>2. CASE PollRead
  BY <1>2 DEF PollRead, TypeInv, TypeOK, Holding
<1>3. CASE PollPublish
  BY <1>3, OldestType DEF PollPublish, TypeInv, TypeOK, Holding
<1>4. CASE PollPublishLost
  BY <1>4, OldestType, FaultType DEF PollPublishLost, TypeInv, TypeOK, Holding
<1>5. CASE PollPublishErr
  <2>1. queue' \in Seq(Videos)
    <3>1. CASE queue' = queue
      BY <3>1 DEF TypeInv, TypeOK
    <3>2. CASE queue' = Append(queue, Oldest(batch))
      BY <1>5, <3>2, OldestType DEF PollPublishErr, TypeInv, TypeOK
    <3> QED BY <1>5, <3>1, <3>2 DEF PollPublishErr
  <2>2. faults' \in 0..MaxFaults
    BY <1>5, FaultType DEF PollPublishErr, TypeInv
  <2> QED BY <1>5, <2>1, <2>2 DEF PollPublishErr, TypeInv, TypeOK, Holding
<1>6. CASE PollAdd
  <2>1. Oldest(batch) \in Videos
    BY <1>6, OldestType DEF PollAdd
  <2> QED BY <1>6, <2>1, AddType DEF PollAdd, TypeInv, TypeOK, Holding
<1>7. CASE PollTrim
  BY <1>7, TrimType DEF PollTrim, TypeInv, TypeOK, Holding
<1>8. CASE PollDelete
  <2>1. batch # {}
    BY <1>8, OldestType DEF PollDelete
  <2> QED BY <1>8, <2>1, NextRowType DEF PollDelete, TypeInv, TypeOK, Holding
<1>9. CASE PollFails
  <2>1. batch # {}
    BY <1>9, OldestType DEF PollFails
  <2>2. faults' \in 0..MaxFaults
    BY <1>9, FaultType DEF PollFails, TypeInv
  <2> QED BY <1>9, <2>1, <2>2, NextRowType DEF PollFails, TypeInv, TypeOK, Holding
<1>10. CASE Receive
  <2>1. Head(queue) \in Videos /\ Tail(queue) \in Seq(Videos)
    BY <1>10 DEF Receive, TypeInv, TypeOK
  <2> QED BY <1>10, <2>1 DEF Receive, TypeInv, TypeOK, Holding
<1>11. CASE ConsAdd
  <2>1. cur \in Videos
    BY <1>11 DEF ConsAdd, TypeInv, Holding
  <2> QED BY <1>11, <2>1, AddType DEF ConsAdd, TypeInv, TypeOK, Holding
<1>12. CASE ConsTrim
  BY <1>12, TrimType DEF ConsTrim, TypeInv, TypeOK, Holding
<1>13. CASE ConsFanOut
  <2>1. cur \in Videos
    BY <1>13 DEF ConsFanOut, TypeInv, Holding
  <2>2. feeds' \in [Fans -> SUBSET Videos]
    BY <1>13, <2>1 DEF ConsFanOut, FanOut, TypeInv, TypeOK
  <2> QED BY <1>13, <2>1, <2>2 DEF ConsFanOut, TypeInv, TypeOK, Holding
<1>14. CASE ConsFails
  <2>1. cur \in Videos
    BY <1>14 DEF ConsFails, TypeInv, Holding
  <2>2. feeds' \in [Fans -> SUBSET Videos]
    <3>1. CASE UNCHANGED feeds
      BY <3>1 DEF TypeInv, TypeOK
    <3>2. CASE \E S \in SUBSET Fans : FanOut(S)
      BY <2>1, <3>2 DEF FanOut, TypeInv, TypeOK
    <3> QED BY <1>14, <3>1, <3>2 DEF ConsFails
  <2>3. tries' \in 0..MaxTries-1 /\ consPc' \in {"zadd", "ack"} /\ dropped' \in SUBSET Videos
    BY <1>14, <2>1, TimelineAssumption DEF ConsFails, TypeInv, TypeOK
  <2> QED BY <1>14, <2>1, <2>2, <2>3 DEF ConsFails, TypeInv, TypeOK, Holding
<1>15. CASE Ack
  BY <1>15, TimelineAssumption DEF Ack, Forget, TypeInv, TypeOK, Holding
<1>16. CASE RebuildStart
  BY <1>16 DEF RebuildStart, TypeInv, TypeOK, Holding
<1>17. CASE RebuildList
  <2>1. snap' \in SUBSET Videos
    BY <1>17, NewestSubset DEF RebuildList, TypeInv, TypeOK
  <2> QED BY <1>17, <2>1 DEF RebuildList, TypeInv, TypeOK, Holding
<1>18. CASE RebuildAdd
  <2>1. reached' \in 0..MaxVideos
    <3>1. CASE \E v \in snap : v > reached
      <4>1. \E v \in snap : snap \subseteq 1..v
        BY <3>1, ExtremesExist, TimelineAssumption DEF TypeInv, TypeOK, Videos
      <4>2. reached' \in snap
        BY <1>18, <3>1, <4>1 DEF RebuildAdd
      <4> QED BY <4>2, TimelineAssumption DEF TypeInv, TypeOK, Videos
    <3>2. CASE ~ \E v \in snap : v > reached
      BY <1>18, <3>2 DEF RebuildAdd, TypeInv, TypeOK
    <3> QED BY <3>1, <3>2
  <2>2. /\ timeline' \in SUBSET (Videos \cup {Placeholder})
        /\ late' \in SUBSET Videos
    BY <1>18 DEF RebuildAdd, TypeInv, TypeOK
  <2> QED BY <1>18, <2>1, <2>2 DEF RebuildAdd, TypeInv, TypeOK, Holding
<1>19. CASE RebuildFails
  BY <1>19, FaultType DEF RebuildFails, TypeInv, TypeOK, Holding
<1>20. ASSUME NEW v \in Videos, DeleteRow(v) PROVE TypeInv'
  BY <1>20 DEF DeleteRow, TypeInv, TypeOK, Holding
<1>21. ASSUME NEW v \in Videos, RemoveVideoCache(v) PROVE TypeInv'
  <2>1. overtaken' \in SUBSET Videos /\ timeline' \in SUBSET (Videos \cup {Placeholder})
    BY <1>21 DEF RemoveVideoCache, TypeInv, TypeOK
  <2> QED BY <1>21, <2>1 DEF RemoveVideoCache, TypeInv, TypeOK, Holding
<1>22. ASSUME NEW v \in Videos, RemoveFails(v) PROVE TypeInv'
  BY <1>22, FaultType DEF RemoveFails, TypeInv, TypeOK, Holding
<1>23. CASE CleanTimeline
  BY <1>23 DEF CleanTimeline, TypeInv, TypeOK, Holding
<1>24. CASE Crash
  <2>1. queue' \in Seq(Videos)
    <3>1. CASE consPc = "idle"
      BY <1>24, <3>1 DEF Crash, TypeInv, TypeOK
    <3>2. CASE consPc # "idle"
      <4>1. <<cur>> \in Seq(Videos)
        BY <3>2 DEF TypeInv, Holding
      <4> QED BY <1>24, <3>2, <4>1 DEF Crash, TypeInv, TypeOK
    <3> QED BY <3>1, <3>2
  <2>2. faults' \in 0..MaxFaults /\ tries' \in 0..MaxTries-1
    BY <1>24, FaultType, TimelineAssumption DEF Crash, Forget, TypeInv
  <2>3. deletePc' \in [Videos -> {"none", "zrem", "done"}]
    BY <1>24 DEF Crash, TypeInv, TypeOK
  <2>4. unremoved' \in SUBSET Videos
    BY <1>24 DEF Crash, TypeInv, TypeOK
  <2> QED BY <1>24, <2>1, <2>2, <2>3, <2>4 DEF Crash, Forget, TypeInv, TypeOK, Holding
<1>25. CASE UNCHANGED vars
  BY <1>25 DEF vars, TypeInv, TypeOK, Holding
<1> QED
  BY <1>1, <1>2, <1>3, <1>4, <1>5, <1>6, <1>7, <1>8, <1>9, <1>10, <1>11, <1>12, <1>13, <1>14,
     <1>15, <1>16, <1>17, <1>18, <1>19, <1>20, <1>21, <1>22, <1>23, <1>24, <1>25
     DEF Next, OutboxPoller, TimelineHandler, EnsureTimeline, DeleteVideo, Failure

\* Every variable keeps its type, for every limit and any number of failures.
THEOREM TypeCorrect == Spec => []TypeOK
<1>1. TypeInv => TypeOK
  BY DEF TypeInv
<1> QED BY TypeInvInit, TypeInvStep, <1>1, PTL DEF Spec

----------------------------------------------------------------------------
(* No hole *)

Known(v) == ToAdd(v) \/ v \in dropped \cup outrun

\* What a step can do to the timeline.
Quiet == UNCHANGED <<timeline, late, reached, outrun>>
Adds(x) == AddToTimeline(x) /\ UNCHANGED <<outrun, db>>
Trims == Trim /\ UNCHANGED db
Removes ==
  /\ timeline' \subseteq timeline /\ timeline \cap db \subseteq timeline'
  /\ UNCHANGED <<late, reached, outrun, db>>

LEMMA StepKinds ==
  ASSUME TypeInv, DeletedIsGone, [Next]_vars
  PROVE  /\ Quiet \/ (\E x \in Videos : Adds(x)) \/ Trims \/ Removes \/ RebuildAdd
         /\ CreateWithOutbox \/ db' \subseteq db
         /\ UNCHANGED <<snap, rebuildPc>> \/ RebuildList \/ rebuildPc' # "zadd"
         /\ dropped \subseteq dropped' /\ outrun \subseteq outrun'
<1> USE DEF videos, redis, poller, consumer, rebuild, observers, blame, order
<1> DEFINE Goal == /\ Quiet \/ (\E x \in Videos : Adds(x)) \/ Trims \/ Removes \/ RebuildAdd
                   /\ CreateWithOutbox \/ db' \subseteq db
                   /\ UNCHANGED <<snap, rebuildPc>> \/ RebuildList \/ rebuildPc' # "zadd"
                   /\ dropped \subseteq dropped' /\ outrun \subseteq outrun'
<1>1. CASE CreateWithOutbox
  BY <1>1 DEF CreateWithOutbox, Quiet
<1>2. CASE PollRead
  BY <1>2 DEF PollRead, Quiet
<1>3. CASE PollPublish \/ PollPublishLost \/ PollPublishErr
  BY <1>3 DEF PollPublish, PollPublishLost, PollPublishErr, Quiet
<1>4. CASE PollAdd
  <2>1. Oldest(batch) \in Videos
    BY <1>4, OldestType DEF PollAdd
  <2> QED BY <1>4, <2>1 DEF PollAdd, Adds
<1>5. CASE PollTrim
  BY <1>5 DEF PollTrim, Trims, Trim
<1>6. CASE PollDelete \/ PollFails
  BY <1>6 DEF PollDelete, PollFails, Quiet
<1>7. CASE Receive \/ ConsFanOut \/ ConsFails \/ Ack
  BY <1>7 DEF Receive, ConsFanOut, ConsFails, Ack, Quiet
<1>8. CASE ConsAdd
  <2>1. cur \in Videos
    BY <1>8 DEF ConsAdd, TypeInv, Holding
  <2> QED BY <1>8, <2>1 DEF ConsAdd, Adds
<1>9. CASE ConsTrim
  BY <1>9 DEF ConsTrim, Trims, Trim
<1>10. CASE RebuildStart \/ RebuildFails
  BY <1>10 DEF RebuildStart, RebuildFails, Quiet
<1>11. CASE RebuildList
  BY <1>11 DEF RebuildList, Quiet
<1>12. CASE RebuildAdd
  BY <1>12 DEF RebuildAdd
<1>13. ASSUME NEW v \in Videos, DeleteRow(v) PROVE Goal
  BY <1>13 DEF DeleteRow, Quiet
<1>14. ASSUME NEW v \in Videos, RemoveVideoCache(v) PROVE Goal
  <2>1. v \notin db
    BY <1>14 DEF RemoveVideoCache, DeletedIsGone
  <2> QED BY <1>14, <2>1 DEF RemoveVideoCache, Removes
<1>15. ASSUME NEW v \in Videos, RemoveFails(v) PROVE Goal
  BY <1>15 DEF RemoveFails, Quiet
<1>16. CASE CleanTimeline
  BY <1>16 DEF CleanTimeline, Removes
<1>17. CASE Crash
  BY <1>17 DEF Crash, Quiet
<1>18. CASE UNCHANGED vars
  BY <1>18 DEF vars, Quiet
<1> QED
  BY <1>1, <1>2, <1>3, <1>4, <1>5, <1>6, <1>7, <1>8, <1>9, <1>10, <1>11, <1>12, <1>13, <1>14,
     <1>15, <1>16, <1>17, <1>18
     DEF Next, OutboxPoller, TimelineHandler, EnsureTimeline, DeleteVideo, Failure

\* What is still to be added stays so until it is added or given up.
LEMMA ToAddStep ==
  ASSUME TypeInv, [Next]_vars, NEW v \in Videos, ToAdd(v)
  PROVE  \/ ToAdd(v)' \/ v \in dropped'
         \/ (PollAdd \/ ConsAdd) /\ v \in timeline' /\ v <= reached'
<1> USE DEF videos, redis, poller, consumer, rebuild, observers, blame, order
<1> DEFINE Goal == ToAdd(v)' \/ v \in dropped'
<1>1. CASE CreateWithOutbox
  BY <1>1 DEF CreateWithOutbox, ToAdd, HandedOver
<1>2. CASE PollRead
  BY <1>2 DEF PollRead, ToAdd, HandedOver
<1>q. ASSUME queue' \in {queue, Append(queue, Oldest(batch))}, pollPc # "idle", NEW i \in DOMAIN queue, queue[i] = v
      PROVE  \E j \in DOMAIN queue' : queue'[j] = v
  <2>1. queue \in Seq(Videos) /\ Oldest(batch) \in Videos
    BY <1>q, OldestType DEF TypeInv, TypeOK
  <2>2. i \in DOMAIN queue' /\ queue'[i] = v
    BY <1>q, <2>1
  <2> QED BY <2>2
<1>3. CASE PollPublish
  BY <1>3, OldestType DEF PollPublish, ToAdd, HandedOver, TypeInv, TypeOK
<1>4. CASE PollPublishLost
  BY <1>4 DEF PollPublishLost, ToAdd, HandedOver
<1>5. CASE PollPublishErr
  <2>1. /\ queue' \in {queue, Append(queue, Oldest(batch))} /\ outbox' = outbox
        /\ UNCHANGED <<batch, cur, consPc>> /\ pollPc = "publish" /\ pollPc' = "zadd"
    BY <1>5 DEF PollPublishErr
  <2>2. ~HandedOver(v)'
    BY <2>1 DEF HandedOver
  <2> QED BY <1>q, <2>1, <2>2 DEF ToAdd, HandedOver
<1>6. CASE PollAdd
  BY <1>6, OldestType, TimelineAssumption DEF PollAdd, AddToTimeline, ToAdd, HandedOver, TypeInv, TypeOK, Videos
<1>7. CASE PollTrim
  BY <1>7 DEF PollTrim, ToAdd, HandedOver
<1>8. CASE PollDelete
  BY <1>8 DEF PollDelete, NextRow, ToAdd, HandedOver
<1>9. CASE PollFails
  BY <1>9 DEF PollFails, NextRow, ToAdd, HandedOver
<1>10. CASE Receive
  <2>1. ASSUME NEW i \in DOMAIN queue, queue[i] = v
        PROVE  v = cur' \/ \E j \in DOMAIN queue' : queue'[j] = v
    <3>1. CASE i = 1
      BY <1>10, <2>1, <3>1 DEF Receive, TypeInv, TypeOK
    <3>2. CASE i # 1
      <4>1. i - 1 \in DOMAIN Tail(queue) /\ Tail(queue)[i - 1] = v
        BY <1>10, <2>1, <3>2 DEF Receive, TypeInv, TypeOK
      <4> QED BY <1>10, <4>1 DEF Receive
    <3> QED BY <3>1, <3>2
  <2> QED BY <1>10, <2>1 DEF Receive, ToAdd, HandedOver
<1>11. CASE ConsAdd
  BY <1>11, TimelineAssumption DEF ConsAdd, AddToTimeline, ToAdd, HandedOver, TypeInv, TypeOK, Videos
<1>12. CASE ConsTrim \/ ConsFanOut \/ Ack
  BY <1>12 DEF ConsTrim, ConsFanOut, Ack, Forget, ToAdd, HandedOver
<1>13. CASE ConsFails
  BY <1>13 DEF ConsFails, ToAdd, HandedOver
<1>14. CASE RebuildStart \/ RebuildList \/ RebuildAdd \/ RebuildFails \/ CleanTimeline
  BY <1>14 DEF RebuildStart, RebuildList, RebuildAdd, RebuildFails, CleanTimeline, ToAdd, HandedOver
<1>15. ASSUME NEW w \in Videos, DeleteRow(w) \/ RemoveVideoCache(w) \/ RemoveFails(w) PROVE Goal
  BY <1>15 DEF DeleteRow, RemoveVideoCache, RemoveFails, ToAdd, HandedOver
<1>16. CASE Crash
  <2>1. ASSUME consPc # "idle", cur = v \/ \E i \in DOMAIN queue : queue[i] = v
        PROVE  \E j \in DOMAIN queue' : queue'[j] = v
    <3>1. queue' = <<cur>> \o queue /\ queue \in Seq(Videos) /\ <<cur>> \in Seq(Videos)
      BY <1>16, <2>1 DEF Crash, TypeInv, TypeOK, Holding
    <3>2. 1 \in DOMAIN queue' /\ queue'[1] = cur
      BY <3>1
    <3>3. \A i \in DOMAIN queue : i + 1 \in DOMAIN queue' /\ queue'[i + 1] = queue[i]
      BY <3>1
    <3> QED BY <2>1, <3>2, <3>3
  <2> QED BY <1>16, <2>1 DEF Crash, Forget, ToAdd, HandedOver
<1>17. CASE UNCHANGED vars
  BY <1>17 DEF vars, ToAdd, HandedOver
<1> QED
  BY <1>1, <1>2, <1>3, <1>4, <1>5, <1>6, <1>7, <1>8, <1>9, <1>10, <1>11, <1>12, <1>13, <1>14,
     <1>15, <1>16, <1>17
     DEF Next, OutboxPoller, TimelineHandler, EnsureTimeline, DeleteVideo, Failure

LEMMA CreatedIsToAdd ==
  ASSUME TypeInv, DeletedIsGone, CreateWithOutbox, NEW v \in db' \ db
  PROVE  ToAdd(v)'
<1>1. v = published + 1 /\ v \in outbox' /\ v \notin outbox
  BY DEF CreateWithOutbox, DeletedIsGone, TypeInv, TypeOK
<1>2. pollPc # "idle" => Oldest(batch) # v
  BY <1>1, OldestIn DEF TypeInv, TypeOK, Holding
<1> QED BY <1>1, <1>2 DEF CreateWithOutbox, poller, ToAdd, HandedOver

\* A video that was known stays known, or is added.
LEMMA KnownStep ==
  ASSUME TypeInv, DeletedIsGone, [Next]_vars, NEW v \in Videos, Known(v)
  PROVE  Known(v)' \/ v \in timeline'
<1>1. dropped \subseteq dropped' /\ outrun \subseteq outrun'
  BY StepKinds
<1>2. CASE ToAdd(v)
  BY <1>2, ToAddStep DEF Known
<1>3. CASE v \in dropped \cup outrun
  BY <1>1, <1>3 DEF Known
<1> QED BY <1>2, <1>3 DEF Known

\* Adding x uncovers no newer video: it is late if a newer one was added before.
LEMMA AddCovers ==
  ASSUME IInv, NEW v \in db, Covered(v), v = 1 \/ v <= reached,
         NEW x \in Videos, AddToTimeline(x)
  PROVE  Covered(v)'
<1>1. v \in Int /\ x \in Int /\ x >= 1 /\ reached \in Int
  BY TimelineAssumption DEF IInv, TypeInv, TypeOK, Videos
<1>2. SUFFICES ASSUME v \notin timeline', NEW w \in timeline', w < v
               PROVE  w \in late'
  BY DEF Covered
<1>3. v \notin timeline
  BY <1>2 DEF AddToTimeline
<1>4. CASE w \in timeline
  BY <1>2, <1>3, <1>4 DEF Covered, AddToTimeline
<1>5. CASE w = x /\ w \notin timeline
  BY <1>1, <1>2, <1>5 DEF AddToTimeline
<1> QED BY <1>4, <1>5 DEF AddToTimeline

\* What is trimmed is older than all that is kept.
LEMMA TrimCovers ==
  ASSUME TypeInv, NEW v \in db, Covered(v), Trim
  PROVE  Covered(v)'
<1>1. timeline \in SUBSET Members /\ timeline' = Newest(timeline) /\ timeline' \subseteq timeline
  BY NewestSubset DEF TypeInv, TypeOK, Members, Trim
<1>2. late' = late
  BY DEF Trim, order
<1>3. CASE v \in timeline
  <2>1. \A w \in timeline' : w < v => v \in timeline'
    <3>1. \A w \in timeline : w < v => v > w
      BY <1>1, TimelineAssumption DEF TypeInv, TypeOK, Members, Videos, Placeholder
    <3> QED BY <1>1, <1>3, <3>1, NewestUpward
  <2> QED BY <2>1 DEF Covered
<1>4. CASE v \notin timeline
  BY <1>1, <1>2, <1>4 DEF Covered
<1> QED BY <1>3, <1>4

\* A rebuild adds the newest videos of the table.
LEMMA RebuildCovers ==
  ASSUME IInv, NEW v \in db, Covered(v), ~Known(v), RebuildAdd
  PROVE  Covered(v)'
<1>1. SUFFICES ASSUME v \notin timeline', NEW w \in timeline', w < v
               PROVE  w \in late'
  BY DEF Covered
<1>2. /\ rebuildPc = "zadd" /\ late' = late \ snap
      /\ timeline' = timeline \cup (IF snap = {} THEN {Placeholder} ELSE snap)
  BY DEF RebuildAdd
<1>3. v \notin timeline /\ v \notin snap
  <2>1. snap # {} => v \notin snap
    BY <1>1, <1>2
  <2> QED BY <1>1, <1>2, <2>1
<1>4. snap # {} /\ \A u \in snap : v < u
  BY <1>2, <1>3 DEF IInv, SnapIsNewest, Known
<1>5. w \in timeline /\ w \notin snap
  <2>1. w \in Int /\ v \in Int
    BY <1>2, <1>4, TimelineAssumption DEF IInv, TypeInv, TypeOK, Videos, Placeholder
  <2> QED BY <1>1, <1>2, <1>4, <2>1
<1> QED BY <1>1, <1>2, <1>3, <1>5 DEF Covered

LEMMA StoredIsCoveredStep ==
  ASSUME IInv, [Next]_vars
  PROVE  StoredIsCovered'
<1>0. TypeInv /\ DeletedIsGone
  BY DEF IInv
<1>1. SUFFICES ASSUME NEW v \in db' PROVE Known(v)' \/ Covered(v)'
  BY DEF StoredIsCovered, Known
<1>2. CASE v \notin db
  BY <1>0, <1>2, StepKinds, CreatedIsToAdd DEF Known
<1>3. CASE v \in db
  <2>1. v \in Videos
    BY <1>0, <1>3 DEF TypeInv, TypeOK
  <2>2. CASE Known(v)
    BY <1>0, <2>1, <2>2, KnownStep DEF Covered
  <2>3. CASE ~Known(v)
    <3>1. Covered(v) /\ (v = 1 \/ v <= reached)
      BY <1>3, <2>3 DEF IInv, StoredIsCovered, HandledIsReached, Known
    <3>2. CASE Quiet
      BY <3>1, <3>2 DEF Quiet, Covered
    <3>3. ASSUME NEW x \in Videos, Adds(x) PROVE Covered(v)'
      BY <1>3, <3>1, <3>3, AddCovers DEF Adds
    <3>4. CASE Trims
      BY <1>0, <1>3, <3>1, <3>4, TrimCovers DEF Trims
    <3>5. CASE Removes
      BY <1>3, <3>1, <3>5 DEF Removes, Covered
    <3>6. CASE RebuildAdd
      BY <1>3, <2>3, <3>1, <3>6, RebuildCovers
    <3> QED BY <1>0, <3>2, <3>3, <3>4, <3>5, <3>6, StepKinds
  <2> QED BY <2>2, <2>3
<1> QED BY <1>2, <1>3

LEMMA SnapIsNewestStep ==
  ASSUME IInv, [Next]_vars
  PROVE  SnapIsNewest'
<1>0. TypeInv /\ DeletedIsGone
  BY DEF IInv
<1>1. SUFFICES ASSUME rebuildPc' = "zadd", NEW v \in db' \ snap'
               PROVE  \/ snap' # {} /\ \A w \in snap' : v < w
                      \/ Known(v)' \/ v \in timeline'
  BY DEF SnapIsNewest, Known
<1>2. CASE v \notin db
  BY <1>0, <1>2, StepKinds, CreatedIsToAdd DEF Known
<1>3. CASE v \in db /\ RebuildList
  <2>1. snap' = Newest(db) /\ db' = db /\ db \in SUBSET Videos
    BY <1>0, <1>3 DEF RebuildList, videos, TypeInv, TypeOK
  <2>2. snap' # {}
    BY <1>3, <2>1, NewestNonEmpty
  <2>3. ASSUME NEW w \in snap' PROVE v < w
    <3>1. w \in db /\ w \in Int /\ v \in Int /\ v # w
      <4>1. w \in db
        BY <2>1, <2>3, NewestSubset
      <4>2. \A u \in db : u \in Int
        BY <2>1, TimelineAssumption DEF Videos
      <4> QED BY <1>1, <1>3, <2>3, <4>1, <4>2
    <3>2. ~ (v > w)
      BY <1>1, <1>3, <2>1, <2>3, NewestUpward DEF Members
    <3> QED BY <3>1, <3>2
  <2> QED BY <2>2, <2>3
<1>4. CASE v \in db /\ UNCHANGED <<snap, rebuildPc>>
  <2>1. v \in Videos
    BY <1>0, <1>4 DEF TypeInv, TypeOK
  <2>2. CASE snap # {} /\ \A w \in snap : v < w
    BY <1>4, <2>2
  <2>3. CASE Known(v)
    BY <1>0, <2>1, <2>3, KnownStep
  <2>4. CASE v \in timeline
    <3>1. CASE Trims
      BY <1>1, <1>4, <2>4, <3>1 DEF Trims, Trim, Known
    <3>2. CASE Quiet \/ Removes \/ RebuildAdd
      BY <1>4, <2>4, <3>2 DEF Quiet, Removes, RebuildAdd
    <3>3. ASSUME NEW x \in Videos, Adds(x) PROVE v \in timeline'
      BY <2>4, <3>3 DEF Adds, AddToTimeline
    <3> QED BY <1>0, <3>1, <3>2, <3>3, StepKinds
  <2> QED BY <1>1, <1>4, <2>2, <2>3, <2>4 DEF IInv, SnapIsNewest, Known
<1> QED BY <1>0, <1>1, <1>2, <1>3, <1>4, StepKinds

LEMMA ReachedGrows ==
  ASSUME TypeInv, DeletedIsGone, [Next]_vars
  PROVE  reached <= reached'
<1>0. reached \in Int
  BY DEF TypeInv, TypeOK
<1>1. CASE Quiet \/ Removes \/ Trims
  BY <1>0, <1>1 DEF Quiet, Removes, Trims, Trim, order
<1>2. ASSUME NEW x \in Videos, Adds(x) PROVE reached <= reached'
  BY <1>0, <1>2, TimelineAssumption DEF Adds, AddToTimeline, Videos
<1>3. CASE RebuildAdd
  <2>1. CASE \E v \in snap : v > reached
    <3>1. PICK v \in snap : v > reached
      BY <2>1
    <3>2. \E u \in snap : snap \subseteq 1..u
      BY <3>1, ExtremesExist, TimelineAssumption DEF TypeInv, TypeOK, Videos
    <3>3. snap \subseteq 1..reached' /\ reached' \in snap
      BY <1>3, <2>1, <3>2 DEF RebuildAdd
    <3>4. reached' \in Int /\ v \in Int
      BY <3>3, TimelineAssumption DEF TypeInv, TypeOK, Videos
    <3> QED BY <1>0, <3>1, <3>3, <3>4
  <2>2. CASE ~ \E v \in snap : v > reached
    BY <1>0, <1>3, <2>2 DEF RebuildAdd
  <2> QED BY <2>1, <2>2
<1> QED BY <1>1, <1>2, <1>3, StepKinds

LEMMA HandledIsReachedStep ==
  ASSUME IInv, [Next]_vars
  PROVE  HandledIsReached'
<1>0. TypeInv /\ DeletedIsGone
  BY DEF IInv
<1>1. SUFFICES ASSUME NEW v \in db' PROVE v = 1 \/ ToAdd(v)' \/ v \in dropped' \/ v <= reached'
  BY DEF HandledIsReached
<1>2. CASE v \notin db
  BY <1>0, <1>2, StepKinds, CreatedIsToAdd
<1>3. CASE v \in db
  <2>1. v \in Videos
    BY <1>0, <1>3 DEF TypeInv, TypeOK
  <2>2. v = 1 \/ ToAdd(v) \/ v \in dropped \/ v <= reached
    BY <1>3 DEF IInv, HandledIsReached
  <2>3. CASE ToAdd(v)
    BY <1>0, <2>1, <2>3, ToAddStep
  <2>4. CASE v <= reached
    <3>1. v \in Int /\ reached \in Int /\ reached' \in Int
      BY <1>0, <2>1, TypeInvStep, TimelineAssumption DEF TypeInv, TypeOK, Videos
    <3> QED BY <1>0, <2>4, <3>1, ReachedGrows
  <2> QED BY <1>0, <2>2, <2>3, <2>4, StepKinds
<1> QED BY <1>2, <1>3

LEMMA DeletedIsGoneStep ==
  ASSUME TypeInv, DeletedIsGone, [Next]_vars
  PROVE  DeletedIsGone'
<1> USE DEF videos, redis, poller, consumer, rebuild, observers, blame, order
<1> DEFINE Same == UNCHANGED <<published, db, deletePc>> /\ outbox' \subseteq outbox
<1>1. CASE CreateWithOutbox
  <2>1. published \in Nat /\ published' = published + 1
    BY <1>1 DEF CreateWithOutbox, TypeInv, TypeOK
  <2>2. db' \cup outbox' \subseteq 1..published'
    BY <1>1, <2>1 DEF CreateWithOutbox, DeletedIsGone
  <2>3. ASSUME NEW v \in Videos, deletePc'[v] # "none" PROVE v <= published' /\ v \notin db'
    <3>1. v \in Int /\ v <= published /\ v \notin db
      BY <1>1, <2>3, TimelineAssumption DEF CreateWithOutbox, DeletedIsGone, Videos
    <3> QED BY <1>1, <2>1, <3>1 DEF CreateWithOutbox
  <2> QED BY <2>2, <2>3 DEF DeletedIsGone
<1>2. ASSUME NEW w \in Videos, DeleteRow(w) PROVE DeletedIsGone'
  <2>1. w \in 1..published
    BY <1>2 DEF DeleteRow, DeletedIsGone
  <2>2. ASSUME NEW v \in Videos, deletePc'[v] # "none" PROVE v <= published' /\ v \notin db'
    BY <1>2, <2>1, <2>2 DEF DeleteRow, DeletedIsGone, TypeInv, TypeOK
  <2> QED BY <1>2, <2>2 DEF DeleteRow, DeletedIsGone
<1>3. ASSUME NEW w \in Videos, RemoveVideoCache(w) \/ RemoveFails(w) PROVE DeletedIsGone'
  <2>1. deletePc[w] # "none" /\ UNCHANGED <<published, db, outbox>>
    BY <1>3 DEF RemoveVideoCache, RemoveFails
  <2>2. deletePc' = [deletePc EXCEPT ![w] = "done"]
    BY <1>3 DEF RemoveVideoCache, RemoveFails
  <2> QED BY <2>1, <2>2 DEF DeletedIsGone, TypeInv, TypeOK
<1>4. CASE Crash
  BY <1>4 DEF Crash, DeletedIsGone, TypeInv, TypeOK
<1>5. CASE Same
  BY <1>5 DEF DeletedIsGone
<1>6. CASE PollRead \/ PollPublish \/ PollPublishLost \/ PollPublishErr \/ PollAdd \/ PollTrim \/ PollDelete \/ PollFails
  <2>1. Same
    BY <1>6 DEF PollRead, PollPublish, PollPublishLost, PollPublishErr, PollAdd, PollTrim, PollDelete, PollFails
  <2> QED BY <1>5, <2>1
<1>7. CASE Receive \/ ConsAdd \/ ConsTrim \/ ConsFanOut \/ ConsFails \/ Ack
  <2>1. Same
    BY <1>7 DEF Receive, ConsAdd, ConsTrim, ConsFanOut, ConsFails, Ack
  <2> QED BY <1>5, <2>1
<1>8. CASE RebuildStart \/ RebuildList \/ RebuildAdd \/ RebuildFails \/ CleanTimeline \/ UNCHANGED vars
  <2>1. Same
    BY <1>8 DEF RebuildStart, RebuildList, RebuildAdd, RebuildFails, CleanTimeline, vars
  <2> QED BY <1>5, <2>1
<1> QED
  BY <1>1, <1>2, <1>3, <1>4, <1>6, <1>7, <1>8
     DEF Next, OutboxPoller, TimelineHandler, EnsureTimeline, DeleteVideo, Failure

LEMMA IInvInit == Init => IInv
<1> SUFFICES ASSUME Init PROVE IInv
  OBVIOUS
<1>1. StoredIsCovered
  BY DEF Init, StoredIsCovered, Covered
<1>2. SnapIsNewest
  BY DEF Init, SnapIsNewest
<1>3. HandledIsReached
  BY DEF Init, HandledIsReached
<1>4. DeletedIsGone
  BY DEF Init, DeletedIsGone
<1> QED BY <1>1, <1>2, <1>3, <1>4, TypeInvInit DEF IInv

LEMMA IInvStep == IInv /\ [Next]_vars => IInv'
  BY TypeInvStep, StoredIsCoveredStep, SnapIsNewestStep, HandledIsReachedStep, DeletedIsGoneStep
     DEF IInv

\* A video that is still to be added is pending, and one that is covered is in
\* the timeline, below it, or below something that came in late.
LEMMA IInvImpliesNoHole == IInv => NoHole
<1> SUFFICES ASSUME IInv, NEW v \in db,
                    ~ (Shown(v) \/ Pending(v) \/ v \in dropped \cup outrun)
             PROVE  \E w \in late \cap timeline : w < v
  BY DEF NoHole
<1>1. ~ ToAdd(v)
  BY DEF ToAdd, Pending
<1>2. Covered(v)
  BY <1>1 DEF IInv, StoredIsCovered
<1>3. v \notin timeline /\ \E w \in timeline : ~ (v < w)
  BY DEF Shown
<1>4. PICK w \in timeline : ~ (v < w)
  BY <1>3
<1>5. w \in Int /\ v \in Int /\ w # v
  BY <1>3, TimelineAssumption DEF IInv, TypeInv, TypeOK, Videos, Placeholder
<1> QED BY <1>2, <1>3, <1>4, <1>5 DEF Covered

\* No stored video falls between the timeline and the table: whatever order the
\* poller, the consumer, rebuilds, deletions and crashes take, for every limit
\* of the timeline and any number of videos and failures.
THEOREM NoHoles == Spec => []NoHole
  BY IInvInit, IInvStep, IInvImpliesNoHole, PTL DEF Spec

----------------------------------------------------------------------------
(* Ghosts: a video without a row that is in the timeline, or may still get    *)
(* there, is owed its removal, or its removal failed or came too early.        *)

GhostInv ==
  \A v \in Videos \ db :
    v \in timeline \/ Pending(v) => deletePc[v] = "zrem" \/ v \in unremoved \cup overtaken

LEMMA PendingStep ==
  ASSUME TypeInv, [Next]_vars, NEW v \in Videos, Pending(v)'
  PROVE  Pending(v) \/ v \in db'
<1> USE DEF videos, redis, poller, consumer, rebuild, observers, blame, order
<1> DEFINE Goal == Pending(v) \/ v \in db'
<1>1. CASE CreateWithOutbox
  BY <1>1 DEF CreateWithOutbox, Pending
<1>2. CASE PollRead
  BY <1>2 DEF PollRead, Pending
<1>3. CASE PollPublish \/ PollPublishErr
  <2>1. Oldest(batch) \in batch
    BY <1>3, OldestType, OldestIn DEF PollPublish, PollPublishErr, TypeInv, TypeOK
  <2>2. queue' = queue \/ queue' = Append(queue, Oldest(batch))
    BY <1>3 DEF PollPublish, PollPublishErr
  <2>3. queue \in Seq(Videos) /\ batch \subseteq Videos
    BY DEF TypeInv, TypeOK
  <2>4. \A i \in DOMAIN queue' : queue'[i] = Oldest(batch) \/ \E j \in DOMAIN queue : queue'[i] = queue[j]
    BY <2>1, <2>2, <2>3
  <2> QED BY <1>3, <2>1, <2>4 DEF PollPublish, PollPublishErr, Pending
<1>4. CASE PollPublishLost \/ PollAdd \/ PollTrim
  BY <1>4 DEF PollPublishLost, PollAdd, PollTrim, Pending
<1>5. CASE PollDelete \/ PollFails
  BY <1>5 DEF PollDelete, PollFails, NextRow, Pending
<1>6. CASE Receive
  <2>1. cur' = queue[1] /\ 1 \in DOMAIN queue
    BY <1>6 DEF Receive, TypeInv, TypeOK
  <2>2. \A i \in DOMAIN queue' : i + 1 \in DOMAIN queue /\ queue'[i] = queue[i + 1]
    BY <1>6 DEF Receive, TypeInv, TypeOK
  <2> QED BY <1>6, <2>1, <2>2 DEF Receive, Pending
<1>7. CASE ConsAdd \/ ConsTrim \/ ConsFanOut \/ ConsFails
  BY <1>7 DEF ConsAdd, ConsTrim, ConsFanOut, ConsFails, Pending
<1>8. CASE Ack
  BY <1>8, TimelineAssumption DEF Ack, Forget, Pending, Videos, Placeholder
<1>9. CASE RebuildStart \/ RebuildAdd \/ RebuildFails \/ CleanTimeline
  BY <1>9 DEF RebuildStart, RebuildAdd, RebuildFails, CleanTimeline, Pending
<1>10. CASE RebuildList
  BY <1>10, NewestSubset DEF RebuildList, Pending
<1>11. ASSUME NEW w \in Videos, DeleteRow(w) \/ RemoveVideoCache(w) \/ RemoveFails(w) PROVE Goal
  BY <1>11 DEF DeleteRow, RemoveVideoCache, RemoveFails, Pending
<1>12. CASE Crash
  <2>1. \A i \in DOMAIN queue' : queue'[i] = cur \/ \E j \in DOMAIN queue : queue'[i] = queue[j]
    <3>1. CASE consPc = "idle"
      BY <1>12, <3>1 DEF Crash
    <3>2. CASE consPc # "idle"
      <4>1. queue' = <<cur>> \o queue /\ queue \in Seq(Videos) /\ <<cur>> \in Seq(Videos)
        BY <1>12, <3>2 DEF Crash, TypeInv, TypeOK, Holding
      <4> QED BY <4>1
    <3> QED BY <3>1, <3>2
  <2> QED BY <1>12, <2>1, TimelineAssumption DEF Crash, Forget, Pending, Videos, Placeholder
<1>13. CASE UNCHANGED vars
  BY <1>13 DEF vars, Pending
<1> QED
  BY <1>1, <1>2, <1>3, <1>4, <1>5, <1>6, <1>7, <1>8, <1>9, <1>10, <1>11, <1>12, <1>13
     DEF Next, OutboxPoller, TimelineHandler, EnsureTimeline, DeleteVideo, Failure

\* Nothing enters the timeline but what was pending.
LEMMA OnlyPendingEnters ==
  ASSUME TypeInv, [Next]_vars, NEW v \in Videos, v \in timeline' \ timeline
  PROVE  Pending(v)
<1> USE DEF videos, redis, poller, consumer, rebuild, observers, blame, order
<1>1. CASE PollAdd
  <2>1. Oldest(batch) \in batch
    BY <1>1, OldestType, OldestIn DEF PollAdd, TypeInv, TypeOK
  <2> QED BY <1>1, <2>1 DEF PollAdd, AddToTimeline, Pending
<1>2. CASE ConsAdd
  BY <1>2 DEF ConsAdd, AddToTimeline, Pending
<1>3. CASE RebuildAdd
  BY <1>3, TimelineAssumption DEF RebuildAdd, Pending, Videos, Placeholder
<1>4. CASE PollTrim \/ ConsTrim
  BY <1>4, NewestSubset DEF PollTrim, ConsTrim, Trim
<1>5. CASE \E w \in Videos : DeleteRow(w) \/ RemoveVideoCache(w) \/ RemoveFails(w)
  BY <1>5 DEF DeleteRow, RemoveVideoCache, RemoveFails
<1> QED
  BY <1>1, <1>2, <1>3, <1>4, <1>5
     DEF Next, OutboxPoller, TimelineHandler, EnsureTimeline, DeleteVideo, Failure, vars,
         CreateWithOutbox, PollRead, PollPublish, PollPublishLost, PollPublishErr, PollDelete,
         PollFails, Receive, ConsFanOut, ConsFails, Ack, RebuildStart, RebuildList, RebuildFails,
         CleanTimeline, Crash

\* A removal that is owed stays owed until it is done, fails or is overtaken.
LEMMA OwedStep ==
  ASSUME TypeInv, [Next]_vars, NEW v \in Videos \ db, v \in timeline' \/ Pending(v)',
         deletePc[v] = "zrem" \/ v \in unremoved \cup overtaken
  PROVE  deletePc'[v] = "zrem" \/ v \in unremoved' \cup overtaken'
<1> USE DEF videos, redis, poller, consumer, rebuild, observers, blame, order
<1> DEFINE Same == UNCHANGED <<deletePc, unremoved, overtaken>>
           Goal == deletePc'[v] = "zrem" \/ v \in unremoved' \cup overtaken'
<1>1. ASSUME NEW w \in Videos, DeleteRow(w) PROVE Goal
  BY <1>1 DEF DeleteRow, TypeInv, TypeOK
<1>2. ASSUME NEW w \in Videos, RemoveVideoCache(w) PROVE Goal
  <2>1. CASE w = v
    <3>1. v \notin timeline' /\ Pending(v)' = Pending(v)
      BY <1>2, <2>1 DEF RemoveVideoCache, Pending
    <3> QED BY <1>2, <2>1, <3>1 DEF RemoveVideoCache
  <2>2. CASE w # v
    BY <1>2, <2>2 DEF RemoveVideoCache, TypeInv, TypeOK
  <2> QED BY <2>1, <2>2
<1>3. ASSUME NEW w \in Videos, RemoveFails(w) PROVE Goal
  BY <1>3 DEF RemoveFails, TypeInv, TypeOK
<1>4. CASE Crash
  BY <1>4 DEF Crash, TypeInv, TypeOK
<1>5. CASE Same
  BY <1>5
<1>6. CASE CreateWithOutbox \/ OutboxPoller \/ PollPublishLost \/ PollPublishErr \/ PollFails
  <2>1. Same
    BY <1>6 DEF CreateWithOutbox, OutboxPoller, PollRead, PollPublish, PollAdd, PollTrim, PollDelete,
                PollPublishLost, PollPublishErr, PollFails
  <2> QED BY <1>5, <2>1
<1>7. CASE TimelineHandler \/ ConsFails
  <2>1. Same
    BY <1>7 DEF TimelineHandler, Receive, ConsAdd, ConsTrim, ConsFanOut, ConsFails, Ack
  <2> QED BY <1>5, <2>1
<1>8. CASE EnsureTimeline \/ RebuildFails \/ CleanTimeline \/ UNCHANGED vars
  <2>1. Same
    BY <1>8 DEF EnsureTimeline, RebuildStart, RebuildList, RebuildAdd, RebuildFails, CleanTimeline, vars
  <2> QED BY <1>5, <2>1
<1> QED BY <1>1, <1>2, <1>3, <1>4, <1>6, <1>7, <1>8 DEF Next, DeleteVideo, Failure

\* A video leaves the table by its deletion only.
LEMMA LeavesByDeletion ==
  ASSUME TypeInv, [Next]_vars, NEW v \in db \ db'
  PROVE  deletePc'[v] = "zrem"
<1> USE DEF videos, redis, poller, consumer, rebuild, observers, blame, order
<1>1. ASSUME NEW w \in Videos, DeleteRow(w) PROVE deletePc'[v] = "zrem"
  BY <1>1 DEF DeleteRow, TypeInv, TypeOK
<1>2. ASSUME NEW w \in Videos, RemoveVideoCache(w) \/ RemoveFails(w) PROVE FALSE
  BY <1>2 DEF RemoveVideoCache, RemoveFails
<1> QED
  BY <1>1, <1>2
     DEF Next, OutboxPoller, TimelineHandler, EnsureTimeline, DeleteVideo, Failure, vars,
         CreateWithOutbox, PollRead, PollPublish, PollPublishLost, PollPublishErr, PollAdd, PollTrim,
         PollDelete, PollFails, Receive, ConsAdd, ConsTrim, ConsFanOut, ConsFails, Ack, RebuildStart,
         RebuildList, RebuildAdd, RebuildFails, CleanTimeline, Crash

LEMMA GhostInvStep ==
  ASSUME TypeInv, GhostInv, [Next]_vars
  PROVE  GhostInv'
<1>1. SUFFICES ASSUME NEW v \in Videos \ db', v \in timeline' \/ Pending(v)'
               PROVE  deletePc'[v] = "zrem" \/ v \in unremoved' \cup overtaken'
  BY DEF GhostInv, Videos
<1>2. CASE v \in db
  BY <1>2, LeavesByDeletion
<1>3. CASE v \notin db
  <2>1. v \in timeline \/ Pending(v)
    BY <1>1, PendingStep, OnlyPendingEnters
  <2>2. deletePc[v] = "zrem" \/ v \in unremoved \cup overtaken
    BY <1>1, <1>3, <2>1 DEF GhostInv
  <2> QED BY <1>1, <1>3, <2>2, OwedStep
<1> QED BY <1>2, <1>3

\* A deleted video is in the timeline only until its removal, or because that
\* failed, or because a writer still had the video when it was removed.
THEOREM GhostsAreExplained == Spec => []GhostsExplained
<1>1. Init => GhostInv
  BY TimelineAssumption DEF Init, GhostInv, Pending, Videos, Placeholder
<1>2. TypeInv /\ GhostInv /\ [Next]_vars => GhostInv'
  BY GhostInvStep
<1>3. TypeInv /\ GhostInv => GhostsExplained
  BY DEF TypeInv, TypeOK, GhostInv, GhostsExplained
<1> QED BY TypeInvInit, TypeInvStep, <1>1, <1>2, <1>3, PTL DEF Spec

----------------------------------------------------------------------------
(* Fans *)

\* Some step of the poller or the consumer will still bring v to the fans.
ToFan(v) == ToAdd(v) \/ (cur = v /\ consPc \in {"trim", "fanout"})

FanInv ==
  \A v \in 1..published, f \in Fans :
    v \in feeds[f] \/ ToFan(v) \/ v \in dropped \cup direct

\* The event of v is in the handler beyond the global timeline.
AtFans(v) == cur = v /\ consPc \in {"trim", "fanout"}

LEMMA AtFansStep ==
  ASSUME TypeInv, [Next]_vars, NEW v \in Videos, AtFans(v)
  PROVE  ToFan(v)' \/ v \in dropped' \/ \A f \in Fans : v \in feeds'[f]
<1> USE DEF videos, redis, poller, consumer, rebuild, observers, blame, order
<1>1. CASE ConsTrim
  BY <1>1 DEF ConsTrim, AtFans, ToFan
<1>2. CASE ConsFanOut
  BY <1>2 DEF ConsFanOut, FanOut, AtFans
<1>3. CASE ConsFails
  BY <1>3 DEF ConsFails, AtFans, ToFan, ToAdd
<1>4. CASE Receive \/ ConsAdd \/ Ack
  BY <1>4 DEF Receive, ConsAdd, Ack, AtFans
<1>5. CASE Crash
  <2>1. queue' = <<v>> \o queue /\ queue \in Seq(Videos) /\ <<v>> \in Seq(Videos)
    BY <1>5 DEF Crash, AtFans, TypeInv, TypeOK
  <2>2. 1 \in DOMAIN queue' /\ queue'[1] = v
    BY <2>1
  <2> QED BY <2>2 DEF ToFan, ToAdd
<1>6. CASE UNCHANGED consumer
  BY <1>6 DEF AtFans, ToFan
<1>7. CASE CreateWithOutbox \/ OutboxPoller \/ PollPublishLost \/ PollPublishErr \/ PollFails
  <2>1. UNCHANGED consumer
    BY <1>7 DEF CreateWithOutbox, OutboxPoller, PollRead, PollPublish, PollAdd, PollTrim, PollDelete,
                PollPublishLost, PollPublishErr, PollFails
  <2> QED BY <1>6, <2>1
<1>8. CASE EnsureTimeline \/ RebuildFails \/ CleanTimeline \/ UNCHANGED vars
  <2>1. UNCHANGED consumer
    BY <1>8 DEF EnsureTimeline, RebuildStart, RebuildList, RebuildAdd, RebuildFails, CleanTimeline, vars
  <2> QED BY <1>6, <2>1
<1>9. CASE \E w \in Videos : DeleteVideo(w) \/ RemoveFails(w)
  <2>1. UNCHANGED consumer
    BY <1>9 DEF DeleteVideo, DeleteRow, RemoveVideoCache, RemoveFails
  <2> QED BY <1>6, <2>1
<1> QED
  BY <1>1, <1>2, <1>3, <1>4, <1>5, <1>7, <1>8, <1>9 DEF Next, TimelineHandler, Failure

\* Only a direct write of the poller takes a video off its way to the fans.
LEMMA ToFanStep ==
  ASSUME TypeInv, [Next]_vars, NEW v \in Videos, ToFan(v)
  PROVE  ToFan(v)' \/ v \in dropped' \cup direct' \/ \A f \in Fans : v \in feeds'[f]
<1>1. CASE AtFans(v)
  BY <1>1, AtFansStep
<1>2. CASE ToAdd(v) /\ PollAdd
  <2>1. ToAdd(v)' \/ v = Oldest(batch)
    BY <1>2 DEF PollAdd, consumer, ToAdd, HandedOver
  <2> QED BY <1>2, <2>1 DEF PollAdd, ToFan
<1>3. CASE ToAdd(v) /\ ConsAdd
  BY <1>3 DEF ConsAdd, poller, ToFan, ToAdd, HandedOver
<1>4. CASE ToAdd(v) /\ ~ (PollAdd \/ ConsAdd)
  BY <1>4, ToAddStep DEF ToFan
<1> QED BY <1>1, <1>2, <1>3, <1>4 DEF ToFan, AtFans

\* What a fan has, and what is known to be lost to him, stays.
LEMMA FeedsGrow ==
  ASSUME TypeInv, [Next]_vars
  PROVE  /\ \A f \in Fans : feeds[f] \subseteq feeds'[f]
         /\ dropped \subseteq dropped' /\ direct \subseteq direct'
<1> USE DEF videos, redis, poller, consumer, rebuild, observers, blame, order
<1>1. CASE ConsFanOut \/ ConsFails
  BY <1>1 DEF ConsFanOut, ConsFails, FanOut, TypeInv, TypeOK
<1>2. CASE CreateWithOutbox \/ OutboxPoller \/ PollPublishLost \/ PollPublishErr \/ PollFails
  BY <1>2 DEF CreateWithOutbox, OutboxPoller, PollRead, PollPublish, PollAdd, PollTrim, PollDelete,
              PollPublishLost, PollPublishErr, PollFails
<1>3. CASE Receive \/ ConsAdd \/ ConsTrim \/ Ack \/ CleanTimeline \/ Crash
  BY <1>3 DEF Receive, ConsAdd, ConsTrim, Ack, CleanTimeline, Crash
<1>4. CASE EnsureTimeline \/ RebuildFails \/ UNCHANGED vars
  BY <1>4 DEF EnsureTimeline, RebuildStart, RebuildList, RebuildAdd, RebuildFails, vars
<1>5. CASE \E w \in Videos : DeleteVideo(w) \/ RemoveFails(w)
  BY <1>5 DEF DeleteVideo, DeleteRow, RemoveVideoCache, RemoveFails
<1> QED BY <1>1, <1>2, <1>3, <1>4, <1>5 DEF Next, TimelineHandler, Failure

LEMMA FanInvStep ==
  ASSUME TypeInv, DeletedIsGone, FanInv, [Next]_vars
  PROVE  FanInv'
<1>1. SUFFICES ASSUME NEW v \in 1..published', NEW f \in Fans
               PROVE  v \in feeds'[f] \/ ToFan(v)' \/ v \in dropped' \cup direct'
  BY DEF FanInv
<1>2. CASE v \in 1..published
  <2>1. v \in Videos
    BY <1>2, TimelineAssumption DEF TypeInv, TypeOK, Videos
  <2> QED BY <1>2, <2>1, ToFanStep, FeedsGrow DEF FanInv
<1>3. CASE v \notin 1..published
  <2>1. published' # published
    BY <1>3
  <2>2. CreateWithOutbox
    BY <2>1 DEF Next, OutboxPoller, TimelineHandler, EnsureTimeline, DeleteVideo, Failure, vars, videos,
         PollRead, PollPublish, PollPublishLost, PollPublishErr, PollAdd, PollTrim, PollDelete,
         PollFails, Receive, ConsAdd, ConsTrim, ConsFanOut, ConsFails, Ack, RebuildStart, RebuildList,
         RebuildAdd, RebuildFails, CleanTimeline, Crash, DeleteRow, RemoveVideoCache, RemoveFails
  <2>3. v = published + 1
    BY <1>3, <2>2 DEF CreateWithOutbox, TypeInv, TypeOK
  <2>4. v \in db' \ db
    BY <2>2, <2>3 DEF CreateWithOutbox, DeletedIsGone, TypeInv, TypeOK
  <2> QED BY <2>2, <2>4, CreatedIsToAdd DEF ToFan
<1> QED BY <1>2, <1>3

\* Every fan has every video that is no longer on its way, unless its event was
\* given up or the poller wrote the global timeline by itself.
THEOREM FansAreServed == Spec => []FansHaveIt
<1>1. Init => FanInv
  BY DEF Init, FanInv
<1>2. TypeInv /\ DeletedIsGone /\ FanInv /\ [Next]_vars => FanInv'
  BY FanInvStep
<1>3. FanInv => FansHaveIt
  BY DEF FanInv, FansHaveIt, ToFan, ToAdd, Pending
<1>4. IInv => TypeInv /\ DeletedIsGone
  BY DEF IInv
<1> QED BY IInvInit, IInvStep, <1>1, <1>2, <1>3, <1>4, PTL DEF Spec

----------------------------------------------------------------------------
(* What a reader of the pages is shown *)

\* The n newest members of a set.
Top(S, n) == {v \in S : Cardinality({w \in S : w > v}) < n}

LEMMA TopFacts ==
  ASSUME NEW S \in SUBSET (0..MaxVideos), NEW n \in Nat
  PROVE  /\ Top(S, n) \in SUBSET S
         /\ \A w \in Top(S, n), v \in S : v > w => v \in Top(S, n)
         /\ S # {} /\ n > 0 => Top(S, n) # {}
         /\ Cardinality(Top(S, n)) \in Nat
         /\ Cardinality(Top(S, n)) < n => Top(S, n) = S
         /\ Cardinality(S) <= n => Top(S, n) = S
<1> DEFINE Above(x) == {u \in S : u > x}
<1>0. \A u \in S : u \in Int
  BY TimelineAssumption
<1>1. IsFiniteSet(S) /\ \A x : IsFiniteSet(Above(x))
  BY SomeFinite, FS_Subset
<1>2. Cardinality(S) \in Nat /\ \A x : Cardinality(Above(x)) \in Nat
  BY <1>1, FS_CardinalityType
<1>3. Top(S, n) \in SUBSET S
  BY DEF Top
<1>4. \A w \in Top(S, n), v \in S : v > w => v \in Top(S, n)
  <2> SUFFICES ASSUME NEW w \in Top(S, n), NEW v \in S, v > w
               PROVE  v \in Top(S, n)
    OBVIOUS
  <2>1. Above(v) \subseteq Above(w)
    <3>1. w \in S
      BY DEF Top
    <3>2. \A u \in S : u > v => u > w
      BY <1>0, <3>1
    <3> QED BY <3>2
  <2>2. Cardinality(Above(v)) <= Cardinality(Above(w))
    BY <1>1, <2>1, FS_Subset
  <2>3. Cardinality(Above(w)) < n
    BY DEF Top
  <2> HIDE DEF Above
  <2>4. Cardinality(Above(v)) < n
    BY <1>2, <2>2, <2>3
  <2> QED BY <2>4 DEF Top, Above
<1>5. S # {} /\ n > 0 => Top(S, n) # {}
  <2> SUFFICES ASSUME S # {}, n > 0
               PROVE  Top(S, n) # {}
    OBVIOUS
  <2>1. PICK x \in S : \A y \in S : y <= x
    BY ExtremesExist
  <2>2. Above(x) = {}
    <3>1. \A u \in S : ~ (u > x)
      BY <1>0, <2>1
    <3> QED BY <3>1
  <2>3. Cardinality(Above(x)) = 0
    BY <2>2, FS_EmptySet
  <2> QED BY <2>3 DEF Top
<1>6. IsFiniteSet(Top(S, n)) /\ Cardinality(Top(S, n)) \in Nat
  BY <1>1, <1>3, FS_Subset, FS_CardinalityType
<1>7. Cardinality(Top(S, n)) < n => Top(S, n) = S
  <2> SUFFICES ASSUME Top(S, n) # S, Cardinality(Top(S, n)) < n
               PROVE  FALSE
    OBVIOUS
  <2>1. S \ Top(S, n) \in SUBSET (0..MaxVideos) /\ S \ Top(S, n) # {}
    BY <1>3
  <2>2. PICK x \in S \ Top(S, n) : \A y \in S \ Top(S, n) : y <= x
    BY <2>1, ExtremesExist
  <2>3. Above(x) \subseteq Top(S, n)
    <3>1. \A u \in S : u > x => u \in Top(S, n)
      BY <1>0, <2>2
    <3> QED BY <3>1
  <2>4. Cardinality(Above(x)) <= Cardinality(Top(S, n))
    BY <1>6, <2>3, FS_Subset
  <2>5. ~ (Cardinality(Above(x)) < n)
    BY <2>2 DEF Top
  <2> HIDE DEF Above
  <2> QED BY <1>2, <1>6, <2>4, <2>5
<1>8. Cardinality(S) <= n => Top(S, n) = S
  <2> SUFFICES ASSUME NEW x \in S, Cardinality(S) <= n
               PROVE  Cardinality(Above(x)) < n
    BY DEF Top
  <2>1. Above(x) \subseteq S \ {x}
    BY <1>0
  <2>2. IsFiniteSet(S \ {x}) /\ Cardinality(S \ {x}) = Cardinality(S) - 1
    BY <1>1, FS_RemoveElement
  <2>3. Cardinality(Above(x)) <= Cardinality(S) - 1
    BY <2>1, <2>2, FS_Subset
  <2> HIDE DEF Above
  <2> QED BY <1>2, <2>3
<1> QED BY <1>3, <1>4, <1>5, <1>6, <1>7, <1>8

\* A page of n and its probe of one more: whoever is not on the page comes after it.
LEMMA PageFacts ==
  ASSUME NEW S \in SUBSET (0..MaxVideos), NEW n \in Nat \ {0}, NEW v \in S, v \notin Top(Top(S, n + 1), n)
  PROVE  /\ Cardinality(Top(S, n + 1)) > n
         /\ Top(Top(S, n + 1), n) # {} /\ \A x \in Top(Top(S, n + 1), n) : v < x
<1> DEFINE V == Top(S, n + 1)
<1>0. n + 1 \in Nat /\ n + 1 > 0 /\ n \in Nat /\ n > 0 /\ S # {}
  OBVIOUS
<1>1. V \in SUBSET S /\ V \in SUBSET (0..MaxVideos) /\ Cardinality(V) \in Nat
  <2>1. V \in SUBSET S /\ Cardinality(V) \in Nat
    BY <1>0, TopFacts
  <2> QED BY <2>1
<1>a. /\ S # {} /\ n + 1 > 0 => V # {}
      /\ Cardinality(V) < n + 1 => V = S
      /\ \A w \in V, u \in S : u > w => u \in V
  BY <1>0, TopFacts
<1> HIDE DEF V
<1>b. /\ Top(V, n) \in SUBSET V
      /\ V # {} => Top(V, n) # {}
      /\ \A w \in Top(V, n), u \in V : u > w => u \in Top(V, n)
      /\ Cardinality(V) <= n => Top(V, n) = V
  BY <1>0, <1>1, TopFacts
<1>c. v \notin Top(V, n)
  BY DEF V
<1>2. Cardinality(V) > n
  <2> SUFFICES ASSUME ~(Cardinality(V) > n)
               PROVE  FALSE
    OBVIOUS
  <2>1. Cardinality(V) < n + 1 /\ Cardinality(V) <= n
    BY <1>1
  <2>2. V = S
    BY <1>a, <2>1
  <2>3. Top(V, n) = V
    BY <1>b, <2>1
  <2> QED BY <1>c, <2>2, <2>3
<1>3. V # {}
  BY <1>0, <1>a
<1>4. Top(V, n) # {} /\ Top(V, n) \in SUBSET V
  BY <1>b, <1>3
<1>5. ASSUME NEW x \in Top(V, n)
      PROVE  v < x
  <2>0. x \in V /\ x \in 0..MaxVideos /\ v \in 0..MaxVideos
    BY <1>1, <1>4
  <2>1. x \in Int /\ v \in Int /\ x \in V
    BY <2>0, TimelineAssumption
  <2>2. v > x => v \in V
    BY <1>a, <2>1
  <2>3. v > x => v \in Top(V, n)
    BY <1>b, <2>2
  <2> QED BY <1>c, <2>1, <2>3
<1> QED BY <1>2, <1>4, <1>5 DEF V

LEMMA VideosBounded == Videos \in SUBSET (0..MaxVideos) /\ \A v \in Videos : v \in Int /\ v >= 1
<1>1. \A v \in Videos : v \in Int /\ v >= 1 /\ v \in 0..MaxVideos
  BY TimelineAssumption DEF Videos
<1> QED BY <1>1

LEMMA SameCardinality == ASSUME NEW S PROVE Pages!Cardinality(S) = Cardinality(S)
BY DEF Pages!Cardinality, Cardinality

\* The operators of Paging for videos whose time is their id.
LEMMA OrderIsById ==
  ASSUME NEW T \in SUBSET (0..MaxVideos), NEW S \in SUBSET T, NEW n \in Nat
  PROVE  /\ Pages!FirstN(ById(T), S, n) = Top(S, n)
         /\ S # {} => /\ Pages!LastOf(ById(T), S) \in S
                      /\ \A w \in S : Pages!LastOf(ById(T), S) <= w
<1>0. \A v \in T : v \in Int
  BY TimelineAssumption
<1>1. \A v, w \in S : Pages!Later(ById(T), v, w) <=> v > w
  BY <1>0 DEF Pages!Later, ById
<1>2. \A v \in S : {w \in S : Pages!Later(ById(T), w, v)} = {w \in S : w > v}
  BY <1>1
<1>3. Pages!FirstN(ById(T), S, n) = Top(S, n)
  <2>1. \A v \in S : Cardinality({w \in S : Pages!Later(ById(T), w, v)}) = Cardinality({w \in S : w > v})
    BY <1>2
  <2> DEFINE N(v) == Cardinality({w \in S : Pages!Later(ById(T), w, v)})
             M(v) == Cardinality({w \in S : w > v})
  <2>a. Pages!FirstN(ById(T), S, n) = {v \in S : N(v) < n}
    BY SameCardinality DEF Pages!FirstN
  <2>c. Top(S, n) = {v \in S : M(v) < n}
    BY DEF Top
  <2>b. \A v \in S : N(v) = M(v)
    BY <2>1
  <2> HIDE DEF N, M
  <2>2. \A v \in S : v \in Pages!FirstN(ById(T), S, n) <=> v \in Top(S, n)
    BY <2>a, <2>b, <2>c
  <2>3. Pages!FirstN(ById(T), S, n) \subseteq S /\ Top(S, n) \subseteq S
    BY DEF Pages!FirstN, Top
  <2> QED BY <2>2, <2>3
<1>4. ASSUME S # {}
      PROVE  /\ Pages!LastOf(ById(T), S) \in S
             /\ \A w \in S : Pages!LastOf(ById(T), S) <= w
  <2>1. \E x \in S : \A w \in S : x <= w
    BY <1>4, ExtremesExist
  <2>2. \E x \in S : \A w \in S \ {x} : Pages!Later(ById(T), w, x)
    BY <1>0, <1>1, <2>1
  <2>3. /\ Pages!LastOf(ById(T), S) \in S
        /\ \A w \in S \ {Pages!LastOf(ById(T), S)} : Pages!Later(ById(T), w, Pages!LastOf(ById(T), S))
    BY <2>2 DEF Pages!LastOf
  <2> DEFINE l == Pages!LastOf(ById(T), S)
  <2> HIDE DEF l
  <2>4. l \in S /\ \A w \in S \ {l} : w > l
    BY <1>1, <2>3 DEF l
  <2>5. \A w \in S : l <= w
    BY <1>0, <2>4
  <2> QED BY <2>4, <2>5 DEF l
<1> QED BY <1>3, <1>4

LEMMA CursorFacts ==
  /\ Pages!Start = <<MaxVideos + 1, 0>> /\ Pages!End = <<0, 0>>
  /\ \A c \in Pages!Cursors : c[1] \in 0..MaxVideos + 1 /\ (c # Pages!Start => c = Pages!End \/ c[2] = c[1])
  /\ \A v \in Videos : Pages!At(v) = <<v, v>> /\ Pages!At(v) \in Pages!Cursors
  /\ \A c \in Pages!Cursors, v \in Videos : Pages!Older(c, v) <=> v < c[1]
<1>1. DOMAIN [v \in Videos |-> v] = Videos /\ \A v \in Videos : v \in Int /\ v \in 0..MaxVideos + 1
  BY TimelineAssumption DEF Videos
<1>2. \A v \in Videos : Pages!At(v) = <<v, v>>
  BY DEF Pages!At
<1>3. Pages!Cursors = {<<MaxVideos + 1, 0>>, <<0, 0>>} \cup {<<v, v>> : v \in Videos}
  BY <1>1, <1>2 DEF Pages!Cursors, Pages!Start, Pages!End
<1>4. \A c \in Pages!Cursors, v \in Videos : Pages!Older(c, v) <=> v < c[1]
  <2> SUFFICES ASSUME NEW c \in Pages!Cursors, NEW v \in Videos
               PROVE  Pages!Older(c, v) <=> v < c[1]
    OBVIOUS
  <2>1. Pages!Older(c, v) <=> v < c[1] \/ (v = c[1] /\ v < c[2])
    BY DEF Pages!Older
  <2>2. c = <<MaxVideos + 1, 0>> \/ c = <<0, 0>> \/ \E w \in Videos : c = <<w, w>>
    BY <1>3
  <2> QED BY <1>1, <2>1, <2>2, TimelineAssumption DEF Videos
<1> QED BY <1>1, <1>2, <1>3, <1>4, TimelineAssumption DEF Pages!Start, Pages!End

\* A page from the table: the newest videos below the cursor.
LEMMA ListIsById ==
  ASSUME TypeInv, NEW c \in Pages!Cursors, NEW n \in Nat
  PROVE  Pages!ListLatest(db, c, n) = Top({v \in db : v < c[1]}, n)
<1> DEFINE B == {v \in db : v < c[1]}
<1>1. db \in SUBSET Videos
  BY DEF TypeInv, TypeOK
<1>2. {v \in db : Pages!Older(c, v)} = B
  BY <1>1, CursorFacts
<1>3. B \in SUBSET Videos
  BY <1>1
<1>3a. Videos \in SUBSET (0..MaxVideos)
  BY TimelineAssumption DEF Videos
<1> HIDE DEF B
<1>4. Pages!FirstN(ById(Videos), B, n) = Top(B, n)
  BY <1>3, <1>3a, OrderIsById
<1> QED BY <1>2, <1>4 DEF Pages!ListLatest, ById, B

\* The reader has seen what lies at his cursor and after; what is due to him lies before
\* it, and, while he reads a page, among the members found or below them.
Owed == IF readPc = "new" THEN db ELSE due

Between ==
  /\ readPc = "new" => cursor = Pages!Start /\ seen = {} /\ due = {}
  /\ ~again
  /\ \A v \in seen : v >= cursor[1]
  /\ Owed \subseteq 1..published
  /\ \A v \in Owed \cap db : v < cursor[1]

Within ==
  /\ readPc \in {"members", "entities"} =>
       /\ cursor # Pages!Start => cursor # Pages!End /\ upto = cursor[1]
       /\ cursor[1] >= upto
       /\ \A v \in due \cap db : v < upto
  /\ readPc = "entities" =>
       /\ \A h \in hot : h < upto
       /\ \A v \in due \cap db : v \in hot \/ \A h \in hot : v < h
       /\ hotMore => hot # {}

FeedInv == FeedTypeOK /\ Between /\ Within

LEMMA FeedInvInit == FeedInit => FeedInv
<1> SUFFICES ASSUME FeedInit PROVE FeedInv
  OBVIOUS
<1>1. Pages!Start \in Pages!Cursors /\ Pages!Start[1] = MaxVideos + 1
  BY CursorFacts DEF Pages!Cursors
<1>2. FeedTypeOK
  <2>1. 0 \in 0..MaxVideos + 1
    BY TimelineAssumption
  <2> QED BY <1>1, <2>1 DEF FeedInit, FeedTypeOK
<1>3. db = 1..published /\ published \in 0..MaxVideos
  BY TimelineAssumption DEF FeedInit, Init
<1>4. \A v \in db : v < cursor[1]
  BY <1>1, <1>3, TimelineAssumption DEF FeedInit
<1>5. Between
  BY <1>3, <1>4 DEF FeedInit, Between, Owed
<1>6. Within
  BY DEF FeedInit, Within
<1> QED BY <1>2, <1>5, <1>6 DEF FeedInv

\* What the others do to the table: new ids, or fewer rows.
LEMMA TableStep ==
  ASSUME TypeInv, [Next]_vars
  PROVE  \/ db' \subseteq db /\ published' = published
         \/ db' = db \cup {published + 1} /\ published' = published + 1
<1> USE DEF videos
<1>1. CASE CreateWithOutbox
  BY <1>1 DEF CreateWithOutbox
<1>2. ASSUME NEW w \in Videos, DeleteRow(w) \/ RemoveVideoCache(w) \/ RemoveFails(w)
      PROVE  db' \subseteq db /\ published' = published
  BY <1>2 DEF DeleteRow, RemoveVideoCache, RemoveFails
<1>3. CASE PollRead \/ PollPublish \/ PollPublishLost \/ PollPublishErr \/ PollAdd \/ PollTrim \/ PollDelete \/ PollFails
  BY <1>3 DEF PollRead, PollPublish, PollPublishLost, PollPublishErr, PollAdd, PollTrim, PollDelete, PollFails
<1>4. CASE Receive \/ ConsAdd \/ ConsTrim \/ ConsFanOut \/ ConsFails \/ Ack
  BY <1>4 DEF Receive, ConsAdd, ConsTrim, ConsFanOut, ConsFails, Ack
<1>5. CASE RebuildStart \/ RebuildList \/ RebuildAdd \/ RebuildFails \/ CleanTimeline \/ Crash \/ UNCHANGED vars
  BY <1>5 DEF RebuildStart, RebuildList, RebuildAdd, RebuildFails, CleanTimeline, Crash, vars
<1> QED
  BY <1>1, <1>2, <1>3, <1>4, <1>5
     DEF Next, OutboxPoller, TimelineHandler, EnsureTimeline, DeleteVideo, Failure

LEMMA OthersKeepFeedInv ==
  ASSUME TypeInv, DeletedIsGone, FeedInv, [Next]_vars, UNCHANGED reading
  PROVE  FeedInv'
<1> USE DEF reading, page
<1>1. published \in Nat /\ published <= MaxVideos /\ db \subseteq 1..published
  BY TimelineAssumption DEF TypeInv, TypeOK, DeletedIsGone
<1>1a. published' \in 0..MaxVideos /\ db' \subseteq 1..published'
  BY TypeInvStep, DeletedIsGoneStep DEF TypeInv, TypeOK, DeletedIsGone
<1>2. published' \in Nat /\ published' >= published
  BY <1>1, TableStep
<1>3. \A v \in 1..published : v \in db' => v \in db
  BY <1>1, TableStep
<1>4. due \subseteq 1..published
  BY DEF FeedInv, Between, Owed
<1>5. \A v \in due : v \in db' => v \in db
  BY <1>3, <1>4
<1>6. Owed' \subseteq 1..published'
  <2>1. 1..published \subseteq 1..published'
    BY <1>1, <1>2
  <2> QED BY <1>1a, <1>4, <2>1 DEF Owed
<1>7. \A v \in Owed' \cap db' : v < cursor[1]
  <2>1. CASE readPc = "new"
    <3>1. cursor[1] = MaxVideos + 1
      BY <2>1, CursorFacts DEF FeedInv, Between
    <3>2. \A v \in 1..published' : v < MaxVideos + 1
      BY <1>1a, TimelineAssumption
    <3> QED BY <1>1a, <2>1, <3>1, <3>2 DEF Owed
  <2>2. CASE readPc # "new"
    BY <2>2, <1>5 DEF FeedInv, Between, Owed
  <2> QED BY <2>1, <2>2
<1>8. Between'
  BY <1>6, <1>7 DEF FeedInv, Between
<1>9. FeedTypeOK'
  BY DEF FeedInv, FeedTypeOK
<1>10. Within'
  BY <1>5 DEF FeedInv, Within
<1> QED BY <1>8, <1>9, <1>10 DEF FeedInv

\* Why an answer skips nothing: what it leaves out, and what is due, comes after it.
LEMMA AnswerStep ==
  ASSUME TypeInv, DeletedIsGone, FeedInv, UNCHANGED vars,
         NEW vs \in SUBSET Videos, NEW cold \in SUBSET Videos, NEW more \in BOOLEAN,
         Answer(vs, cold, more),
         NEW all, all = vs \cup cold,
         \A v \in all : v < cursor[1],
         \A v \in vs, w \in cold : w < v,
         \A v \in Owed \cap db : v \in all \/ (more /\ all # {} /\ \A x \in all : v < x)
  PROVE  FeedInv'
<1> DEFINE l == Pages!LastOf(ById(Videos), IF cold = {} THEN vs ELSE cold)
<1>1. \A v \in Videos : v \in Int /\ v >= 1 /\ v <= MaxVideos
  BY TimelineAssumption DEF Videos
<1>2. Videos \in SUBSET (0..MaxVideos)
  BY TimelineAssumption DEF Videos
<1>3. all # {} => l \in all /\ \A w \in all : l <= w
  <2>1. CASE cold # {}
    <3>1. l \in cold /\ \A w \in cold : l <= w
      BY <1>2, <2>1, OrderIsById
    <3>2. \A w \in vs : l < w
      BY <3>1
    <3>3. l \in Int /\ \A w \in vs : w \in Int
      BY <1>1, <3>1
    <3> QED BY <3>1, <3>2, <3>3
  <2>2. CASE cold = {} /\ vs # {}
    BY <1>2, <2>2, OrderIsById
  <2> QED BY <2>1, <2>2
<1>4. cursor' = IF ~more \/ all = {} THEN Pages!End ELSE Pages!At(l)
  BY DEF Answer
<1> HIDE DEF l
<1>5. cursor' \in Pages!Cursors
  <2>1. Pages!End \in Pages!Cursors
    BY DEF Pages!Cursors
  <2>2. all # {} => Pages!At(l) \in Pages!Cursors
    BY <1>3, CursorFacts
  <2> QED BY <1>4, <2>1, <2>2
<1>6. cursor[1] \in 0..MaxVideos + 1
  BY CursorFacts DEF FeedInv, FeedTypeOK
<1>7. \/ (~more \/ all = {}) /\ cursor'[1] = 0
      \/ more /\ all # {} /\ cursor'[1] = l /\ l \in all
  <2>1. Pages!End[1] = 0
    BY CursorFacts
  <2>2. all # {} => Pages!At(l)[1] = l
    BY <1>3, CursorFacts
  <2> QED BY <1>3, <1>4, <2>1, <2>2
<1>8. (\A v \in all : v >= cursor'[1]) /\ cursor'[1] <= cursor[1]
  BY <1>1, <1>3, <1>6, <1>7, TimelineAssumption
<1>9. seen \subseteq Videos /\ (\A v \in seen : v >= cursor[1]) /\ ~again
  BY DEF FeedInv, FeedTypeOK, Between
<1>10. cursor'[1] \in Int /\ cursor[1] \in Int
  BY <1>1, <1>6, <1>7, TimelineAssumption
<1>11. \A v \in seen' : v >= cursor'[1]
  <2>1. seen' = seen \cup all
    BY DEF Answer
  <2> QED BY <1>1, <1>8, <1>9, <1>10, <2>1
<1>12. again' = FALSE
  <2>1. vs \cap cold = {}
    BY <1>1
  <2>2. seen \cap all = {}
    BY <1>1, <1>9, <1>10
  <2> QED BY <1>9, <2>1, <2>2 DEF Answer
<1>13. readPc' = "tail" /\ due' = Owed \ all
  BY DEF Answer, Owed
<1>14. \A v \in Owed' \cap db' : v < cursor'[1]
  <2> SUFFICES ASSUME NEW v \in Owed, v \notin all, v \in db
               PROVE  v < cursor'[1]
    BY <1>13 DEF Owed, vars, videos
  <2>1. more /\ all # {} /\ \A x \in all : v < x
    OBVIOUS
  <2> QED BY <1>7, <2>1
<1>15. Owed' \subseteq 1..published'
  BY <1>13 DEF Owed, FeedInv, Between, vars, videos
<1>16. Between'
  BY <1>11, <1>12, <1>13, <1>14, <1>15 DEF Between
<1>17. FeedTypeOK'
  <2>1. Owed \subseteq Videos
    BY DEF Owed, FeedInv, FeedTypeOK, TypeInv, TypeOK
  <2>2. upto' \in 0..MaxVideos + 1
    BY TimelineAssumption DEF Answer
  <2> QED BY <1>5, <1>9, <1>12, <1>13, <2>1, <2>2 DEF Answer, FeedTypeOK
<1>18. Within'
  BY <1>13 DEF Within
<1> QED BY <1>16, <1>17, <1>18 DEF FeedInv

LEMMA ListKeepsFeedInv ==
  ASSUME TypeInv, DeletedIsGone, FeedInv, UNCHANGED vars, listFromDB
  PROVE  FeedInv'
<1> DEFINE B == {v \in db : v < cursor[1]}
           V == Top(B, PageSize + 1)
           shown == Top(V, PageSize)
<1>1. cursor \in Pages!Cursors /\ PageSize \in Nat \ {0} /\ PageSize + 1 \in Nat /\ PageSize \in Nat
  BY PageSizeAssumption DEF FeedInv, FeedTypeOK
<1>2. B \in SUBSET Videos /\ B \in SUBSET (0..MaxVideos)
  <2>1. B \in SUBSET Videos
    BY DEF TypeInv, TypeOK
  <2> QED BY <2>1, VideosBounded
<1>3. V = Pages!ListLatest(db, cursor, PageSize + 1)
  BY <1>1, ListIsById
<1>4. Owed \cap db \subseteq B
  BY DEF FeedInv, Between
<1>5. \A v \in B : v < cursor[1]
  OBVIOUS
<1> HIDE DEF B
<1>6. V \in SUBSET B
  BY DEF Top
<1>7. shown = Pages!FirstN(ById(Videos), V, PageSize)
  <2>1. V \in SUBSET Videos /\ Videos \in SUBSET (0..MaxVideos)
    BY <1>2, <1>6, VideosBounded
  <2> HIDE DEF V
  <2> QED BY <1>1, <2>1, OrderIsById
<1>8. shown \in SUBSET V
  BY DEF Top
<1>9. Answer({}, shown, Cardinality(V) > PageSize)
  BY <1>3, <1>7 DEF listFromDB
<1>10. \A v \in B : v \in shown \/ (Cardinality(V) > PageSize /\ shown # {} /\ \A x \in shown : v < x)
  BY <1>1, <1>2, PageFacts
<1> HIDE DEF V, shown
<1>11. shown \in SUBSET Videos /\ \A v \in shown : v < cursor[1]
  BY <1>2, <1>5, <1>6, <1>8
<1>12. \A v \in Owed \cap db : v \in shown \/ (Cardinality(V) > PageSize /\ shown # {} /\ \A x \in shown : v < x)
  BY <1>4, <1>10
<1> DEFINE more == Cardinality(V) > PageSize
<1>13. more \in BOOLEAN
  OBVIOUS
<1> HIDE DEF more
<1>14. Answer({}, shown, more) /\ \A v \in Owed \cap db : v \in shown \/ (more /\ shown # {} /\ \A x \in shown : v < x)
  BY <1>9, <1>12 DEF more
<1>15. shown = {} \cup shown /\ \A v \in {}, w \in shown : w < v
  OBVIOUS
<1> QED BY <1>11, <1>13, <1>14, <1>15, AnswerStep

LEMMA WatermarkKeepsFeedInv ==
  ASSUME TypeInv, DeletedIsGone, FeedInv, UNCHANGED vars, Watermark
  PROVE  FeedInv'
<1>1. CASE listFromDB
  BY <1>1, ListKeepsFeedInv
<1>2. CASE /\ readPc' = "members" /\ upto' = ReqTime
           /\ due' = IF readPc = "new" THEN db ELSE due
           /\ UNCHANGED <<cursor, hot, hotMore, seen, again>>
  <2>1. published \in 0..MaxVideos /\ db \subseteq Videos
    BY DEF TypeInv, TypeOK
  <2>2. Owed' = Owed /\ due' = Owed
    BY <1>2 DEF Owed
  <2>3. cursor[1] \in 0..MaxVideos + 1 /\ Pages!Start[1] = MaxVideos + 1
    BY CursorFacts DEF FeedInv, FeedTypeOK
  <2>4. upto' \in 0..MaxVideos + 1 /\ upto' <= cursor[1]
    BY <1>2, <2>1, <2>3, TimelineAssumption DEF ReqTime
  <2>5. \A v \in Owed \cap db : v < upto'
    <3>1. CASE cursor = Pages!Start
      <4>1. upto' = published + 1 /\ Owed \subseteq 1..published
        BY <1>2, <3>1 DEF ReqTime, FeedInv, Between
      <4> QED BY <2>1, <4>1
    <3>2. CASE cursor # Pages!Start
      BY <1>2, <3>2 DEF ReqTime, FeedInv, Between
    <3> QED BY <3>1, <3>2
  <2>6. Between'
    BY <1>2, <2>2 DEF Between, FeedInv, vars, videos
  <2>7. FeedTypeOK'
    <3>1. Owed \subseteq Videos
      BY <2>1 DEF Owed, FeedInv, FeedTypeOK
    <3> QED BY <1>2, <2>2, <2>4, <3>1 DEF FeedInv, FeedTypeOK
  <2>8. Within'
    <3>1. cursor # Pages!Start => cursor # Pages!End /\ upto' = cursor[1]
      BY <1>2 DEF Watermark, ReqTime
    <3>2. cursor[1] >= upto'
      BY <2>3, <2>4
    <3> QED BY <1>2, <2>2, <2>5, <3>1, <3>2 DEF Within, vars, videos
  <2> QED BY <2>6, <2>7, <2>8 DEF FeedInv
<1> QED BY <1>1, <1>2 DEF Watermark

\* The members found are the next of the sorted set, without a gap.
LEMMA MembersFound ==
  ASSUME TypeInv, FeedInv, readPc = "members"
  PROVE  LET found == Pages!ZRevRangeByScore(Zset, <<upto, cursor[2]>>, PageSize + 1)
             ids == Pages!FirstN(Zset, found, PageSize)
         IN /\ ids \in SUBSET timeline
            /\ \A h \in ids : h < upto
            /\ \A h \in ids, v \in timeline : v < upto /\ v > h => v \in ids
            /\ Cardinality(found) > PageSize => ids \ {Placeholder} # {}
<1> DEFINE c == <<upto, cursor[2]>>
           upTo == {m \in timeline : m <= upto}
           fetched == Top(upTo, 2 * (PageSize + 1))
           below == {m \in fetched : m < upto}
           found == Top(below, PageSize + 1)
           ids == Top(found, PageSize)
<1>1. timeline \in SUBSET (0..MaxVideos) /\ upto \in Int /\ cursor \in Pages!Cursors
  <2>1. Placeholder \in 0..MaxVideos
    BY TimelineAssumption DEF Placeholder
  <2>2. upto \in Int
    BY TimelineAssumption DEF FeedInv, FeedTypeOK
  <2> QED BY <2>1, <2>2, VideosBounded DEF TypeInv, TypeOK, FeedInv, FeedTypeOK
<1>2. PageSize \in Nat /\ PageSize > 0 /\ PageSize + 1 \in Nat /\ 2 * (PageSize + 1) \in Nat
      /\ 2 * (PageSize + 1) > 0 /\ PageSize + 1 > 0
  BY PageSizeAssumption
<1>3. \A m \in timeline : m \in Int /\ m >= 0
  BY <1>1, TimelineAssumption
<1>4. \A m \in timeline : (m # upto /\ (cursor[2] > 0 => m < cursor[2]) /\ m <= upto) <=> m < upto
  <2>1. CASE cursor = Pages!Start
    <3>1. cursor[2] = 0
      BY <2>1, CursorFacts
    <3> QED BY <1>1, <1>3, <3>1
  <2>2. CASE cursor # Pages!Start
    <3>1. upto = cursor[1] /\ cursor[2] = cursor[1]
      BY <1>1, <2>2, CursorFacts DEF FeedInv, Within
    <3> QED BY <1>1, <1>3, <3>1
  <2> QED BY <2>1, <2>2
<1>5. DOMAIN Zset = timeline /\ (\A m \in timeline : Zset[m] = m) /\ Zset = ById(timeline)
  BY DEF Zset, ById
<1> SUFFICES
     /\ Pages!ZRevRangeByScore(Zset, c, PageSize + 1) = found
     /\ Pages!FirstN(Zset, found, PageSize) = ids
     /\ ids \in SUBSET timeline
     /\ \A h \in ids : h < upto
     /\ \A h \in ids, v \in timeline : v < upto /\ v > h => v \in ids
     /\ Cardinality(found) > PageSize => ids \ {Placeholder} # {}
  BY Zenon
<1>6. fetched \in SUBSET upTo /\ upTo \in SUBSET timeline
  BY DEF Top
<1>7. below \in SUBSET fetched /\ found \in SUBSET below /\ ids \in SUBSET found
  BY DEF Top
<1>8. found \in SUBSET timeline /\ below \in SUBSET timeline /\ ids \in SUBSET timeline
  BY <1>6, <1>7
<1>9. Pages!FirstN(Zset, upTo, 2 * (PageSize + 1)) = fetched
  BY <1>1, <1>2, <1>5, <1>6, OrderIsById
<1>10. Pages!FirstN(Zset, below, PageSize + 1) = found
  <2> DEFINE n == PageSize + 1
  <2>1. n \in Nat
    BY <1>2
  <2> HIDE DEF below, n
  <2>2. Pages!FirstN(ById(timeline), below, n) = Top(below, n)
    BY <1>1, <1>8, <2>1, OrderIsById
  <2> QED BY <1>5, <2>2 DEF n
<1>11. Pages!FirstN(Zset, found, PageSize) = ids
  <2> HIDE DEF found
  <2> QED BY <1>1, <1>2, <1>5, <1>8, OrderIsById
<1>12. Pages!ZRevRangeByScore(Zset, c, PageSize + 1) = found
  <2>1. {m \in DOMAIN Zset : Zset[m] <= c[1]} = upTo
    BY <1>5
  <2>2. {m \in fetched : Zset[m] # c[1] /\ (c[2] > 0 => m < c[2])} = below
    <3>1. \A m \in fetched : m \in timeline /\ m <= upto
      BY <1>6
    <3>2. \A m \in fetched : (Zset[m] # c[1] /\ (c[2] > 0 => m < c[2])) <=> m < upto
      BY <1>4, <1>5, <3>1
    <3> QED BY <3>2
  <2> HIDE DEF fetched, upTo, below, found
  <2> QED BY <1>9, <1>10, <2>1, <2>2 DEF Pages!ZRevRangeByScore
<1>13. \A w \in fetched, v \in upTo : v > w => v \in fetched
  <2>1. upTo \in SUBSET (0..MaxVideos)
    BY <1>1
  <2> HIDE DEF upTo
  <2> QED BY <1>2, <2>1, TopFacts
<1>15. below \in SUBSET (0..MaxVideos) /\ found \in SUBSET (0..MaxVideos)
  BY <1>1, <1>8
<1>16. /\ \A w \in found, v \in below : v > w => v \in found
       /\ below # {} => found # {}
  <2> HIDE DEF below
  <2> QED BY <1>2, <1>15, TopFacts
<1>17. /\ \A w \in ids, v \in found : v > w => v \in ids
       /\ found # {} => ids # {}
       /\ Cardinality(found) <= PageSize => ids = found
  <2> HIDE DEF found
  <2> QED BY <1>2, <1>15, TopFacts
<1>18. \A h \in ids : h < upto
  BY <1>7
<1>19. ASSUME NEW h \in ids, NEW v \in timeline, v < upto, v > h
       PROVE  v \in ids
  <2>1. v \in upTo /\ h \in fetched /\ h \in found
    BY <1>1, <1>3, <1>7, <1>19
  <2>2. v \in below
    BY <1>13, <1>19, <2>1
  <2> QED BY <1>16, <1>17, <1>19, <2>1, <2>2
<1>20. ASSUME Cardinality(found) > PageSize
       PROVE  ids \ {Placeholder} # {}
  <2>1. found # {}
    <3>1. Cardinality({}) = 0
      BY FS_EmptySet
    <3> QED BY <1>2, <1>20, <3>1
  <2>2. PICK h \in ids : TRUE
    BY <1>17, <2>1
  <2>3. CASE \A x \in ids : x = Placeholder
    <3>1. h = Placeholder
      BY <2>2, <2>3
    <3>2. ASSUME NEW x \in found PROVE x = Placeholder
      <4>1. x \in Int /\ x >= 0
        BY <1>3, <1>8
      <4>2. x > h => x \in ids
        BY <1>17, <2>2
      <4> QED BY <2>3, <3>1, <4>1, <4>2 DEF Placeholder
    <3>3. found = {Placeholder}
      BY <2>1, <3>2
    <3>4. Cardinality({Placeholder}) = 1
      BY FS_Singleton
    <3> QED BY <1>2, <1>20, <3>3, <3>4
  <2>4. CASE \E x \in ids : x # Placeholder
    BY <2>4
  <2> QED BY <2>3, <2>4
<1> QED BY <1>8, <1>11, <1>12, <1>18, <1>19, <1>20

LEMMA MembersKeepFeedInv ==
  ASSUME TypeInv, DeletedIsGone, FeedInv, UNCHANGED vars, HotMembers
  PROVE  FeedInv'
<1> DEFINE found == Pages!ZRevRangeByScore(Zset, <<upto, cursor[2]>>, PageSize + 1)
           ids == Pages!FirstN(Zset, found, PageSize)
           more == Cardinality(found) > PageSize
<1>1. /\ readPc = "members" /\ readPc' = "entities"
      /\ hot' = ids \ {Placeholder} /\ hotMore' = more
      /\ due' = {v \in due : Shown(v)}
      /\ UNCHANGED <<cursor, upto, seen, again>>
  BY DEF HotMembers
<1>2. /\ ids \in SUBSET timeline
      /\ \A h \in ids : h < upto
      /\ \A h \in ids, v \in timeline : v < upto /\ v > h => v \in ids
      /\ more => ids \ {Placeholder} # {}
  BY <1>1, MembersFound
<1>3. more \in BOOLEAN
  OBVIOUS
<1> HIDE DEF ids, more
<1>4. timeline \in SUBSET (Videos \cup {Placeholder}) /\ db \subseteq Videos /\ upto \in Int
  BY TimelineAssumption DEF TypeInv, TypeOK, FeedInv, FeedTypeOK
<1>5. \A v \in timeline : v \in Int
  BY <1>4, VideosBounded DEF Placeholder
<1>6. Owed = due /\ Owed' = due' /\ due' \subseteq due
  BY <1>1 DEF Owed
<1>7. Between'
  BY <1>1, <1>6 DEF Between, FeedInv, vars, videos
<1>8. FeedTypeOK'
  <2>1. hot' \subseteq Videos
    BY <1>1, <1>2, <1>4
  <2> QED BY <1>1, <1>3, <1>6, <2>1 DEF FeedInv, FeedTypeOK
<1>9. \A v \in due : v \in db => v < upto
  BY <1>1 DEF FeedInv, Within
<1>10. ASSUME NEW v \in due', v \in db
       PROVE  v \in hot' \/ \A h \in hot' : v < h
  <2>1. v < upto /\ v \in Videos /\ v # Placeholder /\ v \in Int
    BY <1>4, <1>6, <1>9, <1>10, VideosBounded DEF Placeholder
  <2>2. CASE v \in timeline
    <3>1. ASSUME NEW h \in ids, ~(v < h) PROVE v \in ids
      <4>1. h \in Int
        BY <1>2, <1>5
      <4> QED BY <1>2, <2>1, <2>2, <3>1, <4>1
    <3> QED BY <1>1, <2>1, <3>1
  <2>3. CASE timeline = {}
    BY <1>1, <1>2, <2>3
  <2>4. CASE \A w \in timeline : v < w
    BY <1>1, <1>2, <2>4
  <2> QED BY <1>1, <2>2, <2>3, <2>4 DEF Shown
<1>11. Within'
  <2>1. \A h \in hot' : h < upto
    BY <1>1, <1>2
  <2>2. hotMore' => hot' # {}
    BY <1>1, <1>2
  <2>3. db' = db
    BY DEF vars, videos
  <2>4. /\ cursor # Pages!Start => cursor # Pages!End /\ upto = cursor[1]
        /\ cursor[1] >= upto
    BY <1>1 DEF FeedInv, Within
  <2> QED BY <1>1, <1>6, <1>9, <1>10, <2>1, <2>2, <2>3, <2>4 DEF Within
<1> QED BY <1>7, <1>8, <1>11 DEF FeedInv

LEMMA HotBelowCursor ==
  ASSUME FeedInv, readPc = "entities"
  PROVE  \A h \in hot : h \in Videos /\ h < cursor[1]
<1>1. upto \in Int /\ cursor[1] \in Int /\ cursor[1] >= upto
  BY CursorFacts, TimelineAssumption DEF FeedInv, FeedTypeOK, Within
<1>2. \A h \in hot : h \in Videos /\ h \in Int /\ h < upto
  BY VideosBounded DEF FeedInv, FeedTypeOK, Within
<1> QED BY <1>1, <1>2

\* A page stitched from members and table.
LEMMA StitchKeepsFeedInv ==
  ASSUME TypeInv, DeletedIsGone, FeedInv, UNCHANGED vars, readPc = "entities",
         NEW vs \in SUBSET hot, Entities(vs), hot = {} \/ vs # {},
         Cardinality(vs) < PageSize, Stitch(vs)
  PROVE  FeedInv'
<1> DEFINE from == Pages!ColdFrom(ById(Videos), vs, cursor)
           n == PageSize - Cardinality(vs)
           B == {v \in db : v < from[1]}
           V == Top(B, n + 1)
           shown == Top(V, n)
           more == Cardinality(V) >= n
<1>1. vs \in SUBSET Videos /\ cursor \in Pages!Cursors /\ cursor[1] \in Int
  BY CursorFacts, TimelineAssumption DEF FeedInv, FeedTypeOK
<1>0. \A v \in vs : v < cursor[1]
  BY HotBelowCursor
<1>2. n \in Nat \ {0} /\ n + 1 \in Nat /\ n \in Nat
  <2>1. Cardinality(vs) \in Nat
    BY <1>1, VideosBounded, SomeFinite, FS_CardinalityType
  <2> QED BY <2>1, PageSizeAssumption
<1>3. /\ from \in Pages!Cursors
      /\ from[1] \in Int /\ from[1] <= cursor[1]
      /\ \A v \in vs : from[1] <= v
      /\ \A v \in Videos : (vs = {} /\ v < cursor[1]) \/ (vs # {} /\ \A w \in vs : v < w) => v < from[1]
  <2>1. CASE vs = {}
    BY <1>1, <2>1 DEF Pages!ColdFrom
  <2>2. CASE vs # {}
    <3> DEFINE l == Pages!LastOf(ById(Videos), vs)
    <3>1. l \in vs /\ \A w \in vs : l <= w
      BY <1>1, <2>2, VideosBounded, OrderIsById
    <3>2. from = Pages!At(l)
      BY <2>2 DEF Pages!ColdFrom
    <3> HIDE DEF l, from
    <3>3. from = <<l, l>> /\ from \in Pages!Cursors /\ l \in Int
      BY <1>1, <3>1, <3>2, CursorFacts, VideosBounded
    <3>4. l < cursor[1]
      BY <1>0, <3>1
    <3>5. \A v \in Videos : v \in Int
      BY VideosBounded
    <3> QED BY <1>1, <2>2, <3>1, <3>3, <3>4, <3>5
  <2> QED BY <2>1, <2>2
<1> HIDE DEF from, n
<1>4. B \in SUBSET Videos /\ B \in SUBSET (0..MaxVideos)
  <2>1. B \in SUBSET Videos
    BY DEF TypeInv, TypeOK
  <2> QED BY <2>1, VideosBounded
<1>5. \A v \in db : v < from[1] => v \in B
  OBVIOUS
<1>6. \A v \in B : v < from[1]
  OBVIOUS
<1>7. V = Pages!ListLatest(db, from, n + 1)
  BY <1>2, <1>3, ListIsById
<1> HIDE DEF B
<1>8. V \in SUBSET B /\ shown \in SUBSET V
  BY DEF Top
<1>9. shown = Pages!FirstN(ById(Videos), V, n)
  <2>1. V \in SUBSET Videos /\ Videos \in SUBSET (0..MaxVideos)
    BY <1>4, <1>8, VideosBounded
  <2> HIDE DEF V
  <2> QED BY <1>2, <2>1, OrderIsById
<1>10. Answer(vs, shown, more)
  BY <1>7, <1>9 DEF Stitch, from, n
<1>11. \A v \in B : v \in shown \/ (Cardinality(V) > n /\ shown # {} /\ \A x \in shown : v < x)
  BY <1>2, <1>4, PageFacts
<1>12. Cardinality(V) > n => more
  <2>1. Cardinality(V) \in Nat
    BY <1>2, <1>4, TopFacts
  <2> HIDE DEF V
  <2> QED BY <1>2, <2>1
<1>13. more \in BOOLEAN
  OBVIOUS
<1> HIDE DEF V, shown, more
<1>14. shown \in SUBSET Videos /\ \A v \in shown : v < from[1] /\ v \in Int
  BY <1>4, <1>6, <1>8, VideosBounded
<1> DEFINE all == vs \cup shown
<1>15. \A v \in vs, w \in shown : w < v
  BY <1>1, <1>3, <1>14, VideosBounded
<1>16. \A v \in all : v < cursor[1]
  BY <1>0, <1>1, <1>3, <1>14
<1>17. \A v \in Owed \cap db : v \in all \/ (more /\ all # {} /\ \A x \in all : v < x)
  <2> SUFFICES ASSUME NEW v \in due, v \in db, v \notin all
               PROVE  more /\ all # {} /\ \A x \in all : v < x
    BY DEF Owed
  <2>1. v \notin vs /\ v \notin shown
    OBVIOUS
  <2>2. \A h \in hot : v < h
    BY <2>1 DEF FeedInv, Within, Entities
  <2>3. v \in Videos /\ v < cursor[1]
    BY DEF FeedInv, FeedTypeOK, Between, Owed
  <2>4. v \in B
    BY <1>3, <1>5, <2>2, <2>3
  <2>5. Cardinality(V) > n /\ shown # {} /\ \A x \in shown : v < x
    BY <1>11, <2>1, <2>4
  <2> QED BY <1>12, <2>2, <2>5
<1>18. all = vs \cup shown
  OBVIOUS
<1> HIDE DEF all
<1> QED BY <1>1, <1>10, <1>13, <1>14, <1>15, <1>16, <1>17, <1>18, AnswerStep

\* A page that the members fill.
LEMMA HotAnswerKeepsFeedInv ==
  ASSUME TypeInv, DeletedIsGone, FeedInv, UNCHANGED vars, readPc = "entities",
         NEW vs \in SUBSET hot, Entities(vs), hot = {} \/ vs # {},
         hotMore \/ Cardinality(vs) = PageSize, Answer(vs, {}, TRUE)
  PROVE  FeedInv'
<1>1. vs # {}
  <2>1. Cardinality({}) = 0
    BY FS_EmptySet
  <2>2. hotMore => hot # {}
    BY DEF FeedInv, Within
  <2> QED BY <2>1, <2>2, PageSizeAssumption
<1>2. \A v \in vs : v \in Videos /\ v < cursor[1]
  BY HotBelowCursor
<1> DEFINE none == {}
           more == TRUE
<1>3. \A v \in Owed \cap db : v \in vs \/ (more /\ vs # {} /\ \A x \in vs : v < x)
  <2> SUFFICES ASSUME NEW v \in due, v \in db, v \notin vs
               PROVE  \A x \in vs : v < x
    BY <1>1 DEF Owed
  <2> QED BY DEF FeedInv, Within, Entities
<1>4. vs = vs \cup none /\ none \in SUBSET Videos /\ more \in BOOLEAN /\ \A v \in vs, w \in none : w < v
  OBVIOUS
<1>5. Answer(vs, none, more) /\ vs \in SUBSET Videos
  BY <1>2
<1> HIDE DEF none, more
<1> QED BY <1>2, <1>3, <1>4, <1>5, AnswerStep

LEMMA ReadPageKeepsFeedInv ==
  ASSUME TypeInv, DeletedIsGone, FeedInv, UNCHANGED vars, ReadPage
  PROVE  FeedInv'
<1>1. CASE PageFails
  <2>1. Owed' = Owed
    BY <1>1 DEF PageFails, Owed
  <2>2. Between'
    BY <1>1, <2>1 DEF PageFails, Between, FeedInv, vars, videos
  <2>3. FeedTypeOK' /\ Within'
    <3>1. 0 \in 0..MaxVideos + 1
      BY TimelineAssumption
    <3> QED BY <1>1, <3>1 DEF PageFails, FeedInv, FeedTypeOK, Within
  <2> QED BY <2>2, <2>3 DEF FeedInv
<1>2. ASSUME NEW vs \in SUBSET hot, GetByIDs(vs) PROVE FeedInv'
  BY <1>2, ListKeepsFeedInv, StitchKeepsFeedInv, HotAnswerKeepsFeedInv DEF GetByIDs
<1> QED
  BY <1>1, <1>2, WatermarkKeepsFeedInv, MembersKeepFeedInv, ListKeepsFeedInv
     DEF ReadPage, HotMembersFail

\* Whatever the others do between the calls of a page and between the pages, for any limit of
\* the timeline, any page size and any number of videos: no video is shown twice, and one that
\* is stored from the first page on and never missing between set and table is shown.
THEOREM PagesSkipNothing == FeedSpec => []NothingSkipped
<1>1. FeedInit => IInv /\ FeedInv
  BY IInvInit, FeedInvInit DEF FeedInit
<1>2. IInv /\ FeedInv /\ [FeedNext]_feedVars => (IInv /\ FeedInv)'
  <2> SUFFICES ASSUME IInv, FeedInv, [FeedNext]_feedVars
               PROVE  IInv' /\ FeedInv'
    OBVIOUS
  <2>1. TypeInv /\ DeletedIsGone
    BY DEF IInv
  <2>2. CASE [Next]_vars /\ UNCHANGED reading
    BY <2>1, <2>2, IInvStep, OthersKeepFeedInv
  <2>3. CASE ReadPage /\ UNCHANGED vars
    BY <2>1, <2>3, IInvStep, ReadPageKeepsFeedInv
  <2> QED BY <2>2, <2>3 DEF FeedNext, feedVars
<1>3. IInv /\ FeedInv => NothingSkipped
  <2> SUFFICES ASSUME IInv, FeedInv PROVE NothingSkipped
    OBVIOUS
  <2>1. due \subseteq Videos /\ cursor \in Pages!Cursors /\ ~again
    BY DEF FeedInv, FeedTypeOK, Between
  <2>2. \A v \in due \cap db : v < cursor[1]
    BY DEF FeedInv, Between, Owed
  <2> QED BY <2>1, <2>2, CursorFacts DEF NothingSkipped
<1> QED BY <1>1, <1>2, <1>3, PTL DEF FeedSpec
=============================================================================
