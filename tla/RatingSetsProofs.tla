-------------------------- MODULE RatingSetsProofs --------------------------
(***************************************************************************)
(* Proofs about RatingSets, for any number of videos, requests, readers    *)
(* and faults: types, the sets against the table, and what a reader is     *)
(* told.                                                                   *)
(***************************************************************************)
EXTENDS RatingSets, SequenceTheorems, TLAPS

\* A request at work has its rating, and a reader that asks has its video.
WriterOK ==
  /\ rows \in [Videos -> Statuses] /\ queue \in Seq(Event)
  /\ setPc \in [Setters -> {"idle", "cacheAdd", "cacheRem", "publish"}]
  /\ ev \in [Setters -> Event \cup {NoEvent}]
  /\ \A s \in Setters : IF setPc[s] = "idle" THEN ev[s] = NoEvent ELSE ev[s] \in Event
  /\ sets \in 0..MaxSets
  /\ wish \in [Videos -> Statuses]
SetsOK == set \in Lists /\ mortal \subseteq Keys /\ bare \subseteq Keys
AtVideo == {"exists", "existsOther", "member", "memberOther"}
ReaderOK ==
  /\ readPc \in [Readers -> Reading \cup {"idle"}]
  /\ about \in [Readers -> Members]
  /\ \A r \in Readers : /\ readPc[r] = "idle" => about[r] = NoVideo
                        /\ readPc[r] \in AtVideo => about[r] \in Videos
  /\ missing \in [Readers -> BOOLEAN] /\ found \in [Readers -> Lists] /\ isLiked \in [Readers -> BOOLEAN]
AnswersOK ==
  /\ saw \in [Readers -> SUBSET Statuses] /\ answer \in [Readers -> Statuses \cup {Unknown}]
  /\ shaken \subseteq Readers
MarksOK == faults \in 0..MaxFaults /\ muddled \subseteq Videos
TypeInv == WriterOK /\ SetsOK /\ ReaderOK /\ AnswersOK /\ MarksOK

LEMMA TypeInvTypes == TypeInv => TypeOK
  BY DEF TypeInv, TypeOK, WriterOK, SetsOK, ReaderOK, AnswersOK, MarksOK

LEMMA RestOK ==
  ASSUME TypeInv
  PROVE  /\ UNCHANGED <<rows, queue, setter, sets, wish>> => WriterOK'
         /\ UNCHANGED <<set, mortal, bare>> => SetsOK'
         /\ UNCHANGED reader => ReaderOK'
         /\ UNCHANGED <<saw, answer, shaken>> => AnswersOK'
         /\ UNCHANGED <<faults, muddled>> => MarksOK'
  BY DEF TypeInv, WriterOK, SetsOK, ReaderOK, AnswersOK, MarksOK, setter, reader

LEMMA FaultType == ASSUME TypeInv, Fault, muddled' \subseteq Videos PROVE MarksOK'
  BY RatingSetsAssumption DEF TypeInv, MarksOK, Fault

LEMMA EventType ==
  ASSUME TypeInv, NEW s \in Setters, setPc[s] # "idle"
  PROVE  ev[s] \in Event /\ ev[s].v \in Videos /\ ev[s].s \in Statuses /\ (ev[s].s # None => ev[s].s \in Keys)
  BY DEF TypeInv, WriterOK, Event, Statuses, Keys

LEMMA SetsTypes ==
  ASSUME TypeInv, NEW k \in Keys
  PROVE  /\ \A members \in SUBSET Members, made \in BOOLEAN :
              SAdd(k, members, made) => SetsOK' /\ shaken' \subseteq Readers
         /\ \A v \in Videos : SRem(k, v) => SetsOK' /\ shaken' \subseteq Readers
<1>1. ASSUME NEW members \in SUBSET Members, NEW made \in BOOLEAN, SAdd(k, members, made)
      PROVE  SetsOK' /\ shaken' \subseteq Readers
  BY <1>1 DEF SAdd, TypeInv, SetsOK, Lists, AnswersOK
<1>2. ASSUME NEW v \in Videos, SRem(k, v)
      PROVE  SetsOK' /\ shaken' \subseteq Readers
  BY <1>2 DEF SRem, TypeInv, SetsOK, Lists, AnswersOK, Asking
<1> QED BY <1>1, <1>2

LEMMA GotoType ==
  ASSUME TypeInv, NEW s \in Setters, setPc[s] # "idle",
         \/ \E label \in {"cacheRem", "publish"} : Goto(s, label) /\ ev' = ev
         \/ Done(s),
         rows' \in [Videos -> Statuses], queue' \in Seq(Event), sets' = sets, wish' \in [Videos -> Statuses]
  PROVE  WriterOK'
  BY DEF Goto, Done, TypeInv, WriterOK

LEMMA SetterTypes ==
  ASSUME TypeInv, NEW s \in Setters, SetUserRating(s)
  PROVE  TypeInv'
<1>1. ASSUME NEW v \in Videos, NEW stat \in Statuses, Begin(s, v, stat)
      PROVE  TypeInv'
  <2>1. [v |-> v, s |-> stat] \in Event
    BY DEF Event
  <2>2. sets' \in 0..MaxSets
    BY <1>1, RatingSetsAssumption DEF Begin, TypeInv, WriterOK
  <2>3. WriterOK'
    BY <1>1, <2>1, <2>2 DEF Begin, Goto, TypeInv, WriterOK
  <2>4. AnswersOK'
    BY <1>1 DEF Begin, TypeInv, AnswersOK
  <2>5. MarksOK'
    BY <1>1 DEF Begin, TypeInv, MarksOK
  <2> QED BY <1>1, <2>3, <2>4, <2>5, RestOK DEF Begin, TypeInv
<1>2. CASE CacheAdd(s)
  <2>1. setPc[s] # "idle" /\ ev[s].v \in Videos /\ (ev[s].s # None => ev[s].s \in Keys)
    BY <1>2, EventType DEF CacheAdd
  <2>2. WriterOK'
    BY <1>2, <2>1, GotoType DEF CacheAdd, TypeInv, WriterOK
  <2>3. SetsOK' /\ shaken' \subseteq Readers
    <3>1. {ev[s].v} \in SUBSET Members /\ Dislike \in Keys
      BY <2>1 DEF Members, Keys
    <3> QED BY <1>2, <2>1, <3>1, SetsTypes DEF CacheAdd
  <2>4. AnswersOK'
    BY <1>2, <2>3 DEF CacheAdd, TypeInv, AnswersOK
  <2> QED BY <1>2, <2>2, <2>3, <2>4, RestOK DEF CacheAdd, TypeInv
<1>3. CASE CacheRem(s)
  <2>1. setPc[s] # "idle" /\ ev[s].v \in Videos /\ ev[s].s \in Statuses
    BY <1>3, EventType DEF CacheRem
  <2>2. wish' \in [Videos -> Statuses]
    BY <1>3, <2>1 DEF CacheRem, TypeInv, WriterOK
  <2>3. WriterOK'
    BY <1>3, <2>1, <2>2, GotoType DEF CacheRem, TypeInv, WriterOK
  <2>4. SetsOK' /\ shaken' \subseteq Readers
    <3>1. (IF ev[s].s = Like THEN Dislike ELSE Like) \in Keys
      BY DEF Keys
    <3> QED BY <1>3, <2>1, <3>1, SetsTypes DEF CacheRem
  <2>5. AnswersOK'
    BY <1>3, <2>4 DEF CacheRem, TypeInv, AnswersOK
  <2> QED BY <1>3, <2>3, <2>4, <2>5, RestOK DEF CacheRem, TypeInv
<1>4. CASE CacheFails(s)
  <2>1. setPc[s] # "idle" /\ ev[s].v \in Videos
    BY <1>4, EventType DEF CacheFails
  <2>2. WriterOK'
    BY <1>4, <2>1, GotoType DEF CacheFails, TypeInv, WriterOK
  <2>3. MarksOK'
    BY <1>4, <2>1, FaultType DEF CacheFails, TypeInv, MarksOK
  <2> QED BY <1>4, <2>2, <2>3, RestOK DEF CacheFails, TypeInv
<1>5. CASE Publish(s)
  <2>1. setPc[s] # "idle" /\ ev[s] \in Event
    BY <1>5, EventType DEF Publish
  <2>2. queue' \in Seq(Event)
    BY <1>5, <2>1 DEF Publish, TypeInv, WriterOK
  <2>3. WriterOK'
    BY <1>5, <2>1, <2>2, GotoType DEF Publish, observers, TypeInv, WriterOK
  <2> QED BY <1>5, <2>3, RestOK DEF Publish, observers, TypeInv
<1>6. CASE WriteDirectly(s)
  <2>1. setPc[s] # "idle" /\ ev[s].v \in Videos /\ ev[s].s \in Statuses
    BY <1>6, EventType DEF WriteDirectly
  <2>2. rows' \in [Videos -> Statuses]
    BY <1>6, <2>1 DEF WriteDirectly, TypeInv, WriterOK
  <2>3. WriterOK'
    BY <1>6, <2>1, <2>2, GotoType DEF WriteDirectly, TypeInv, WriterOK
  <2>4. MarksOK'
    BY <1>6, <2>1, FaultType DEF WriteDirectly, TypeInv, MarksOK
  <2> QED BY <1>6, <2>3, <2>4, RestOK DEF WriteDirectly, TypeInv
<1> QED BY <1>1, <1>2, <1>3, <1>4, <1>5, <1>6 DEF SetUserRating

LEMMA ReaderTypes ==
  ASSUME TypeInv, NEW r \in Readers, GetRatingCache(r)
  PROVE  TypeInv'
<1> USE DEF Still
<1>p. Reading = {"exists", "existsOther", "rows", "expire", "expireOther", "member", "memberOther", "fill", "fillOther"}
  BY DEF Reading, Warming
<1>m. Members = Videos \cup {NoVideo} /\ NoVideo \notin Videos
  BY RatingSetsAssumption DEF Members
<1>l. NoLists \in Lists
  BY DEF NoLists, Lists
<1>1. ASSUME NEW v \in Videos, GetUserRating(r, v)
      PROVE  TypeInv'
  <2>1. ReaderOK'
    BY <1>1, <1>p, <1>m DEF GetUserRating, At, TypeInv, ReaderOK, AtVideo
  <2>2. {wish[v]} \cup {ev[s].s : s \in Setting(v)} \in SUBSET Statuses
    <3>1. \A s \in Setters : ev[s].v = v => ev[s].s \in Statuses
      BY <1>m, EventType DEF TypeInv, WriterOK, NoEvent
    <3> QED BY <3>1 DEF Setting, TypeInv, WriterOK
  <2>3. AnswersOK'
    BY <1>1, <2>2 DEF GetUserRating, Told, TypeInv, AnswersOK
  <2> QED BY <1>1, <2>1, <2>3, RestOK DEF GetUserRating, TypeInv
<1>2. CASE Login(r)
  <2>1. ReaderOK'
    BY <1>2, <1>p, <1>m DEF Login, At, TypeInv, ReaderOK, AtVideo
  <2>2. AnswersOK'
    BY <1>2 DEF Login, Told, TypeInv, AnswersOK
  <2> QED BY <1>2, <2>1, <2>2, RestOK DEF Login, TypeInv
<1>3. CASE ExistsLiked(r)
  <2>1. ReaderOK'
    BY <1>3, <1>p, <1>m DEF ExistsLiked, At, TypeInv, ReaderOK, AtVideo
  <2> QED BY <1>3, <2>1, RestOK DEF ExistsLiked, TypeInv, observers
<1>4. CASE ExistsDisliked(r)
  <2>1. ReaderOK'
    BY <1>4, <1>p, <1>m DEF ExistsDisliked, At, TypeInv, ReaderOK, AtVideo
  <2> QED BY <1>4, <2>1, RestOK DEF ExistsDisliked, TypeInv, observers
<1>5. CASE ReadRows(r)
  <2>1. [k \in Keys |-> IF Rated(k) = {} THEN {NoVideo} ELSE Rated(k)] \in Lists
    BY DEF Lists, Rated, Members
  <2>2. ReaderOK'
    BY <1>5, <1>p, <2>1 DEF ReadRows, At, TypeInv, ReaderOK, AtVideo
  <2>3. MarksOK'
    BY <1>5 DEF ReadRows, TypeInv, MarksOK
  <2> QED BY <1>5, <2>2, <2>3, RestOK DEF ReadRows, TypeInv
<1>6. CASE Fill(r)
  <2>1. found[r] \in Lists
    BY DEF TypeInv, ReaderOK
  <2>2. SetsOK' /\ shaken' \subseteq Readers
    <3>1. Like \in Keys /\ Dislike \in Keys
      BY DEF Keys
    <3>2. found[r][Like] \in SUBSET Members /\ found[r][Dislike] \in SUBSET Members
      BY <2>1, <3>1 DEF Lists
    <3> QED BY <1>6, <3>1, <3>2, SetsTypes DEF Fill
  <2>3. AnswersOK'
    BY <1>6, <2>2 DEF Fill, TypeInv, AnswersOK
  <2>4. found' \in [Readers -> Lists]
    BY <1>6, <2>1 DEF Fill, TypeInv, ReaderOK, Lists
  <2>5. ReaderOK'
    BY <1>6, <1>p, <2>4 DEF Fill, At, TypeInv, ReaderOK, AtVideo
  <2> QED BY <1>6, <2>2, <2>3, <2>5, RestOK DEF Fill, TypeInv
<1>7. CASE Expire(r)
  <2>1. ReaderOK'
    BY <1>7, <1>p, <1>m DEF Expire, Warmed, At, TypeInv, ReaderOK, AtVideo
  <2>2. SetsOK'
    BY <1>7 DEF Expire, TypeInv, SetsOK, Keys
  <2>3. AnswersOK'
    BY <1>7 DEF Expire, Calm, TypeInv, AnswersOK
  <2> QED BY <1>7, <2>1, <2>2, <2>3, RestOK DEF Expire, TypeInv
<1>8. CASE IsLiked(r)
  <2>1. ReaderOK'
    BY <1>8, <1>p, <1>m DEF IsLiked, At, TypeInv, ReaderOK, AtVideo
  <2>2. AnswersOK'
    BY <1>8 DEF IsLiked, TypeInv, AnswersOK
  <2> QED BY <1>8, <2>1, <2>2, RestOK DEF IsLiked, TypeInv
<1>9. CASE IsDisliked(r)
  <2>1. ReaderOK'
    BY <1>9, <1>p, <1>m, <1>l DEF IsDisliked, Leave, At, TypeInv, ReaderOK, AtVideo
  <2>2. AnswersOK'
    BY <1>9 DEF IsDisliked, Leave, Told, TypeInv, AnswersOK, Statuses
  <2> QED BY <1>9, <2>1, <2>2, RestOK DEF IsDisliked, TypeInv
<1>10. CASE ReadFails(r)
  <2>1. found' \in [Readers -> Lists]
    <3>1. \A k \in Keys : [found EXCEPT ![r][k] = {}] \in [Readers -> Lists]
      BY DEF TypeInv, ReaderOK, Lists
    <3>2. [found EXCEPT ![r] = NoLists] \in [Readers -> Lists] /\ found \in [Readers -> Lists]
      BY <1>l DEF TypeInv, ReaderOK
    <3>3. (IF readPc[r] = "fill" THEN Like ELSE Dislike) \in Keys
      BY DEF Keys
    <3> QED BY <1>10, <3>1, <3>2, <3>3 DEF ReadFails, Leave
  <2>2. ReaderOK'
    BY <1>10, <1>p, <1>m, <2>1 DEF ReadFails, Leave, Warmed, At, Warming, TypeInv, ReaderOK, AtVideo
  <2>3. AnswersOK'
    BY <1>10 DEF ReadFails, Leave, Calm, TypeInv, AnswersOK
  <2>4. MarksOK'
    BY <1>10, FaultType DEF ReadFails, TypeInv, MarksOK
  <2> QED BY <1>10, <2>2, <2>3, <2>4, RestOK DEF ReadFails, TypeInv
<1> QED BY <1>1, <1>2, <1>3, <1>4, <1>5, <1>6, <1>7, <1>8, <1>9, <1>10 DEF GetRatingCache

LEMMA NextTypes == TypeInv /\ [Next]_vars => TypeInv'
<1> SUFFICES ASSUME TypeInv, [Next]_vars
             PROVE  TypeInv'
  OBVIOUS
<1>h. queue # <<>> => Head(queue) \in Event /\ Head(queue).v \in Videos /\ Head(queue).s \in Statuses
                      /\ Tail(queue) \in Seq(Event)
  <2>1. queue \in Seq(Event)
    BY DEF TypeInv, WriterOK
  <2>2. queue # <<>> => Head(queue) \in Event /\ Tail(queue) \in Seq(Event)
    BY <2>1
  <2> QED BY <2>2 DEF Event
<1>1. CASE RatingHandler
  <2>1. WriterOK'
    BY <1>1, <1>h DEF RatingHandler, setter, observers, TypeInv, WriterOK
  <2> QED BY <1>1, <2>1, RestOK DEF RatingHandler, observers, TypeInv
<1>2. CASE HandlerFails
  <2>1. WriterOK'
    BY <1>2, <1>h DEF HandlerFails, setter, TypeInv, WriterOK
  <2>2. MarksOK'
    BY <1>2, <1>h, FaultType DEF HandlerFails, TypeInv, MarksOK
  <2> QED BY <1>2, <2>1, <2>2, RestOK DEF HandlerFails, TypeInv
<1>3. ASSUME NEW k \in Keys, SetEnds(k)
      PROVE  TypeInv'
  <2>1. SetsOK'
    BY <1>3 DEF SetEnds, TypeInv, SetsOK, Lists
  <2>2. AnswersOK'
    BY <1>3 DEF SetEnds, Asking, TypeInv, AnswersOK
  <2> QED BY <1>3, <2>1, <2>2, RestOK DEF SetEnds, TypeInv
<1>4. CASE Crash
  <2>1. WriterOK'
    BY <1>4 DEF Crash, TypeInv, WriterOK
  <2>2. NoLists \in Lists
    BY DEF NoLists, Lists
  <2>3. ReaderOK'
    BY <1>4, <2>2 DEF Crash, TypeInv, ReaderOK, AtVideo, Members
  <2>4. AnswersOK'
    BY <1>4 DEF Crash, TypeInv, AnswersOK
  <2>5. MarksOK'
    BY <1>4, FaultType DEF Crash, TypeInv, MarksOK
  <2> QED BY <1>4, <2>1, <2>3, <2>4, <2>5, RestOK DEF Crash, TypeInv
<1>5. CASE UNCHANGED vars
  BY <1>5, RestOK DEF vars, observers, TypeInv
<1> QED BY <1>1, <1>2, <1>3, <1>4, <1>5, SetterTypes, ReaderTypes DEF Next

LEMMA InitTypes == Init => TypeInv
<1>1. NoLists \in Lists
  BY DEF NoLists, Lists
<1> QED BY <1>1, RatingSetsAssumption DEF Init, TypeInv, WriterOK, SetsOK, ReaderOK, AnswersOK, MarksOK, AtVideo,
                                          Members, Unknown

LEMMA TypeInvariant == Spec => []TypeInv
  BY InitTypes, NextTypes, PTL DEF Spec

\* Every variable of the rating sets keeps its type: UpdateRatingCache and the warm-up
\* put nothing but videos and the member 0 into the two sets.
THEOREM TypeCorrect == Spec => []TypeOK
  BY TypeInvTypes, TypeInvariant, PTL

----------------------------------------------------------------------------
(* Requests, queue and table *)

\* Of an undisturbed video one request at most is under way; the last rating it sent
\* is the one the table gets; and a warm-up that has read the table holds the rating.
Lone(v) == \A s, t \in Setting(v) : s = t
Sent(v) == \A s \in Setting(v) : setPc[s] = "publish" => wish[v] = ev[s].s
LastSays(v) ==
  \/ rows[v] = wish[v] /\ \A i \in DOMAIN queue : queue[i].v # v
  \/ \E i \in DOMAIN queue : /\ queue[i].v = v /\ queue[i].s = wish[v]
                             /\ \A j \in DOMAIN queue : j > i => queue[j].v # v
TableFollows(v) == (\A s \in Setting(v) : setPc[s] # "publish") => LastSays(v)
WarmUpHolds(v) ==
  \A r \in Readers : readPc[r] \in Warming =>
    /\ Setting(v) = {}
    /\ readPc[r] = "fill" => (v \in found[r][Like] <=> wish[v] = Like)
    /\ v \in found[r][Dislike] <=> wish[v] = Dislike
Tracked(v) == Lone(v) /\ Sent(v) /\ TableFollows(v) /\ WarmUpHolds(v)
WriteInv == \A v \in Videos \ muddled : Tracked(v)

\* A request is under way for the video of its event.
LEMMA SettingPc == ASSUME TypeInv, NEW v \in Videos, NEW s \in Setting(v) PROVE s \in Setters /\ setPc[s] # "idle"
  BY RatingSetsAssumption DEF Setting, TypeInv, WriterOK, NoEvent

\* A step of a request that is not for v.
LEMMA OthersTracked ==
  ASSUME TypeInv, NEW v \in Videos, Tracked(v), Setting(v)' = Setting(v),
         \A s \in Setting(v) : setPc'[s] = setPc[s] /\ ev'[s] = ev[s],
         wish'[v] = wish[v], LastSays(v) => LastSays(v)',
         \A r \in Readers : readPc'[r] \in Warming =>
           readPc'[r] = readPc[r] /\ found'[r] = found[r]
  PROVE  Tracked(v)'
  BY DEF Tracked, Lone, Sent, TableFollows, WarmUpHolds, Setting

LEMMA SetterTracked ==
  ASSUME TypeInv, NEW v \in Videos, v \notin muddled', Tracked(v), NEW s \in Setters, SetUserRating(s)
  PROVE  Tracked(v)'
<1>0. UNCHANGED <<readPc, found>> /\ v \notin muddled
  BY DEF SetUserRating, Begin, CacheAdd, CacheRem, CacheFails, Publish, WriteDirectly, reader, observers
<1>t. ev \in [Setters -> Event \cup {NoEvent}] /\ DOMAIN setPc = Setters /\ queue \in Seq(Event) /\ DOMAIN wish = Videos
      /\ DOMAIN rows = Videos
  BY DEF TypeInv, WriterOK
<1>1. ASSUME NEW w \in Videos, NEW stat \in Statuses, Begin(s, w, stat)
      PROVE  Tracked(v)'
  <2>1. /\ ev'[s] = [v |-> w, s |-> stat] /\ setPc'[s] = "cacheAdd"
        /\ \A t \in Setters \ {s} : ev'[t] = ev[t] /\ setPc'[t] = setPc[t]
        /\ UNCHANGED <<rows, queue, wish>>
    BY <1>1, <1>t DEF Begin, Goto
  <2>2. ev[s].v # v
    BY <1>1, RatingSetsAssumption DEF Begin, TypeInv, WriterOK, NoEvent
  <2>3. CASE w # v
    <3>1. Setting(v)' = Setting(v) /\ s \notin Setting(v)
      BY <2>1, <2>2, <2>3 DEF Setting
    <3> QED BY <1>0, <2>1, <3>1, OthersTracked DEF LastSays, Setting
  <2>4. CASE w = v
    <3>1. Setting(v) = {} /\ \A r \in Readers : readPc[r] \notin Warming
      BY <1>1, <2>4 DEF Begin
    <3>2. Setting(v)' = {s}
      BY <2>1, <2>4, <3>1 DEF Setting
    <3>3. LastSays(v)'
      BY <2>1, <3>1 DEF Tracked, TableFollows, LastSays
    <3> QED BY <1>0, <2>1, <3>1, <3>2, <3>3 DEF Tracked, Lone, Sent, TableFollows, WarmUpHolds
  <2> QED BY <2>3, <2>4
<1>2. CASE CacheAdd(s) \/ CacheRem(s)
  <2>0. /\ UNCHANGED <<ev, rows, queue>> /\ \A t \in Setters \ {s} : setPc'[t] = setPc[t]
        /\ setPc'[s] = (IF CacheAdd(s) THEN "cacheRem" ELSE "publish")
        /\ wish' = (IF CacheAdd(s) THEN wish ELSE [wish EXCEPT ![ev[s].v] = ev[s].s])
        /\ setPc[s] = (IF CacheAdd(s) THEN "cacheAdd" ELSE "cacheRem")
    BY <1>2, <1>t DEF CacheAdd, CacheRem, Goto
  <2>1. Setting(v)' = Setting(v)
    BY <2>0 DEF Setting
  <2>2. CASE ev[s].v # v
    <3>1. s \notin Setting(v) /\ wish'[v] = wish[v] /\ (LastSays(v) => LastSays(v)')
      BY <1>t, <2>0, <2>2 DEF Setting, LastSays
    <3> QED BY <1>0, <2>0, <2>1, <3>1, OthersTracked DEF Setting
  <2>3. CASE ev[s].v = v
    <3>1. Setting(v) = {s}
      BY <2>3 DEF Tracked, Lone, Setting
    <3>2. \A r \in Readers : readPc[r] \notin Warming
      BY <3>1 DEF Tracked, WarmUpHolds
    <3>3. setPc[s] # "publish" /\ LastSays(v)
      BY <2>0, <3>1 DEF Tracked, TableFollows
    <3>4. CASE CacheAdd(s)
      BY <1>0, <2>0, <2>1, <3>1, <3>2, <3>3, <3>4 DEF Tracked, Lone, Sent, TableFollows, WarmUpHolds, LastSays
    <3>5. CASE ~CacheAdd(s)
      <4>1. setPc'[s] = "publish" /\ wish'[v] = ev[s].s
        BY <1>t, <2>0, <2>3, <3>5
      <4> QED BY <1>0, <2>0, <2>1, <3>1, <3>2, <4>1 DEF Tracked, Lone, Sent, TableFollows, WarmUpHolds
    <3> QED BY <3>4, <3>5
  <2> QED BY <2>2, <2>3
<1>3. CASE CacheFails(s) \/ WriteDirectly(s)
  <2>1. ev[s].v # v
    BY <1>3 DEF CacheFails, WriteDirectly
  <2>2. /\ wish' = wish /\ queue' = queue /\ rows'[v] = rows[v]
        /\ \A t \in Setters \ {s} : ev'[t] = ev[t] /\ setPc'[t] = setPc[t]
        /\ ev'[s] \in {ev[s], NoEvent}
    BY <1>3, <1>t, <2>1 DEF CacheFails, WriteDirectly, Done, Goto
  <2>3. Setting(v)' = Setting(v) /\ s \notin Setting(v)
    BY <2>1, <2>2, RatingSetsAssumption DEF Setting, NoEvent
  <2> QED BY <1>0, <2>2, <2>3, OthersTracked DEF LastSays, Setting
<1>4. CASE Publish(s)
  <2>0. /\ UNCHANGED <<rows, wish>> /\ queue' = Append(queue, ev[s]) /\ setPc[s] = "publish"
        /\ \A t \in Setters \ {s} : ev'[t] = ev[t] /\ setPc'[t] = setPc[t]
        /\ ev'[s] = NoEvent
    BY <1>4, <1>t DEF Publish, Done, Goto, observers
  <2>1. Setting(v)' = Setting(v) \ {s}
    BY <2>0, RatingSetsAssumption DEF Setting, NoEvent
  <2>2. /\ DOMAIN queue' = DOMAIN queue \cup {Len(queue) + 1} /\ queue'[Len(queue) + 1] = ev[s]
        /\ \A i \in DOMAIN queue : queue'[i] = queue[i] /\ i < Len(queue) + 1 /\ i \in Nat
        /\ Len(queue) + 1 \in Nat
    <3>1. ev[s] \in Event
      BY <2>0, EventType
    <3> QED BY <1>t, <2>0, <3>1
  <2>3. CASE ev[s].v # v
    <3>1. LastSays(v) => LastSays(v)'
      BY <2>0, <2>2, <2>3 DEF LastSays
    <3>2. s \notin Setting(v)
      BY <2>3 DEF Setting
    <3> QED BY <1>0, <2>0, <2>1, <3>1, <3>2, OthersTracked DEF Setting
  <2>4. CASE ev[s].v = v
    <3>1. Setting(v) = {s}
      BY <2>4 DEF Tracked, Lone, Setting
    <3>2. \A r \in Readers : readPc[r] \notin Warming
      BY <3>1 DEF Tracked, WarmUpHolds
    <3>3. wish[v] = ev[s].s
      BY <2>0, <3>1 DEF Tracked, Sent
    <3>4. LastSays(v)'
      BY <2>0, <2>2, <2>4, <3>3 DEF LastSays
    <3> QED BY <1>0, <2>1, <3>1, <3>2, <3>4 DEF Tracked, Lone, Sent, TableFollows, WarmUpHolds
  <2> QED BY <2>3, <2>4
<1> QED BY <1>1, <1>2, <1>3, <1>4 DEF SetUserRating

LEMMA ReaderTracked ==
  ASSUME TypeInv, NEW v \in Videos, v \notin muddled', Tracked(v), NEW r \in Readers, GetRatingCache(r)
  PROVE  Tracked(v)'
<1> USE DEF Still
<1>0. UNCHANGED <<rows, queue, setPc, ev, wish>>
  BY DEF GetRatingCache, GetUserRating, Login, ExistsLiked, ExistsDisliked, ReadRows, Fill, Expire, IsLiked,
         IsDisliked, ReadFails, setter, observers
<1>1. Setting(v)' = Setting(v) /\ (LastSays(v) <=> LastSays(v)')
  BY <1>0 DEF Setting, LastSays
<1>t. DOMAIN readPc = Readers /\ DOMAIN found = Readers /\ \A q \in Readers : DOMAIN found[q] = Keys
  BY DEF TypeInv, ReaderOK, Lists
<1>k. Like \in Keys /\ Dislike \in Keys /\ Like # Dislike
  BY DEF Keys, Like, Dislike
<1>2. CASE ReadRows(r)
  <2>1. ~Underway(v)
    BY <1>2 DEF ReadRows
  <2>2. Setting(v) = {} /\ rows[v] = wish[v]
    BY <2>1 DEF Underway, Tracked, TableFollows, LastSays
  <2>3. /\ found'[r][Like] = IF Rated(Like) = {} THEN {NoVideo} ELSE Rated(Like)
        /\ found'[r][Dislike] = IF Rated(Dislike) = {} THEN {NoVideo} ELSE Rated(Dislike)
        /\ \A q \in Readers \ {r} : found'[q] = found[q] /\ readPc'[q] = readPc[q]
    BY <1>2, <1>t, <1>k DEF ReadRows, At
  <2>4. (v \in found'[r][Like] <=> wish[v] = Like) /\ (v \in found'[r][Dislike] <=> wish[v] = Dislike)
    BY <2>2, <2>3, RatingSetsAssumption DEF Rated
  <2>5. WarmUpHolds(v)'
    BY <1>0, <1>1, <2>2, <2>3, <2>4 DEF Tracked, WarmUpHolds
  <2> QED BY <1>0, <1>1, <2>2, <2>5 DEF Tracked, Lone, Sent, TableFollows
<1>3. CASE Fill(r) \/ (ReadFails(r) /\ readPc[r] \in Warming)
  <2>1. found' = [found EXCEPT ![r][IF readPc[r] = "fill" THEN Like ELSE Dislike] = {}]
        /\ readPc' = [readPc EXCEPT ![r] = IF readPc[r] = "fill" THEN "fillOther" ELSE "expire"]
    BY <1>3 DEF Fill, ReadFails, Leave, At, Warming
  <2>2. \A q \in Readers : /\ readPc'[q] \in Warming => readPc[q] \in Warming
                           /\ readPc'[q] = "fill" => q # r
                           /\ readPc'[q] \in Warming => found'[q][Dislike] = found[q][Dislike]
                           /\ q # r => found'[q] = found[q] /\ readPc'[q] = readPc[q]
    BY <1>t, <1>k, <2>1 DEF Warming
  <2>3. WarmUpHolds(v)'
    BY <1>0, <1>1, <2>2 DEF Tracked, WarmUpHolds
  <2> QED BY <1>0, <1>1, <2>3 DEF Tracked, Lone, Sent, TableFollows
<1>4. CASE ~ReadRows(r) /\ ~Fill(r) /\ ~(ReadFails(r) /\ readPc[r] \in Warming)
  <2>1. \A q \in Readers : readPc'[q] \in Warming => readPc'[q] = readPc[q] /\ found'[q] = found[q]
    BY <1>4, <1>t DEF GetRatingCache, GetUserRating, Login, ExistsLiked, ExistsDisliked, Expire, Warmed, IsLiked,
       IsDisliked, ReadFails, Leave, At, Warming
  <2> QED BY <1>0, <1>1, <2>1, OthersTracked
<1> QED BY <1>2, <1>3, <1>4

LEMMA WriteStep == TypeInv /\ WriteInv /\ [Next]_vars => WriteInv'
<1> SUFFICES ASSUME TypeInv, WriteInv, [Next]_vars, NEW v \in Videos, v \notin muddled'
             PROVE  Tracked(v)'
  BY DEF WriteInv
<1>0. muddled \subseteq muddled'
  BY DEF Next, SetUserRating, Begin, CacheAdd, CacheRem, CacheFails, Publish, WriteDirectly, RatingHandler, HandlerFails,
         SetEnds, Crash, GetRatingCache, GetUserRating, Login, ExistsLiked, ExistsDisliked, ReadRows, Fill, Expire,
         IsLiked, IsDisliked, ReadFails, vars, observers
<1>1. Tracked(v)
  BY <1>0 DEF WriteInv
<1>h. ASSUME queue # <<>>, queue' = Tail(queue)
      PROVE  /\ \A i \in DOMAIN queue' : i + 1 \in DOMAIN queue /\ queue'[i] = queue[i + 1] /\ i \in Nat
             /\ \A i \in DOMAIN queue : i # 1 => i - 1 \in DOMAIN queue' /\ queue'[i - 1] = queue[i]
             /\ \A i \in DOMAIN queue : i \in Nat \ {0}
             /\ 1 \in DOMAIN queue /\ Head(queue) = queue[1]
  BY <1>h DEF TypeInv, WriterOK
<1>2. CASE RatingHandler
  <2>1. UNCHANGED <<setPc, ev, wish, readPc, found>> /\ queue # <<>> /\ queue' = Tail(queue)
        /\ rows'[v] = IF Head(queue).v = v THEN Head(queue).s ELSE rows[v]
    BY <1>2 DEF RatingHandler, setter, reader, observers, TypeInv, WriterOK
  <2>2. LastSays(v) => LastSays(v)'
    <3> SUFFICES ASSUME LastSays(v)
                 PROVE  LastSays(v)'
      OBVIOUS
    <3>1. CASE \A i \in DOMAIN queue : queue[i].v # v
      BY <1>h, <2>1, <3>1 DEF LastSays
    <3>2. ASSUME NEW i \in DOMAIN queue, queue[i].v = v, queue[i].s = wish[v],
                 \A j \in DOMAIN queue : j > i => queue[j].v # v
          PROVE  LastSays(v)'
      <4>1. CASE i = 1
        <5>1. \A j \in DOMAIN queue' : queue'[j].v # v
          BY <1>h, <2>1, <3>2, <4>1
        <5> QED BY <1>h, <2>1, <3>2, <4>1, <5>1 DEF LastSays
      <4>2. CASE i # 1
        <5>1. i - 1 \in DOMAIN queue' /\ queue'[i - 1] = queue[i]
          BY <1>h, <2>1, <4>2
        <5>2. \A j \in DOMAIN queue' : j > i - 1 => queue'[j].v # v
          BY <1>h, <2>1, <3>2
        <5> QED BY <2>1, <3>2, <5>1, <5>2 DEF LastSays
      <4> QED BY <4>1, <4>2
    <3> QED BY <3>1, <3>2 DEF LastSays
  <2>3. Setting(v)' = Setting(v)
    BY <2>1 DEF Setting
  <2> QED BY <1>1, <2>1, <2>2, <2>3, OthersTracked
<1>3. CASE HandlerFails
  <2>1. UNCHANGED <<rows, setPc, ev, wish, readPc, found>> /\ queue # <<>> /\ queue' = Tail(queue) /\ Head(queue).v # v
    BY <1>3 DEF HandlerFails, setter, reader
  <2>2. LastSays(v) => LastSays(v)'
    <3> SUFFICES ASSUME LastSays(v)
                 PROVE  LastSays(v)'
      OBVIOUS
    <3>1. CASE \A i \in DOMAIN queue : queue[i].v # v
      BY <1>h, <2>1, <3>1 DEF LastSays
    <3>2. ASSUME NEW i \in DOMAIN queue, queue[i].v = v, queue[i].s = wish[v],
                 \A j \in DOMAIN queue : j > i => queue[j].v # v
          PROVE  LastSays(v)'
      <4>1. i # 1
        BY <1>h, <2>1, <3>2
      <4>2. i - 1 \in DOMAIN queue' /\ queue'[i - 1] = queue[i]
        BY <1>h, <2>1, <4>1
      <4>3. \A j \in DOMAIN queue' : j > i - 1 => queue'[j].v # v
        BY <1>h, <2>1, <3>2
      <4> QED BY <2>1, <3>2, <4>2, <4>3 DEF LastSays
    <3> QED BY <2>1, <3>1, <3>2 DEF LastSays
  <2>3. Setting(v)' = Setting(v)
    BY <2>1 DEF Setting
  <2> QED BY <1>1, <2>1, <2>2, <2>3, OthersTracked
<1>4. CASE Crash
  <2>1. Setting(v) = {} /\ UNCHANGED <<rows, queue, wish>> /\ \A r \in Readers : readPc'[r] = "idle"
    BY <1>4 DEF Crash
  <2>2. Setting(v)' = {}
    BY <1>4, RatingSetsAssumption DEF Crash, Setting, NoEvent
  <2>3. LastSays(v)'
    BY <1>1, <2>1 DEF Tracked, TableFollows, LastSays
  <2> QED BY <2>1, <2>2, <2>3 DEF Tracked, Lone, Sent, TableFollows, WarmUpHolds, Warming
<1>5. CASE UNCHANGED vars \/ \E k \in Keys : SetEnds(k)
  <2>1. UNCHANGED <<rows, queue, setPc, ev, wish, readPc, found>>
    BY <1>5 DEF SetEnds, vars, setter, reader, observers
  <2>2. Setting(v)' = Setting(v)
    BY <2>1 DEF Setting
  <2> QED BY <1>1, <2>1, <2>2, OthersTracked DEF LastSays
<1> QED BY <1>1, <1>2, <1>3, <1>4, <1>5, SetterTracked, ReaderTracked DEF Next

LEMMA WriteInvariant == Spec => []WriteInv
<1>1. Init => WriteInv
  <2> SUFFICES ASSUME Init, NEW v \in Videos
               PROVE  Tracked(v)
    BY DEF WriteInv
  <2>1. Setting(v) = {} /\ LastSays(v)
    BY RatingSetsAssumption DEF Init, Setting, NoEvent, LastSays
  <2> QED BY <2>1 DEF Init, Tracked, Lone, Sent, TableFollows, WarmUpHolds, Warming
<1> QED BY <1>1, WriteStep, TypeInvariant, PTL DEF Spec

----------------------------------------------------------------------------
(* The sets *)

\* The status the sets show of a video: the rating under way once its first command
\* is done, and else the last one given.
AtRem(v) == {s \in Setting(v) : setPc[s] = "cacheRem"}
Cached(v, k) == (AtRem(v) = {} /\ wish[v] = k) \/ \E s \in AtRem(v) : ev[s].s = k
Within(v, k) == v \in set[k] \/ k \in bare

Shown(v) ==
  /\ \A k \in Keys : v \in set[k] => Cached(v, k) \/ wish[v] = k
  /\ \A s \in AtRem(v) : ev[s].s = None => v \notin set[Dislike]
  /\ \A k \in Keys : Cached(v, k) /\ set[k] # {} => Within(v, k)
ShownInv == (\A k \in bare : set[k] # {}) /\ \A v \in Videos \ muddled : Shown(v)

LEMMA TwoKeys == /\ Keys = {Like, Dislike} /\ Like # Dislike /\ None \notin Keys /\ Keys \subseteq Statuses
                 /\ Statuses = Keys \cup {None}
  BY DEF Keys, Like, Dislike, None, Statuses

LEMMA MuddledStays == ASSUME [Next]_vars PROVE muddled \subseteq muddled'
  BY DEF Next, SetUserRating, Begin, CacheAdd, CacheRem, CacheFails, Publish, WriteDirectly, RatingHandler, HandlerFails,
         SetEnds, Crash, GetRatingCache, GetUserRating, Login, ExistsLiked, ExistsDisliked, ReadRows, Fill, Expire,
         IsLiked, IsDisliked, ReadFails, vars, observers

\* The two commands of a rating of v.
Moves(s, v) == s \in Setting(v) /\ (CacheAdd(s) \/ CacheRem(s))

LEMMA MoveEffect ==
  ASSUME TypeInv, NEW v \in Videos, Tracked(v), NEW s \in Setters, Moves(s, v)
  PROVE  /\ Setting(v) = {s} /\ ev[s].v = v /\ ev' = ev
         /\ CacheAdd(s) => AtRem(v) = {} /\ AtRem(v)' = {s} /\ wish' = wish
         /\ CacheRem(s) => AtRem(v) = {s} /\ AtRem(v)' = {} /\ wish'[v] = ev[s].s
<1>1. Setting(v) = {s} /\ ev[s].v = v /\ ev' = ev /\ Setting(v)' = Setting(v)
  BY DEF Moves, Setting, Tracked, Lone, CacheAdd, CacheRem
<1>2. DOMAIN setPc = Setters /\ DOMAIN wish = Videos
  BY DEF TypeInv, WriterOK
<1>3. CacheAdd(s) => setPc[s] = "cacheAdd" /\ setPc'[s] = "cacheRem" /\ wish' = wish
  BY <1>2 DEF CacheAdd, Goto
<1>4. CacheRem(s) => setPc[s] = "cacheRem" /\ setPc'[s] = "publish" /\ wish'[v] = ev[s].s
  BY <1>1, <1>2 DEF CacheRem, Goto
<1> QED BY <1>1, <1>3, <1>4 DEF AtRem

\* Every other step leaves what the sets should show of v.
LEMMA CachedStays ==
  ASSUME TypeInv, NEW v \in Videos, v \notin muddled', Tracked(v), [Next]_vars, \A s \in Setters : ~Moves(s, v)
  PROVE  AtRem(v)' = AtRem(v) /\ wish'[v] = wish[v] /\ \A s \in AtRem(v) : ev'[s] = ev[s]
<1>t. ev \in [Setters -> Event \cup {NoEvent}] /\ DOMAIN setPc = Setters /\ DOMAIN wish = Videos
  BY DEF TypeInv, WriterOK
<1>1. ASSUME NEW s \in Setters, SetUserRating(s)
      PROVE  AtRem(v)' = AtRem(v) /\ wish'[v] = wish[v] /\ \A t \in AtRem(v) : ev'[t] = ev[t]
  <2>0. \A t \in Setters \ {s} : ev'[t] = ev[t] /\ setPc'[t] = setPc[t]
    BY <1>1, <1>t DEF SetUserRating, Begin, CacheAdd, CacheRem, CacheFails, Publish, WriteDirectly, Done, Goto
  <2>1. s \notin AtRem(v) /\ s \notin AtRem(v)' /\ wish'[v] = wish[v]
    <3>1. ASSUME NEW w \in Videos, NEW stat \in Statuses, Begin(s, w, stat)
          PROVE  s \notin AtRem(v) /\ s \notin AtRem(v)' /\ wish'[v] = wish[v]
      BY <3>1, <1>t DEF Begin, Goto, AtRem
    <3>2. CASE CacheAdd(s) \/ CacheRem(s)
      <4>1. ev[s].v # v /\ ev'[s] = ev[s]
        BY <3>2 DEF Moves, Setting, CacheAdd, CacheRem
      <4>2. wish'[v] = wish[v]
        BY <3>2, <4>1, <1>t DEF CacheAdd, CacheRem
      <4> QED BY <4>1, <4>2 DEF AtRem, Setting
    <3>3. CASE CacheFails(s) \/ WriteDirectly(s)
      <4>1. ev[s].v # v /\ ev'[s] \in {ev[s], NoEvent} /\ wish' = wish
        BY <3>3, <1>t DEF CacheFails, WriteDirectly, Done
      <4> QED BY <4>1, RatingSetsAssumption DEF AtRem, Setting, NoEvent
    <3>4. CASE Publish(s)
      BY <3>4, <1>t DEF Publish, Done, Goto, observers, AtRem
    <3> QED BY <1>1, <3>1, <3>2, <3>3, <3>4 DEF SetUserRating
  <2> QED BY <2>0, <2>1 DEF AtRem, Setting
<1>2. CASE Crash
  <2>1. Setting(v) = {} /\ wish' = wish
    BY <1>2 DEF Crash
  <2> QED BY <1>2, <2>1 DEF Crash, AtRem, Setting
<1>3. CASE ~Crash /\ \A s \in Setters : ~SetUserRating(s)
  <2>1. UNCHANGED <<setPc, ev, wish>>
    BY <1>3 DEF Next, RatingHandler, HandlerFails, SetEnds, GetRatingCache, GetUserRating, Login, ExistsLiked, ExistsDisliked,
       ReadRows, Fill, Expire, IsLiked, IsDisliked, ReadFails, Still, vars, setter, observers
  <2> QED BY <2>1 DEF AtRem, Setting
<1> QED BY <1>1, <1>2, <1>3

\* What the commands of the sets do to v.
LEMMA AddEffect ==
  ASSUME TypeInv, \A k \in bare : set[k] # {}, NEW k \in Keys, NEW members \in SUBSET Members, members # {},
         NEW made \in BOOLEAN, SAdd(k, members, made)
  PROVE  /\ \A j \in bare' : set'[j] # {}
         /\ \A v : v \in set'[k] <=> v \in set[k] \/ v \in members
         /\ \A j \in Keys \ {k} : set'[j] = set[j] /\ (j \in bare' <=> j \in bare)
         /\ \A v : \A j \in Keys : Within(v, j) /\ (made /\ j = k => v \in members) => Within(v, j)'
         /\ set'[k] # {} /\ (~made => (set[k] = {} => k \in bare'))
<1>1. DOMAIN set = Keys /\ bare \subseteq Keys
  BY DEF TypeInv, SetsOK, Lists
<1>2. set'[k] = set[k] \cup members /\ \A j \in Keys \ {k} : set'[j] = set[j]
  BY <1>1 DEF SAdd
<1>3. \A j \in Keys \ {k} : j \in bare' <=> j \in bare
  BY DEF SAdd
<1>4. ~made => bare \subseteq bare' /\ (set[k] = {} => k \in bare')
  BY DEF SAdd
<1> QED BY <1>1, <1>2, <1>3, <1>4 DEF SAdd, Within

LEMMA RemEffect ==
  ASSUME TypeInv, \A k \in bare : set[k] # {}, NEW k \in Keys, NEW w \in Videos, SRem(k, w)
  PROVE  /\ \A j \in bare' : set'[j] # {}
         /\ set'[k] = set[k] \ {w}
         /\ \A j \in Keys \ {k} : set'[j] = set[j] /\ (j \in bare' <=> j \in bare)
         /\ \A v : \A j \in Keys : (j # k \/ v # w) /\ Within(v, j) => Within(v, j)' \/ (set'[j] = {} /\ Asking \subseteq shaken')
<1>1. DOMAIN set = Keys /\ bare \subseteq Keys
  BY DEF TypeInv, SetsOK, Lists
<1>2. set'[k] = set[k] \ {w} /\ \A j \in Keys \ {k} : set'[j] = set[j]
  BY <1>1 DEF SRem
<1>3. \A j \in Keys \ {k} : j \in bare' <=> j \in bare
  BY DEF SRem
<1>4. \A j \in bare' : set'[j] # {}
  BY <1>1, <1>2, <1>3 DEF SRem
<1>5. k \in bare => k \in bare' \/ (set'[k] = {} /\ Asking \subseteq shaken')
  BY <1>2 DEF SRem
<1> QED BY <1>2, <1>3, <1>4, <1>5 DEF Within

LEMMA MoveShown ==
  ASSUME TypeInv, ShownInv, NEW v \in Videos, Tracked(v), Shown(v), NEW s \in Setters, Moves(s, v)
  PROVE  Shown(v)'
<1>e. /\ Setting(v) = {s} /\ ev[s].v = v /\ ev' = ev
      /\ CacheAdd(s) => AtRem(v) = {} /\ AtRem(v)' = {s} /\ wish' = wish
      /\ CacheRem(s) => AtRem(v) = {s} /\ AtRem(v)' = {} /\ wish'[v] = ev[s].s
  BY MoveEffect
<1>t. ev[s].s \in Statuses
  BY EventType DEF Moves, CacheAdd, CacheRem
<1>b. \A k \in bare : set[k] # {}
  BY DEF ShownInv
<1>1. CASE CacheAdd(s)
  <2>1. /\ \A k : Cached(v, k) <=> wish[v] = k
        /\ \A k : Cached(v, k)' <=> ev[s].s = k
    BY <1>1, <1>e DEF Cached
  <2>2. CASE ev[s].s = None
    <3>1. SRem(Dislike, v)
      BY <1>1, <1>e, <2>2 DEF CacheAdd
    <3>2. set'[Dislike] = set[Dislike] \ {v} /\ \A j \in Keys \ {Dislike} : set'[j] = set[j]
      BY <1>b, <3>1, RemEffect, TwoKeys
    <3> QED BY <1>1, <1>e, <2>1, <2>2, <3>2, TwoKeys DEF Shown
  <2>3. CASE ev[s].s # None
    <3>0. ev[s].s \in Keys /\ {v} \in SUBSET Members
      BY <1>t, <2>3, TwoKeys DEF Members
    <3>1. SAdd(ev[s].s, {v}, FALSE)
      BY <1>1, <1>e, <2>3 DEF CacheAdd
    <3>2. /\ \A x : x \in set'[ev[s].s] <=> x \in set[ev[s].s] \/ x \in {v}
          /\ \A j \in Keys \ {ev[s].s} : set'[j] = set[j]
      BY <1>b, <3>0, <3>1, AddEffect
    <3> QED BY <1>1, <1>e, <2>1, <2>3, <3>0, <3>2 DEF Shown, Within
  <2> QED BY <2>2, <2>3
<1>2. CASE CacheRem(s)
  <2> DEFINE other == IF ev[s].s = Like THEN Dislike ELSE Like
  <2>1. /\ \A k : Cached(v, k) <=> ev[s].s = k
        /\ \A k : Cached(v, k)' <=> ev[s].s = k
    BY <1>2, <1>e DEF Cached
  <2>2. other \in Keys /\ SRem(other, v)
    BY <1>2, <1>e, TwoKeys DEF CacheRem
  <2>3. /\ set'[other] = set[other] \ {v}
        /\ \A j \in Keys \ {other} : set'[j] = set[j] /\ (j \in bare' <=> j \in bare)
    BY <1>b, <2>2, RemEffect
  <2>4. \A k \in Keys : v \in set'[k] => ev[s].s = k
    <3>1. CASE ev[s].s = None
      <4>1. v \notin set[Dislike]
        BY <1>2, <1>e, <3>1 DEF Shown
      <4> QED BY <2>3, <3>1, <4>1, TwoKeys
    <3>2. CASE ev[s].s # None
      BY <1>t, <2>3, <3>2, TwoKeys
    <3> QED BY <3>1, <3>2
  <2>5. \A k \in Keys : ev[s].s = k => set'[k] = set[k] /\ (k \in bare' <=> k \in bare)
    BY <2>3, TwoKeys
  <2> QED BY <1>2, <1>e, <2>1, <2>4, <2>5 DEF Shown, Within
<1> QED BY <1>1, <1>2 DEF Moves

LEMMA ShownStep == TypeInv /\ WriteInv /\ ShownInv /\ [Next]_vars => ShownInv'
<1> SUFFICES ASSUME TypeInv, WriteInv, ShownInv, [Next]_vars
             PROVE  ShownInv'
  OBVIOUS
<1>b. \A k \in bare : set[k] # {}
  BY DEF ShownInv
<1>v. \A v \in Videos : v \notin muddled' => Tracked(v) /\ Shown(v)
  BY MuddledStays DEF WriteInv, ShownInv
<1>c. ASSUME NEW v \in Videos, v \notin muddled', \A s \in Setters : ~Moves(s, v)
      PROVE  /\ AtRem(v)' = AtRem(v) /\ wish'[v] = wish[v] /\ \A s \in AtRem(v) : ev'[s] = ev[s]
             /\ \A k : Cached(v, k)' <=> Cached(v, k)
  <2>1. AtRem(v)' = AtRem(v) /\ wish'[v] = wish[v] /\ \A s \in AtRem(v) : ev'[s] = ev[s]
    BY <1>v, <1>c, CachedStays
  <2> QED BY <2>1 DEF Cached
<1>1. ASSUME NEW s \in Setters, CacheAdd(s) \/ CacheRem(s)
      PROVE  ShownInv'
  <2>1. setPc[s] # "idle" /\ ev[s].v \in Videos /\ ev[s].s \in Statuses /\ ev' = ev
    BY <1>1, EventType DEF CacheAdd, CacheRem
  <2>2. \/ \E k \in Keys : SAdd(k, {ev[s].v}, FALSE)
        \/ \E k \in Keys : SRem(k, ev[s].v)
    <3>1. CASE CacheAdd(s)
      <4>1. CASE ev[s].s = None
        BY <3>1, <4>1, TwoKeys DEF CacheAdd
      <4>2. CASE ev[s].s # None
        BY <2>1, <3>1, <4>2, TwoKeys DEF CacheAdd
      <4> QED BY <4>1, <4>2
    <3>2. CASE CacheRem(s)
      BY <3>2, TwoKeys DEF CacheRem
    <3> QED BY <1>1, <3>1, <3>2
  <2>3. ASSUME NEW v \in Videos, v \notin muddled'
        PROVE  Shown(v)'
    <3>1. CASE ev[s].v = v
      BY <1>1, <1>v, <2>3, <3>1, MoveShown DEF Moves, Setting
    <3>2. CASE ev[s].v # v
      <4>1. \A t \in Setters : ~Moves(t, v)
        <5> SUFFICES ASSUME NEW t \in Setters, Moves(t, v)
                     PROVE  FALSE
          OBVIOUS
        <5>1. t # s
          BY <3>2 DEF Moves, Setting
        <5>2. DOMAIN setPc = Setters
          BY DEF TypeInv, WriterOK
        <5> QED BY <1>1, <5>1, <5>2 DEF Moves, CacheAdd, CacheRem, Goto
      <4>2. \A k \in Keys : v \in set'[k] <=> v \in set[k]
        <5>1. ASSUME NEW k \in Keys, SAdd(k, {ev[s].v}, FALSE)
              PROVE  \A j \in Keys : v \in set'[j] <=> v \in set[j]
          BY <5>1, <2>1, <3>2 DEF SAdd, TypeInv, SetsOK, Lists
        <5>2. ASSUME NEW k \in Keys, SRem(k, ev[s].v)
              PROVE  \A j \in Keys : v \in set'[j] <=> v \in set[j]
          BY <5>2, <2>1, <3>2 DEF SRem, TypeInv, SetsOK, Lists
        <5> QED BY <2>2, <5>1, <5>2
      <4>3. \A k \in Keys : (set[k] # {} => Within(v, k)) => (set'[k] # {} => Within(v, k)')
        <5>1. ASSUME NEW k \in Keys, SAdd(k, {ev[s].v}, FALSE)
              PROVE  \A j \in Keys : (set[j] # {} => Within(v, j)) => (set'[j] # {} => Within(v, j)')
          <6>1. DOMAIN set = Keys /\ bare \subseteq bare' /\ (set[k] = {} => k \in bare')
            BY <5>1 DEF SAdd, TypeInv, SetsOK, Lists
          <6>2. (\A j \in Keys \ {k} : set'[j] = set[j]) /\ set[k] \subseteq set'[k]
            BY <5>1, <6>1 DEF SAdd
          <6> QED BY <6>1, <6>2 DEF Within
        <5>2. ASSUME NEW k \in Keys, SRem(k, ev[s].v)
              PROVE  \A j \in Keys : (set[j] # {} => Within(v, j)) => (set'[j] # {} => Within(v, j)')
          <6>1. /\ set'[k] = set[k] \ {ev[s].v}
                /\ \A j \in Keys \ {k} : set'[j] = set[j]
                /\ \A j \in Keys : Within(v, j) => Within(v, j)' \/ set'[j] = {}
            BY <1>b, <2>1, <3>2, <5>2, RemEffect
          <6> QED BY <6>1
        <5> QED BY <2>2, <5>1, <5>2
      <4>4. /\ AtRem(v)' = AtRem(v) /\ wish'[v] = wish[v] /\ \A k : Cached(v, k)' <=> Cached(v, k)
        BY <1>c, <2>3, <4>1
      <4> QED BY <1>v, <2>1, <2>3, <4>2, <4>3, <4>4, TwoKeys DEF Shown
    <3> QED BY <3>1, <3>2
  <2>4. \A k \in bare' : set'[k] # {}
    <3>1. ASSUME NEW k \in Keys, SAdd(k, {ev[s].v}, FALSE)
          PROVE  \A j \in bare' : set'[j] # {}
      <4>1. {ev[s].v} \in SUBSET Members
        BY <2>1 DEF Members
      <4> QED BY <1>b, <3>1, <4>1, AddEffect
    <3>2. ASSUME NEW k \in Keys, SRem(k, ev[s].v)
          PROVE  \A j \in bare' : set'[j] # {}
      BY <1>b, <2>1, <3>2, RemEffect
    <3> QED BY <2>2, <3>1, <3>2
  <2> QED BY <2>3, <2>4 DEF ShownInv
<1>2. CASE \A s \in Setters : ~CacheAdd(s) /\ ~CacheRem(s)
  <2>0. \A v \in Videos : v \notin muddled' =>
          /\ AtRem(v)' = AtRem(v) /\ wish'[v] = wish[v] /\ \A s \in AtRem(v) : ev'[s] = ev[s]
          /\ \A k : Cached(v, k)' <=> Cached(v, k)
    BY <1>2, <1>c DEF Moves
  <2>1. CASE UNCHANGED <<set, bare>>
    <3>1. \A v \in Videos : v \notin muddled' => Shown(v)'
      BY <1>v, <2>0, <2>1 DEF Shown, Within
    <3> QED BY <1>b, <2>1, <3>1 DEF ShownInv
  <2>2. ASSUME NEW k \in Keys, SetEnds(k)
        PROVE  ShownInv'
    <3>1. set'[k] = {} /\ bare' = bare \ {k} /\ \A j \in Keys \ {k} : set'[j] = set[j]
      BY <2>2 DEF SetEnds, TypeInv, SetsOK, Lists
    <3>2. \A v \in Videos : v \notin muddled' => Shown(v)'
      BY <1>v, <2>0, <3>1, TwoKeys DEF Shown, Within
    <3>3. \A j \in bare' : set'[j] # {}
      BY <1>b, <3>1 DEF TypeInv, SetsOK
    <3> QED BY <3>2, <3>3 DEF ShownInv
  <2>3. ASSUME NEW r \in Readers, Fill(r)
        PROVE  ShownInv'
    <3>1. PICK k \in Keys : /\ SAdd(k, found[r][k], TRUE) /\ readPc[r] \in Warming
                            /\ k = Like => readPc[r] = "fill"
      BY <2>3, TwoKeys DEF Fill, Warming
    <3>2. found[r][k] \in SUBSET Members
      BY DEF TypeInv, ReaderOK, Lists
    <3>3. ASSUME NEW v \in Videos, v \notin muddled'
          PROVE  AtRem(v) = {} /\ (v \in found[r][k] <=> wish[v] = k)
      BY <1>v, <3>1, <3>3, TwoKeys DEF Tracked, WarmUpHolds, AtRem
    <3>4. CASE found[r][k] # {}
      <4>1. /\ \A j \in bare' : set'[j] # {}
            /\ \A x : x \in set'[k] <=> x \in set[k] \/ x \in found[r][k]
            /\ \A j \in Keys \ {k} : set'[j] = set[j] /\ (j \in bare' <=> j \in bare)
        BY <1>b, <3>1, <3>2, <3>4, AddEffect
      <4>2. \A v \in Videos : v \notin muddled' => Shown(v)'
        BY <1>v, <2>0, <3>3, <4>1, TwoKeys DEF Shown, Within, Cached
      <4> QED BY <4>1, <4>2 DEF ShownInv
    <3>5. CASE found[r][k] = {}
      <4>1. set' = set /\ bare' = bare \ {k}
        BY <3>1, <3>5 DEF SAdd, TypeInv, SetsOK, Lists
      <4>2. \A v \in Videos : v \notin muddled' => Shown(v)'
        BY <1>v, <2>0, <3>3, <3>5, <4>1, TwoKeys DEF Shown, Within, Cached
      <4> QED BY <1>b, <4>1, <4>2 DEF ShownInv
    <3> QED BY <3>4, <3>5
  <2>4. UNCHANGED <<set, bare>> \/ (\E k \in Keys : SetEnds(k)) \/ \E r \in Readers : Fill(r)
    BY <1>2 DEF Next, SetUserRating, Begin, CacheFails, Publish, WriteDirectly, RatingHandler, HandlerFails, Crash,
       GetRatingCache, GetUserRating, Login, ExistsLiked, ExistsDisliked, ReadRows, Expire, IsLiked, IsDisliked,
       ReadFails, vars, observers
  <2> QED BY <2>1, <2>2, <2>3, <2>4
<1> QED BY <1>1, <1>2

LEMMA ShownInvariant == Spec => []ShownInv
<1>1. Init => ShownInv
  <2> SUFFICES ASSUME Init
               PROVE  ShownInv
    OBVIOUS
  <2>1. set = NoLists /\ bare = {}
    BY DEF Init
  <2>2. \A v \in Videos : AtRem(v) = {}
    BY DEF Init, AtRem, Setting
  <2> QED BY <2>1, <2>2, TwoKeys DEF ShownInv, Shown, NoLists
<1> QED BY <1>1, ShownStep, WriteInvariant, TypeInvariant, PTL DEF Spec

\* Of a settled video the table has the rating last given, and the sets show it.
LEMMA SettledShown ==
  ASSUME WriteInv, ShownInv, NEW v \in Settled
  PROVE  rows[v] = wish[v] /\ Shown(v) /\ \A k : Cached(v, k) <=> wish[v] = k
<1>1. v \in Videos /\ v \notin muddled /\ Setting(v) = {} /\ \A i \in DOMAIN queue : queue[i].v # v
  BY DEF Settled, Underway
<1>2. rows[v] = wish[v]
  BY <1>1 DEF WriteInv, Tracked, TableFollows, LastSays
<1>3. AtRem(v) = {}
  BY <1>1 DEF AtRem
<1> QED BY <1>1, <1>2, <1>3 DEF ShownInv, Cached

\* A set of an account shows no video that the table has with another rating, once the
\* table has caught up: neither UpdateRatingCache nor the warm-up brings a rating back
\* that was taken back, unless they overlapped.
THEOREM NoRatingMadeUp == Spec => []NothingMadeUp
<1>1. WriteInv /\ ShownInv => NothingMadeUp
  BY SettledShown DEF NothingMadeUp, Shown, Settled
<1> QED BY <1>1, WriteInvariant, ShownInvariant, PTL

\* A set that is there holds every rating of its status, unless UpdateRatingCache made it
\* from nothing and no warm-up has filled it since.
THEOREM NoRatingForgotten == Spec => []NothingForgotten
<1>1. WriteInv /\ ShownInv => NothingForgotten
  BY SettledShown DEF NothingForgotten, Shown, Within, Settled
<1> QED BY <1>1, WriteInvariant, ShownInvariant, PTL

----------------------------------------------------------------------------
(* What a reader is told *)

Knows(v, k) == Cached(v, k) => Within(v, k)
Look(r) == IF isLiked[r] THEN Like \in saw[r] ELSE \E x \in saw[r] : x # Like

\* The ratings the video of a reader has had since he asked are those he may be told.
SeesAll(r) ==
  about[r] \in Videos =>
    /\ wish[about[r]] \in saw[r]
    /\ \A s \in Setting(about[r]) : ev[s].s \in saw[r]

\* A reader nothing has shaken knows the sets he found, or has filled, to be complete.
Informed(r) ==
  r \notin shaken /\ about[r] \in Videos \ muddled =>
    /\ readPc[r] = "existsOther" /\ ~missing[r] => Knows(about[r], Like)
    /\ readPc[r] = "fillOther" => Knows(about[r], Like)
    /\ readPc[r] \in {"expire", "expireOther", "member", "memberOther"} => \A k \in Keys : Knows(about[r], k)
    /\ readPc[r] = "memberOther" => Look(r)
Truthful(r) == answer[r] \in saw[r] \cup {Unknown} \/ (answer[r] = None /\ Keys \subseteq saw[r])
ReadInv == \A r \in Readers : SeesAll(r) /\ Informed(r) /\ Truthful(r)

\* A look into a set tells a reader of a rating he may be told.
LEMMA Glance ==
  ASSUME TypeInv, ShownInv, NEW r \in Readers, SeesAll(r), about[r] \in Videos \ muddled, NEW k \in Keys
  PROVE  /\ about[r] \in set[k] => k \in saw[r]
         /\ about[r] \notin set[k] /\ k \notin bare /\ Knows(about[r], k) => \E x \in saw[r] : x # k
<1> DEFINE v == about[r]
<1>1. \A s \in AtRem(v) : ev[s].s \in saw[r]
  BY DEF SeesAll, AtRem
<1>2. wish[v] \in saw[r]
  BY DEF SeesAll
<1>3. Cached(v, k) => k \in saw[r]
  BY <1>1, <1>2 DEF Cached
<1>4. ~Cached(v, k) => \E x \in saw[r] : x # k
  BY <1>1, <1>2 DEF Cached
<1>5. v \in set[k] => k \in saw[r]
  BY <1>2, <1>3 DEF ShownInv, Shown
<1> QED BY <1>4, <1>5 DEF Knows, Within

LEMMA FillKnows ==
  ASSUME TypeInv, WriteInv, ShownInv, [Next]_vars, NEW r \in Readers, Fill(r), NEW v \in Videos, v \notin muddled',
         NEW k \in Keys, k = IF readPc[r] = "fill" THEN Like ELSE Dislike
  PROVE  Knows(v, k)'
<1>1. SAdd(k, found[r][k], TRUE) /\ readPc[r] \in Warming
  BY TwoKeys DEF Fill, Warming
<1>2. v \notin muddled /\ Tracked(v)
  BY MuddledStays DEF WriteInv
<1>3. AtRem(v) = {} /\ (wish[v] = k => v \in found[r][k])
  BY <1>1, <1>2 DEF Tracked, WarmUpHolds, AtRem
<1>4. \A s \in Setters : ~Moves(s, v)
  BY <1>1, <1>2 DEF Tracked, WarmUpHolds, Moves
<1>5. AtRem(v)' = {} /\ wish'[v] = wish[v]
  BY <1>2, <1>3, <1>4, CachedStays
<1>6. set'[k] = set[k] \cup found[r][k]
  BY <1>1 DEF SAdd, TypeInv, SetsOK, Lists
<1>7. Cached(v, k)' => wish[v] = k
  BY <1>5 DEF Cached
<1>8. wish[v] = k => v \in set'[k]
  BY <1>3, <1>6
<1> QED BY <1>7, <1>8 DEF Knows, Within

LEMMA KnowsStays ==
  ASSUME TypeInv, WriteInv, ShownInv, [Next]_vars, NEW r \in Readers, readPc[r] # "idle", r \notin shaken',
         NEW v \in Videos, v \notin muddled', NEW k \in Keys, Knows(v, k)
  PROVE  Knows(v, k)'
<1>b. \A j \in bare : set[j] # {}
  BY DEF ShownInv
<1>v. v \notin muddled /\ Tracked(v) /\ Shown(v)
  BY MuddledStays DEF WriteInv, ShownInv
<1>r. r \in Asking
  BY DEF Asking
<1>d. DOMAIN set = Keys
  BY DEF TypeInv, SetsOK, Lists
<1>1. ASSUME NEW s \in Setters, Moves(s, v)
      PROVE  Knows(v, k)'
  <2>e. /\ ev[s].v = v /\ ev' = ev
        /\ CacheAdd(s) => AtRem(v) = {} /\ AtRem(v)' = {s} /\ wish' = wish
        /\ CacheRem(s) => AtRem(v) = {s} /\ AtRem(v)' = {} /\ wish'[v] = ev[s].s
    BY <1>1, <1>v, MoveEffect
  <2>1. Cached(v, k)' => ev[s].s = k
    BY <1>1, <2>e DEF Moves, Cached
  <2>2. CASE CacheAdd(s)
    <3>1. ev[s].s = k => SAdd(k, {v}, FALSE)
      BY <2>2, <2>e, TwoKeys DEF CacheAdd
    <3>2. ev[s].s = k => v \in set'[k]
      BY <1>d, <3>1 DEF SAdd
    <3> QED BY <2>1, <3>2 DEF Knows, Within
  <2>3. CASE CacheRem(s)
    <3>1. SRem(IF ev[s].s = Like THEN Dislike ELSE Like, v)
      BY <2>3, <2>e DEF CacheRem
    <3>2. ev[s].s = k => set'[k] = set[k] /\ (k \in bare' <=> k \in bare)
      BY <1>d, <3>1, TwoKeys DEF SRem
    <3>3. Cached(v, k)' => Cached(v, k)
      BY <2>1, <2>3, <2>e DEF Cached
    <3> QED BY <2>1, <3>2, <3>3 DEF Knows, Within
  <2> QED BY <1>1, <2>2, <2>3 DEF Moves
<1>2. CASE \A s \in Setters : ~Moves(s, v)
  <2>1. Cached(v, k)' <=> Cached(v, k)
    <3>1. AtRem(v)' = AtRem(v) /\ wish'[v] = wish[v] /\ \A s \in AtRem(v) : ev'[s] = ev[s]
      BY <1>2, <1>v, CachedStays
    <3> QED BY <3>1 DEF Cached
  <2> SUFFICES ASSUME Within(v, k), Cached(v, k)
               PROVE  Within(v, k)'
    BY <2>1 DEF Knows
  <2>2. CASE UNCHANGED <<set, bare>>
    BY <2>2 DEF Within
  <2>3. ASSUME NEW s \in Setters, CacheAdd(s) \/ CacheRem(s)
        PROVE  Within(v, k)'
    <3>1. ev[s].v \in Videos /\ ev[s].s \in Statuses /\ setPc[s] # "idle" /\ ev[s].v # v
      BY <1>2, <2>3, EventType DEF CacheAdd, CacheRem, Moves, Setting
    <3>2. ASSUME NEW j \in Keys, SAdd(j, {ev[s].v}, FALSE)
          PROVE  Within(v, k)'
      BY <1>d, <3>2 DEF SAdd, Within
    <3>3. ASSUME NEW j \in Keys, SRem(j, ev[s].v)
          PROVE  Within(v, k)'
      BY <1>b, <1>r, <3>1, <3>3, RemEffect
    <3>4. CASE CacheAdd(s)
      BY <3>1, <3>2, <3>3, <3>4, TwoKeys DEF CacheAdd
    <3>5. CASE CacheRem(s)
      BY <3>3, <3>5, TwoKeys DEF CacheRem
    <3> QED BY <2>3, <3>4, <3>5
  <2>4. ASSUME NEW j \in Keys, SetEnds(j)
        PROVE  Within(v, k)'
    BY <1>r, <2>4 DEF SetEnds
  <2>5. ASSUME NEW q \in Readers, Fill(q)
        PROVE  Within(v, k)'
    <3>1. PICK j \in Keys : SAdd(j, found[q][j], TRUE) /\ j = IF readPc[q] = "fill" THEN Like ELSE Dislike
      BY <2>5, TwoKeys DEF Fill
    <3>2. CASE j # k
      BY <1>d, <3>1, <3>2 DEF SAdd, Within
    <3>3. CASE j = k
      <4>1. Knows(v, j)'
        BY <2>5, <3>1, FillKnows
      <4> QED BY <2>1, <3>3, <4>1 DEF Knows
    <3> QED BY <3>2, <3>3
  <2>6. \/ UNCHANGED <<set, bare>> \/ (\E j \in Keys : SetEnds(j)) \/ (\E q \in Readers : Fill(q))
        \/ \E s \in Setters : CacheAdd(s) \/ CacheRem(s)
    BY DEF Next, SetUserRating, Begin, CacheFails, Publish, WriteDirectly, RatingHandler, HandlerFails, Crash,
       GetRatingCache, GetUserRating, Login, ExistsLiked, ExistsDisliked, ReadRows, Expire, IsLiked, IsDisliked,
       ReadFails, vars, observers
  <2> QED BY <2>2, <2>3, <2>4, <2>5, <2>6
<1> QED BY <1>1, <1>2

\* The ratings of a video come from the requests under way for it, and one that begins
\* is noted for those who ask.
LEMMA GivenRatings ==
  ASSUME TypeInv, [Next]_vars, NEW v \in Videos
  PROVE  /\ wish'[v] = wish[v] \/ \E s \in Setting(v) : wish'[v] = ev[s].s
         /\ \A s \in Setting(v)' : \/ s \in Setting(v) /\ ev'[s] = ev[s]
                                   \/ \A r \in Readers : about[r] = v => ev'[s].s \in saw'[r]
<1>t. DOMAIN ev = Setters /\ DOMAIN wish = Videos /\ DOMAIN saw = Readers
  BY DEF TypeInv, WriterOK, AnswersOK
<1>1. CASE \A s \in Setters : ev'[s] = ev[s] \/ ev'[s] = NoEvent
  <2>1. wish'[v] = wish[v] \/ \E s \in Setting(v) : wish'[v] = ev[s].s
    <3>1. ASSUME NEW s \in Setters, CacheRem(s)
          PROVE  wish'[v] = wish[v] \/ (s \in Setting(v) /\ wish'[v] = ev[s].s)
      <4>1. wish' = [wish EXCEPT ![ev[s].v] = ev[s].s]
        BY <3>1 DEF CacheRem
      <4>2. CASE ev[s].v = v
        BY <1>t, <4>1, <4>2 DEF Setting
      <4>3. CASE ev[s].v # v
        BY <1>t, <4>1, <4>3
      <4> QED BY <4>2, <4>3
    <3>2. (\A s \in Setters : ~CacheRem(s)) => wish' = wish
      BY DEF Next, SetUserRating, Begin, CacheAdd, CacheFails, Publish, WriteDirectly, RatingHandler, HandlerFails,
             SetEnds, Crash, GetRatingCache, GetUserRating, Login, ExistsLiked, ExistsDisliked, ReadRows, Fill, Expire,
             IsLiked, IsDisliked, ReadFails, vars, observers
    <3> QED BY <3>1, <3>2
  <2>2. \A s \in Setting(v)' : s \in Setting(v) /\ ev'[s] = ev[s]
    BY <1>1, RatingSetsAssumption DEF Setting, NoEvent
  <2> QED BY <2>1, <2>2
<1>2. ASSUME NEW s \in Setters, NEW w \in Videos, NEW stat \in Statuses, Begin(s, w, stat)
      PROVE  /\ wish' = wish /\ \A t \in Setters \ {s} : ev'[t] = ev[t]
             /\ ev'[s].v = v => \A r \in Readers : about[r] = v => ev'[s].s \in saw'[r]
  BY <1>t, <1>2 DEF Begin
<1>3. \/ \A s \in Setters : ev'[s] = ev[s] \/ ev'[s] = NoEvent
      \/ \E s \in Setters, w \in Videos, stat \in Statuses : Begin(s, w, stat)
  BY <1>t DEF Next, SetUserRating, CacheAdd, CacheRem, CacheFails, Publish, WriteDirectly, Done, RatingHandler,
         HandlerFails, SetEnds, Crash, GetRatingCache, GetUserRating, Login, ExistsLiked, ExistsDisliked, ReadRows, Fill,
         Expire, IsLiked, IsDisliked, ReadFails, Still, vars, setter, observers
<1> QED BY <1>1, <1>2, <1>3 DEF Setting

\* A reader's own step, the end of the process, or a step of another.
Apart(r) ==
  /\ readPc'[r] = readPc[r] /\ about'[r] = about[r] /\ missing'[r] = missing[r] /\ isLiked'[r] = isLiked[r]
  /\ answer'[r] = answer[r] /\ saw[r] \subseteq saw'[r] /\ (r \in shaken => r \in shaken')

LEMMA WhoSteps ==
  ASSUME TypeInv, [Next]_vars, NEW r \in Readers
  PROVE  GetRatingCache(r) \/ Crash \/ Apart(r)
<1>t. /\ DOMAIN readPc = Readers /\ DOMAIN about = Readers /\ DOMAIN missing = Readers /\ DOMAIN isLiked = Readers
      /\ DOMAIN answer = Readers /\ DOMAIN saw = Readers
  BY DEF TypeInv, ReaderOK, AnswersOK
<1>1. ASSUME NEW q \in Readers \ {r}, GetRatingCache(q)
      PROVE  Apart(r)
  <2>1. CASE (\E v \in Videos : GetUserRating(q, v)) \/ Login(q) \/ ExistsLiked(q) \/ ExistsDisliked(q) \/ ReadRows(q)
    BY <1>t, <2>1 DEF GetUserRating, Login, ExistsLiked, ExistsDisliked, ReadRows, At, Told, observers, Apart
  <2>2. CASE Fill(q) \/ Expire(q) \/ IsLiked(q)
    BY <1>t, <2>2 DEF Fill, SAdd, Expire, Warmed, Calm, IsLiked, At, Apart
  <2>3. CASE IsDisliked(q) \/ ReadFails(q)
    BY <1>t, <2>3 DEF IsDisliked, Leave, Told, ReadFails, Warmed, Calm, At, Apart
  <2> QED BY <1>1, <2>1, <2>2, <2>3 DEF GetRatingCache
<1>2. ASSUME NEW s \in Setters, SetUserRating(s)
      PROVE  Apart(r)
  BY <1>t, <1>2 DEF SetUserRating, Begin, CacheAdd, CacheRem, SAdd, SRem, CacheFails, Publish, WriteDirectly, reader, observers, Apart
<1>3. CASE RatingHandler \/ HandlerFails \/ (\E k \in Keys : SetEnds(k)) \/ UNCHANGED vars
  BY <1>3 DEF RatingHandler, HandlerFails, SetEnds, vars, reader, observers, Apart
<1> QED BY <1>1, <1>2, <1>3 DEF Next

LEMMA SeesAllStays ==
  ASSUME TypeInv, [Next]_vars, NEW r \in Readers, SeesAll(r)
  PROVE  SeesAll(r)'
<1>t. /\ DOMAIN about = Readers /\ DOMAIN saw = Readers
      /\ (readPc[r] = "idle" => about[r] = NoVideo)
  BY DEF TypeInv, ReaderOK, AnswersOK
<1>1. CASE about'[r] = about[r] /\ saw[r] \subseteq saw'[r]
  <2> SUFFICES ASSUME about[r] \in Videos
               PROVE  SeesAll(r)'
    BY <1>1 DEF SeesAll
  <2>1. wish'[about[r]] \in saw'[r]
    BY <1>1, GivenRatings DEF SeesAll
  <2>2. \A s \in Setting(about[r])' : ev'[s].s \in saw'[r]
    BY <1>1, GivenRatings DEF SeesAll
  <2>3. Setting(about[r])' = {s \in Setters : ev'[s].v = about'[r]}
    BY DEF Setting
  <2> QED BY <1>1, <2>1, <2>2, <2>3 DEF SeesAll, Setting
<1>2. ASSUME NEW v \in Videos, GetUserRating(r, v)
      PROVE  SeesAll(r)'
  BY <1>t, <1>2 DEF GetUserRating, Still, setter, SeesAll, Setting
<1>3. CASE about'[r] = NoVideo
  BY <1>3, RatingSetsAssumption DEF SeesAll
<1>4. \/ about'[r] = about[r] /\ saw[r] \subseteq saw'[r]
      \/ \E v \in Videos : GetUserRating(r, v)
      \/ about'[r] = NoVideo
  <2>1. CASE Apart(r)
    BY <2>1 DEF Apart
  <2>2. CASE Crash
    BY <2>2 DEF Crash
  <2>3. CASE GetRatingCache(r)
    BY <1>t, <2>3 DEF GetRatingCache, Login, ExistsLiked, ExistsDisliked, ReadRows, Fill, Expire, IsLiked, IsDisliked,
                      ReadFails, Leave, observers
  <2> QED BY <2>1, <2>2, <2>3, WhoSteps
<1> QED BY <1>1, <1>2, <1>3, <1>4

LEMMA InformedStays ==
  ASSUME TypeInv, WriteInv, ShownInv, [Next]_vars, NEW r \in Readers, SeesAll(r), Informed(r)
  PROVE  Informed(r)'
<1>t. /\ DOMAIN readPc = Readers /\ DOMAIN about = Readers /\ DOMAIN missing = Readers /\ DOMAIN isLiked = Readers
      /\ DOMAIN saw = Readers /\ DOMAIN found = Readers
      /\ (readPc[r] = "idle" => about[r] = NoVideo)
  BY DEF TypeInv, ReaderOK, AnswersOK
<1> SUFFICES ASSUME r \notin shaken', about'[r] \in Videos \ muddled', readPc'[r] # "idle"
             PROVE  Informed(r)'
  BY DEF Informed
<1>m. muddled \subseteq muddled'
  BY MuddledStays
<1>c. ~Crash
  BY DEF Crash
<1> DEFINE v == about[r]
<1>k. ASSUME about'[r] = about[r], readPc[r] # "idle", NEW k \in Keys, Knows(v, k)
      PROVE  Knows(v, k)'
  BY <1>k, <1>m, KnowsStays
<1>1. CASE Apart(r)
  <2>1. about[r] \in Videos \ muddled /\ r \notin shaken /\ readPc[r] # "idle"
    BY <1>1, <1>m DEF Apart
  <2>2. \A k \in Keys : Knows(v, k) => Knows(v, k)'
    BY <1>1, <2>1, <1>k DEF Apart
  <2>3. Look(r) => Look(r)'
    BY <1>1 DEF Apart, Look
  <2>4. Like \in Keys
    BY TwoKeys
  <2>5. /\ readPc'[r] = "existsOther" /\ ~missing'[r] => Knows(v, Like)'
        /\ readPc'[r] = "fillOther" => Knows(v, Like)'
        /\ readPc'[r] \in {"expire", "expireOther", "member", "memberOther"} => \A k \in Keys : Knows(v, k)'
        /\ readPc'[r] = "memberOther" => Look(r)'
    BY <1>1, <2>1, <2>2, <2>3, <2>4 DEF Informed, Apart
  <2>6. about'[r] = v
    BY <1>1 DEF Apart
  <2> QED BY <2>5, <2>6 DEF Informed, Knows, Within, Cached, AtRem, Setting
<1>2. CASE GetRatingCache(r)
  <2>a. \/ about'[r] = about[r] /\ about[r] \in Videos \ muddled /\ r \notin shaken /\ readPc[r] # "idle"
        \/ readPc'[r] = "exists"
    <3>1. ASSUME NEW w \in Videos, GetUserRating(r, w)
          PROVE  readPc'[r] = "exists"
      BY <1>t, <3>1 DEF GetUserRating, At
    <3>2. CASE Login(r) \/ IsDisliked(r)
      BY <1>t, <1>m, <3>2, RatingSetsAssumption DEF Login, IsDisliked, Leave, At
    <3>3. CASE ExistsLiked(r) \/ ExistsDisliked(r) \/ ReadRows(r) \/ Fill(r) \/ IsLiked(r)
      BY <1>t, <1>m, <3>3 DEF ExistsLiked, ExistsDisliked, ReadRows, Fill, SAdd, IsLiked, observers
    <3>4. CASE Expire(r) \/ ReadFails(r)
      BY <1>t, <1>m, <3>4, RatingSetsAssumption DEF Expire, ReadFails, Warmed, Calm, Leave, At
    <3> QED BY <1>2, <3>1, <3>2, <3>3, <3>4 DEF GetRatingCache
  <2> SUFFICES ASSUME about'[r] = about[r], about[r] \in Videos \ muddled, r \notin shaken, readPc[r] # "idle"
               PROVE  Informed(r)'
    BY <2>a DEF Informed
  <2>k. \A k \in Keys : Knows(v, k) => Knows(v, k)'
    BY <1>k
  <2>l. Like \in Keys /\ Dislike \in Keys /\ Keys = {Like, Dislike}
    BY TwoKeys
  <2>f. \A k \in Keys : set[k] # {} => Knows(v, k)
    BY DEF ShownInv, Shown, Knows
  <2>1. CASE ExistsLiked(r)
    <3>1. readPc'[r] = "existsOther" /\ (~missing'[r] => set[Like] # {})
      BY <1>t, <2>1 DEF ExistsLiked, At
    <3>2. ~missing'[r] => Knows(v, Like)'
      BY <2>k, <2>l, <2>f, <3>1
    <3> QED BY <3>1, <3>2 DEF Informed
  <2>2. CASE ExistsDisliked(r)
    <3>1. /\ readPc[r] = "existsOther" /\ readPc'[r] \in {"rows", "member"}
          /\ readPc'[r] = "member" => ~missing[r] /\ set[Dislike] # {}
      BY <1>t, <2>2 DEF ExistsDisliked, At
    <3>2. readPc'[r] = "member" => Knows(v, Like) /\ Knows(v, Dislike)
      BY <2>l, <2>f, <3>1 DEF Informed
    <3>3. readPc'[r] = "member" => \A k \in Keys : Knows(v, k)'
      BY <2>k, <2>l, <3>2
    <3> QED BY <3>1, <3>3 DEF Informed
  <2>3. CASE ReadRows(r)
    <3>1. readPc'[r] = "fill"
      BY <1>t, <2>3 DEF ReadRows, At
    <3> QED BY <3>1 DEF Informed
  <2>4. CASE Fill(r)
    <3>1. \/ readPc[r] = "fill" /\ readPc'[r] = "fillOther"
          \/ readPc[r] = "fillOther" /\ readPc'[r] = "expire"
      BY <1>t, <2>4 DEF Fill, At
    <3>2. \A k \in Keys : k = (IF readPc[r] = "fill" THEN Like ELSE Dislike) => Knows(v, k)'
      BY <2>4, FillKnows
    <3>3. CASE readPc[r] = "fill"
      <4>1. Knows(v, Like)'
        BY <2>l, <3>2, <3>3
      <4> QED BY <3>1, <3>3, <4>1 DEF Informed
    <3>4. CASE readPc[r] = "fillOther"
      <4>1. Knows(v, Like)'
        BY <2>k, <2>l, <3>4 DEF Informed
      <4>2. Knows(v, Dislike)'
        BY <2>l, <3>2, <3>4
      <4>3. \A k \in Keys : Knows(v, k)'
        BY <2>l, <4>1, <4>2
      <4> QED BY <3>1, <3>4, <4>3 DEF Informed
    <3> QED BY <3>1, <3>3, <3>4
  <2>5. CASE Expire(r)
    <3>1. readPc[r] \in {"expire", "expireOther"} /\ readPc'[r] \in {"expireOther", "member"}
      BY <1>t, <2>5, RatingSetsAssumption DEF Expire, Warmed, At
    <3>2. \A k \in Keys : Knows(v, k)'
      BY <2>k, <3>1 DEF Informed
    <3> QED BY <3>1, <3>2 DEF Informed
  <2>6. CASE IsLiked(r)
    <3>1. /\ readPc[r] = "member" /\ readPc'[r] = "memberOther" /\ (isLiked'[r] <=> v \in set[Like])
          /\ saw' = saw /\ Like \notin bare
      BY <1>t, <2>6 DEF IsLiked, At
    <3>2. \A k \in Keys : Knows(v, k) /\ Knows(v, k)'
      BY <2>k, <3>1 DEF Informed
    <3>3. (v \in set[Like] => Like \in saw[r]) /\ (v \notin set[Like] => \E x \in saw[r] : x # Like)
      BY <2>l, <3>1, <3>2, Glance
    <3>4. Look(r)'
      BY <3>1, <3>3 DEF Look
    <3> QED BY <3>1, <3>2, <3>4 DEF Informed
  <2>7. CASE ReadFails(r)
    <3>1. \/ readPc[r] \in {"expire", "expireOther"} /\ readPc'[r] \in {"expireOther", "member"}
          \/ readPc'[r] = "idle" \/ r \in shaken'
      BY <1>t, <2>7, RatingSetsAssumption DEF ReadFails, Warmed, Leave, At
    <3>2. readPc[r] \in {"expire", "expireOther"} => \A k \in Keys : Knows(v, k)'
      BY <2>k DEF Informed
    <3> QED BY <3>1, <3>2 DEF Informed
  <2>8. ~Login(r) /\ ~IsDisliked(r) /\ \A w \in Videos : ~GetUserRating(r, w)
    BY <1>t DEF Login, IsDisliked, Leave, At, GetUserRating
  <2> QED BY <1>2, <2>1, <2>2, <2>3, <2>4, <2>5, <2>6, <2>7, <2>8 DEF GetRatingCache
<1> QED BY <1>1, <1>2, <1>c, WhoSteps

LEMMA TruthfulStays ==
  ASSUME TypeInv, ShownInv, [Next]_vars, NEW r \in Readers, SeesAll(r), Informed(r), Truthful(r)
  PROVE  Truthful(r)'
<1>t. DOMAIN answer = Readers /\ DOMAIN saw = Readers /\ (readPc[r] \in AtVideo => about[r] \in Videos)
      /\ saw[r] \subseteq Statuses
  BY DEF TypeInv, ReaderOK, AnswersOK
<1>1. CASE answer'[r] = answer[r] /\ saw[r] \subseteq saw'[r]
  BY <1>1 DEF Truthful
<1>2. CASE answer'[r] = Unknown
  BY <1>2 DEF Truthful
<1>3. CASE IsDisliked(r)
  <2> DEFINE v == about[r]
  <2>1. readPc[r] = "memberOther" /\ v \in Videos /\ saw' = saw
    BY <1>t, <1>3 DEF IsDisliked, AtVideo
  <2> SUFFICES ASSUME v \notin muddled, r \notin shaken, Dislike \notin bare
               PROVE  Truthful(r)'
    <3>1. ~(v \notin muddled /\ r \notin shaken /\ Dislike \notin bare) => answer'[r] = Unknown
      BY <1>t, <1>3 DEF IsDisliked, Told
    <3> QED BY <1>2, <3>1
  <2>2. answer'[r] = IF isLiked[r] THEN Like ELSE IF v \in set[Dislike] THEN Dislike ELSE None
    BY <1>t, <1>3 DEF IsDisliked, Told
  <2>3. Look(r) /\ Knows(v, Dislike)
    BY <2>1, TwoKeys DEF Informed
  <2>4. (v \in set[Dislike] => Dislike \in saw[r]) /\ (v \notin set[Dislike] => \E x \in saw[r] : x # Dislike)
    BY <2>1, <2>3, Glance, TwoKeys
  <2>5. CASE isLiked[r]
    BY <2>1, <2>2, <2>3, <2>5 DEF Look, Truthful
  <2>6. CASE ~isLiked[r] /\ v \in set[Dislike]
    BY <2>1, <2>2, <2>4, <2>6 DEF Truthful
  <2>7. CASE ~isLiked[r] /\ v \notin set[Dislike]
    <3>1. PICK x, y \in saw[r] : x # Like /\ y # Dislike
      BY <2>3, <2>4, <2>7 DEF Look
    <3>2. None \in saw[r] \/ Keys \subseteq saw[r]
      BY <1>t, <3>1, TwoKeys
    <3> QED BY <2>1, <2>2, <2>7, <3>2 DEF Truthful
  <2> QED BY <2>5, <2>6, <2>7
<1>4. (answer'[r] = answer[r] /\ saw[r] \subseteq saw'[r]) \/ answer'[r] = Unknown \/ IsDisliked(r)
  <2>1. CASE Apart(r)
    BY <2>1 DEF Apart
  <2>2. CASE Crash
    BY <2>2 DEF Crash
  <2>3. CASE GetRatingCache(r)
    BY <1>t, <2>3 DEF GetRatingCache, GetUserRating, Login, Told, ExistsLiked, ExistsDisliked, ReadRows, Fill, Expire,
                      IsLiked, ReadFails, observers
  <2> QED BY <2>1, <2>2, <2>3, WhoSteps
<1> QED BY <1>1, <1>2, <1>3, <1>4

LEMMA ReadInvariant == Spec => []ReadInv
<1>1. Init => ReadInv
  BY RatingSetsAssumption DEF Init, ReadInv, SeesAll, Informed, Truthful
<1>2. TypeInv /\ WriteInv /\ ShownInv /\ ReadInv /\ [Next]_vars => ReadInv'
  BY SeesAllStays, InformedStays, TruthfulStays DEF ReadInv
<1> QED BY <1>1, <1>2, TypeInvariant, WriteInvariant, ShownInvariant, PTL DEF Spec

\* A reader is told a rating the video had while he asked, or between two opposite ones
\* none, with any number of readers, warm-ups and requests at once.
THEOREM ReadersAreTold == Spec => []ReadsTell
<1>1. ReadInv => ReadsTell
  BY DEF ReadInv, Truthful, ReadsTell
<1> QED BY <1>1, ReadInvariant, PTL
=============================================================================
