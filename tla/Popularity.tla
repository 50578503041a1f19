----------------------------- MODULE Popularity -----------------------------
(***************************************************************************)
(* The popularity ranking.  Likes and comments publish an event; the       *)
(* worker adds each to the bucket of the minute; a reader merges the       *)
(* buckets of the last hour into the snapshot of the current minute and    *)
(* pages through it by offset, as long as the snapshot he started with     *)
(* (as_of) is there, and else through the snapshot of the current minute.  *)
(*                                                                         *)
(* A sorted set is its scores; a member of score 0 is none, since every    *)
(* change is +1, and a set without members is no key.  Buckets live two    *)
(* hours, longer than any snapshot that counts them, and do not end here.  *)
(***************************************************************************)
EXTENDS Integers, Sequences, FiniteSets, Functions, SequencesExt

CONSTANTS
  MaxRanked,     \* videos, numbered
  Readers,
  Window,        \* minutes a snapshot counts (60)
  SnapTTL,       \* minutes a snapshot lives (2)
  Limit,         \* videos on a page
  MaxTries,      \* attempts of the consumer per event (4)
  MaxEvents,     \* bound: likes and comments in a behaviour
  MaxMinute,     \* bound: minutes in a behaviour
  MaxHeatFaults  \* bound: failed calls and crashes in a behaviour

ASSUME PopularityAssumption ==
  /\ {MaxRanked, Window, SnapTTL, Limit, MaxTries} \subseteq Nat \ {0}
  /\ {MaxEvents, MaxMinute, MaxHeatFaults} \subseteq Nat

Videos == 1..MaxRanked
NoVideo == 0
Minutes == 0..MaxMinute
NoMinute == -1
Forever == MaxMinute + SnapTTL + 1
Nothing == [v \in Videos |-> 0]

VARIABLES
  now,        \* the minute
  bucket,     \* hot:video:1m:<minute>
  snap,       \* hot:video:60m:<minute>
  dies,       \* the minute in which that key's time to live ends
  queue, cur, \* popularity.events, and the event the consumer handles
  consPc, tries,
  into,       \* the minute whose bucket the consumer writes
  readPc,     \* where a reader's request is
  from,       \* the minute whose snapshot the request reads
  asOf, offset, more,   \* what the reader was told: as_of, offset, has_more
  accepted,   \* likes and comments so far
  heatFaults,
  \* observers, read by no action
  effects,    \* how often the event in hand was counted
  unsure,     \* videos with an event that was lost, dropped or counted twice
  late,       \* minutes whose bucket was written after the minute
  base,       \* the snapshot a reader saw his first page of
  seen, shownTwice,  \* what his pages showed
  unmoored    \* readers whose snapshot ended, or could not be written

consumer == <<cur, consPc, tries, into>>
reader == <<readPc, from, asOf, offset, more>>
pages == <<base, seen, shownTwice>>
heatVars == <<now, bucket, snap, dies, queue, consumer, reader, accepted, heatFaults,
          effects, unsure, late, pages, unmoored>>

Scores == [Videos -> Nat]

HeatTypeOK ==
  /\ now \in Minutes
  /\ bucket \in [Minutes -> Scores]
  /\ snap \in [Minutes -> Scores]
  /\ dies \in [Minutes -> 0..Forever]
  /\ queue \in Seq(Videos)
  /\ cur \in Videos \cup {NoVideo}
  /\ consPc \in {"idle", "pick", "incr", "ack"}
  /\ tries \in 0..MaxTries
  /\ into \in Minutes \cup {NoMinute}
  /\ readPc \in [Readers -> {"idle", "exists", "union", "expire", "range", "done"}]
  /\ from \in [Readers -> Minutes \cup {NoMinute}]
  /\ asOf \in [Readers -> Minutes \cup {NoMinute}]
  /\ offset \in [Readers -> Nat]
  /\ more \in [Readers -> BOOLEAN]
  /\ accepted \in Scores
  /\ heatFaults \in 0..MaxHeatFaults
  /\ effects \in Nat
  /\ unsure \subseteq Videos /\ late \subseteq Minutes
  /\ base \in [Readers -> Scores]
  /\ seen \in [Readers -> SUBSET Videos] /\ shownTwice \in [Readers -> SUBSET Videos]
  /\ unmoored \subseteq Readers

HeatInit ==
  /\ now = 0
  /\ bucket = [m \in Minutes |-> Nothing]
  /\ snap = [m \in Minutes |-> Nothing]
  /\ dies = [m \in Minutes |-> Forever]
  /\ queue = <<>> /\ cur = NoVideo /\ consPc = "idle" /\ tries = 0 /\ into = NoMinute
  /\ readPc = [r \in Readers |-> "idle"]
  /\ from = [r \in Readers |-> NoMinute]
  /\ asOf = [r \in Readers |-> NoMinute]
  /\ offset = [r \in Readers |-> 0]
  /\ more = [r \in Readers |-> TRUE]
  /\ accepted = Nothing
  /\ heatFaults = 0
  /\ effects = 0 /\ unsure = {} /\ late = {}
  /\ base = [r \in Readers |-> Nothing]
  /\ seen = [r \in Readers |-> {}] /\ shownTwice = [r \in Readers |-> {}]
  /\ unmoored = {}

HeatFault == heatFaults < MaxHeatFaults /\ heatFaults' = heatFaults + 1
Total(f) == FoldFunction(+, 0, f)

----------------------------------------------------------------------------
(* Likes and comments: the event is published last, its error is ignored *)

Accept(v) ==
  /\ Total(accepted) < MaxEvents
  /\ accepted' = [accepted EXCEPT ![v] = @ + 1]
  /\ UNCHANGED <<now, bucket, snap, dies, consumer, reader, effects, late, pages, unmoored>>

PublishHeat(v) ==
  /\ Accept(v)
  /\ queue' = Append(queue, v)
  /\ UNCHANGED <<heatFaults, unsure>>

PublishHeatFails(v) ==
  /\ Accept(v)
  /\ HeatFault
  /\ unsure' = unsure \cup {v}
  /\ UNCHANGED queue

----------------------------------------------------------------------------
(* The consumer *)

Receive ==
  /\ consPc = "idle" /\ queue # <<>>
  /\ cur' = Head(queue) /\ queue' = Tail(queue)
  /\ consPc' = "pick"
  /\ UNCHANGED <<now, bucket, snap, dies, tries, into, reader, accepted, heatFaults, effects,
                 unsure, late, pages, unmoored>>

\* Every attempt takes the minute anew.
PickMinute ==
  /\ consPc = "pick"
  /\ into' = now
  /\ consPc' = "incr"
  /\ UNCHANGED <<now, bucket, snap, dies, queue, cur, tries, reader, accepted, heatFaults, effects,
                 unsure, late, pages, unmoored>>

ZIncrBy ==
  /\ bucket' = [bucket EXCEPT ![into][cur] = @ + 1]
  /\ effects' = effects + 1
  /\ late' = IF into < now THEN late \cup {into} ELSE late

UpdatePopularity ==
  /\ consPc = "incr"
  /\ ZIncrBy
  /\ consPc' = "ack"
  /\ UNCHANGED <<now, snap, dies, queue, cur, tries, into, reader, accepted, heatFaults, unsure,
                 pages, unmoored>>

\* The call fails, or its answer does not come in time.
UpdateFails ==
  /\ consPc = "incr"
  /\ HeatFault
  /\ \/ ZIncrBy
     \/ UNCHANGED <<bucket, effects, late>>
  /\ tries' = tries + 1
  /\ consPc' = IF tries' < MaxTries THEN "pick" ELSE "ack"
  /\ UNCHANGED <<now, snap, dies, queue, cur, into, reader, accepted, unsure, pages, unmoored>>

Forget == cur' = NoVideo /\ consPc' = "idle" /\ into' = NoMinute /\ tries' = 0 /\ effects' = 0

\* Mutant: the event is not taken off the queue.
AckKeeps ==
  /\ consPc = "ack"
  /\ Forget
  /\ queue' = <<cur>> \o queue
  /\ unsure' = IF effects # 1 THEN unsure \cup {cur} ELSE unsure
  /\ UNCHANGED <<now, bucket, snap, dies, reader, accepted, heatFaults, late, pages, unmoored>>

\* The event is accepted whether or not it was counted.
Ack ==
  /\ consPc = "ack"
  /\ Forget
  /\ unsure' = IF effects # 1 THEN unsure \cup {cur} ELSE unsure
  /\ UNCHANGED <<now, bucket, snap, dies, queue, reader, accepted, heatFaults, late, pages, unmoored>>

\* The worker process dies; the broker takes its event back.
HeatCrash ==
  /\ consPc # "idle"
  /\ HeatFault
  /\ queue' = <<cur>> \o queue
  /\ Forget
  /\ unsure' = IF effects > 0 THEN unsure \cup {cur} ELSE unsure
  /\ UNCHANGED <<now, bucket, snap, dies, reader, accepted, late, pages, unmoored>>

----------------------------------------------------------------------------
(* ListByPopularity *)

\* Mutant: the current minute is counted, which is still filling.
MergeNow(m) ==
  [v \in Videos |-> Total([i \in 0..Window-1 |-> IF m - i \in Minutes THEN bucket[m - i][v] ELSE 0])]

Merge(m) ==
  [v \in Videos |-> Total([i \in 1..Window |-> IF m - i \in Minutes THEN bucket[m - i][v] ELSE 0])]

Members(s) == {v \in Videos : s[v] > 0}
Rank(s, v) == Cardinality({u \in Members(s) : s[u] > s[v] \/ (s[u] = s[v] /\ u > v)})

\* Mutant: one member more than the limit stays on the page.
PageLong(s, first) == {v \in Members(s) : Rank(s, v) \in first..first + Limit}

\* ZREVRANGE from the offset, without the member that only tells there are more.
Page(s, first) == {v \in Members(s) : Rank(s, v) \in first..first + Limit - 1}

Step(r, label) == readPc' = [readPc EXCEPT ![r] = label]
World == <<now, bucket, queue, consumer, accepted, effects, unsure, late>>

Ask(r) ==
  /\ readPc[r] = "idle"
  /\ from' = [from EXCEPT ![r] = now]
  /\ Step(r, IF asOf[r] = NoMinute THEN "union" ELSE "exists")
  /\ UNCHANGED <<World, snap, dies, asOf, offset, more, heatFaults, pages, unmoored>>

Exists(r) ==
  /\ readPc[r] = "exists"
  /\ IF snap[asOf[r]] # Nothing
     THEN Step(r, "range") /\ from' = [from EXCEPT ![r] = asOf[r]]
     ELSE Step(r, "union") /\ UNCHANGED from
  /\ UNCHANGED <<World, snap, dies, asOf, offset, more, heatFaults, pages, unmoored>>

\* ZUNIONSTORE replaces the key and with it its time to live.
ZUnionStore(r) ==
  /\ readPc[r] = "union"
  /\ snap' = [snap EXCEPT ![from[r]] = Merge(from[r])]
  /\ dies' = [dies EXCEPT ![from[r]] = Forever]
  /\ Step(r, "expire")
  /\ UNCHANGED <<World, from, asOf, offset, more, heatFaults, pages, unmoored>>

ExpireSnap(r) ==
  /\ readPc[r] = "expire"
  /\ dies' = [dies EXCEPT ![from[r]] = IF snap[from[r]] = Nothing THEN Forever ELSE now + SnapTTL]
  /\ Step(r, "range")
  /\ UNCHANGED <<World, snap, from, asOf, offset, more, heatFaults, pages, unmoored>>

ZRevRange(r) ==
  LET s == snap[from[r]]
      page == Page(s, offset[r])
  IN /\ readPc[r] = "range"
     /\ asOf' = [asOf EXCEPT ![r] = from[r]]
     /\ offset' = [offset EXCEPT ![r] = @ + Limit]
     /\ more' = [more EXCEPT ![r] = Cardinality(Members(s)) > offset[r] + Limit]
     /\ Step(r, IF more'[r] THEN "idle" ELSE "done")
     /\ from' = [from EXCEPT ![r] = NoMinute]
     /\ base' = IF asOf[r] = NoMinute THEN [base EXCEPT ![r] = s] ELSE base
     /\ seen' = [seen EXCEPT ![r] = @ \cup page]
     /\ shownTwice' = [shownTwice EXCEPT ![r] = @ \cup (seen[r] \cap page)]
     /\ UNCHANGED <<World, snap, dies, heatFaults, unmoored>>

\* The errors of merging and expiring are ignored; the others end the request, and
\* the reader asks again.
ReadFails(r) ==
  /\ HeatFault
  /\ \/ readPc[r] = "union" /\ Step(r, "expire") /\ unmoored' = unmoored \cup {r} /\ UNCHANGED from
     \/ readPc[r] = "expire" /\ Step(r, "range") /\ UNCHANGED <<unmoored, from>>
     \/ /\ readPc[r] \in {"exists", "range"}
        /\ Step(r, "idle") /\ from' = [from EXCEPT ![r] = NoMinute] /\ UNCHANGED unmoored
  /\ UNCHANGED <<World, snap, dies, asOf, offset, more, pages>>

----------------------------------------------------------------------------
(* Time.  A snapshot ends at some moment of the minute its time to live ends *)
(* in; no call takes longer than a minute.                                    *)

SnapEnds(m) ==
  /\ snap[m] # Nothing
  /\ dies[m] <= now
  /\ snap' = [snap EXCEPT ![m] = Nothing]
  /\ dies' = [dies EXCEPT ![m] = Forever]
  /\ unmoored' = unmoored \cup {r \in Readers : asOf[r] = m}
  /\ UNCHANGED <<World, reader, heatFaults, pages>>

Tick ==
  /\ now < MaxMinute
  /\ \A m \in Minutes : snap[m] # Nothing => dies[m] > now
  /\ consPc = "incr" => into = now
  /\ \A r \in Readers : readPc[r] \in {"union", "expire", "range"} => from[r] \in {now, asOf[r]}
  /\ now' = now + 1
  /\ UNCHANGED <<bucket, snap, dies, queue, consumer, reader, accepted, heatFaults, effects, unsure, late,
                 pages, unmoored>>

PopularityHandler == Receive \/ PickMinute \/ UpdatePopularity \/ UpdateFails \/ Ack \/ HeatCrash
ListByPopularity(r) == Ask(r) \/ Exists(r) \/ ZUnionStore(r) \/ ExpireSnap(r) \/ ZRevRange(r) \/ ReadFails(r)

HeatNext ==
  \/ \E v \in Videos : PublishHeat(v) \/ PublishHeatFails(v)
  \/ PopularityHandler
  \/ \E r \in Readers : ListByPopularity(r)
  \/ \E m \in Minutes : SnapEnds(m)
  \/ Tick

HeatSpec == HeatInit /\ [][HeatNext]_heatVars

----------------------------------------------------------------------------
(* Properties *)

\* Every like and comment is in one bucket once, or still on its way, unless its
\* event was lost, dropped, or counted by a call that also failed.
HeatConserved ==
  \A v \in Videos \ unsure :
    accepted[v] = Total([m \in Minutes |-> bucket[m][v]])
                  + Cardinality({i \in DOMAIN queue : queue[i] = v})
                  + (IF cur = v /\ effects = 0 THEN 1 ELSE 0)
                  - (IF cur = v /\ effects > 1 THEN effects - 1 ELSE 0)

\* A snapshot counts the minutes before its own, which are over: it equals the sum
\* of their buckets for as long as it lives, unless one was written late.
SnapshotExact ==
  \A m \in Minutes : snap[m] # Nothing =>
    snap[m] = Merge(m) \/ late \cap (m - Window)..(m - 1) # {}

\* as_of and offset: a reader who goes on where he was told sees the ranking of his
\* first page to its end, every video once, however many others make snapshots,
\* unless his snapshot ended or a bucket it counts was written late.
PagesStable ==
  \A r \in Readers :
    \/ asOf[r] = NoMinute \/ r \in unmoored
    \/ late \cap (asOf[r] - Window)..(asOf[r] - 1) # {}
    \/ /\ seen[r] = {v \in Members(base[r]) : Rank(base[r], v) < offset[r]}
       /\ shownTwice[r] = {}
       /\ readPc[r] = "done" => seen[r] = Members(base[r])
=============================================================================
