----------------------------- MODULE GlobalFeed -----------------------------
(***************************************************************************)
(* A reader pages down the global feed while Timeline goes on: videos are  *)
(* published, added, trimmed, rebuilt and deleted between his pages and    *)
(* between the calls of one page: the watermark, the members of the sorted *)
(* set, the videos themselves, the table.                                  *)
(***************************************************************************)
EXTENDS Timeline

CONSTANT PageSize

ASSUME PageSizeAssumption == PageSize \in Nat \ {0}

Pages == INSTANCE Paging WITH TimeOf <- [v \in Videos |-> v], Now <- MaxVideos + 1

VARIABLES
  readPc,   \* the next call of the page
  cursor,   \* the cursor he was given
  upto,     \* reqTime
  hot,      \* what the page has from the sorted set
  hotMore,
  \* observers, read by no action
  seen,     \* videos shown to him
  again,    \* he was shown one twice
  due       \* stored when he began, not shown, never seen missing between set and table

page == <<upto, hot, hotMore>>
reading == <<readPc, cursor, page, seen, again, due>>
feedVars == <<vars, reading>>

FeedTypeOK ==
  /\ readPc \in {"new", "tail", "members", "entities"}
  /\ cursor \in Pages!Cursors
  /\ upto \in 0..MaxVideos + 1
  /\ hot \subseteq Videos /\ hotMore \in BOOLEAN
  /\ seen \subseteq Videos /\ again \in BOOLEAN /\ due \subseteq Videos

FeedInit ==
  /\ Init
  /\ readPc = "new" /\ cursor = Pages!Start
  /\ upto = 0 /\ hot = {} /\ hotMore = FALSE
  /\ seen = {} /\ again = FALSE /\ due = {}

Zset == [m \in timeline |-> m]
ById(S) == [v \in S |-> v]

\* Without a cursor the time of the request is now: newer videos are not looked for.
ReqTime == IF cursor = Pages!Start THEN published + 1 ELSE cursor[1]

\* The answer: the videos of both parts and the cursor of the last one.
Answer(vs, cold, more) ==
  /\ readPc' = "tail"
  /\ upto' = 0 /\ hot' = {} /\ hotMore' = FALSE
  /\ cursor' = IF ~more \/ vs \cup cold = {} THEN Pages!End
               ELSE Pages!At(Pages!LastOf(ById(Videos), IF cold = {} THEN vs ELSE cold))
  /\ seen' = seen \cup vs \cup cold
  /\ again' = (again \/ vs \cap cold # {} \/ seen \cap (vs \cup cold) # {})
  /\ due' = (IF readPc = "new" THEN db ELSE due) \ (vs \cup cold)

\* A page from the table alone: there is no set, even after ensureTimeline, a command of
\* Redis failed, or the cursor is not above the watermark.  What was read before is
\* forgotten, so the query is made in the step that turns to it.
listFromDB ==
  LET vs == Pages!ListLatest(db, cursor, PageSize + 1)
  IN Answer({}, Pages!FirstN(ById(Videos), vs, PageSize), Cardinality(vs) > PageSize)

Watermark ==
  /\ readPc \in {"new", "tail"} /\ cursor # Pages!End
  /\ \/ /\ timeline # {} /\ ~Pages!BelowWatermark(Zset, <<ReqTime, 0>>)
        /\ readPc' = "members" /\ upto' = ReqTime
        /\ due' = IF readPc = "new" THEN db ELSE due
        /\ UNCHANGED <<cursor, hot, hotMore, seen, again>>
     \/ listFromDB

HotMembers ==
  LET found == Pages!ZRevRangeByScore(Zset, <<upto, cursor[2]>>, PageSize + 1)
  IN /\ readPc = "members"
     /\ hot' = Pages!FirstN(Zset, found, PageSize) \ {Placeholder}
     /\ hotMore' = (Cardinality(found) > PageSize)
     /\ readPc' = "entities"
     /\ due' = {v \in due : Shown(v)}
     /\ UNCHANGED <<cursor, upto, seen, again>>

HotMembersFail == readPc = "members" /\ listFromDB

\* The videos that still exist, and some of the deleted ones, from the caches: whatever
\* is found so may still be found so when the table is read, in the same step here.
Entities(vs) == hot \cap db \subseteq vs /\ vs \subseteq hot

\* The page is filled up from the table, behind the last video found.
Stitch(vs) ==
  LET remain == PageSize - Cardinality(vs)
      cold == Pages!ListLatest(db, Pages!ColdFrom(ById(Videos), vs, cursor), remain + 1)
  IN Answer(vs, Pages!FirstN(ById(Videos), cold, remain), Cardinality(cold) >= remain)

\* Mutant: a page that the last members fill up is taken for the last page.
GetByIDsAllShown(vs) ==
  /\ readPc = "entities" /\ Entities(vs)
  /\ \/ hot # {} /\ vs = {} /\ listFromDB
     \/ (hot = {} \/ vs # {}) /\ (hotMore \/ Cardinality(vs) = PageSize) /\ Answer(vs, {}, hotMore)
     \/ (hot = {} \/ vs # {}) /\ ~hotMore /\ Cardinality(vs) < PageSize /\ Stitch(vs)

GetByIDs(vs) ==
  /\ readPc = "entities" /\ Entities(vs)
  /\ \/ hot # {} /\ vs = {} /\ listFromDB
     \/ (hot = {} \/ vs # {}) /\ (hotMore \/ Cardinality(vs) = PageSize) /\ Answer(vs, {}, TRUE)
     \/ (hot = {} \/ vs # {}) /\ ~hotMore /\ Cardinality(vs) < PageSize /\ Stitch(vs)

\* A page that ends with an error, or with its process, is asked for again.
PageFails ==
  /\ readPc \in {"members", "entities"}
  /\ readPc' = "tail"
  /\ upto' = 0 /\ hot' = {} /\ hotMore' = FALSE
  /\ UNCHANGED <<cursor, seen, again, due>>

ReadPage ==
  \/ Watermark \/ HotMembers \/ HotMembersFail \/ (\E vs \in SUBSET hot : GetByIDs(vs)) \/ PageFails

FeedNext == (Next /\ UNCHANGED reading) \/ (ReadPage /\ UNCHANGED vars)

FeedSpec == FeedInit /\ [][FeedNext]_feedVars

----------------------------------------------------------------------------
\* Whatever happens between the pages of a reader and between the calls of a page, he is
\* shown no video twice, and every video that is stored from his first page on is shown
\* or still ahead of his cursor, when he ends all of them are shown: unless it was missing
\* between set and table while a page was read, for which NoHole has the reasons.
NothingSkipped ==
  /\ ~again
  /\ \A v \in due \cap db : Pages!Older(cursor, v)
=============================================================================
