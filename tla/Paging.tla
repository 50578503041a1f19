------------------------------- MODULE Paging -------------------------------
(***************************************************************************)
(* One page of a feed, as a function of what Redis and the database hold:  *)
(* a hot part from a sorted set of video ids, stitched to a cold part from *)
(* the table, and the cursor of the next page; and a feed read to its end. *)
(*                                                                         *)
(* A sorted set is a function from members to scores.  A part of a page is *)
(* a set, since its order is given.  A cursor is <<time, id>> of the last  *)
(* video shown.  Equal scores are ordered by id; Redis compares digits.    *)
(***************************************************************************)
EXTENDS Integers, FiniteSets

CONSTANTS
  PageSize,
  TimeOf,       \* creation time of each video, in milliseconds
  Now           \* the time of the reader

ASSUME PagingAssumption ==
  /\ PageSize \in Nat \ {0}
  /\ Now \in Nat /\ IsFiniteSet(DOMAIN TimeOf)
  /\ \A v \in DOMAIN TimeOf : v \in Nat \ {0} /\ TimeOf[v] \in 1..Now-1

Placeholder == 0     \* the member "0", of score 0, of a set built from no video
Start == <<Now, 0>>  \* no cursor yet
End == <<0, 0>>      \* no cursor any more: nothing is older
At(v) == <<TimeOf[v], v>>
Cursors == {Start, End} \cup {At(v) : v \in DOMAIN TimeOf}

\* The order by f and then id, newest first.
Later(f, v, w) == f[v] > f[w] \/ (f[v] = f[w] /\ v > w)
FirstN(f, S, n) == {v \in S : Cardinality({w \in S : Later(f, w, v)}) < n}
LastOf(f, S) == CHOOSE v \in S : \A w \in S \ {v} : Later(f, w, v)

Older(c, v) == TimeOf[v] < c[1] \/ (TimeOf[v] = c[1] /\ v < c[2])
ListLatest(DB, c, n) == FirstN(TimeOf, {v \in DB : Older(c, v)}, n)

\* Twice as many members are fetched as asked for; those of the cursor's own
\* millisecond and those with a larger id are passed over.
ZRevRangeByScore(Z, c, n) ==
  LET fetched == FirstN(Z, {m \in DOMAIN Z : Z[m] <= c[1]}, 2 * n)
  IN FirstN(Z, {m \in fetched : Z[m] # c[1] /\ (c[2] > 0 => m < c[2])}, n)

\* What the set yields: its members, the videos that still exist, and whether a
\* further member is known.
Hot(Z, DB, c) ==
  LET found == ZRevRangeByScore(Z, c, PageSize + 1)
      ids == FirstN(Z, found, PageSize) \ {Placeholder}
  IN [ids |-> ids, vs |-> ids \cap DB, more |-> Cardinality(found) > PageSize]

\* The cursor is the last video's own time, whatever its score.
Answer(Z, hot, cold, more) ==
  [shown |-> hot \cup cold,
   twice |-> hot \cap cold,
   next  |-> IF ~more \/ hot \cup cold = {} THEN End
             ELSE At(IF cold = {} THEN LastOf(Z, hot) ELSE LastOf(TimeOf, cold))]

FromDB(DB, c) ==
  LET vs == ListLatest(DB, c, PageSize + 1)
  IN Answer(TimeOf, {}, FirstN(TimeOf, vs, PageSize), Cardinality(vs) > PageSize)

\* Not newer than the watermark, the least score; or no set at all.
BelowWatermark(Z, c) == \A m \in DOMAIN Z : c[1] <= Z[m]

\* Where the cold part begins.  Mutant of the next operator.
ColdFromStart(Z, hot, c) == c
ColdFrom(Z, hot, c) == IF hot = {} THEN c ELSE At(LastOf(Z, hot))

\* ListByFollowing: mine are the videos of the authors followed.
FollowingPage(Z, DB, mine, c) ==
  LET hot == Hot(Z, DB, c)
      remain == PageSize - Cardinality(hot.vs)
      cold == ListLatest(mine, ColdFrom(Z, hot.vs, c), remain + 1)
  IN IF BelowWatermark(Z, c) THEN FromDB(mine, c)
     ELSE IF hot.more \/ remain = 0 THEN Answer(Z, hot.vs, {}, TRUE)
     ELSE Answer(Z, hot.vs, FirstN(TimeOf, cold, remain), Cardinality(cold) > remain)

\* A feed read to its end, given the page at each cursor: every page but the last
\* shows a video at least.
Reading(page) ==
  LET pages[n \in Nat] ==
        IF n = 0 THEN [seen |-> {}, twice |-> {}, at |-> Start]
        ELSE LET r == pages[n - 1]
                 p == page[r.at]
             IN IF r.at = End THEN r
                ELSE [seen |-> r.seen \cup p.shown,
                      twice |-> r.twice \cup p.twice \cup (r.seen \cap p.shown),
                      at |-> p.next]
  IN pages[2 * Cardinality(DOMAIN TimeOf) + 1]
=============================================================================
