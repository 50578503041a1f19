----------------------------- MODULE RatingSets -----------------------------
(***************************************************************************)
(* What one account reads of its own ratings.  Two Redis sets, of the      *)
(* videos it likes and of those it dislikes, are filled from the table     *)
(* when one of them is missing or the account logs in, are changed by      *)
(* SetUserRating before the table is, and end after seven days or when     *)
(* their last member goes.                                                 *)
(*                                                                         *)
(* The table lags behind by a queue: its worker (Rating has it in detail)  *)
(* is one step here.  A set is named by the status of its members.         *)
(***************************************************************************)
EXTENDS Integers, Sequences, FiniteSets

CONSTANTS
  Videos,
  Setters,       \* goroutines that serve SetUserRating
  Readers,       \* goroutines that serve GetUserRating and Login
  NoVideo,       \* the member 0 that keeps a set from vanishing; no video
  MaxSets,       \* bound: ratings in a behaviour
  MaxFaults      \* bound: failed calls and crashes in a behaviour

ASSUME RatingSetsAssumption ==
  /\ NoVideo \notin Videos
  /\ MaxSets \in Nat /\ MaxFaults \in Nat

Like == 1
Dislike == -1
None == 0
Statuses == {Dislike, None, Like}
Keys == {Like, Dislike}     \* account:<id>:liked and account:<id>:disliked
Members == Videos \cup {NoVideo}
Event == [v : Videos, s : Statuses]
Lists == [Keys -> SUBSET Members]

VARIABLES
  rows,       \* video_ratings of the account
  set,        \* the Redis sets; an empty one is no key
  mortal,     \* the keys that have a time to live
  queue,      \* rating.events
  setPc, ev,  \* SetUserRating
  readPc,
  about,      \* the video whose rating is read, NoVideo at a login
  missing,    \* a set was found missing
  found,      \* what the warm-up read from the table
  isLiked,    \* the first answer of the two
  sets, faults,
  \* observers, read by no action
  wish,       \* the rating the account last gave
  saw,        \* the ratings a reader may be told
  answer,     \* what he was told last, if he was told from the sets
  muddled,    \* videos rated by two requests at a time, or during a warm-up, or with a failure
  bare,       \* keys that SetUserRating made, not a warm-up
  shaken      \* readers who looked into such a key, under whom one, or any by its time, ended,
              \* or whose warm-up failed

setter == <<setPc, ev>>
reader == <<readPc, about, missing, found, isLiked>>
observers == <<wish, saw, answer, muddled, bare, shaken>>
vars == <<rows, set, mortal, queue, setter, reader, sets, faults, observers>>

NoEvent == [v |-> NoVideo, s |-> None]
Unknown == 2
Warming == {"fill", "fillOther"}          \* between the warm-up's read and its last SADD
Reading == {"exists", "existsOther", "rows", "expire", "expireOther", "member", "memberOther"} \cup Warming

TypeOK ==
  /\ rows \in [Videos -> Statuses]
  /\ set \in Lists
  /\ mortal \subseteq Keys
  /\ queue \in Seq(Event)
  /\ setPc \in [Setters -> {"idle", "cacheAdd", "cacheRem", "publish"}]
  /\ ev \in [Setters -> Event \cup {NoEvent}]
  /\ readPc \in [Readers -> Reading \cup {"idle"}]
  /\ about \in [Readers -> Members]
  /\ missing \in [Readers -> BOOLEAN]
  /\ found \in [Readers -> Lists]
  /\ isLiked \in [Readers -> BOOLEAN]
  /\ sets \in 0..MaxSets
  /\ faults \in 0..MaxFaults
  /\ wish \in [Videos -> Statuses]
  /\ saw \in [Readers -> SUBSET Statuses]
  /\ answer \in [Readers -> Statuses \cup {Unknown}]
  /\ muddled \subseteq Videos
  /\ bare \subseteq Keys
  /\ shaken \subseteq Readers

NoLists == [k \in Keys |-> {}]

\* The table may hold ratings from before.
Init ==
  /\ rows \in [Videos -> Statuses]
  /\ set = NoLists /\ mortal = {}
  /\ queue = <<>>
  /\ setPc = [s \in Setters |-> "idle"]
  /\ ev = [s \in Setters |-> NoEvent]
  /\ readPc = [r \in Readers |-> "idle"]
  /\ about = [r \in Readers |-> NoVideo]
  /\ missing = [r \in Readers |-> FALSE]
  /\ found = [r \in Readers |-> NoLists]
  /\ isLiked = [r \in Readers |-> FALSE]
  /\ sets = 0 /\ faults = 0
  /\ wish = rows
  /\ saw = [r \in Readers |-> {}]
  /\ answer = [r \in Readers |-> Unknown]
  /\ muddled = {} /\ bare = {} /\ shaken = {}

Fault == faults < MaxFaults /\ faults' = faults + 1
Setting(v) == {s \in Setters : ev[s].v = v}
Underway(v) == Setting(v) # {} \/ \E i \in DOMAIN queue : queue[i].v = v

----------------------------------------------------------------------------
(* Redis *)

Asking == {r \in Readers : readPc[r] # "idle"}

SAdd(k, members, made) ==
  /\ set' = [set EXCEPT ![k] = @ \cup members]
  /\ bare' = IF made THEN bare \ {k} ELSE IF set[k] = {} THEN bare \cup {k} ELSE bare
  /\ UNCHANGED <<mortal, shaken>>

SRem(k, v) ==
  /\ set' = [set EXCEPT ![k] = @ \ {v}]
  /\ mortal' = IF set[k] \subseteq {v} THEN mortal \ {k} ELSE mortal
  /\ bare' = IF set[k] \subseteq {v} THEN bare \ {k} ELSE bare
  /\ shaken' = IF set[k] = {v} /\ k \in bare THEN shaken \cup Asking ELSE shaken

\* A set ends after its time to live.
SetEnds(k) ==
  /\ k \in mortal
  /\ set' = [set EXCEPT ![k] = {}]
  /\ mortal' = mortal \ {k} /\ bare' = bare \ {k}
  /\ shaken' = shaken \cup Asking
  /\ UNCHANGED <<rows, queue, setter, reader, sets, faults, wish, saw, answer, muddled>>

----------------------------------------------------------------------------
(* SetUserRating *)

Goto(s, label) == setPc' = [setPc EXCEPT ![s] = label]

Begin(s, v, stat) ==
  /\ setPc[s] = "idle"
  /\ sets < MaxSets /\ sets' = sets + 1
  /\ Goto(s, "cacheAdd")
  /\ ev' = [ev EXCEPT ![s] = [v |-> v, s |-> stat]]
  /\ saw' = [r \in Readers |-> IF about[r] = v THEN saw[r] \cup {stat} ELSE saw[r]]
  /\ muddled' = IF Setting(v) # {} \/ \E r \in Readers : readPc[r] \in Warming
                THEN muddled \cup {v} ELSE muddled
  /\ UNCHANGED <<rows, set, mortal, queue, reader, faults, wish, answer, bare, shaken>>

\* Mutant: the rating is left to the next warm-up.
CacheAddNothing(s) ==
  /\ setPc[s] = "cacheAdd"
  /\ Goto(s, "cacheRem")
  /\ IF ev[s].s = None THEN SRem(Dislike, ev[s].v) ELSE UNCHANGED <<set, mortal, bare, shaken>>
  /\ UNCHANGED <<rows, queue, ev, reader, sets, faults, wish, saw, answer, muddled>>

\* UpdateRatingCache: add to the set of the status, or remove from the disliked ones ...
CacheAdd(s) ==
  /\ setPc[s] = "cacheAdd"
  /\ Goto(s, "cacheRem")
  /\ IF ev[s].s = None THEN SRem(Dislike, ev[s].v) ELSE SAdd(ev[s].s, {ev[s].v}, FALSE)
  /\ UNCHANGED <<rows, queue, ev, reader, sets, faults, wish, saw, answer, muddled>>

\* Mutant: the other set is left alone.
CacheRemNothing(s) ==
  /\ setPc[s] = "cacheRem"
  /\ Goto(s, "publish")
  /\ wish' = [wish EXCEPT ![ev[s].v] = ev[s].s]
  /\ UNCHANGED <<rows, set, mortal, bare, queue, ev, reader, sets, faults, saw, answer, muddled, shaken>>

\* ... and remove from the other one.
CacheRem(s) ==
  /\ setPc[s] = "cacheRem"
  /\ Goto(s, "publish")
  /\ SRem(IF ev[s].s = Like THEN Dislike ELSE Like, ev[s].v)
  /\ wish' = [wish EXCEPT ![ev[s].v] = ev[s].s]
  /\ UNCHANGED <<rows, queue, ev, reader, sets, faults, saw, answer, muddled>>

\* The errors of both are ignored.
CacheFails(s) ==
  /\ setPc[s] \in {"cacheAdd", "cacheRem"}
  /\ Fault
  /\ Goto(s, IF setPc[s] = "cacheAdd" THEN "cacheRem" ELSE "publish")
  /\ muddled' = muddled \cup {ev[s].v}
  /\ UNCHANGED <<rows, set, mortal, queue, ev, reader, sets, wish, saw, answer, bare, shaken>>

Done(s) == Goto(s, "idle") /\ ev' = [ev EXCEPT ![s] = NoEvent]

Publish(s) ==
  /\ setPc[s] = "publish"
  /\ queue' = Append(queue, ev[s])
  /\ Done(s)
  /\ UNCHANGED <<rows, set, mortal, reader, sets, faults, observers>>

\* The broker cannot be reached: the request writes the table, before what is queued.
WriteDirectly(s) ==
  /\ setPc[s] = "publish"
  /\ Fault
  /\ rows' = [rows EXCEPT ![ev[s].v] = ev[s].s]
  /\ Done(s)
  /\ muddled' = muddled \cup {ev[s].v}
  /\ UNCHANGED <<set, mortal, queue, reader, sets, wish, saw, answer, bare, shaken>>

----------------------------------------------------------------------------
(* The worker *)

RatingHandler ==
  /\ queue # <<>>
  /\ rows' = [rows EXCEPT ![Head(queue).v] = Head(queue).s]
  /\ queue' = Tail(queue)
  /\ UNCHANGED <<set, mortal, setter, reader, sets, faults, observers>>

\* The event is dropped after its attempts.
HandlerFails ==
  /\ queue # <<>>
  /\ Fault
  /\ queue' = Tail(queue)
  /\ muddled' = muddled \cup {Head(queue).v}
  /\ UNCHANGED <<rows, set, mortal, setter, reader, sets, wish, saw, answer, bare, shaken>>

----------------------------------------------------------------------------
(* GetRatingCache, and the warm-up after a login *)

At(r, label) == readPc' = [readPc EXCEPT ![r] = label]
Still == UNCHANGED <<rows, queue, setter, sets, faults>>
Told(r, stat) == answer' = [answer EXCEPT ![r] = stat]

GetUserRating(r, v) ==
  /\ readPc[r] = "idle"
  /\ At(r, "exists")
  /\ about' = [about EXCEPT ![r] = v]
  /\ saw' = [saw EXCEPT ![r] = {wish[v]} \cup {ev[s].s : s \in Setting(v)}]
  /\ Told(r, Unknown)
  /\ UNCHANGED <<set, mortal, missing, found, isLiked, wish, muddled, bare, shaken>> /\ Still

Login(r) ==
  /\ readPc[r] = "idle"
  /\ At(r, "rows")
  /\ Told(r, Unknown) /\ saw' = [saw EXCEPT ![r] = {}]
  /\ UNCHANGED <<set, mortal, about, missing, found, isLiked, wish, muddled, bare, shaken>> /\ Still

ExistsLiked(r) ==
  /\ readPc[r] = "exists"
  /\ missing' = [missing EXCEPT ![r] = set[Like] = {}]
  /\ At(r, "existsOther")
  /\ UNCHANGED <<set, mortal, about, found, isLiked, observers>> /\ Still

\* Mutant: the warm-up waits until both sets are missing.
ExistsBoth(r) ==
  /\ readPc[r] = "existsOther"
  /\ At(r, IF missing[r] /\ set[Dislike] = {} THEN "rows" ELSE "member")
  /\ missing' = [missing EXCEPT ![r] = FALSE]
  /\ UNCHANGED <<set, mortal, about, found, isLiked, observers>> /\ Still

ExistsDisliked(r) ==
  /\ readPc[r] = "existsOther"
  /\ At(r, IF missing[r] \/ set[Dislike] = {} THEN "rows" ELSE "member")
  /\ missing' = [missing EXCEPT ![r] = FALSE]
  /\ UNCHANGED <<set, mortal, about, found, isLiked, observers>> /\ Still

Rated(k) == {v \in Videos : rows[v] = k}

ReadRows(r) ==
  /\ readPc[r] = "rows"
  /\ found' = [found EXCEPT ![r] = [k \in Keys |-> IF Rated(k) = {} THEN {NoVideo} ELSE Rated(k)]]
  /\ At(r, "fill")
  /\ muddled' = muddled \cup {v \in Videos : Underway(v)}
  /\ UNCHANGED <<set, mortal, about, missing, isLiked, wish, saw, answer, bare, shaken>> /\ Still

Fill(r) ==
  /\ \/ readPc[r] = "fill" /\ SAdd(Like, found[r][Like], TRUE) /\ At(r, "fillOther")
     \/ readPc[r] = "fillOther" /\ SAdd(Dislike, found[r][Dislike], TRUE) /\ At(r, "expire")
  /\ found' = [found EXCEPT ![r][IF readPc[r] = "fill" THEN Like ELSE Dislike] = {}]
  /\ UNCHANGED <<about, missing, isLiked, wish, saw, answer, muddled>> /\ Still

\* After the warm-up a login ends and a reader goes on.
Warmed(r) == At(r, IF about[r] = NoVideo THEN "idle" ELSE "member")
Calm(r) == shaken' = IF about[r] = NoVideo THEN shaken \ {r} ELSE shaken

Expire(r) ==
  /\ \/ /\ readPc[r] = "expire" /\ At(r, "expireOther")
        /\ mortal' = mortal \cup {k \in {Like} : set[k] # {}} /\ UNCHANGED shaken
     \/ /\ readPc[r] = "expireOther" /\ Warmed(r)
        /\ mortal' = mortal \cup {k \in {Dislike} : set[k] # {}} /\ Calm(r)
  /\ UNCHANGED <<set, about, missing, found, isLiked, wish, saw, answer, muddled, bare>> /\ Still

IsLiked(r) ==
  /\ readPc[r] = "member"
  /\ isLiked' = [isLiked EXCEPT ![r] = about[r] \in set[Like]]
  /\ shaken' = IF Like \in bare THEN shaken \cup {r} ELSE shaken
  /\ At(r, "memberOther")
  /\ UNCHANGED <<set, mortal, about, missing, found, wish, saw, answer, muddled, bare>> /\ Still

\* The request ends: what it had in hand is forgotten.
Leave(r) ==
  /\ At(r, "idle")
  /\ about' = [about EXCEPT ![r] = NoVideo]
  /\ missing' = [missing EXCEPT ![r] = FALSE]
  /\ found' = [found EXCEPT ![r] = NoLists]
  /\ isLiked' = [isLiked EXCEPT ![r] = FALSE]
  /\ shaken' = shaken \ {r}

IsDisliked(r) ==
  LET v == about[r]
      stat == IF isLiked[r] THEN Like ELSE IF v \in set[Dislike] THEN Dislike ELSE None
  IN /\ readPc[r] = "memberOther"
     /\ Leave(r)
     /\ Told(r, IF v \in muddled \/ r \in shaken \/ Dislike \in bare THEN Unknown ELSE stat)
     /\ UNCHANGED <<set, mortal, wish, saw, muddled, bare>> /\ Still

\* Filling and expiring go on after an error; behind the others the reader is told what
\* the table says, and a login ends.
ReadFails(r) ==
  /\ Fault
  /\ \/ /\ readPc[r] \in Warming
        /\ At(r, IF readPc[r] = "fill" THEN "fillOther" ELSE "expire")
        /\ found' = [found EXCEPT ![r][IF readPc[r] = "fill" THEN Like ELSE Dislike] = {}]
        /\ shaken' = shaken \cup {r}
        /\ UNCHANGED <<about, missing, isLiked>>
     \/ /\ readPc[r] = "expire" /\ At(r, "expireOther") /\ UNCHANGED <<about, missing, found, isLiked, shaken>>
     \/ readPc[r] = "expireOther" /\ Warmed(r) /\ Calm(r) /\ UNCHANGED <<about, missing, found, isLiked>>
     \/ readPc[r] \in {"exists", "existsOther", "rows", "member", "memberOther"} /\ Leave(r)
  /\ UNCHANGED <<rows, set, mortal, queue, setter, sets, wish, saw, answer, muddled, bare>>

\* The API process dies.
Crash ==
  /\ Fault
  /\ setPc' = [s \in Setters |-> "idle"]
  /\ ev' = [s \in Setters |-> NoEvent]
  /\ readPc' = [r \in Readers |-> "idle"]
  /\ about' = [r \in Readers |-> NoVideo]
  /\ missing' = [r \in Readers |-> FALSE]
  /\ found' = [r \in Readers |-> NoLists]
  /\ isLiked' = [r \in Readers |-> FALSE]
  /\ shaken' = {}
  /\ muddled' = muddled \cup {v \in Videos : Setting(v) # {}}
  /\ UNCHANGED <<rows, set, mortal, queue, sets, wish, saw, answer, bare>>

SetUserRating(s) ==
  \/ \E v \in Videos, stat \in Statuses : Begin(s, v, stat)
  \/ CacheAdd(s) \/ CacheRem(s) \/ CacheFails(s) \/ Publish(s) \/ WriteDirectly(s)

GetRatingCache(r) ==
  \/ \E v \in Videos : GetUserRating(r, v)
  \/ Login(r) \/ ExistsLiked(r) \/ ExistsDisliked(r) \/ ReadRows(r) \/ Fill(r)
  \/ Expire(r) \/ IsLiked(r) \/ IsDisliked(r) \/ ReadFails(r)

Next ==
  \/ \E s \in Setters : SetUserRating(s)
  \/ \E r \in Readers : GetRatingCache(r)
  \/ RatingHandler \/ HandlerFails
  \/ \E k \in Keys : SetEnds(k)
  \/ Crash

Spec == Init /\ [][Next]_vars

----------------------------------------------------------------------------
(* Properties *)

Settled == {v \in Videos \ muddled : ~Underway(v)}

\* Once its rating is in the table, a video is in the set of no other status; a rating
\* that was taken back does not come back with a warm-up, unless one overlapped it.
NothingMadeUp ==
  \A k \in Keys, v \in Settled : v \in set[k] => rows[v] = k

\* A set that is there holds every rating of its status, unless SetUserRating made it
\* and no warm-up has filled it since.
NothingForgotten ==
  \A k \in Keys, v \in Settled : set[k] # {} /\ rows[v] = k => v \in set[k] \/ k \in bare

\* A reader is told a rating the video had while he asked, however the warm-ups of
\* others and the expiry of the sets fell in between; between two opposite ratings
\* he may be told there is none.
ReadsTell ==
  \A r \in Readers :
    answer[r] \in saw[r] \cup {Unknown} \/ (answer[r] = None /\ Keys \subseteq saw[r])
=============================================================================
