----------------------------- MODULE CacheProofs ------------------------------
(***************************************************************************)
(* Proofs about Sessions and VideoCache, the two parts that keep rows of   *)
(* the database in Redis as well: for any number of accounts, videos,      *)
(* requests, tokens and faults, the types, that used tokens die, that an   *)
(* account has one working token, that the last session a client was given *)
(* works, that the users table follows, and why a cached entity is stale.  *)
(***************************************************************************)
EXTENDS Sessions, VideoCache, SequenceTheorems, TLAPS

LEMMA TokenType == NoToken \in MaybeToken /\ Tokens \subseteq MaybeToken /\ NoToken \notin Tokens
  BY DEF MaybeToken, Tokens, NoToken

LEMMA FaultType == ASSUME TypeOK, Fault PROVE faults' \in 0..MaxFaults
  BY SessionsAssumption DEF TypeOK, Fault

LEMMA RemoveType ==
  ASSUME TypeOK, NEW i \in DOMAIN writes
  PROVE  RemoveAt(writes, i) \in Seq(Write)
<1>1. i \in 1..Len(writes) /\ Len(writes) \in Nat /\ writes \in Seq(Write)
  BY DEF TypeOK
<1>2. SubSeq(writes, 1, i - 1) \in Seq(Write)
  BY <1>1, SubSeqProperties
<1>3. SubSeq(writes, i + 1, Len(writes)) \in Seq(Write)
  BY <1>1, SubSeqProperties
<1> QED BY <1>2, <1>3, ConcatProperties DEF RemoveAt

----------------------------------------------------------------------------
(***************************************************************************)
(* What a request has in hand: a session that nobody was told of, and that *)
(* no other request issues, and a token of its own account.                *)
(***************************************************************************)

Issued == DOMAIN owner
Storing == {"storeAccess", "storeCurrent", "storeToken"}

Idle == \A r \in Requests :
  /\ pc[r] = "idle" <=> who[r] = NoAccount
  /\ pc[r] = "idle" => fresh[r] = NoToken /\ shown[r] = NoToken
FreshOwn == \A r \in Requests :
  /\ fresh[r] # NoToken => fresh[r] \in Issued /\ owner[fresh[r]] = who[r] /\ fresh[r] \notin told
  /\ pc[r] \in {"findOld", "dropOld"} \cup Storing => fresh[r] # NoToken
  /\ pc[r] = "dropAccess" => fresh[r] = NoToken
FreshAlone == \A r, q \in Requests : fresh[r] = fresh[q] => r = q \/ fresh[r] = NoToken
ShownOwn == \A r \in Requests :
  /\ pc[r] \in {"dropOld", "dropShown"} => shown[r] \in Issued /\ owner[shown[r]] = who[r]
  /\ pc[r] = "dropShown" => shown[r] \in told
CurrentOwn == \A a \in Accounts : current[a] # NoToken => current[a] \in Issued /\ owner[current[a]] = a
AllTold == alive \subseteq told /\ used \subseteq told
TypeInv == TypeOK /\ Idle /\ FreshOwn /\ FreshAlone /\ ShownOwn /\ CurrentOwn /\ AllTold

LEMMA TypeInvInit == Init => TypeInv
  BY SessionsAssumption
  DEF Init, TypeInv, TypeOK, Idle, FreshOwn, FreshAlone, ShownOwn, CurrentOwn, AllTold, Issued, Storing,
      MaybeToken, Tokens, NoToken, PCs

\* The start of a request.
LEMMA StartType ==
  ASSUME TypeInv, NEW r \in Requests, NEW a \in Accounts, NEW given \in MaybeToken, NEW new \in {NoToken, Issue},
         NEW label \in {"findOld", "dropShown"},
         Start(r, a, given, new, label), used' = used \cup ({given} \ {NoToken}),
         new = NoToken \/ CanIssue,
         label = "findOld" => new # NoToken,
         label = "dropShown" => given \in told /\ owner[given] = a,
         given \in told \cup {NoToken}
  PROVE  TypeInv'
<1> USE DEF TypeInv, redis, request, clients, observers
<1>0. /\ Len(owner) \in Nat /\ Issued = 1..Len(owner) /\ Issue = Len(owner) + 1 /\ Issue # NoToken
      /\ Issue \notin Issued /\ told \subseteq Issued /\ NoToken \notin Issued
  BY DEF TypeOK, Issued, Issue, NoToken
<1>1. /\ owner' \in Seq(Accounts) /\ Len(owner') <= MaxTokens /\ Issued' = Issued \cup ({new} \ {NoToken})
      /\ \A t \in Issued : owner'[t] = owner[t]
      /\ new # NoToken => owner'[new] = a
  <2>1. CASE new = NoToken
    BY <1>0, <2>1 DEF Start, TypeOK, Issued
  <2>2. CASE new = Issue
    <3>1. owner' = Append(owner, a) /\ Len(owner) < MaxTokens /\ owner \in Seq(Accounts)
      BY <1>0, <2>2 DEF Start, CanIssue, TypeOK
    <3>2. owner' \in Seq(Accounts) /\ Len(owner') = Len(owner) + 1 /\ owner'[Len(owner) + 1] = a
          /\ \A t \in 1..Len(owner) : owner'[t] = owner[t]
      BY <3>1, AppendProperties
    <3>3. DOMAIN owner' = 1..Len(owner')
      BY <3>2
    <3>4. Len(owner') <= MaxTokens
      BY <1>0, <3>1, <3>2, SessionsAssumption
    <3> QED BY <1>0, <2>2, <3>2, <3>3, <3>4 DEF Issued
  <2> QED BY <2>1, <2>2
<1>2. new \in MaybeToken /\ label \in PCs /\ a # NoAccount
  BY <1>0, SessionsAssumption DEF CanIssue, Tokens, MaybeToken, TypeOK, PCs
<1>3. entangled' \subseteq Tokens /\ used' \subseteq Tokens
  <2>1. Mixed(a, given, new) \subseteq Tokens
    BY <1>2 DEF Mixed, InHand, Busy, MaybeToken, TypeOK
  <2> QED BY <2>1 DEF Start, TypeOK, MaybeToken
<1>4. TypeOK'
  BY <1>0, <1>1, <1>2, <1>3 DEF TypeOK, Start, Goto, Issued
<1>5. Idle' /\ FreshAlone'
  BY <1>0, <1>2 DEF TypeOK, Idle, FreshAlone, FreshOwn, Start, Goto
<1>6. FreshOwn' /\ ShownOwn'
  BY <1>0, <1>1 DEF TypeOK, FreshOwn, ShownOwn, Start, Goto, Storing
<1>7. CurrentOwn' /\ AllTold'
  BY <1>0, <1>1 DEF TypeOK, CurrentOwn, AllTold, Start
<1> QED BY <1>4, <1>5, <1>6, <1>7

\* A request that goes on, or ends.
LEMMA ProceedType ==
  ASSUME TypeInv, NEW r \in Requests, Proceed(r)
  PROVE  /\ pc' \in [Requests -> PCs] /\ who' \in [Requests -> Accounts \cup {NoAccount}]
         /\ shown' \in [Requests -> MaybeToken] /\ fresh' \in [Requests -> MaybeToken]
         /\ writes' \in Seq(Write) /\ owner' = owner /\ told' \subseteq Issued /\ told \subseteq told'
         /\ Idle' /\ FreshOwn' /\ FreshAlone' /\ ShownOwn'
<1> USE DEF TypeInv, clients
<1>1. CASE Finish(r) /\ pc[r] \in {"dropAccess", "storeToken"}
  <2>1. /\ writes' \in Seq(Write) /\ told' \subseteq Issued
    <3>1. who[r] \in Accounts /\ fresh[r] \in MaybeToken
      BY <1>1 DEF Idle, TypeOK
    <3>2. [a |-> who[r], t |-> fresh[r]] \in Write
      BY <3>1 DEF Write
    <3> QED BY <1>1, <3>2 DEF Finish, TypeOK, FreshOwn, Issued
  <2>2. /\ pc' \in [Requests -> PCs] /\ who' \in [Requests -> Accounts \cup {NoAccount}]
        /\ shown' \in [Requests -> MaybeToken] /\ fresh' \in [Requests -> MaybeToken]
    BY <1>1, TokenType DEF Finish, Goto, TypeOK, PCs
  <2>3. Idle' /\ FreshAlone'
    BY <1>1 DEF Finish, Goto, TypeOK, Idle, FreshAlone
  <2>4. FreshOwn' /\ ShownOwn'
    BY <1>1 DEF Finish, Goto, TypeOK, FreshOwn, ShownOwn, FreshAlone, Storing, Issued
  <2> QED BY <1>1, <2>1, <2>2, <2>3, <2>4 DEF Finish
<1>2. ASSUME NEW label \in {"dropCurrent", "dropAccess"} \cup Storing, pc[r] # "idle", GoOn(r, label),
             label \in Storing => fresh[r] # NoToken,
             label = "dropAccess" => fresh[r] = NoToken
      PROVE  /\ pc' \in [Requests -> PCs] /\ UNCHANGED <<who, shown, fresh, clients, writes>>
             /\ Idle' /\ FreshOwn' /\ FreshAlone' /\ ShownOwn'
  BY <1>2 DEF GoOn, Goto, TypeOK, Idle, FreshOwn, FreshAlone, ShownOwn, Storing, Issued, PCs
<1>3. CASE \E label \in {"dropCurrent", "dropAccess"} \cup Storing :
             /\ pc[r] # "idle" /\ GoOn(r, label)
             /\ label \in Storing => fresh[r] # NoToken
             /\ label = "dropAccess" => fresh[r] = NoToken
  BY <1>2, <1>3 DEF TypeOK, Issued
<1> QED BY <1>1, <1>3 DEF Proceed, FreshOwn, Storing

LEMMA TypeInvStep == TypeInv /\ [Next]_vars => TypeInv'
<1> SUFFICES ASSUME TypeInv, [Next]_vars PROVE TypeInv'
  OBVIOUS
<1> USE DEF TypeInv, redis, request, clients, observers
<1>0. /\ \A r \in Requests : pc[r] # "idle" => who[r] \in Accounts
      /\ \A r \in Requests : fresh[r] # NoToken => fresh[r] \in Tokens
      /\ NoToken \in MaybeToken
  BY TokenType DEF TypeOK, Idle, MaybeToken
<1>1. ASSUME NEW r \in Requests, NEW a \in Accounts, Login(r, a) PROVE TypeInv'
  <2>1. Issue # NoToken /\ used' = used \cup ({NoToken} \ {NoToken})
    BY <1>1 DEF Login, Issue, NoToken, TypeOK
  <2> QED BY <1>0, <1>1, <2>1, StartType DEF Login
<1>2. ASSUME NEW r \in Requests, NEW t \in Tokens, Refresh(r, t) \/ Logout(r, t) PROVE TypeInv'
  <2>1. /\ t \in MaybeToken /\ t # NoToken /\ t \in told /\ owner[t] \in Accounts
    BY <1>2, TokenType DEF Refresh, Logout, TypeOK
  <2>2. CASE Refresh(r, t)
    BY <2>1, <2>2, StartType DEF Refresh
  <2>3. CASE Logout(r, t)
    BY <1>0, <2>1, <2>3, StartType DEF Logout
  <2> QED BY <1>2, <2>2, <2>3
<1>3. ASSUME NEW r \in Requests, FindOld(r) PROVE TypeInv'
  <2>1. current[who[r]] \in MaybeToken /\ who[r] \in Accounts
    BY <1>0, <1>3 DEF FindOld, TypeOK
  <2>2. TypeOK'
    BY <1>3, <2>1 DEF FindOld, Quiet, Goto, TypeOK, PCs
  <2>3. Idle' /\ FreshOwn' /\ FreshAlone'
    BY <1>3 DEF FindOld, Quiet, Goto, TypeOK, Idle, FreshOwn, FreshAlone, Storing, Issued
  <2>4. ShownOwn'
    BY <1>3, <2>1 DEF FindOld, Quiet, Goto, TypeOK, ShownOwn, CurrentOwn, Issued
  <2>5. CurrentOwn' /\ AllTold'
    BY <1>3 DEF FindOld, Quiet, CurrentOwn, AllTold, Issued
  <2> QED BY <2>2, <2>3, <2>4, <2>5
<1>4. ASSUME NEW r \in Requests, Proceed(r), Quiet,
             access' \in [Accounts -> MaybeToken], current' \in [Accounts -> MaybeToken], alive' \subseteq Tokens,
             CurrentOwn', alive' \subseteq told'
      PROVE  TypeInv'
  BY <1>4, ProceedType DEF Quiet, TypeOK, AllTold, Issued
<1>5. ASSUME NEW r \in Requests, DropToken(r) PROVE TypeInv'
  BY <1>4, <1>5, ProceedType DEF DropToken, TypeOK, CurrentOwn, AllTold, Issued
<1>6. ASSUME NEW r \in Requests, DropCurrent(r) \/ DropAccess(r) PROVE TypeInv'
  <2>1. Proceed(r) /\ Quiet /\ owner' = owner /\ told \subseteq told' /\ alive' = alive
    BY <1>6, ProceedType DEF DropCurrent, DropAccess
  <2>2. /\ access' \in [Accounts -> MaybeToken] /\ current' \in [Accounts -> MaybeToken]
        /\ \A a \in Accounts : current'[a] \in {current[a], NoToken}
    BY <1>0, <1>6 DEF DropCurrent, DropAccess, TypeOK
  <2> QED BY <1>4, <2>1, <2>2 DEF TypeOK, CurrentOwn, AllTold, Issued
<1>7. ASSUME NEW r \in Requests, StoreAccess(r) PROVE TypeInv'
  BY <1>4, <1>7, ProceedType DEF StoreAccess, TypeOK, CurrentOwn, AllTold, Issued
<1>8. ASSUME NEW r \in Requests, StoreCurrent(r) PROVE TypeInv'
  <2>1. /\ Proceed(r) /\ Quiet /\ owner' = owner /\ told \subseteq told' /\ UNCHANGED <<access, alive>>
        /\ current' = [current EXCEPT ![who[r]] = fresh[r]]
    BY <1>8, ProceedType DEF StoreCurrent
  <2>2. fresh[r] \in Issued /\ owner[fresh[r]] = who[r] /\ fresh[r] \in MaybeToken
    BY <1>8 DEF StoreCurrent, FreshOwn, Storing, TypeOK
  <2>3. CurrentOwn'
    BY <2>1, <2>2 DEF CurrentOwn, TypeOK, Issued
  <2> QED BY <1>4, <2>1, <2>2, <2>3 DEF TypeOK, AllTold
<1>9. ASSUME NEW r \in Requests, StoreToken(r) PROVE TypeInv'
  <2>1. /\ Proceed(r) /\ Quiet /\ owner' = owner /\ told \subseteq told' /\ UNCHANGED <<access, current>>
        /\ alive' = alive \cup {fresh[r]} /\ pc[r] = "storeToken"
    BY <1>9, ProceedType DEF StoreToken
  <2>2. fresh[r] \in told' /\ fresh[r] \in Tokens
    BY <1>0, <2>1 DEF Proceed, Finish, FreshOwn, Storing
  <2> QED BY <1>4, <2>1, <2>2 DEF TypeOK, CurrentOwn, AllTold, Issued
<1>10. ASSUME NEW r \in Requests, CallFails(r) PROVE TypeInv'
  <2>1. faults' \in 0..MaxFaults /\ hit' \subseteq Tokens
    <3>1. Concerned(r) \subseteq Tokens
      BY <1>0, <1>10 DEF CallFails, Concerned, InHand, TypeOK, MaybeToken
    <3> QED BY <1>10, <3>1, FaultType DEF CallFails, TypeOK
  <2>2. CASE Proceed(r)
    BY <1>10, <2>1, <2>2, ProceedType DEF CallFails, TypeOK, CurrentOwn, AllTold, Issued
  <2>3. CASE pc[r] = "findOld" /\ GoOn(r, "storeAccess")
    BY <1>10, <2>1, <2>3
    DEF CallFails, GoOn, Goto, TypeOK, Idle, FreshOwn, FreshAlone, ShownOwn, CurrentOwn, AllTold, Storing, Issued, PCs
  <2> QED BY <1>10, <2>2, <2>3 DEF CallFails
<1>11. ASSUME NEW i \in DOMAIN writes, UpdateRefreshToken(i) \/ UpdateFails(i) PROVE TypeInv'
  <2>1. writes' \in Seq(Write) /\ writes[i] \in Write
    BY <1>11, RemoveType DEF UpdateRefreshToken, UpdateFails, TypeOK
  <2>2. writes[i].a \in Accounts /\ writes[i].t \in MaybeToken
    BY <2>1 DEF Write
  <2>3. TypeOK'
    <3>1. CASE UpdateRefreshToken(i)
      BY <2>1, <2>2, <3>1 DEF UpdateRefreshToken, TypeOK
    <3>2. CASE UpdateFails(i)
      BY <2>1, <2>2, <3>2, FaultType DEF UpdateFails, TypeOK
    <3> QED BY <1>11, <3>1, <3>2
  <2> QED
    BY <1>11, <2>3
    DEF UpdateRefreshToken, UpdateFails, Idle, FreshOwn, FreshAlone, ShownOwn, CurrentOwn, AllTold, Storing, Issued
<1>12. ASSUME NEW t \in Tokens, Lapse(t) PROVE TypeInv'
  <2>1. TypeOK'
    BY <1>0, <1>12 DEF Lapse, TypeOK
  <2> QED
    BY <1>12, <2>1 DEF Lapse, TypeOK, Idle, FreshOwn, FreshAlone, ShownOwn, CurrentOwn, AllTold, Storing, Issued
<1>13. CASE Crash
  <2>1. faults' \in 0..MaxFaults
    BY <1>13, FaultType DEF Crash
  <2>2. hit' \subseteq Tokens
    <3>1. \A r \in Requests : pc[r] # "idle" => Concerned(r) \subseteq Tokens
      BY <1>0 DEF Concerned, InHand, TypeOK, MaybeToken
    <3> QED BY <1>13, <3>1 DEF Crash, TypeOK
  <2>3. unsaved' \subseteq Accounts
    <3>1. \A i \in DOMAIN writes : writes[i].a \in Accounts
      <4>1. \A i \in DOMAIN writes : writes[i] \in Write
        BY DEF TypeOK
      <4> QED BY <4>1 DEF Write
    <3> QED BY <1>13, <3>1 DEF Crash, TypeOK
  <2>4. TypeOK'
    BY <1>0, <1>13, <2>1, <2>2, <2>3 DEF Crash, TypeOK, PCs
  <2> QED
    BY <1>13, <2>4 DEF Crash, Idle, FreshOwn, FreshAlone, ShownOwn, CurrentOwn, AllTold, Storing, Issued
<1>14. CASE UNCHANGED vars
  BY <1>14 DEF vars, TypeOK, Idle, FreshOwn, FreshAlone, ShownOwn, CurrentOwn, AllTold, Storing, Issued
<1> QED
  BY <1>1, <1>2, <1>3, <1>5, <1>6, <1>7, <1>8, <1>9, <1>10, <1>11, <1>12, <1>13, <1>14 DEF Next, Command

\* Every variable stays in its range, for any number of accounts and requests.
THEOREM TypeCorrect == Spec => []TypeOK
<1>1. Spec => []TypeInv
  BY TypeInvInit, TypeInvStep, PTL DEF Spec
<1> QED BY <1>1, PTL DEF TypeInv

----------------------------------------------------------------------------
(***************************************************************************)
(* A used token.  A new token was never used, since nobody was told of it. *)
(***************************************************************************)

LEMMA UsedStep == TypeInv /\ UsedTokensDie /\ [Next]_vars => UsedTokensDie'
<1> SUFFICES ASSUME TypeInv, UsedTokensDie, [Next]_vars PROVE UsedTokensDie'
  OBVIOUS
<1> USE DEF UsedTokensDie, TypeOK, redis, request, clients, observers
<1>0. TypeOK /\ FreshOwn /\ AllTold
  BY DEF TypeInv
<1>1. ASSUME NEW r \in Requests, NEW a \in Accounts, Login(r, a) PROVE UsedTokensDie'
  BY <1>0, <1>1 DEF Login, Start, Goto
<1>2. ASSUME NEW r \in Requests, NEW t \in Tokens, Refresh(r, t) PROVE UsedTokensDie'
  BY <1>0, <1>2 DEF Refresh, Start, Goto
<1>3. ASSUME NEW r \in Requests, NEW t \in Tokens, Logout(r, t) PROVE UsedTokensDie'
  BY <1>0, <1>3 DEF Logout, Start, Goto
<1>4. ASSUME NEW r \in Requests, FindOld(r) PROVE UsedTokensDie'
  BY <1>0, <1>4 DEF FindOld, Quiet, Goto
<1>5. ASSUME NEW r \in Requests, Proceed(r)
      PROVE  \A q \in Requests : q # r => pc'[q] = pc[q] /\ shown'[q] = shown[q]
  BY <1>0, <1>5 DEF Proceed, Finish, GoOn, Goto
<1>6. ASSUME NEW r \in Requests, DropToken(r) PROVE UsedTokensDie'
  <2>1. \A q \in Requests : q # r => pc'[q] = pc[q] /\ shown'[q] = shown[q]
    BY <1>5, <1>6 DEF DropToken
  <2> QED BY <1>6, <2>1 DEF DropToken, Quiet
<1>7. ASSUME NEW r \in Requests, DropCurrent(r) \/ DropAccess(r) \/ StoreAccess(r) \/ StoreCurrent(r)
      PROVE  UsedTokensDie'
  <2>1. /\ \A q \in Requests : q # r => pc'[q] = pc[q] /\ shown'[q] = shown[q]
        /\ pc[r] # "dropShown" /\ alive' = alive /\ used' = used /\ hit' = hit
    BY <1>5, <1>7 DEF DropCurrent, DropAccess, StoreAccess, StoreCurrent, Quiet
  <2> QED BY <2>1
<1>8. ASSUME NEW r \in Requests, StoreToken(r) PROVE UsedTokensDie'
  <2>1. /\ \A q \in Requests : q # r => pc'[q] = pc[q] /\ shown'[q] = shown[q]
        /\ pc[r] = "storeToken" /\ alive' = alive \cup {fresh[r]} /\ used' = used /\ hit' = hit
    BY <1>5, <1>8 DEF StoreToken, Quiet
  <2>2. fresh[r] \notin used
    BY <1>0, <2>1 DEF FreshOwn, AllTold, Storing
  <2> QED BY <2>1, <2>2
<1>9. ASSUME NEW r \in Requests, CallFails(r) PROVE UsedTokensDie'
  <2>1. /\ \A q \in Requests : q # r => pc'[q] = pc[q] /\ shown'[q] = shown[q]
        /\ alive' = alive /\ used' = used /\ hit' = hit \cup Concerned(r)
    BY <1>0, <1>5, <1>9 DEF CallFails, GoOn, Goto
  <2>2. shown[r] # NoToken => shown[r] \in Concerned(r)
    BY DEF Concerned, InHand
  <2> QED BY <1>0, <2>1, <2>2, TokenType
<1>10. ASSUME NEW i \in DOMAIN writes, UpdateRefreshToken(i) \/ UpdateFails(i) PROVE UsedTokensDie'
  BY <1>10 DEF UpdateRefreshToken, UpdateFails
<1>11. ASSUME NEW t \in Tokens, Lapse(t) PROVE UsedTokensDie'
  BY <1>11 DEF Lapse
<1>12. CASE Crash
  <2>1. \A r \in Requests : pc[r] = "dropShown" /\ shown[r] # NoToken => shown[r] \in hit'
    BY <1>12 DEF Crash, Concerned, InHand
  <2> QED BY <1>0, <1>12, <2>1, TokenType DEF Crash
<1>13. CASE UNCHANGED vars
  BY <1>13 DEF vars
<1> QED
  BY <1>1, <1>2, <1>3, <1>4, <1>6, <1>7, <1>8, <1>9, <1>10, <1>11, <1>12, <1>13 DEF Next, Command

\* A refresh token works once, for any number of accounts and of requests that
\* present it at the same time.
THEOREM TokensDie == Spec => []UsedTokensDie
<1>1. Init => UsedTokensDie
  BY DEF Init, UsedTokensDie
<1> QED BY <1>1, TypeInvInit, TypeInvStep, UsedStep, PTL DEF Spec

----------------------------------------------------------------------------
(***************************************************************************)
(* The registered token.  What a request has left of its account behind    *)
(* it, and, if nothing was beside it and nothing failed, ahead of it.      *)
(***************************************************************************)

Fine(t) == t # NoToken /\ t \notin Disturbed
Registered(r) == current[who[r]]

Behind == \A r \in Requests :
  /\ pc[r] \in {"dropOld", "dropShown"} => Registered(r) = shown[r] \/ ~Fine(Registered(r))
  /\ pc[r] \in {"dropCurrent", "dropAccess", "storeAccess", "storeCurrent"} =>
       Registered(r) \notin alive \/ ~Fine(Registered(r))
Ahead == \A r \in Requests : Fine(fresh[r]) =>
  /\ pc[r] \in {"storeCurrent", "storeToken"} => access[who[r]] = fresh[r]
  /\ pc[r] = "storeToken" => Registered(r) = fresh[r]
Overlapped == \A r, q \in Requests : r # q /\ who[r] = who[q] /\ who[r] # NoAccount => ~Fine(fresh[r])
TokenInv == Behind /\ Ahead /\ Overlapped /\ OneTokenPerAccount

LEMMA DisturbedGrows == [Next]_vars => Disturbed \subseteq Disturbed'
  BY DEF Disturbed, Next, vars, observers, Login, Refresh, Logout, Start, Command, FindOld, DropToken, DropCurrent,
         DropAccess, StoreAccess, StoreCurrent, StoreToken, CallFails, Quiet, UpdateRefreshToken, UpdateFails,
         Lapse, Crash

\* The start of a request tells which sessions it disturbs.
LEMMA StartTokens ==
  ASSUME TypeInv, TokenInv, Disturbed \subseteq Disturbed',
         NEW r \in Requests, NEW a \in Accounts, NEW given \in MaybeToken, NEW new \in {NoToken, Issue},
         NEW label \in {"findOld", "dropShown"}, Start(r, a, given, new, label),
         label = "dropShown" => given # NoToken
  PROVE  TokenInv'
<1> USE DEF redis, clients, request, TokenInv
<1>0. TypeOK /\ AllTold /\ Idle
  BY DEF TypeInv
<1>1. /\ UNCHANGED <<access, current, alive>> /\ pc[r] = "idle"
      /\ pc'[r] = label /\ who'[r] = a /\ shown'[r] = given /\ fresh'[r] = new
      /\ \A q \in Requests : q # r =>
           pc'[q] = pc[q] /\ who'[q] = who[q] /\ shown'[q] = shown[q] /\ fresh'[q] = fresh[q]
  BY <1>0 DEF Start, Goto, TypeOK
<1>2. \A t \in alive : owner'[t] = owner[t]
  <2>1. owner \in Seq(Accounts) /\ alive \subseteq DOMAIN owner
    BY <1>0 DEF TypeOK, AllTold
  <2> QED BY <2>1 DEF Start
<1>3. Behind'
  <2>1. label = "dropShown" => current[a] = given \/ ~Fine(current[a])'
    BY DEF Start, Mixed, Fine, Disturbed
  <2> QED BY <1>1, <2>1 DEF Behind, Registered, Fine
<1>4. Ahead'
  BY <1>1 DEF Ahead, Registered, Fine
<1>5. Overlapped'
  <2>1. ASSUME NEW q \in Requests, q # r, who[q] = a PROVE ~Fine(fresh[r])' /\ ~Fine(fresh[q])'
    <3>1. q \in Busy(a) /\ entangled' = entangled \cup Mixed(a, given, new)
      BY <2>1 DEF Start, Busy
    <3>2. fresh[q] # NoToken => fresh[q] \in UNION {InHand(x) : x \in Busy(a)}
      BY <3>1 DEF InHand
    <3>3. {new, fresh[q]} \subseteq entangled' \cup {NoToken}
      BY <3>1, <3>2 DEF Mixed
    <3>4. fresh'[q] = fresh[q]
      BY <1>1, <2>1
    <3> QED BY <1>1, <3>3, <3>4 DEF Fine, Disturbed
  <2> QED BY <1>1, <2>1 DEF Overlapped, Fine
<1>6. OneTokenPerAccount'
  BY <1>1, <1>2 DEF OneTokenPerAccount
<1> QED BY <1>3, <1>4, <1>5, <1>6

\* What going on means to the others, and where a request is then.
LEMMA ProceedMoves ==
  ASSUME TypeOK, NEW r \in Requests, Proceed(r)
  PROVE  /\ \A q \in Requests : q # r =>
              pc'[q] = pc[q] /\ who'[q] = who[q] /\ shown'[q] = shown[q] /\ fresh'[q] = fresh[q]
         /\ owner' = owner
         /\ \/ pc'[r] = "idle" /\ who'[r] = NoAccount /\ fresh'[r] = NoToken
               /\ pc[r] \in {"dropAccess", "storeToken"} /\ told' = told \cup ({fresh[r]} \ {NoToken})
            \/ /\ who'[r] = who[r] /\ fresh'[r] = fresh[r] /\ shown'[r] = shown[r] /\ told' = told
               /\ \/ pc[r] \in {"dropOld", "dropShown"} /\ pc'[r] \in {"dropCurrent", "storeAccess"}
                  \/ pc[r] = "dropCurrent" /\ pc'[r] \in {"dropAccess", "storeAccess"}
                  \/ pc[r] = "storeAccess" /\ pc'[r] = "storeCurrent"
                  \/ pc[r] = "storeCurrent" /\ pc'[r] = "storeToken"
  BY DEF TypeOK, Proceed, Finish, GoOn, Goto, clients

LEMMA TokenStep == TypeInv /\ TokenInv /\ [Next]_vars => TokenInv'
<1> SUFFICES ASSUME TypeInv, TokenInv, [Next]_vars PROVE TokenInv'
  OBVIOUS
<1> USE DEF TokenInv, Registered
<1>0. /\ TypeOK /\ Idle /\ FreshOwn /\ CurrentOwn /\ AllTold
      /\ Disturbed \subseteq Disturbed'
  BY DisturbedGrows DEF TypeInv
<1>1. \A t : Fine(t)' => Fine(t)
  BY <1>0 DEF Fine
<1>2. ASSUME NEW r \in Requests, NEW a \in Accounts, Login(r, a) PROVE TokenInv'
  <2>1. Issue \in {NoToken, Issue} /\ NoToken \in MaybeToken
    BY TokenType
  <2> QED BY <1>0, <1>2, <2>1, StartTokens DEF Login
<1>3. ASSUME NEW r \in Requests, NEW t \in Tokens, Refresh(r, t) \/ Logout(r, t) PROVE TokenInv'
  <2>1. t \in MaybeToken /\ t # NoToken /\ owner[t] \in Accounts
    BY <1>0, <1>3, TokenType DEF Refresh, Logout, TypeOK
  <2> QED BY <1>0, <1>3, <2>1, StartTokens DEF Refresh, Logout
<1>4. ASSUME NEW r \in Requests, FindOld(r) PROVE TokenInv'
  <2>1. /\ UNCHANGED <<access, current, alive, owner, who, fresh>> /\ shown'[r] = Registered(r)
        /\ pc'[r] = (IF Registered(r) = NoToken THEN "storeAccess" ELSE "dropOld")
        /\ \A q \in Requests : q # r => pc'[q] = pc[q] /\ shown'[q] = shown[q]
    BY <1>0, <1>4 DEF FindOld, Goto, TypeOK, redis, clients
  <2>2. Behind'
    BY <1>1, <2>1 DEF Behind, Fine
  <2> QED BY <1>0, <1>1, <2>1, <2>2 DEF Ahead, Overlapped, OneTokenPerAccount
<1>5. ASSUME NEW r \in Requests, Proceed(r) PROVE Overlapped'
  BY <1>0, <1>1, <1>5, ProceedMoves DEF Overlapped, Fine
<1>6. ASSUME NEW r \in Requests, DropToken(r) PROVE TokenInv'
  <2>1. Proceed(r) /\ UNCHANGED <<access, current>> /\ alive' = alive \ {shown[r]} /\ pc[r] \in {"dropOld", "dropShown"}
    BY <1>6 DEF DropToken
  <2>2. Behind' /\ Ahead'
    BY <1>0, <1>1, <2>1, ProceedMoves DEF Behind, Ahead, Fine
  <2>3. OneTokenPerAccount'
    BY <1>0, <2>1, ProceedMoves DEF OneTokenPerAccount
  <2> QED BY <1>5, <2>1, <2>2, <2>3
<1>7. ASSUME NEW r \in Requests, DropCurrent(r) PROVE TokenInv'
  <2>1. /\ Proceed(r) /\ UNCHANGED <<access, alive>> /\ pc[r] = "dropCurrent"
        /\ current' = [current EXCEPT ![who[r]] = NoToken]
    BY <1>7 DEF DropCurrent
  <2>2. who[r] \in Accounts
    BY <1>0, <2>1 DEF Idle, TypeOK
  <2>3. Behind' /\ Ahead'
    <3>1. \A a \in Accounts : current'[a] = current[a] \/ current'[a] = NoToken
      BY <1>0, <2>1 DEF TypeOK
    <3>2. \A q \in Requests : pc[q] # "idle" => who[q] \in Accounts
      BY <1>0 DEF Idle, TypeOK
    <3>3. Behind'
      BY <1>0, <1>1, <2>1, <3>1, <3>2, ProceedMoves DEF Behind, Fine
    <3>4. Ahead'
      <4> SUFFICES ASSUME NEW q \in Requests, q # r, Fine(fresh[q])', pc[q] = "storeToken" PROVE current'[who[q]] = fresh[q]
        BY <1>0, <1>1, <2>1, ProceedMoves DEF Ahead
      <4>1. Fine(fresh[q]) /\ who[q] \in Accounts
        BY <1>0, <1>1, <2>1, <3>2, ProceedMoves
      <4> QED BY <1>0, <2>1, <2>2, <4>1 DEF Ahead, Overlapped, TypeOK, Idle
    <3> QED BY <3>3, <3>4
  <2>4. OneTokenPerAccount'
    <3> SUFFICES ASSUME NEW t \in alive, ~(t \in Disturbed') PROVE current'[owner[t]] = t
      BY <1>0, <2>1, ProceedMoves DEF OneTokenPerAccount
    <3>1. current[owner[t]] = t /\ Fine(t) /\ owner[t] \in Accounts
      BY <1>0, TokenType DEF OneTokenPerAccount, Fine, TypeOK, AllTold
    <3> QED BY <1>0, <2>1, <2>2, <3>1 DEF Behind, TypeOK
  <2> QED BY <1>5, <2>1, <2>3, <2>4
<1>8. ASSUME NEW r \in Requests, DropAccess(r) \/ StoreAccess(r) PROVE TokenInv'
  <2>1. /\ Proceed(r) /\ UNCHANGED <<current, alive>>
        /\ \/ pc[r] = "dropAccess" /\ access' = [access EXCEPT ![who[r]] = NoToken]
           \/ pc[r] = "storeAccess" /\ access' = [access EXCEPT ![who[r]] = fresh[r]]
    BY <1>8 DEF DropAccess, StoreAccess
  <2>2. who[r] \in Accounts
    BY <1>0, <2>1 DEF Idle, TypeOK
  <2>3. Behind' /\ OneTokenPerAccount'
    BY <1>0, <1>1, <2>1, ProceedMoves DEF Behind, OneTokenPerAccount, Fine
  <2>4. Ahead'
    <3> SUFFICES ASSUME NEW q \in Requests, Fine(fresh[q])', pc'[q] \in {"storeCurrent", "storeToken"}
                 PROVE  /\ access'[who'[q]] = fresh'[q]
                        /\ pc'[q] = "storeToken" => current[who'[q]] = fresh'[q]
      BY <2>1 DEF Ahead
    <3>1. CASE q = r
      BY <1>0, <2>1, <2>2, <3>1, ProceedMoves DEF TypeOK
    <3>2. CASE q # r
      <4>1. /\ pc[q] = pc'[q] /\ who'[q] = who[q] /\ fresh'[q] = fresh[q] /\ Fine(fresh[q])
        BY <1>0, <1>1, <2>1, <3>2, ProceedMoves
      <4>2. who[q] \in Accounts /\ who[q] # who[r]
        BY <1>0, <2>2, <3>2, <4>1, SessionsAssumption DEF Overlapped, Idle, TypeOK
      <4> QED BY <1>0, <2>1, <4>1, <4>2 DEF Ahead, TypeOK
    <3> QED BY <3>1, <3>2
  <2> QED BY <1>5, <2>1, <2>3, <2>4
<1>9. ASSUME NEW r \in Requests, StoreCurrent(r) PROVE TokenInv'
  <2>1. /\ Proceed(r) /\ UNCHANGED <<access, alive>> /\ pc[r] = "storeCurrent"
        /\ current' = [current EXCEPT ![who[r]] = fresh[r]]
    BY <1>9 DEF StoreCurrent
  <2>2. who[r] \in Accounts
    BY <1>0, <2>1 DEF Idle, TypeOK
  <2>3. ASSUME NEW q \in Requests, q # r, pc[q] # "idle"
        PROVE  /\ who[q] \in Accounts
               /\ who[q] = who[r] => ~Fine(fresh[r]) /\ ~Fine(fresh[q]) /\ current'[who[q]] = fresh[r]
               /\ who[q] # who[r] => current'[who[q]] = current[who[q]]
    BY <1>0, <2>1, <2>2, <2>3, SessionsAssumption DEF Overlapped, Idle, TypeOK
  <2>4. Behind'
    BY <1>0, <1>1, <2>1, <2>3, ProceedMoves DEF Behind
  <2>5. Ahead'
    <3> SUFFICES ASSUME NEW q \in Requests, Fine(fresh[q])', pc'[q] \in {"storeCurrent", "storeToken"}
                 PROVE  /\ access[who'[q]] = fresh'[q]
                        /\ pc'[q] = "storeToken" => current'[who'[q]] = fresh'[q]
      BY <2>1 DEF Ahead
    <3>1. CASE q = r
      BY <1>0, <1>1, <2>1, <2>2, <3>1, ProceedMoves DEF Ahead, TypeOK
    <3>2. CASE q # r
      BY <1>0, <1>1, <2>1, <2>3, <3>2, ProceedMoves DEF Ahead
    <3> QED BY <3>1, <3>2
  <2>6. OneTokenPerAccount'
    <3> SUFFICES ASSUME NEW t \in alive, ~(t \in Disturbed') PROVE current'[owner[t]] = t
      BY <1>0, <2>1, ProceedMoves DEF OneTokenPerAccount
    <3>1. current[owner[t]] = t /\ Fine(t) /\ owner[t] \in Accounts
      BY <1>0, TokenType DEF OneTokenPerAccount, Fine, TypeOK, AllTold
    <3> QED BY <1>0, <2>1, <2>2, <3>1 DEF Behind, TypeOK
  <2> QED BY <1>5, <2>1, <2>4, <2>5, <2>6
<1>10. ASSUME NEW r \in Requests, StoreToken(r) PROVE TokenInv'
  <2>1. /\ Proceed(r) /\ UNCHANGED <<access, current>> /\ pc[r] = "storeToken"
        /\ alive' = alive \cup {fresh[r]}
    BY <1>10 DEF StoreToken
  <2>2. /\ who[r] \in Accounts /\ fresh[r] # NoToken /\ owner[fresh[r]] = who[r]
        /\ pc'[r] = "idle"
    BY <1>0, <2>1, ProceedMoves DEF Idle, TypeOK, FreshOwn, Storing
  <2>3. Behind'
    <3> SUFFICES ASSUME NEW q \in Requests, q # r, pc[q] # "idle", Registered(q) = fresh[r] PROVE ~Fine(Registered(q))
      BY <1>0, <1>1, <2>1, <2>2, ProceedMoves DEF Behind
    <3>1. who[q] \in Accounts
      BY <1>0 DEF Idle, TypeOK
    <3>2. who[q] = who[r]
      BY <1>0, <2>2, <3>1 DEF CurrentOwn
    <3> QED BY <2>2, <3>2, SessionsAssumption DEF Overlapped
  <2>4. Ahead'
    BY <1>0, <1>1, <2>1, ProceedMoves DEF Ahead
  <2>5. OneTokenPerAccount'
    BY <1>0, <2>1, <2>2, ProceedMoves DEF OneTokenPerAccount, Ahead, Fine
  <2> QED BY <1>5, <2>1, <2>3, <2>4, <2>5
<1>11. ASSUME NEW r \in Requests, CallFails(r) PROVE TokenInv'
  <2>1. /\ UNCHANGED <<access, current, alive, owner>>
        /\ {fresh[r], Registered(r)} \subseteq Disturbed' \cup {NoToken}
    <3>1. {fresh[r], Registered(r)} \subseteq Concerned(r) \cup {NoToken} /\ hit' = hit \cup Concerned(r)
      BY <1>11 DEF CallFails, Concerned, InHand
    <3>2. UNCHANGED <<access, current, alive, owner>>
      BY <1>0, <1>11, ProceedMoves DEF CallFails, redis, GoOn, clients
    <3> QED BY <3>1, <3>2 DEF Disturbed
  <2>2. /\ \A q \in Requests : q # r =>
             pc'[q] = pc[q] /\ who'[q] = who[q] /\ shown'[q] = shown[q] /\ fresh'[q] = fresh[q]
        /\ pc'[r] \notin {"dropOld", "dropShown"}
        /\ \/ pc'[r] = "idle" /\ fresh'[r] = NoToken /\ who'[r] = NoAccount
           \/ who'[r] = who[r] /\ fresh'[r] = fresh[r] /\ shown'[r] = shown[r]
    <3>1. CASE Proceed(r)
      BY <1>0, <3>1, ProceedMoves
    <3>2. CASE GoOn(r, "storeAccess")
      BY <1>0, <3>2 DEF GoOn, Goto, TypeOK
    <3> QED BY <1>11, <3>1, <3>2 DEF CallFails
  <2>3. Behind'
    BY <1>1, <2>1, <2>2 DEF Behind, Fine
  <2>4. Ahead'
    BY <1>1, <2>1, <2>2 DEF Ahead, Fine
  <2>5. Overlapped' /\ OneTokenPerAccount'
    BY <1>0, <1>1, <2>1, <2>2 DEF Overlapped, OneTokenPerAccount, Fine
  <2> QED BY <2>3, <2>4, <2>5
<1>12. ASSUME NEW i \in DOMAIN writes, UpdateRefreshToken(i) \/ UpdateFails(i) PROVE TokenInv'
  <2>1. UNCHANGED <<redis, owner, request, entangled, hit>>
    BY <1>12 DEF UpdateRefreshToken, UpdateFails, clients
  <2> QED BY <2>1 DEF redis, request, Behind, Ahead, Overlapped, OneTokenPerAccount, Fine, Disturbed
<1>13. ASSUME NEW t \in Tokens, Lapse(t) PROVE TokenInv'
  <2>1. /\ UNCHANGED <<access, owner, request, entangled, hit>> /\ alive' = alive \ {t} /\ t \in told
        /\ \A a \in Accounts : current'[a] = IF current[a] = t THEN NoToken ELSE current[a]
    BY <1>13 DEF Lapse, clients
  <2>2. \A q \in Requests : pc[q] # "idle" => who[q] \in Accounts /\ fresh[q] # t
    BY <1>0, <2>1, TokenType DEF Idle, TypeOK, FreshOwn
  <2>3. Behind'
    BY <2>1, <2>2 DEF request, Behind, Fine, Disturbed
  <2>4. Ahead'
    BY <2>1, <2>2 DEF request, Ahead, Fine, Disturbed
  <2>5. OneTokenPerAccount'
    BY <1>0, <2>1 DEF OneTokenPerAccount, Disturbed, TypeOK, AllTold
  <2> QED BY <2>1, <2>3, <2>4, <2>5 DEF request, Overlapped, Fine, Disturbed
<1>14. CASE Crash
  BY <1>0, <1>14 DEF Crash, redis, clients, Behind, Ahead, Overlapped, OneTokenPerAccount, Fine
<1>15. CASE UNCHANGED vars
  BY <1>15 DEF vars, redis, request, clients, observers, Behind, Ahead, Overlapped, OneTokenPerAccount, Fine, Disturbed
<1> QED
  BY <1>2, <1>3, <1>4, <1>6, <1>7, <1>8, <1>9, <1>10, <1>11, <1>12, <1>13, <1>14, <1>15 DEF Next, Command

\* Of the tokens of an account only the registered one works, up to overlapping
\* requests and failures, for any number of accounts, requests and sessions.
THEOREM OneToken == Spec => []OneTokenPerAccount
<1>1. Init => TokenInv
  BY DEF Init, TokenInv, Behind, Ahead, Overlapped, OneTokenPerAccount, Fine
<1>2. Spec => []TokenInv
  BY <1>1, TypeInvInit, TypeInvStep, TokenStep, PTL DEF Spec
<1> QED BY <1>2, PTL DEF TokenInv

----------------------------------------------------------------------------
(***************************************************************************)
(* The last session of an account.  Once a client is told of it no request *)
(* of the account runs any more, or one that ran beside it disturbed it.   *)
(***************************************************************************)

Later(t) == \E u \in DOMAIN owner : u > t /\ owner[u] = owner[t]
Spent(t) == t \in used \cup lapsed \cup Disturbed
Working(t) == Accepted(t) /\ current[owner[t]] = t /\ t \in alive /\ Busy(owner[t]) = {}
LastInv == \A t \in told : Later(t) \/ Spent(t) \/ Working(t)

LEMMA SpentGrows ==
  ASSUME TypeOK, [Next]_vars, NEW t \in told
  PROVE  (Later(t) => Later(t)') /\ (Spent(t) => Spent(t)') /\ owner'[t] = owner[t]
<1>1. Spent(t) => Spent(t)'
  BY DisturbedGrows
  DEF Spent, Next, vars, observers, Login, Refresh, Logout, Start, Command, FindOld, DropToken, DropCurrent,
      DropAccess, StoreAccess, StoreCurrent, StoreToken, CallFails, Quiet, UpdateRefreshToken, UpdateFails, Lapse, Crash
<1>2. owner' = owner \/ \E a \in Accounts : owner' = Append(owner, a)
  <2>1. \A r \in Requests : Proceed(r) => owner' = owner
    BY DEF Proceed, Finish, GoOn, clients
  <2>2. ASSUME NEW r \in Requests, Command(r) PROVE owner' = owner
    BY <2>1, <2>2 DEF Command, FindOld, DropToken, DropCurrent, DropAccess, StoreAccess, StoreCurrent, StoreToken,
                      CallFails, GoOn, clients
  <2>3. ASSUME NEW r \in Requests, NEW a \in Accounts, NEW given \in MaybeToken, NEW new \in {NoToken, Issue},
               NEW label \in {"findOld", "dropShown"}, Start(r, a, given, new, label)
        PROVE  owner' = owner \/ owner' = Append(owner, a)
    BY <2>3 DEF Start
  <2>4. ASSUME NEW r \in Requests, NEW a \in Accounts, Login(r, a) PROVE owner' = Append(owner, a)
    BY <2>4 DEF Login, Start, Issue, NoToken, TypeOK
  <2>5. ASSUME NEW r \in Requests, NEW u \in Tokens, Refresh(r, u) \/ Logout(r, u)
        PROVE  owner' = owner \/ owner' = Append(owner, owner[u])
    BY <2>5 DEF Refresh, Logout, Start
  <2>6. \A u \in told : owner[u] \in Accounts
    BY DEF TypeOK
  <2>7. ASSUME NEW i \in DOMAIN writes, UpdateRefreshToken(i) \/ UpdateFails(i) PROVE owner' = owner
    BY <2>7 DEF UpdateRefreshToken, UpdateFails, clients
  <2>8. ASSUME NEW u \in Tokens, Lapse(u) PROVE owner' = owner
    BY <2>8 DEF Lapse, clients
  <2>9. Crash \/ UNCHANGED vars => owner' = owner
    BY DEF Crash, vars, clients
  <2> QED BY <2>2, <2>4, <2>5, <2>6, <2>7, <2>8, <2>9 DEF Next, Refresh, Logout
<1>3. /\ DOMAIN owner \subseteq DOMAIN owner'
      /\ \A u \in DOMAIN owner : owner'[u] = owner[u]
  <2>1. owner \in Seq(Accounts)
    BY DEF TypeOK
  <2>2. CASE owner' = owner
    BY <2>2
  <2>3. ASSUME NEW a \in Accounts, owner' = Append(owner, a)
        PROVE  DOMAIN owner \subseteq DOMAIN owner' /\ \A u \in DOMAIN owner : owner'[u] = owner[u]
    BY <2>1, <2>3
  <2> QED BY <1>2, <2>2, <2>3
<1>4. t \in DOMAIN owner
  BY DEF TypeOK
<1> QED BY <1>1, <1>3, <1>4 DEF Later

\* The start of a request: about another account, with a new session, or with a
\* token; the last session is then another's, overtaken, used or disturbed.
LEMMA StartLast ==
  ASSUME TypeInv, LastInv, [Next]_vars,
         NEW r \in Requests, NEW a \in Accounts, NEW given \in MaybeToken, NEW new \in {NoToken, Issue},
         NEW label \in {"findOld", "dropShown"}, Start(r, a, given, new, label),
         new = NoToken => given # NoToken,
         given # NoToken => given \in used'
  PROVE  LastInv'
<1>0. TypeOK
  BY DEF TypeInv
<1>1. UNCHANGED <<access, current, alive, told>> /\ \A q \in Requests : q # r => who'[q] = who[q]
  BY <1>0 DEF Start, redis, TypeOK
<1> SUFFICES ASSUME NEW t \in told, Working(t), ~Spent(t)' PROVE Later(t)' \/ Working(t)'
  BY <1>0, <1>1, SpentGrows DEF LastInv
<1>2. owner'[t] = owner[t] /\ owner[t] \in Accounts /\ t \in DOMAIN owner /\ t # NoToken
  <2>1. owner'[t] = owner[t]
    BY <1>0, SpentGrows
  <2> QED BY <1>0, <2>1 DEF TypeOK, NoToken
<1>3. CASE owner[t] # a
  BY <1>0, <1>1, <1>2, <1>3 DEF Working, Accepted, Busy, Start, TypeOK
<1>4. CASE owner[t] = a /\ new # NoToken
  <2>1. owner' = Append(owner, a) /\ owner \in Seq(Accounts)
    BY <1>0, <1>4 DEF Start, TypeOK
  <2>2. Len(owner) + 1 \in DOMAIN owner' /\ owner'[Len(owner) + 1] = a /\ Len(owner) + 1 > t
    BY <1>2, <2>1
  <2> QED BY <1>2, <1>4, <2>2 DEF Later
<1>5. CASE owner[t] = a /\ new = NoToken
  <2>1. given # t /\ given # NoToken
    BY <1>5 DEF Spent
  <2>2. current[a] = t
    BY <1>5 DEF Working
  <2>3. t \in Mixed(a, given, new)
    BY <1>2, <2>1, <2>2 DEF Mixed
  <2> QED BY <2>3 DEF Start, Spent, Disturbed
<1> QED BY <1>3, <1>4, <1>5

LEMMA LastStep == TypeInv /\ TypeInv' /\ TokenInv /\ LastInv /\ [Next]_vars => LastInv'
<1> SUFFICES ASSUME TypeInv, TypeInv', TokenInv, LastInv, [Next]_vars PROVE LastInv'
  OBVIOUS
<1>0. TypeOK /\ TypeOK' /\ Idle /\ FreshOwn /\ ShownOwn /\ AllTold /\ Ahead /\ Overlapped
  BY DEF TypeInv, TokenInv
<1>1. \A t \in told : t \in DOMAIN owner /\ owner[t] \in Accounts /\ t # NoToken
  BY <1>0 DEF TypeOK, NoToken
<1>2. \A t \in told : Working(t)' \/ ~Working(t) => Later(t)' \/ Spent(t)' \/ Working(t)'
  BY <1>0, SpentGrows DEF LastInv
<1>3. ASSUME NEW r \in Requests, NEW a \in Accounts, Login(r, a) PROVE LastInv'
  <2>1. Issue # NoToken /\ Issue \in {NoToken, Issue} /\ NoToken \in MaybeToken
    BY <1>0, TokenType DEF Issue, NoToken, TypeOK
  <2> QED BY <1>3, <2>1, StartLast DEF Login
<1>4. ASSUME NEW r \in Requests, NEW t \in Tokens, Refresh(r, t) \/ Logout(r, t) PROVE LastInv'
  <2>1. t \in MaybeToken /\ t # NoToken /\ t \in used' /\ owner[t] \in Accounts
    BY <1>1, <1>4, TokenType DEF Refresh, Logout
  <2> QED BY <1>4, <2>1, StartLast DEF Refresh, Logout
\* A command of a request is about its account, and no last session works there.
<1>5. ASSUME NEW r \in Requests, who[r] \in Accounts,
             \A q \in Requests : q # r => who'[q] = who[q],
             who'[r] \in {who[r], NoAccount},
             \A a \in Accounts : a # who[r] => access'[a] = access[a] /\ current'[a] = current[a],
             \A t \in told : owner[t] # who[r] /\ t \in alive => t \in alive',
             NEW t \in told
      PROVE  Later(t)' \/ Spent(t)' \/ Working(t)'
  <2>1. SUFFICES ASSUME Working(t) PROVE Working(t)'
    BY <1>2
  <2>2. owner[t] # who[r] /\ owner'[t] = owner[t]
    BY <1>0, <1>5, <2>1, SpentGrows DEF Working, Busy
  <2> QED BY <1>1, <1>5, <2>1, <2>2, SessionsAssumption DEF Working, Accepted, Busy
<1>6. ASSUME NEW r \in Requests, Command(r) PROVE LastInv'
  <2>1. pc[r] # "idle" /\ who[r] \in Accounts
    BY <1>0, <1>6 DEF Command, FindOld, DropToken, DropCurrent, DropAccess, StoreAccess, StoreCurrent, StoreToken,
                      CallFails, Idle, TypeOK
  <2>2. \A q \in Requests : q # r => who'[q] = who[q]
    BY <1>0, <1>6, ProceedMoves
    DEF Command, FindOld, DropToken, DropCurrent, DropAccess, StoreAccess, StoreCurrent, StoreToken, CallFails, GoOn
  <2>3. who'[r] \in {who[r], NoAccount}
    BY <1>0, <1>6, ProceedMoves
    DEF Command, FindOld, DropToken, DropCurrent, DropAccess, StoreAccess, StoreCurrent, StoreToken, CallFails, GoOn
  <2>4. \A a \in Accounts : a # who[r] => access'[a] = access[a] /\ current'[a] = current[a]
    BY <1>0, <1>6
    DEF Command, FindOld, DropToken, DropCurrent, DropAccess, StoreAccess, StoreCurrent, StoreToken, CallFails,
        redis, TypeOK
  <2>5. \A t \in told : owner[t] # who[r] /\ t \in alive => t \in alive'
    <3>1. CASE DropToken(r)
      BY <1>0, <3>1 DEF DropToken, ShownOwn
    <3>2. CASE ~DropToken(r)
      BY <1>6, <3>2
      DEF Command, FindOld, DropCurrent, DropAccess, StoreAccess, StoreCurrent, StoreToken, CallFails, redis
    <3> QED BY <3>1, <3>2
  <2>6. \A t \in told : Later(t)' \/ Spent(t)' \/ Working(t)'
    BY <1>5, <2>1, <2>2, <2>3, <2>4, <2>5
  <2>7. ASSUME NEW t \in told', t \notin told PROVE Spent(t)' \/ Working(t)'
    <3>1. /\ t = fresh[r] /\ pc[r] \in {"dropAccess", "storeToken"} /\ Proceed(r)
          /\ pc'[r] = "idle" /\ who'[r] = NoAccount
      BY <1>0, <1>6, <2>7, ProceedMoves
      DEF Command, FindOld, DropToken, DropCurrent, DropAccess, StoreAccess, StoreCurrent, StoreToken, CallFails,
          GoOn, clients
    <3>2. t \in told' /\ t # NoToken /\ t \in DOMAIN owner'
      BY <1>0, <2>7 DEF TypeOK, NoToken
    <3>3. pc[r] = "storeToken" /\ owner[t] = who[r] /\ owner' = owner
      BY <1>0, <3>1, <3>2, ProceedMoves DEF FreshOwn
    <3>4. CASE CallFails(r)
      BY <3>1, <3>2, <3>4 DEF CallFails, Concerned, InHand, Spent, Disturbed
    <3>5. CASE StoreToken(r)
      <4>1. UNCHANGED <<access, current>> /\ t \in alive'
        BY <3>1, <3>5 DEF StoreToken
      <4>2. SUFFICES ASSUME ~Spent(t)' PROVE Working(t)'
        OBVIOUS
      <4>3. Fine(t)
        BY <3>2, <4>2, DisturbedGrows DEF Fine, Spent
      <4>4. access[owner[t]] = t /\ current[owner[t]] = t
        BY <1>0, <3>1, <3>3, <4>3 DEF Ahead, Registered
      <4>5. \A q \in Requests : who'[q] # owner[t]
        BY <1>0, <2>1, <2>2, <3>1, <3>3, <4>3, SessionsAssumption DEF Overlapped
      <4> QED BY <3>3, <4>1, <4>4, <4>5 DEF Working, Accepted, Busy
    <3> QED BY <1>6, <3>3, <3>4, <3>5
        DEF Command, FindOld, DropToken, DropCurrent, DropAccess, StoreAccess, StoreCurrent
  <2> QED BY <2>6, <2>7 DEF LastInv
<1>7. ASSUME NEW i \in DOMAIN writes, UpdateRefreshToken(i) \/ UpdateFails(i) PROVE LastInv'
  <2>1. UNCHANGED <<redis, owner, told, request>>
    BY <1>7 DEF UpdateRefreshToken, UpdateFails, clients
  <2> QED BY <1>2, <2>1 DEF redis, request, LastInv, Working, Accepted, Busy
<1>8. ASSUME NEW u \in Tokens, Lapse(u) PROVE LastInv'
  <2>1. /\ UNCHANGED <<access, owner, told, request>> /\ alive' = alive \ {u} /\ lapsed' = lapsed \cup {u}
        /\ \A a \in Accounts : current'[a] = IF current[a] = u THEN NoToken ELSE current[a]
    BY <1>8 DEF Lapse, clients
  <2>2. ASSUME NEW t \in told, Working(t), t # u PROVE Working(t)'
    BY <1>1, <2>1, <2>2 DEF request, Working, Accepted, Busy
  <2>3. u \in told => Spent(u)'
    BY <2>1 DEF Spent
  <2> QED BY <1>2, <2>1, <2>2, <2>3 DEF LastInv
<1>9. CASE Crash
  <2>1. UNCHANGED <<redis, owner, told>> /\ who' = [q \in Requests |-> NoAccount]
    BY <1>9 DEF Crash, clients
  <2>2. \A t \in told : Working(t) => Working(t)'
    BY <1>1, <2>1, SessionsAssumption DEF redis, Working, Accepted, Busy
  <2> QED BY <1>2, <2>1, <2>2 DEF LastInv
<1>10. CASE UNCHANGED vars
  <2>1. UNCHANGED <<redis, owner, told, request>>
    BY <1>10 DEF vars, clients
  <2> QED BY <1>2, <2>1 DEF redis, request, LastInv, Working, Accepted, Busy
<1> QED BY <1>3, <1>4, <1>6, <1>7, <1>8, <1>9, <1>10 DEF Next

\* The last session a client was given works, up to the named causes, for any number
\* of accounts, requests and sessions.
THEOREM LastWorks == Spec => []LastSessionWorks
<1>1. Init => LastInv /\ TokenInv
  BY DEF Init, LastInv, TokenInv, Behind, Ahead, Overlapped, OneTokenPerAccount, Fine
<1>2. Spec => []LastInv
  BY <1>1, TypeInvInit, TypeInvStep, TokenStep, LastStep, PTL DEF Spec
<1>3. LastInv => LastSessionWorks
  BY DEF LastInv, LastSessionWorks, Later, Spent, Working, Accepted
<1> QED BY <1>2, <1>3, PTL

----------------------------------------------------------------------------
(***************************************************************************)
(* The copy in the users table: what the last goroutine of an account will *)
(* write, or the column, when none waits.  It is the registered token, or  *)
(* in the hands of a request of the account, or a tainted one; and a copy  *)
(* that was cleared, or never made, waits for the token of a request.      *)
(***************************************************************************)

Tainted(t) == t \in lapsed \cup Disturbed
Held == \A r \in Requests :
  /\ pc[r] = "findOld" => shown[r] = NoToken
  /\ pc[r] \in {"dropCurrent", "storeAccess", "storeCurrent"} => Registered(r) = shown[r] \/ ~Fine(Registered(r))
  /\ pc[r] = "dropAccess" => ~Fine(Registered(r))

Copied(a, x) ==
  \/ (\A i \in DOMAIN writes : writes[i].a # a) /\ x = column[a]
  \/ \E i \in DOMAIN writes : /\ writes[i].a = a /\ x = writes[i].t
                              /\ \A j \in DOMAIN writes : writes[j].a = a => j <= i
Near(a, x) ==
  \/ x = current[a] \/ Tainted(x)
  \/ \E r \in Requests : who[r] = a /\ x # NoToken /\ x \in {shown[r], fresh[r]}
  \/ x = NoToken /\ (Tainted(current[a]) \/ \E r \in Requests : who[r] = a /\ current[a] = fresh[r])
CopyInv == \A a \in Accounts : a \in unsaved \/ \E x \in MaybeToken : Copied(a, x) /\ Near(a, x)

LEMMA TaintedGrows == [Next]_vars => lapsed \subseteq lapsed' /\ Disturbed \subseteq Disturbed'
<1> SUFFICES ASSUME [Next]_vars PROVE lapsed \subseteq lapsed'
  BY DisturbedGrows
<1> QED BY DEF Next, vars, observers, Login, Refresh, Logout, Start, Command, FindOld, DropToken, DropCurrent,
               DropAccess, StoreAccess, StoreCurrent, StoreToken, CallFails, Quiet, UpdateRefreshToken, UpdateFails,
               Lapse, Crash

\* Where a request starts, Behind knows what is registered.
LEMMA StartHeld ==
  ASSUME TypeOK, Held, Disturbed \subseteq Disturbed',
         NEW r \in Requests, NEW a \in Accounts, NEW given \in MaybeToken, NEW new \in {NoToken, Issue},
         NEW label \in {"findOld", "dropShown"}, Start(r, a, given, new, label),
         label = "findOld" => given = NoToken
  PROVE  Held'
<1>1. /\ current' = current /\ pc'[r] = label /\ shown'[r] = given
      /\ \A q \in Requests : q # r => pc'[q] = pc[q] /\ who'[q] = who[q] /\ shown'[q] = shown[q]
  BY DEF Start, Goto, TypeOK, redis
<1> QED BY <1>1 DEF Held, Registered, Fine

\* What a request may find registered under it: what it was shown, nothing, or a
\* disturbed session.
LEMMA HeldStep == TypeInv /\ TokenInv /\ Held /\ [Next]_vars => Held'
<1> SUFFICES ASSUME TypeInv, TokenInv, Held, [Next]_vars PROVE Held'
  OBVIOUS
<1> USE DEF Registered
<1>0. TypeOK /\ Idle /\ FreshOwn /\ Behind /\ Overlapped /\ Disturbed \subseteq Disturbed'
  BY DisturbedGrows DEF TypeInv, TokenInv
<1>1. \A t : Fine(t)' => Fine(t)
  BY <1>0 DEF Fine
<1>2. \A q \in Requests : pc[q] # "idle" => who[q] \in Accounts
  BY <1>0 DEF Idle, TypeOK
<1>3. ASSUME NEW r \in Requests, NEW a \in Accounts, Login(r, a) PROVE Held'
  BY <1>0, <1>3, TokenType, StartHeld DEF Login
<1>4. ASSUME NEW r \in Requests, NEW t \in Tokens, Refresh(r, t) \/ Logout(r, t) PROVE Held'
  <2>1. t \in MaybeToken /\ owner[t] \in Accounts
    BY <1>0, <1>4, TokenType DEF Refresh, Logout, TypeOK
  <2> QED BY <1>0, <1>4, <2>1, StartHeld DEF Refresh, Logout
<1>5. ASSUME NEW r \in Requests, FindOld(r) PROVE Held'
  <2>1. /\ UNCHANGED <<current, who>> /\ shown'[r] = Registered(r)
        /\ pc'[r] = (IF Registered(r) = NoToken THEN "storeAccess" ELSE "dropOld")
        /\ \A q \in Requests : q # r => pc'[q] = pc[q] /\ shown'[q] = shown[q]
    BY <1>0, <1>5 DEF FindOld, Goto, TypeOK, redis
  <2> QED BY <1>1, <2>1 DEF Held
<1>6. ASSUME NEW r \in Requests, DropToken(r) \/ DropAccess(r) \/ StoreAccess(r) \/ StoreToken(r) PROVE Held'
  <2>1. Proceed(r) /\ current' = current /\ pc[r] # "dropCurrent"
    BY <1>6 DEF DropToken, DropAccess, StoreAccess, StoreToken
  <2> QED BY <1>0, <1>1, <2>1, ProceedMoves DEF Held, Behind
<1>7. ASSUME NEW r \in Requests, DropCurrent(r) PROVE Held'
  <2>1. Proceed(r) /\ pc[r] = "dropCurrent" /\ current' = [current EXCEPT ![who[r]] = NoToken]
    BY <1>7 DEF DropCurrent
  <2>2. current'[who[r]] = NoToken /\ \A a \in Accounts : current'[a] = current[a] \/ current'[a] = NoToken
    BY <1>0, <1>2, <2>1 DEF TypeOK
  <2> QED BY <1>0, <1>1, <1>2, <2>1, <2>2, ProceedMoves DEF Held, Fine
<1>8. ASSUME NEW r \in Requests, StoreCurrent(r) PROVE Held'
  <2>1. Proceed(r) /\ pc[r] = "storeCurrent" /\ current' = [current EXCEPT ![who[r]] = fresh[r]]
    BY <1>8 DEF StoreCurrent
  <2>2. ASSUME NEW q \in Requests, q # r, pc[q] # "idle"
        PROVE  IF who[q] = who[r] THEN ~Fine(current'[who[q]]) ELSE current'[who[q]] = current[who[q]]
    BY <1>0, <1>2, <2>1, <2>2, SessionsAssumption DEF Overlapped, TypeOK
  <2> QED BY <1>0, <1>1, <2>1, <2>2, ProceedMoves DEF Held
<1>9. ASSUME NEW r \in Requests, CallFails(r) PROVE Held'
  <2>1. current' = current /\ Registered(r) \in Disturbed' \cup {NoToken}
    BY <1>9 DEF CallFails, Concerned, Disturbed, redis
  <2>2. /\ \A q \in Requests : q # r => pc'[q] = pc[q] /\ who'[q] = who[q] /\ shown'[q] = shown[q]
        /\ pc'[r] # "findOld" /\ (pc'[r] = "idle" \/ who'[r] = who[r])
    <3>1. CASE Proceed(r)
      BY <1>0, <3>1, ProceedMoves
    <3>2. CASE GoOn(r, "storeAccess")
      BY <1>0, <3>2 DEF GoOn, Goto, TypeOK
    <3> QED BY <1>9, <3>1, <3>2 DEF CallFails
  <2> QED BY <1>1, <2>1, <2>2 DEF Held, Fine
<1>10. ASSUME NEW i \in DOMAIN writes, UpdateRefreshToken(i) \/ UpdateFails(i) PROVE Held'
  <2>1. UNCHANGED <<redis, request>>
    BY <1>10 DEF UpdateRefreshToken, UpdateFails
  <2> QED BY <1>1, <2>1 DEF redis, request, Held
<1>11. ASSUME NEW t \in Tokens, Lapse(t) PROVE Held'
  <2>1. UNCHANGED request /\ \A a \in Accounts : current'[a] = current[a] \/ current'[a] = NoToken
    BY <1>11 DEF Lapse
  <2> QED BY <1>1, <1>2, <2>1 DEF request, Held, Fine
<1>12. CASE Crash
  BY <1>12 DEF Crash, Held
<1>13. CASE UNCHANGED vars
  BY <1>13 DEF vars, redis, request, observers, Held, Fine, Disturbed
<1> QED
  BY <1>3, <1>4, <1>5, <1>6, <1>7, <1>8, <1>9, <1>10, <1>11, <1>12, <1>13 DEF Next, Command

\* A step that writes nothing keeps the copy if it keeps what the copy is near to.
LEMMA CopyKept ==
  ASSUME CopyInv, UNCHANGED <<column, writes, unsaved>>,
         \A a \in Accounts : \A x \in MaybeToken : Near(a, x) => Near(a, x)'
  PROVE  CopyInv'
  BY DEF CopyInv, Copied

\* The end of a request makes a new copy of what it issued.
LEMMA CopyMade ==
  ASSUME TypeInv, TypeInv', CopyInv, NEW r \in Requests, Finish(r),
         NEW b \in Accounts, b = who[r], NEW t, t = fresh[r],
         UNCHANGED <<column, current, unsaved>>,
         \A u : Tainted(u) => Tainted(u)',
         Near(b, t)'
  PROVE  CopyInv'
<1>0. TypeOK /\ TypeOK'
  BY DEF TypeInv
<1>1. writes' = Append(writes, [a |-> b, t |-> t]) /\ writes \in Seq(Write)
  BY <1>0 DEF Finish, TypeOK
<1>2. /\ Len(writes) \in Nat /\ DOMAIN writes = 1..Len(writes) /\ DOMAIN writes' = 1..Len(writes) + 1
      /\ \A i \in DOMAIN writes : writes'[i] = writes[i]
      /\ writes'[Len(writes) + 1] = [a |-> b, t |-> t]
  BY <1>1
<1>3. \A i \in DOMAIN writes' : i \in DOMAIN writes \/ i = Len(writes) + 1
  BY <1>2
<1>4. Copied(b, t)' /\ t \in MaybeToken
  <2>1. Len(writes) + 1 \in DOMAIN writes' /\ \A j \in DOMAIN writes' : j <= Len(writes) + 1
    BY <1>2
  <2>2. writes'[Len(writes) + 1].a = b /\ writes'[Len(writes) + 1].t = t
    BY <1>2
  <2>3. t \in MaybeToken
    BY <1>0 DEF TypeOK
  <2> QED BY <2>1, <2>2, <2>3 DEF Copied
<1>5. ASSUME NEW a \in Accounts, a # b, NEW x \in MaybeToken, Copied(a, x), Near(a, x)
      PROVE  Copied(a, x)' /\ Near(a, x)'
  <2>1. Near(a, x)'
    BY <1>0, <1>5 DEF Near, Finish, TypeOK
  <2>2. \A i \in DOMAIN writes' : writes'[i].a = a => i \in DOMAIN writes /\ writes[i].a = a
    BY <1>2, <1>3, <1>5
  <2>3. CASE (\A i \in DOMAIN writes : writes[i].a # a) /\ x = column[a]
    <3>1. \A i \in DOMAIN writes' : writes'[i].a # a
      BY <2>2, <2>3
    <3>2. column'[a] = x
      BY <2>3
    <3> QED BY <2>1, <3>1, <3>2 DEF Copied
  <2>4. ASSUME NEW i \in DOMAIN writes, writes[i].a = a, x = writes[i].t,
               \A j \in DOMAIN writes : writes[j].a = a => j <= i
        PROVE  Copied(a, x)'
    <3>1. i \in DOMAIN writes'
      BY <1>2
    <3> QED BY <1>2, <2>2, <2>4, <3>1 DEF Copied
  <2> QED BY <1>5, <2>1, <2>3, <2>4 DEF Copied
<1> QED BY <1>4, <1>5 DEF CopyInv

\* What is left of a sequence without its i-th element.
LEMMA RemoveElements ==
  ASSUME NEW S, NEW s \in Seq(S), NEW i \in 1..Len(s)
  PROVE  /\ DOMAIN RemoveAt(s, i) = 1..Len(s) - 1
         /\ \A j \in 1..Len(s) - 1 : RemoveAt(s, i)[j] = IF j < i THEN s[j] ELSE s[j + 1]
<1>1. Len(s) \in Nat /\ i \in Nat
  OBVIOUS
<1> DEFINE p == SubSeq(s, 1, i - 1)
           q == SubSeq(s, i + 1, Len(s))
<1>2. p \in Seq(S) /\ Len(p) = i - 1 /\ \A j \in 1..i-1 : p[j] = s[j]
  BY <1>1, SubSeqProperties
<1>3. q \in Seq(S) /\ Len(q) = Len(s) - i /\ \A j \in 1..Len(s) - i : q[j] = s[i + j]
  BY <1>1, SubSeqProperties
<1>4. /\ p \o q \in Seq(S) /\ Len(p \o q) = Len(p) + Len(q)
      /\ \A j \in 1..Len(p) + Len(q) : (p \o q)[j] = IF j <= Len(p) THEN p[j] ELSE q[j - Len(p)]
  BY <1>2, <1>3, ConcatProperties
<1>5. RemoveAt(s, i) = p \o q
  BY DEF RemoveAt
<1> HIDE DEF p, q
<1>6. DOMAIN (p \o q) = 1..Len(s) - 1
  BY <1>1, <1>2, <1>3, <1>4
<1>7. ASSUME NEW j \in 1..Len(s) - 1, j < i PROVE (p \o q)[j] = s[j]
  <2>1. j \in 1..i - 1 /\ j <= Len(p) /\ j \in 1..Len(p) + Len(q)
    BY <1>1, <1>2, <1>3, <1>7
  <2> QED BY <1>2, <1>4, <2>1
<1>8. ASSUME NEW j \in 1..Len(s) - 1, ~(j < i) PROVE (p \o q)[j] = s[j + 1]
  <2> DEFINE k == j - (i - 1)
  <2>1. k \in 1..Len(s) - i /\ i + k = j + 1
    BY <1>1, <1>8
  <2>2. j \in 1..Len(p) + Len(q) /\ ~(j <= Len(p)) /\ j - Len(p) = k
    BY <1>1, <1>2, <1>3, <1>8
  <2> HIDE DEF k
  <2>3. (p \o q)[j] = q[k]
    BY <1>4, <2>2
  <2>4. q[k] = s[i + k]
    BY <1>3, <2>1
  <2>5. s[i + k] = s[j + 1]
    BY <2>1
  <2> QED BY <2>3, <2>4, <2>5
<1> QED BY <1>5, <1>6, <1>7, <1>8

\* A goroutine writes the oldest of the writes of its account, or leaves it unsaved.
LEMMA CopyWritten ==
  ASSUME TypeInv, CopyInv, NEW i \in DOMAIN writes, UpdateRefreshToken(i) \/ UpdateFails(i)
  PROVE  CopyInv'
<1>0. TypeOK
  BY DEF TypeInv
<1>1. writes \in Seq(Write) /\ Len(writes) \in Nat /\ DOMAIN writes = 1..Len(writes) /\ i \in 1..Len(writes)
  BY <1>0 DEF TypeOK
<1>2. /\ writes' = RemoveAt(writes, i) /\ unsaved \subseteq unsaved'
      /\ UNCHANGED <<current, who, shown, fresh, lapsed, entangled, hit>>
      /\ \A a \in Accounts : a # writes[i].a => column'[a] = column[a]
  BY <1>0 DEF UpdateRefreshToken, UpdateFails, redis, request, TypeOK
<1>3. /\ DOMAIN writes' = 1..Len(writes) - 1
      /\ \A j \in 1..Len(writes) - 1 : writes'[j] = IF j < i THEN writes[j] ELSE writes[j + 1]
  BY <1>1, <1>2, RemoveElements
<1>4. \A a, x : Near(a, x) => Near(a, x)'
  BY <1>2 DEF Near, Tainted, Disturbed
<1> SUFFICES ASSUME NEW a \in Accounts, a \notin unsaved', NEW x \in MaybeToken, Copied(a, x)
             PROVE  Copied(a, x)'
  BY <1>2, <1>4 DEF CopyInv
<1>5. \A j \in DOMAIN writes' : IF j < i THEN j \in DOMAIN writes /\ writes'[j] = writes[j]
                                ELSE j + 1 \in DOMAIN writes /\ writes'[j] = writes[j + 1] /\ j + 1 # i
  BY <1>1, <1>3
<1>6. CASE \A j \in DOMAIN writes : writes[j].a # a
  BY <1>2, <1>5, <1>6 DEF Copied
<1>7. ASSUME NEW m \in DOMAIN writes, writes[m].a = a, x = writes[m].t,
             \A j \in DOMAIN writes : writes[j].a = a => j <= m
      PROVE  Copied(a, x)'
  <2>1. m \in 1..Len(writes)
    BY <1>1
  <2>2. CASE m = i
    <3>1. UpdateRefreshToken(i) /\ ~(\E j \in 1..i-1 : writes[j].a = a)
      BY <1>7, <2>2 DEF UpdateRefreshToken, UpdateFails
    <3>2. \A j \in DOMAIN writes : j # i => writes[j].a # a
      BY <1>1, <1>7, <2>1, <2>2, <3>1
    <3>3. \A j \in DOMAIN writes' : writes'[j].a # a
      <4> SUFFICES ASSUME NEW j \in DOMAIN writes' PROVE writes'[j].a # a
        OBVIOUS
      <4>1. j \in Nat
        BY <1>3
      <4> QED BY <1>1, <1>5, <3>2, <4>1
    <3>4. column'[a] = x
      BY <1>0, <1>7, <2>2, <3>1 DEF UpdateRefreshToken, TypeOK
    <3> QED BY <3>3, <3>4 DEF Copied
  <2>3. CASE m < i
    <3>1. m \in DOMAIN writes' /\ writes'[m] = writes[m]
      BY <1>1, <1>3, <2>1, <2>3
    <3>2. ASSUME NEW j \in DOMAIN writes', writes'[j].a = a PROVE j <= m
      <4>1. j \in Nat
        BY <1>3
      <4> QED BY <1>1, <1>5, <1>7, <2>1, <2>3, <3>2, <4>1
    <3> QED BY <1>7, <3>1, <3>2 DEF Copied
  <2>4. CASE m > i
    <3>1. m - 1 \in DOMAIN writes' /\ writes'[m - 1] = writes[m]
      BY <1>1, <1>3, <2>1, <2>4
    <3>2. ASSUME NEW j \in DOMAIN writes', writes'[j].a = a PROVE j <= m - 1
      <4>1. j \in Nat
        BY <1>3
      <4> QED BY <1>1, <1>5, <1>7, <2>1, <2>4, <3>2, <4>1
    <3> QED BY <1>7, <3>1, <3>2 DEF Copied
  <2> QED BY <1>1, <2>1, <2>2, <2>3, <2>4
<1> QED BY <1>6, <1>7 DEF Copied

LEMMA CopyStep == TypeInv /\ TypeInv' /\ TokenInv /\ Held /\ CopyInv /\ [Next]_vars => CopyInv'
<1> SUFFICES ASSUME TypeInv, TypeInv', TokenInv, Held, CopyInv, [Next]_vars PROVE CopyInv'
  OBVIOUS
<1> USE DEF Registered
<1>0. TypeOK /\ TypeOK' /\ Idle /\ FreshOwn /\ Behind /\ Ahead
  BY DEF TypeInv, TokenInv
<1>1. \A t : Tainted(t) => Tainted(t)'
  BY TaintedGrows DEF Tainted
<1>2. \A q \in Requests : pc[q] # "idle" => who[q] \in Accounts
  BY <1>0 DEF Idle, TypeOK
<1>3. ASSUME NEW r \in Requests, NEW b \in Accounts, NEW given \in MaybeToken, NEW new \in {NoToken, Issue},
             NEW label \in {"findOld", "dropShown"}, Start(r, b, given, new, label)
      PROVE  CopyInv'
  <2>1. /\ UNCHANGED <<current, column, writes, unsaved>> /\ who[r] = NoAccount
        /\ \A q \in Requests : q # r => who'[q] = who[q] /\ shown'[q] = shown[q] /\ fresh'[q] = fresh[q]
    BY <1>0, <1>3 DEF Start, TypeOK, Idle, redis
  <2>2. \A a \in Accounts, x \in MaybeToken : Near(a, x) => Near(a, x)'
    BY <1>1, <2>1, SessionsAssumption DEF Near
  <2> QED BY <2>1, <2>2, CopyKept
<1>4. ASSUME NEW r \in Requests, FindOld(r) PROVE CopyInv'
  <2>1. /\ UNCHANGED <<current, column, writes, unsaved, who, fresh>>
        /\ \A q \in Requests : shown'[q] = shown[q] \/ shown[q] = NoToken
    BY <1>0, <1>4 DEF FindOld, Quiet, observers, redis, TypeOK, Held
  <2>2. \A a \in Accounts, x \in MaybeToken : Near(a, x) => Near(a, x)'
    BY <1>1, <2>1 DEF Near
  <2> QED BY <2>1, <2>2, CopyKept
<1>5. ASSUME NEW r \in Requests, Proceed(r), ~Finish(r)
      PROVE  UNCHANGED <<who, shown, fresh, writes>> /\ pc[r] \notin {"dropAccess", "storeToken"} /\ pc[r] # "idle"
  BY <1>5 DEF Proceed, GoOn
<1>6. ASSUME NEW r \in Requests, DropToken(r) \/ StoreAccess(r) PROVE CopyInv'
  <2>1. UNCHANGED <<current, column, unsaved>> /\ Proceed(r) /\ pc[r] \notin {"dropAccess", "storeToken"}
    BY <1>6 DEF DropToken, StoreAccess, Quiet, observers
  <2>2. UNCHANGED <<who, shown, fresh, writes>>
    BY <2>1 DEF Proceed, GoOn
  <2>3. \A a \in Accounts, x \in MaybeToken : Near(a, x) => Near(a, x)'
    BY <1>1, <2>1, <2>2 DEF Near
  <2> QED BY <2>1, <2>2, <2>3, CopyKept
<1>7. ASSUME NEW r \in Requests, DropCurrent(r) \/ StoreCurrent(r) PROVE CopyInv'
  <2>1. /\ UNCHANGED <<column, unsaved>> /\ Proceed(r) /\ pc[r] \in {"dropCurrent", "storeCurrent"}
        /\ \E t \in {NoToken, fresh[r]} : current' = [current EXCEPT ![who[r]] = t]
    BY <1>7 DEF DropCurrent, StoreCurrent, Quiet, observers
  <2>2. UNCHANGED <<who, shown, fresh, writes>>
    BY <2>1 DEF Proceed, GoOn
  <2>3. who[r] \in Accounts
    BY <1>2, <2>1
  <2>4. /\ \A a \in Accounts : a # who[r] => current'[a] = current[a]
        /\ current'[who[r]] \in {NoToken, fresh[r]}
    BY <1>0, <2>1, <2>3 DEF TypeOK
  <2>5. ASSUME NEW x \in MaybeToken, Near(who[r], x) PROVE Near(who[r], x)'
    <3>1. CASE x = NoToken
      BY <2>2, <2>4, <3>1 DEF Near
    <3>2. CASE x # NoToken /\ x = current[who[r]]
      <4>1. x = shown[r] \/ x \in Disturbed
        BY <2>1, <3>2 DEF Held, Fine
      <4> QED BY <1>1, <2>2, <3>2, <4>1 DEF Near, Tainted
    <3>3. CASE x # NoToken /\ x # current[who[r]]
      BY <1>1, <2>2, <2>5, <3>3 DEF Near
    <3> QED BY <3>1, <3>2, <3>3
  <2>6. \A a \in Accounts, x \in MaybeToken : a # who[r] /\ Near(a, x) => Near(a, x)'
    BY <1>1, <2>2, <2>4 DEF Near
  <2> QED BY <2>1, <2>2, <2>5, <2>6, CopyKept
<1>8. ASSUME NEW r \in Requests, DropAccess(r) \/ StoreToken(r) PROVE CopyInv'
  <2>1. /\ UNCHANGED <<column, current, unsaved>> /\ Finish(r)
        /\ pc[r] \in {"dropAccess", "storeToken"}
    BY <1>8 DEF DropAccess, StoreToken, Quiet, observers, Proceed
  <2>2. who[r] \in Accounts
    BY <1>2, <2>1
  <2>3. CASE pc[r] = "dropAccess"
    <3>1. fresh[r] = NoToken /\ (current[who[r]] = NoToken \/ Tainted(current[who[r]]))
      BY <1>0, <2>3 DEF Held, FreshOwn, Fine, Tainted
    <3>2. ASSUME NEW b, b = who[r], NEW t, t = fresh[r] PROVE Near(b, t)'
      BY <1>1, <2>1, <3>1, <3>2 DEF Near
    <3> QED BY <1>1, <2>1, <2>2, <3>2, CopyMade
  <2>4. CASE pc[r] = "storeToken"
    <3>1. fresh[r] # NoToken /\ (fresh[r] = current[who[r]] \/ Tainted(fresh[r]))
      BY <1>0, <2>4 DEF Ahead, FreshOwn, Fine, Storing, Tainted
    <3>2. ASSUME NEW b, b = who[r], NEW t, t = fresh[r] PROVE Near(b, t)'
      BY <1>1, <2>1, <3>1, <3>2 DEF Near
    <3> QED BY <1>1, <2>1, <2>2, <3>2, CopyMade
  <2> QED BY <2>1, <2>3, <2>4
<1>9. ASSUME NEW r \in Requests, CallFails(r) PROVE CopyInv'
  <2>1. /\ UNCHANGED <<column, current, unsaved>> /\ pc[r] # "idle"
        /\ {fresh[r], current[who[r]]} \subseteq Disturbed' \cup {NoToken}
    BY <1>9 DEF CallFails, Concerned, InHand, Disturbed, redis
  <2>2. who[r] \in Accounts
    BY <1>2, <2>1
  <2>3. CASE Finish(r)
    <3>1. ASSUME NEW b, b = who[r], NEW t, t = fresh[r] PROVE Near(b, t)'
      BY <2>1, <3>1 DEF Near, Tainted
    <3> QED BY <1>1, <2>1, <2>2, <2>3, <3>1, CopyMade
  <2>4. CASE ~Finish(r)
    <3>1. UNCHANGED <<who, shown, fresh, writes>>
      BY <1>5, <1>9, <2>4 DEF CallFails, GoOn
    <3>2. \A a \in Accounts, x \in MaybeToken : Near(a, x) => Near(a, x)'
      BY <1>1, <2>1, <3>1 DEF Near
    <3> QED BY <2>1, <3>1, <3>2, CopyKept
  <2> QED BY <2>3, <2>4
<1>10. ASSUME NEW t \in Tokens, Lapse(t) PROVE CopyInv'
  <2>1. /\ UNCHANGED <<column, writes, unsaved, who, shown, fresh>> /\ lapsed' = lapsed \cup {t} /\ t \in told
        /\ \A a \in Accounts : current'[a] = IF current[a] = t THEN NoToken ELSE current[a]
    BY <1>10 DEF Lapse, request
  <2>2. \A a \in Accounts, x \in MaybeToken : Near(a, x) => Near(a, x)'
    BY <1>1, <2>1 DEF Near, Tainted
  <2> QED BY <2>1, <2>2, CopyKept
<1>11. CASE Crash
  <2>1. /\ UNCHANGED <<column, current>> /\ writes' = <<>>
        /\ unsaved' = unsaved \cup {writes[i].a : i \in DOMAIN writes}
        /\ \A r \in Requests : pc[r] # "idle" => Concerned(r) \subseteq Disturbed'
    BY <1>11 DEF Crash, redis, Disturbed
  <2> SUFFICES ASSUME NEW a \in Accounts, a \notin unsaved', NEW x \in MaybeToken, Copied(a, x), Near(a, x)
               PROVE  Copied(a, x)' /\ Near(a, x)'
    BY <2>1 DEF CopyInv
  <2>2. \A i \in DOMAIN writes : writes[i].a # a
    BY <2>1
  <2>3. Copied(a, x)'
    BY <2>1, <2>2 DEF Copied
  <2>4. \A r \in Requests : who[r] = a => {shown[r], fresh[r]} \subseteq Disturbed' \cup {NoToken}
    BY <1>0, <2>1, SessionsAssumption DEF Concerned, InHand, Idle
  <2> QED BY <1>1, <2>1, <2>3, <2>4 DEF Near, Tainted
<1>12. CASE UNCHANGED vars
  BY <1>12, CopyKept DEF vars, redis, request, observers, Near, Tainted, Disturbed
<1>13. ASSUME NEW r \in Requests, NEW a \in Accounts, Login(r, a) PROVE CopyInv'
  BY <1>3, <1>13, TokenType DEF Login
<1>14. ASSUME NEW r \in Requests, NEW t \in Tokens, Refresh(r, t) \/ Logout(r, t) PROVE CopyInv'
  <2>1. t \in MaybeToken /\ owner[t] \in Accounts
    BY <1>0, <1>14, TokenType DEF Refresh, Logout, TypeOK
  <2> QED BY <1>3, <1>14, <2>1 DEF Refresh, Logout
<1>15. ASSUME NEW i \in DOMAIN writes, UpdateRefreshToken(i) \/ UpdateFails(i) PROVE CopyInv'
  BY <1>15, CopyWritten
<1> QED BY <1>4, <1>6, <1>7, <1>8, <1>9, <1>10, <1>11, <1>12, <1>13, <1>14, <1>15 DEF Next, Command

\* When no goroutine is left the column holds the registered token, up to failed and
\* overtaken writes, lapsed tokens and disturbed sessions, for any number of accounts,
\* requests and sessions.
THEOREM ColumnCopied == Spec => []ColumnFollows
<1>1. Init => CopyInv /\ Held /\ TokenInv
  BY TokenType DEF Init, CopyInv, Copied, Near, Held, TokenInv, Behind, Ahead, Overlapped, OneTokenPerAccount, Fine
<1>2. Spec => [](TypeInv /\ TokenInv /\ Held /\ CopyInv)
  BY <1>1, TypeInvInit, TypeInvStep, TokenStep, HeldStep, CopyStep, PTL DEF Spec
<1>3. TypeInv /\ CopyInv => ColumnFollows
  <2> SUFFICES ASSUME TypeInv, CopyInv, NEW a \in Accounts, Busy(a) = {}, a \notin unsaved,
                      \A i \in DOMAIN writes : writes[i].a # a
               PROVE  column[a] = current[a] \/ {column[a], current[a]} \cap (lapsed \cup Disturbed) # {}
    BY DEF ColumnFollows
  <2>1. PICK x \in MaybeToken : Copied(a, x) /\ Near(a, x)
    BY DEF CopyInv
  <2> QED BY <2>1 DEF Copied, Near, Tainted, Busy
<1> QED BY <1>2, <1>3, PTL

----------------------------------------------------------------------------
(***************************************************************************)
(* VideoCache.                                                             *)
(***************************************************************************)
One == {"l2", "join", "wait", "again", "load", "store"}

\* A single read wants its one video.
WantsOne == \A r \in Readers : rpc[r] \in One => \E v \in Videos : want[r] = {v}
HasTarget == \A w \in Writers : wpc[w] = "del" => target[w] \in Videos

CacheTypeInv == CacheTypeOK /\ WantsOne /\ HasTarget

LEMMA WantedIsWanted ==
  ASSUME NEW r, NEW v, want[r] = {v}
  PROVE  Wanted(r) = v
  BY DEF Wanted

LEMMA CacheTypeInvInit == CacheInit => CacheTypeInv
  BY VideoCacheAssumption DEF CacheInit, CacheTypeInv, CacheTypeOK, WantsOne, HasTarget, One, Version, None

LEMMA BeginTypes ==
  ASSUME CacheTypeInv, NEW r \in Readers
  PROVE  /\ \A v \in Videos : BeginOne(r, v) => CacheTypeInv'
         /\ \A S \in SUBSET Videos \ {{}} : BeginMany(r, S) => CacheTypeInv'
<1> USE DEF CacheTypeInv, CacheTypeOK, WantsOne, HasTarget, One, Version, CacheGoto, Others, writer, cacheObservers
<1>1. ASSUME NEW v \in Videos, BeginOne(r, v) PROVE CacheTypeInv'
  BY <1>1 DEF BeginOne
<1>2. ASSUME NEW S \in SUBSET Videos \ {{}}, BeginMany(r, S) PROVE CacheTypeInv'
  <2> DEFINE hits == {v \in S : l1[v] # Absent}
  <2>1. Take(r, hits, l1) /\ Go(r, S \ hits, "mget") /\ UNCHANGED <<Others, l2, l1, flight, cacheFaults>>
    BY <1>2 DEF BeginMany
  <2>2. got' \in [Readers -> [Videos -> Version \cup {Absent}]]
    BY <2>1 DEF Take
  <2>3. /\ want' \in [Readers -> SUBSET Videos] /\ WantsOne'
        /\ rpc' \in [Readers -> {"idle", "l2", "join", "wait", "again", "load", "store",
                                 "mget", "loadAll", "storeAll", "done", "failed"}]
    BY <2>1 DEF Go
  <2> QED BY <2>1, <2>2, <2>3
<1> QED BY <1>1, <1>2

LEMMA LandTypes ==
  ASSUME CacheTypeInv, NEW r \in Readers, rpc[r] \in One, NEW label \in {"done", "failed"},
         NEW value \in Version \cup {Absent}, Land(r, label, value), want' = want
  PROVE  /\ flight' \in [Videos -> Readers \cup {NoReader}]
         /\ rpc' \in [Readers -> {"idle", "l2", "join", "wait", "again", "load", "store",
                                  "mget", "loadAll", "storeAll", "done", "failed"}]
         /\ got' \in [Readers -> [Videos -> Version \cup {Absent}]]
         /\ WantsOne'
         /\ \A x \in Readers : (rpc'[x] = rpc[x] /\ got'[x] = got[x]) \/ rpc'[x] = label
<1>1. PICK v \in Videos : want[r] = {v}
  BY DEF CacheTypeInv, WantsOne
<1>2. Wanted(r) = v
  BY <1>1, WantedIsWanted
<1> DEFINE all == Flock(v) \cup {r}
<1>3. /\ flight' = [flight EXCEPT ![v] = NoReader]
      /\ rpc' = [x \in Readers |-> IF x \in all THEN label ELSE rpc[x]]
      /\ got' = [x \in Readers |-> IF x \in all THEN [got[x] EXCEPT ![v] = value] ELSE got[x]]
  BY <1>2 DEF Land
<1> HIDE DEF all
<1> QED BY <1>1, <1>3 DEF CacheTypeInv, CacheTypeOK, WantsOne, One

LEMMA FaultTypes == ASSUME CacheTypeInv, NoCacheFault \/ CacheFault PROVE cacheFaults' \in 0..MaxCacheFaults
  BY VideoCacheAssumption DEF CacheTypeInv, CacheTypeOK, NoCacheFault, CacheFault

\* What a reader leaves alone keeps its type.
LEMMA RestTypes ==
  ASSUME CacheTypeInv, UNCHANGED Others, NoCacheFault \/ CacheFault,
         l2' \in [Videos -> Version \cup {Absent}],
         l1' \in [Videos -> Version \cup {Absent}],
         flight' \in [Videos -> Readers \cup {NoReader}],
         rpc' \in [Readers -> {"idle", "l2", "join", "wait", "again", "load", "store",
                               "mget", "loadAll", "storeAll", "done", "failed"}],
         want' \in [Readers -> SUBSET Videos],
         got' \in [Readers -> [Videos -> Version \cup {Absent}]],
         WantsOne'
  PROVE  CacheTypeInv'
  BY FaultTypes DEF CacheTypeInv, CacheTypeOK, HasTarget, Others, writer, cacheObservers

LEMMA SingleTypes ==
  ASSUME CacheTypeInv, NEW r \in Readers, GetByID(r)
  PROVE  CacheTypeInv'
<1> USE DEF CacheTypeInv, CacheTypeOK, CacheGoto
<1>0. UNCHANGED Others /\ (NoCacheFault \/ CacheFault)
  BY DEF GetByID, GetL2, LookL2, Join, GetL2Again, Load, LoadFails, Store, StoreEntity, NoCacheFault
<1>1. rpc[r] \in One
  BY DEF GetByID, GetL2, Join, GetL2Again, Load, LoadFails, Store, One
<1>2. PICK v \in Videos : want[r] = {v}
  BY <1>1 DEF WantsOne
<1>3. Wanted(r) = v
  BY <1>2, WantedIsWanted
<1>4. CASE GetL2(r)
  <2>1. UNCHANGED <<l2, flight, want>> /\ \E label \in {"done", "join"} : rpc' = [rpc EXCEPT ![r] = label]
    BY <1>4 DEF GetL2, LookL2
  <2>2. \/ UNCHANGED <<l1, got>>
        \/ l1' = [l1 EXCEPT ![v] = l2[v]] /\ got' = [got EXCEPT ![r][v] = l2[v]]
    BY <1>3, <1>4 DEF GetL2, LookL2
  <2>3. WantsOne'
    BY <1>1, <2>1 DEF WantsOne, One
  <2>4. l1' \in [Videos -> Version \cup {Absent}]
    BY <2>2
  <2>5. got' \in [Readers -> [Videos -> Version \cup {Absent}]]
    <3>1. l2[v] \in Version \cup {Absent} /\ got[r] \in [Videos -> Version \cup {Absent}]
      OBVIOUS
    <3>2. [got[r] EXCEPT ![v] = l2[v]] \in [Videos -> Version \cup {Absent}]
      BY <3>1
    <3>3. got' = got \/ got' = [got EXCEPT ![r] = [got[r] EXCEPT ![v] = l2[v]]]
      BY <2>2
    <3> QED BY <3>2, <3>3
  <2> QED BY <1>0, <2>1, <2>3, <2>4, <2>5, RestTypes
<1>5. CASE Join(r)
  <2>1. UNCHANGED <<l2, l1, want, got>> /\ \E label \in {"again", "wait"} : rpc' = [rpc EXCEPT ![r] = label]
    BY <1>5 DEF Join
  <2>2. flight' \in [Videos -> Readers \cup {NoReader}]
    BY <1>3, <1>5 DEF Join
  <2>3. WantsOne'
    BY <1>1, <2>1 DEF WantsOne, One
  <2> QED BY <1>0, <2>1, <2>2, <2>3, RestTypes
<1>6. CASE GetL2Again(r)
  <2>1. CASE Land(r, "done", l2[v]) /\ l1' = [l1 EXCEPT ![v] = l2[v]]
    BY <1>0, <1>1, <1>6, <2>1, LandTypes, RestTypes DEF GetL2Again
  <2>2. CASE CacheGoto(r, "load") /\ UNCHANGED <<l1, flight, got>>
    <3>1. UNCHANGED <<l2, want>> /\ WantsOne'
      BY <1>1, <1>6, <2>2 DEF GetL2Again, WantsOne, One
    <3> QED BY <1>0, <2>2, <3>1, RestTypes
  <2> QED BY <1>3, <1>6, <2>1, <2>2 DEF GetL2Again
<1>7. CASE Load(r)
  <2>1. UNCHANGED <<l2, l1, flight, want>> /\ rpc' = [rpc EXCEPT ![r] = "store"] /\ got' = [got EXCEPT ![r][v] = db[v]]
    BY <1>3, <1>7 DEF Load
  <2>2. db[v] \in Version
    BY <1>3, <1>7 DEF Load
  <2>3. WantsOne'
    BY <1>1, <2>1 DEF WantsOne, One
  <2> QED BY <1>0, <2>1, <2>2, <2>3, RestTypes
<1>8. CASE LoadFails(r)
  BY <1>0, <1>1, <1>8, LandTypes, RestTypes DEF LoadFails
<1>9. CASE Store(r)
  <2>1. got[r][v] \in Version \cup {Absent}
    OBVIOUS
  <2>2. l2' = l2 \/ l2' = [l2 EXCEPT ![v] = got[r][v]]
    BY <1>3, <1>9 DEF Store, StoreEntity
  <2>3. l1' = [l1 EXCEPT ![v] = got[r][v]] /\ Land(r, "done", got[r][v]) /\ want' = want
    BY <1>3, <1>9 DEF Store, StoreEntity
  <2> QED BY <1>0, <1>1, <2>1, <2>2, <2>3, LandTypes, RestTypes
<1> QED BY <1>4, <1>5, <1>6, <1>7, <1>8, <1>9 DEF GetByID

LEMMA BatchTypes ==
  ASSUME CacheTypeInv, NEW r \in Readers, GetByIDs(r)
  PROVE  CacheTypeInv'
<1> USE DEF CacheTypeInv, CacheTypeOK, WantsOne, One, CacheGoto, Go, Take
<1>0. UNCHANGED Others /\ (NoCacheFault \/ CacheFault)
  BY DEF GetByIDs, MGet, LoadAll, StoreNext, StoreEntity, NoCacheFault
<1>1. CASE MGet(r)
  <2>1. UNCHANGED <<l2, flight>> /\ rpc[r] = "mget"
    BY <1>1 DEF MGet
  <2>2. CASE UNCHANGED <<l1, got, want>> /\ CacheGoto(r, "loadAll")
    BY <1>0, <2>1, <2>2, RestTypes
  <2>3. ASSUME NEW hits \in SUBSET want[r], Take(r, hits, l2), Go(r, want[r] \ hits, "loadAll"),
               l1' = [v \in Videos |-> IF v \in hits THEN l2[v] ELSE l1[v]]
        PROVE  CacheTypeInv'
    <3>1. got' \in [Readers -> [Videos -> Version \cup {Absent}]]
      BY <2>3
    <3>2. l1' \in [Videos -> Version \cup {Absent}]
      BY <2>3
    <3>3. want' \in [Readers -> SUBSET Videos] /\ WantsOne'
      BY <2>1, <2>3
    <3> QED BY <1>0, <2>1, <2>3, <3>1, <3>2, <3>3, RestTypes
  <2> QED BY <1>1, <2>2, <2>3 DEF MGet
<1>2. CASE LoadAll(r)
  <2>1. UNCHANGED <<l2, l1, flight>> /\ rpc[r] = "loadAll"
    BY <1>2 DEF LoadAll
  <2>2. CASE UNCHANGED <<got, want>> /\ CacheGoto(r, "failed")
    BY <1>0, <2>1, <2>2, RestTypes
  <2>3. ASSUME NEW found \in SUBSET want[r], \A v \in found : db[v] \in Version,
               Take(r, found, db), Go(r, found, "storeAll")
        PROVE  CacheTypeInv'
    <3>1. got' \in [Readers -> [Videos -> Version \cup {Absent}]]
      BY <2>3
    <3>2. want' \in [Readers -> SUBSET Videos] /\ WantsOne'
      BY <2>1, <2>3
    <3> QED BY <1>0, <2>1, <2>3, <3>1, <3>2, RestTypes
  <2>4. ASSUME NEW found, found = {v \in want[r] : db[v] # Gone}
        PROVE  found \in SUBSET want[r] /\ \A v \in found : db[v] \in Version
    BY <2>4
  <2> QED BY <1>2, <2>2, <2>3, <2>4 DEF LoadAll
<1>3. CASE StoreNext(r)
  <2>1. PICK u \in want[r] : StoreEntity(u, got[r][u]) /\ Go(r, want[r] \ {u}, "storeAll")
    BY <1>3 DEF StoreNext
  <2>2. got[r][u] \in Version \cup {Absent} /\ u \in Videos
    OBVIOUS
  <2>3. l2' \in [Videos -> Version \cup {Absent}] /\ l1' \in [Videos -> Version \cup {Absent}]
    BY <2>1, <2>2 DEF StoreEntity
  <2>4. want' \in [Readers -> SUBSET Videos] /\ WantsOne' /\ UNCHANGED <<flight, got>> /\ rpc[r] = "storeAll"
    BY <1>3, <2>1 DEF StoreNext
  <2> QED BY <1>0, <2>1, <2>3, <2>4, RestTypes
<1> QED BY <1>1, <1>2, <1>3 DEF GetByIDs

LEMMA OtherTypes ==
  ASSUME CacheTypeInv
  PROVE  /\ \A w \in Writers : DelEntity(w) \/ DelFails(w) => CacheTypeInv'
         /\ \A w \in Writers, v \in Videos : Commit(w, v) => CacheTypeInv'
         /\ \A v \in Videos : ExpireL2(v) \/ ExpireL1(v) => CacheTypeInv'
<1> USE DEF CacheTypeInv, CacheTypeOK, WantsOne, One, HasTarget, reader, writer, cacheObservers, CacheFault, Drop, Version
<1>0. MaxCacheFaults \in Nat
  BY VideoCacheAssumption
<1>1. ASSUME NEW w \in Writers, DelEntity(w) \/ DelFails(w) PROVE CacheTypeInv'
  <2>1. target[w] \in Videos
    BY <1>1 DEF DelEntity, DelFails
  <2>2. CASE DelEntity(w)
    BY <2>1, <2>2 DEF DelEntity
  <2>3. CASE DelFails(w)
    BY <1>0, <2>1, <2>3 DEF DelFails
  <2> QED BY <1>1, <2>2, <2>3
<1>2. ASSUME NEW w \in Writers, NEW v \in Videos, Commit(w, v) PROVE CacheTypeInv'
  <2>1. db[v] \in Nat /\ db[v] + 1 \in Nat
    BY <1>2 DEF Commit
  <2>2. db' \in [Videos -> Version \cup {Gone}]
    BY <1>2, <2>1 DEF Commit
  <2> QED BY <1>2, <2>2 DEF Commit
<1>3. ASSUME NEW v \in Videos, ExpireL2(v) \/ ExpireL1(v) PROVE CacheTypeInv'
  BY <1>3 DEF ExpireL2, ExpireL1
<1> QED BY <1>1, <1>2, <1>3

LEMMA CacheTypeInvStep == CacheTypeInv /\ [CacheNext]_cacheVars => CacheTypeInv'
<1> SUFFICES ASSUME CacheTypeInv, [CacheNext]_cacheVars PROVE CacheTypeInv'
  OBVIOUS
<1>1. CASE CacheNext
  BY <1>1, BeginTypes, SingleTypes, BatchTypes, OtherTypes DEF CacheNext
<1>2. CASE UNCHANGED cacheVars
  BY <1>2 DEF cacheVars, reader, writer, cacheObservers, CacheTypeInv, CacheTypeOK, WantsOne, HasTarget
<1> QED BY <1>1, <1>2

\* Every variable of the caches keeps its type.
THEOREM CacheTypeCorrect == CacheSpec => []CacheTypeOK
<1>1. CacheTypeInv => CacheTypeOK
  BY DEF CacheTypeInv
<1> QED BY <1>1, CacheTypeInvInit, CacheTypeInvStep, PTL DEF CacheSpec

----------------------------------------------------------------------------
(* Stale entities *)

Deleting(v) == \E w \in Writers : wpc[w] = "del" /\ target[w] = v
Explained(v) == Deleting(v) \/ v \in uncleared \cup overtaken

\* What is in Redis, and what a reader is about to put there.
StaleInv ==
  /\ CacheTypeInv
  /\ \A v \in Videos : l2[v] \notin {Absent, db[v]} \/ Lagging(v) => Explained(v)
  
LEMMA ReadersKeepWriters ==
  ASSUME NEW r, (\E v \in Videos : BeginOne(r, v)) \/ (\E S \in SUBSET Videos \ {{}} : BeginMany(r, S))
                \/ GetByID(r) \/ GetByIDs(r)
  PROVE  UNCHANGED Others
  BY DEF BeginOne, BeginMany, GetByID, GetL2, Join, GetL2Again, Load, LoadFails, Store, GetByIDs, MGet, LoadAll,
         StoreNext

\* A reader takes in hand only what the table has, and stores only what it has in hand.
LEMMA ReaderStep ==
  ASSUME CacheTypeInv, NEW r \in Readers, NEW v \in Videos,
         (\E u \in Videos : BeginOne(r, u)) \/ (\E S \in SUBSET Videos \ {{}} : BeginMany(r, S))
         \/ GetByID(r) \/ GetByIDs(r)
  PROVE  /\ Lagging(v)' => Lagging(v)
         /\ l2'[v] = l2[v] \/ l2'[v] = db[v] \/ Lagging(v)
<1> USE DEF CacheTypeInv, CacheTypeOK, CacheGoto
<1>0. db' = db
  BY ReadersKeepWriters DEF Others
<1>1. ASSUME NEW u \in Videos, BeginOne(r, u)
      PROVE  l2' = l2 /\ (Lagging(v)' => Lagging(v))
  BY <1>0, <1>1 DEF BeginOne, Lagging
<1>2. ASSUME NEW S \in SUBSET Videos \ {{}}, BeginMany(r, S)
      PROVE  l2' = l2 /\ (Lagging(v)' => Lagging(v))
  BY <1>0, <1>2 DEF BeginMany, Take, Go, Lagging
<1>3. CASE GetByID(r)
  <2>1. rpc[r] \in One
    BY <1>3 DEF GetByID, GetL2, Join, GetL2Again, Load, LoadFails, Store, One
  <2>2. PICK u \in Videos : want[r] = {u} /\ Wanted(r) = u
    BY <2>1, WantedIsWanted DEF WantsOne
  <2>3. CASE GetL2(r) \/ Join(r)
    BY <1>0, <2>3 DEF GetL2, LookL2, Join, Lagging
  <2>4. ASSUME NEW label \in {"done", "failed"}, NEW value \in Version \cup {Absent}, Land(r, label, value), want' = want
        PROVE  Lagging(v)' => Lagging(v)
    BY <1>0, <2>1, <2>4, LandTypes DEF Lagging
  <2>5. CASE GetL2Again(r)
    BY <1>0, <2>2, <2>4, <2>5 DEF GetL2Again, Lagging
  <2>6. CASE Load(r)
    BY <1>0, <2>2, <2>6 DEF Load, Lagging
  <2>7. CASE LoadFails(r)
    BY <2>4, <2>7 DEF LoadFails
  <2>8. CASE Store(r)
    <3>1. got[r][u] \in Version \cup {Absent} /\ rpc[r] = "store"
      BY <2>8 DEF Store
    <3>2. l2' = l2 \/ l2' = [l2 EXCEPT ![u] = got[r][u]]
      BY <2>2, <2>8 DEF Store, StoreEntity
    <3>3. v = u /\ got[r][u] # db[u] => Lagging(v)
      BY <2>2, <3>1 DEF Lagging
    <3>4. Lagging(v)' => Lagging(v)
      BY <2>2, <2>4, <2>8, <3>1 DEF Store
    <3> QED BY <3>2, <3>3, <3>4
  <2>9. ~Store(r) => l2' = l2
    BY <1>3 DEF GetByID, GetL2, Join, GetL2Again, Load, LoadFails
  <2> QED BY <1>3, <2>3, <2>5, <2>6, <2>7, <2>8, <2>9 DEF GetByID
<1>4. CASE MGet(r) \/ LoadAll(r)
  BY <1>0, <1>4 DEF MGet, LoadAll, Take, Go, Lagging
<1>5. CASE StoreNext(r)
  <2>1. PICK u \in want[r] : StoreEntity(u, got[r][u]) /\ Go(r, want[r] \ {u}, "storeAll")
    BY <1>5 DEF StoreNext
  <2>2. l2' = l2 \/ l2' = [l2 EXCEPT ![u] = got[r][u]]
    BY <2>1 DEF StoreEntity
  <2>3. v = u /\ got[r][u] # db[u] => Lagging(v)
    BY <1>5, <2>1 DEF Lagging, StoreNext
  <2>4. Lagging(v)' => Lagging(v)
    BY <1>0, <1>5, <2>1 DEF StoreNext, Go, Lagging
  <2> QED BY <2>1, <2>2, <2>3, <2>4
<1> QED BY <1>1, <1>2, <1>3, <1>4, <1>5 DEF GetByIDs

LEMMA StaleInvStep == StaleInv /\ [CacheNext]_cacheVars => StaleInv'
<1> SUFFICES ASSUME StaleInv, [CacheNext]_cacheVars, NEW v \in Videos,
                    l2'[v] \notin {Absent, db'[v]} \/ Lagging(v)'
             PROVE  Explained(v)'
  BY CacheTypeInvStep DEF StaleInv
<1>0. CacheTypeInv /\ (l2[v] \notin {Absent, db[v]} \/ Lagging(v) => Explained(v))
  BY DEF StaleInv
<1> USE DEF CacheTypeInv, CacheTypeOK
<1>1. ASSUME NEW r \in Readers,
             (\E u \in Videos : BeginOne(r, u)) \/ (\E S \in SUBSET Videos \ {{}} : BeginMany(r, S))
             \/ GetByID(r) \/ GetByIDs(r)
      PROVE  Explained(v)'
  <2>1. UNCHANGED Others
    BY <1>1, ReadersKeepWriters
  <2>2. l2[v] \notin {Absent, db[v]} \/ Lagging(v)
    BY <1>0, <1>1, <2>1, ReaderStep DEF Others
  <2> QED BY <1>0, <2>1, <2>2 DEF Others, writer, cacheObservers, Explained, Deleting
<1>2. ASSUME NEW w \in Writers, NEW u \in Videos, Commit(w, u)
      PROVE  Explained(v)'
  <2>1. CASE u = v
    BY <1>0, <1>2, <2>1 DEF Commit, Explained, Deleting
  <2>2. CASE u # v
    <3>1. db'[v] = db[v] /\ l2' = l2 /\ (Lagging(v)' => Lagging(v))
      BY <1>0, <1>2, <2>2 DEF Commit, reader, Lagging
    <3>2. Explained(v)
      BY <1>0, <3>1
    <3> QED BY <1>0, <1>2, <3>2 DEF Commit, Explained, Deleting, cacheObservers
  <2> QED BY <2>1, <2>2
<1>3. ASSUME NEW u \in Videos, Drop(u), db' = db, reader' = reader,
             \A w \in Writers : wpc[w] = "del" /\ target[w] # u => wpc'[w] = "del" /\ target'[w] = target[w]
      PROVE  Explained(v)'
  <2>1. Lagging(v)' <=> Lagging(v)
    BY <1>3 DEF reader, Lagging
  <2>2. CASE u = v
    BY <1>0, <1>3, <2>1, <2>2 DEF Drop, Explained
  <2>3. CASE u # v
    <3>1. Explained(v)
      BY <1>0, <1>3, <2>1, <2>3 DEF Drop
    <3> QED BY <1>3, <2>3, <3>1 DEF Drop, Explained, Deleting
  <2> QED BY <2>2, <2>3
<1>4. ASSUME NEW w \in Writers, DelEntity(w)
      PROVE  Explained(v)'
  BY <1>0, <1>3, <1>4 DEF DelEntity, HasTarget
<1>5. ASSUME NEW w \in Writers, DelFails(w)
      PROVE  Explained(v)'
  <2>1. Explained(v)
    BY <1>0, <1>5 DEF DelFails, reader, Lagging
  <2> QED BY <1>0, <1>5, <2>1 DEF DelFails, Explained, Deleting
<1>6. ASSUME NEW u \in Videos, ExpireL2(u)
      PROVE  Explained(v)'
  BY <1>3, <1>6 DEF ExpireL2, writer
<1>7. ASSUME NEW u \in Videos, ExpireL1(u)
      PROVE  Explained(v)'
  BY <1>0, <1>7 DEF ExpireL1, reader, writer, cacheObservers, Lagging, Explained, Deleting
<1>8. CASE UNCHANGED cacheVars
  BY <1>0, <1>8 DEF cacheVars, reader, writer, cacheObservers, Lagging, Explained, Deleting
<1> QED BY <1>1, <1>2, <1>4, <1>5, <1>6, <1>7, <1>8 DEF CacheNext

\* An entity in Redis is out of date only for one of the named reasons, for any
\* number of videos, readers, writers and faults.
THEOREM StaleEntitiesAreExplained == CacheSpec => []StaleEntityExplained
<1>1. CacheInit => StaleInv
  BY CacheTypeInvInit DEF CacheInit, None, StaleInv, Lagging
<1>2. StaleInv => StaleEntityExplained
  BY DEF StaleInv, StaleEntityExplained, Explained, Deleting
<1> QED BY <1>1, <1>2, StaleInvStep, PTL DEF CacheSpec
===============================================================================
