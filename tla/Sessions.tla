------------------------------ MODULE Sessions ------------------------------
(***************************************************************************)
(* Login, Refresh and Logout of service/user: each is a sequence of Redis  *)
(* commands on three keys of an account, none of them tied to the others,  *)
(* and a goroutine that copies the refresh token to the users table.       *)
(* Requests of one account run at the same time (two devices, a retry).    *)
(*                                                                         *)
(* A session is named by a number: its access token and its refresh token  *)
(* are made together.  The access token's signature and its own fifteen    *)
(* minutes are the JWT library's.  What a client presents, it was told.    *)
(***************************************************************************)
EXTENDS Integers, Sequences, SequencesExt

CONSTANTS
  Accounts,
  Requests,      \* goroutines that serve requests, one after the other
  NoAccount,
  MaxTokens,     \* bound: sessions issued in a behaviour
  MaxWrites,     \* bound: goroutines waiting to write the column when a request starts
  MaxFaults      \* bound: failed calls and crashes in a behaviour

ASSUME SessionsAssumption ==
  /\ NoAccount \notin Accounts
  /\ MaxTokens \in Nat
  /\ MaxWrites \in Nat
  /\ MaxFaults \in Nat

NoToken == 0
Tokens == 1..MaxTokens
MaybeToken == Tokens \cup {NoToken}

VARIABLES
  access,     \* account:<id>, the session whose access token is accepted
  current,    \* account:<id>:refresh
  alive,      \* the tokens with a key refresh:<token>
  column,     \* users.refresh_token
  owner,      \* account of each session issued so far, in order
  told,       \* sessions whose tokens were returned to the client
  pc, who,    \* where a request is, and for which account
  shown,      \* the refresh token it was given, or found and will delete
  fresh,      \* the session it issues
  writes,     \* the goroutines that have still to write the column
  faults,
  \* observers, read by no action
  used,       \* tokens that Refresh or Logout has accepted
  lapsed,     \* tokens whose seven days are over
  entangled,  \* sessions touched by two requests at a time, or by one with an unregistered token
  hit,        \* sessions a failed call or a crash was about
  unsaved     \* accounts with a write that failed or was overtaken

redis == <<access, current, alive>>
request == <<pc, who, shown, fresh>>
clients == <<owner, told>>
observers == <<used, lapsed, entangled, hit, unsaved>>
vars == <<redis, column, clients, request, writes, faults, observers>>

PCs == {"idle", "findOld", "dropOld", "dropShown", "dropCurrent", "dropAccess",
        "storeAccess", "storeCurrent", "storeToken"}
Write == [a : Accounts, t : MaybeToken]

TypeOK ==
  /\ access \in [Accounts -> MaybeToken]
  /\ current \in [Accounts -> MaybeToken]
  /\ alive \subseteq Tokens
  /\ column \in [Accounts -> MaybeToken]
  /\ owner \in Seq(Accounts) /\ Len(owner) <= MaxTokens
  /\ told \subseteq DOMAIN owner
  /\ pc \in [Requests -> PCs]
  /\ who \in [Requests -> Accounts \cup {NoAccount}]
  /\ shown \in [Requests -> MaybeToken]
  /\ fresh \in [Requests -> MaybeToken]
  /\ writes \in Seq(Write)
  /\ faults \in 0..MaxFaults
  /\ used \subseteq Tokens /\ lapsed \subseteq Tokens
  /\ entangled \subseteq Tokens /\ hit \subseteq Tokens
  /\ unsaved \subseteq Accounts

Init ==
  /\ access = [a \in Accounts |-> NoToken]
  /\ current = [a \in Accounts |-> NoToken]
  /\ alive = {}
  /\ column = [a \in Accounts |-> NoToken]
  /\ owner = <<>> /\ told = {}
  /\ pc = [r \in Requests |-> "idle"]
  /\ who = [r \in Requests |-> NoAccount]
  /\ shown = [r \in Requests |-> NoToken]
  /\ fresh = [r \in Requests |-> NoToken]
  /\ writes = <<>>
  /\ faults = 0
  /\ used = {} /\ lapsed = {} /\ entangled = {} /\ hit = {} /\ unsaved = {}

Fault == faults < MaxFaults /\ faults' = faults + 1
Goto(r, label) == pc' = [pc EXCEPT ![r] = label]

\* The sessions the requests of an account have in hand.
Busy(a) == {r \in Requests : who[r] = a}
InHand(r) == {shown[r], fresh[r]} \ {NoToken}

\* What a request touches that starts beside another, or with a token that is not
\* the registered one.
Mixed(a, given, new) ==
  ((IF Busy(a) = {} THEN {} ELSE {given, new} \cup UNION {InHand(q) : q \in Busy(a)})
     \cup (IF given \in {NoToken, current[a]} THEN {} ELSE {current[a]})) \ {NoToken}

\* A request about account a starts, with what it issues and was given.
Start(r, a, given, new, label) ==
  /\ pc[r] = "idle"
  /\ Len(writes) <= MaxWrites
  /\ Goto(r, label)
  /\ who' = [who EXCEPT ![r] = a]
  /\ shown' = [shown EXCEPT ![r] = given]
  /\ fresh' = [fresh EXCEPT ![r] = new]
  /\ owner' = IF new = NoToken THEN owner ELSE Append(owner, a)
  /\ entangled' = entangled \cup Mixed(a, given, new)
  /\ UNCHANGED <<redis, column, told, writes, faults, lapsed, hit, unsaved>>

\* The next session's number; it is given out where the request starts.
Issue == Len(owner) + 1
CanIssue == Len(owner) < MaxTokens

----------------------------------------------------------------------------
\* Login, after the password was checked.
Login(r, a) ==
  /\ CanIssue
  /\ Start(r, a, NoToken, Issue, "findOld")
  /\ UNCHANGED used

\* Refresh and Logout look the account up by the token; with a token that has no
\* key they end there, and change nothing.
Refresh(r, t) ==
  /\ t \in told \cap alive
  /\ CanIssue
  /\ Start(r, owner[t], t, Issue, "dropShown")
  /\ used' = used \cup {t}

Logout(r, t) ==
  /\ t \in told \cap alive
  /\ Start(r, owner[t], t, NoToken, "dropShown")
  /\ used' = used \cup {t}

----------------------------------------------------------------------------
(* The commands.  Their errors are ignored, so a request goes on to the next *)
(* one either way; behind the last one it starts the goroutine and answers.   *)

\* Mutant: Logout leaves the column alone.
FinishQuietly(r) ==
  /\ Goto(r, "idle")
  /\ who' = [who EXCEPT ![r] = NoAccount]
  /\ shown' = [shown EXCEPT ![r] = NoToken]
  /\ fresh' = [fresh EXCEPT ![r] = NoToken]
  /\ told' = told \cup ({fresh[r]} \ {NoToken})
  /\ writes' = IF fresh[r] = NoToken THEN writes ELSE Append(writes, [a |-> who[r], t |-> fresh[r]])
  /\ UNCHANGED owner

Finish(r) ==
  /\ Goto(r, "idle")
  /\ who' = [who EXCEPT ![r] = NoAccount]
  /\ shown' = [shown EXCEPT ![r] = NoToken]
  /\ fresh' = [fresh EXCEPT ![r] = NoToken]
  /\ told' = told \cup ({fresh[r]} \ {NoToken})
  /\ writes' = Append(writes, [a |-> who[r], t |-> fresh[r]])
  /\ UNCHANGED owner

GoOn(r, label) == Goto(r, label) /\ UNCHANGED <<who, shown, fresh, clients, writes>>

\* Where a request goes from each command but the first look.
Proceed(r) ==
  \/ pc[r] = "dropOld" /\ GoOn(r, "storeAccess")
  \/ pc[r] = "dropShown" /\ GoOn(r, "dropCurrent")
  \/ pc[r] = "dropCurrent" /\ GoOn(r, IF fresh[r] = NoToken THEN "dropAccess" ELSE "storeAccess")
  \/ pc[r] = "dropAccess" /\ Finish(r)
  \/ pc[r] = "storeAccess" /\ GoOn(r, "storeCurrent")
  \/ pc[r] = "storeCurrent" /\ GoOn(r, "storeToken")
  \/ pc[r] = "storeToken" /\ Finish(r)

Quiet == UNCHANGED <<column, faults, observers>>

FindOld(r) ==
  /\ pc[r] = "findOld"
  /\ shown' = [shown EXCEPT ![r] = current[who[r]]]
  /\ Goto(r, IF current[who[r]] = NoToken THEN "storeAccess" ELSE "dropOld")
  /\ UNCHANGED <<redis, who, fresh, clients, writes>> /\ Quiet

\* Mutant: the token itself is left alone.
DropNothing(r) ==
  /\ pc[r] \in {"dropOld", "dropShown"}
  /\ Proceed(r)
  /\ UNCHANGED redis /\ Quiet

DropToken(r) ==
  /\ pc[r] \in {"dropOld", "dropShown"}
  /\ alive' = alive \ {shown[r]}
  /\ Proceed(r)
  /\ UNCHANGED <<access, current>> /\ Quiet

DropCurrent(r) ==
  /\ pc[r] = "dropCurrent"
  /\ current' = [current EXCEPT ![who[r]] = NoToken]
  /\ Proceed(r)
  /\ UNCHANGED <<access, alive>> /\ Quiet

DropAccess(r) ==
  /\ pc[r] = "dropAccess"
  /\ access' = [access EXCEPT ![who[r]] = NoToken]
  /\ Proceed(r)
  /\ UNCHANGED <<current, alive>> /\ Quiet

\* Mutant: the new access token is returned but not stored.
StoreNoAccess(r) ==
  /\ pc[r] = "storeAccess"
  /\ Proceed(r)
  /\ UNCHANGED redis /\ Quiet

StoreAccess(r) ==
  /\ pc[r] = "storeAccess"
  /\ access' = [access EXCEPT ![who[r]] = fresh[r]]
  /\ Proceed(r)
  /\ UNCHANGED <<current, alive>> /\ Quiet

\* Mutant: the old token stays registered.
StoreNoCurrent(r) ==
  /\ pc[r] = "storeCurrent"
  /\ Proceed(r)
  /\ UNCHANGED redis /\ Quiet

StoreCurrent(r) ==
  /\ pc[r] = "storeCurrent"
  /\ current' = [current EXCEPT ![who[r]] = fresh[r]]
  /\ Proceed(r)
  /\ UNCHANGED <<access, alive>> /\ Quiet

StoreToken(r) ==
  /\ pc[r] = "storeToken"
  /\ alive' = alive \cup {fresh[r]}
  /\ Proceed(r)
  /\ UNCHANGED <<access, current>> /\ Quiet

Concerned(r) == (InHand(r) \cup {current[who[r]]}) \ {NoToken}

CallFails(r) ==
  /\ pc[r] # "idle"
  /\ Fault
  /\ \/ pc[r] = "findOld" /\ GoOn(r, "storeAccess")
     \/ Proceed(r)
  /\ hit' = hit \cup Concerned(r)
  /\ UNCHANGED <<redis, column, used, lapsed, entangled, unsaved>>

----------------------------------------------------------------------------
\* A goroutine writes the column; they run in any order, for two seconds at most.
UpdateRefreshToken(i) ==
  /\ i \in DOMAIN writes
  /\ column' = [column EXCEPT ![writes[i].a] = writes[i].t]
  /\ writes' = RemoveAt(writes, i)
  /\ unsaved' = IF \E j \in 1..i-1 : writes[j].a = writes[i].a THEN unsaved \cup {writes[i].a}
                ELSE unsaved
  /\ UNCHANGED <<redis, clients, request, faults, used, lapsed, entangled, hit>>

UpdateFails(i) ==
  /\ i \in DOMAIN writes
  /\ Fault
  /\ writes' = RemoveAt(writes, i)
  /\ unsaved' = unsaved \cup {writes[i].a}
  /\ UNCHANGED <<redis, column, clients, request, used, lapsed, entangled, hit>>

\* After seven days both keys of a token go; they were set with the same time to live.
Lapse(t) ==
  /\ t \in told \cap alive
  /\ alive' = alive \ {t}
  /\ current' = [a \in Accounts |-> IF current[a] = t THEN NoToken ELSE current[a]]
  /\ lapsed' = lapsed \cup {t}
  /\ UNCHANGED <<access, column, clients, request, writes, faults, used, entangled, hit, unsaved>>

\* The API process dies with its requests and goroutines.
Crash ==
  /\ Fault
  /\ pc' = [r \in Requests |-> "idle"]
  /\ who' = [r \in Requests |-> NoAccount]
  /\ shown' = [r \in Requests |-> NoToken]
  /\ fresh' = [r \in Requests |-> NoToken]
  /\ writes' = <<>>
  /\ hit' = hit \cup UNION {Concerned(r) : r \in {q \in Requests : pc[q] # "idle"}}
  /\ unsaved' = unsaved \cup {writes[i].a : i \in DOMAIN writes}
  /\ UNCHANGED <<redis, column, clients, used, lapsed, entangled>>

Command(r) ==
  \/ FindOld(r) \/ DropToken(r) \/ DropCurrent(r) \/ DropAccess(r)
  \/ StoreAccess(r) \/ StoreCurrent(r) \/ StoreToken(r) \/ CallFails(r)

Next ==
  \/ \E r \in Requests, a \in Accounts : Login(r, a)
  \/ \E r \in Requests, t \in Tokens : Refresh(r, t) \/ Logout(r, t)
  \/ \E r \in Requests : Command(r)
  \/ \E i \in DOMAIN writes : UpdateRefreshToken(i) \/ UpdateFails(i)
  \/ \E t \in Tokens : Lapse(t)
  \/ Crash

Spec == Init /\ [][Next]_vars

----------------------------------------------------------------------------
(* Properties *)

\* JWTAuthMiddleWare accepts an access token while it is the one stored.
Accepted(t) == access[owner[t]] = t

Disturbed == entangled \cup hit

\* A refresh token that was exchanged or given back does not work again, not even
\* for requests that run at the same time, once it was deleted.
UsedTokensDie ==
  \A t \in used \cap alive :
    t \in hit \/ \E r \in Requests : pc[r] = "dropShown" /\ shown[r] = t

\* Of the tokens of an account only the registered one works, also while requests
\* run, so that the next login can end the session; others were left by overlapping
\* requests or failures.
OneTokenPerAccount ==
  \A t \in alive : current[owner[t]] = t \/ t \in Disturbed

\* The last session a client was given works, access and refresh, until it is used up.
LastSessionWorks ==
  \A t \in told :
    LET later == {u \in DOMAIN owner : u > t /\ owner[u] = owner[t]}
    IN \/ later # {} \/ t \in used \cup lapsed \cup Disturbed
       \/ Accepted(t) /\ current[owner[t]] = t /\ t \in alive

\* When no goroutine is left the column holds the registered token.
ColumnFollows ==
  \A a \in Accounts :
    \/ Busy(a) # {} \/ column[a] = current[a] \/ a \in unsaved
    \/ \E i \in DOMAIN writes : writes[i].a = a
    \/ {column[a], current[a]} \cap (lapsed \cup Disturbed) # {}
=============================================================================
