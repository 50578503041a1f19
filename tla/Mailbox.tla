------------------------------ MODULE Mailbox ------------------------------
(***************************************************************************)
(* What the notification hub promises.  A user has at most one stream that *)
(* is current; a notification is put in its mailbox, or is lost when that  *)
(* is full or the user has none; a stream takes its mail in order and      *)
(* shows it, or loses it.  Goroutines, locks, channels and their closing   *)
(* are the business of SSEHub, which implements this.                      *)
(***************************************************************************)
EXTENDS Naturals, Sequences

CONSTANTS Users, Conns, NoUser, NoConn, Capacity

VARIABLES
  owner,      \* the user a stream was opened for
  current,    \* the stream that gets a user's mail
  mail,       \* what a stream was sent and has not shown
  got,        \* what it has shown
  posted      \* notifications sent so far

vars == <<owner, current, mail, got, posted>>

Init ==
  /\ owner = [c \in Conns |-> NoUser]
  /\ current = [u \in Users |-> NoConn]
  /\ mail = [c \in Conns |-> <<>>]
  /\ got = [c \in Conns |-> <<>>]
  /\ posted = 0

\* The newest stream of a user gets his mail; an older one keeps what it was sent.
Open(c, u) ==
  /\ owner[c] = NoUser
  /\ owner' = [owner EXCEPT ![c] = u]
  /\ current' = [current EXCEPT ![u] = c]
  /\ UNCHANGED <<mail, got, posted>>

\* Only the current stream leaves the user without one.
Leave(u) ==
  /\ current' = [current EXCEPT ![u] = NoConn]
  /\ UNCHANGED <<owner, mail, got, posted>>

\* A stream holds Capacity notifications, and one more while it shows it.
Post(u) ==
  LET c == current[u] IN
  /\ posted' = posted + 1
  /\ \/ /\ c # NoConn /\ Len(mail[c]) <= Capacity
        /\ mail' = [mail EXCEPT ![c] = Append(@, [n |-> posted', to |-> u])]
     \/ (c = NoConn \/ Len(mail[c]) >= Capacity) /\ UNCHANGED mail
  /\ UNCHANGED <<owner, current, got>>

Take(c) ==
  /\ mail[c] # <<>>
  /\ mail' = [mail EXCEPT ![c] = Tail(@)]
  /\ \/ got' = [got EXCEPT ![c] = Append(@, Head(mail[c]))]
     \/ UNCHANGED got
  /\ UNCHANGED <<owner, current, posted>>

Next ==
  \/ \E c \in Conns, u \in Users : Open(c, u)
  \/ \E u \in Users : Leave(u) \/ Post(u)
  \/ \E c \in Conns : Take(c)

Spec == Init /\ [][Next]_vars

----------------------------------------------------------------------------
\* A stream shows nothing twice and nothing out of order, and only what was sent to
\* the user it was opened for.
OwnMailInOrder ==
  \A c \in Conns :
    LET s == got[c] \o mail[c]
    IN /\ \A i, j \in DOMAIN s : i < j => s[i].n < s[j].n
       /\ \A i \in DOMAIN s : s[i].to = owner[c]
============================================================================
