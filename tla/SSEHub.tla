------------------------------- MODULE SSEHub -------------------------------
(***************************************************************************)
(* The notification streams of the API process.  Every open stream runs    *)
(* SSEHandler in a goroutine with a channel of its own; the hub's map      *)
(* holds the newest channel of each user.  The notification consumer calls *)
(* Push, which looks the channel up and sends under the read lock.         *)
(* Subscribe and UnSubscribe hold the write lock; they are one step, taken *)
(* when no reader is inside.  A channel is named by its connection.        *)
(* Notifications are numbered as they are sent.  What the hub promises is   *)
(* stated in Mailbox, which this module implements.                        *)
(***************************************************************************)
EXTENDS Integers, Sequences, FiniteSets

CONSTANTS
  Subscribers, Conns,
  Pushers,      \* goroutines that call Push (main starts one consumer)
  NoSubscriber, NoConn,
  Capacity,     \* of a channel (20)
  MaxFailures,  \* failed writes in a row that end a stream (3)
  MaxPushes     \* bound: no Push starts after that many were sent

ASSUME SSEHubAssumption ==
  /\ NoSubscriber \notin Subscribers
  /\ NoConn \notin Conns
  /\ Capacity \in Nat \ {0}
  /\ MaxFailures \in Nat \ {0}
  /\ MaxPushes \in Nat

Notes == [n : Nat \ {0}, to : Subscribers]   \* the n-th notification sent, and for whom
NoNote == [n |-> 0, to |-> NoSubscriber]

VARIABLES
  clients,     \* SSEHub.clients: the channel registered for a user
  whose,       \* whose stream a connection is
  buffer,      \* what a channel holds
  closed,      \* channels that were closed
  connPc,      \* where a connection's handler is
  note,        \* the notification it is writing
  failcount,
  gone,        \* connections whose client went away
  readers,     \* pushers that hold the read lock
  target,      \* the user they push to
  found,       \* the channel they have looked up
  pushes,      \* notifications sent so far
  written,     \* notifications written to each connection
  panicked     \* a closed channel was closed or sent to

handler == <<whose, connPc, note, failcount, gone, written>>
pusher == <<readers, target, found, pushes>>
hubVars == <<clients, buffer, closed, handler, pusher, panicked>>

HubPCs == {"new", "subscribe", "loop", "write", "leave", "done"}
Streaming == {"loop", "write", "leave"}

HubTypeOK ==
  /\ clients \in [Subscribers -> Conns \cup {NoConn}]
  /\ whose \in [Conns -> Subscribers \cup {NoSubscriber}]
  /\ buffer \in [Conns -> Seq(Notes)]
  /\ closed \in SUBSET Conns
  /\ connPc \in [Conns -> HubPCs]
  /\ note \in [Conns -> Notes \cup {NoNote}]
  /\ failcount \in [Conns -> 0..MaxFailures]
  /\ gone \in SUBSET Conns
  /\ readers \in SUBSET Pushers
  /\ target \in [Pushers -> Subscribers \cup {NoSubscriber}]
  /\ found \in [Pushers -> Conns \cup {NoConn}]
  /\ pushes \in Nat
  /\ written \in [Conns -> Seq(Notes)]
  /\ panicked \in BOOLEAN

HubInit ==
  /\ clients = [u \in Subscribers |-> NoConn]
  /\ whose = [c \in Conns |-> NoSubscriber]
  /\ buffer = [c \in Conns |-> <<>>]
  /\ closed = {}
  /\ connPc = [c \in Conns |-> "new"]
  /\ note = [c \in Conns |-> NoNote]
  /\ failcount = [c \in Conns |-> 0]
  /\ gone = {}
  /\ readers = {}
  /\ target = [p \in Pushers |-> NoSubscriber]
  /\ found = [p \in Pushers |-> NoConn]
  /\ pushes = 0
  /\ written = [c \in Conns |-> <<>>]
  /\ panicked = FALSE

Goto(c, label) == connPc' = [connPc EXCEPT ![c] = label]

----------------------------------------------------------------------------
(* SSEHandler *)

Connect(c) ==
  /\ connPc[c] = "new"
  /\ \E u \in Subscribers : whose' = [whose EXCEPT ![c] = u]
  /\ Goto(c, "subscribe")
  /\ UNCHANGED <<clients, buffer, closed, note, failcount, gone, pusher, written, panicked>>

\* Closing a channel; closing one that is closed panics.
Close(c) ==
  /\ closed' = closed \cup {c}
  /\ panicked' = (panicked \/ c \in closed)

\* Mutant: the older channel is left open.
SubscribeLeavesOld(c) ==
  /\ connPc[c] = "subscribe"
  /\ readers = {}
  /\ clients' = [clients EXCEPT ![whose[c]] = c]
  /\ Goto(c, "loop")
  /\ UNCHANGED <<buffer, closed, whose, note, failcount, gone, pusher, written, panicked>>

\* A newer stream of the user takes over: the older channel is closed.
Subscribe(c) ==
  LET u == whose[c] IN
  /\ connPc[c] = "subscribe"
  /\ readers = {}
  /\ \/ clients[u] # NoConn /\ Close(clients[u])
     \/ clients[u] = NoConn /\ UNCHANGED <<closed, panicked>>
  /\ clients' = [clients EXCEPT ![u] = c]
  /\ Goto(c, "loop")
  /\ UNCHANGED <<whose, buffer, note, failcount, gone, pusher, written>>

\* Mutants: the channel is closed, or the entry removed, without asking whose entry
\* it is.
UnSubscribeCloses(c) ==
  /\ connPc[c] = "leave"
  /\ readers = {}
  /\ clients' = [clients EXCEPT ![whose[c]] = IF @ = c THEN NoConn ELSE @]
  /\ Close(c)
  /\ Goto(c, "done")
  /\ UNCHANGED <<whose, buffer, note, failcount, gone, pusher, written>>

UnSubscribeRemoves(c) ==
  /\ connPc[c] = "leave"
  /\ readers = {}
  /\ clients' = [clients EXCEPT ![whose[c]] = NoConn]
  /\ closed' = closed \cup {c}
  /\ Goto(c, "done")
  /\ UNCHANGED <<whose, buffer, note, failcount, gone, pusher, written, panicked>>

\* Only the registered channel is removed and closed.
UnSubscribe(c) ==
  LET u == whose[c] IN
  /\ connPc[c] = "leave"
  /\ readers = {}
  /\ \/ /\ clients[u] = c
        /\ clients' = [clients EXCEPT ![u] = NoConn]
        /\ Close(c)
     \/ /\ clients[u] # c
        /\ UNCHANGED <<clients, closed, panicked>>
  /\ Goto(c, "done")
  /\ UNCHANGED <<whose, buffer, note, failcount, gone, pusher, written>>

\* The client goes away at any time; a running handler sees it as Done.
Disconnect(c) ==
  /\ connPc[c] \notin {"new", "done"}
  /\ gone' = gone \cup {c}
  /\ UNCHANGED <<clients, buffer, closed, whose, connPc, note, failcount, pusher, written, panicked>>

SeeDone(c) ==
  /\ connPc[c] = "loop"
  /\ c \in gone
  /\ Goto(c, "leave")
  /\ UNCHANGED <<clients, buffer, closed, whose, note, failcount, gone, pusher, written, panicked>>

ReceiveNote(c) ==
  /\ connPc[c] = "loop"
  /\ buffer[c] # <<>>
  /\ note' = [note EXCEPT ![c] = Head(buffer[c])]
  /\ buffer' = [buffer EXCEPT ![c] = Tail(@)]
  /\ Goto(c, "write")
  /\ UNCHANGED <<clients, closed, whose, failcount, gone, pusher, written, panicked>>

\* A closed channel delivers what it still holds before it reports the close.
SeeClosed(c) ==
  /\ connPc[c] = "loop"
  /\ c \in closed
  /\ buffer[c] = <<>>
  /\ Goto(c, "leave")
  /\ UNCHANGED <<clients, buffer, closed, whose, note, failcount, gone, pusher, written, panicked>>

\* A write to the client succeeds and clears the count, or fails and counts.
WriteResult(c, ok) ==
  \/ /\ ok
     /\ failcount' = [failcount EXCEPT ![c] = 0]
     /\ Goto(c, "loop")
  \/ /\ ~ok
     /\ failcount' = [failcount EXCEPT ![c] = @ + 1]
     /\ Goto(c, IF failcount[c] + 1 >= MaxFailures THEN "leave" ELSE "loop")

\* Mutant: a notification that could not be written is put back to be retried.
WriteRetries(c, ok) ==
  /\ connPc[c] = "write"
  /\ WriteResult(c, ok)
  /\ note' = [note EXCEPT ![c] = NoNote]
  /\ written' = IF ok THEN [written EXCEPT ![c] = Append(@, note[c])] ELSE written
  /\ buffer' = IF ok \/ c \in closed THEN buffer ELSE [buffer EXCEPT ![c] = Append(@, note[c])]
  /\ UNCHANGED <<clients, closed, whose, gone, pusher, panicked>>

Write(c, ok) ==
  /\ connPc[c] = "write"
  /\ WriteResult(c, ok)
  /\ note' = [note EXCEPT ![c] = NoNote]
  /\ written' = IF ok THEN [written EXCEPT ![c] = Append(@, note[c])] ELSE written
  /\ UNCHANGED <<clients, buffer, closed, whose, gone, pusher, panicked>>

\* The keepalive of the 30 s ticker.
KeepAlive(c, ok) ==
  /\ connPc[c] = "loop"
  /\ WriteResult(c, ok)
  /\ UNCHANGED <<clients, buffer, closed, whose, note, gone, pusher, written, panicked>>

----------------------------------------------------------------------------
(* Push *)

PushLookup(p, u) ==
  /\ p \notin readers
  /\ pushes < MaxPushes
  /\ readers' = readers \cup {p}
  /\ target' = [target EXCEPT ![p] = u]
  /\ found' = [found EXCEPT ![p] = clients[u]]
  /\ UNCHANGED <<clients, buffer, closed, handler, pushes, panicked>>

\* Mutant: no default branch, the sender waits for room.
SendBlocks(c, m) ==
  \/ c \in closed /\ panicked' = TRUE /\ UNCHANGED buffer
  \/ /\ c \notin closed
     /\ Len(buffer[c]) < Capacity
     /\ buffer' = [buffer EXCEPT ![c] = Append(@, m)]
     /\ UNCHANGED panicked

\* The channel takes the notification, or is full and it is discarded.
Send(c, m) ==
  \/ c \in closed /\ panicked' = TRUE /\ UNCHANGED buffer
  \/ /\ c \notin closed
     /\ Len(buffer[c]) < Capacity
     /\ buffer' = [buffer EXCEPT ![c] = Append(@, m)]
     /\ UNCHANGED panicked
  \/ c \notin closed /\ Len(buffer[c]) >= Capacity /\ UNCHANGED <<buffer, panicked>>

PushSend(p) ==
  /\ p \in readers
  /\ \/ found[p] = NoConn /\ UNCHANGED <<buffer, panicked>>
     \/ found[p] # NoConn /\ Send(found[p], [n |-> pushes + 1, to |-> target[p]])
  /\ pushes' = pushes + 1
  /\ readers' = readers \ {p}
  /\ target' = [target EXCEPT ![p] = NoSubscriber]
  /\ found' = [found EXCEPT ![p] = NoConn]
  /\ UNCHANGED <<clients, closed, handler>>

----------------------------------------------------------------------------
\* What a handler does by itself once its client is connected.
SSEHandler(c) ==
  \/ Subscribe(c) \/ UnSubscribe(c) \/ SeeDone(c) \/ ReceiveNote(c) \/ SeeClosed(c)
  \/ \E ok \in BOOLEAN : Write(c, ok)

HubNext ==
  \/ \E c \in Conns : Connect(c) \/ Disconnect(c) \/ SSEHandler(c)
  \/ \E c \in Conns, ok \in BOOLEAN : KeepAlive(c, ok)
  \/ \E p \in Pushers : PushSend(p) \/ \E u \in Subscribers : PushLookup(p, u)

HubSpec == HubInit /\ [][HubNext]_hubVars

\* Goroutines run; the RWMutex starves no writer (strong fairness); a write to
\* a client ends, with the bytes taken or with an error.
HubFairSpec ==
  /\ HubSpec
  /\ \A c \in Conns : SF_hubVars(SSEHandler(c))
  /\ \A p \in Pushers : WF_hubVars(PushSend(p))

----------------------------------------------------------------------------
(* Properties *)

\* No goroutine sends to, or closes, a closed channel, in whatever order
\* streams take over, clients leave and notifications are pushed: a panic in
\* the consumer would end the API process.
NoPanic == ~panicked

\* A stream that was not taken over is the one registered for its user until
\* its handler has left: leaving handlers never unregister a newer stream, so
\* no open stream is cut off from Push.
OpenStreamRegistered ==
  \A c \in Conns :
    connPc[c] \in Streaming /\ c \notin closed => clients[whose[c]] = c

\* What Push finds is an open channel that a handler still reads.
RegisteredStreamOpen ==
  \A u \in Subscribers :
    clients[u] # NoConn => /\ clients[u] \notin closed
                           /\ connPc[clients[u]] \in Streaming
                           /\ whose[clients[u]] = u

\* The registered streams are exactly the open ones, whichever tabs take over, leave
\* and are superseded in between.
RegistrationExact == OpenStreamRegistered /\ RegisteredStreamOpen

\* The mailbox of a stream: the notification it is writing, then its channel.
Waiting(c) == IF note[c] = NoNote THEN buffer[c] ELSE <<note[c]>> \o buffer[c]
Owner(c) == IF connPc[c] \in {"new", "subscribe"} THEN NoSubscriber ELSE whose[c]

Hub == INSTANCE Mailbox WITH
  Users <- Subscribers, NoUser <- NoSubscriber,
  owner <- [c \in Conns |-> Owner(c)], mail <- [c \in Conns |-> Waiting(c)],
  current <- clients, got <- written, posted <- pushes

\* The hub is a mailbox: a notification goes to the newest stream of its user or, if
\* that has no room or there is none, to nobody; a stream writes what it was sent in
\* the order it was sent, across take-overs, failed writes and the draining of a
\* closed channel.
ImplementsMailbox == Hub!Spec

Superseded(c) == connPc[c] \in Streaming /\ clients[whose[c]] # c

\* A stream that Push can no longer reach, because a newer one took over, ends,
\* and so does one whose client is gone.
StreamEnds ==
  \A c \in Conns : (Superseded(c) \/ c \in gone) ~> (connPc[c] = "done")

\* Push returns, however slow the clients are and whoever waits for the lock:
\* one stuck stream never stops the notification consumer.
PushReturns == \A p \in Pushers : (p \in readers) ~> (p \notin readers)
============================================================================
