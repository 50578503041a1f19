----------------------------- MODULE VideoProofs ------------------------------
(***************************************************************************)
(* Proofs about Upload and Popularity, the way of a video from its parts   *)
(* to its place in the ranking: for any number of uploads, files, parts,   *)
(* videos, readers and faults, the types, the agreement of session and     *)
(* multipart upload, the key of a completed upload, the object of a        *)
(* published video, that no like is lost from the ranking or counted twice *)
(* unnoticed, that a snapshot is the sum of its buckets, and that its      *)
(* pages do not shift.                                                     *)
(***************************************************************************)
EXTENDS Upload, Popularity, FiniteSetTheorems, SequenceTheorems,
        WellFoundedInduction, TLAPS

Serving == {"list", "assemble", "abort", "delsession", "delresume"}
Deleting == {"delrow", "delobject"}

\* A request that is at work has an upload or a row in hand; before it assembles
\* an object it has seen all parts.
InHand ==
  \A r \in Requests :
    /\ pc[r] \in Starting \cup Serving => up[r] \in Uploads
    /\ pc[r] \in Deleting => vid[r] \in DOMAIN key
    /\ pc[r] = "assemble" => parts[up[r]] = Parts
TypeInv == TypeOK /\ InHand

LEMMA TypeInvInit == Init => TypeInv
  BY UploadAssumption DEF Init, TypeInv, TypeOK, InHand, Files, Parts, PCs, Starting, Serving, Deleting

LEMMA FaultType == ASSUME TypeOK, Fault PROVE faults' \in 0..MaxFaults
  BY UploadAssumption DEF TypeOK, Fault

LEMMA ZeroVideo == 0 \in 0..MaxVideos
  BY UploadAssumption

\* The first and the last label of a request, and the moves of one request.
LEMMA MoveType ==
  ASSUME TypeInv, NEW r \in Requests, NEW label \in PCs, UNCHANGED <<key, parts>>,
         \/ Leave(r)
         \/ Goto(r, label) /\ pc[r] \in Starting \cup Serving /\ label \in Serving \ {"assemble"}
         \/ Goto(r, label) /\ pc[r] \in Starting /\ label \in Starting
         \/ Goto(r, label) /\ pc[r] \in Deleting /\ label \in Deleting
  PROVE  /\ pc' \in [Requests -> PCs]
         /\ up' \in [Requests -> Uploads \cup {NoUpload}]
         /\ vid' \in [Requests -> 0..MaxVideos]
         /\ InHand'
<1>1. "idle" \in PCs /\ 0 \in 0..MaxVideos
  BY ZeroVideo DEF PCs
<1>2. \A l \in Starting \cup Serving : l \notin Deleting /\ l # "idle"
  BY DEF Starting, Serving, Deleting
<1>3. CASE Leave(r)
  BY <1>1, <1>2, <1>3 DEF Leave, TypeInv, TypeOK, InHand, Starting, Serving, Deleting
<1>4. CASE Goto(r, label)
  BY <1>2, <1>4 DEF Goto, Leave, TypeInv, TypeOK, InHand, Starting, Serving, Deleting
<1> QED BY <1>3, <1>4

LEMMA TypeInvStep == TypeInv /\ [Next]_vars => TypeInv'
<1> SUFFICES ASSUME TypeInv, [Next]_vars PROVE TypeInv'
  OBVIOUS
<1> USE DEF TypeInv, minio, redis, table, client, requests, observers
<1>0. \A r \in Requests : pc[r] \in Starting \cup Serving => up[r] \in Uploads /\ FileOf[up[r]] \in Files
  BY DEF InHand, Files
<1>1. ASSUME NEW r \in Requests, NEW u \in Uploads, MultipartInit(r, u) PROVE TypeInv'
  <2>1. FileOf[u] \in Files
    BY DEF Files
  <2> QED BY <1>1, <2>1 DEF MultipartInit, Work, TypeOK, InHand, PCs, Starting, Serving, Deleting
<1>2. ASSUME NEW r \in Requests, SetResume(r) PROVE TypeInv'
  <2>1. pc[r] \in Starting /\ "setsession" \in Starting /\ "setsession" \in PCs
    BY <1>2 DEF SetResume, Starting, PCs
  <2>2. resume' \in [Files -> Uploads \cup {NoUpload}]
    BY <1>0, <1>2, <2>1 DEF SetResume, TypeOK
  <2> QED BY <1>2, <2>1, <2>2, MoveType DEF SetResume, TypeOK
<1>3. ASSUME NEW r \in Requests, SetSession(r) PROVE TypeInv'
  <2>1. up[r] \in Uploads /\ "idle" \in PCs
    BY <1>0, <1>3 DEF SetSession, Starting, PCs
  <2> QED BY <1>3, <2>1, MoveType DEF SetSession, TypeOK
<1>4. ASSUME NEW u \in Uploads, NEW p \in Parts, PutPart(u, p) PROVE TypeInv'
  <2>1. parts' \in [Uploads -> SUBSET Parts] /\ \A x \in Uploads : parts[x] = Parts => parts'[x] = Parts
    BY <1>4 DEF PutPart, TypeOK
  <2> QED BY <1>4, <2>1 DEF PutPart, TypeOK, InHand, Serving
<1>5. ASSUME NEW u \in Uploads, Expire(u) PROVE TypeInv'
  <2>1. resume' \in [Files -> Uploads \cup {NoUpload}]
    BY <1>5 DEF Expire, TypeOK, Files
  <2> QED BY <1>5, <2>1 DEF Expire, TypeOK, InHand
<1>6. ASSUME NEW r \in Requests, NEW u \in Uploads, NEW label \in {"list", "abort"}, CheckSession(r, u, label)
      PROVE  TypeInv'
  BY <1>6 DEF CheckSession, Work, TypeOK, InHand, PCs, Starting, Serving, Deleting
<1>7. ASSUME NEW r \in Requests, ListParts(r) PROVE TypeInv'
  <2>1. CASE multipart[up[r]] = "open" /\ parts[up[r]] = Parts /\ Goto(r, "assemble")
    BY <1>7, <2>1 DEF ListParts, Goto, TypeOK, InHand, PCs, Starting, Serving, Deleting
  <2>2. CASE Leave(r)
    BY <1>7, <2>2, MoveType DEF ListParts, TypeOK, PCs
  <2> QED BY <1>7, <2>1, <2>2 DEF ListParts
<1>8. ASSUME NEW r \in Requests, CompleteMultipart(r) PROVE TypeInv'
  <2>1. pc[r] \in Serving /\ up[r] \in Uploads /\ parts[up[r]] = Parts
    BY <1>8 DEF CompleteMultipart, InHand, Serving
  <2>2. {"idle", "delsession"} \subseteq PCs /\ "delsession" \in Serving \ {"assemble"}
    BY DEF PCs, Serving
  <2>3. CASE Store(up[r]) /\ Goto(r, "delsession")
    <3>1. /\ multipart' \in [Uploads -> {"none", "open", "done", "aborted"}]
          /\ object' \in SUBSET Uploads
          /\ \A u \in object' : multipart'[u] = "done" /\ parts'[u] = Parts
      BY <1>8, <2>1, <2>3 DEF CompleteMultipart, Store, TypeOK
    <3> QED BY <1>8, <2>1, <2>2, <2>3, <3>1, MoveType DEF CompleteMultipart, TypeOK
  <2>4. CASE UNCHANGED <<multipart, object>> /\ Leave(r)
    BY <1>8, <2>2, <2>4, MoveType DEF CompleteMultipart, TypeOK
  <2> QED BY <1>8, <2>3, <2>4 DEF CompleteMultipart
<1>9. ASSUME NEW r \in Requests, AbortMultipart(r) PROVE TypeInv'
  <2>1. pc[r] \in Serving /\ up[r] \in Uploads
    BY <1>9 DEF AbortMultipart, InHand, Serving
  <2>2. {"idle", "delsession"} \subseteq PCs /\ "delsession" \in Serving \ {"assemble"}
    BY DEF PCs, Serving
  <2>3. CASE multipart[up[r]] = "open" /\ multipart' = [multipart EXCEPT ![up[r]] = "aborted"] /\ Goto(r, "delsession")
    <3>1. /\ multipart' \in [Uploads -> {"none", "open", "done", "aborted"}]
          /\ \A u \in object' : multipart'[u] = "done" /\ parts'[u] = Parts
      BY <1>9, <2>1, <2>3 DEF AbortMultipart, TypeOK
    <3> QED BY <1>9, <2>1, <2>2, <2>3, <3>1, MoveType DEF AbortMultipart, TypeOK
  <2>4. CASE UNCHANGED multipart /\ Leave(r)
    BY <1>9, <2>2, <2>4, MoveType DEF AbortMultipart, TypeOK
  <2> QED BY <1>9, <2>3, <2>4 DEF AbortMultipart
<1>10. ASSUME NEW r \in Requests, DelSession(r) PROVE TypeInv'
  <2>1. pc[r] \in Serving /\ "delresume" \in PCs /\ "delresume" \in Serving \ {"assemble"}
    BY <1>10 DEF DelSession, Serving, PCs
  <2> QED BY <1>10, <2>1, MoveType DEF DelSession, TypeOK
<1>11. ASSUME NEW r \in Requests, DelResume(r) PROVE TypeInv'
  <2>1. up[r] \in Uploads /\ "idle" \in PCs
    BY <1>0, <1>11 DEF DelResume, Serving, PCs
  <2>2. resume' \in [Files -> Uploads \cup {NoUpload}]
    BY <1>11, <2>1 DEF DelResume, TypeOK, Files
  <2>3. told' \in SUBSET Uploads
    BY <1>11, <2>1 DEF DelResume, Tell, TypeOK
  <2> QED BY <1>11, <2>1, <2>2, <2>3, MoveType DEF DelResume, TypeOK
<1>12. ASSUME NEW r \in Requests, DeleteSessionFails(r) PROVE TypeInv'
  <2>1. up[r] \in Uploads /\ "idle" \in PCs /\ faults' \in 0..MaxFaults
    BY <1>0, <1>12, FaultType DEF DeleteSessionFails, Serving, PCs
  <2>2. told' \in SUBSET Uploads /\ stuck' \in SUBSET Uploads
    BY <1>12, <2>1 DEF DeleteSessionFails, Tell, TypeOK
  <2> QED BY <1>12, <2>1, <2>2, MoveType DEF DeleteSessionFails, TypeOK
<1>13. ASSUME NEW u \in Uploads, Publish(u) PROVE TypeInv'
  <2>1. /\ key' \in Seq(Uploads) /\ Len(key') = Len(key) + 1 /\ Len(key') <= MaxVideos
        /\ DOMAIN key \subseteq DOMAIN key' /\ Len(key') \in DOMAIN key'
    BY <1>13, UploadAssumption DEF Publish, TypeOK
  <2>2. db' \in SUBSET DOMAIN key' /\ twice' \in SUBSET Uploads
    BY <1>13, <2>1 DEF Publish, TypeOK
  <2>3. InHand'
    BY <1>13, <2>1 DEF Publish, InHand
  <2> QED BY <1>13, <2>1, <2>2, <2>3 DEF Publish, TypeOK
<1>14. ASSUME NEW r \in Requests, NEW v \in db, FindVideo(r, v) PROVE TypeInv'
  <2>1. v \in DOMAIN key /\ v \in 0..MaxVideos
    BY UploadAssumption DEF TypeOK
  <2> QED BY <1>14, <2>1 DEF FindVideo, TypeOK, InHand, PCs, Starting, Serving, Deleting
<1>15. ASSUME NEW r \in Requests, DeleteRow(r) PROVE TypeInv'
  <2>1. {pc[r], "delobject"} \subseteq Deleting /\ "delobject" \in PCs
    BY <1>15 DEF DeleteRow, Deleting, PCs
  <2> QED BY <1>15, <2>1, MoveType DEF DeleteRow, TypeOK
<1>16. ASSUME NEW r \in Requests, RemoveObject(r) PROVE TypeInv'
  BY <1>16, MoveType DEF RemoveObject, TypeOK, PCs
<1>17. ASSUME NEW S \in SUBSET Requests, Abandon(S)
       PROVE  /\ adrift' \in SUBSET Uploads /\ stuck' \in SUBSET Uploads /\ lost' \in SUBSET Uploads
              /\ UNCHANGED <<shared, twice>>
  BY <1>0, <1>17 DEF Abandon, TypeOK, Starting, Finishing, Serving
<1>18. ASSUME NEW r \in Requests, Ends(r) PROVE TypeInv'
  <2>1. {r} \in SUBSET Requests /\ "idle" \in PCs /\ faults' \in 0..MaxFaults
    BY <1>18, FaultType DEF Ends, PCs
  <2> QED BY <1>17, <1>18, <2>1, MoveType DEF Ends, TypeOK
<1>19. ASSUME NEW r \in Requests, Unanswered(r) PROVE TypeInv'
  <2>1. /\ up[r] \in Uploads /\ "idle" \in PCs /\ faults' \in 0..MaxFaults
        /\ pc[r] = "assemble" => parts[up[r]] = Parts
    BY <1>0, <1>19, FaultType DEF Unanswered, Serving, PCs, InHand
  <2>2. /\ multipart' \in [Uploads -> {"none", "open", "done", "aborted"}]
        /\ object' \in SUBSET Uploads
        /\ \A u \in object' : multipart'[u] = "done" /\ parts'[u] = Parts
        /\ lost' \in SUBSET Uploads /\ stuck' \in SUBSET Uploads
    <3>1. CASE pc[r] = "assemble" /\ Store(up[r]) /\ lost' = lost \cup {up[r]}
      BY <1>19, <2>1, <3>1 DEF Unanswered, Store, TypeOK
    <3>2. CASE multipart' = [multipart EXCEPT ![up[r]] = "aborted"] /\ UNCHANGED <<object, lost>>
      BY <1>19, <2>1, <3>2 DEF Unanswered, TypeOK
    <3> QED BY <1>19, <3>1, <3>2 DEF Unanswered
  <2> QED BY <1>19, <2>1, <2>2, MoveType DEF Unanswered, TypeOK
<1>20. ASSUME NEW r \in Requests, SessionUnanswered(r) PROVE TypeInv'
  <2>1. up[r] \in Uploads /\ "idle" \in PCs /\ faults' \in 0..MaxFaults
    BY <1>0, <1>20, FaultType DEF SessionUnanswered, Starting, PCs
  <2> QED BY <1>20, <2>1, MoveType DEF SessionUnanswered, TypeOK
<1>21. CASE Crash
  <2>1. Requests \in SUBSET Requests /\ faults' \in 0..MaxFaults
    BY <1>21, FaultType DEF Crash
  <2>2. InHand'
    BY <1>21 DEF Crash, InHand, Starting, Serving, Deleting
  <2> QED BY <1>17, <1>21, <2>1, <2>2, ZeroVideo DEF Crash, TypeOK, PCs
<1>22. CASE UNCHANGED vars
  BY <1>22 DEF vars, TypeOK, InHand
<1> QED
  BY <1>1, <1>2, <1>3, <1>4, <1>5, <1>6, <1>7, <1>8, <1>9, <1>10, <1>11, <1>12, <1>13, <1>14, <1>15,
     <1>16, <1>18, <1>19, <1>20, <1>21, <1>22
  DEF Next, InitUpload, CompleteUpload, AbortUpload, DeleteSession, DeleteVideo

\* Every variable stays in its range, and every stored object is whole, for any
\* number of uploads, parts and requests.
THEOREM TypeCorrect == Spec => []TypeOK
<1>1. Spec => []TypeInv
  BY TypeInvInit, TypeInvStep, PTL DEF Spec
<1> QED BY <1>1, PTL DEF TypeInv

----------------------------------------------------------------------------
(***************************************************************************)
(* Who works on what: an upload that is being started is open, unknown to  *)
(* clients, and in the hands of one request; every other one in hand was   *)
(* handed out; a request that deletes a session has closed its upload.     *)
(***************************************************************************)

Begun ==
  \A r \in Requests : pc[r] \in Starting =>
    multipart[up[r]] = "open" /\ up[r] \notin started /\ up[r] \notin session
Alone == \A r, q \in Requests : pc[r] \in Starting /\ pc[q] \in Starting /\ up[r] = up[q] => r = q
Served == \A r \in Requests : pc[r] \in Serving => up[r] \in started
Closed == \A r \in Requests : pc[r] \in Finishing => multipart[up[r]] \in {"done", "aborted"}
Cleared == \A r \in Requests : pc[r] = "delresume" => up[r] \notin session
Known == \A u \in started \cup session : multipart[u] # "none"
ToldDone == \A u \in told : multipart[u] = "done"
Book == TypeInv /\ Begun /\ Alone /\ Served /\ Closed /\ Cleared /\ Known /\ ToldDone

LEMMA BookInit == Init => Book
  BY TypeInvInit DEF Init, Book, Begun, Alone, Served, Closed, Cleared, Known, ToldDone, Starting, Serving, Finishing

LEMMA BookStep == Book /\ [Next]_vars => Book'
<1> SUFFICES ASSUME Book, [Next]_vars PROVE Book'
  OBVIOUS
<1>0. TypeInv /\ TypeInv'
  BY TypeInvStep DEF Book
<1> USE DEF Begun, Alone, Served, Closed, Cleared, Known, ToldDone, minio, redis, table, client, requests, observers,
            TypeInv, TypeOK, InHand
<1> DEFINE Rest == Begun /\ Alone /\ Served /\ Closed /\ Cleared /\ Known /\ ToldDone
<1>00. Rest /\ (Rest' => Book')
  BY <1>0 DEF Book
<1>1. ASSUME NEW r \in Requests, NEW u \in Uploads, MultipartInit(r, u) PROVE Rest'
  BY <1>0, <1>00, <1>1 DEF MultipartInit, Work, Starting, Serving, Finishing
<1>2. ASSUME NEW r \in Requests, SetResume(r) PROVE Rest'
  BY <1>0, <1>00, <1>2 DEF SetResume, Goto, Starting, Serving, Finishing
<1>3. ASSUME NEW r \in Requests, SetSession(r) PROVE Rest'
  BY <1>0, <1>00, <1>3 DEF SetSession, Leave, Starting, Serving, Finishing
<1>4. ASSUME NEW u \in Uploads, NEW p \in Parts, PutPart(u, p) PROVE Rest'
  BY <1>0, <1>00, <1>4 DEF PutPart
<1>5. ASSUME NEW u \in Uploads, Expire(u) PROVE Rest'
  BY <1>0, <1>00, <1>5 DEF Expire
<1>6. ASSUME NEW r \in Requests, NEW u \in Uploads, NEW label \in {"list", "abort"}, CheckSession(r, u, label)
      PROVE  Rest'
  BY <1>0, <1>00, <1>6 DEF CheckSession, Work, Starting, Serving, Finishing
<1>7. ASSUME NEW r \in Requests, ListParts(r) PROVE Rest'
  <2>1. CASE Goto(r, "assemble")
    BY <1>0, <1>00, <1>7, <2>1 DEF ListParts, Goto, Starting, Serving, Finishing
  <2>2. CASE Leave(r)
    BY <1>0, <1>00, <1>7, <2>2 DEF ListParts, Leave, Starting, Serving, Finishing
  <2> QED BY <1>7, <2>1, <2>2 DEF ListParts
<1>8. ASSUME NEW r \in Requests, CompleteMultipart(r) PROVE Rest'
  <2>1. CASE multipart[up[r]] = "open" /\ Store(up[r]) /\ Goto(r, "delsession")
    BY <1>0, <1>00, <1>8, <2>1 DEF CompleteMultipart, Store, Goto, Starting, Serving, Finishing
  <2>2. CASE UNCHANGED multipart /\ Leave(r)
    BY <1>0, <1>00, <1>8, <2>2 DEF CompleteMultipart, Leave, Starting, Serving, Finishing
  <2> QED BY <1>8, <2>1, <2>2 DEF CompleteMultipart
<1>9. ASSUME NEW r \in Requests, AbortMultipart(r) PROVE Rest'
  <2>1. CASE multipart[up[r]] = "open" /\ multipart' = [multipart EXCEPT ![up[r]] = "aborted"] /\ Goto(r, "delsession")
    BY <1>0, <1>00, <1>9, <2>1 DEF AbortMultipart, Goto, Starting, Serving, Finishing
  <2>2. CASE UNCHANGED multipart /\ Leave(r)
    BY <1>0, <1>00, <1>9, <2>2 DEF AbortMultipart, Leave, Starting, Serving, Finishing
  <2> QED BY <1>9, <2>1, <2>2 DEF AbortMultipart
<1>10. ASSUME NEW r \in Requests, DelSession(r) PROVE Rest'
  BY <1>0, <1>00, <1>10 DEF DelSession, Goto, Starting, Serving, Finishing
<1>11. ASSUME NEW r \in Requests, DelResume(r) PROVE Rest'
  BY <1>0, <1>00, <1>11 DEF DelResume, Tell, Leave, Starting, Serving, Finishing
<1>12. ASSUME NEW r \in Requests, DeleteSessionFails(r) PROVE Rest'
  BY <1>0, <1>00, <1>12 DEF DeleteSessionFails, Tell, Leave, Starting, Serving, Finishing
<1>13. ASSUME NEW u \in Uploads, Publish(u) PROVE Rest'
  BY <1>0, <1>00, <1>13 DEF Publish
<1>14. ASSUME NEW r \in Requests, NEW v \in db, FindVideo(r, v) PROVE Rest'
  BY <1>0, <1>00, <1>14 DEF FindVideo, Starting, Serving, Finishing
<1>15. ASSUME NEW r \in Requests, DeleteRow(r) \/ RemoveObject(r) PROVE Rest'
  <2>1. CASE DeleteRow(r)
    BY <1>0, <1>00, <2>1 DEF DeleteRow, Goto, Starting, Serving, Finishing
  <2>2. CASE RemoveObject(r)
    BY <1>0, <1>00, <2>2 DEF RemoveObject, Leave, Starting, Serving, Finishing
  <2> QED BY <1>15, <2>1, <2>2
<1>16. ASSUME NEW r \in Requests, Ends(r) PROVE Rest'
  BY <1>0, <1>00, <1>16 DEF Ends, Leave, Starting, Serving, Finishing
<1>17. ASSUME NEW r \in Requests, Unanswered(r) PROVE Rest'
  BY <1>0, <1>00, <1>17 DEF Unanswered, Store, Leave, Starting, Serving, Finishing
<1>18. ASSUME NEW r \in Requests, SessionUnanswered(r) PROVE Rest'
  BY <1>0, <1>00, <1>18 DEF SessionUnanswered, Leave, Starting, Serving, Finishing
<1>19. CASE Crash
  BY <1>0, <1>00, <1>19 DEF Crash, Starting, Serving, Finishing
<1>20. CASE UNCHANGED vars
  BY <1>0, <1>00, <1>20 DEF vars
<1> QED
  BY <1>00, <1>1, <1>2, <1>3, <1>4, <1>5, <1>6, <1>7, <1>8, <1>9, <1>10, <1>11, <1>12, <1>13, <1>14, <1>15,
     <1>16, <1>17, <1>18, <1>19, <1>20
  DEF Next, InitUpload, CompleteUpload, AbortUpload, DeleteSession, DeleteVideo

----------------------------------------------------------------------------
(***************************************************************************)
(* The session against the multipart upload, and the key of a completed    *)
(* one.  Both are inductive over Book: a step of a request concerns the    *)
(* upload it has in hand, and Book says in what state that is.             *)
(***************************************************************************)

LEMMA MatchStep ==
  Book /\ SessionMatchesUpload /\ CompletedKeyTold /\ [Next]_vars => (SessionMatchesUpload /\ CompletedKeyTold)'
<1> SUFFICES ASSUME Book, SessionMatchesUpload, CompletedKeyTold, [Next]_vars
             PROVE  (SessionMatchesUpload /\ CompletedKeyTold)'
  OBVIOUS
<1> USE DEF SessionMatchesUpload, CompletedKeyTold, At, minio, redis, table, client, requests, observers
<1> DEFINE Goal == (SessionMatchesUpload /\ CompletedKeyTold)'
<1>0. /\ TypeOK /\ InHand /\ Begun /\ Alone /\ Closed /\ Known
  BY DEF Book, TypeInv
<1>1. ASSUME NEW r \in Requests, NEW u \in Uploads, MultipartInit(r, u) PROVE Goal
  BY <1>0, <1>1 DEF MultipartInit, Work, TypeOK, Starting, Finishing
<1>2. ASSUME NEW r \in Requests, SetResume(r) PROVE Goal
  BY <1>0, <1>2 DEF SetResume, Goto, Starting, Finishing
<1>3. ASSUME NEW r \in Requests, SetSession(r) PROVE Goal
  BY <1>0, <1>3 DEF SetSession, Leave, Begun, Starting
<1>4. ASSUME NEW u \in Uploads, NEW p \in Parts, PutPart(u, p) PROVE Goal
  BY <1>0, <1>4 DEF PutPart
<1>5. ASSUME NEW u \in Uploads, Expire(u) PROVE Goal
  BY <1>0, <1>5 DEF Expire
<1>6. ASSUME NEW r \in Requests, NEW u \in Uploads, NEW label \in {"list", "abort"}, CheckSession(r, u, label)
      PROVE  Goal
  BY <1>0, <1>6 DEF CheckSession, Work, Starting, Finishing
<1>7. ASSUME NEW r \in Requests, ListParts(r) PROVE Goal
  <2>1. CASE Goto(r, "assemble")
    BY <1>0, <1>7, <2>1 DEF ListParts, Goto, Starting, Finishing
  <2>2. CASE Leave(r)
    BY <1>0, <1>7, <2>2 DEF ListParts, Leave, Starting, Finishing
  <2> QED BY <1>7, <2>1, <2>2 DEF ListParts
<1>8. ASSUME NEW r \in Requests, CompleteMultipart(r) PROVE Goal
  <2>1. CASE Store(up[r]) /\ Goto(r, "delsession")
    BY <1>0, <1>8, <2>1 DEF CompleteMultipart, Store, Goto, TypeOK, Finishing
  <2>2. CASE UNCHANGED <<multipart, object>> /\ Leave(r)
    BY <1>0, <1>8, <2>2 DEF CompleteMultipart, Leave, Starting, Finishing
  <2> QED BY <1>8, <2>1, <2>2 DEF CompleteMultipart
<1>9. ASSUME NEW r \in Requests, AbortMultipart(r) PROVE Goal
  <2>1. CASE multipart' = [multipart EXCEPT ![up[r]] = "aborted"] /\ Goto(r, "delsession")
    BY <1>0, <1>9, <2>1 DEF AbortMultipart, Goto, TypeOK
  <2>2. CASE UNCHANGED multipart /\ Leave(r)
    BY <1>0, <1>9, <2>2 DEF AbortMultipart, Leave, Starting, Finishing
  <2> QED BY <1>9, <2>1, <2>2 DEF AbortMultipart
<1>10. ASSUME NEW r \in Requests, DelSession(r) PROVE Goal
  BY <1>0, <1>10 DEF DelSession, Goto, Closed, Finishing
<1>11. ASSUME NEW r \in Requests, DelResume(r) PROVE Goal
  BY <1>0, <1>11 DEF DelResume, Tell, Leave, Starting
<1>12. ASSUME NEW r \in Requests, DeleteSessionFails(r) PROVE Goal
  BY <1>0, <1>12 DEF DeleteSessionFails, Tell, Leave, Starting
<1>13. ASSUME NEW u \in Uploads, Publish(u) PROVE Goal
  BY <1>0, <1>13 DEF Publish
<1>14. ASSUME NEW r \in Requests, NEW v \in db, FindVideo(r, v) PROVE Goal
  BY <1>0, <1>14 DEF FindVideo, Starting, Finishing
<1>15. ASSUME NEW r \in Requests, DeleteRow(r) PROVE Goal
  BY <1>0, <1>15 DEF DeleteRow, Goto, Starting, Finishing
<1>16. ASSUME NEW r \in Requests, RemoveObject(r) PROVE Goal
  BY <1>0, <1>16 DEF RemoveObject, Leave, Starting, Finishing
<1>17. ASSUME NEW r \in Requests, Ends(r) PROVE Goal
  BY <1>0, <1>17 DEF Ends, Abandon, Leave
<1>18. ASSUME NEW r \in Requests, Unanswered(r) PROVE Goal
  <2>1. CASE pc[r] = "assemble" /\ Store(up[r]) /\ lost' = lost \cup {up[r]}
    BY <1>0, <1>18, <2>1 DEF Unanswered, Store, Leave, Starting
  <2>2. CASE multipart' = [multipart EXCEPT ![up[r]] = "aborted"] /\ UNCHANGED <<object, lost>>
    BY <1>0, <1>18, <2>2 DEF Unanswered, Leave, Starting
  <2> QED BY <1>18, <2>1, <2>2 DEF Unanswered
<1>19. ASSUME NEW r \in Requests, SessionUnanswered(r) PROVE Goal
  BY <1>0, <1>19 DEF SessionUnanswered, Leave, Begun, Starting
<1>20. CASE Crash
  BY <1>0, <1>20 DEF Crash, Abandon
<1>21. CASE UNCHANGED vars
  BY <1>0, <1>21 DEF vars
<1> QED
  BY <1>1, <1>2, <1>3, <1>4, <1>5, <1>6, <1>7, <1>8, <1>9, <1>10, <1>11, <1>12, <1>13, <1>14, <1>15,
     <1>16, <1>17, <1>18, <1>19, <1>20, <1>21
  DEF Next, InitUpload, CompleteUpload, AbortUpload, DeleteSession, DeleteVideo

\* Both hold for any number of uploads and requests.
LEMMA MatchHolds == Spec => [](SessionMatchesUpload /\ CompletedKeyTold)
<1>1. Init => SessionMatchesUpload /\ CompletedKeyTold
  BY DEF Init, SessionMatchesUpload, CompletedKeyTold
<1> QED BY <1>1, BookInit, BookStep, MatchStep, PTL DEF Spec

\* Whoever completes an upload is told its key, is about to be, or lost the answer,
\* for any number of uploads and of requests that complete or abort it at once.
THEOREM KeysAreTold == Spec => []CompletedKeyTold
  BY MatchHolds, PTL

----------------------------------------------------------------------------
(***************************************************************************)
(* The resume key of a file.  Two sessions of one file that are there, or  *)
(* in hand, were found to overlap when the later one began.                *)
(***************************************************************************)

Present(u) == u \in session \/ \E r \in Requests : up[r] = u
Sharing ==
  \A u, x \in Uploads :
    u # x /\ FileOf[u] = FileOf[x] /\ Present(u) /\ Present(x) => FileOf[u] \in shared
Resumable ==
  \A r \in Requests : pc[r] = "setsession" =>
    resume[FileOf[up[r]]] = up[r] \/ FileOf[up[r]] \in shared
ResumeInv == Sharing /\ Resumable /\ ResumeFindsSession

\* Only the start of an upload makes it present.
LEMMA OnlyInitBrings ==
  ASSUME Book, [Next]_vars, NEW y \in Uploads, ~Present(y), Present(y)'
  PROVE  \E r \in Requests : MultipartInit(r, y)
<1> USE DEF Present, redis, requests, observers
<1>0. TypeOK /\ InHand /\ NoUpload \notin Uploads
  BY UploadAssumption DEF Book, TypeInv
<1> USE DEF TypeOK, InHand
<1>1. ASSUME NEW r \in Requests, NEW z \in Uploads, MultipartInit(r, z) PROVE z = y
  BY <1>0, <1>1 DEF MultipartInit, Work
<1>2. ASSUME NEW r \in Requests, SetResume(r) \/ SetSession(r) \/ SessionUnanswered(r) PROVE FALSE
  BY <1>0, <1>2 DEF SetResume, SetSession, SessionUnanswered, Goto, Leave, Starting
<1>3. ASSUME NEW r \in Requests, NEW z \in Uploads, NEW label \in {"list", "abort"}, CheckSession(r, z, label)
      PROVE  FALSE
  BY <1>0, <1>3 DEF CheckSession, Work
<1>4. ASSUME NEW r \in Requests, ListParts(r) \/ CompleteMultipart(r) \/ AbortMultipart(r) PROVE FALSE
  BY <1>0, <1>4 DEF ListParts, CompleteMultipart, AbortMultipart, Goto, Leave
<1>5. ASSUME NEW r \in Requests, DeleteSession(r) PROVE FALSE
  BY <1>0, <1>5 DEF DeleteSession, DelSession, DelResume, DeleteSessionFails, Goto, Leave
<1>6. ASSUME NEW r \in Requests, DeleteVideo(r) PROVE FALSE
  BY <1>0, <1>6 DEF DeleteVideo, DeleteRow, RemoveObject, FindVideo, Goto, Leave
<1>7. ASSUME NEW r \in Requests, Ends(r) \/ Unanswered(r) PROVE FALSE
  BY <1>0, <1>7 DEF Ends, Unanswered, Leave
<1>8. ASSUME NEW z \in Uploads, Expire(z) \/ Publish(z) \/ \E p \in Parts : PutPart(z, p) PROVE FALSE
  BY <1>0, <1>8 DEF Expire, Publish, PutPart
<1>9. ~Crash /\ ~UNCHANGED vars
  BY <1>0 DEF Crash, vars
<1> QED
  BY <1>1, <1>2, <1>3, <1>4, <1>5, <1>6, <1>7, <1>8, <1>9 DEF Next, InitUpload, CompleteUpload, AbortUpload

LEMMA SharingStep == Book /\ Sharing /\ [Next]_vars => Sharing'
<1> SUFFICES ASSUME Book, Sharing, [Next]_vars, NEW u \in Uploads, NEW x \in Uploads,
                    u # x, FileOf[u] = FileOf[x], Present(u)', Present(x)'
             PROVE  FileOf[u] \in shared'
  BY DEF Sharing
<1>0. shared \subseteq shared'
  BY DEF Next, vars, observers, InitUpload, CompleteUpload, AbortUpload, DeleteSession, DeleteVideo, MultipartInit,
         SetResume, SetSession, PutPart, Expire, CheckSession, ListParts, CompleteMultipart, AbortMultipart,
         DelSession, DelResume, DeleteSessionFails, Publish, FindVideo, DeleteRow, RemoveObject, Ends,
         Abandon, Unanswered, SessionUnanswered, Crash
<1>1. CASE Present(u) /\ Present(x)
  BY <1>0, <1>1 DEF Sharing
<1>2. ASSUME NEW y \in Uploads, NEW z \in Uploads, y # z, FileOf[y] = FileOf[z], ~Present(y), Present(y)', Present(z)'
      PROVE  FileOf[y] \in shared'
  <2>1. PICK r \in Requests : MultipartInit(r, y)
    BY <1>2, OnlyInitBrings
  <2>2. Overlaps(y)
    BY <1>2, <2>1 DEF MultipartInit, Work, Overlaps, Present, Book, TypeInv, TypeOK, redis
  <2> QED BY <2>1, <2>2 DEF MultipartInit
<1> QED BY <1>1, <1>2

LEMMA ResumeStep == Book /\ ResumeInv /\ [Next]_vars => (Resumable /\ ResumeFindsSession)'
<1> SUFFICES ASSUME Book, ResumeInv, [Next]_vars PROVE (Resumable /\ ResumeFindsSession)'
  OBVIOUS
<1> USE DEF Resumable, ResumeFindsSession, minio, redis, table, client, requests, observers
<1> DEFINE Goal == (Resumable /\ ResumeFindsSession)'
<1>0. /\ TypeOK /\ InHand /\ Begun /\ Alone /\ Served /\ Cleared
      /\ Sharing /\ Resumable /\ ResumeFindsSession
  BY DEF Book, TypeInv, ResumeInv
<1>1. ASSUME NEW r \in Requests, NEW u \in Uploads, MultipartInit(r, u) PROVE Goal
  BY <1>0, <1>1 DEF MultipartInit, Work, TypeOK
<1>2. ASSUME NEW r \in Requests, SetResume(r) PROVE Goal
  <2>1. /\ up[r] \in Uploads /\ FileOf[up[r]] \in Files /\ pc[r] \in Starting /\ up[r] \notin session
        /\ session' = session /\ up' = up /\ shared' = shared
    BY <1>0, <1>2 DEF SetResume, Goto, InHand, Begun, Starting, Files
  <2>2. \A f \in Files : resume'[f] = IF f = FileOf[up[r]] THEN up[r] ELSE resume[f]
    BY <1>0, <1>2, <2>1 DEF SetResume, TypeOK
  <2>3. ASSUME NEW u \in Uploads, u # up[r], FileOf[u] = FileOf[up[r]], Present(u) PROVE FileOf[u] \in shared
    BY <1>0, <2>1, <2>3 DEF Sharing, Present
  <2>4. Resumable'
    <3> SUFFICES ASSUME NEW q \in Requests, pc'[q] = "setsession"
                 PROVE  resume'[FileOf[up[q]]] = up[q] \/ FileOf[up[q]] \in shared
      BY <2>1
    <3>1. q = r \/ pc[q] = "setsession"
      BY <1>0, <1>2 DEF SetResume, Goto, TypeOK
    <3>2. CASE q # r
      <4>1. up[q] \in Uploads /\ up[q] # up[r] /\ Present(up[q]) /\ FileOf[up[q]] \in Files
        BY <1>0, <2>1, <3>1, <3>2 DEF InHand, Alone, Starting, Present, Files
      <4> QED BY <1>0, <2>2, <2>3, <3>1, <3>2, <4>1
    <3> QED BY <2>1, <2>2, <3>2
  <2>5. ResumeFindsSession'
    <3> SUFFICES ASSUME NEW u \in session PROVE resume'[FileOf[u]] = u \/ FileOf[u] \in shared
      BY <2>1
    <3>1. u \in Uploads /\ u # up[r] /\ Present(u) /\ FileOf[u] \in Files
      BY <1>0, <2>1 DEF TypeOK, Present, Files
    <3> QED BY <1>0, <2>2, <2>3, <3>1
  <2> QED BY <2>4, <2>5
<1>3. ASSUME NEW r \in Requests, SetSession(r) PROVE Goal
  BY <1>0, <1>3 DEF SetSession, Leave, TypeOK, InHand, Starting
<1>4. ASSUME NEW u \in Uploads, NEW p \in Parts, PutPart(u, p) PROVE Goal
  BY <1>0, <1>4 DEF PutPart, TypeOK
<1>5. ASSUME NEW u \in Uploads, Expire(u) PROVE Goal
  BY <1>0, <1>5 DEF Expire, TypeOK, InHand, Begun, Sharing, Present, Starting, Files
<1>6. ASSUME NEW r \in Requests, NEW u \in Uploads, NEW label \in {"list", "abort"}, CheckSession(r, u, label)
      PROVE  Goal
  BY <1>0, <1>6 DEF CheckSession, Work, TypeOK
<1>7. ASSUME NEW r \in Requests, ListParts(r) PROVE Goal
  BY <1>0, <1>7 DEF ListParts, Goto, Leave, TypeOK
<1>8. ASSUME NEW r \in Requests, CompleteMultipart(r) PROVE Goal
  BY <1>0, <1>8 DEF CompleteMultipart, Goto, Leave, TypeOK
<1>9. ASSUME NEW r \in Requests, AbortMultipart(r) PROVE Goal
  BY <1>0, <1>9 DEF AbortMultipart, Goto, Leave, TypeOK
<1>10. ASSUME NEW r \in Requests, DelSession(r) PROVE Goal
  BY <1>0, <1>10 DEF DelSession, Goto, TypeOK
<1>11. ASSUME NEW r \in Requests, DelResume(r) PROVE Goal
  <2>1. /\ up[r] \in Uploads /\ FileOf[up[r]] \in Files /\ up[r] \in started /\ up[r] \notin session
        /\ session' = session /\ shared' = shared /\ pc'[r] = "idle"
        /\ \A q \in Requests : q # r => pc'[q] = pc[q] /\ up'[q] = up[q]
    BY <1>0, <1>11 DEF DelResume, Leave, TypeOK, InHand, Served, Cleared, Serving, Files
  <2>2. \A f \in Files : f # FileOf[up[r]] => resume'[f] = resume[f]
    BY <1>0, <1>11, <2>1 DEF DelResume, TypeOK
  <2>3. ASSUME NEW u \in Uploads, u # up[r], FileOf[u] = FileOf[up[r]], Present(u) PROVE FileOf[u] \in shared
    BY <1>0, <2>1, <2>3 DEF Sharing, Present
  <2>4. Resumable'
    <3> SUFFICES ASSUME NEW q \in Requests, q # r, pc[q] = "setsession"
                 PROVE  resume'[FileOf[up[q]]] = up[q] \/ FileOf[up[q]] \in shared
      BY <2>1
    <3>1. up[q] \in Uploads /\ up[q] # up[r] /\ Present(up[q]) /\ FileOf[up[q]] \in Files
      BY <1>0, <2>1 DEF InHand, Begun, Starting, Present, Files
    <3> QED BY <1>0, <2>2, <2>3, <3>1
  <2>5. ResumeFindsSession'
    <3> SUFFICES ASSUME NEW u \in session PROVE resume'[FileOf[u]] = u \/ FileOf[u] \in shared
      BY <2>1
    <3>1. u \in Uploads /\ u # up[r] /\ Present(u) /\ FileOf[u] \in Files
      BY <1>0, <2>1 DEF TypeOK, Present, Files
    <3> QED BY <1>0, <2>2, <2>3, <3>1
  <2> QED BY <2>4, <2>5
<1>12. ASSUME NEW r \in Requests, DeleteSessionFails(r) PROVE Goal
  BY <1>0, <1>12 DEF DeleteSessionFails, Tell, Leave, TypeOK
<1>13. ASSUME NEW u \in Uploads, Publish(u) PROVE Goal
  BY <1>0, <1>13 DEF Publish, TypeOK
<1>14. ASSUME NEW r \in Requests, NEW v \in db, FindVideo(r, v) PROVE Goal
  BY <1>0, <1>14 DEF FindVideo, TypeOK
<1>15. ASSUME NEW r \in Requests, DeleteRow(r) PROVE Goal
  BY <1>0, <1>15 DEF DeleteRow, Goto, TypeOK
<1>16. ASSUME NEW r \in Requests, RemoveObject(r) PROVE Goal
  BY <1>0, <1>16 DEF RemoveObject, Leave, TypeOK
<1>17. ASSUME NEW r \in Requests, Ends(r) PROVE Goal
  BY <1>0, <1>17 DEF Ends, Abandon, Leave, TypeOK
<1>18. ASSUME NEW r \in Requests, Unanswered(r) PROVE Goal
  BY <1>0, <1>18 DEF Unanswered, Store, Leave, TypeOK
<1>19. ASSUME NEW r \in Requests, SessionUnanswered(r) PROVE Goal
  BY <1>0, <1>19 DEF SessionUnanswered, Leave, TypeOK
<1>20. CASE Crash
  BY <1>0, <1>20 DEF Crash, Abandon
<1>21. CASE UNCHANGED vars
  BY <1>0, <1>21 DEF vars
<1> QED
  BY <1>1, <1>2, <1>3, <1>4, <1>5, <1>6, <1>7, <1>8, <1>9, <1>10, <1>11, <1>12, <1>13, <1>14, <1>15,
     <1>16, <1>17, <1>18, <1>19, <1>20, <1>21
  DEF Next, InitUpload, CompleteUpload, AbortUpload, DeleteSession, DeleteVideo

\* Redis and MinIO agree on the uploads under way, and the resume key of a file leads
\* to its session, up to the named failures and overlaps, for any number of uploads,
\* files and requests.
THEOREM UploadsAreTracked == Spec => []UploadsTracked
<1>1. Init => ResumeInv
  BY UploadAssumption DEF Init, ResumeInv, Sharing, Present, Resumable, ResumeFindsSession
<1>2. Book /\ ResumeInv /\ [Next]_vars => ResumeInv'
  BY SharingStep, ResumeStep DEF ResumeInv
<1>3. Spec => []ResumeInv
  BY <1>1, <1>2, BookInit, BookStep, PTL DEF Spec
<1>4. SessionMatchesUpload /\ ResumeInv => UploadsTracked
  BY DEF ResumeInv, UploadsTracked
<1> QED BY <1>3, <1>4, MatchHolds, PTL

----------------------------------------------------------------------------
(***************************************************************************)
(* The object of a published video.  A completed upload has its object, or *)
(* was published; a request that removes an object has deleted its row.    *)
(***************************************************************************)

Stored == \A u \in Uploads : multipart[u] = "done" => u \in object \/ \E v \in DOMAIN key : key[v] = u
RowGone == \A r \in Requests : pc[r] = "delobject" => vid[r] \notin db
Repeated == \A v, w \in DOMAIN key : v # w /\ key[v] = key[w] => key[v] \in twice
PlayInv == Stored /\ RowGone /\ Repeated /\ PublishedPlayable

LEMMA PlayStep == Book /\ PlayInv /\ [Next]_vars => PlayInv'
<1> SUFFICES ASSUME Book, PlayInv, [Next]_vars PROVE PlayInv'
  OBVIOUS
<1> USE DEF PlayInv, Stored, RowGone, Repeated, PublishedPlayable, minio, redis, table, client, requests, observers
<1>0. TypeOK /\ InHand /\ ToldDone
  BY DEF Book, TypeInv
<1>1. ASSUME NEW r \in Requests, NEW u \in Uploads, MultipartInit(r, u) PROVE PlayInv'
  BY <1>0, <1>1 DEF MultipartInit, Work, TypeOK
<1>2. ASSUME NEW r \in Requests, SetResume(r) PROVE PlayInv'
  BY <1>0, <1>2 DEF SetResume, Goto, TypeOK
<1>3. ASSUME NEW r \in Requests, SetSession(r) PROVE PlayInv'
  BY <1>0, <1>3 DEF SetSession, Leave, TypeOK
<1>4. ASSUME NEW u \in Uploads, NEW p \in Parts, PutPart(u, p) PROVE PlayInv'
  BY <1>0, <1>4 DEF PutPart, TypeOK
<1>5. ASSUME NEW u \in Uploads, Expire(u) PROVE PlayInv'
  BY <1>0, <1>5 DEF Expire, TypeOK
<1>6. ASSUME NEW r \in Requests, NEW u \in Uploads, NEW label \in {"list", "abort"}, CheckSession(r, u, label)
      PROVE  PlayInv'
  BY <1>0, <1>6 DEF CheckSession, Work, TypeOK
<1>7. ASSUME NEW r \in Requests, ListParts(r) PROVE PlayInv'
  BY <1>0, <1>7 DEF ListParts, Goto, Leave, TypeOK
<1>8. ASSUME NEW r \in Requests, CompleteMultipart(r) PROVE PlayInv'
  BY <1>0, <1>8 DEF CompleteMultipart, Store, Goto, Leave, TypeOK
<1>9. ASSUME NEW r \in Requests, AbortMultipart(r) PROVE PlayInv'
  BY <1>0, <1>9 DEF AbortMultipart, Goto, Leave, TypeOK
<1>10. ASSUME NEW r \in Requests, DelSession(r) PROVE PlayInv'
  BY <1>0, <1>10 DEF DelSession, Goto, TypeOK
<1>11. ASSUME NEW r \in Requests, DelResume(r) PROVE PlayInv'
  BY <1>0, <1>11 DEF DelResume, Tell, Leave, TypeOK
<1>12. ASSUME NEW r \in Requests, DeleteSessionFails(r) PROVE PlayInv'
  BY <1>0, <1>12 DEF DeleteSessionFails, Tell, Leave, TypeOK
<1>13. ASSUME NEW u \in Uploads, Publish(u) PROVE PlayInv'
  <2>1. /\ key' \in Seq(Uploads) /\ Len(key') \in DOMAIN key' /\ Len(key') \notin DOMAIN key
        /\ DOMAIN key' = DOMAIN key \cup {Len(key')} /\ key'[Len(key')] = u
        /\ \A v \in DOMAIN key : key'[v] = key[v]
    BY <1>0, <1>13 DEF Publish, TypeOK
  <2>2. multipart[u] = "done"
    BY <1>0, <1>13 DEF Publish, ToldDone
  <2>3. Stored' /\ RowGone'
    BY <1>0, <1>13, <2>1 DEF Publish, TypeOK, InHand, Deleting
  <2>4. Repeated' /\ PublishedPlayable'
    BY <1>0, <1>13, <2>1, <2>2 DEF Publish, TypeOK
  <2> QED BY <2>3, <2>4
<1>14. ASSUME NEW r \in Requests, NEW v \in db, FindVideo(r, v) PROVE PlayInv'
  BY <1>0, <1>14 DEF FindVideo, TypeOK
<1>15. ASSUME NEW r \in Requests, DeleteRow(r) PROVE PlayInv'
  BY <1>0, <1>15 DEF DeleteRow, Goto, TypeOK
<1>16. ASSUME NEW r \in Requests, RemoveObject(r) PROVE PlayInv'
  <2>1. vid[r] \in DOMAIN key /\ vid[r] \notin db
    BY <1>0, <1>16 DEF RemoveObject, InHand, Deleting
  <2> QED BY <1>0, <1>16, <2>1 DEF RemoveObject, Leave, TypeOK
<1>17. ASSUME NEW r \in Requests, Ends(r) PROVE PlayInv'
  BY <1>0, <1>17 DEF Ends, Abandon, Leave, TypeOK
<1>18. ASSUME NEW r \in Requests, Unanswered(r) PROVE PlayInv'
  BY <1>0, <1>18 DEF Unanswered, Store, Leave, TypeOK
<1>19. ASSUME NEW r \in Requests, SessionUnanswered(r) PROVE PlayInv'
  BY <1>0, <1>19 DEF SessionUnanswered, Leave, TypeOK
<1>20. CASE Crash
  BY <1>0, <1>20 DEF Crash, Abandon
<1>21. CASE UNCHANGED vars
  BY <1>0, <1>21 DEF vars
<1> QED
  BY <1>1, <1>2, <1>3, <1>4, <1>5, <1>6, <1>7, <1>8, <1>9, <1>10, <1>11, <1>12, <1>13, <1>14, <1>15,
     <1>16, <1>17, <1>18, <1>19, <1>20, <1>21
  DEF Next, InitUpload, CompleteUpload, AbortUpload, DeleteSession, DeleteVideo

\* A published video keeps its object, unless two rows share it, for any number of
\* uploads, rows and requests.
THEOREM PublishedPlay == Spec => []PublishedPlayable
<1>1. Init => PlayInv
  BY DEF Init, PlayInv, Stored, RowGone, Repeated, PublishedPlayable
<1>2. Spec => []PlayInv
  BY <1>1, BookInit, BookStep, PlayStep, PTL DEF Spec
<1> QED BY <1>2, PTL DEF PlayInv

----------------------------------------------------------------------------
(***************************************************************************)
(* Popularity.                                                             *)
(***************************************************************************)
(***************************************************************************)
(* Sums.  Total folds over the subsets of the domain; what the fold        *)
(* computes follows from a smallest set for which it would not.            *)
(***************************************************************************)

Chosen(s) == CHOOSE x \in s : TRUE
Sum(f, it, s) == IF s = {} THEN 0 ELSE f[Chosen(s)] + it[s \ {Chosen(s)}]
Sums(f, D, it) == it = [s \in D |-> Sum(f, it, s)]
UpTo(S, n) == {s \in SUBSET S : Cardinality(s) <= n}

LEMMA SmallestNumber ==
  ASSUME NEW T \in SUBSET Nat, T # {}
  PROVE  \E n \in T : \A k \in T : n <= k
<1>1. PICK n \in T : \A k \in T : <<k, n>> \notin OpToRel(<, Nat)
  BY NatLessThanWellFounded, WFMin
<1>2. \A k \in T : ~(k < n)
  BY <1>1 DEF OpToRel
<1> QED BY <1>2

LEMMA SmallestSet ==
  ASSUME NEW S, IsFiniteSet(S), NEW Bad, Bad \subseteq SUBSET S, Bad # {}
  PROVE  \E s \in Bad : \A t \in Bad : t \subseteq s => t = s
<1>1. \A s \in Bad : IsFiniteSet(s) /\ Cardinality(s) \in Nat
  BY FS_Subset, FS_CardinalityType
<1> DEFINE Sizes == {Cardinality(s) : s \in Bad}
<1>2. PICK n \in Sizes : \A k \in Sizes : n <= k
  <2>1. Sizes \in SUBSET Nat /\ Sizes # {}
    BY <1>1
  <2> HIDE DEF Sizes
  <2> QED BY <2>1, SmallestNumber
<1>3. PICK s \in Bad : Cardinality(s) = n
  OBVIOUS
<1>4. ASSUME NEW t \in Bad, t \subseteq s PROVE t = s
  <2>1. Cardinality(s) <= Cardinality(t)
    BY <1>2, <1>3
  <2>2. IsFiniteSet(s) /\ t \in SUBSET s /\ Cardinality(s) \in Nat /\ Cardinality(t) \in Nat
    BY <1>1, <1>4
  <2>3. Cardinality(t) <= Cardinality(s) /\ (Cardinality(s) = Cardinality(t) => s = t)
    BY <2>2, FS_Subset
  <2>4. Cardinality(s) = Cardinality(t)
    BY <2>1, <2>2, <2>3
  <2> QED BY <2>3, <2>4
<1> QED BY <1>4

LEMMA SmallerSet ==
  ASSUME NEW S, IsFiniteSet(S), NEW s \in SUBSET S, s # {}
  PROVE  /\ Chosen(s) \in s /\ s \ {Chosen(s)} \in SUBSET S /\ s \ {Chosen(s)} # s
         /\ IsFiniteSet(s) /\ Cardinality(s) \in Nat
         /\ Cardinality(s \ {Chosen(s)}) = Cardinality(s) - 1
<1>1. Chosen(s) \in s
  BY DEF Chosen
<1>2. IsFiniteSet(s) /\ Cardinality(s) \in Nat
  BY FS_Subset, FS_CardinalityType
<1> QED BY <1>1, <1>2, FS_RemoveElement

LEMMA SumsExist ==
  ASSUME NEW S, IsFiniteSet(S), NEW f
  PROVE  \E it : Sums(f, SUBSET S, it)
<1>1. \A n \in Nat : \E it : Sums(f, UpTo(S, n), it)
  <2> SUFFICES ASSUME NEW m \in Nat, ~ \E it : Sums(f, UpTo(S, m), it) PROVE FALSE
    OBVIOUS
  <2> DEFINE Bad == {n \in Nat : ~ \E it : Sums(f, UpTo(S, n), it)}
  <2>1. PICK n \in Bad : \A k \in Bad : n <= k
    <3>1. Bad \in SUBSET Nat /\ Bad # {}
      OBVIOUS
    <3> HIDE DEF Bad
    <3> QED BY <3>1, SmallestNumber
  <2>2. n \in Nat /\ ~ \E it : Sums(f, UpTo(S, n), it)
    OBVIOUS
  <2>3. CASE n = 0
    <3>1. \A s \in UpTo(S, 0) : s = {}
      <4> SUFFICES ASSUME NEW s \in SUBSET S, Cardinality(s) <= 0, s # {} PROVE FALSE
        BY DEF UpTo
      <4>1. IsFiniteSet(s \ {Chosen(s)})
        BY SmallerSet, FS_Subset
      <4>2. Cardinality(s \ {Chosen(s)}) \in Nat
        BY <4>1, FS_CardinalityType
      <4> QED BY <4>2, SmallerSet
    <3> DEFINE it == [s \in UpTo(S, 0) |-> 0]
    <3>2. Sums(f, UpTo(S, 0), it)
      BY <3>1 DEF Sums, Sum
    <3> QED BY <2>2, <2>3, <3>2
  <2>4. CASE n # 0
    <3>1. n - 1 \in Nat /\ n - 1 \notin Bad
      BY <2>1, <2>2, <2>4
    <3>2. PICK g : Sums(f, UpTo(S, n - 1), g)
      BY <3>1
    <3> DEFINE h == [s \in UpTo(S, n) |-> Sum(f, g, s)]
    <3>3. \A s \in UpTo(S, n - 1) : s \in UpTo(S, n) /\ h[s] = g[s]
      <4> SUFFICES ASSUME NEW s \in UpTo(S, n - 1) PROVE s \in UpTo(S, n) /\ h[s] = g[s]
        OBVIOUS
      <4>1. s \in SUBSET S /\ Cardinality(s) \in Nat /\ Cardinality(s) <= n - 1
        BY FS_Subset, FS_CardinalityType DEF UpTo
      <4>2. s \in UpTo(S, n)
        BY <2>2, <4>1 DEF UpTo
      <4>3. g[s] = Sum(f, g, s)
        BY <3>2 DEF Sums
      <4> QED BY <4>2, <4>3
    <3>4. \A s \in UpTo(S, n) : s # {} => s \ {Chosen(s)} \in UpTo(S, n - 1)
      <4> SUFFICES ASSUME NEW s \in UpTo(S, n), s # {} PROVE s \ {Chosen(s)} \in UpTo(S, n - 1)
        OBVIOUS
      <4>1. s \in SUBSET S /\ Cardinality(s) <= n
        BY DEF UpTo
      <4> QED BY <2>2, <4>1, SmallerSet DEF UpTo
    <3>5. \A s \in UpTo(S, n) : Sum(f, g, s) = Sum(f, h, s)
      BY <3>3, <3>4 DEF Sum
    <3>6. Sums(f, UpTo(S, n), h)
      BY <3>5 DEF Sums
    <3> QED BY <2>2, <3>6
  <2> QED BY <2>3, <2>4
<1>2. Cardinality(S) \in Nat /\ UpTo(S, Cardinality(S)) = SUBSET S
  BY FS_CardinalityType, FS_Subset DEF UpTo
<1> QED BY <1>1, <1>2

LEMMA TotalIsSum ==
  ASSUME NEW S, IsFiniteSet(S), NEW f, DOMAIN f = S
  PROVE  \E it : Sums(f, SUBSET S, it) /\ Total(f) = it[S]
<1> DEFINE it == CHOOSE x : Sums(f, SUBSET S, x)
<1>1. Sums(f, SUBSET S, it)
  BY SumsExist
<1>2. Total(f) = it[S]
  BY DEF Total, FoldFunction, FoldFunctionOnSet, MapThenFoldSet, Sums, Sum, Chosen
<1> QED BY <1>1, <1>2

LEMMA TotalType ==
  ASSUME NEW S, IsFiniteSet(S), NEW f \in [S -> Nat]
  PROVE  Total(f) \in Nat
<1>1. PICK it : Sums(f, SUBSET S, it) /\ Total(f) = it[S]
  BY TotalIsSum
<1> DEFINE Bad == {s \in SUBSET S : it[s] \notin Nat}
<1> SUFFICES ASSUME Bad # {} PROVE FALSE
  BY <1>1
<1>2. PICK s \in Bad : \A t \in Bad : t \subseteq s => t = s
  <2>1. Bad \subseteq SUBSET S
    OBVIOUS
  <2> HIDE DEF Bad
  <2> QED BY <2>1, SmallestSet
<1>3. it[s] = Sum(f, it, s)
  BY <1>1 DEF Sums
<1>4. CASE s = {}
  BY <1>3, <1>4 DEF Sum
<1>5. CASE s # {}
  <2>1. Chosen(s) \in S /\ s \ {Chosen(s)} \notin Bad /\ s \ {Chosen(s)} \in SUBSET S
    BY <1>2, <1>5, SmallerSet
  <2>2. it[s \ {Chosen(s)}] \in Nat /\ f[Chosen(s)] \in Nat
    BY <2>1
  <2>3. it[s] = f[Chosen(s)] + it[s \ {Chosen(s)}]
    BY <1>3, <1>5 DEF Sum
  <2> QED BY <2>2, <2>3
<1> QED BY <1>4, <1>5

\* One more at one place is one more in all.
LEMMA TotalBump ==
  ASSUME NEW S, IsFiniteSet(S), NEW f \in [S -> Nat], NEW x \in S, NEW g \in [S -> Nat],
         g[x] = f[x] + 1, \A y \in S \ {x} : g[y] = f[y]
  PROVE  Total(g) = Total(f) + 1
<1>1. PICK it : Sums(f, SUBSET S, it) /\ Total(f) = it[S]
  BY TotalIsSum
<1>2. PICK jt : Sums(g, SUBSET S, jt) /\ Total(g) = jt[S]
  BY TotalIsSum
<1> DEFINE Good(s) == it[s] \in Nat /\ jt[s] = it[s] + (IF x \in s THEN 1 ELSE 0)
           Bad == {s \in SUBSET S : ~Good(s)}
<1> SUFFICES ASSUME Bad # {} PROVE FALSE
  BY <1>1, <1>2
<1>3. PICK s \in Bad : \A t \in Bad : t \subseteq s => t = s
  <2>1. Bad \subseteq SUBSET S
    OBVIOUS
  <2> HIDE DEF Bad
  <2> QED BY <2>1, SmallestSet
<1>4. it[s] = Sum(f, it, s) /\ jt[s] = Sum(g, jt, s)
  BY <1>1, <1>2 DEF Sums
<1>5. CASE s = {}
  BY <1>4, <1>5 DEF Sum
<1>6. CASE s # {}
  <2> DEFINE c == Chosen(s)
             t == s \ {c}
  <2>1. c \in S /\ c \in s /\ t \notin Bad /\ t \in SUBSET S
    BY <1>3, <1>6, SmallerSet
  <2>2. Good(t) /\ f[c] \in Nat /\ g[c] = f[c] + (IF c = x THEN 1 ELSE 0)
    BY <2>1
  <2>3. it[s] = f[c] + it[t] /\ jt[s] = g[c] + jt[t]
    BY <1>4, <1>6 DEF Sum
  <2>4. x \in s <=> (c = x \/ x \in t)
    BY <2>1
  <2>5. ~(c = x /\ x \in t)
    OBVIOUS
  <2>6. PICK a, b, d : a = f[c] /\ b = it[t] /\ d = jt[t]
    OBVIOUS
  <2>7. a \in Nat /\ b \in Nat /\ d = b + (IF x \in t THEN 1 ELSE 0)
    BY <2>2, <2>6
  <2>8. it[s] = a + b /\ jt[s] = a + (IF c = x THEN 1 ELSE 0) + d
    BY <2>2, <2>3, <2>6
  <2> HIDE DEF c, t
  <2>9. Good(s)
    BY <2>4, <2>5, <2>7, <2>8
  <2> QED BY <2>9
<1> QED BY <1>5, <1>6

LEMMA TotalNothing ==
  ASSUME NEW S, IsFiniteSet(S), NEW f \in [S -> {0}]
  PROVE  Total(f) = 0
<1>1. PICK it : Sums(f, SUBSET S, it) /\ Total(f) = it[S]
  BY TotalIsSum
<1> DEFINE Bad == {s \in SUBSET S : it[s] # 0}
<1> SUFFICES ASSUME Bad # {} PROVE FALSE
  BY <1>1
<1>2. PICK s \in Bad : \A t \in Bad : t \subseteq s => t = s
  <2>1. Bad \subseteq SUBSET S
    OBVIOUS
  <2> HIDE DEF Bad
  <2> QED BY <2>1, SmallestSet
<1>3. it[s] = Sum(f, it, s)
  BY <1>1 DEF Sums
<1>4. CASE s = {}
  BY <1>3, <1>4 DEF Sum
<1>5. CASE s # {}
  <2>1. Chosen(s) \in S /\ s \ {Chosen(s)} \notin Bad /\ s \ {Chosen(s)} \in SUBSET S
    BY <1>2, <1>5, SmallerSet
  <2>2. it[s \ {Chosen(s)}] = 0 /\ f[Chosen(s)] = 0
    BY <2>1
  <2>3. it[s] = f[Chosen(s)] + it[s \ {Chosen(s)}]
    BY <1>3, <1>5 DEF Sum
  <2> QED BY <2>2, <2>3
<1> QED BY <1>4, <1>5

----------------------------------------------------------------------------
(* Types *)

Held == /\ consPc # "idle" => cur \in Videos
        /\ consPc = "idle" => cur = NoVideo /\ effects = 0 /\ tries = 0
        /\ consPc = "incr" => into \in 0..now
        /\ consPc \in {"pick", "incr"} => tries < MaxTries

Reading == \A r \in Readers :
  /\ readPc[r] \in {"exists", "union", "expire", "range"} => from[r] \in 0..now
  /\ readPc[r] = "exists" => asOf[r] # NoMinute
  /\ asOf[r] \in 0..now \cup {NoMinute}

HeatTypeInv == HeatTypeOK /\ Held /\ Reading

LEMMA ConstantTypes ==
  /\ MaxRanked \in Nat /\ Window \in Nat /\ SnapTTL \in Nat /\ Limit \in Nat /\ MaxTries \in Nat
  /\ MaxRanked > 0 /\ Window > 0 /\ SnapTTL > 0 /\ Limit > 0 /\ MaxTries > 0
  /\ MaxEvents \in Nat /\ MaxMinute \in Nat /\ MaxHeatFaults \in Nat
  /\ NoVideo \notin Videos /\ NoMinute \notin Minutes /\ Forever \in Nat
  /\ IsFiniteSet(Videos) /\ IsFiniteSet(Minutes)
<1>1. /\ MaxRanked \in Nat /\ Window \in Nat /\ SnapTTL \in Nat /\ Limit \in Nat /\ MaxTries \in Nat
      /\ MaxRanked > 0 /\ Window > 0 /\ SnapTTL > 0 /\ Limit > 0 /\ MaxTries > 0
      /\ MaxEvents \in Nat /\ MaxMinute \in Nat /\ MaxHeatFaults \in Nat
  BY PopularityAssumption
<1>2. IsFiniteSet(Videos) /\ IsFiniteSet(Minutes)
  BY <1>1, FS_Interval DEF Videos, Minutes
<1> QED BY <1>1, <1>2 DEF NoVideo, NoMinute, Forever, Videos, Minutes

\* What the buckets of the minutes before m add up to, video by video.
Before(m, v) == [i \in 1..Window |-> IF m - i \in Minutes THEN bucket[m - i][v] ELSE 0]

LEMMA MergeType ==
  ASSUME bucket \in [Minutes -> Scores], NEW m \in Minutes
  PROVE  Merge(m) \in Scores
<1> SUFFICES ASSUME NEW v \in Videos PROVE Total(Before(m, v)) \in Nat
  BY DEF Merge, Scores, Before
<1>1. Before(m, v) \in [1..Window -> Nat]
  BY DEF Before, Scores
<1>2. IsFiniteSet(1..Window)
  BY ConstantTypes, FS_Interval
<1> QED BY <1>1, <1>2, TotalType

LEMMA HeatTypeInvInit == HeatInit => HeatTypeInv
<1> SUFFICES ASSUME HeatInit PROVE HeatTypeInv
  OBVIOUS
<1>1. Nothing \in Scores
  BY DEF Nothing, Scores
<1>2. HeatTypeOK
  BY <1>1, ConstantTypes DEF HeatInit, HeatTypeOK, Minutes, Forever
<1>3. Held /\ Reading
  BY ConstantTypes DEF HeatInit, Held, Reading
<1> QED BY <1>2, <1>3 DEF HeatTypeInv

LEMMA FaultTypes == ASSUME HeatTypeInv, UNCHANGED heatFaults \/ HeatFault PROVE heatFaults' \in 0..MaxHeatFaults
  BY ConstantTypes DEF HeatTypeInv, HeatTypeOK, HeatFault

\* What events leave alone, and what readers leave alone, keeps its type.
LEMMA EventParts ==
  ASSUME HeatTypeInv, UNCHANGED <<now, snap, dies, reader, pages, unmoored>>, UNCHANGED heatFaults \/ HeatFault,
         bucket' \in [Minutes -> Scores], queue' \in Seq(Videos), cur' \in Videos \cup {NoVideo},
         consPc' \in {"idle", "pick", "incr", "ack"}, tries' \in 0..MaxTries, into' \in Minutes \cup {NoMinute},
         accepted' \in Scores, effects' \in Nat, unsure' \subseteq Videos, late' \subseteq Minutes, Held'
  PROVE  HeatTypeInv'
  BY FaultTypes DEF HeatTypeInv, HeatTypeOK, Reading, reader, pages

LEMMA ReaderParts ==
  ASSUME HeatTypeInv, UNCHANGED World, UNCHANGED heatFaults \/ HeatFault,
         snap' \in [Minutes -> Scores], dies' \in [Minutes -> 0..Forever],
         readPc' \in [Readers -> {"idle", "exists", "union", "expire", "range", "done"}],
         from' \in [Readers -> Minutes \cup {NoMinute}], asOf' \in [Readers -> Minutes \cup {NoMinute}],
         offset' \in [Readers -> Nat], more' \in [Readers -> BOOLEAN], UNCHANGED pages, unmoored' \subseteq Readers,
         Reading'
  PROVE  HeatTypeInv'
  BY FaultTypes DEF HeatTypeInv, HeatTypeOK, Held, World, consumer, pages

LEMMA BumpType ==
  ASSUME HeatTypeInv, ZIncrBy, consPc = "incr"
  PROVE  bucket' \in [Minutes -> Scores] /\ effects' \in Nat /\ late' \subseteq Minutes
<1>1. /\ into \in Minutes /\ cur \in Videos /\ bucket \in [Minutes -> Scores]
      /\ effects \in Nat /\ late \subseteq Minutes
  BY ConstantTypes DEF HeatTypeInv, HeatTypeOK, Held, Minutes
<1>2. [bucket[into] EXCEPT ![cur] = bucket[into][cur] + 1] \in Scores
  BY <1>1 DEF Scores
<1>3. bucket' = [bucket EXCEPT ![into] = [bucket[into] EXCEPT ![cur] = bucket[into][cur] + 1]]
  BY <1>1 DEF ZIncrBy
<1>4. bucket' \in [Minutes -> Scores]
  BY <1>1, <1>2, <1>3
<1> QED BY <1>1, <1>4 DEF ZIncrBy

LEMMA EventTypes ==
  ASSUME HeatTypeInv, (\E v \in Videos : PublishHeat(v) \/ PublishHeatFails(v)) \/ PopularityHandler
  PROVE  HeatTypeInv'
<1>c. /\ MaxTries \in Nat /\ MaxTries > 0 /\ NoVideo \notin Videos /\ NoMinute \notin Minutes
      /\ MaxMinute \in Nat /\ Minutes = 0..MaxMinute
  BY ConstantTypes DEF Minutes
<1>t. /\ now \in Minutes /\ bucket \in [Minutes -> Scores] /\ queue \in Seq(Videos)
      /\ cur \in Videos \cup {NoVideo} /\ consPc \in {"idle", "pick", "incr", "ack"}
      /\ tries \in 0..MaxTries /\ into \in Minutes \cup {NoMinute} /\ accepted \in Scores
      /\ effects \in Nat /\ unsure \subseteq Videos /\ late \subseteq Minutes /\ Held
  BY DEF HeatTypeInv, HeatTypeOK
<1>1. ASSUME NEW v \in Videos, PublishHeat(v) \/ PublishHeatFails(v)
      PROVE  HeatTypeInv'
  <2>1. Accept(v) /\ (UNCHANGED heatFaults \/ HeatFault) /\ (queue' = Append(queue, v) \/ queue' = queue)
        /\ unsure' \subseteq Videos
    BY <1>t, <1>1 DEF PublishHeat, PublishHeatFails
  <2>2. accepted' \in Scores
    BY <1>t, <2>1 DEF Accept, Scores
  <2>3. queue' \in Seq(Videos)
    BY <1>t, <2>1
  <2>4. UNCHANGED <<now, snap, dies, reader, pages, unmoored, bucket, cur, consPc, tries, into, effects, late>>
    BY <2>1 DEF Accept, consumer
  <2>5. Held'
    BY <1>t, <2>4 DEF Held
  <2> QED BY <1>t, <2>1, <2>2, <2>3, <2>4, <2>5, EventParts
<1>2. CASE Receive
  <2>1. /\ UNCHANGED <<now, snap, dies, reader, pages, unmoored, bucket, tries, into, accepted, heatFaults, effects, unsure, late>>
        /\ cur' = Head(queue) /\ queue' = Tail(queue) /\ consPc = "idle" /\ consPc' = "pick" /\ queue # <<>>
    BY <1>2 DEF Receive
  <2>2. cur' \in Videos /\ queue' \in Seq(Videos)
    BY <1>t, <2>1
  <2>3. Held'
    BY <1>c, <1>t, <2>1, <2>2 DEF Held
  <2> QED BY <1>t, <2>1, <2>2, <2>3, EventParts
<1>3. CASE PickMinute
  <2>1. /\ UNCHANGED <<now, snap, dies, reader, pages, unmoored, bucket, queue, cur, tries, accepted, heatFaults, effects, unsure, late>>
        /\ into' = now /\ consPc = "pick" /\ consPc' = "incr"
    BY <1>3 DEF PickMinute
  <2>2. Held'
    BY <1>c, <1>t, <2>1 DEF Held
  <2> QED BY <1>t, <2>1, <2>2, EventParts
<1>4. CASE UpdatePopularity
  <2>1. /\ UNCHANGED <<now, snap, dies, reader, pages, unmoored, queue, cur, tries, into, accepted, heatFaults, unsure>>
        /\ consPc = "incr" /\ ZIncrBy /\ consPc' = "ack"
    BY <1>4 DEF UpdatePopularity
  <2>2. Held'
    BY <1>t, <2>1 DEF Held
  <2> QED BY <1>t, <2>1, <2>2, BumpType, EventParts
<1>5. CASE UpdateFails
  <2>1. /\ UNCHANGED <<now, snap, dies, reader, pages, unmoored, queue, cur, into, accepted, unsure>>
        /\ consPc = "incr" /\ tries' = tries + 1 /\ HeatFault
        /\ consPc' = IF tries' < MaxTries THEN "pick" ELSE "ack"
    BY <1>5 DEF UpdateFails
  <2>2. bucket' \in [Minutes -> Scores] /\ effects' \in Nat /\ late' \subseteq Minutes
    BY <1>t, <1>5, <2>1, BumpType DEF UpdateFails
  <2>3. tries' \in 0..MaxTries /\ Held'
    BY <1>c, <1>t, <2>1 DEF Held
  <2> QED BY <1>t, <2>1, <2>2, <2>3, EventParts
<1>6. CASE Ack \/ HeatCrash
  <2>1. /\ UNCHANGED <<now, snap, dies, reader, pages, unmoored, bucket, accepted, late>>
        /\ Forget /\ (UNCHANGED heatFaults \/ HeatFault) /\ consPc # "idle"
        /\ (queue' = queue \/ queue' = <<cur>> \o queue)
        /\ (unsure' = unsure \/ unsure' = unsure \cup {cur})
    BY <1>6 DEF Ack, HeatCrash
  <2>2. cur \in Videos /\ queue' \in Seq(Videos)
    BY <1>t, <2>1 DEF Held
  <2>3. Held' /\ tries' \in 0..MaxTries /\ effects' \in Nat
    BY <1>c, <2>1 DEF Held, Forget
  <2> QED BY <1>t, <2>1, <2>2, <2>3, EventParts DEF Forget
<1> QED BY <1>1, <1>2, <1>3, <1>4, <1>5, <1>6 DEF PopularityHandler

LEMMA ReaderTypes ==
  ASSUME HeatTypeInv, NEW r \in Readers, ListByPopularity(r)
  PROVE  HeatTypeInv'
<1> USE DEF Step
<1>c. /\ SnapTTL \in Nat /\ Limit \in Nat /\ MaxMinute \in Nat /\ NoMinute \notin Minutes
      /\ Minutes = 0..MaxMinute /\ Forever = MaxMinute + SnapTTL + 1
  BY ConstantTypes DEF Minutes, Forever
<1>t. /\ now \in Minutes /\ snap \in [Minutes -> Scores] /\ dies \in [Minutes -> 0..Forever]
      /\ readPc \in [Readers -> {"idle", "exists", "union", "expire", "range", "done"}]
      /\ from \in [Readers -> Minutes \cup {NoMinute}] /\ asOf \in [Readers -> Minutes \cup {NoMinute}]
      /\ offset \in [Readers -> Nat] /\ more \in [Readers -> BOOLEAN] /\ unmoored \subseteq Readers
      /\ Reading /\ bucket \in [Minutes -> Scores]
      /\ base \in [Readers -> Scores] /\ seen \in [Readers -> SUBSET Videos] /\ shownTwice \in [Readers -> SUBSET Videos]
  BY DEF HeatTypeInv, HeatTypeOK
<1>n. UNCHANGED World => now' = now
  BY DEF World
<1>1. CASE Ask(r)
  <2>1. /\ UNCHANGED <<World, snap, dies, asOf, offset, more, heatFaults, pages, unmoored>>
        /\ from' = [from EXCEPT ![r] = now]
        /\ readPc' = [readPc EXCEPT ![r] = IF asOf[r] = NoMinute THEN "union" ELSE "exists"]
    BY <1>1 DEF Ask
  <2>2. Reading'
    BY <1>c, <1>t, <1>n, <2>1 DEF Reading
  <2>3. readPc' \in [Readers -> {"idle", "exists", "union", "expire", "range", "done"}]
        /\ from' \in [Readers -> Minutes \cup {NoMinute}]
    BY <1>t, <2>1
  <2> QED BY <1>t, <2>1, <2>2, <2>3, ReaderParts
<1>2. CASE Exists(r)
  <2>1. UNCHANGED <<World, snap, dies, asOf, offset, more, heatFaults, pages, unmoored>> /\ readPc[r] = "exists"
    BY <1>2 DEF Exists
  <2>2. asOf[r] \in 0..now /\ asOf[r] \in Minutes
    BY <1>t, <2>1 DEF Reading
  <2>3. CASE snap[asOf[r]] # Nothing
    <3>1. readPc' = [readPc EXCEPT ![r] = "range"] /\ from' = [from EXCEPT ![r] = asOf[r]]
      BY <1>2, <2>3 DEF Exists
    <3>2. Reading'
      BY <1>t, <1>n, <2>1, <2>2, <3>1 DEF Reading
    <3> QED BY <1>t, <2>1, <2>2, <3>1, <3>2, ReaderParts
  <2>4. CASE snap[asOf[r]] = Nothing
    <3>1. readPc' = [readPc EXCEPT ![r] = "union"] /\ from' = from
      BY <1>2, <2>4 DEF Exists
    <3>2. Reading'
      BY <1>t, <1>n, <2>1, <2>2, <3>1 DEF Reading
    <3> QED BY <1>t, <2>1, <2>2, <3>1, <3>2, ReaderParts
  <2> QED BY <2>3, <2>4
<1>3. CASE ZUnionStore(r)
  <2>0. /\ UNCHANGED <<World, from, asOf, offset, more, heatFaults, pages, unmoored>> /\ readPc[r] = "union"
        /\ readPc' = [readPc EXCEPT ![r] = "expire"]
    BY <1>3 DEF ZUnionStore
  <2>1. from[r] \in Minutes /\ Merge(from[r]) \in Scores
    BY <1>c, <1>t, <2>0, MergeType DEF Reading
  <2>2. snap' \in [Minutes -> Scores] /\ dies' \in [Minutes -> 0..Forever]
    BY <1>c, <1>t, <1>3, <2>1 DEF ZUnionStore
  <2>3. Reading'
    BY <1>t, <1>n, <2>0 DEF Reading
  <2> QED BY <1>t, <2>0, <2>2, <2>3, ReaderParts
<1>4. CASE ExpireSnap(r)
  <2>0. /\ UNCHANGED <<World, snap, from, asOf, offset, more, heatFaults, pages, unmoored>> /\ readPc[r] = "expire"
        /\ readPc' = [readPc EXCEPT ![r] = "range"]
    BY <1>4 DEF ExpireSnap
  <2>1. from[r] \in Minutes /\ now + SnapTTL \in 0..Forever /\ Forever \in 0..Forever
    BY <1>c, <1>t, <2>0 DEF Reading
  <2>2. dies' \in [Minutes -> 0..Forever]
    BY <1>t, <1>4, <2>1 DEF ExpireSnap
  <2>3. Reading'
    BY <1>t, <1>n, <2>0 DEF Reading
  <2> QED BY <1>t, <2>0, <2>2, <2>3, ReaderParts
<1>5. CASE ZRevRange(r)
  <2> PICK s, page : s = snap[from[r]] /\ page = Page(s, offset[r])
    OBVIOUS
  <2>0. /\ UNCHANGED <<World, snap, dies, heatFaults, unmoored>> /\ readPc[r] = "range"
        /\ asOf' = [asOf EXCEPT ![r] = from[r]]
        /\ offset' = [offset EXCEPT ![r] = offset[r] + Limit]
        /\ more' = [more EXCEPT ![r] = Cardinality(Members(s)) > offset[r] + Limit]
        /\ readPc' = [readPc EXCEPT ![r] = IF more'[r] THEN "idle" ELSE "done"]
        /\ from' = [from EXCEPT ![r] = NoMinute]
        /\ base' = IF asOf[r] = NoMinute THEN [base EXCEPT ![r] = s] ELSE base
        /\ seen' = [seen EXCEPT ![r] = seen[r] \cup page]
        /\ shownTwice' = [shownTwice EXCEPT ![r] = shownTwice[r] \cup (seen[r] \cap page)]
    BY <1>5 DEF ZRevRange
  <2>1. from[r] \in 0..now /\ from[r] \in Minutes /\ s \in Scores
    BY <1>c, <1>t, <2>0 DEF Reading
  <2>2. page \in SUBSET Videos
    BY DEF Page, Members
  <2>3. offset' \in [Readers -> Nat] /\ more' \in [Readers -> BOOLEAN]
    BY <1>c, <1>t, <2>0
  <2>4. readPc' \in [Readers -> {"idle", "exists", "union", "expire", "range", "done"}]
    BY <1>t, <2>0
  <2>5. base' \in [Readers -> Scores]
    BY <1>t, <2>0, <2>1
  <2>6. seen' \in [Readers -> SUBSET Videos]
    BY <1>t, <2>0, <2>2
  <2>7. shownTwice' \in [Readers -> SUBSET Videos]
    BY <1>t, <2>0, <2>2
  <2>8. from' \in [Readers -> Minutes \cup {NoMinute}] /\ asOf' \in [Readers -> Minutes \cup {NoMinute}]
    BY <1>t, <2>0, <2>1
  <2>9. Reading'
    BY <1>c, <1>t, <1>n, <2>0, <2>1 DEF Reading
  <2>10. UNCHANGED <<bucket, now, queue, cur, consPc, tries, into, accepted, effects, unsure, late>>
    BY <2>0 DEF World, consumer
  <2>11. Held'
    BY <2>10 DEF HeatTypeInv, Held
  <2> QED BY <2>0, <2>3, <2>4, <2>5, <2>6, <2>7, <2>8, <2>9, <2>10, <2>11 DEF HeatTypeInv, HeatTypeOK
<1>6. CASE ReadFails(r)
  <2>0. UNCHANGED <<World, snap, dies, asOf, offset, more, pages>> /\ HeatFault
    BY <1>6 DEF ReadFails
  <2>1. unmoored' \subseteq Readers
    BY <1>t, <1>6 DEF ReadFails
  <2>2. \E label \in {"expire", "range", "idle"} : readPc' = [readPc EXCEPT ![r] = label]
        /\ (from' = from \/ (label = "idle" /\ from' = [from EXCEPT ![r] = NoMinute]))
        /\ (label # "idle" => readPc[r] \in {"union", "expire"})
    BY <1>6 DEF ReadFails
  <2>3. Reading'
    BY <1>t, <1>n, <2>0, <2>2 DEF Reading
  <2>4. readPc' \in [Readers -> {"idle", "exists", "union", "expire", "range", "done"}]
    BY <1>t, <2>2
  <2>5. from' \in [Readers -> Minutes \cup {NoMinute}]
    BY <1>t, <2>2
  <2> QED BY <1>t, <2>0, <2>1, <2>3, <2>4, <2>5, ReaderParts
<1> QED BY <1>1, <1>2, <1>3, <1>4, <1>5, <1>6 DEF ListByPopularity

LEMMA TimeTypes ==
  ASSUME HeatTypeInv, Tick \/ (\E m \in Minutes : SnapEnds(m))
  PROVE  HeatTypeInv'
<1> USE DEF HeatTypeInv, HeatTypeOK
<1>c. /\ MaxMinute \in Nat /\ Minutes = 0..MaxMinute /\ Forever \in 0..Forever
  BY ConstantTypes DEF Minutes
<1>1. CASE Tick
  <2>1. now' = now + 1 /\ now' \in Minutes
    BY <1>c, <1>1 DEF Tick
  <2>2. Held' /\ Reading'
    BY <1>c, <1>1, <2>1 DEF Tick, Held, Reading, consumer, reader
  <2> QED BY <1>1, <2>1, <2>2 DEF Tick, consumer, reader, pages
<1>2. ASSUME NEW m \in Minutes, SnapEnds(m)
      PROVE  HeatTypeInv'
  <2>1. Nothing \in Scores
    BY DEF Nothing, Scores
  <2>2. Held' /\ Reading'
    BY <1>2 DEF SnapEnds, World, consumer, reader, Held, Reading
  <2> QED BY <1>c, <1>2, <2>1, <2>2 DEF SnapEnds, World, consumer, reader, pages
<1> QED BY <1>1, <1>2

LEMMA HeatTypeInvStep == HeatTypeInv /\ [HeatNext]_heatVars => HeatTypeInv'
<1> SUFFICES ASSUME HeatTypeInv, [HeatNext]_heatVars PROVE HeatTypeInv'
  OBVIOUS
<1>1. CASE HeatNext
  BY <1>1, EventTypes, ReaderTypes, TimeTypes DEF HeatNext
<1>2. CASE UNCHANGED heatVars
  BY <1>2 DEF heatVars, consumer, reader, pages, HeatTypeInv, HeatTypeOK, Held, Reading
<1> QED BY <1>1, <1>2

\* Every variable of the ranking keeps its type: no bucket is written and no snapshot
\* is read but that of a minute that has begun.
THEOREM HeatTypeCorrect == HeatSpec => []HeatTypeOK
<1>1. HeatTypeInv => HeatTypeOK
  BY DEF HeatTypeInv
<1> QED BY <1>1, HeatTypeInvInit, HeatTypeInvStep, PTL DEF HeatSpec

----------------------------------------------------------------------------
(* Nothing is lost: buckets, queue and hand add up to what was accepted.    *)

Waiting(q, v) == Cardinality({i \in DOMAIN q : q[i] = v})
Summed(v) == Total([m \in Minutes |-> bucket[m][v]])
HeatInHand(v) == (IF cur = v /\ effects = 0 THEN 1 ELSE 0) - (IF cur = v /\ effects > 1 THEN effects - 1 ELSE 0)

LEMMA WaitingType ==
  ASSUME NEW q \in Seq(Videos), NEW v
  PROVE  /\ IsFiniteSet({i \in DOMAIN q : q[i] = v}) /\ Waiting(q, v) \in Nat
<1>1. Len(q) \in Nat /\ DOMAIN q = 1..Len(q) /\ IsFiniteSet(1..Len(q))
  BY FS_Interval
<1>2. {i \in DOMAIN q : q[i] = v} \in SUBSET (1..Len(q))
  BY <1>1
<1>3. IsFiniteSet({i \in DOMAIN q : q[i] = v})
  BY <1>1, <1>2, FS_Subset
<1> QED BY <1>3, FS_CardinalityType DEF Waiting

LEMMA WaitingAppend ==
  ASSUME NEW q \in Seq(Videos), NEW u \in Videos, NEW v
  PROVE  Waiting(Append(q, u), v) = Waiting(q, v) + (IF u = v THEN 1 ELSE 0)
<1> DEFINE A == {i \in DOMAIN q : q[i] = v}
           B == {i \in DOMAIN Append(q, u) : Append(q, u)[i] = v}
<1>1. Len(q) \in Nat /\ DOMAIN q = 1..Len(q) /\ DOMAIN Append(q, u) = 1..Len(q) + 1
  OBVIOUS
<1>2. Append(q, u)[Len(q) + 1] = u /\ \A i \in 1..Len(q) : Append(q, u)[i] = q[i]
  OBVIOUS
<1>3. B = IF u = v THEN A \cup {Len(q) + 1} ELSE A
  <2>1. \A i \in DOMAIN Append(q, u) : i \in 1..Len(q) \/ i = Len(q) + 1
    BY <1>1
  <2>2. \A i \in 1..Len(q) : i \in DOMAIN Append(q, u)
    BY <1>1
  <2>3. Len(q) + 1 \in DOMAIN Append(q, u)
    BY <1>1
  <2> QED BY <1>1, <1>2, <2>1, <2>2, <2>3
<1>4. Len(q) + 1 \notin A
  BY <1>1
<1>5. IsFiniteSet(A) /\ Cardinality(A) \in Nat
  BY WaitingType DEF Waiting
<1>6. Cardinality(A \cup {Len(q) + 1}) = Cardinality(A) + 1
  BY <1>4, <1>5, FS_AddElement
<1>7. Waiting(q, v) = Cardinality(A) /\ Waiting(Append(q, u), v) = Cardinality(B)
  BY DEF Waiting
<1> HIDE DEF A, B
<1> QED BY <1>3, <1>5, <1>6, <1>7

LEMMA WaitingPush ==
  ASSUME NEW q \in Seq(Videos), NEW u \in Videos, NEW v
  PROVE  Waiting(<<u>> \o q, v) = Waiting(q, v) + (IF u = v THEN 1 ELSE 0)
<1> DEFINE p == <<u>> \o q
           A == {i \in DOMAIN q : q[i] = v}
           B == {i \in DOMAIN p : p[i] = v}
           C == {i \in 2..Len(q) + 1 : q[i - 1] = v}
<1>1. Len(q) \in Nat /\ DOMAIN q = 1..Len(q) /\ DOMAIN p = 1..Len(q) + 1
  OBVIOUS
<1>2. p[1] = u /\ \A i \in 2..Len(q) + 1 : p[i] = q[i - 1]
  OBVIOUS
<1>3. B = IF u = v THEN C \cup {1} ELSE C
  <2>1. \A i \in DOMAIN p : i \in 2..Len(q) + 1 \/ i = 1
    BY <1>1
  <2>2. \A i \in 2..Len(q) + 1 : i \in DOMAIN p
    BY <1>1
  <2>3. 1 \in DOMAIN p /\ 1 \notin C
    BY <1>1
  <2> HIDE DEF p
  <2> QED BY <1>1, <1>2, <2>1, <2>2, <2>3
<1>4. IsFiniteSet(A) /\ Cardinality(A) \in Nat
  BY WaitingType DEF Waiting
<1>5. IsFiniteSet(C) /\ Cardinality(C) = Cardinality(A)
  <2> DEFINE f == [i \in A |-> i + 1]
  <2>1. f \in [A -> C]
    BY <1>1
  <2>2. \A i, j \in A : f[i] = f[j] => i = j
    BY <1>1
  <2>3. \A j \in C : \E i \in A : f[i] = j
    <3> SUFFICES ASSUME NEW j \in C PROVE j - 1 \in A /\ f[j - 1] = j
      OBVIOUS
    <3> QED BY <1>1
  <2> HIDE DEF f, A, C
  <2>4. f \in Bijection(A, C)
    BY <2>1, <2>2, <2>3 DEF Bijection, Injection, IsInjective, Surjection
  <2>5. ExistsBijection(A, C)
    BY <2>4 DEF ExistsBijection
  <2> QED BY <1>4, <2>5, FS_Bijection
<1>6. 1 \notin C
  BY <1>1
<1>7. Waiting(q, v) = Cardinality(A) /\ Waiting(p, v) = Cardinality(B)
  BY DEF Waiting
<1> HIDE DEF A, B, C
<1>8. Cardinality(C \cup {1}) = Cardinality(C) + 1
  BY <1>5, <1>6, FS_AddElement
<1> QED BY <1>3, <1>4, <1>5, <1>7, <1>8

LEMMA WaitingTail ==
  ASSUME NEW q \in Seq(Videos), q # <<>>, NEW v
  PROVE  Waiting(q, v) = Waiting(Tail(q), v) + (IF Head(q) = v THEN 1 ELSE 0)
<1>1. Head(q) \in Videos /\ Tail(q) \in Seq(Videos)
  OBVIOUS
<1>2. q = <<Head(q)>> \o Tail(q)
  OBVIOUS
<1>3. Waiting(<<Head(q)>> \o Tail(q), v) = Waiting(Tail(q), v) + (IF Head(q) = v THEN 1 ELSE 0)
  BY <1>1, WaitingPush
<1> QED BY <1>2, <1>3

LEMMA SummedType ==
  ASSUME HeatTypeInv, NEW v \in Videos
  PROVE  Summed(v) \in Nat
<1>1. [m \in Minutes |-> bucket[m][v]] \in [Minutes -> Nat] /\ IsFiniteSet(Minutes)
  BY ConstantTypes DEF HeatTypeInv, HeatTypeOK, Scores
<1> QED BY <1>1, TotalType DEF Summed

LEMMA SummedBump ==
  ASSUME HeatTypeInv, ZIncrBy, consPc = "incr", NEW v \in Videos
  PROVE  Summed(v)' = Summed(v) + (IF cur = v THEN 1 ELSE 0)
<1> DEFINE f == [m \in Minutes |-> bucket[m][v]]
           g == [m \in Minutes |-> bucket'[m][v]]
<1>1. into \in Minutes /\ cur \in Videos /\ bucket \in [Minutes -> Scores] /\ bucket' \in [Minutes -> Scores]
  BY BumpType, ConstantTypes DEF HeatTypeInv, HeatTypeOK, Held, Minutes
<1>2. bucket' = [bucket EXCEPT ![into] = [bucket[into] EXCEPT ![cur] = bucket[into][cur] + 1]]
  BY <1>1 DEF ZIncrBy
<1>3. f \in [Minutes -> Nat] /\ g \in [Minutes -> Nat] /\ IsFiniteSet(Minutes)
  BY <1>1, ConstantTypes DEF Scores
<1>4. Summed(v) = Total(f) /\ Summed(v)' = Total(g)
  BY DEF Summed
<1>5. CASE cur = v
  <2>1. g[into] = f[into] + 1 /\ \A m \in Minutes \ {into} : g[m] = f[m]
    BY <1>1, <1>2, <1>5 DEF Scores
  <2> HIDE DEF f, g
  <2> QED BY <1>1, <1>3, <1>4, <1>5, <2>1, TotalBump
<1>6. CASE cur # v
  <2>1. g = f
    BY <1>1, <1>2, <1>6 DEF Scores
  <2>2. Summed(v) \in Nat
    BY SummedType
  <2> QED BY <1>4, <1>6, <2>1, <2>2
<1> QED BY <1>5, <1>6

HeatInv == HeatTypeInv /\ \A v \in Videos \ unsure : accepted[v] = Summed(v) + Waiting(queue, v) + HeatInHand(v)

LEMMA HeatInvInit == HeatInit => HeatInv
<1> SUFFICES ASSUME HeatInit, NEW v \in Videos PROVE accepted[v] = Summed(v) + Waiting(queue, v) + HeatInHand(v)
  BY HeatTypeInvInit DEF HeatInv
<1>1. [m \in Minutes |-> bucket[m][v]] \in [Minutes -> {0}]
  BY DEF HeatInit, Nothing
<1>2. Summed(v) = 0
  BY <1>1, ConstantTypes, TotalNothing DEF Summed
<1>3. Waiting(queue, v) = 0
  <2>1. {i \in DOMAIN queue : queue[i] = v} = {}
    BY DEF HeatInit
  <2> QED BY <2>1, FS_EmptySet DEF Waiting
<1>4. HeatInHand(v) = 0
  BY ConstantTypes DEF HeatInit, HeatInHand
<1>5. accepted[v] = 0
  BY DEF HeatInit, Nothing
<1> QED BY <1>2, <1>3, <1>4, <1>5

LEMMA HeatInvStep == HeatInv /\ [HeatNext]_heatVars => HeatInv'
<1> SUFFICES ASSUME HeatInv, [HeatNext]_heatVars, NEW v \in Videos, v \notin unsure'
             PROVE  accepted'[v] = Summed(v)' + Waiting(queue', v) + HeatInHand(v)'
  BY HeatTypeInvStep DEF HeatInv
<1>t. /\ HeatTypeInv /\ queue \in Seq(Videos) /\ Held /\ NoVideo \notin Videos /\ effects \in Nat
      /\ accepted \in [Videos -> Nat]
  BY ConstantTypes DEF HeatInv, HeatTypeInv, HeatTypeOK, Scores
<1>i. v \notin unsure => accepted[v] = Summed(v) + Waiting(queue, v) + HeatInHand(v)
  BY DEF HeatInv
<1> PICK a, s, q, h : a = accepted[v] /\ s = Summed(v) /\ q = Waiting(queue, v) /\ h = HeatInHand(v)
  OBVIOUS
<1>n. a \in Nat /\ s \in Nat /\ q \in Nat /\ h \in Int
  <2>1. HeatInHand(v) \in Int
    BY <1>t DEF HeatInHand
  <2>2. Summed(v) \in Nat /\ Waiting(queue, v) \in Nat
    BY <1>t, SummedType, WaitingType
  <2> QED BY <1>t, <2>1, <2>2
<1>s. bucket' = bucket => Summed(v)' = s
  BY DEF Summed
<1>h. cur' = cur /\ effects' = effects => HeatInHand(v)' = h
  BY DEF HeatInHand
<1>1. ASSUME NEW u \in Videos, PublishHeat(u) \/ PublishHeatFails(u)
      PROVE  accepted'[v] = Summed(v)' + Waiting(queue', v) + HeatInHand(v)'
  <2>1. /\ bucket' = bucket /\ cur' = cur /\ effects' = effects /\ v \notin unsure
        /\ accepted' = [accepted EXCEPT ![u] = accepted[u] + 1]
        /\ queue' = Append(queue, u) \/ (queue' = queue /\ u # v)
    BY <1>1 DEF PublishHeat, PublishHeatFails, Accept, consumer
  <2>2. accepted'[v] = a + (IF u = v THEN 1 ELSE 0)
    BY <1>t, <2>1
  <2>3. Waiting(queue', v) = q + (IF u = v THEN 1 ELSE 0)
    <3>1. Waiting(Append(queue, u), v) = q + (IF u = v THEN 1 ELSE 0)
      BY <1>t, WaitingAppend
    <3>2. queue' = queue /\ u # v => Waiting(queue', v) = q + 0
      BY <1>n
    <3> QED BY <2>1, <3>1, <3>2
  <2>4. Summed(v)' = s /\ HeatInHand(v)' = h /\ a = s + q + h
    BY <1>s, <1>h, <1>i, <2>1
  <2> QED BY <1>n, <2>2, <2>3, <2>4
<1>2. CASE Receive
  <2>1. /\ UNCHANGED <<bucket, accepted, effects, unsure>> /\ cur' = Head(queue) /\ queue' = Tail(queue)
        /\ queue # <<>> /\ consPc = "idle"
    BY <1>2 DEF Receive
  <2>2. q = Waiting(queue', v) + (IF Head(queue) = v THEN 1 ELSE 0)
    BY <1>t, <2>1, WaitingTail
  <2>3. HeatInHand(v)' = (IF Head(queue) = v THEN 1 ELSE 0) /\ h = 0
    BY <1>t, <2>1 DEF Held, HeatInHand
  <2>4. Summed(v)' = s /\ a = s + q + h /\ accepted'[v] = a /\ Waiting(queue', v) \in Nat
    <3>1. queue' \in Seq(Videos)
      BY <1>t, <2>1
    <3> QED BY <1>s, <1>i, <2>1, <3>1, WaitingType
  <2> QED BY <1>n, <2>2, <2>3, <2>4
<1>3. ASSUME ZIncrBy, consPc = "incr", UNCHANGED <<queue, cur, accepted, unsure>>
      PROVE  accepted'[v] = Summed(v)' + Waiting(queue', v) + HeatInHand(v)'
  <2>1. Summed(v)' = s + (IF cur = v THEN 1 ELSE 0)
    BY <1>t, <1>3, SummedBump
  <2>2. effects' = effects + 1
    BY <1>3 DEF ZIncrBy
  <2>3. HeatInHand(v)' = h - (IF cur = v THEN 1 ELSE 0)
    <3>1. CASE cur = v
      <4>1. CASE effects = 0
        BY <1>3, <2>2, <3>1, <4>1 DEF HeatInHand
      <4>2. CASE effects = 1
        BY <1>3, <2>2, <3>1, <4>2 DEF HeatInHand
      <4>3. CASE effects > 1
        BY <1>t, <1>3, <2>2, <3>1, <4>3 DEF HeatInHand
      <4> QED BY <1>t, <4>1, <4>2, <4>3
    <3>2. CASE cur # v
      BY <1>3, <3>2 DEF HeatInHand
    <3> QED BY <3>1, <3>2
  <2>4. a = s + q + h /\ accepted'[v] = a /\ Waiting(queue', v) = q
    BY <1>i, <1>3
  <2> QED BY <1>n, <2>1, <2>3, <2>4
<1>4. CASE UpdatePopularity
  BY <1>3, <1>4 DEF UpdatePopularity
<1>5. ASSUME UNCHANGED <<bucket, queue, cur, effects, accepted, unsure>>
      PROVE  accepted'[v] = Summed(v)' + Waiting(queue', v) + HeatInHand(v)'
  BY <1>s, <1>h, <1>i, <1>5
<1>6. CASE UpdateFails
  BY <1>3, <1>5, <1>6 DEF UpdateFails
<1>7. CASE Ack
  <2>1. /\ UNCHANGED <<bucket, queue, accepted>> /\ Forget /\ consPc = "ack"
        /\ v \notin unsure /\ (effects # 1 => cur # v)
    BY <1>7 DEF Ack
  <2>2. h = 0 /\ HeatInHand(v)' = 0
    BY <1>t, <2>1 DEF HeatInHand, Forget
  <2> QED BY <1>n, <1>s, <1>i, <2>1, <2>2
<1>8. CASE HeatCrash
  <2>1. /\ UNCHANGED <<bucket, accepted>> /\ Forget /\ consPc # "idle" /\ queue' = <<cur>> \o queue
        /\ v \notin unsure /\ (effects > 0 => cur # v)
    BY <1>8 DEF HeatCrash
  <2>2. Waiting(queue', v) = q + (IF cur = v THEN 1 ELSE 0)
    BY <1>t, <2>1, WaitingPush DEF Held
  <2>3. h = (IF cur = v THEN 1 ELSE 0) /\ HeatInHand(v)' = 0
    BY <1>t, <2>1 DEF HeatInHand, Forget
  <2>4. a = s + q + h /\ accepted'[v] = a /\ Summed(v)' = s
    BY <1>s, <1>i, <2>1
  <2> QED BY <1>n, <2>2, <2>3, <2>4
<1>9. CASE PickMinute
  BY <1>5, <1>9 DEF PickMinute
<1>10. ASSUME NEW r \in Readers, ListByPopularity(r)
       PROVE  accepted'[v] = Summed(v)' + Waiting(queue', v) + HeatInHand(v)'
  BY <1>5, <1>10 DEF ListByPopularity, Ask, Exists, ZUnionStore, ExpireSnap, ZRevRange, ReadFails, World, consumer
<1>11. CASE Tick \/ (\E m \in Minutes : SnapEnds(m)) \/ UNCHANGED heatVars
  BY <1>5, <1>11 DEF Tick, SnapEnds, heatVars, World, consumer
<1> QED BY <1>1, <1>2, <1>4, <1>6, <1>7, <1>8, <1>9, <1>10, <1>11 DEF HeatNext, PopularityHandler

\* No like or comment is lost or counted twice, but for the named failures: for any
\* number of videos, minutes, attempts and events.
THEOREM HeatStays == HeatSpec => []HeatConserved
<1>1. HeatInv => HeatConserved
  <2> SUFFICES ASSUME HeatInv, NEW v \in Videos \ unsure
               PROVE  accepted[v] = Summed(v) + Waiting(queue, v) + (IF cur = v /\ effects = 0 THEN 1 ELSE 0)
                                    - (IF cur = v /\ effects > 1 THEN effects - 1 ELSE 0)
    BY DEF HeatConserved, Summed, Waiting
  <2>1. accepted[v] = Summed(v) + Waiting(queue, v) + HeatInHand(v)
    BY DEF HeatInv
  <2>2. Summed(v) \in Nat /\ Waiting(queue, v) \in Nat /\ effects \in Nat
    BY SummedType, WaitingType DEF HeatInv, HeatTypeInv, HeatTypeOK
  <2> QED BY <2>1, <2>2 DEF HeatInHand
<1> QED BY <1>1, HeatInvInit, HeatInvStep, PTL DEF HeatSpec

----------------------------------------------------------------------------
(* Snapshots *)

Touched(m) == late \cap (m - Window)..(m - 1) # {}

\* No snapshot is of a minute to come, and what it counts does not become nothing.
Kept == \A m \in Minutes : snap[m] # Nothing => m <= now /\ Merge(m) # Nothing

SnapInv == HeatTypeInv /\ SnapshotExact /\ Kept

\* A call that counts an event adds to what is counted, and to what a snapshot of
\* a minute gone by counts only if it is late.
LEMMA MergeBump ==
  ASSUME HeatTypeInv, ZIncrBy, consPc = "incr", NEW m \in Minutes
  PROVE  /\ m <= now /\ ~Touched(m)' => Merge(m)' = Merge(m)
         /\ Merge(m) # Nothing => Merge(m)' # Nothing
         /\ Touched(m) => Touched(m)'
<1>1. /\ into \in 0..now /\ into \in Minutes /\ cur \in Videos /\ bucket \in [Minutes -> Scores]
      /\ bucket' \in [Minutes -> Scores] /\ late \subseteq Minutes /\ now \in Minutes
  BY BumpType, ConstantTypes DEF HeatTypeInv, HeatTypeOK, Held, Minutes
<1>2. bucket' = [bucket EXCEPT ![into] = [bucket[into] EXCEPT ![cur] = bucket[into][cur] + 1]]
  BY <1>1 DEF ZIncrBy
<1>3. late' = IF into < now THEN late \cup {into} ELSE late
  BY DEF ZIncrBy
<1>c. Window \in Nat /\ Minutes = 0..MaxMinute /\ MaxMinute \in Nat /\ m \in Nat /\ IsFiniteSet(1..Window)
      /\ now \in Nat /\ into \in Nat
  BY <1>1, ConstantTypes, FS_Interval DEF Minutes
<1>4. ASSUME NEW v \in Videos
      PROVE  /\ Merge(m)[v] = Total(Before(m, v)) /\ Merge(m)'[v] = Total(Before(m, v)')
             /\ Before(m, v) \in [1..Window -> Nat] /\ Before(m, v)' \in [1..Window -> Nat]
  BY <1>1 DEF Merge, Before, Scores
<1>5. ASSUME NEW v \in Videos, v # cur \/ m - into \notin 1..Window
      PROVE  Merge(m)'[v] = Merge(m)[v]
  <2>1. \A k \in Minutes : (k = into /\ v = cur) \/ bucket'[k][v] = bucket[k][v]
    BY <1>1, <1>2 DEF Scores
  <2>2. \A i \in 1..Window : m - i = into => i = m - into
    BY <1>c
  <2>3. \A i \in 1..Window : m - i \in Minutes => bucket'[m - i][v] = bucket[m - i][v]
    BY <1>5, <2>1, <2>2
  <2>4. Before(m, v)' = Before(m, v)
    BY <2>3 DEF Before
  <2> QED BY <1>4, <2>4
<1>6. CASE m - into \notin 1..Window
  <2>1. \A v \in Videos : Merge(m)'[v] = Merge(m)[v]
    BY <1>5, <1>6
  <2>2. Merge(m)' = Merge(m)
    BY <2>1 DEF Merge
  <2> QED BY <1>3, <2>2 DEF Touched
<1>7. CASE m - into \in 1..Window
  <2>1. m <= now => into \in late' /\ into \in (m - Window)..(m - 1)
    BY <1>3, <1>7, <1>c
  <2>2. Merge(m)'[cur] = Merge(m)[cur] + 1 /\ Merge(m)[cur] \in Nat
    <3> PICK u \in Videos : u = cur
      BY <1>1
    <3> DEFINE f == Before(m, u)
               g == Before(m, u)'
               x == m - into
    <3>1. m - x = into /\ x \in 1..Window
      BY <1>7, <1>c
    <3>2. f[x] = bucket[into][u] /\ g[x] = bucket'[into][u]
      BY <1>1, <3>1 DEF Before
    <3>3. g[x] = f[x] + 1
      BY <1>1, <1>2, <3>2 DEF Scores
    <3>4. \A i \in 1..Window \ {x} : m - i # into
      BY <1>c
    <3>5. \A i \in 1..Window \ {x} : g[i] = f[i]
      <4> SUFFICES ASSUME NEW i \in 1..Window, i # x PROVE g[i] = f[i]
        OBVIOUS
      <4>1. m - i # into
        BY <3>4
      <4>2. m - i \in Minutes => bucket'[m - i] = bucket[m - i]
        BY <1>1, <1>2, <4>1
      <4> QED BY <4>2 DEF Before
    <3>6. f \in [1..Window -> Nat] /\ g \in [1..Window -> Nat]
      BY <1>1, <1>4
    <3>7. Total(f) \in Nat
      BY <1>c, <3>6, TotalType
    <3>8. Merge(m)[u] = Total(f) /\ Merge(m)'[u] = Total(g)
      BY <1>1, <1>4
    <3> HIDE DEF f, g, x
    <3>9. Total(g) = Total(f) + 1
      BY <1>c, <3>1, <3>3, <3>5, <3>6, TotalBump
    <3> QED BY <3>7, <3>8, <3>9
  <2>3. Merge(m)' # Nothing
    <3>1. Merge(m)'[cur] # 0
      BY <2>2
    <3> QED BY <1>1, <3>1 DEF Nothing
  <2> QED BY <1>3, <2>1, <2>3 DEF Touched
<1> QED BY <1>6, <1>7

LEMMA SnapInvInit == HeatInit => SnapInv
  BY HeatTypeInvInit DEF HeatInit, SnapInv, SnapshotExact, Kept

LEMMA SnapInvStep == SnapInv /\ [HeatNext]_heatVars => SnapInv'
<1> SUFFICES ASSUME SnapInv, [HeatNext]_heatVars PROVE SnapshotExact' /\ Kept'
  BY HeatTypeInvStep DEF SnapInv
<1>t. /\ HeatTypeInv /\ Reading /\ snap \in [Minutes -> Scores] /\ now \in Nat
      /\ Minutes \subseteq Nat
      /\ \A m \in Minutes : snap[m] # Nothing =>
            /\ snap[m] = Merge(m) \/ Touched(m)
            /\ m <= now /\ Merge(m) # Nothing
  BY ConstantTypes DEF SnapInv, HeatTypeInv, HeatTypeOK, Minutes, SnapshotExact, Kept, Touched
<1> SUFFICES ASSUME NEW m \in Minutes, snap'[m] # Nothing
             PROVE  /\ snap'[m] = Merge(m)' \/ Touched(m)'
                    /\ m <= now' /\ Merge(m)' # Nothing
  BY DEF SnapshotExact, Kept, Touched
<1>s. UNCHANGED <<bucket, late>> => Merge(m)' = Merge(m) /\ (Touched(m)' <=> Touched(m))
  BY DEF Merge, Touched
<1>1. CASE UNCHANGED <<snap, bucket, late>> /\ now' \in {now, now + 1}
  <2>1. m <= now'
    BY <1>t, <1>1
  <2> QED BY <1>t, <1>s, <1>1, <2>1
<1>2. CASE ZIncrBy /\ consPc = "incr" /\ UNCHANGED <<snap, now>>
  BY <1>t, <1>2, MergeBump
<1>3. ASSUME NEW v \in Videos, PublishHeat(v) \/ PublishHeatFails(v)
      PROVE  UNCHANGED <<snap, bucket, late, now>>
  BY <1>3 DEF PublishHeat, PublishHeatFails, Accept
<1>4. CASE PopularityHandler
  BY <1>1, <1>2, <1>4 DEF PopularityHandler, Receive, PickMinute, UpdatePopularity, UpdateFails, Ack, HeatCrash
<1>5. ASSUME NEW r \in Readers, ListByPopularity(r), ~ZUnionStore(r)
      PROVE  UNCHANGED <<snap, bucket, late, now>>
  BY <1>5 DEF ListByPopularity, Ask, Exists, ExpireSnap, ZRevRange, ReadFails, World
<1>6. ASSUME NEW r \in Readers, ZUnionStore(r)
      PROVE  /\ snap'[m] = Merge(m)' \/ Touched(m)'
             /\ m <= now' /\ Merge(m)' # Nothing
  <2>1. UNCHANGED <<bucket, late, now>> /\ from[r] \in 0..now
    BY <1>t, <1>6 DEF ZUnionStore, World, Reading
  <2>2. snap' = [snap EXCEPT ![from[r]] = Merge(from[r])]
    BY <1>6 DEF ZUnionStore
  <2>3. CASE from[r] = m
    <3>1. snap'[m] = Merge(m) /\ m <= now'
      BY <1>t, <2>1, <2>2, <2>3
    <3> QED BY <1>s, <2>1, <3>1
  <2>4. CASE from[r] # m
    <3>1. snap'[m] = snap[m]
      BY <1>t, <2>2, <2>4
    <3> QED BY <1>t, <1>s, <2>1, <3>1
  <2> QED BY <2>3, <2>4
<1>7. ASSUME NEW k \in Minutes, SnapEnds(k)
      PROVE  UNCHANGED <<bucket, late, now>> /\ snap'[m] = snap[m]
  BY <1>t, <1>7 DEF SnapEnds, World
<1>8. CASE Tick
  BY <1>1, <1>8 DEF Tick
<1>9. CASE UNCHANGED heatVars
  BY <1>1, <1>9 DEF heatVars
<1> QED BY <1>1, <1>3, <1>4, <1>5, <1>6, <1>7, <1>8, <1>9, <1>t, <1>s DEF HeatNext

\* A snapshot is what the buckets it counts add up to for as long as it lives, unless
\* one of them was written late: for any window, time to live and number of readers.
THEOREM SnapshotsAreSums == HeatSpec => []SnapshotExact
<1>1. SnapInv => SnapshotExact
  BY DEF SnapInv
<1> QED BY <1>1, SnapInvInit, SnapInvStep, PTL DEF HeatSpec

----------------------------------------------------------------------------
(* Pages *)

\* A reader who was told a minute goes on in its snapshot, which is the one he saw
\* his first page of.
Moored(r) ==
  /\ asOf[r] = NoMinute => seen[r] = {} /\ shownTwice[r] = {} /\ offset[r] = 0 /\ readPc[r] \notin {"exists", "done"}
  /\ asOf[r] # NoMinute /\ r \notin unmoored =>
       /\ readPc[r] \notin {"union", "expire"}
       /\ readPc[r] = "range" => from[r] = asOf[r]
       /\ readPc[r] # "done" => snap[asOf[r]] # Nothing /\ (~Touched(asOf[r]) => base[r] = snap[asOf[r]])

Above(s, n) == {v \in Members(s) : Rank(s, v) < n}

Shown(r) ==
  asOf[r] = NoMinute \/ r \in unmoored \/ Touched(asOf[r])
  \/ /\ seen[r] = Above(base[r], offset[r])
     /\ shownTwice[r] = {}
     /\ readPc[r] = "done" => seen[r] = Members(base[r])

PageInv == SnapInv /\ \A r \in Readers : Moored(r) /\ Shown(r)

LEMMA RankBelow ==
  ASSUME NEW s \in Scores
  PROVE  /\ Cardinality(Members(s)) \in Nat
         /\ \A v \in Members(s) : Rank(s, v) \in Nat /\ Rank(s, v) < Cardinality(Members(s))
<1>1. IsFiniteSet(Members(s)) /\ Cardinality(Members(s)) \in Nat
  <2>1. Members(s) \in SUBSET Videos
    BY DEF Members
  <2> QED BY <2>1, ConstantTypes, FS_Subset, FS_CardinalityType
<1>2. ASSUME NEW v \in Members(s)
      PROVE  Rank(s, v) \in Nat /\ Rank(s, v) < Cardinality(Members(s))
  <2> DEFINE better == {u \in Members(s) : s[u] > s[v] \/ (s[u] = s[v] /\ u > v)}
  <2>1. s[v] \in Nat /\ v \in Nat
    BY ConstantTypes DEF Members, Scores, Videos
  <2>2. v \notin better
    BY <2>1
  <2>3. better \in SUBSET (Members(s) \ {v})
    BY <2>2
  <2>4. Rank(s, v) = Cardinality(better)
    BY DEF Rank
  <2> HIDE DEF better
  <2>5. IsFiniteSet(Members(s) \ {v}) /\ Cardinality(Members(s) \ {v}) = Cardinality(Members(s)) - 1
    BY <1>1, FS_RemoveElement
  <2>6. IsFiniteSet(better) /\ Cardinality(better) <= Cardinality(Members(s) \ {v})
    BY <2>3, <2>5, FS_Subset
  <2>7. Cardinality(better) \in Nat
    BY <2>6, FS_CardinalityType
  <2> QED BY <1>1, <2>4, <2>5, <2>6, <2>7
<1> QED BY <1>1, <1>2

\* A page goes on where the pages before it ended.
LEMMA NextPage ==
  ASSUME NEW s \in Scores, NEW n \in Nat
  PROVE  /\ Above(s, n) \cup Page(s, n) = Above(s, n + Limit)
         /\ Above(s, n) \cap Page(s, n) = {}
         /\ Above(s, 0) = {}
         /\ ~(Cardinality(Members(s)) > n + Limit) => Above(s, n + Limit) = Members(s)
<1>1. Limit \in Nat /\ Limit > 0 /\ Cardinality(Members(s)) \in Nat
  BY ConstantTypes, RankBelow
<1>2. ASSUME NEW v \in Members(s)
      PROVE  /\ Rank(s, v) < n \/ Rank(s, v) \in n..n + Limit - 1 <=> Rank(s, v) < n + Limit
             /\ ~(Rank(s, v) < n /\ Rank(s, v) \in n..n + Limit - 1)
             /\ ~(Rank(s, v) < 0)
             /\ ~(Cardinality(Members(s)) > n + Limit) => Rank(s, v) < n + Limit
  <2>1. Rank(s, v) \in Nat /\ Rank(s, v) < Cardinality(Members(s))
    BY RankBelow
  <2> QED BY <1>1, <2>1
<1> QED BY <1>2 DEF Above, Page

LEMMA PageInvInit == HeatInit => PageInv
  BY SnapInvInit DEF HeatInit, PageInv, Moored, Shown

\* What leaves a reader alone, and his snapshot if he still holds to it.
LEMMA Unmoved ==
  ASSUME NEW r, Moored(r), Shown(r),
         readPc'[r] = readPc[r], from'[r] = from[r], asOf'[r] = asOf[r], offset'[r] = offset[r],
         base'[r] = base[r], seen'[r] = seen[r], shownTwice'[r] = shownTwice[r],
         r \in unmoored => r \in unmoored',
         Touched(asOf[r]) => Touched(asOf[r])',
         r \in unmoored' \/ asOf[r] = NoMinute \/ snap'[asOf[r]] = snap[asOf[r]]
           \/ (snap'[asOf[r]] # Nothing /\ Touched(asOf[r]))
  PROVE  Moored(r)' /\ Shown(r)'
<1> PICK m : m = asOf[r]
  OBVIOUS
<1>1. asOf'[r] = m /\ (Touched(m) => Touched(m)')
  BY DEF Touched
<1>2. /\ Touched(asOf[r]) <=> Touched(m)
      /\ Touched(asOf[r])' <=> Touched(m)'
  BY <1>1 DEF Touched
<1> QED BY <1>1, <1>2 DEF Moored, Shown

LEMMA OwnStep ==
  ASSUME PageInv, NEW r \in Readers, ListByPopularity(r)
  PROVE  Moored(r)' /\ Shown(r)'
<1>t. /\ now \in Minutes /\ now \in Nat /\ snap \in [Minutes -> Scores] /\ NoMinute \notin Minutes
      /\ readPc \in [Readers -> {"idle", "exists", "union", "expire", "range", "done"}]
      /\ from \in [Readers -> Minutes \cup {NoMinute}] /\ asOf \in [Readers -> Minutes \cup {NoMinute}]
      /\ offset \in [Readers -> Nat] /\ more \in [Readers -> BOOLEAN] /\ unmoored \subseteq Readers
      /\ base \in [Readers -> Scores] /\ seen \in [Readers -> SUBSET Videos] /\ shownTwice \in [Readers -> SUBSET Videos]
      /\ Minutes = 0..MaxMinute /\ MaxMinute \in Nat
  BY ConstantTypes DEF PageInv, SnapInv, HeatTypeInv, HeatTypeOK, Minutes
<1>r. /\ readPc[r] \in {"exists", "union", "expire", "range"} => from[r] \in Minutes
      /\ readPc[r] = "exists" => asOf[r] # NoMinute
  BY <1>t DEF PageInv, SnapInv, HeatTypeInv, Reading
<1>i. Moored(r) /\ Shown(r)
  BY DEF PageInv
<1> PICK m : m = asOf[r]
  OBVIOUS
<1>m. asOf'[r] = m /\ late' = late => (Touched(asOf[r])' <=> Touched(asOf[r])) /\ (Touched(m) <=> Touched(asOf[r]))
  BY DEF Touched
<1> USE DEF Step
<1>1. CASE Ask(r)
  <2>1. /\ UNCHANGED <<snap, late, asOf, offset, base, seen, shownTwice, unmoored>>
        /\ readPc[r] = "idle" /\ readPc'[r] = IF asOf[r] = NoMinute THEN "union" ELSE "exists"
    BY <1>t, <1>1 DEF Ask, pages, World
  <2> QED BY <1>i, <1>m, <2>1 DEF Moored, Shown
<1>2. CASE Exists(r)
  <2>1. /\ UNCHANGED <<snap, late, asOf, offset, base, seen, shownTwice, unmoored>> /\ readPc[r] = "exists"
    BY <1>2 DEF Exists, pages, World
  <2>2. CASE snap[asOf[r]] # Nothing
    <3>1. readPc'[r] = "range" /\ from'[r] = asOf[r]
      BY <1>t, <1>2, <2>2 DEF Exists
    <3> QED BY <1>i, <1>m, <2>1, <3>1 DEF Moored, Shown
  <2>3. CASE snap[asOf[r]] = Nothing
    <3>1. readPc'[r] = "union" /\ from'[r] = from[r] /\ asOf[r] # NoMinute
      BY <1>t, <1>r, <1>2, <2>1, <2>3 DEF Exists
    <3>2. r \in unmoored
      BY <1>i, <2>1, <2>3, <3>1 DEF Moored
    <3> QED BY <1>i, <1>m, <2>1, <3>1, <3>2 DEF Moored, Shown
  <2> QED BY <2>2, <2>3
<1>3. CASE ZUnionStore(r)
  <2>1. /\ UNCHANGED <<late, asOf, offset, base, seen, shownTwice, unmoored>> /\ readPc[r] = "union"
        /\ readPc'[r] = "expire"
    BY <1>t, <1>3 DEF ZUnionStore, pages, World
  <2> QED BY <1>i, <1>m, <2>1 DEF Moored, Shown
<1>4. CASE ExpireSnap(r)
  <2>1. /\ UNCHANGED <<snap, late, from, asOf, offset, base, seen, shownTwice, unmoored>> /\ readPc[r] = "expire"
        /\ readPc'[r] = "range"
    BY <1>t, <1>4 DEF ExpireSnap, pages, World
  <2> QED BY <1>i, <1>m, <2>1 DEF Moored, Shown
<1>5. CASE ReadFails(r)
  <2>1. UNCHANGED <<snap, late, asOf, offset, base, seen, shownTwice>> /\ unmoored \subseteq unmoored'
    BY <1>5 DEF ReadFails, pages, World
  <2>2. \/ readPc[r] = "union" /\ readPc'[r] = "expire" /\ unmoored' = unmoored \cup {r}
        \/ readPc[r] = "expire" /\ readPc'[r] = "range" /\ unmoored' = unmoored
        \/ readPc[r] \in {"exists", "range"} /\ readPc'[r] = "idle" /\ unmoored' = unmoored
    BY <1>t, <1>5 DEF ReadFails
  <2> QED BY <1>i, <1>m, <2>1, <2>2 DEF Moored, Shown
<1>6. CASE ZRevRange(r)
  <2> PICK k, s, n, page : k = from[r] /\ s = snap[k] /\ n = offset[r] /\ page = Page(s, n)
    OBVIOUS
  <2>1. /\ UNCHANGED <<snap, late, unmoored>> /\ readPc[r] = "range" /\ asOf'[r] = k
        /\ offset'[r] = n + Limit /\ more'[r] = (Cardinality(Members(s)) > n + Limit)
        /\ readPc'[r] = IF more'[r] THEN "idle" ELSE "done"
        /\ base'[r] = IF m = NoMinute THEN s ELSE base[r]
        /\ seen'[r] = seen[r] \cup page /\ shownTwice'[r] = shownTwice[r] \cup (seen[r] \cap page)
    BY <1>t, <1>6 DEF ZRevRange, World
  <2>2. k \in Minutes /\ k # NoMinute /\ s \in Scores /\ n \in Nat
    BY <1>t, <1>r, <2>1
  <2>3. Touched(asOf[r])' <=> Touched(k)
    BY <2>1 DEF Touched
  <2>4. SUFFICES ASSUME r \notin unmoored
                 PROVE  /\ readPc'[r] # "done" => s # Nothing /\ (~Touched(k) => base'[r] = s)
                        /\ \/ Touched(k)
                           \/ /\ seen'[r] = Above(base'[r], n + Limit)
                              /\ shownTwice'[r] = {}
                              /\ readPc'[r] = "done" => seen'[r] = Members(base'[r])
    BY <2>1, <2>2, <2>3 DEF Moored, Shown
  <2>5. m # NoMinute => k = m /\ s # Nothing /\ (~Touched(k) => base[r] = s)
    BY <1>i, <2>1, <2>4 DEF Moored, Touched
  <2>6. ~Touched(k) => base'[r] = s /\ seen[r] = Above(s, n) /\ shownTwice[r] = {}
    <3>1. CASE m = NoMinute
      <4>1. seen[r] = {} /\ shownTwice[r] = {} /\ n = 0
        BY <1>i, <3>1 DEF Moored
      <4> QED BY <2>1, <2>2, <3>1, <4>1, NextPage
    <3>2. CASE m # NoMinute
      BY <1>i, <2>1, <2>4, <2>5, <3>2 DEF Shown, Touched
    <3> QED BY <3>1, <3>2
  <2>7. more'[r] => s # Nothing
    <3> SUFFICES ASSUME s = Nothing PROVE ~(Cardinality(Members(s)) > n + Limit)
      BY <2>1
    <3>1. Members(s) = {}
      BY DEF Members, Nothing
    <3> QED BY <2>2, <3>1, ConstantTypes, FS_EmptySet
  <2>8. readPc'[r] # "done" => more'[r]
    BY <2>1
  <2>9. ~Touched(k) => /\ seen'[r] = Above(s, n + Limit) /\ shownTwice'[r] = {}
                       /\ readPc'[r] = "done" => seen'[r] = Members(s)
    <3>1. /\ Above(s, n) \cup page = Above(s, n + Limit) /\ Above(s, n) \cap page = {}
          /\ ~(Cardinality(Members(s)) > n + Limit) => Above(s, n + Limit) = Members(s)
      BY <2>2, NextPage
    <3>2. readPc'[r] = "done" => ~(Cardinality(Members(s)) > n + Limit)
      BY <2>1
    <3> QED BY <2>1, <2>6, <3>1, <3>2
  <2> QED BY <2>6, <2>7, <2>8, <2>9
<1> QED BY <1>1, <1>2, <1>3, <1>4, <1>5, <1>6 DEF ListByPopularity

LEMMA PageInvStep == PageInv /\ [HeatNext]_heatVars => PageInv'
<1> SUFFICES ASSUME PageInv, [HeatNext]_heatVars, NEW r \in Readers PROVE Moored(r)' /\ Shown(r)'
  BY SnapInvStep DEF PageInv
<1>t. /\ HeatTypeInv /\ Reading /\ snap \in [Minutes -> Scores] /\ NoMinute \notin Minutes
      /\ asOf \in [Readers -> Minutes \cup {NoMinute}] /\ late \subseteq Minutes
      /\ readPc \in [Readers -> {"idle", "exists", "union", "expire", "range", "done"}]
      /\ from \in [Readers -> Minutes \cup {NoMinute}] /\ offset \in [Readers -> Nat]
      /\ base \in [Readers -> Scores] /\ seen \in [Readers -> SUBSET Videos] /\ shownTwice \in [Readers -> SUBSET Videos]
  BY ConstantTypes DEF PageInv, SnapInv, HeatTypeInv, HeatTypeOK
<1>i. Moored(r) /\ Shown(r)
  BY DEF PageInv
<1>1. ASSUME UNCHANGED <<snap, reader, pages, unmoored>>, late \subseteq late'
      PROVE  Moored(r)' /\ Shown(r)'
  <2>1. Touched(asOf[r]) => Touched(asOf[r])'
    BY <1>1 DEF Touched, reader
  <2> QED BY <1>i, <1>1, <2>1, Unmoved DEF reader, pages
<1>2. ASSUME NEW v \in Videos, PublishHeat(v) \/ PublishHeatFails(v)
      PROVE  Moored(r)' /\ Shown(r)'
  BY <1>1, <1>2 DEF PublishHeat, PublishHeatFails, Accept
<1>3. CASE PopularityHandler
  <2>1. UNCHANGED <<snap, reader, pages, unmoored>> /\ late \subseteq late'
    BY <1>3 DEF PopularityHandler, Receive, PickMinute, UpdatePopularity, UpdateFails, Ack, HeatCrash, ZIncrBy
  <2> QED BY <1>1, <2>1
<1>4. CASE ListByPopularity(r)
  BY <1>4, OwnStep
<1>5. ASSUME NEW q \in Readers, q # r, ListByPopularity(q)
      PROVE  Moored(r)' /\ Shown(r)'
  <2>1. /\ readPc'[r] = readPc[r] /\ from'[r] = from[r] /\ asOf'[r] = asOf[r] /\ offset'[r] = offset[r]
        /\ base'[r] = base[r] /\ seen'[r] = seen[r] /\ shownTwice'[r] = shownTwice[r]
        /\ unmoored \subseteq unmoored' /\ late' = late
    BY <1>t, <1>5 DEF ListByPopularity, Ask, Exists, ZUnionStore, ExpireSnap, ZRevRange, ReadFails, World, pages, Step
  <2>2. Touched(asOf[r]) => Touched(asOf[r])'
    BY <2>1 DEF Touched
  <2>3. CASE ZUnionStore(q)
    <3>1. snap' = [snap EXCEPT ![from[q]] = Merge(from[q])]
      BY <2>3 DEF ZUnionStore
    <3> PICK m : m = asOf[r]
      OBVIOUS
    <3>2. CASE asOf[r] = NoMinute \/ r \in unmoored \/ m # from[q]
      <4>1. asOf[r] = NoMinute \/ r \in unmoored' \/ snap'[asOf[r]] = snap[asOf[r]]
        BY <1>t, <2>1, <3>1, <3>2
      <4> QED BY <1>i, <2>1, <2>2, <4>1, Unmoved
    <3>3. CASE readPc[r] = "done"
      BY <1>i, <2>1, <2>2, <3>3 DEF Moored, Shown
    <3>4. CASE asOf[r] # NoMinute /\ r \notin unmoored /\ m = from[q] /\ readPc[r] # "done"
      <4>1. m \in Minutes /\ snap[m] # Nothing
        BY <1>t, <1>i, <3>4 DEF Moored
      <4>2. (snap[m] = Merge(m) \/ Touched(m)) /\ Merge(m) # Nothing
        BY <4>1 DEF PageInv, SnapInv, SnapshotExact, Kept, Touched
      <4>3. snap'[m] = Merge(m)
        BY <1>t, <3>1, <3>4, <4>1
      <4>4. Touched(m) <=> Touched(asOf[r])
        BY DEF Touched
      <4> QED BY <1>i, <2>1, <2>2, <4>2, <4>3, <4>4, Unmoved
    <3> QED BY <3>2, <3>3, <3>4
  <2>4. CASE ~ZUnionStore(q)
    <3>1. snap' = snap
      BY <1>5, <2>4 DEF ListByPopularity, Ask, Exists, ExpireSnap, ZRevRange, ReadFails
    <3> QED BY <1>i, <2>1, <2>2, <3>1, Unmoved
  <2> QED BY <2>3, <2>4
<1>6. ASSUME NEW k \in Minutes, SnapEnds(k)
      PROVE  Moored(r)' /\ Shown(r)'
  <2>1. UNCHANGED <<reader, pages, late>> /\ snap' = [snap EXCEPT ![k] = Nothing]
        /\ unmoored' = unmoored \cup {q \in Readers : asOf[q] = k}
    BY <1>6 DEF SnapEnds, World
  <2>2. Touched(asOf[r]) => Touched(asOf[r])'
    BY <2>1 DEF Touched, reader
  <2>3. r \in unmoored' \/ asOf[r] = NoMinute \/ snap'[asOf[r]] = snap[asOf[r]]
    BY <1>t, <2>1
  <2> QED BY <1>i, <2>1, <2>2, <2>3, Unmoved DEF reader, pages
<1>7. CASE Tick \/ UNCHANGED heatVars
  BY <1>1, <1>7 DEF Tick, heatVars
<1> QED BY <1>2, <1>3, <1>4, <1>5, <1>6, <1>7 DEF HeatNext

\* A reader who pages on by as_of and offset sees the ranking of his first page to its
\* end, each video once, whatever other readers make and whatever is counted in the
\* meantime: for any number of videos and readers, any page size and any window.
THEOREM PagesGoOn == HeatSpec => []PagesStable
<1>1. PageInv => PagesStable
  BY DEF PageInv, PagesStable, Shown, Touched, Above
<1> QED BY <1>1, PageInvInit, PageInvStep, PTL DEF HeatSpec
===============================================================================
