------------------------------- MODULE Upload -------------------------------
(***************************************************************************)
(* The life of an uploaded video file: the upload session in Redis, the    *)
(* multipart upload in MinIO that it stands for, the parts the client puts *)
(* there itself, completion and abort, and then the published rows that    *)
(* point to the object and the deletion that takes row and object away.    *)
(*                                                                         *)
(* All files are of one author.  A client acts on what it was told: the id *)
(* of a session by Init, the key of a video by CompleteUpload.             *)
(***************************************************************************)
EXTENDS Integers, Sequences

CONSTANTS
  Uploads,     \* ids of sessions; each is also its multipart upload and object
  FileOf,      \* the file (its hash) that each uploads
  NoUpload,
  TotalParts,
  Requests,    \* requests that run at the same time
  MaxVideos,   \* bound: rows published
  MaxFaults    \* bound: failed calls, requests cut short and crashes

ASSUME UploadAssumption ==
  /\ NoUpload \notin Uploads
  /\ DOMAIN FileOf = Uploads
  /\ TotalParts \in Nat \ {0}
  /\ MaxVideos \in Nat /\ MaxFaults \in Nat

Files == {FileOf[u] : u \in Uploads}
Parts == 1..TotalParts

VARIABLES
  multipart, parts, object,   \* MinIO: state and parts of each upload; the objects
  session, resume,            \* Redis: chunk:session:<id>, chunk:resume:<author>:<hash>
  key, db,                    \* videos table: the object of each row ever made; the rows
  started, told,              \* clients: sessions and video keys they know
  pc, up, vid,                \* requests: the upload or the row each works on
  faults,
  \* observers, read by no action
  adrift,                     \* open uploads whose session was never stored or expired
  stuck,                      \* sessions that outlived their upload
  lost,                       \* completed uploads whose answer was an error or none
  shared,                     \* files that two sessions uploaded at once
  twice                       \* objects published more than once

minio == <<multipart, parts, object>>
redis == <<session, resume>>
table == <<key, db>>
client == <<started, told>>
requests == <<pc, up, vid>>
observers == <<adrift, stuck, lost, shared, twice>>
vars == <<minio, redis, table, client, requests, faults, observers>>

PCs == {"idle", "setresume", "setsession", "list", "assemble", "abort",
        "delsession", "delresume", "delrow", "delobject"}

TypeOK ==
  /\ multipart \in [Uploads -> {"none", "open", "done", "aborted"}]
  /\ parts \in [Uploads -> SUBSET Parts]
  /\ object \in SUBSET Uploads       \* each of them whole
  /\ \A u \in object : multipart[u] = "done" /\ parts[u] = Parts
  /\ session \in SUBSET Uploads
  /\ resume \in [Files -> Uploads \cup {NoUpload}]
  /\ key \in Seq(Uploads) /\ Len(key) <= MaxVideos
  /\ db \in SUBSET DOMAIN key
  /\ started \in SUBSET Uploads /\ told \in SUBSET Uploads
  /\ pc \in [Requests -> PCs]
  /\ up \in [Requests -> Uploads \cup {NoUpload}]
  /\ vid \in [Requests -> 0..MaxVideos]
  /\ faults \in 0..MaxFaults
  /\ adrift \in SUBSET Uploads /\ stuck \in SUBSET Uploads /\ lost \in SUBSET Uploads
  /\ shared \in SUBSET Files /\ twice \in SUBSET Uploads

Init ==
  /\ multipart = [u \in Uploads |-> "none"]
  /\ parts = [u \in Uploads |-> {}]
  /\ object = {} /\ session = {}
  /\ resume = [f \in Files |-> NoUpload]
  /\ key = <<>> /\ db = {}
  /\ started = {} /\ told = {}
  /\ pc = [r \in Requests |-> "idle"]
  /\ up = [r \in Requests |-> NoUpload]
  /\ vid = [r \in Requests |-> 0]
  /\ faults = 0
  /\ adrift = {} /\ stuck = {} /\ lost = {} /\ shared = {} /\ twice = {}

Fault == faults < MaxFaults /\ faults' = faults + 1
Goto(r, label) == pc' = [pc EXCEPT ![r] = label] /\ UNCHANGED <<up, vid>>
Work(r, label, u) == pc' = [pc EXCEPT ![r] = label] /\ up' = [up EXCEPT ![r] = u] /\ UNCHANGED vid
Leave(r) ==
  /\ pc' = [pc EXCEPT ![r] = "idle"]
  /\ up' = [up EXCEPT ![r] = NoUpload]
  /\ vid' = [vid EXCEPT ![r] = 0]

----------------------------------------------------------------------------
(* Init, and the client's puts of the parts through the signed URLs *)

\* Another session of the same file is open, or a request has it in hand.
Overlaps(u) == \E x \in Uploads \ {u} :
  FileOf[x] = FileOf[u] /\ (x \in session \/ \E r \in Requests : up[r] = x)

MultipartInit(r, u) ==
  /\ pc[r] = "idle" /\ multipart[u] = "none"
  /\ multipart' = [multipart EXCEPT ![u] = "open"]
  /\ Work(r, "setresume", u)
  /\ shared' = IF Overlaps(u) THEN shared \cup {FileOf[u]} ELSE shared
  /\ UNCHANGED <<parts, object, redis, table, client, faults, adrift, stuck, lost, twice>>

\* Mutant: a key that is there is kept.
SetResumeOnce(r) ==
  LET f == FileOf[up[r]] IN
  /\ pc[r] = "setresume"
  /\ resume' = IF resume[f] = NoUpload THEN [resume EXCEPT ![f] = up[r]] ELSE resume
  /\ Goto(r, "setsession")
  /\ UNCHANGED <<minio, session, table, client, faults, observers>>

SetResume(r) ==
  /\ pc[r] = "setresume"
  /\ resume' = [resume EXCEPT ![FileOf[up[r]]] = up[r]]
  /\ Goto(r, "setsession")
  /\ UNCHANGED <<minio, session, table, client, faults, observers>>

SetSession(r) ==
  /\ pc[r] = "setsession"
  /\ session' = session \cup {up[r]}
  /\ started' = started \cup {up[r]}
  /\ Leave(r)
  /\ UNCHANGED <<minio, resume, table, told, faults, observers>>

PutPart(u, p) ==
  /\ u \in started /\ multipart[u] = "open"
  /\ parts' = [parts EXCEPT ![u] = @ \cup {p}]
  /\ UNCHANGED <<multipart, object, redis, table, client, requests, faults, observers>>

\* Both keys of a session have the same time to live; MinIO knows nothing of it.
Expire(u) ==
  LET f == FileOf[u] IN
  /\ u \in session
  /\ session' = session \ {u}
  /\ resume' = IF resume[f] = u THEN [resume EXCEPT ![f] = NoUpload] ELSE resume
  /\ adrift' = IF multipart[u] = "open" THEN adrift \cup {u} ELSE adrift
  /\ UNCHANGED <<minio, table, client, requests, faults, stuck, lost, shared, twice>>

----------------------------------------------------------------------------
(* CompleteUpload and AbortUpload *)

\* checkSession: a session that is not there ends the request.
CheckSession(r, u, label) ==
  /\ pc[r] = "idle" /\ u \in started
  /\ u \in session
  /\ Work(r, label, u)
  /\ UNCHANGED <<minio, redis, table, client, faults, observers>>

\* Complete: a part is missing, or the upload is gone, or all parts are listed.
ListParts(r) ==
  /\ pc[r] = "list"
  /\ IF multipart[up[r]] = "open" /\ parts[up[r]] = Parts THEN Goto(r, "assemble") ELSE Leave(r)
  /\ UNCHANGED <<minio, redis, table, client, faults, observers>>

Store(u) ==
  /\ multipart' = [multipart EXCEPT ![u] = "done"]
  /\ object' = object \cup {u}

CompleteMultipart(r) ==
  /\ pc[r] = "assemble"
  /\ IF multipart[up[r]] = "open" THEN Store(up[r]) /\ Goto(r, "delsession")
     ELSE UNCHANGED <<multipart, object>> /\ Leave(r)
  /\ UNCHANGED <<parts, redis, table, client, faults, observers>>

AbortMultipart(r) ==
  /\ pc[r] = "abort"
  /\ IF multipart[up[r]] = "open"
     THEN multipart' = [multipart EXCEPT ![up[r]] = "aborted"] /\ Goto(r, "delsession")
     ELSE UNCHANGED multipart /\ Leave(r)
  /\ UNCHANGED <<parts, object, redis, table, client, faults, observers>>

\* The answer of CompleteUpload is the key, whatever became of the session.
Tell(u) == told' = IF multipart[u] = "done" THEN told \cup {u} ELSE told

\* deleteSession, one key after the other.
DelSession(r) ==
  /\ pc[r] = "delsession"
  /\ session' = session \ {up[r]}
  /\ Goto(r, "delresume")
  /\ UNCHANGED <<minio, resume, table, client, faults, observers>>

DelResume(r) ==
  /\ pc[r] = "delresume"
  /\ resume' = [resume EXCEPT ![FileOf[up[r]]] = NoUpload]
  /\ Tell(up[r])
  /\ Leave(r)
  /\ UNCHANGED <<minio, session, table, started, faults, observers>>

\* Mutant: the error is the answer.
DeleteSessionErrs(r) ==
  /\ pc[r] \in {"delsession", "delresume"}
  /\ Fault
  /\ stuck' = IF pc[r] = "delsession" THEN stuck \cup {up[r]} ELSE stuck
  /\ Leave(r)
  /\ UNCHANGED <<minio, redis, table, client, adrift, lost, shared, twice>>

\* A deletion fails: the second is not tried, and nobody is told.
DeleteSessionFails(r) ==
  /\ pc[r] \in {"delsession", "delresume"}
  /\ Fault
  /\ stuck' = IF pc[r] = "delsession" THEN stuck \cup {up[r]} ELSE stuck
  /\ Tell(up[r])
  /\ Leave(r)
  /\ UNCHANGED <<minio, redis, table, started, adrift, lost, shared, twice>>

----------------------------------------------------------------------------
(* Publish, with a key the client was told, and DeleteVideo *)

Publish(u) ==
  /\ u \in told /\ Len(key) < MaxVideos
  /\ key' = Append(key, u)
  /\ db' = db \cup {Len(key')}
  /\ twice' = IF \E v \in DOMAIN key : key[v] = u THEN twice \cup {u} ELSE twice
  /\ UNCHANGED <<minio, redis, client, requests, faults, adrift, stuck, lost, shared>>

FindVideo(r, v) ==
  /\ pc[r] = "idle" /\ v \in db
  /\ pc' = [pc EXCEPT ![r] = "delrow"] /\ vid' = [vid EXCEPT ![r] = v]
  /\ UNCHANGED <<minio, redis, table, client, up, faults, observers>>

\* Mutant: the object goes first.
DeleteObjectFirst(r) ==
  /\ pc[r] = "delrow"
  /\ object' = object \ {key[vid[r]]}
  /\ Goto(r, "delobject")
  /\ UNCHANGED <<multipart, parts, redis, table, client, faults, observers>>

DeleteRow(r) ==
  /\ pc[r] = "delrow"
  /\ db' = db \ {vid[r]}
  /\ Goto(r, "delobject")
  /\ UNCHANGED <<minio, redis, key, client, faults, observers>>

RemoveObject(r) ==
  /\ pc[r] = "delobject"
  /\ object' = object \ {key[vid[r]]}
  /\ Leave(r)
  /\ UNCHANGED <<multipart, parts, redis, table, client, faults, observers>>

----------------------------------------------------------------------------
(* Failures *)

Starting == {"setresume", "setsession"}
Finishing == {"delsession", "delresume"}

\* What is left behind by requests that end here.
Abandon(S) ==
  /\ adrift' = adrift \cup {up[r] : r \in {x \in S : pc[x] \in Starting}}
  /\ stuck' = stuck \cup {up[r] : r \in {x \in S : pc[x] = "delsession"}}
  /\ lost' = lost \cup {up[r] : r \in {x \in S : pc[x] \in Finishing /\ multipart[up[x]] = "done"}}
  /\ UNCHANGED <<shared, twice>>

\* A call that ends its request fails, or the client hangs up, which cancels
\* every later call.
Ends(r) ==
  /\ pc[r] # "idle"
  /\ Fault
  /\ Abandon({r})
  /\ Leave(r)
  /\ UNCHANGED <<minio, redis, table, client>>

\* MinIO does as asked, and its answer does not arrive in time.
Unanswered(r) ==
  LET u == up[r] IN
  /\ pc[r] \in {"assemble", "abort"} /\ multipart[u] = "open"
  /\ Fault
  /\ IF pc[r] = "assemble" THEN Store(u) /\ lost' = lost \cup {u}
     ELSE multipart' = [multipart EXCEPT ![u] = "aborted"] /\ UNCHANGED <<object, lost>>
  /\ stuck' = stuck \cup {u}
  /\ Leave(r)
  /\ UNCHANGED <<parts, redis, table, client, adrift, shared, twice>>

\* Redis does as asked: a session nobody knows of, until it expires.
SessionUnanswered(r) ==
  /\ pc[r] = "setsession"
  /\ Fault
  /\ session' = session \cup {up[r]}
  /\ Leave(r)
  /\ UNCHANGED <<minio, resume, table, client, observers>>

Crash ==
  /\ Fault
  /\ Abandon(Requests)
  /\ pc' = [r \in Requests |-> "idle"]
  /\ up' = [r \in Requests |-> NoUpload]
  /\ vid' = [r \in Requests |-> 0]
  /\ UNCHANGED <<minio, redis, table, client>>

----------------------------------------------------------------------------
InitUpload(r) == SetResume(r) \/ SetSession(r) \/ \E u \in Uploads : MultipartInit(r, u)
CompleteUpload(r) ==
  \/ \E u \in Uploads : CheckSession(r, u, "list")
  \/ ListParts(r) \/ CompleteMultipart(r)
AbortUpload(r) == AbortMultipart(r) \/ \E u \in Uploads : CheckSession(r, u, "abort")
DeleteSession(r) == DelSession(r) \/ DelResume(r) \/ DeleteSessionFails(r)
DeleteVideo(r) == DeleteRow(r) \/ RemoveObject(r) \/ \E v \in db : FindVideo(r, v)

Next ==
  \/ \E r \in Requests :
       \/ InitUpload(r) \/ CompleteUpload(r) \/ AbortUpload(r) \/ DeleteSession(r)
       \/ DeleteVideo(r) \/ Ends(r) \/ Unanswered(r) \/ SessionUnanswered(r)
  \/ \E u \in Uploads : Expire(u) \/ Publish(u) \/ \E p \in Parts : PutPart(u, p)
  \/ Crash

Spec == Init /\ [][Next]_vars

----------------------------------------------------------------------------
(* Properties *)

At(u, labels) == \E r \in Requests : up[r] = u /\ pc[r] \in labels

\* Redis and MinIO agree on which uploads are open.  An upload without a session
\* is still being started, or was left so by a failed Init or an expired session;
\* a session without an upload is about to be deleted, or was left so by a request
\* that ended before it could.
SessionMatchesUpload ==
  \A u \in Uploads :
    /\ multipart[u] = "open" /\ u \notin session => At(u, Starting) \/ u \in adrift
    /\ u \in session /\ multipart[u] # "open" => At(u, {"delsession"}) \/ u \in stuck

\* Whoever completes an upload is told its key, also when two requests complete
\* or abort it at once, unless the answer was lost: no later request can tell it.
CompletedKeyTold ==
  \A u \in Uploads :
    multipart[u] = "done" => u \in told \/ At(u, Finishing) \/ u \in lost

\* The resume key of a file leads to its session, as chunkSession documents,
\* unless two sessions uploaded the file at once.
ResumeFindsSession ==
  \A u \in session : resume[FileOf[u]] = u \/ FileOf[u] \in shared

\* The three stores agree on the uploads under way.
UploadsTracked == SessionMatchesUpload /\ ResumeFindsSession

\* A published video can be played: its object outlives its row, unless two rows
\* share the object and the deletion of one took it from the other.
PublishedPlayable ==
  \A v \in db : key[v] \in object \/ key[v] \in twice
=============================================================================
