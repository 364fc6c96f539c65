--------------------------- MODULE UploadAdmission ---------------------------
(***************************************************************************)
(* Admitting a direct upload: createUploadIntent reads the idempotency     *)
(* record, signs a URL for an object of its own, commits object and intent *)
(* in one transaction (create_upload_intent), and revokes the URL when it  *)
(* is not going to hand it out.  The signature is issued before the        *)
(* commit, and the commit may run on after its caller gave up.             *)
(*                                                                         *)
(* The thirty days of a record are not over here: JobAcceptance models the *)
(* expiry of records, with the same two statements.                        *)
(***************************************************************************)
EXTENDS Integers

CONSTANTS Request,  \* invocations; each makes an intent and an object id of its own
          Key,      \* (actor, idempotency key)
          Hash,     \* request hashes
          NoIntent  \* SQL null

ASSUME AdmissionAssumption == NoIntent \notin Request

VARIABLES
  request,  \* request[r]: the invocation
  urls,     \* urls[r]: the signed URL of r's object, as the signer knows it
  records,  \* records[k]: the intent the completed record of key k names
  intents,  \* committed upload intents, each with its object
  commits   \* commits[r]: the commit call of r

vars == <<request, urls, records, intents, commits>>

Error == {"conflict", "unavailable"}
Answer == {"created", "replayed"} \union Error
Stage == {"called", "signing", "committing", "compensating", "answered", "died"}
IntentRef == Request \union {NoIntent}
Reply == {"committed", "replay"} \union Error

TypeOK ==
  /\ request \in [Request -> [at : Stage, key : Key, hash : Hash, intent : IntentRef,
                              answer : Answer \union {"none"}]]
  /\ urls \in [Request -> {"unsigned", "live", "revoked"}]
  /\ records \in [Key -> IntentRef]
  /\ intents \subseteq Request
  /\ commits \in [Request -> {"none", "running"} \union Reply]

Init ==
  /\ request \in [Request -> [at : {"called"}, key : Key, hash : Hash,
                              intent : {NoIntent}, answer : {"none"}]]
  /\ urls = [r \in Request |-> "unsigned"]
  /\ records = [k \in Key |-> NoIntent]
  /\ intents = {}
  /\ commits = [r \in Request |-> "none"]

At(r, stage) == request[r].at = stage
RecordOf(r) == records[request[r].key]
Goto(r, stage) == request' = [request EXCEPT ![r].at = stage]
Respond(r, answer, intent) ==
  request' = [request EXCEPT ![r].at = "answered", ![r].answer = answer,
                             ![r].intent = intent]
\* The URL is to be revoked; what the client hears if that succeeds is fixed.
Compensate(r, answer, intent) ==
  request' = [request EXCEPT ![r].at = "compensating", ![r].answer = answer,
                             ![r].intent = intent]

SameRequest(r, i) == request[i].hash = request[r].hash

-----------------------------------------------------------------------------
\* readIdempotency and mapExisting: another request's record is a conflict,
\* one with a valid resource is replayed, one without a resource goes on.
ReadIdempotency(r) ==
  /\ At(r, "called")
  /\ \/ RecordOf(r) = NoIntent /\ Goto(r, "signing")
     \/ /\ RecordOf(r) # NoIntent
        /\ \/ ~SameRequest(r, RecordOf(r)) /\ Respond(r, "conflict", NoIntent)
           \/ /\ SameRequest(r, RecordOf(r))
              /\ Respond(r, "replayed", RecordOf(r)) \/ Goto(r, "signing")
     \/ Respond(r, "unavailable", NoIntent)
  /\ UNCHANGED <<urls, records, intents, commits>>

\* signer.sign returns a URL for this object, and the commit is sent.
Sign(r) ==
  /\ At(r, "signing")
  /\ Goto(r, "committing")
  /\ urls' = [urls EXCEPT ![r] = "live"]
  /\ commits' = [commits EXCEPT ![r] = "running"]
  /\ UNCHANGED <<records, intents>>

\* ... or one that does not bind the object, which is revoked at once.
SignUnbound(r) ==
  /\ At(r, "signing")
  /\ Compensate(r, "unavailable", NoIntent)
  /\ urls' = [urls EXCEPT ![r] = "live"]
  /\ UNCHANGED <<records, intents, commits>>

\* ... or throws, which a lost answer of the signer does as well.
SignThrows(r) ==
  /\ At(r, "signing")
  /\ Respond(r, "unavailable", NoIntent)
  /\ \E url \in {"unsigned", "live"} : urls' = [urls EXCEPT ![r] = url]
  /\ UNCHANGED <<records, intents, commits>>

\* Mutant: the transaction trusts the read that preceded the signature.
CommitUnchecked(r) ==
  /\ commits[r] = "running"
  /\ records' = [records EXCEPT ![request[r].key] = r]
  /\ intents' = intents \union {r}
  /\ commits' = [commits EXCEPT ![r] = "committed"]
  /\ UNCHANGED <<request, urls>>

\* create_upload_intent: record, object and intent in one transaction; a
\* completed record of the same request is replayed, of another it raises.
CommitUploadIntent(r) ==
  /\ commits[r] = "running"
  /\ IF RecordOf(r) = NoIntent
       THEN /\ records' = [records EXCEPT ![request[r].key] = r]
            /\ intents' = intents \union {r}
            /\ commits' = [commits EXCEPT ![r] = "committed"]
       ELSE /\ commits' = [commits EXCEPT ![r] =
                  IF SameRequest(r, RecordOf(r)) THEN "replay" ELSE "conflict"]
            /\ UNCHANGED <<records, intents>>
  /\ UNCHANGED <<request, urls>>

\* The transaction is rolled back: a stale target version, a failure.
CommitRaises(r) ==
  /\ commits[r] = "running"
  /\ \E e \in Error : commits' = [commits EXCEPT ![r] = e]
  /\ UNCHANGED <<request, urls, records, intents>>

\* Mutants: a lost race answered without revoking the URL just signed, and the
\* URL of a replaying call handed out instead of revoked.
ConflictKeepsUrl(r) ==
  /\ At(r, "committing")
  /\ \/ commits[r] = "committed" /\ Respond(r, "created", r)
     \/ commits[r] = "replay" /\ Compensate(r, "replayed", RecordOf(r))
     \/ commits[r] = "conflict" /\ Respond(r, "conflict", NoIntent)
  /\ UNCHANGED <<urls, records, intents, commits>>

ReplayAsCreated(r) ==
  /\ At(r, "committing")
  /\ commits[r] \in {"committed", "replay"}
  /\ Respond(r, "created", r)
  /\ UNCHANGED <<urls, records, intents, commits>>

\* The commit's answer: created, or the URL is revoked first.
TakeReply(r) ==
  /\ At(r, "committing")
  /\ \/ commits[r] = "committed" /\ Respond(r, "created", r)
     \/ commits[r] = "replay" /\ Compensate(r, "replayed", RecordOf(r))
     \/ commits[r] = "conflict" /\ Compensate(r, "conflict", NoIntent)
     \/ commits[r] \in Reply /\ Compensate(r, "unavailable", NoIntent)
  /\ UNCHANGED <<urls, records, intents, commits>>

\* Mutant: a commit that throws is reported with failedCommit's default code.
CommitThrowsConflict(r) ==
  /\ At(r, "committing")
  /\ commits[r] = "running"
  /\ Compensate(r, "conflict", NoIntent)
  /\ UNCHANGED <<urls, records, intents, commits>>

\* commitUploadIntent throws while its transaction is still under way.
CommitThrows(r) ==
  /\ At(r, "committing")
  /\ commits[r] = "running"
  /\ Compensate(r, "unavailable", NoIntent)
  /\ UNCHANGED <<urls, records, intents, commits>>

\* compensate: signer.revoke, once.
Revoke(r) ==
  /\ At(r, "compensating")
  /\ Goto(r, "answered")
  /\ urls' = [urls EXCEPT ![r] = "revoked"]
  /\ UNCHANGED <<records, intents, commits>>

RevokeThrows(r) ==
  /\ At(r, "compensating")
  /\ Respond(r, "unavailable", NoIntent)
  /\ \E url \in {"live", "revoked"} : urls' = [urls EXCEPT ![r] = url]
  /\ UNCHANGED <<records, intents, commits>>

\* The isolate is killed, or the client goes away before the answer.
Die(r) ==
  /\ request[r].at \notin {"called", "answered", "died"}
  /\ request' = [request EXCEPT ![r].at = "died", ![r].answer = "none",
                                ![r].intent = NoIntent]
  /\ UNCHANGED <<urls, records, intents, commits>>

Next ==
  \E r \in Request :
    \/ ReadIdempotency(r)
    \/ Sign(r) \/ SignUnbound(r) \/ SignThrows(r)
    \/ CommitUploadIntent(r) \/ CommitRaises(r)
    \/ TakeReply(r) \/ CommitThrows(r)
    \/ Revoke(r) \/ RevokeThrows(r)
    \/ Die(r)

Spec == Init /\ [][Next]_vars

-----------------------------------------------------------------------------
Answered(r, answer) == At(r, "answered") /\ request[r].answer = answer

\* A client that is told 'created' holds a URL that works, for an intent that
\* is committed and that every later retry of the key will name.
CreatedIsBacked ==
  \A r \in Request : Answered(r, "created") =>
    /\ r \in intents
    /\ RecordOf(r) = r
    /\ urls[r] = "live"

\* A URL outlives an answered request only if the request was created, or was
\* answered 503 because the signer's answer or its revocation was lost: one
\* that loses the race for its key never leaves a second way to upload.
NoStrayUrl ==
  \A r \in Request : urls[r] = "live" /\ At(r, "answered") =>
    request[r].answer \in {"created", "unavailable"}

\* A committed intent whose URL was revoked, so that nobody can upload to it, is
\* one whose request was answered 503: a commit that may still go through after
\* its caller gave up is never reported as a conflict or as a replay.
RevokedIntentIsReported ==
  \A r \in intents : urls[r] = "revoked" => Answered(r, "unavailable")

\* However the retries of a key overlap, one of them creates an intent.
OneIntentPerKey ==
  \A r, s \in intents : request[r].key = request[s].key => r = s

\* A replay names the committed intent of the same key and the same request.
ReplayNamesOwnRequest ==
  \A r \in Request : Answered(r, "replayed") =>
    /\ request[r].intent \in intents
    /\ request[request[r].intent].key = request[r].key
    /\ SameRequest(r, request[r].intent)

\* A committed intent is the one the record of its key names.
RecordsAgree ==
  /\ \A r \in intents : RecordOf(r) = r
  /\ \A k \in Key : records[k] # NoIntent =>
       records[k] \in intents /\ request[records[k]].key = k

\* How far a request has come, what became of its URL and what became of its
\* commit agree.
RequestOK(r) ==
  /\ request[r].at \in {"called", "signing"} => urls[r] = "unsigned" /\ commits[r] = "none"
  /\ At(r, "committing") => urls[r] = "live"
  /\ commits[r] = "committed" <=> r \in intents
  /\ commits[r] = "replay" => RecordOf(r) # NoIntent /\ SameRequest(r, RecordOf(r))
  /\ At(r, "compensating") => request[r].answer \in {"replayed"} \union Error
  /\ request[r].answer = "created" => commits[r] = "committed" /\ urls[r] = "live"
  /\ At(r, "answered") /\ urls[r] = "live" => request[r].answer \in {"created", "unavailable"}
  /\ request[r].answer = "replayed" =>
       RecordOf(r) # NoIntent /\ request[r].intent = RecordOf(r) /\ SameRequest(r, RecordOf(r))

\* At every await of every request, URL, commit, intent and record tell one
\* story (and have their types), one intent per key.
AdmissionInv == TypeOK /\ RecordsAgree /\ OneIntentPerKey /\ \A r \in Request : RequestOK(r)
=============================================================================
