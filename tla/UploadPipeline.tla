--------------------------- MODULE UploadPipeline ---------------------------
(***************************************************************************)
(* Completing and verifying uploads: the requests of completeUpload and    *)
(* the deliveries of verifyUploadedObject around ObjectStore.  Every       *)
(* database call may be answered, lose its answer, or run on after its     *)
(* caller gave up; requests and deliveries of one object overlap.          *)
(*                                                                         *)
(* The request hash binds the intent and the If-Match version, so here it  *)
(* is that version; two requests with one key and one version are retries. *)
(***************************************************************************)
EXTENDS ObjectStore

CONSTANTS Request,    \* completion requests, retries among them
          Verifier,   \* deliveries of object.uploaded messages at a time
          Nobody,     \* null for a caller or an object
          MaxFaults   \* bound: failed dependencies, lost answers, deaths

ASSUME PipelineAssumption ==
  /\ Nobody \notin Object \union Request \union Verifier
  /\ Request \intersect Verifier = {}
  /\ Hash \subseteq Nat
  /\ MaxFaults \in Nat

VARIABLES
  bytes,      \* bytes[o]: what Storage holds under the object's key
  rpc,        \* rpc[c]: the database call c
  request,    \* request[r]: one completeUpload
  verifier,   \* verifier[v]: one verifyUploadedObject
  sent,       \* objects whose object.uploaded message the queue took
  witnessed,  \* history: what verifiers saw of an object while it was being verified
  faults

callers == <<request, verifier, sent, witnessed>>
pipelineVars == <<storeVars, bytes, rpc, callers, faults>>

Reply == {"committed", "replay", "claimed", "applied", "noop", "conflict", "unavailable"}
Rpc == [kind : {"free", "commit", "claim", "finish"}, by : Request \union Verifier \union {Nobody},
        waited : BOOLEAN, object : Object \union {Nobody}, version : Nat,
        arg : Observation \union Terminal \union {"none"}, answer : Reply \union {"none"}]
Stage == {"called", "observing", "committing", "recovering", "dispatching", "answered", "died"}
Answer == {"accepted", "stale", "refused", "conflict", "unavailable", "none"}

PipelineTypeOK ==
  /\ StoreTypeOK
  /\ bytes \in [Object -> Observation \union {"none"}]
  /\ rpc \in [Call -> Rpc]
  /\ request \in [Request -> [at : Stage, object : Object, key : Key, ifMatch : Hash, answer : Answer]]
  /\ verifier \in [Verifier -> [at : {"idle", "claiming", "observing", "finishing"},
                                object : Object \union {Nobody}, version : Nat]]
  /\ sent \subseteq Object
  /\ witnessed \in [Object -> SUBSET (Observation \union {"none"})]
  /\ faults \in 0..MaxFaults

FreeRpc == [kind |-> "free", by |-> Nobody, waited |-> FALSE, object |-> Nobody,
            version |-> 0, arg |-> "none", answer |-> "none"]
Idle == [at |-> "idle", object |-> Nobody, version |-> 0]

PipelineInit ==
  /\ StoreInit
  /\ bytes = [o \in Object |-> "none"]
  /\ rpc = [c \in Call |-> FreeRpc]
  /\ request \in [Request -> [at : {"called"}, object : Object, key : Key,
                              ifMatch : Hash, answer : {"none"}]]
  /\ verifier = [v \in Verifier |-> Idle]
  /\ sent = {}
  /\ witnessed = [o \in Object |-> {}]
  /\ faults = 0

Fault == faults < MaxFaults /\ faults' = faults + 1

\* The client writes through its signed URL (SignedUpload: method PUT, no condition
\* but expiresAt): until then a put replaces what is there, whoever has observed
\* it and whatever the store made of that.
PutBytes(o) ==
  /\ intents[o] # "absent" /\ o \notin lapsed
  /\ \E observable \in Observation : bytes' = [bytes EXCEPT ![o] = observable]
  /\ UNCHANGED <<storeVars, rpc, callers, faults>>

-----------------------------------------------------------------------------
\* Database calls.  A caller that gives up leaves its call running.

Send(c, kind, by, object, version, arg) ==
  /\ rpc[c].kind = "free"
  /\ rpc' = [rpc EXCEPT ![c] = [kind |-> kind, by |-> by, waited |-> TRUE, object |-> object,
                                version |-> version, arg |-> arg, answer |-> "none"]]

Running(c) == rpc[c].kind # "free" /\ rpc[c].answer = "none"
Return(c, answer) ==
  rpc' = [rpc EXCEPT ![c] = IF @.waited THEN [@ EXCEPT !.answer = answer] ELSE FreeRpc]

Awaits(p, c) == rpc[c].by = p /\ rpc[c].waited
Answered(p, c) == Awaits(p, c) /\ rpc[c].answer # "none"
TakeAnswer(c) == rpc' = [rpc EXCEPT ![c] = FreeRpc]
Abandon(c) == rpc' = [rpc EXCEPT ![c] = IF Running(c) THEN [@ EXCEPT !.waited = FALSE] ELSE FreeRpc]

\* Mutant: a call that finds the gate closed goes on.
RpcSkipsGate(c) ==
  /\ Running(c) /\ c \notin admitted
  /\ admitted' = admitted \union {c}
  /\ UNCHANGED <<fences, objects, intents, lapsed, jobs, records, bytes, rpc, callers, faults>>

RpcPassesGate(c) ==
  /\ Running(c) /\ c \notin admitted
  /\ PassGate(c)
  /\ UNCHANGED <<bytes, rpc, callers, faults>>

\* 'restore reconciliation fence is active', or a transaction rolled back.
RpcFenced(c) ==
  /\ Running(c) /\ c \notin admitted
  /\ ~ExternalEffectsAllowed
  /\ Return(c, "unavailable")
  /\ UNCHANGED <<storeVars, bytes, callers, faults>>

RpcFails(c) ==
  /\ Running(c) /\ Fault
  /\ ChangeNothing(c)
  /\ Return(c, "unavailable")
  /\ UNCHANGED <<bytes, callers>>

\* Mutant: a completed record is replayed without comparing request hashes.
CommitReplaysAny(c) ==
  /\ Running(c) /\ rpc[c].kind = "commit"
  /\ LET o == rpc[c].object
         v == rpc[c].version
         k == request[rpc[c].by].key
     IN  \/ CompleteUploadIntent(c, k, v, o, v, rpc[c].arg) /\ Return(c, "committed")
         \/ records[k] # NoRecord /\ ChangeNothing(c) /\ Return(c, "replay")
         \/ records[k] = NoRecord /\ ~Completable(k, o, v) /\ ChangeNothing(c) /\ Return(c, "conflict")
  /\ UNCHANGED <<bytes, callers, faults>>

\* complete_upload_intent: a completed record of this request is replayed, one
\* of another request, or rows that moved on, raise.
CommitRuns(c) ==
  /\ Running(c) /\ rpc[c].kind = "commit"
  /\ LET o == rpc[c].object
         v == rpc[c].version
         k == request[rpc[c].by].key
         mine == [object |-> o, hash |-> v]
     IN  \/ CompleteUploadIntent(c, k, v, o, v, rpc[c].arg) /\ Return(c, "committed")
         \/ records[k] = mine /\ ChangeNothing(c) /\ Return(c, "replay")
         \/ records[k] # mine /\ ~Completable(k, o, v) /\ ChangeNothing(c) /\ Return(c, "conflict")
  /\ UNCHANGED <<bytes, callers, faults>>

\* apply_object_verification: a terminal object is a no-op for any version.
ClaimRuns(c) ==
  /\ Running(c) /\ rpc[c].kind = "claim"
  /\ LET o == rpc[c].object
         v == rpc[c].version
     IN  \/ StartVerification(c, o, v) /\ Return(c, "claimed")
         \/ ~Startable(o, v) /\ ChangeNothing(c) /\ Return(c, "conflict")
  /\ UNCHANGED <<bytes, callers, faults>>

FinishRuns(c) ==
  /\ Running(c) /\ rpc[c].kind = "finish"
  /\ LET o == rpc[c].object
         v == rpc[c].version
     IN  \/ FinishVerification(c, o, v, rpc[c].arg) /\ Return(c, "applied")
         \/ objects[o].state \in Terminal /\ ChangeNothing(c) /\ Return(c, "noop")
         \/ /\ objects[o].state \notin Terminal
            /\ VerdictDue(o, v) => rpc[c].arg = "ready" /\ ~ObservedAsDeclared(o)
            /\ ChangeNothing(c) /\ Return(c, "conflict")
  /\ UNCHANGED <<bytes, callers, faults>>

RpcStep(c) == RpcPassesGate(c) \/ RpcFenced(c) \/ CommitRuns(c) \/ ClaimRuns(c) \/ FinishRuns(c)

-----------------------------------------------------------------------------
\* completeUpload.
At(r, stage) == request[r].at = stage
Goto(r, stage) == request' = [request EXCEPT ![r].at = stage]
Respond(r, answer) == request' = [request EXCEPT ![r].at = "answered", ![r].answer = answer]

\* readIntent, and the checks on what it returned: a missing intent, one that
\* is issued and expired, and an If-Match that is not the object's version.
ReadIntent(r) ==
  LET o == request[r].object
      expired == intents[o] = "issued" /\ o \in lapsed
      current == request[r].ifMatch = objects[o].version
  IN /\ At(r, "called")
     /\ \/ (intents[o] = "absent" \/ expired) /\ Respond(r, "refused")
        \/ intents[o] # "absent" /\ ~expired /\ ~current /\ Respond(r, "stale")
        \/ intents[o] # "absent" /\ ~expired /\ current /\ Goto(r, "observing")
     /\ UNCHANGED <<storeVars, bytes, rpc, verifier, sent, witnessed, faults>>

\* storage.observe, then commitCompletion is called with what it saw.
ObserveUpload(r) ==
  /\ At(r, "observing")
  /\ LET o == request[r].object
     IN  \/ bytes[o] = "none" /\ Respond(r, "refused") /\ UNCHANGED rpc
         \/ /\ bytes[o] # "none" /\ Goto(r, "committing")
            /\ \E c \in Call : Send(c, "commit", r, o, request[r].ifMatch, bytes[o])
  /\ UNCHANGED <<storeVars, bytes, verifier, sent, witnessed, faults>>

\* Mutant: a commit whose answer is lost is reported without being fenced.
TakeCommitUnfenced(r, c) ==
  /\ At(r, "committing") /\ Awaits(r, c)
  /\ \/ /\ rpc[c].answer = "committed" /\ Goto(r, "dispatching")
        /\ TakeAnswer(c) /\ UNCHANGED faults
     \/ Respond(r, "unavailable") /\ Abandon(c) /\ Fault
  /\ UNCHANGED <<storeVars, bytes, verifier, sent, witnessed>>

\* The commit's answer; one that is lost, aborted or malformed is ambiguous.
TakeCommit(r, c) ==
  /\ At(r, "committing") /\ Awaits(r, c)
  /\ \/ /\ \/ rpc[c].answer = "committed" /\ Goto(r, "dispatching")
           \/ rpc[c].answer = "replay" /\ Respond(r, "accepted")
           \/ rpc[c].answer = "conflict" /\ Respond(r, "conflict")
           \/ rpc[c].answer = "unavailable" /\ Respond(r, "unavailable")
        /\ TakeAnswer(c) /\ UNCHANGED faults
     \/ Goto(r, "recovering") /\ UNCHANGED rpc /\ Fault
  /\ UNCHANGED <<storeVars, bytes, verifier, sent, witnessed>>

\* cancelCompletion resolves: by its contract the commit is decided by now,
\* visible or unable to commit.  It gets one second; after that nothing is known.
Recover(r, c) ==
  /\ At(r, "recovering") /\ Awaits(r, c)
  /\ Respond(r, "unavailable")
  /\ TakeAnswer(c)
  /\ admitted' = admitted \ {c}
  /\ UNCHANGED <<fences, objects, intents, lapsed, jobs, records, bytes, verifier, sent, witnessed, faults>>

RecoverTimesOut(r, c) ==
  /\ At(r, "recovering") /\ Awaits(r, c)
  /\ Fault
  /\ Respond(r, "unavailable")
  /\ Abandon(c)
  /\ UNCHANGED <<storeVars, bytes, verifier, sent, witnessed>>

\* queue.enqueue, best effort: 'sent' or 'deferred', accepted either way.
Dispatch(r) ==
  /\ At(r, "dispatching")
  /\ Respond(r, "accepted")
  /\ \/ sent' = sent \union {request[r].object} /\ UNCHANGED faults
     \/ Fault /\ UNCHANGED sent
  /\ UNCHANGED <<storeVars, bytes, rpc, verifier, witnessed>>

\* A dependency throws before the commit is sent.
RequestFails(r) ==
  /\ request[r].at \in {"called", "observing"}
  /\ Fault
  /\ Respond(r, "unavailable")
  /\ UNCHANGED <<storeVars, bytes, rpc, verifier, sent, witnessed>>

\* The isolate dies; its call runs on.
RequestDies(r) ==
  /\ request[r].at \in {"committing", "recovering", "dispatching"}
  /\ Fault
  /\ Goto(r, "died")
  /\ \/ \E c \in Call : Awaits(r, c) /\ Abandon(c)
     \/ (\A c \in Call : ~Awaits(r, c)) /\ UNCHANGED rpc
  /\ UNCHANGED <<storeVars, bytes, verifier, sent, witnessed>>

RequestStep(r) ==
  \/ ReadIntent(r) \/ ObserveUpload(r) \/ Dispatch(r)
  \/ \E c \in Call : TakeCommit(r, c) \/ Recover(r, c)

-----------------------------------------------------------------------------
\* verifyUploadedObject.  A message that was sent may be delivered at any time,
\* again and again, or never: nothing in the program schedules its delivery.
VerifierIs(v, at) == verifier[v].at = at
SetVerifier(v, at, o, version) ==
  verifier' = [verifier EXCEPT ![v] = [at |-> at, object |-> o, version |-> version]]

\* readVerificationTarget: an uploaded object is claimed at its version; one
\* that is being verified is taken up at its version without a claim.
Deliver(v, o) ==
  /\ VerifierIs(v, "idle") /\ o \in sent
  /\ \/ /\ objects[o].state = "uploaded"
        /\ SetVerifier(v, "claiming", o, objects[o].version)
        /\ \E c \in Call : Send(c, "claim", v, o, objects[o].version, "none")
     \/ /\ objects[o].state = "verifying"
        /\ SetVerifier(v, "observing", o, objects[o].version)
        /\ UNCHANGED rpc
  /\ UNCHANGED <<storeVars, bytes, request, sent, witnessed, faults>>

\* Mutant: the verifier goes on whatever its claim answered.
TakeClaimAnyway(v, c) ==
  /\ VerifierIs(v, "claiming") /\ Answered(v, c)
  /\ SetVerifier(v, "observing", verifier[v].object, verifier[v].version + 1)
  /\ TakeAnswer(c)
  /\ UNCHANGED <<storeVars, bytes, request, sent, witnessed, faults>>

TakeClaim(v, c) ==
  /\ VerifierIs(v, "claiming") /\ Answered(v, c)
  /\ IF rpc[c].answer = "claimed"
       THEN SetVerifier(v, "observing", verifier[v].object, verifier[v].version + 1)
       ELSE verifier' = [verifier EXCEPT ![v] = Idle]
  /\ TakeAnswer(c)
  /\ UNCHANGED <<storeVars, bytes, request, sent, witnessed, faults>>

\* metadataMatches, then the policy: it may refuse what matches.
VerdictsOn(observed) == IF observed = "match" THEN Terminal ELSE {"quarantined"}

\* storage.observe and policy.verify, then finishVerification is called.
ObserveObject(v) ==
  /\ VerifierIs(v, "observing")
  /\ LET o == verifier[v].object
     IN /\ \E verdict \in VerdictsOn(bytes[o]), c \in Call :
             Send(c, "finish", v, o, verifier[v].version, verdict)
        /\ witnessed' = IF objects[o].state = "verifying"
                          THEN [witnessed EXCEPT ![o] = @ \union {bytes[o]}] ELSE witnessed
  /\ SetVerifier(v, "finishing", verifier[v].object, verifier[v].version)
  /\ UNCHANGED <<storeVars, bytes, request, sent, faults>>

TakeFinish(v, c) ==
  /\ VerifierIs(v, "finishing") /\ Answered(v, c)
  /\ verifier' = [verifier EXCEPT ![v] = Idle]
  /\ TakeAnswer(c)
  /\ UNCHANGED <<storeVars, bytes, request, sent, witnessed, faults>>

\* A dependency throws, an answer is lost, the isolate dies: retry.
VerifierInterrupted(v) ==
  /\ ~VerifierIs(v, "idle")
  /\ Fault
  /\ verifier' = [verifier EXCEPT ![v] = Idle]
  /\ \/ \E c \in Call : Awaits(v, c) /\ Abandon(c)
     \/ (\A c \in Call : ~Awaits(v, c)) /\ UNCHANGED rpc
  /\ UNCHANGED <<storeVars, bytes, request, sent, witnessed>>

VerifierStep(v) ==
  \/ \E o \in Object : Deliver(v, o)
  \/ ObserveObject(v)
  \/ \E c \in Call : TakeClaim(v, c) \/ TakeFinish(v, c)

-----------------------------------------------------------------------------
PipelineNext ==
  \/ /\ \/ FenceStep /\ UNCHANGED <<objects, intents, lapsed, jobs, records, admitted>>
        \/ \E o \in Object : CreateUploadIntent(o) \/ IntentLapses(o)
     /\ UNCHANGED <<bytes, rpc, callers, faults>>
  \/ \E o \in Object : PutBytes(o)
  \/ \E c \in Call : RpcStep(c) \/ RpcFails(c)
  \/ \E r \in Request :
       \/ RequestStep(r) \/ RequestFails(r) \/ RequestDies(r)
       \/ \E c \in Call : RecoverTimesOut(r, c)
  \/ \E v \in Verifier : VerifierStep(v) \/ VerifierInterrupted(v)

PipelineSpec == PipelineInit /\ [][PipelineNext]_pipelineVars

-----------------------------------------------------------------------------
\* The Workers are clients of the store like any other.
ImplementsStore == StoreSpec

\* An accepted completion, first or replayed, has uploaded its object: a job
\* exists, and every retry of its key finds the record of this very request.
AcceptedIsRecorded ==
  \A r \in Request : At(r, "answered") /\ request[r].answer = "accepted" =>
    /\ jobs[request[r].object].state # "absent"
    /\ records[request[r].key] = [object |-> request[r].object, hash |-> request[r].ifMatch]

\* A request that answers while its commit may still run has tried to fence
\* it: a commit left running was left by a recovery that failed, or by a
\* death, and each of those is a fault of its own.
AmbiguousIsRecovered ==
  \A r \in Request, c \in Call :
    rpc[c].by = r /\ rpc[c].kind = "commit" /\ ~rpc[c].waited =>
      faults >= IF request[r].at = "died" THEN 1 ELSE 2

\* No message announces an upload that is not committed, and no verifier works
\* on an object before its upload is.
SentAfterCommit ==
  /\ \A o \in sent : jobs[o].state # "absent"
  /\ \A v \in Verifier : verifier[v].at # "idle" => verifier[v].object \in sent

\* Storage may change under everybody's eyes, but no verdict is a guess: it
\* rests on an observation made after the upload was committed, while the object
\* was being verified, and 'ready' on a second one, the completion's.
Backed(o, verdict) ==
  /\ witnessed[o] # {}
  /\ verdict \in {"ready", "rejected"} => "match" \in witnessed[o]

VerdictsWitnessed ==
  \A o \in Object :
    /\ objects[o].state \in Terminal => Backed(o, objects[o].state)
    /\ objects[o].state = "ready" => ObservedAsDeclared(o)

\* A verifier never works on a version from the future, and of those working
\* on the present version the object is theirs: it is being verified.
VerifiersCurrent ==
  \A v \in Verifier : verifier[v].at \in {"observing", "finishing"} =>
    LET row == objects[verifier[v].object]
    IN  /\ verifier[v].version <= row.version
        /\ verifier[v].version = row.version => row.state = "verifying"

\* The locals of all handlers and calls have their types and are not ahead of
\* the rows.
PipelineInv == PipelineTypeOK /\ VerifiersCurrent
=============================================================================
