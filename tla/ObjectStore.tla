----------------------------- MODULE ObjectStore -----------------------------
(***************************************************************************)
(* The canonical authority for uploaded objects: tables object_records,    *)
(* upload_intents, the verification rows of jobs and the idempotency       *)
(* records of completion, behind complete_upload_intent and                *)
(* apply_object_verification.  Any number of callers call either with any  *)
(* stale version, so what holds here holds whatever the Workers do.        *)
(*                                                                         *)
(* Both functions ask external_effects_allowed() in a first statement and  *)
(* then lock the rows they work on: PassGate is the first, the rest of a   *)
(* call is one step.                                                       *)
(***************************************************************************)
EXTENDS RestoreFence

CONSTANTS Object,    \* objects; each has one upload intent
          Call,      \* calls of the two functions, in flight at a time
          Key, Hash, \* idempotency keys of an actor and request hashes
          NoRecord   \* no idempotency record

ASSUME StoreAssumption == NoRecord \notin [object : Object, hash : Hash]

VARIABLES
  objects,   \* objects[o]: the row of object_records
  intents,   \* intents[o]: the state of the upload intent that governs o
  lapsed,    \* the intents whose expires_at has passed
  jobs,      \* jobs[o]: the verification job bound to o's object.uploaded event
  records,   \* records[k]: the completed idempotency record of key k
  admitted   \* calls that found the gate open and have not ended

storeVars == <<fences, objects, intents, lapsed, jobs, records, admitted>>

Terminal == {"ready", "rejected", "quarantined"}
ObjectState == {"absent", "pending_upload", "uploaded", "verifying"} \union Terminal
Observation == {"match", "differs"}
ObjectRow == [state : ObjectState, version : Nat, observed : Observation \union {"none"}]
JobRow == [state : {"absent", "queued", "running", "succeeded", "failed"}, version : Nat]
Record == [object : Object, hash : Hash]

StoreTypeOK ==
  /\ FenceTypeOK
  /\ objects \in [Object -> ObjectRow]
  /\ intents \in [Object -> {"absent", "issued", "consumed"}]
  /\ lapsed \subseteq Object
  /\ jobs \in [Object -> JobRow]
  /\ records \in [Key -> Record \union {NoRecord}]
  /\ admitted \subseteq Call

StoreInit ==
  /\ FenceInit
  /\ objects = [o \in Object |-> [state |-> "absent", version |-> 0, observed |-> "none"]]
  /\ intents = [o \in Object |-> "absent"]
  /\ lapsed = {}
  /\ jobs = [o \in Object |-> [state |-> "absent", version |-> 0]]
  /\ records = [k \in Key |-> NoRecord]
  /\ admitted = {}

-----------------------------------------------------------------------------
\* create_upload_intent, when it does not replay.
CreateUploadIntent(o) ==
  /\ objects[o].state = "absent"
  /\ objects' = [objects EXCEPT ![o].state = "pending_upload", ![o].version = 1]
  /\ intents' = [intents EXCEPT ![o] = "issued"]
  /\ UNCHANGED <<fences, lapsed, jobs, records, admitted>>

\* The clock passes expires_at, which is the signed URL's as well: consumed or
\* not, the intent still has a URL until then.
IntentLapses(o) ==
  /\ intents[o] # "absent"
  /\ lapsed' = lapsed \union {o}
  /\ UNCHANGED <<fences, objects, intents, jobs, records, admitted>>

\* Mutant: a call that finds the gate closed goes on.
PassAnyGate(c) ==
  /\ admitted' = admitted \union {c}
  /\ UNCHANGED <<fences, objects, intents, lapsed, jobs, records>>

PassGate(c) ==
  /\ ExternalEffectsAllowed
  /\ admitted' = admitted \union {c}
  /\ UNCHANGED <<fences, objects, intents, lapsed, jobs, records>>

EndCall(c) == c \in admitted /\ admitted' = admitted \ {c}

\* The call raises or finds nothing to change: replays, terminal objects,
\* conflicts, a lost connection.
ChangeNothing(c) ==
  /\ EndCall(c)
  /\ UNCHANGED <<fences, objects, intents, lapsed, jobs, records>>

\* What complete_upload_intent requires of a key without a completed record.
Completable(k, o, version) ==
  /\ records[k] = NoRecord
  /\ intents[o] = "issued" /\ o \notin lapsed
  /\ objects[o].state = "pending_upload" /\ objects[o].version = version

\* complete_upload_intent: object, intent, job, event and record together.
CompleteUploadIntent(c, k, h, o, version, observed) ==
  /\ EndCall(c)
  /\ Completable(k, o, version)
  /\ objects' = [objects EXCEPT ![o] =
       [state |-> "uploaded", version |-> version + 1, observed |-> observed]]
  /\ intents' = [intents EXCEPT ![o] = "consumed"]
  /\ jobs' = [jobs EXCEPT ![o] = [state |-> "queued", version |-> 1]]
  /\ records' = [records EXCEPT ![k] = [object |-> o, hash |-> h]]
  /\ UNCHANGED <<fences, lapsed>>

Startable(o, version) ==
  /\ objects[o].state = "uploaded" /\ objects[o].version = version
  /\ jobs[o].state \in {"queued", "running"}

\* apply_object_verification with p_next_state = 'verifying'.
StartVerification(c, o, version) ==
  /\ EndCall(c)
  /\ Startable(o, version)
  /\ objects' = [objects EXCEPT ![o].state = "verifying", ![o].version = @ + 1]
  /\ jobs' = [jobs EXCEPT ![o] = IF @.state = "queued"
                 THEN [state |-> "running", version |-> @.version + 1] ELSE @]
  /\ UNCHANGED <<fences, intents, lapsed, records>>

\* The object is being verified at the version the caller read.
VerdictDue(o, version) ==
  /\ objects[o].state = "verifying" /\ objects[o].version = version
  /\ jobs[o].state = "running"

\* Mutant: 'ready' without comparing what the provider observed.
ReadyUnseen(o) == objects[o].state # "absent"

\* provider-observed metadata equals the declaration.
ObservedAsDeclared(o) == objects[o].observed = "match"

\* Mutant: a refused object whose job is left running.
CloseReadyJob(o, verdict) ==
  jobs' = IF verdict = "ready"
            THEN [jobs EXCEPT ![o] = [state |-> "succeeded", version |-> @.version + 1]]
            ELSE jobs

CloseJob(o, verdict) ==
  jobs' = [jobs EXCEPT ![o] = [state |-> IF verdict = "ready" THEN "succeeded" ELSE "failed",
                               version |-> @.version + 1]]

\* apply_object_verification with a terminal p_next_state.
FinishVerification(c, o, version, verdict) ==
  /\ EndCall(c)
  /\ VerdictDue(o, version)
  /\ verdict = "ready" => ObservedAsDeclared(o)
  /\ objects' = [objects EXCEPT ![o].state = verdict, ![o].version = @ + 1]
  /\ CloseJob(o, verdict)
  /\ UNCHANGED <<fences, intents, lapsed, records>>

-----------------------------------------------------------------------------
StoreNext ==
  \/ FenceStep /\ UNCHANGED <<objects, intents, lapsed, jobs, records, admitted>>
  \/ \E o \in Object : CreateUploadIntent(o) \/ IntentLapses(o)
  \/ \E c \in Call : PassGate(c) \/ ChangeNothing(c)
  \/ \E c \in Call, o \in Object : \E version \in 1..objects[o].version :
       \/ \E k \in Key, h \in Hash, observed \in Observation :
            CompleteUploadIntent(c, k, h, o, version, observed)
       \/ StartVerification(c, o, version)
       \/ \E verdict \in Terminal : FinishVerification(c, o, version, verdict)

StoreSpec == StoreInit /\ [][StoreNext]_storeVars

-----------------------------------------------------------------------------
\* Verification is invisible until its verdict.
Phase(row) ==
  CASE row.state = "pending_upload" -> "declared"
    [] row.state = "verifying"      -> "uploaded"
    [] OTHER                        -> row.state

ObjectPhase == [o \in Object |-> Phase(objects[o])]
Evidence == [o \in Object |-> objects[o].observed]

Lifecycle == INSTANCE ObjectLifecycle WITH phase <- ObjectPhase, evidence <- Evidence

\* Whatever versions callers race with, an object is uploaded once and gets
\* one verdict, 'ready' only on matching evidence.
ImplementsLifecycle == Lifecycle!LifecycleSpec

\* Object, intent, job and record tell one story: a job runs exactly while its
\* object is being verified, and closes with the object's own verdict.
RowsAgree ==
  \A o \in Object :
    /\ intents[o] = "consumed" <=> jobs[o].state # "absent"
    /\ objects[o].state = "absent" <=> objects[o].version = 0
    /\ objects[o].state \in {"absent", "pending_upload"} <=> jobs[o].state = "absent"
    /\ objects[o].state = "uploaded" <=> jobs[o].state = "queued"
    /\ objects[o].state = "verifying" <=> jobs[o].state = "running"
    /\ objects[o].state = "ready" <=> jobs[o].state = "succeeded"
    /\ objects[o].state \in {"rejected", "quarantined"} <=> jobs[o].state = "failed"

\* A completed record stands for an object that was uploaded, so a replay
\* always has a job and an event to answer with.
RecordsBacked ==
  \A k \in Key : records[k] # NoRecord => intents[records[k].object] = "consumed"

\* The rows of the five tables have their types and tell one story.
StoreInv == StoreTypeOK /\ RowsAgree /\ RecordsBacked

\* However many keys clients use for one upload, one of them completes it: the
\* record of a completion is the only one of its object.
CompletedOnce ==
  \A k, l \in Key :
    records[k] # NoRecord /\ records[l] # NoRecord /\ records[k].object = records[l].object
      => k = l

\* A version of an object names one row: no two writers ever produce the same
\* version, and a verdict is final.
VerdictsFinal ==
  [][\A o \in Object : objects'[o] # objects[o] =>
       /\ objects'[o].version = objects[o].version + 1
       /\ objects[o].state \notin Terminal]_storeVars

\* While a restore reconciles nobody is admitted, and no object is uploaded or
\* judged except by a call admitted before.
FencedObjectsFrozen ==
  [][~ExternalEffectsAllowed =>
       /\ admitted' \subseteq admitted
       /\ admitted' = admitted => UNCHANGED jobs]_storeVars
=============================================================================
