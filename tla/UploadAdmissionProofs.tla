------------------------ MODULE UploadAdmissionProofs ------------------------
(***************************************************************************)
(* Theorems about UploadAdmission: for any number of overlapping requests, *)
(* keys and lost answers, one intent per key, no 'created' without its     *)
(* intent and its URL, and no URL left by a request that lost its race.    *)
(*                                                                         *)
(* The argument: the record of a key is written once, so what a request    *)
(* learnt of it stays true while it signs, commits and compensates.        *)
(***************************************************************************)
EXTENDS UploadAdmission, TLAPS

RequestRow == [at : Stage, key : Key, hash : Hash, intent : IntentRef, answer : Answer \union {"none"}]
Commit == {"none", "running"} \union Reply
Url == {"unsigned", "live", "revoked"}

LEMMA Types ==
  TypeOK <=> /\ request \in [Request -> RequestRow]
             /\ urls \in [Request -> Url]
             /\ records \in [Key -> IntentRef]
             /\ intents \subseteq Request
             /\ commits \in [Request -> Commit]
  BY DEF TypeOK, RequestRow, Commit, Url

LEMMA InitInv == Init => AdmissionInv
  <1> SUFFICES ASSUME Init PROVE AdmissionInv
    OBVIOUS
  <1>0. /\ request \in [Request -> [at : {"called"}, key : Key, hash : Hash,
                                    intent : {NoIntent}, answer : {"none"}]]
        /\ urls = [r \in Request |-> "unsigned"] /\ records = [k \in Key |-> NoIntent]
        /\ intents = {} /\ commits = [r \in Request |-> "none"]
    BY DEF Init
  <1>1. TypeOK
    BY <1>0 DEF TypeOK, Stage, IntentRef, Answer, Reply
  <1>2. RecordsAgree /\ OneIntentPerKey
    BY <1>0 DEF RecordsAgree, OneIntentPerKey
  <1>3. \A r \in Request : RequestOK(r)
    BY <1>0 DEF RequestOK, At
  <1> QED
    BY <1>1, <1>2, <1>3 DEF AdmissionInv

\* RequestOK of r, once its row is x, its URL is url and its commit is commit.
OwnOK(r, x, url, commit) ==
  /\ x.at \in {"called", "signing"} => url = "unsigned" /\ commit = "none"
  /\ x.at = "committing" => url = "live"
  /\ commit = "committed" <=> r \in intents
  /\ commit = "replay" => RecordOf(r) # NoIntent /\ SameRequest(r, RecordOf(r))
  /\ x.at = "compensating" => x.answer \in {"replayed"} \union Error
  /\ x.answer = "created" => commit = "committed" /\ url = "live"
  /\ x.at = "answered" /\ url = "live" => x.answer \in {"created", "unavailable"}
  /\ x.answer = "replayed" =>
       RecordOf(r) # NoIntent /\ x.intent = RecordOf(r) /\ SameRequest(r, RecordOf(r))

\* A step of one request that leaves records and intents alone: it keeps its
\* key and hash, and the rest follows from its own row.
LEMMA OneRequest ==
  ASSUME AdmissionInv, NEW r \in Request, NEW x \in RequestRow, NEW url \in Url, NEW commit \in Commit,
         request' = [request EXCEPT ![r] = x], x.key = request[r].key, x.hash = request[r].hash,
         urls' = [urls EXCEPT ![r] = url], commits' = [commits EXCEPT ![r] = commit],
         UNCHANGED <<records, intents>>,
         OwnOK(r, x, url, commit)
  PROVE  AdmissionInv'
  <1>0. /\ request \in [Request -> RequestRow] /\ urls \in [Request -> Url]
        /\ commits \in [Request -> Commit] /\ records \in [Key -> IntentRef]
        /\ intents \subseteq Request
    BY Types DEF AdmissionInv
  <1>1. TypeOK'
    BY <1>0 DEF TypeOK, RequestRow, Commit, Url
  <1>2. /\ \A s \in Request : request'[s].key = request[s].key /\ request'[s].hash = request[s].hash
        /\ \A s \in Request : s # r => /\ request'[s] = request[s] /\ urls'[s] = urls[s]
                                       /\ commits'[s] = commits[s]
    BY <1>0
  <1>3. RecordsAgree' /\ OneIntentPerKey'
    BY <1>0, <1>2 DEF AdmissionInv, RecordsAgree, OneIntentPerKey, RecordOf
  <1>5. RequestOK(r)'
    <2>1. request[r].key \in Key /\ RecordOf(r)' = RecordOf(r) /\ RecordOf(r) \in IntentRef
      BY <1>0, <1>2 DEF RecordOf, RequestRow
    <2>2. RecordOf(r) # NoIntent => (SameRequest(r, RecordOf(r))' <=> SameRequest(r, RecordOf(r)))
      BY <1>2, <2>1 DEF SameRequest, IntentRef
    <2>3. request'[r] = x /\ urls'[r] = url /\ commits'[r] = commit
      BY <1>0
    <2> QED
      BY <2>1, <2>2, <2>3 DEF RequestOK, OwnOK, At
  <1>4. ASSUME NEW s \in Request, s # r PROVE RequestOK(s)'
    <2>1. RequestOK(s) /\ request[s].key \in Key
      BY <1>0 DEF AdmissionInv, RequestRow
    <2>2. RecordOf(s)' = RecordOf(s) /\ RecordOf(s) \in IntentRef
      BY <1>0, <1>2, <2>1 DEF RecordOf
    <2>3. RecordOf(s) # NoIntent => (SameRequest(s, RecordOf(s))' <=> SameRequest(s, RecordOf(s)))
      BY <1>2, <2>2 DEF SameRequest, IntentRef
    <2> QED
      BY <1>2, <1>4, <2>1, <2>2, <2>3 DEF RequestOK, At
  <1> QED
    BY <1>1, <1>3, <1>4, <1>5 DEF AdmissionInv

\* The parts of the invariant a step of r starts from.
LEMMA Parts ==
  ASSUME AdmissionInv, NEW r \in Request
  PROVE  /\ request \in [Request -> RequestRow] /\ urls \in [Request -> Url]
         /\ commits \in [Request -> Commit] /\ records \in [Key -> IntentRef]
         /\ intents \subseteq Request /\ RequestOK(r)
         /\ request[r] \in RequestRow /\ request[r].key \in Key
         /\ urls = [urls EXCEPT ![r] = urls[r]] /\ commits = [commits EXCEPT ![r] = commits[r]]
         /\ request = [request EXCEPT ![r] = request[r]]
         /\ RecordOf(r) \in IntentRef
  BY Types DEF AdmissionInv, RequestRow, RecordOf

\* The ways a request moves on.
Moved(r, at, answer, intent) ==
  [request[r] EXCEPT !.at = at, !.answer = answer, !.intent = intent]

LEMMA MovedRow ==
  ASSUME AdmissionInv, NEW r \in Request, NEW at \in Stage, NEW answer \in Answer \union {"none"},
         NEW intent \in IntentRef
  PROVE  LET x == Moved(r, at, answer, intent)
         IN  /\ x \in RequestRow /\ x.key = request[r].key /\ x.hash = request[r].hash
             /\ x.at = at /\ x.answer = answer /\ x.intent = intent
  BY Parts DEF Moved, RequestRow

LEMMA Moves ==
  ASSUME AdmissionInv, NEW r \in Request
  PROVE  /\ \A at \in Stage : Goto(r, at) =>
              request' = [request EXCEPT ![r] = Moved(r, at, request[r].answer, request[r].intent)]
         /\ \A answer, intent : Respond(r, answer, intent) =>
              request' = [request EXCEPT ![r] = Moved(r, "answered", answer, intent)]
         /\ \A answer, intent : Compensate(r, answer, intent) =>
              request' = [request EXCEPT ![r] = Moved(r, "compensating", answer, intent)]
  <1>1. request \in [Request -> RequestRow] /\ request[r] \in RequestRow
    BY Parts
  <1>2. \A at \in Stage : [request[r] EXCEPT !.at = at] = Moved(r, at, request[r].answer, request[r].intent)
    BY <1>1 DEF Moved, RequestRow
  <1> QED
    BY <1>1, <1>2 DEF Goto, Respond, Compensate, Moved, RequestRow

\* A step that moves r on, with what its stage, answer, URL and commit must
\* satisfy together afterwards.
LEMMA MoveInv ==
  ASSUME AdmissionInv, NEW r \in Request, NEW at \in Stage, NEW answer \in Answer \union {"none"},
         NEW intent \in IntentRef, NEW url \in Url, NEW commit \in Commit,
         request' = [request EXCEPT ![r] = Moved(r, at, answer, intent)],
         urls' = [urls EXCEPT ![r] = url], commits' = [commits EXCEPT ![r] = commit],
         UNCHANGED <<records, intents>>,
         at \in {"called", "signing"} => url = "unsigned" /\ commit = "none",
         at = "committing" => url = "live",
         commit = "committed" <=> r \in intents,
         commit = "replay" => RecordOf(r) # NoIntent /\ SameRequest(r, RecordOf(r)),
         at = "compensating" => answer \in {"replayed"} \union Error,
         answer = "created" => commit = "committed" /\ url = "live",
         at = "answered" /\ url = "live" => answer \in {"created", "unavailable"},
         answer = "replayed" =>
           RecordOf(r) # NoIntent /\ intent = RecordOf(r) /\ SameRequest(r, RecordOf(r))
  PROVE  AdmissionInv'
  <1>1. PICK x : x = Moved(r, at, answer, intent)
    OBVIOUS
  <1>2. /\ x \in RequestRow /\ x.key = request[r].key /\ x.hash = request[r].hash
        /\ x.at = at /\ x.answer = answer /\ x.intent = intent
    BY <1>1, MovedRow
  <1>3. OwnOK(r, x, url, commit)
    BY <1>2 DEF OwnOK
  <1> QED
    BY <1>1, <1>2, <1>3, OneRequest

\* What r's row says while it has not been answered.
LEMMA Own ==
  ASSUME AdmissionInv, NEW r \in Request
  PROVE  /\ request[r].answer \in Answer \union {"none"} /\ request[r].intent \in IntentRef
         /\ urls[r] \in Url /\ commits[r] \in Commit /\ NoIntent \in IntentRef
         /\ request[r].at \in {"called", "signing"} =>
              request[r].answer # "created" /\ r \notin intents /\ urls[r] = "unsigned"
              /\ commits[r] = "none"
         /\ request[r].answer = "replayed" =>
              RecordOf(r) # NoIntent /\ request[r].intent = RecordOf(r) /\ SameRequest(r, RecordOf(r))
         /\ commits[r] = "committed" <=> r \in intents
         /\ commits[r] = "replay" => RecordOf(r) # NoIntent /\ SameRequest(r, RecordOf(r))
         /\ "signing" \in Stage /\ "committing" \in Stage /\ "compensating" \in Stage
         /\ "answered" \in Stage /\ "died" \in Stage
  <1>1. RequestOK(r) /\ request[r] \in RequestRow /\ urls \in [Request -> Url] /\ commits \in [Request -> Commit]
    BY Parts
  <1>2. request[r].answer \in Answer \union {"none"} /\ request[r].intent \in IntentRef
    BY <1>1 DEF RequestRow
  <1> QED
    BY <1>1, <1>2 DEF RequestOK, At, Stage, IntentRef

\* The steps a request takes before anything is committed for it.
LEMMA ReadInv ==
  ASSUME AdmissionInv, NEW r \in Request, ReadIdempotency(r)
  PROVE  AdmissionInv'
  <1>1. /\ request[r].at = "called" /\ UNCHANGED <<records, intents>>
        /\ urls' = [urls EXCEPT ![r] = urls[r]] /\ commits' = [commits EXCEPT ![r] = commits[r]]
    BY Parts DEF ReadIdempotency, At
  <1>2. CASE Goto(r, "signing")
    <2>1. request' = [request EXCEPT ![r] = Moved(r, "signing", request[r].answer, request[r].intent)]
      BY <1>2, Moves, Own
    <2>2. /\ request[r].answer \in Answer \union {"none"} /\ request[r].intent \in IntentRef
          /\ request[r].answer # "created" /\ r \notin intents /\ urls[r] = "unsigned"
          /\ commits[r] = "none" /\ urls[r] \in Url /\ commits[r] \in Commit /\ "signing" \in Stage
          /\ request[r].answer = "replayed" =>
               RecordOf(r) # NoIntent /\ request[r].intent = RecordOf(r) /\ SameRequest(r, RecordOf(r))
      BY <1>1, Own
    <2> QED
      BY <1>1, <2>1, <2>2, MoveInv
  <1>3. CASE Respond(r, "conflict", NoIntent) \/ Respond(r, "unavailable", NoIntent)
    <2>1. PICK answer \in Error :
            request' = [request EXCEPT ![r] = Moved(r, "answered", answer, NoIntent)]
      BY <1>3, Moves DEF Error
    <2>2. answer \in Answer \union {"none"} /\ answer \notin {"created", "replayed"}
      BY DEF Error, Answer
    <2> QED
      BY <1>1, <2>1, <2>2, Own, MoveInv
  <1>4. CASE /\ RecordOf(r) # NoIntent /\ SameRequest(r, RecordOf(r))
             /\ Respond(r, "replayed", RecordOf(r))
    <2>1. request' = [request EXCEPT ![r] = Moved(r, "answered", "replayed", RecordOf(r))]
      BY <1>4, Moves
    <2>2. "replayed" \in Answer \union {"none"} /\ RecordOf(r) \in IntentRef
      BY Parts DEF Answer
    <2> QED
      BY <1>1, <1>4, <2>1, <2>2, Own, MoveInv
  <1> QED
    BY <1>2, <1>3, <1>4 DEF ReadIdempotency

LEMMA SignInv ==
  ASSUME AdmissionInv, NEW r \in Request, Sign(r)
  PROVE  AdmissionInv'
  <1>1. /\ request[r].at = "signing" /\ UNCHANGED <<records, intents>> /\ Goto(r, "committing")
        /\ urls' = [urls EXCEPT ![r] = "live"] /\ commits' = [commits EXCEPT ![r] = "running"]
    BY DEF Sign, At
  <1>2. request' = [request EXCEPT ![r] = Moved(r, "committing", request[r].answer, request[r].intent)]
    BY <1>1, Moves, Own
  <1>3. "live" \in Url /\ "running" \in Commit
    BY DEF Url, Commit
  <1>4. /\ request[r].answer \in Answer \union {"none"} /\ request[r].intent \in IntentRef
        /\ request[r].answer # "created" /\ r \notin intents /\ "committing" \in Stage
        /\ request[r].answer = "replayed" =>
             RecordOf(r) # NoIntent /\ request[r].intent = RecordOf(r) /\ SameRequest(r, RecordOf(r))
    BY <1>1, Own
  <1> QED
    BY <1>1, <1>2, <1>3, <1>4, MoveInv

LEMMA SignFailsInv ==
  ASSUME AdmissionInv, NEW r \in Request, SignUnbound(r) \/ SignThrows(r)
  PROVE  AdmissionInv'
  <1>1. PICK at \in {"compensating", "answered"}, url \in Url :
          /\ request[r].at = "signing" /\ UNCHANGED <<records, intents>>
          /\ request' = [request EXCEPT ![r] = Moved(r, at, "unavailable", NoIntent)]
          /\ urls' = [urls EXCEPT ![r] = url] /\ commits' = [commits EXCEPT ![r] = commits[r]]
    BY Moves, Parts DEF SignUnbound, SignThrows, At, Url
  <1>2. at \in Stage /\ "unavailable" \in Answer \union {"none"} /\ "unavailable" \in Error
    BY Own DEF Answer, Error
  <1> QED
    BY <1>1, <1>2, Own, MoveInv

\* The commit's answer and the end of a request.
LEMMA ReplyInv ==
  ASSUME AdmissionInv, NEW r \in Request, TakeReply(r) \/ CommitThrows(r)
  PROVE  AdmissionInv'
  <1>1. /\ request[r].at = "committing" /\ UNCHANGED <<records, intents>>
        /\ urls' = [urls EXCEPT ![r] = urls[r]] /\ commits' = [commits EXCEPT ![r] = commits[r]]
        /\ urls[r] = "live"
    BY Parts DEF TakeReply, CommitThrows, At, RequestOK
  <1>2. CASE commits[r] = "committed" /\ Respond(r, "created", r)
    <2>1. request' = [request EXCEPT ![r] = Moved(r, "answered", "created", r)]
      BY <1>2, Moves
    <2>2. "created" \in Answer \union {"none"} /\ r \in IntentRef
      BY DEF Answer, IntentRef
    <2> QED
      BY <1>1, <1>2, <2>1, <2>2, Own, MoveInv
  <1>3. CASE commits[r] = "replay" /\ Compensate(r, "replayed", RecordOf(r))
    <2>1. request' = [request EXCEPT ![r] = Moved(r, "compensating", "replayed", RecordOf(r))]
      BY <1>3, Moves
    <2>2. "replayed" \in Answer \union {"none"} /\ RecordOf(r) \in IntentRef
      BY Parts DEF Answer
    <2> QED
      BY <1>1, <1>3, <2>1, <2>2, Own, MoveInv
  <1>4. CASE Compensate(r, "conflict", NoIntent) \/ Compensate(r, "unavailable", NoIntent)
    <2>1. PICK answer \in Error :
            request' = [request EXCEPT ![r] = Moved(r, "compensating", answer, NoIntent)]
      BY <1>4, Moves DEF Error
    <2>2. answer \in Answer \union {"none"} /\ answer \notin {"created", "replayed"}
      BY DEF Error, Answer
    <2> QED
      BY <1>1, <2>1, <2>2, Own, MoveInv
  <1> QED
    BY <1>2, <1>3, <1>4 DEF TakeReply, CommitThrows

LEMMA RevokeInv ==
  ASSUME AdmissionInv, NEW r \in Request, Revoke(r) \/ RevokeThrows(r)
  PROVE  AdmissionInv'
  <1>1. /\ request[r].at = "compensating" /\ UNCHANGED <<records, intents>>
        /\ commits' = [commits EXCEPT ![r] = commits[r]]
        /\ request[r].answer \in {"replayed"} \union Error
    BY Parts DEF Revoke, RevokeThrows, At, RequestOK
  <1>2. CASE Revoke(r)
    <2>1. /\ request' = [request EXCEPT ![r] = Moved(r, "answered", request[r].answer, request[r].intent)]
          /\ urls' = [urls EXCEPT ![r] = "revoked"] /\ "revoked" \in Url
      BY <1>2, Moves, Own DEF Revoke, Url
    <2>2. request[r].answer # "created"
      BY <1>1 DEF Error
    <2> QED
      BY <1>1, <2>1, <2>2, Own, MoveInv
  <1>3. CASE RevokeThrows(r)
    <2>1. PICK url \in Url :
            /\ request' = [request EXCEPT ![r] = Moved(r, "answered", "unavailable", NoIntent)]
            /\ urls' = [urls EXCEPT ![r] = url]
      <3>1. PICK url \in {"live", "revoked"} : urls' = [urls EXCEPT ![r] = url]
        BY <1>3 DEF RevokeThrows
      <3>2. Respond(r, "unavailable", NoIntent) /\ url \in Url
        BY <1>3 DEF RevokeThrows, Url
      <3>3. request' = [request EXCEPT ![r] = Moved(r, "answered", "unavailable", NoIntent)]
        BY <3>2, Moves
      <3> QED
        BY <3>1, <3>2, <3>3
    <2>2. "unavailable" \in Answer \union {"none"}
      BY DEF Answer, Error
    <2> QED
      BY <1>1, <2>1, <2>2, Own, MoveInv
  <1> QED
    BY <1>2, <1>3

LEMMA DieInv ==
  ASSUME AdmissionInv, NEW r \in Request, Die(r)
  PROVE  AdmissionInv'
  <1>1. /\ UNCHANGED <<records, intents>>
        /\ urls' = [urls EXCEPT ![r] = urls[r]] /\ commits' = [commits EXCEPT ![r] = commits[r]]
        /\ request' = [request EXCEPT ![r] = Moved(r, "died", "none", NoIntent)]
    BY Parts DEF Die, Moved, RequestRow
  <1> QED
    BY <1>1, Own, MoveInv

LEMMA RaisesInv ==
  ASSUME AdmissionInv, NEW r \in Request, CommitRaises(r)
  PROVE  AdmissionInv'
  <1>1. PICK e \in Error :
          /\ commits[r] = "running" /\ UNCHANGED <<request, urls, records, intents>>
          /\ commits' = [commits EXCEPT ![r] = e]
    BY DEF CommitRaises
  <1>2. e \in Commit /\ e \notin {"committed", "replay", "none"}
    BY DEF Error, Commit, Reply
  <1>3. request' = [request EXCEPT ![r] = request[r]] /\ urls' = [urls EXCEPT ![r] = urls[r]]
    BY <1>1, Parts
  <1>4. OwnOK(r, request[r], urls[r], e)
    BY <1>1, <1>2, Parts DEF OwnOK, RequestOK, At
  <1> QED
    BY <1>1, <1>2, <1>3, <1>4, Parts, Own, OneRequest

\* The transaction: the key of a request that finds no record has none, so
\* nothing that any request knows of its key's record is about this one.
LEMMA CommitInv ==
  ASSUME AdmissionInv, NEW r \in Request, CommitUploadIntent(r)
  PROVE  AdmissionInv'
  <1>0. /\ request \in [Request -> RequestRow] /\ urls \in [Request -> Url]
        /\ commits \in [Request -> Commit] /\ records \in [Key -> IntentRef]
        /\ intents \subseteq Request /\ RequestOK(r) /\ request[r].key \in Key
        /\ commits[r] = "running" /\ UNCHANGED <<request, urls>>
    BY Parts DEF CommitUploadIntent
  <1>1. CASE RecordOf(r) # NoIntent
    <2>1. PICK reply \in {"replay", "conflict"} :
            /\ commits' = [commits EXCEPT ![r] = reply] /\ UNCHANGED <<records, intents>>
            /\ reply = "replay" => SameRequest(r, RecordOf(r))
      BY <1>1 DEF CommitUploadIntent
    <2>2. request' = [request EXCEPT ![r] = request[r]] /\ urls' = [urls EXCEPT ![r] = urls[r]]
      BY <1>0, Parts
    <2>3. OwnOK(r, request[r], urls[r], reply)
      BY <1>0, <1>1, <2>1 DEF OwnOK, RequestOK, At
    <2>4. reply \in Commit
      BY <2>1 DEF Commit, Reply, Error
    <2> QED
      BY <2>1, <2>2, <2>3, <2>4, Parts, Own, OneRequest
  <1>2. CASE RecordOf(r) = NoIntent
    <2>1. /\ records' = [records EXCEPT ![request[r].key] = r] /\ intents' = intents \union {r}
          /\ commits' = [commits EXCEPT ![r] = "committed"]
      BY <1>2 DEF CommitUploadIntent
    <2>2. TypeOK'
      BY <1>0, <2>1 DEF TypeOK, RequestRow, Commit, Reply, Url, IntentRef
    <2>3. r # NoIntent /\ records[request[r].key] = NoIntent
      BY <1>2, AdmissionAssumption DEF RecordOf
    <2>4. \A s \in intents : request[s].key # request[r].key
      BY <1>0, <2>3, AdmissionAssumption DEF AdmissionInv, RecordsAgree, RecordOf
    <2>5. RecordsAgree'
      BY <1>0, <2>1, <2>3, <2>4 DEF AdmissionInv, RecordsAgree, RecordOf, RequestRow
    <2>6. OneIntentPerKey'
      BY <1>0, <2>1, <2>4 DEF AdmissionInv, OneIntentPerKey
    <2>7. ASSUME NEW s \in Request PROVE RequestOK(s)'
      <3>1. RequestOK(s) /\ request[s].key \in Key
        BY <1>0 DEF AdmissionInv, RequestRow
      <3>2. RecordOf(s) # NoIntent => RecordOf(s)' = RecordOf(s) /\ SameRequest(s, RecordOf(s))' = SameRequest(s, RecordOf(s))
        BY <1>0, <2>1, <2>3, <3>1 DEF RecordOf, SameRequest
      <3>3. CASE s = r
        BY <1>0, <2>1, <3>1, <3>2, <3>3 DEF RequestOK, At
      <3>4. CASE s # r
        BY <1>0, <2>1, <3>1, <3>2, <3>4 DEF RequestOK, At
      <3> QED
        BY <3>3, <3>4
    <2> QED
      BY <2>2, <2>5, <2>6, <2>7 DEF AdmissionInv
  <1> QED
    BY <1>1, <1>2

LEMMA StepInv == AdmissionInv /\ [Next]_vars => AdmissionInv'
  <1> SUFFICES ASSUME AdmissionInv, [Next]_vars PROVE AdmissionInv'
    OBVIOUS
  <1>1. CASE UNCHANGED vars
    BY <1>1 DEF vars, AdmissionInv, TypeOK, RecordsAgree, OneIntentPerKey, RequestOK, At,
                RecordOf, SameRequest
  <1>2. CASE Next
    BY <1>2, ReadInv, SignInv, SignFailsInv, CommitInv, RaisesInv, ReplyInv, RevokeInv, DieInv
       DEF Next
  <1> QED
    BY <1>1, <1>2

\* At every await of every request, URL, commit, intent and record tell one
\* story: createUploadIntent and create_upload_intent, whatever overlaps.
THEOREM AdmissionInvariant == Spec => []AdmissionInv
  <1> QED
    BY InitInv, StepInv, PTL DEF Spec

\* A client told 'created' holds a live URL for a committed intent that its
\* key's record names, whatever answers of signer and store were lost.
THEOREM CreatedHolds == Spec => []CreatedIsBacked
  <1>1. AdmissionInv => CreatedIsBacked
    BY DEF AdmissionInv, CreatedIsBacked, RequestOK, RecordsAgree, Answered, At
  <1> QED
    BY <1>1, AdmissionInvariant, PTL

\* A request that loses the race for its key leaves no live URL behind.
THEOREM LosersAreRevoked == Spec => []NoStrayUrl
  <1>1. AdmissionInv => NoStrayUrl
    BY DEF AdmissionInv, NoStrayUrl, RequestOK
  <1> QED
    BY <1>1, AdmissionInvariant, PTL

\* A replay names the committed intent of the same key and request.
THEOREM ReplaysAreOwn == Spec => []ReplayNamesOwnRequest
  <1>1. ASSUME AdmissionInv, NEW r \in Request, Answered(r, "replayed")
        PROVE  /\ request[r].intent \in intents
               /\ request[request[r].intent].key = request[r].key
               /\ SameRequest(r, request[r].intent)
    <2>1. /\ RecordOf(r) # NoIntent /\ request[r].intent = RecordOf(r)
          /\ SameRequest(r, RecordOf(r)) /\ request[r].key \in Key
      BY <1>1, Parts DEF RequestOK, Answered
    <2> QED
      BY <1>1, <2>1 DEF AdmissionInv, RecordsAgree, RecordOf
  <1>2. AdmissionInv => ReplayNamesOwnRequest
    BY <1>1 DEF ReplayNamesOwnRequest
  <1> QED
    BY <1>2, AdmissionInvariant, PTL

-----------------------------------------------------------------------------
\* What a request that gave up on its commit answers while the commit may still
\* go through: this is about two variables no single step of it writes together.
SettledOK(r) ==
  /\ urls[r] = "revoked" => request[r].at = "answered"
  /\ /\ r \in intents \/ commits[r] = "running"
     /\ request[r].at \in {"compensating", "answered"}
     => request[r].answer \in {"created", "unavailable"}

Settled == \A r \in Request : SettledOK(r)

LEMMA SettledStep == AdmissionInv /\ Settled /\ [Next]_vars => Settled'
  <1> SUFFICES ASSUME AdmissionInv, Settled, [Next]_vars PROVE Settled'
    OBVIOUS
  <1>0. /\ request \in [Request -> RequestRow] /\ urls \in [Request -> Url]
        /\ commits \in [Request -> Commit]
    BY Types DEF AdmissionInv
  <1>1. CASE UNCHANGED vars
    BY <1>1 DEF vars, Settled, SettledOK
  <1>2. ASSUME NEW r \in Request,
               \/ ReadIdempotency(r) \/ Sign(r) \/ SignUnbound(r) \/ SignThrows(r)
               \/ CommitUploadIntent(r) \/ CommitRaises(r) \/ TakeReply(r) \/ CommitThrows(r)
               \/ Revoke(r) \/ RevokeThrows(r) \/ Die(r)
        PROVE  Settled'
    <2>0. RequestOK(r) /\ SettledOK(r) /\ request[r] \in RequestRow /\ urls[r] \in Url /\ commits[r] \in Commit
      BY <1>0 DEF AdmissionInv, Settled
    <2>1. ASSUME NEW s \in Request, s # r PROVE SettledOK(s)'
      <3>1. /\ request'[s] = request[s] /\ urls'[s] = urls[s] /\ commits'[s] = commits[s]
            /\ s \in intents' <=> s \in intents
        BY <1>0, <1>2, <2>1
           DEF ReadIdempotency, Sign, SignUnbound, SignThrows, CommitUploadIntent, CommitRaises,
               TakeReply, CommitThrows, Revoke, RevokeThrows, Die, Goto, Respond, Compensate
      <3> QED
        BY <2>1, <3>1 DEF Settled, SettledOK
    <2> SUFFICES SettledOK(r)'
      BY <2>1 DEF Settled
    <2>2. /\ commits[r] = "committed" <=> r \in intents
          /\ request[r].at \in {"called", "signing"} => urls[r] = "unsigned" /\ commits[r] = "none"
          /\ request[r].at = "committing" => urls[r] = "live"
          /\ request[r].at = "compensating" => request[r].answer # "created"
      BY <2>0 DEF RequestOK, At, Error
    <2>3. CASE CommitUploadIntent(r) \/ CommitRaises(r)
      <3>1. request' = request /\ urls' = urls /\ commits[r] = "running"
        BY <2>3 DEF CommitUploadIntent, CommitRaises
      <3> QED
        BY <2>0, <3>1 DEF SettledOK
    <2>4. CASE ReadIdempotency(r) \/ Sign(r) \/ SignUnbound(r) \/ SignThrows(r)
      <3>1. request[r].at \in {"called", "signing"} /\ intents' = intents
        BY <2>4 DEF ReadIdempotency, Sign, SignUnbound, SignThrows, At
      <3>2. urls'[r] # "revoked" /\ r \notin intents'
        BY <1>0, <2>2, <2>4, <3>1 DEF ReadIdempotency, Sign, SignUnbound, SignThrows
      <3>3. commits' = commits \/ (Sign(r) /\ Goto(r, "committing"))
        BY <2>4 DEF ReadIdempotency, Sign, SignUnbound, SignThrows
      <3>4. commits'[r] = "running" => request'[r].at = "committing"
        BY <1>0, <2>0, <2>2, <3>1, <3>3 DEF Goto, RequestRow
      <3> QED
        BY <3>2, <3>4 DEF SettledOK
    <2>5. CASE TakeReply(r) \/ CommitThrows(r)
      <3>1. /\ urls[r] = "live" /\ UNCHANGED <<urls, intents, commits>>
        BY <2>2, <2>5 DEF TakeReply, CommitThrows, At
      <3>2. \/ commits[r] = "replay" \/ commits[r] = "conflict"
            \/ \E answer \in {"created", "unavailable"} :
                 Respond(r, answer, r) \/ Compensate(r, answer, NoIntent)
        BY <2>5 DEF TakeReply, CommitThrows
      <3>3. commits[r] \in {"replay", "conflict"} \/ request'[r].answer \in {"created", "unavailable"}
        BY <1>0, <2>0, <3>2 DEF Respond, Compensate, RequestRow
      <3> QED
        BY <2>2, <3>1, <3>3 DEF SettledOK
    <2>6. CASE Revoke(r) \/ RevokeThrows(r)
      <3>1. /\ request[r].at = "compensating" /\ UNCHANGED <<intents, commits>>
            /\ Goto(r, "answered") \/ Respond(r, "unavailable", NoIntent)
        BY <2>6 DEF Revoke, RevokeThrows, At
      <3>2. /\ request'[r].at = "answered"
            /\ request'[r].answer = request[r].answer \/ request'[r].answer = "unavailable"
        BY <1>0, <2>0, <3>1 DEF Goto, Respond, RequestRow
      <3> QED
        BY <2>0, <3>1, <3>2 DEF SettledOK
    <2>7. CASE Die(r)
      <3>1. request[r].at # "answered" /\ UNCHANGED urls
        BY <2>7 DEF Die
      <3>2. request'[r].at = "died"
        BY <1>0, <2>0, <2>7 DEF Die, RequestRow
      <3> QED
        BY <2>0, <3>1, <3>2 DEF SettledOK
    <2> QED
      BY <1>2, <2>3, <2>4, <2>5, <2>6, <2>7
  <1> QED
    BY <1>1, <1>2 DEF Next

\* An intent nobody can upload to any more was reported as unavailable: a commit
\* that outlives its caller is never passed off as a conflict or a replay.
THEOREM RevokedIsReported == Spec => []RevokedIntentIsReported
  <1>1. Init => Settled
    <2> SUFFICES ASSUME Init PROVE Settled
      OBVIOUS
    <2>1. \A r \in Request : request[r].at = "called" /\ urls[r] = "unsigned"
      BY DEF Init
    <2> QED
      BY <2>1 DEF Settled, SettledOK
  <1>2. AdmissionInv /\ Settled => RevokedIntentIsReported
    <2> SUFFICES ASSUME AdmissionInv, Settled, NEW r \in intents, urls[r] = "revoked"
                 PROVE  Answered(r, "unavailable")
      BY DEF RevokedIntentIsReported
    <2>1. r \in Request /\ RequestOK(r) /\ SettledOK(r)
      BY DEF AdmissionInv, TypeOK, Settled
    <2> QED
      BY <2>1 DEF SettledOK, RequestOK, Answered, At
  <1>3. AdmissionInv /\ Settled /\ [Next]_vars => Settled'
    BY SettledStep
  <1> QED
    BY <1>1, <1>2, <1>3, AdmissionInvariant, PTL DEF Spec
=============================================================================
