----------------------------- MODULE JobContract -----------------------------
(***************************************************************************)
(* What the job authority promises, without versions, leases' clocks or    *)
(* restore fences: a job is attempted by one holder at a time, an attempt  *)
(* can lapse, only the current holder ends it, and an ended job stays so.  *)
(***************************************************************************)
CONSTANTS Job, Token, NoToken

VARIABLES phase,    \* phase[j]: where job j is in its life
          holder    \* holder[j]: who may end the attempt in progress, or NoToken

contractVars == <<phase, holder>>

Ended == {"succeeded", "failed", "cancelled"}
Phase == {"absent", "waiting", "attempting"} \union Ended

ContractTypeOK ==
  /\ phase \in [Job -> Phase]
  /\ holder \in [Job -> Token \union {NoToken}]

ContractInit ==
  /\ phase = [j \in Job |-> "absent"]
  /\ holder = [j \in Job |-> NoToken]

Submit(j) ==
  /\ phase[j] = "absent"
  /\ phase' = [phase EXCEPT ![j] = "waiting"]
  /\ UNCHANGED holder

\* A waiting job, or an attempt whose holder lapsed, passes to a new holder.
Attempt(j, t) ==
  /\ phase[j] \in {"waiting", "attempting"}
  /\ holder[j] = NoToken
  /\ phase' = [phase EXCEPT ![j] = "attempting"]
  /\ holder' = [holder EXCEPT ![j] = t]

Lapse(j) ==
  /\ holder[j] # NoToken
  /\ holder' = [holder EXCEPT ![j] = NoToken]
  /\ UNCHANGED phase

\* Only an attempt that still has its holder ends, for good or to wait again.
Finish(j, p) ==
  /\ phase[j] = "attempting"
  /\ holder[j] # NoToken
  /\ phase' = [phase EXCEPT ![j] = p]
  /\ holder' = [holder EXCEPT ![j] = NoToken]

ContractNext ==
  \E j \in Job :
    \/ Submit(j)
    \/ \E t \in Token : Attempt(j, t)
    \/ Lapse(j)
    \/ \E p \in Ended \union {"waiting"} : Finish(j, p)

ContractSpec == ContractInit /\ [][ContractNext]_contractVars
=============================================================================
