--------------------------- MODULE ObjectLifecycle ---------------------------
(***************************************************************************)
(* What a governed object promises its readers: it is uploaded once, on    *)
(* the evidence seen at that moment, and gets one verdict that never       *)
(* changes; it becomes readable only on evidence that matches its          *)
(* declaration.  Who verifies it, how often and at which versions is not   *)
(* visible here.                                                           *)
(***************************************************************************)
CONSTANT Object

VARIABLES phase,     \* phase[o]: where object o is in its life
          evidence   \* evidence[o]: how the uploaded bytes compare to the declaration

lifecycleVars == <<phase, evidence>>

Verdict == {"ready", "rejected", "quarantined"}

LifecycleInit ==
  /\ phase = [o \in Object |-> "absent"]
  /\ evidence = [o \in Object |-> "none"]

Declare(o) ==
  /\ phase[o] = "absent"
  /\ phase' = [phase EXCEPT ![o] = "declared"]
  /\ UNCHANGED evidence

Upload(o, seen) ==
  /\ phase[o] = "declared"
  /\ phase' = [phase EXCEPT ![o] = "uploaded"]
  /\ evidence' = [evidence EXCEPT ![o] = seen]

Decide(o, verdict) ==
  /\ phase[o] = "uploaded"
  /\ verdict = "ready" => evidence[o] = "match"
  /\ phase' = [phase EXCEPT ![o] = verdict]
  /\ UNCHANGED evidence

LifecycleNext ==
  \E o \in Object :
    \/ Declare(o)
    \/ \E seen \in {"match", "differs"} : Upload(o, seen)
    \/ \E verdict \in Verdict : Decide(o, verdict)

LifecycleSpec == LifecycleInit /\ [][LifecycleNext]_lifecycleVars
=============================================================================
