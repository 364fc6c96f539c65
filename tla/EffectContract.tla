--------------------------- MODULE EffectContract ---------------------------
(***************************************************************************)
(* What an operation on an external provider promises: it is claimed once, *)
(* the provider takes effect at most once and only for a claimed           *)
(* operation, and the operation is closed once, as what the provider did.  *)
(* Manual review is the one verdict that says nothing about the provider.  *)
(***************************************************************************)
EXTENDS Naturals

CONSTANT Operation

VARIABLES
  state,    \* state[o]: absent, planned, pending or closed with a verdict
  effects   \* effects[o]: how many times the provider took effect

contractVars == <<state, effects>>

Init ==
  /\ state = [o \in Operation |-> "absent"]
  /\ effects = [o \in Operation |-> 0]

Plan(o) ==
  /\ state[o] = "absent"
  /\ state' = [state EXCEPT ![o] = "planned"]
  /\ UNCHANGED effects

Claim(o) ==
  /\ state[o] = "planned"
  /\ state' = [state EXCEPT ![o] = "pending"]
  /\ UNCHANGED effects

\* An answer may be lost and its operation closed for review before the
\* provider acts; an operation that failed is one the provider refused.
TakeEffect(o) ==
  /\ state[o] \in {"pending", "manual_review"}
  /\ effects[o] = 0
  /\ effects' = [effects EXCEPT ![o] = 1]
  /\ UNCHANGED state

Close(o, verdict) ==
  /\ state[o] \in {"planned", "pending"}
  /\ verdict = "confirmed" => state[o] = "pending" /\ effects[o] = 1
  /\ verdict = "failed" => effects[o] = 0
  /\ state' = [state EXCEPT ![o] = verdict]
  /\ UNCHANGED effects

Next == \E o \in Operation :
  \/ Plan(o) \/ Claim(o) \/ TakeEffect(o)
  \/ \E verdict \in {"confirmed", "failed", "manual_review"} : Close(o, verdict)

Spec == Init /\ [][Next]_contractVars
=============================================================================
