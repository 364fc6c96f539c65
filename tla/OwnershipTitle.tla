--------------------------- MODULE OwnershipTitle ---------------------------
(***************************************************************************)
(* What the ownership of a party promises: once somebody controls it       *)
(* somebody always does, control never weakens, full control needs a proof *)
(* of full grade, and who has it loses it only to a conversion of another  *)
(* proven claim.  Rows, locks, challenges and dates are not visible here.  *)
(***************************************************************************)
CONSTANTS Claim, Nothing

VARIABLES title,   \* the claim that controls the party, and how far
          proven   \* claims with an accepted proof of full grade

titleVars == <<title, proven>>

Title(k, level) == [claim |-> k, level |-> level]

TitleInit ==
  /\ title = Title(Nothing, "none")
  /\ proven = {}

\* A proof of less than full grade controls a party that nobody controls.
Support(k) ==
  /\ title' = IF title.level = "none" THEN Title(k, "provisional") ELSE title
  /\ UNCHANGED proven

\* A proof of full grade takes the place of provisional control, its own or
\* another's; against full control it is only remembered.
Prove(k) ==
  /\ title' = IF title.level = "full" THEN title ELSE Title(k, "full")
  /\ proven' = proven \union {k}

Convert(k) ==
  /\ k \in proven
  /\ title.level = "full"
  /\ title' = Title(k, "full")
  /\ UNCHANGED proven

TitleNext == \E k \in Claim : Support(k) \/ Prove(k) \/ Convert(k)

TitleSpec == TitleInit /\ [][TitleNext]_titleVars
=============================================================================
