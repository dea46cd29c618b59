----------------------------- MODULE Ownership -----------------------------
(***************************************************************************)
(* What a teleoperation session promises about control: at most one        *)
(* operator holds the claim, the claim passes from one operator to another *)
(* only through "nobody", and nobody acquires it while the e-stop is       *)
(* engaged.  The signaling server (SessionManager) implements this.        *)
(***************************************************************************)
CONSTANTS Operators,    \* operator ids
          None          \* Python's None: no operator

VARIABLES owner,        \* the operator holding the claim, or None
          stopped       \* the e-stop is engaged

vars == <<owner, stopped>>

TypeOK == owner \in Operators \cup {None} /\ stopped \in BOOLEAN

Init == owner = None /\ stopped = FALSE

\* A free session is claimed; claiming one's own session again changes nothing.
Claim(o) ==
  /\ ~stopped
  /\ owner = None
  /\ owner' = o
  /\ UNCHANGED stopped

\* The claim is given up, by a release or by the grace period running out.
GiveUp ==
  /\ owner' = None
  /\ UNCHANGED stopped

\* The e-stop and the claim are independent: a stop keeps the claim.
SetStop(b) ==
  /\ stopped' = b
  /\ UNCHANGED owner

Next == (\E o \in Operators : Claim(o)) \/ GiveUp \/ (\E b \in BOOLEAN : SetStop(b))

Spec == Init /\ [][Next]_vars
=============================================================================
