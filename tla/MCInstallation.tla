--------------------------- MODULE MCInstallation ---------------------------
(* The two halves of an installation.  No code joins them yet, so a        *)
(* behaviour is one of                                                     *)
(*   "window": ThreadQuiescence on a process of the caller and two peers,  *)
(*     which create up to two more threads while they are being parked;    *)
(*   "patch": PatchTransaction with two transactions on one target, one    *)
(*     with a written and one with a precompiled trampoline, and a third   *)
(*     party that rewrites the target;                                     *)
(* and leaves the other half as it was.                                    *)
EXTENDS ThreadQuiescence, PatchTransaction

VARIABLE half

Halves == Init /\ PatchInit /\ half \in {"window", "patch"}

WindowStep == half = "window" /\ Next /\ UNCHANGED <<patchVars, half>>
PatchStep == half = "patch" /\ PatchNext /\ UNCHANGED <<vars, half>>
Advance == half = "window" /\ CallStep /\ UNCHANGED <<patchVars, half>>

Installation ==
  /\ Halves /\ [][WindowStep \/ PatchStep]_<<vars, patchVars, half>>
  /\ WF_<<vars, patchVars, half>>(Advance)
=============================================================================
