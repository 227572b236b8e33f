----------------------------- MODULE AtomicFrame -----------------------------
(***************************************************************************)
(* What a provider's frame file promises the camera (docs/source-format.md *)
(* "atomically replaced"): a register that holds one whole frame or none.  *)
(* A reader looks at the register once and then shows what it saw.         *)
(***************************************************************************)
CONSTANTS Frame, None, Idle

VARIABLES current, seen, shown

avars == <<current, seen, shown>>

Init == current = None /\ seen = Idle /\ shown = None

Publish(f) == current' = f /\ UNCHANGED <<seen, shown>>
Withdraw == current' = None /\ UNCHANGED <<seen, shown>>
Look == seen = Idle /\ current # None /\ seen' = current /\ UNCHANGED <<current, shown>>
Missing == seen = Idle /\ current = None /\ shown' = None /\ UNCHANGED <<current, seen>>
Show == seen # Idle /\ shown' = seen /\ seen' = Idle /\ UNCHANGED current

Next == (\E f \in Frame : Publish(f)) \/ Withdraw \/ Look \/ Missing \/ Show

Spec == Init /\ [][Next]_avars
=============================================================================
