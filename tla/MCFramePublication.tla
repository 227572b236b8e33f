------------------------- MODULE MCFramePublication --------------------------
(* Frames of two sizes; "c" has the size of "a" and another sequence       *)
(* number, "d" the size and the sequence number of "a".                    *)
EXTENDS FramePublication
MCSize == [f \in Frame |-> IF f = "b" THEN 3 ELSE 2]
MCSequence == [f \in Frame |-> IF f \in {"a", "d"} THEN 1 ELSE 2]
=============================================================================
