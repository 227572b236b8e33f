--------------------------- MODULE MCVirtualCamera ---------------------------
(* A preview stream, a larger still stream and one the device refuses; two *)
(* providers, one slower than the default and one whose rate is invalid.   *)
EXTENDS VirtualCamera
MCFormat == [s \in Stream |-> CASE s = "preview" -> "ycbcr_420"
                                [] s = "still" -> "blob"
                                [] OTHER -> "raw"]
MCSize == [s \in Stream |-> CASE s = "preview" -> <<2, 2>> [] s = "still" -> <<3, 8>>
                              [] OTHER -> <<2, 2>>]
MCFps == [p \in Provider |-> IF p = "slow" THEN 1 ELSE 9]
=============================================================================
