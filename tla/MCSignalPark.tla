---------------------------- MODULE MCSignalPark ----------------------------
(* Two peers and two coordinators that use the backend one after the       *)
(* other, with the same or with different epochs.                          *)
EXTENDS SignalPark, TLC

PeerSymmetry == Permutations(Peer)
=============================================================================
