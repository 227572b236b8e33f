---------------------------- MODULE MCProxyDevice ----------------------------
(* Two framework threads and two cameras, each of which may be routed to   *)
(* either physical source or to a provider.                                *)
EXTENDS ProxyDevice, TLC
Symmetry == Permutations(Handle) \cup Permutations(Device) \cup Permutations(Client)
              \cup Permutations(Camera)
=============================================================================
