------------------------ MODULE MCProviderLifecycle -------------------------
(* One provider and one control client.  Four runners of a direct provider *)
(* are enough for a start, an update whose restart fails and is undone,    *)
(* and another start; two of a staged one for a restart or an update.      *)
EXTENDS ProviderLifecycle

MCMaxRunners == [direct |-> 4, staged |-> 2]
MCStagedOnly == [staged |-> 2]
=============================================================================
