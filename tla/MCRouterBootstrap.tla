-------------------------- MODULE MCRouterBootstrap --------------------------
EXTENDS RouterBootstrap
=============================================================================
