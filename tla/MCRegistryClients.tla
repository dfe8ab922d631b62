--------------------------- MODULE MCRegistryClients ---------------------------
EXTENDS RegistryClients, TLC

ClientSymmetry == Permutations(Clients)
=============================================================================
