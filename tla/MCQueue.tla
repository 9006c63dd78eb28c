------------------------------ MODULE MCQueue ------------------------------
EXTENDS QueueProperties, TLC

Symmetric == Permutations(Message)
=============================================================================
