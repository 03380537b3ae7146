------------------------------- MODULE MCRoom -------------------------------
\* Room on small instances: sockets are interchangeable in safety runs.
EXTENDS Room, TLC

Symmetry == Permutations(Socket)
=============================================================================
