------------------------------ MODULE MCSession ------------------------------
\* Session on small sets of clients.
EXTENDS Session, TLC

\* Clients are told apart by their addresses only.
Symmetry == Permutations(Clients)
=============================================================================
