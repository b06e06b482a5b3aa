--------------------------- MODULE MCRemoteKeySet ---------------------------
(* Instances of RemoteKeySet for TLC. *)
EXTENDS RemoteKeySet, TLC

\* Every validation has a RemoteKeySet of its own, as in rp: a caller is its
\* instance.
OwnInstance == [c \in Callers |-> c]

\* Goroutines share one RemoteKeySet, as direct users of package jwks do.
SharedInstance == [c \in Callers |-> CHOOSE i \in Instances : TRUE]

\* Addresses are compared for equality only; a caller and its instance are
\* permuted together.
Symmetry == Permutations(Pool) \cup Permutations(Callers)
=============================================================================
