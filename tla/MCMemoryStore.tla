--------------------------- MODULE MCMemoryStore ----------------------------
(* Instances of MemoryStore for TLC. *)
EXTENDS MemoryStore, TLC

CONSTANTS t1, t2, b1, b2, s1, s2

\* Every browser runs one login at a time.
OneTabEach == (t1 :> b1) @@ (t2 :> b2)

\* No browser takes part.
NoTabs == [t \in {} |-> NoBrowser]

\* The lifetimes of pushed authorization requests.
NoPAR == {}
ShortPAR == {1}

\* States are compared for equality only, and so are browsers, each of which
\* is exchanged together with its tab.
StateSymmetry == Permutations(States)
Exchange == (t1 :> t2) @@ (t2 :> t1) @@ (b1 :> b2) @@ (b2 :> b1)
Symmetry ==
  StateSymmetry \cup {p @@ Exchange : p \in StateSymmetry}
=============================================================================
