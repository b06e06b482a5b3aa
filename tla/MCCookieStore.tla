---------------------------- MODULE MCCookieStore ---------------------------
(* Instances of CookieStore for TLC. *)
EXTENDS CookieStore, TLC

CONSTANTS t1, b1

\* One request at a time.
OneTab == t1 :> b1

\* The lifetimes of pushed authorization requests.
ShortPAR == {2}

StateSymmetry == Permutations(States)
=============================================================================
