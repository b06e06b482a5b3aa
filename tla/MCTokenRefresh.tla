--------------------------- MODULE MCTokenRefresh ---------------------------
(* Instances of TokenRefresh for TLC. *)
EXTENDS TokenRefresh

\* No metadata about client authentication; the server wants the one or the
\* other method, with DPoP or without.
GuessingConfigs ==
  {[dpop |-> d, method |-> "post", guess |-> TRUE, accepts |-> a] :
     d \in BOOLEAN, a \in {{"post"}, {"basic"}}}
=============================================================================
