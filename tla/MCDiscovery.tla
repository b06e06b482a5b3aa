---------------------------- MODULE MCDiscovery ----------------------------
(***************************************************************************)
(* Discovery for an issuer named with and without its trailing slash, and  *)
(* an intermediary that serves another issuer's, an incomplete and an      *)
(* insecure document.                                                      *)
(***************************************************************************)
EXTENDS Discovery

MCBare == [i \in Issuers |-> IF i \in Slashed
                             THEN CHOOSE b \in Issuers \ Slashed : TRUE
                             ELSE i]

MCRequests == {<<"provider", i>> : i \in Issuers}
                  \cup {<<"as", i>> : i \in Issuers \ Slashed}

MCMisserved ==
    {[issuer |-> CHOOSE b \in Issuers \ Slashed : TRUE,
      missing |-> {"jwks_uri"}, insecure |-> {}],
     [issuer |-> CHOOSE b \in Issuers \ Slashed : TRUE,
      missing |-> {"response_types_supported"}, insecure |-> {}],
     [issuer |-> CHOOSE b \in Issuers \ Slashed : TRUE,
      missing |-> {}, insecure |-> {"token_endpoint"}],
     [issuer |-> CHOOSE b \in Issuers : b \in Slashed,
      missing |-> {}, insecure |-> {}]}
=============================================================================
