--------------------------- MODULE MCAuthCodeFlow ---------------------------
(* Instances of AuthCodeFlow for TLC. *)
EXTENDS AuthCodeFlow

\* A configuration from the features it switches on.
Config(S) ==
  [openid |-> "openid" \in S, fapi |-> "fapi" \in S, jarm |-> "jarm" \in S,
   checkIss |-> "checkIss" \in S, par |-> "par" \in S,
   userinfo |-> "userinfo" \in S, pkce |-> "pkce" \in S, strict |-> "strict" \in S]

\* On a store that consumes on its own side: OpenID Connect, OAuth 2.0 with
\* PKCE, FAPI with PAR and JARM; on the cookie store the same, mixed otherwise.
AllConfigs ==
  {Config({"strict"} \cup S) :
     S \in {{"openid", "userinfo"}, {"pkce"}, {"openid", "fapi", "par", "jarm", "pkce"},
            {"openid", "checkIss", "userinfo"}}}
  \cup
  {Config(S) :
     S \in {{"openid"}, {"pkce", "checkIss"}, {"openid", "fapi", "par", "jarm", "pkce"}}}
=============================================================================
