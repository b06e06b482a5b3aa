----------------------------- MODULE MCRPConfig -----------------------------
(***************************************************************************)
(* A few metadata documents for RPConfig: what a provider publishes, what  *)
(* its OAuth metadata says, and what an application configures.            *)
(***************************************************************************)
EXTENDS RPConfig, TLC

CallerSymmetry == Permutations(Callers)

At(secure, insecure) ==
  [e \in Endpoints |-> IF e \in insecure THEN "http"
                       ELSE IF e \in secure THEN "https" ELSE "none"]

Doc(issuer, at, methods, introspection, par) ==
  [issuer |-> issuer, at |-> at, methods |-> methods,
   introspectionMethods |-> introspection, requirePAR |-> par]

Core == {"auth", "token", "jwks"}

\* A FAPI provider; a plain one with client secrets and its own list for
\* introspection; one that says nothing about methods.
MCDiscovered ==
  {Doc(TRUE, At(Endpoints, {}), {"keyJWT", "selfSigned"}, {}, TRUE),
   Doc(TRUE, At(Core \cup {"introspection", "par"}, {}), {"post", "basic"},
       {"tls", "basic"}, FALSE),
   Doc(TRUE, At(Core, {}), {}, {}, FALSE)}

MCServers ==
  {Doc(TRUE, At(Core, {"introspection"}), {"post"}, {}, FALSE)}

\* Complete but without its issuer; complete with an insecure alias; a single
\* insecure endpoint, to be completed by discovery.
MCMetadata ==
  {Doc(FALSE, At(Core \cup {"par"}, {}), {"keyJWT"}, {}, TRUE),
   Doc(TRUE, At(Core, {"mtlsToken"}), {"tls", "secretJWT"}, {}, FALSE),
   Doc(FALSE, At({}, {"token"}), {}, {}, FALSE)}
=============================================================================
