------------------------------ MODULE RPConfig ------------------------------
(***************************************************************************)
(* rp/rp.go, rp/options.go, rp/client_config.go, rp/auth_method.go: the    *)
(* construction of a client of one provider and what it sends afterwards.  *)
(*                                                                         *)
(* A constructor (New, NewClientCredentials, NewIntrospector,              *)
(* NewGrantManager) applies its options in the order given, fills in the   *)
(* defaults of the profile, resolves the provider's metadata (configured,  *)
(* discovered, or both merged), negotiates the client authentication       *)
(* method and checks the result against the profile.  The client is then   *)
(* used by concurrent goroutines, whose requests negotiate the method      *)
(* again and share the outcome.                                            *)
(*                                                                         *)
(* An endpoint of a metadata document is absent ("none"), secure ("https") *)
(* or not ("http").  A client key is absent, one without a certificate     *)
(* ("plain"), one with a certificate ("cert"), or one with a certificate   *)
(* and an algorithm or a size that FAPI does not permit ("weak").          *)
(***************************************************************************)
EXTENDS Naturals, Sequences, FiniteSets, FiniteSetsExt

CONSTANTS
  Callers,      \* goroutines that use the client
  Metadata,     \* documents handed to WithProviderMetadata
  Discovered,   \* documents OpenID discovery returns: they passed validation
  Servers,      \* documents OAuth discovery returns
  MaxOptions    \* bound on the options of one call

Methods ==
  {"none", "basic", "post", "secretJWT", "keyJWT", "tls", "selfSigned"}
TLSMethods == {"tls", "selfSigned"}
FAPIMethods == TLSMethods \cup {"keyJWT"}

Endpoints ==
  {"auth", "token", "jwks", "par", "introspection", "grants",
   "mtlsToken", "mtlsPAR", "mtlsIntrospection"}
URLs == {"none", "https", "http"}

Documents ==
  [issuer : BOOLEAN,                    \* does it name its issuer
   at : [Endpoints -> URLs],
   methods : SUBSET Methods,            \* token_endpoint_auth_methods_supported
   introspectionMethods : SUBSET Methods,
   requirePAR : BOOLEAN]                \* require_pushed_authorization_requests

NoDocument ==
  [issuer |-> FALSE, at |-> [e \in Endpoints |-> "none"], methods |-> {},
   introspectionMethods |-> {}, requirePAR |-> FALSE]

\* ValidateEndpoints
Secure(doc) == \A e \in Endpoints : doc.at[e] # "http"

ASSUME RPConfigAssumption ==
  /\ MaxOptions \in Nat
  /\ Metadata \cup Discovered \cup Servers \subseteq Documents
  /\ \A d \in Discovered :
       /\ d.issuer /\ Secure(d)
       /\ "none" \notin {d.at["auth"], d.at["jwks"]}
  /\ \A d \in Servers :
       /\ d.issuer /\ ~d.requirePAR
       /\ "http" \notin {d.at["auth"], d.at["jwks"], d.at["token"]}
       /\ {d.at["par"], d.at["grants"]} = {"none"}

Constructors ==
  {"New", "NewClientCredentials", "NewIntrospector", "NewGrantManager"}
Profiles == {"OIDC", "OAuth2", "FAPI1Adv", "FAPI2SP", "FAPI2MS", "PlainFAPI"}
FAPI2 == {"FAPI2SP", "FAPI2MS"}
Modes == {"auto", "oidc", "oauth2", "disabled"}
Keys == {"none", "plain", "cert", "weak"}
RequestMethods == {"plain", "signed", "unknown"}

VARIABLES
  ctor,      \* the constructor called
  stage,     \* how far it is; "ready": it returned a client
  given,     \* options applied so far
  conf,      \* clientConfig and RP: what the options and defaults set
  provider,  \* RP.provider
  origin,    \* history: where that document comes from
  auth,      \* resolvedAuthMethod and allowMethodFallback
  wired,     \* the HTTP client presents the certificate
  call       \* call[c]: the request a goroutine is busy with

vars == <<ctor, stage, given, conf, provider, origin, auth, wired, call>>

isFAPI(p) == p \in FAPI2 \cup {"FAPI1Adv", "PlainFAPI"}
usesOpenIDScope(cf) == "openid" \in cf.scopes
hasCertificate(cf) == cf.key \in {"cert", "weak"}

NoRequest ==
  [kind |-> "none", to |-> "none", url |-> "none", method |-> "none",
   dpop |-> FALSE, signedBy |-> "nobody"]
Idle ==
  [pc |-> "idle", doc |-> NoDocument, method |-> "none", fallback |-> FALSE,
   endpoint |-> "none", request |-> NoRequest]

newRP ==
  [clientID |-> TRUE, redirectURI |-> TRUE, secret |-> FALSE, key |-> "none",
   authMethod |-> "", scopes |-> {"openid"}, scopesExplicit |-> FALSE,
   senderConstrain |-> "none",
   requirePAR |-> FALSE, requirePARExplicit |-> FALSE,
   requestMethod |-> "plain", requestMethodExplicit |-> FALSE,
   responseMode |-> "none", responseModeExplicit |-> FALSE,
   responseType |-> "code", responseTypeExplicit |-> FALSE,
   validateIssuer |-> FALSE, validateIssuerSet |-> FALSE,
   profile |-> "OIDC", profileExplicit |-> FALSE,
   discoveryMode |-> "auto", discoveryModeExplicit |-> FALSE,
   configured |-> NoDocument, configuredSet |-> FALSE, optionErrors |-> FALSE]

defaultClientConfig == [newRP EXCEPT !.scopes = {}]

\* The options that name the client and, for New, a redirect URI are taken as
\* given; later options may still replace them.
Init ==
  /\ ctor \in Constructors
  /\ stage = "options" /\ given = 0
  /\ conf = IF ctor = "New" THEN newRP ELSE defaultClientConfig
  /\ provider = NoDocument /\ origin = "none"
  /\ auth = [method |-> "", fallback |-> FALSE]
  /\ wired = FALSE
  /\ call = [c \in Callers |-> Idle]

-----------------------------------------------------------------------------
(* Metadata documents *)

\* A document's strings and lists, merged; its booleans are not merged.
mergeProviderMissing(dst, src) ==
  [dst EXCEPT
     !.issuer = dst.issuer \/ src.issuer,
     !.at = [e \in Endpoints |->
               IF dst.at[e] = "none" THEN src.at[e] ELSE dst.at[e]],
     !.methods = IF dst.methods = {} THEN src.methods ELSE dst.methods,
     !.introspectionMethods =
        IF dst.introspectionMethods = {} THEN src.introspectionMethods
        ELSE dst.introspectionMethods]

mergeConfiguredProvider(dst, src) ==
  [mergeProviderMissing(src, dst) EXCEPT !.requirePAR = dst.requirePAR]

providerIsComplete(doc) ==
  "none" \notin {doc.at["auth"], doc.at["token"], doc.at["jwks"]}

\* What New assumes of a provider it neither discovers nor is told about.
oauthOnlyProviderMetadata ==
  [NoDocument EXCEPT
     !.issuer = TRUE,
     !.at = [e \in Endpoints |->
               IF e \in {"auth", "token", "par", "mtlsToken"}
               THEN "https" ELSE "none"]]

-----------------------------------------------------------------------------
(* Options *)

Apply(new) ==
  /\ stage = "options" /\ given < MaxOptions
  /\ given' = given + 1
  /\ conf' = new
  /\ UNCHANGED <<ctor, stage, provider, origin, auth, wired, call>>

\* The constructor returns an error, and what it has built is dropped.
Refuse ==
  /\ stage' = "refused" /\ given' = 0
  /\ conf' = newRP /\ provider' = NoDocument /\ origin' = "none"
  /\ auth' = [method |-> "", fallback |-> FALSE]
  /\ UNCHANGED <<ctor, wired, call>>

\* An option of the authorization code flow: the other constructors refuse it.
AuthCodeOption(new) ==
  \/ ctor = "New" /\ Apply(new)
  \/ ctor # "New" /\ stage = "options" /\ given < MaxOptions /\ Refuse

WithClientID == Apply([conf EXCEPT !.clientID = FALSE])
WithRedirectURI == AuthCodeOption([conf EXCEPT !.redirectURI = FALSE])
WithClientSecret == Apply([conf EXCEPT !.secret = TRUE])
WithClientKeyProvider(k) == Apply([conf EXCEPT !.key = k])
WithAuthMethod(m) == Apply([conf EXCEPT !.authMethod = m])
WithScopes(s) == Apply([conf EXCEPT !.scopes = s, !.scopesExplicit = TRUE])
WithSenderConstrain(s) == Apply([conf EXCEPT !.senderConstrain = s])
WithProviderMetadata(doc) ==
  Apply([conf EXCEPT
           !.configured = mergeConfiguredProvider(conf.configured, doc),
           !.configuredSet = TRUE])
\* WithResources, WithClaims and WithIntrospectionDecryptionKey with a value
\* they do not accept.
InvalidOption == Apply([conf EXCEPT !.optionErrors = TRUE])

WithRequirePAR(b) ==
  AuthCodeOption([conf EXCEPT !.requirePAR = b, !.requirePARExplicit = TRUE])
WithRequestMethod(r) ==
  AuthCodeOption([conf EXCEPT !.requestMethod = r,
                              !.requestMethodExplicit = TRUE])
WithResponseMode(r) ==
  AuthCodeOption([conf EXCEPT !.responseMode = r,
                              !.responseModeExplicit = TRUE])
WithResponseType ==
  AuthCodeOption([conf EXCEPT !.responseType = "code",
                              !.responseTypeExplicit = TRUE])
WithValidateAuthorizationResponseIssuer(b) ==
  AuthCodeOption([conf EXCEPT !.validateIssuer = b,
                              !.validateIssuerSet = TRUE])
WithProfile(p) ==
  AuthCodeOption([conf EXCEPT !.profile = p, !.profileExplicit = TRUE])
WithDiscoveryMode(m) ==
  AuthCodeOption([conf EXCEPT !.discoveryMode = m,
                              !.discoveryModeExplicit = TRUE])

Options ==
  \/ WithClientID \/ WithRedirectURI \/ WithClientSecret
  \/ \E k \in Keys \ {"none"} : WithClientKeyProvider(k)
  \/ \E m \in Methods : WithAuthMethod(m)
  \/ \E s \in {{"openid"}, {"api"}} : WithScopes(s)
  \/ \E s \in {"none", "dpop", "mtls"} : WithSenderConstrain(s)
  \/ \E doc \in Metadata : WithProviderMetadata(doc)
  \/ InvalidOption
  \/ \E b \in BOOLEAN : WithRequirePAR(b)
  \/ \E r \in RequestMethods : WithRequestMethod(r)
  \/ \E r \in {"query", "jwt"} : WithResponseMode(r)
  \/ WithResponseType
  \/ \E b \in BOOLEAN : WithValidateAuthorizationResponseIssuer(b)
  \/ \E p \in Profiles : WithProfile(p)
  \/ \E m \in Modes : WithDiscoveryMode(m)

-----------------------------------------------------------------------------
(* The rest of the constructor *)

Default(explicit, value, default) == IF explicit THEN value ELSE default

\* Defaults that do not ask whether PAR was set explicitly.
DefaultsOverExplicit(cf) ==
  IF cf.profileExplicit /\ cf.profile \in FAPI2
  THEN [cf EXCEPT !.requirePAR = TRUE, !.requestMethod = "signed"] ELSE cf

applyProfileDefaults(cf) ==
  LET p == cf.profile
      signed == p \in FAPI2 \cup {"FAPI1Adv"}
  IN IF ~cf.profileExplicit \/ p = "OIDC" THEN cf
     ELSE [cf EXCEPT
       !.scopes = Default(cf.scopesExplicit, cf.scopes,
                            IF p = "OAuth2" THEN cf.scopes \ {"openid"}
                            ELSE {"openid"}),
       !.requestMethod = Default(cf.requestMethodExplicit \/ ~signed,
                                 cf.requestMethod, "signed"),
       !.requirePAR = Default(cf.requirePARExplicit \/ p \notin FAPI2,
                              cf.requirePAR, TRUE),
       !.responseMode = Default(cf.responseModeExplicit \/ p # "FAPI2MS",
                                cf.responseMode, "jwt"),
       !.responseType = Default(cf.responseTypeExplicit \/ p # "FAPI1Adv",
                                cf.responseType, "code id_token"),
       !.validateIssuer = Default(cf.validateIssuerSet \/ ~isFAPI(p),
                                  cf.validateIssuer, TRUE)]

validate(cf) ==
  /\ cf.clientID
  /\ ctor = "New" => cf.redirectURI /\ cf.scopes # {}

\* The options are applied: defaults, option errors, required values.
Prepare ==
  LET cf == IF ctor = "New" THEN applyProfileDefaults(conf) ELSE conf
  IN /\ stage = "options"
     /\ IF cf.optionErrors \/ ~validate(cf) THEN Refuse
        ELSE /\ stage' = "provider" /\ conf' = cf
             /\ given' = 0
             /\ UNCHANGED <<ctor, provider, origin, auth, wired, call>>

effectiveDiscoveryMode ==
  IF conf.discoveryModeExplicit THEN conf.discoveryMode
  ELSE IF conf.profile = "OAuth2" THEN "oauth2"
  ELSE IF usesOpenIDScope(conf) THEN "oidc" ELSE "auto"

discoverProviderMetadata ==
  IF usesOpenIDScope(conf) THEN Discovered ELSE {oauthOnlyProviderMetadata}

discoverProviderMetadataForMode(mode) ==
  CASE mode = "oidc" -> Discovered
    [] mode = "oauth2" -> Servers
    [] OTHER -> discoverProviderMetadata

Resolved(doc, from) ==
  /\ provider' = doc /\ origin' = from /\ stage' = "method"
  /\ UNCHANGED <<ctor, given, conf, auth, wired, call>>

\* RP.resolveProvider.  The endpoints of a document made of configured and
\* discovered parts are not looked at again.
resolveProvider ==
  LET mode == effectiveDiscoveryMode
      own == conf.configured
  IN /\ stage = "provider" /\ ctor = "New"
     /\ IF conf.configuredSet /\ (providerIsComplete(own) \/ mode = "disabled")
        THEN IF Secure(own) THEN Resolved(own, "configured") ELSE Refuse
        ELSE \/ Refuse                       \* disabled, or discovery failed
             \/ /\ mode # "disabled"
                /\ \E d \in discoverProviderMetadataForMode(mode) :
                     IF conf.configuredSet
                     THEN Resolved(mergeProviderMissing(own, d), "merged")
                     ELSE Resolved(d, IF mode = "oauth2" THEN "server"
                                      ELSE "discovered")

\* clientConfig.resolveProviderFromDiscovery, of the other constructors: any
\* configured document, complete or not, replaces discovery.
resolveProviderFromDiscovery ==
  /\ stage = "provider" /\ ctor # "New"
  /\ IF conf.configuredSet
     THEN IF Secure(conf.configured)
          THEN Resolved(conf.configured, "configured")
          ELSE Refuse
     ELSE Refuse \/ \E d \in Discovered : Resolved(d, "discovered")

-----------------------------------------------------------------------------
(* Negotiation of the client authentication method *)

methodSupported(m, supported) ==
  \/ m = "none" \/ m \in supported
  \/ m \in TLSMethods /\ supported \cap TLSMethods # {}

\* The methods in order of preference, each with the credential it is used
\* with and whether the provider must name exactly that method.
Preference ==
  << <<"keyJWT", "key", FALSE>>, <<"tls", "key", TRUE>>,
     <<"selfSigned", "key", TRUE>>, <<"tls", "key", FALSE>>,
     <<"secretJWT", "secret", FALSE>>, <<"post", "secret", FALSE>>,
     <<"basic", "secret", FALSE>>, <<"post", "key", FALSE>>,
     <<"none", "any", FALSE>> >>

Preferred(cf, supported) ==
  LET credentials == {"any"} \cup (IF cf.secret THEN {"secret"} ELSE {})
                             \cup (IF cf.key # "none" THEN {"key"} ELSE {})
      fits == {i \in DOMAIN Preference :
                 /\ Preference[i][2] \in credentials
                 /\ IF Preference[i][3] THEN Preference[i][1] \in supported
                    ELSE methodSupported(Preference[i][1], supported)}
  IN Preference[Min(fits)][1]

validateResolvedAuthMethod(cf, m) ==
  CASE m \in {"basic", "post", "secretJWT"} -> cf.secret
    [] m = "keyJWT" -> cf.key # "none"
    [] m \in TLSMethods -> hasCertificate(cf)
    [] OTHER -> TRUE

\* Mutant: an explicit method that is not compared with the provider's list.
SelectUnsupported(cf, supported) ==
  LET m == IF cf.authMethod # "" THEN cf.authMethod
           ELSE IF supported = {} THEN "post" ELSE Preferred(cf, supported)
  IN IF validateResolvedAuthMethod(cf, m)
     THEN {[method |-> m, fallback |-> supported = {} /\ cf.authMethod = ""]}
     ELSE {}

\* The outcome of a negotiation; {} when it fails.
selectAuthMethodFromSupported(cf, supported) ==
  LET m == IF cf.authMethod # "" THEN cf.authMethod
           ELSE IF supported = {} THEN "post" ELSE Preferred(cf, supported)
      guess == supported = {} /\ cf.authMethod = ""
  IN IF /\ supported # {} => methodSupported(m, supported)
        /\ validateResolvedAuthMethod(cf, m)
     THEN {[method |-> m, fallback |-> guess]} ELSE {}

introspectionList(doc) ==
  IF doc.introspectionMethods = {} THEN doc.methods
  ELSE doc.introspectionMethods

\* resolveAuthMethod and resolveIntrospectionAuthMethod; a grant manager
\* negotiates nothing.
ResolveAuthMethod ==
  LET list == IF ctor = "NewIntrospector" THEN introspectionList(provider)
              ELSE provider.methods
      found == IF ctor = "NewGrantManager" THEN {auth}
               ELSE selectAuthMethodFromSupported(conf, list)
  IN /\ stage = "method"
     /\ IF found = {} THEN Refuse
        ELSE /\ auth' \in found /\ stage' = "checks"
             /\ UNCHANGED <<ctor, given, conf, provider, origin, wired, call>>

-----------------------------------------------------------------------------
(* Endpoints, certificates and proofs *)

usesMTLS == auth.method \in TLSMethods \/ conf.senderConstrain = "mtls"
Alias(doc, alias, plain) == IF doc.at[alias] # "none" THEN alias ELSE plain

parEndpoint(doc, m) == IF m \in TLSMethods THEN Alias(doc, "mtlsPAR", "par")
                       ELSE "par"
effectiveTokenEndpoint(doc) ==
  IF usesMTLS THEN Alias(doc, "mtlsToken", "token") ELSE "token"
introspectionEndpoint(doc) ==
  IF usesMTLS THEN Alias(doc, "mtlsIntrospection", "introspection")
  ELSE "introspection"

\* Proofs only with the methods that are known to go with DPoP.
DPoPByMethod ==
  /\ conf.senderConstrain = "dpop" /\ conf.key # "none"
  /\ auth.method \in FAPIMethods

\* RP.shouldUseDPoPWithAuthMethod, for the requests of the login itself, and
\* clientConfig.shouldUseDPoPForMethod, for all other requests.
shouldUseDPoPWithAuthMethod ==
  conf.senderConstrain = "dpop" /\ conf.key # "none"
shouldUseDPoPForMethod(m) ==
  /\ conf.key # "none" /\ m \in FAPIMethods
  /\ conf.senderConstrain \in {"none", "dpop"}

\* The certificate is put on the default transport, or on a copy of the
\* caller's.  A RoundTripper of another kind, and a transport that chooses
\* certificates itself, are left alone by the code, as the consumer's
\* responsibility; a client with one is not modelled.
wireMTLSClientCertificate ==
  LET m == IF auth.method = "" THEN conf.authMethod ELSE auth.method
  IN hasCertificate(conf) /\ (m \in TLSMethods \/ conf.senderConstrain = "mtls")

validateExplicitDPoP ==
  /\ conf.senderConstrain = "dpop" => conf.key # "none"
  /\ conf.senderConstrain = "mtls" => hasCertificate(conf)

validateProviderReadyForAuthorizationURL ==
  /\ provider.at["auth"] # "none"
  /\ conf.requirePAR => provider.at[parEndpoint(provider, auth.method)] # "none"

\* Mutant: the check of the request's protection and of the key, not of the
\* method.
FAPIWithoutMethod ==
  isFAPI(conf.profile) =>
    /\ \/ conf.requirePAR
       \/ conf.profile \notin FAPI2 /\ conf.requestMethod = "signed"
    /\ conf.senderConstrain # "none"
    /\ conf.key # "weak"

validateFAPIProfileRequirements ==
  isFAPI(conf.profile) =>
    /\ auth.method \in FAPIMethods
    /\ \/ conf.requirePAR
       \/ conf.profile \notin FAPI2 /\ conf.requestMethod = "signed"
    /\ conf.senderConstrain # "none"
    /\ conf.key # "weak"

\* Mutant: without the check of the request method.
UnknownAccepted ==
  /\ conf.profile = "FAPI2MS" /\ conf.responseModeExplicit
  /\ conf.responseMode # "jwt"

\* The checks of New on what was set explicitly.
ProfileContradicted ==
  \/ conf.requestMethodExplicit /\ conf.requestMethod = "unknown"
  \/ /\ conf.profile = "FAPI2MS" /\ conf.responseModeExplicit
     /\ conf.responseMode # "jwt"
  \/ /\ isFAPI(conf.profile) /\ conf.profile # "PlainFAPI"
     /\ conf.validateIssuerSet /\ ~conf.validateIssuer
  \/ conf.profile = "FAPI1Adv" /\ conf.senderConstrain = "dpop"

RPAccepted ==
  /\ validateProviderReadyForAuthorizationURL
  /\ ~ProfileContradicted
  /\ validateFAPIProfileRequirements
IntrospectorAccepted == provider.at[introspectionEndpoint(provider)] # "none"
GrantManagerAccepted == provider.at["grants"] # "none"

Accepted ==
  /\ validateExplicitDPoP
  /\ ctor = "New" => RPAccepted
  /\ ctor = "NewIntrospector" => IntrospectorAccepted
  /\ ctor = "NewGrantManager" => GrantManagerAccepted

Finish ==
  /\ stage = "checks"
  /\ IF ~Accepted THEN Refuse
     ELSE /\ stage' = "ready" /\ wired' = wireMTLSClientCertificate
          /\ UNCHANGED <<ctor, given, conf, provider, origin, auth, call>>

Construct ==
  \/ Prepare \/ resolveProvider \/ resolveProviderFromDiscovery
  \/ ResolveAuthMethod \/ Finish

-----------------------------------------------------------------------------
(* Requests of the client *)

Proceed(c, next) ==
  /\ call' = [call EXCEPT ![c] = next]
  /\ UNCHANGED <<ctor, stage, given, conf, provider, origin, wired>>

Start(c, ctors) == stage = "ready" /\ ctor \in ctors /\ call[c].pc = "idle"

Request(kind, doc, to, m, dpop) ==
  [kind |-> kind, to |-> to, url |-> doc.at[to], method |-> m, dpop |-> dpop,
   signedBy |-> "nobody"]

\* authorizationURL negotiates again, and reads the outcome in another step.
AuthorizationURL(c) ==
  /\ Start(c, {"New"})
  /\ auth' \in selectAuthMethodFromSupported(conf, provider.methods)
  /\ Proceed(c, [Idle EXCEPT !.pc = "negotiated", !.doc = provider])

ReadMethod(c) ==
  /\ call[c].pc = "negotiated"
  /\ Proceed(c, [call[c] EXCEPT !.pc = "chosen", !.method = auth.method])
  /\ UNCHANGED auth

shouldUsePAR ==
  \/ conf.requirePAR
  \/ /\ provider.requirePAR
     /\ provider.at[parEndpoint(provider, auth.method)] # "none"

\* buildSignedRequestObject: the key signs the request object, else the secret.
Signer ==
  IF conf.requestMethod # "signed" THEN "nobody"
  ELSE IF conf.key # "none" THEN "key"
  ELSE IF conf.secret THEN "secret" ELSE "none"

\* A pushed request carries an assertion or the certificate; it never carries
\* the client secret itself.
SendAuthorization(c) ==
  LET m == call[c].method
      pushed == IF m \in FAPIMethods \cup {"secretJWT"} THEN m ELSE "none"
      to == IF shouldUsePAR THEN parEndpoint(provider, m) ELSE "auth"
      request ==
        [(IF shouldUsePAR
          THEN Request("par", provider, to, pushed, shouldUseDPoPWithAuthMethod)
          ELSE Request("redirect", provider, to, "none", FALSE))
         EXCEPT !.signedBy = Signer]
  IN /\ call[c].pc = "chosen"
     /\ Proceed(c, IF "none" \in {provider.at[to], Signer} THEN Idle
                   ELSE [call[c] EXCEPT !.pc = "sent", !.request = request])
     /\ UNCHANGED auth

\* providerForCallback: a provider without an issuer is discovered again, and
\* a list of methods is negotiated again.
HandleCallback(c) ==
  /\ Start(c, {"New"})
  /\ \E doc \in IF provider.issuer THEN {provider}
                ELSE discoverProviderMetadata :
       /\ IF doc.methods = {} THEN UNCHANGED auth
          ELSE auth' \in selectAuthMethodFromSupported(conf, doc.methods)
       /\ Proceed(c, [Idle EXCEPT !.pc = "located", !.doc = doc])

\* The token endpoint of a callback, or of another grant.
TokenEndpoint(c) ==
  LET callback == call[c].pc = "located"
      doc == IF callback THEN call[c].doc ELSE provider
      to == effectiveTokenEndpoint(doc)
  IN /\ callback \/ Start(c, {"New", "NewClientCredentials"})
     /\ Proceed(c, IF doc.at[to] = "none" THEN Idle
                   ELSE [Idle EXCEPT !.pc = "endpoint", !.doc = doc,
                                     !.endpoint = to])
     /\ UNCHANGED auth

\* One request of a grant: by an RP, and by a client credentials client.
exchangeTokenOnceAs(c, m) ==
  Request("token", call[c].doc, call[c].endpoint, m,
          shouldUseDPoPWithAuthMethod)
requestToken(c, m) ==
  Request("token", call[c].doc, call[c].endpoint, m,
          shouldUseDPoPForMethod(auth.method))
TokenRequest(c, m) ==
  IF ctor = "New" THEN exchangeTokenOnceAs(c, m) ELSE requestToken(c, m)

executeTokenGrant(c) ==
  /\ call[c].pc = "endpoint"
  /\ Proceed(c, [call[c] EXCEPT !.pc = "sent", !.fallback = auth.fallback,
                                !.request = TokenRequest(c, auth.method)])
  /\ UNCHANGED auth

\* The request is over and the negotiated method stays as it is.
Done(c) == UNCHANGED auth /\ Proceed(c, Idle)

\* A guessed method that was refused is followed by HTTP Basic.
FallsBack(c) == call[c].fallback /\ call[c].request.method = "post"

\* A token settles a guessed method.
TokenAnswer(c) ==
  /\ call[c].request.kind = "token"
  /\ \/ /\ auth' = IF call[c].fallback
                    THEN [method |-> call[c].request.method, fallback |-> FALSE]
                    ELSE auth
        /\ Proceed(c, Idle)
     \/ Done(c)
     \/ /\ FallsBack(c) /\ UNCHANGED auth
        /\ Proceed(c, [call[c] EXCEPT !.request = TokenRequest(c, "basic")])

introspectionAuthMethod ==
  LET list == provider.introspectionMethods
      found == selectAuthMethodFromSupported(conf, list)
  IN IF list # {} /\ found # {} THEN CHOOSE a \in found : TRUE ELSE auth

introspectTokenOnce(to, m) ==
  Request("introspection", provider, to, m, shouldUseDPoPForMethod(m))

IntrospectToken(c) ==
  LET to == introspectionEndpoint(provider)
      a == introspectionAuthMethod
  IN /\ Start(c, {"New", "NewIntrospector"})
     /\ provider.at[to] # "none"
     /\ Proceed(c, [Idle EXCEPT !.pc = "sent", !.doc = provider,
                      !.fallback = a.fallback,
                      !.request = introspectTokenOnce(to, a.method)])
     /\ UNCHANGED auth

\* Unlike a token grant, an introspection does not remember the outcome.
IntrospectionAnswer(c) ==
  LET r == call[c].request
  IN /\ r.kind = "introspection"
     /\ \/ Done(c)
        \/ /\ FallsBack(c) /\ UNCHANGED auth
           /\ Proceed(c, [call[c] EXCEPT
                             !.request = introspectTokenOnce(r.to, "basic")])

\* QueryGrant and RevokeGrant carry an access token and no authentication.
GrantRequest(c) ==
  /\ Start(c, {"New", "NewGrantManager"})
  /\ provider.at["grants"] # "none"
  /\ Proceed(c, [Idle EXCEPT !.pc = "sent", !.doc = provider,
                   !.request = Request("grant", provider, "grants", "none",
                                       shouldUseDPoPForMethod(auth.method))])
  /\ UNCHANGED auth

\* Answers that leave the client as it was.
OtherAnswer(c) ==
  call[c].request.kind \in {"par", "redirect", "grant"} /\ Done(c)

Use(c) ==
  \/ AuthorizationURL(c) \/ ReadMethod(c) \/ SendAuthorization(c)
  \/ HandleCallback(c) \/ TokenEndpoint(c) \/ executeTokenGrant(c)
  \/ TokenAnswer(c) \/ IntrospectToken(c) \/ IntrospectionAnswer(c)
  \/ GrantRequest(c) \/ OtherAnswer(c)

Next == Options \/ Construct \/ \E c \in Callers : Use(c)

Spec == Init /\ [][Next]_vars

-----------------------------------------------------------------------------
(* Properties *)

Requests ==
  [kind : {"none", "redirect", "par", "token", "introspection", "grant"},
   to : Endpoints \cup {"none"}, url : URLs, method : Methods \cup {""},
   dpop : BOOLEAN, signedBy : {"nobody", "key", "secret"}]

\* The state is well formed, and the request method of a client that New
\* returned is one it knows: a misspelt one is refused, never read as "plain".
TypeOK ==
  /\ ctor \in Constructors
  /\ stage \in {"options", "provider", "method", "checks", "ready", "refused"}
  /\ given \in 0..MaxOptions
  /\ conf.authMethod \in Methods \cup {""} /\ conf.key \in Keys
  /\ conf.profile \in Profiles /\ conf.configured \in Documents
  /\ provider \in Documents
  /\ origin \in {"none", "configured", "discovered", "merged", "server"}
  /\ auth \in [method : Methods \cup {""}, fallback : BOOLEAN]
  /\ wired \in BOOLEAN
  /\ \A c \in Callers :
       /\ call[c].pc \in {"idle", "negotiated", "chosen", "located", "endpoint",
                          "sent"}
       /\ call[c].request \in Requests
  /\ stage = "ready" => conf.requestMethod # "unknown"

InFlight(kinds) ==
  {call[c].request : c \in {d \in Callers : call[d].request.kind \in kinds}}

\* The provider is known by its issuer, so that callbacks use the document the
\* constructor checked.
Pinned == provider.issuer

\* A client of a FAPI profile pushes requests and redeems codes by an
\* asymmetric method with a permitted key, whatever the goroutines that share
\* the negotiated method do, if its provider is pinned: the check of the
\* constructor (validateFAPIProfileRequirements) runs once, negotiation runs
\* with every request.
FAPIAuthentication ==
  isFAPI(conf.profile) /\ Pinned =>
    \A r \in InFlight({"par", "token"}) :
      r.method \in FAPIMethods /\ conf.key \in {"plain", "cert"}

\* The method of a request is one the client has the credential for, and a
\* TLS method goes out on a connection that presents the certificate
\* (wireMTLSClientCertificate).  An introspection by an RP is left out: its
\* method is chosen after the connection is set up.  So is an RP whose provider
\* is not pinned.  A pushed request by "basic" or "post" carries no credential
\* and is one by "none" here.
CredentialPresented ==
  Pinned \/ ctor # "New" =>
    \A r \in InFlight({"par", "token"})
          \cup (IF ctor = "New" THEN {} ELSE InFlight({"introspection"})) :
      /\ r.method \in {"basic", "post", "secretJWT"} => conf.secret
      /\ r.method = "keyJWT" => conf.key # "none"
      /\ r.method \in TLSMethods => wired

\* A login that asks for sender-constrained tokens gets them: with DPoP every
\* pushed request and grant of an RP carries a proof, whatever its
\* authentication method, and with mTLS every grant goes out with the
\* certificate, to the alias of the token endpoint where there is one.
SenderConstrained ==
  ctor = "New" =>
    /\ conf.senderConstrain = "dpop" =>
         \A r \in InFlight({"par", "token"}) : r.dpop
    /\ conf.senderConstrain = "mtls" =>
         \A c \in Callers : call[c].request.kind = "token" =>
           /\ wired
           /\ call[c].doc.at["mtlsToken"] # "none" =>
                call[c].request.to = "mtlsToken"

\* What the profile demands of an authorization request holds of every one
\* sent: pushed under FAPI 2.0, else pushed or signed by the client's key; a
\* JWT response mode under message signing; and the answer's issuer is going
\* to be checked, except under PlainFAPI.
ProfileProtected ==
  isFAPI(conf.profile) =>
    \A r \in InFlight({"redirect", "par"}) :
      /\ r.kind = "par" \/ (conf.profile \notin FAPI2 /\ r.signedBy = "key")
      /\ conf.profile = "FAPI2MS" => conf.responseMode = "jwt"
      /\ conf.profile # "PlainFAPI" => conf.validateIssuer

\* With a pinned provider a grant authenticates by a method published for the
\* token endpoint, the two TLS methods and "none" apart; HTTP Basic is tried
\* after a refusal only where the provider published nothing.
PublishedMethod ==
  Pinned => \A c \in Callers :
    LET published == call[c].doc.methods
        r == call[c].request
    IN r.kind = "token" /\ published # {} =>
         methodSupported(r.method, published)

\* Credentials go to endpoints that were checked.  Left out are documents of
\* OAuth discovery and documents merged from configured and discovered parts,
\* of which the code does not check every endpoint.
EndpointsChecked ==
  origin \in {"configured", "discovered"} =>
    \A c \in Callers : call[c].request.url # "http"

\* What a FAPI profile demands holds of every request that is sent.
FAPIRequests == FAPIAuthentication /\ ProfileProtected

\* A request fits what is known of the client and of the provider: the
\* credential, the published methods and the checked endpoints, each as far as
\* its conjunct says.
RequestsFit == CredentialPresented /\ PublishedMethod /\ EndpointsChecked

\* An option the caller gave is never replaced by a default of the profile,
\* wherever in the list of options the profile stands: the constructor keeps
\* the value or refuses.
ExplicitKept ==
  [][stage' \notin {"options", "refused"} =>
       /\ conf.scopesExplicit => conf'.scopes = conf.scopes
       /\ conf.requirePARExplicit => conf'.requirePAR = conf.requirePAR
       /\ conf.requestMethodExplicit => conf'.requestMethod = conf.requestMethod
       /\ conf.responseModeExplicit => conf'.responseMode = conf.responseMode
       /\ conf.responseTypeExplicit => conf'.responseType = conf.responseType
       /\ conf.validateIssuerSet =>
            conf'.validateIssuer = conf.validateIssuer]_vars
=============================================================================
