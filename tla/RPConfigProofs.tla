--------------------------- MODULE RPConfigProofs ---------------------------
(***************************************************************************)
(* What RPConfig keeps true of a client, for every set of goroutines and   *)
(* every provider: its checks run once, in the constructor, and hold of    *)
(* every request although negotiation runs again with each of them.        *)
(***************************************************************************)
EXTENDS RPConfig, TLAPS

-----------------------------------------------------------------------------
(* The inductive invariant *)

Config ==
  [clientID : BOOLEAN, redirectURI : BOOLEAN, secret : BOOLEAN, key : Keys,
   authMethod : Methods \cup {""}, scopes : SUBSET {"openid", "api"},
   scopesExplicit : BOOLEAN, senderConstrain : {"none", "dpop", "mtls"},
   requirePAR : BOOLEAN, requirePARExplicit : BOOLEAN,
   requestMethod : RequestMethods, requestMethodExplicit : BOOLEAN,
   responseMode : {"none", "query", "jwt"}, responseModeExplicit : BOOLEAN,
   responseType : {"code", "code id_token"}, responseTypeExplicit : BOOLEAN,
   validateIssuer : BOOLEAN, validateIssuerSet : BOOLEAN,
   profile : Profiles, profileExplicit : BOOLEAN,
   discoveryMode : Modes, discoveryModeExplicit : BOOLEAN,
   configured : Documents, configuredSet : BOOLEAN, optionErrors : BOOLEAN]

\* A configuration cf of constructor ct: what was not set explicitly has its
\* default, and only New knows profiles and request methods.
ConfigOK(ct, cf) ==
  /\ cf \in Config
  /\ cf.profileExplicit \/ cf.profile = "OIDC"
  /\ cf.requestMethodExplicit \/ cf.requestMethod # "unknown"
  /\ ct # "New" => cf.profile = "OIDC" /\ cf.requestMethod = "plain"

\* The defaults of the profile have been filled in.
Defaulted(cf) ==
  /\ cf.profile = "FAPI2MS" =>
       cf.responseModeExplicit \/ cf.responseMode = "jwt"
  /\ isFAPI(cf.profile) => cf.validateIssuerSet \/ cf.validateIssuer

\* A document of a checked origin has no insecure endpoint.
Checked(from, doc) == from \in {"configured", "discovered"} => Secure(doc)

\* The list a constructor negotiates with.
Published(ct, pv) ==
  IF ct = "NewIntrospector" THEN introspectionList(pv) ELSE pv.methods

\* The constructors whose clients make grants.
Granting == {"New", "NewClientCredentials"}

\* A client (ct, cf, pv, w) may use method m: it has the credential; if the
\* document is the one the constructor checked, the certificate is on the
\* connection, the profile permits m, and the provider published it.
MethodOK(m, ct, cf, pv, w) ==
  /\ m \in Methods \cup {""}
  /\ validateResolvedAuthMethod(cf, m)
  /\ pv.issuer \/ ct # "New" => (m \in TLSMethods => w)
  /\ pv.issuer /\ isFAPI(cf.profile) => m \in FAPIMethods
  /\ pv.issuer /\ ct \in Granting /\ pv.methods # {} =>
       methodSupported(m, pv.methods)

\* A guess was made because nothing is published.
GuessOK(guess, ct, pv) ==
  guess /\ pv.issuer /\ ct \in Granting => pv.methods = {}

\* What the checks of the constructor have established.
ConstructorChecked(ct, cf, pv, w) ==
  /\ cf.requestMethod # "unknown"
  /\ ct = "New" /\ cf.senderConstrain = "dpop" => cf.key # "none"
  /\ ct = "New" /\ cf.senderConstrain = "mtls" => w
  /\ isFAPI(cf.profile) =>
       /\ cf.key \in {"plain", "cert"}
       /\ \/ cf.requirePAR
          \/ cf.profile \notin FAPI2 /\ cf.requestMethod = "signed"
       /\ cf.profile = "FAPI2MS" => cf.responseMode = "jwt"
       /\ cf.profile # "PlainFAPI" => cf.validateIssuer
  /\ ct # "NewGrantManager" =>
       \A a \in selectAuthMethodFromSupported(cf, Published(ct, pv)) :
         MethodOK(a.method, ct, cf, pv, w)

\* A token goes to the alias for mTLS if the client uses mTLS and there is one.
AliasUsed(cf, doc, to) ==
  cf.senderConstrain = "mtls" /\ doc.at["mtlsToken"] # "none" =>
    to = "mtlsToken"

CallState ==
  [pc : {"idle", "negotiated", "chosen", "located", "endpoint", "sent"},
   doc : Documents, method : Methods \cup {""}, fallback : BOOLEAN,
   endpoint : Endpoints \cup {"none"}, request : Requests]

RequestOK(r, ct, cf, pv, w) ==
  /\ r.kind \in {"par", "token"} \/ (ct # "New" /\ r.kind = "introspection") =>
       MethodOK(r.method, ct, cf, pv, w)
  /\ ct = "New" /\ cf.senderConstrain = "dpop" =>
       (r.kind \in {"par", "token"} => r.dpop)
  /\ isFAPI(cf.profile) /\ r.kind \in {"redirect", "par"} =>
       r.kind = "par" \/ (cf.profile \notin FAPI2 /\ r.signedBy = "key")

\* The call s of a goroutine.
CallOK(s, ct, cf, pv, w, from) ==
  /\ s \in CallState
  /\ s.pc = "sent" <=> s.request.kind # "none"
  /\ s.pc = "chosen" => MethodOK(s.method, ct, cf, pv, w)
  /\ Checked(from, s.doc)
  /\ from \in {"configured", "discovered"} => s.request.url # "http"
  /\ pv.issuer /\ s.pc # "idle" => s.doc = pv
  /\ s.pc \in {"located", "endpoint"} => ct \in Granting
  /\ s.pc = "endpoint" =>
       s.endpoint \in Endpoints /\ AliasUsed(cf, s.doc, s.endpoint)
  /\ RequestOK(s.request, ct, cf, pv, w)
  /\ s.request.kind = "introspection" =>
       ct \in {"New", "NewIntrospector"} /\ s.request.to \in Endpoints
  /\ s.request.kind = "token" =>
       /\ ct \in Granting
       /\ GuessOK(s.fallback, ct, pv)
       /\ s.endpoint \in Endpoints
       /\ AliasUsed(cf, s.doc, s.endpoint) /\ s.request.to = s.endpoint

\* The variables of the constructor, before and after it returned.
Stages == {"options", "provider", "method", "checks", "ready", "refused"}
Building(st, gv, ct, cf, pv, from, a, w) ==
  /\ st \in Stages /\ gv \in 0..MaxOptions /\ ct \in Constructors
  /\ ConfigOK(ct, cf)
  /\ pv \in Documents
  /\ from \in {"none", "configured", "discovered", "merged", "server"}
  /\ a \in [method : Methods \cup {""}, fallback : BOOLEAN]
  /\ w \in BOOLEAN
  /\ st \notin {"options", "refused"} => Defaulted(cf)
  /\ Checked(from, pv)
  /\ st = "checks" =>
       IF ct = "NewGrantManager" THEN a.method = "" /\ ~a.fallback
       ELSE a \in selectAuthMethodFromSupported(cf, Published(ct, pv))
  /\ st \in {"options", "provider", "method"} => a.method = "" /\ ~a.fallback
  /\ st = "ready" =>
       /\ ConstructorChecked(ct, cf, pv, w)
       /\ MethodOK(a.method, ct, cf, pv, w)
       /\ GuessOK(a.fallback, ct, pv)

Inv ==
  /\ Building(stage, given, ctor, conf, provider, origin, auth, wired)
  /\ call \in [Callers -> CallState]
  /\ stage # "ready" => \A c \in Callers : call[c] = Idle
  /\ \A c \in Callers : CallOK(call[c], ctor, conf, provider, wired, origin)

-----------------------------------------------------------------------------
(* Negotiation *)

LEMMA PreferenceEntry ==
  /\ DOMAIN Preference = 1..9
  /\ \A i \in 1..9 : Preference[i][1] \in Methods
  /\ Preference[9][1] = "none" /\ Preference[9][2] = "any"
  /\ ~Preference[9][3]
<1>1. DOMAIN Preference = 1..9
  BY DEF Preference
<1>2. /\ Preference[1][1] = "keyJWT" /\ Preference[2][1] = "tls"
      /\ Preference[3][1] = "selfSigned" /\ Preference[4][1] = "tls"
      /\ Preference[5][1] = "secretJWT" /\ Preference[6][1] = "post"
      /\ Preference[7][1] = "basic" /\ Preference[8][1] = "post"
      /\ Preference[9][1] = "none"
  BY DEF Preference
<1>3. Preference[9] = <<"none", "any", FALSE>>
  BY DEF Preference
<1>4. \A i \in 1..9 : Preference[i][1] \in Methods
  BY <1>2 DEF Methods
<1> QED
  BY <1>1, <1>3, <1>4

\* Every nonempty set of positions in the order of preference has a first one.
LEMMA FirstOfNine ==
  ASSUME NEW S \in SUBSET (1..9), 9 \in S
  PROVE  Min(S) \in 1..9
<1>1. \E x \in S : \A y \in S : x <= y
  BY SMT
<1> QED
  BY <1>1 DEF Min

\* Preferred ends with "none", so that it always finds a method.
LEMMA PreferredMethod ==
  ASSUME NEW cf, NEW supported
  PROVE  Preferred(cf, supported) \in Methods
<1> DEFINE credentials == {"any"} \cup (IF cf.secret THEN {"secret"} ELSE {})
                             \cup (IF cf.key # "none" THEN {"key"} ELSE {})
           fits == {i \in DOMAIN Preference :
                 /\ Preference[i][2] \in credentials
                 /\ IF Preference[i][3] THEN Preference[i][1] \in supported
                    ELSE methodSupported(Preference[i][1], supported)}
<1>1. "any" \in credentials
  OBVIOUS
<1> HIDE DEF credentials
<1>2. 9 \in fits /\ fits \in SUBSET (1..9)
  BY <1>1, PreferenceEntry DEF methodSupported
<1>3. Preferred(cf, supported) = Preference[Min(fits)][1]
  BY DEF Preferred, credentials
<1> HIDE DEF fits
<1> QED
  BY <1>2, <1>3, FirstOfNine, PreferenceEntry

\* A negotiation has at most one outcome, which the client has the credential
\* for and the provider supports; it guesses only if nothing is published.
LEMMA SelectOne ==
  ASSUME NEW cf, cf.authMethod \in Methods \cup {""}, NEW supported,
         NEW a \in selectAuthMethodFromSupported(cf, supported)
  PROVE  /\ a \in [method : Methods, fallback : BOOLEAN]
         /\ validateResolvedAuthMethod(cf, a.method)
         /\ supported # {} => methodSupported(a.method, supported)
         /\ a.fallback => supported = {}
         /\ \A b \in selectAuthMethodFromSupported(cf, supported) : b = a
<1> DEFINE m == IF cf.authMethod # "" THEN cf.authMethod
                ELSE IF supported = {} THEN "post" ELSE Preferred(cf, supported)
           guess == supported = {} /\ cf.authMethod = ""
           Fits == /\ supported # {} => methodSupported(m, supported)
                   /\ validateResolvedAuthMethod(cf, m)
<1>1. m \in Methods
  BY PreferredMethod DEF Methods
<1>2. guess \in BOOLEAN /\ (guess => supported = {})
  OBVIOUS
<1>3. selectAuthMethodFromSupported(cf, supported) =
        IF Fits THEN {[method |-> m, fallback |-> guess]} ELSE {}
  BY DEF selectAuthMethodFromSupported
<1> HIDE DEF m, guess
<1>4. Fits
  <2> SUFFICES ASSUME ~Fits PROVE FALSE
    OBVIOUS
  <2> HIDE DEF Fits
  <2> QED
    BY <1>3
<1>5. selectAuthMethodFromSupported(cf, supported) =
        {[method |-> m, fallback |-> guess]}
  <2> HIDE DEF Fits
  <2> QED
    BY <1>3, <1>4
<1>6. a = [method |-> m, fallback |-> guess]
  BY <1>5
<1>7. \A b \in selectAuthMethodFromSupported(cf, supported) : b = a
  BY <1>5, <1>6
<1> QED
  BY <1>1, <1>2, <1>4, <1>6, <1>7

-----------------------------------------------------------------------------
(* Metadata documents *)

LEMMA NoDocumentTyped ==
  NoDocument \in Documents /\ Secure(NoDocument)
BY DEF NoDocument, Documents, URLs, Secure

LEMMA MergeTyped ==
  ASSUME NEW a \in Documents, NEW b \in Documents
  PROVE  mergeProviderMissing(a, b) \in Documents
<1> DEFINE at == [e \in Endpoints |->
                    IF a.at[e] = "none" THEN b.at[e] ELSE a.at[e]]
           methods == IF a.methods = {} THEN b.methods ELSE a.methods
           lists == IF a.introspectionMethods = {} THEN b.introspectionMethods
                    ELSE a.introspectionMethods
           issuer == a.issuer \/ b.issuer
<1>1. /\ at \in [Endpoints -> URLs] /\ methods \in SUBSET Methods
      /\ lists \in SUBSET Methods /\ issuer \in BOOLEAN
  BY DEF Documents
<1>2. mergeProviderMissing(a, b) =
        [a EXCEPT !.issuer = issuer, !.at = at, !.methods = methods,
                  !.introspectionMethods = lists]
  BY DEF mergeProviderMissing
<1> HIDE DEF at, methods, lists, issuer
<1> QED
  BY <1>1, <1>2 DEF Documents

LEMMA ConfiguredTyped ==
  ASSUME NEW a \in Documents, NEW b \in Documents
  PROVE  mergeConfiguredProvider(a, b) \in Documents
<1> DEFINE d == mergeProviderMissing(b, a)
<1>1. d \in Documents
  BY MergeTyped
<1>2. mergeConfiguredProvider(a, b) = [d EXCEPT !.requirePAR = a.requirePAR]
  BY DEF mergeConfiguredProvider
<1> HIDE DEF d
<1> QED
  BY <1>1, <1>2 DEF Documents

LEMMA AssumedTyped ==
  oauthOnlyProviderMetadata \in Documents /\ Secure(oauthOnlyProviderMetadata)
<1> DEFINE at == [e \in Endpoints |->
                    IF e \in {"auth", "token", "par", "mtlsToken"}
                    THEN "https" ELSE "none"]
<1>1. at \in [Endpoints -> URLs] /\ \A e \in Endpoints : at[e] # "http"
  BY DEF URLs
<1>2. oauthOnlyProviderMetadata = [NoDocument EXCEPT !.issuer = TRUE, !.at = at]
  BY DEF oauthOnlyProviderMetadata
<1> HIDE DEF at
<1> QED
  BY <1>1, <1>2, NoDocumentTyped DEF Documents, Secure

\* Everything OpenID discovery, or the assumption in its place, comes up with.
LEMMA DiscoveredTyped ==
  \A d \in discoverProviderMetadata : d \in Documents /\ Secure(d)
BY RPConfigAssumption, AssumedTyped DEF discoverProviderMetadata


-----------------------------------------------------------------------------
(* Configurations *)

LEMMA NewConfig ==
  /\ \A ct : ConfigOK(ct, newRP)
  /\ \A ct : ConfigOK(ct, defaultClientConfig)
<1>1. newRP \in Config
  BY NoDocumentTyped DEF newRP, Config, Keys, RequestMethods, Profiles, Modes
<1>2. defaultClientConfig \in Config
  BY <1>1 DEF defaultClientConfig, Config
<1>3. newRP.profile = "OIDC" /\ newRP.requestMethod = "plain"
  BY DEF newRP
<1>4. /\ defaultClientConfig.profile = "OIDC"
      /\ defaultClientConfig.requestMethod = "plain"
  BY <1>1, <1>3 DEF defaultClientConfig, Config
<1> QED
  BY <1>1, <1>2, <1>3, <1>4 DEF ConfigOK

\* Options that every constructor takes.
LEMMA CommonOptions ==
  ASSUME NEW ct, NEW cf, ConfigOK(ct, cf)
  PROVE  /\ ConfigOK(ct, [cf EXCEPT !.clientID = FALSE])
         /\ ConfigOK(ct, [cf EXCEPT !.secret = TRUE])
         /\ \A k \in Keys : ConfigOK(ct, [cf EXCEPT !.key = k])
         /\ \A m \in Methods : ConfigOK(ct, [cf EXCEPT !.authMethod = m])
         /\ \A s \in {{"openid"}, {"api"}} :
              ConfigOK(ct, [cf EXCEPT !.scopes = s, !.scopesExplicit = TRUE])
         /\ \A s \in {"none", "dpop", "mtls"} :
              ConfigOK(ct, [cf EXCEPT !.senderConstrain = s])
         /\ \A doc \in Documents :
              ConfigOK(ct, [cf EXCEPT !.configured = doc,
                                      !.configuredSet = TRUE])
         /\ ConfigOK(ct, [cf EXCEPT !.optionErrors = TRUE])
<1> USE DEF ConfigOK, Config
<1>1. ConfigOK(ct, [cf EXCEPT !.clientID = FALSE])
  OBVIOUS
<1>2. ConfigOK(ct, [cf EXCEPT !.secret = TRUE])
  OBVIOUS
<1>3. \A k \in Keys : ConfigOK(ct, [cf EXCEPT !.key = k])
  OBVIOUS
<1>4. \A m \in Methods : ConfigOK(ct, [cf EXCEPT !.authMethod = m])
  OBVIOUS
<1>5. \A s \in {{"openid"}, {"api"}} :
        ConfigOK(ct, [cf EXCEPT !.scopes = s, !.scopesExplicit = TRUE])
  OBVIOUS
<1>6. \A s \in {"none", "dpop", "mtls"} :
        ConfigOK(ct, [cf EXCEPT !.senderConstrain = s])
  OBVIOUS
<1>7. \A doc \in Documents :
        ConfigOK(ct, [cf EXCEPT !.configured = doc, !.configuredSet = TRUE])
  OBVIOUS
<1>8. ConfigOK(ct, [cf EXCEPT !.optionErrors = TRUE])
  OBVIOUS
<1> HIDE DEF ConfigOK, Config
<1> QED
  BY <1>1, <1>2, <1>3, <1>4, <1>5, <1>6, <1>7, <1>8

\* Options of the authorization code flow.
LEMMA FlowOptions ==
  ASSUME NEW cf, ConfigOK("New", cf)
  PROVE  /\ ConfigOK("New", [cf EXCEPT !.redirectURI = FALSE])
         /\ \A b \in BOOLEAN :
              ConfigOK("New", [cf EXCEPT !.requirePAR = b,
                                         !.requirePARExplicit = TRUE])
         /\ \A r \in RequestMethods :
              ConfigOK("New", [cf EXCEPT !.requestMethod = r,
                                         !.requestMethodExplicit = TRUE])
         /\ \A r \in {"query", "jwt"} :
              ConfigOK("New", [cf EXCEPT !.responseMode = r,
                                         !.responseModeExplicit = TRUE])
         /\ ConfigOK("New", [cf EXCEPT !.responseType = "code",
                                       !.responseTypeExplicit = TRUE])
         /\ \A b \in BOOLEAN :
              ConfigOK("New", [cf EXCEPT !.validateIssuer = b,
                                         !.validateIssuerSet = TRUE])
         /\ \A p \in Profiles :
              ConfigOK("New", [cf EXCEPT !.profile = p,
                                         !.profileExplicit = TRUE])
         /\ \A m \in Modes :
              ConfigOK("New", [cf EXCEPT !.discoveryMode = m,
                                         !.discoveryModeExplicit = TRUE])
<1> USE DEF ConfigOK, Config
<1>1. ConfigOK("New", [cf EXCEPT !.redirectURI = FALSE])
  OBVIOUS
<1>2. \A b \in BOOLEAN :
        ConfigOK("New", [cf EXCEPT !.requirePAR = b,
                                   !.requirePARExplicit = TRUE])
  OBVIOUS
<1>3. \A r \in RequestMethods :
        ConfigOK("New", [cf EXCEPT !.requestMethod = r,
                                   !.requestMethodExplicit = TRUE])
  OBVIOUS
<1>4. \A r \in {"query", "jwt"} :
        ConfigOK("New", [cf EXCEPT !.responseMode = r,
                                   !.responseModeExplicit = TRUE])
  OBVIOUS
<1>5. ConfigOK("New", [cf EXCEPT !.responseType = "code",
                                 !.responseTypeExplicit = TRUE])
  OBVIOUS
<1>6. \A b \in BOOLEAN :
        ConfigOK("New", [cf EXCEPT !.validateIssuer = b,
                                   !.validateIssuerSet = TRUE])
  <2> TAKE b \in BOOLEAN
  <2> DEFINE e == [cf EXCEPT !.validateIssuer = b, !.validateIssuerSet = TRUE]
  <2>1. e \in Config
    OBVIOUS
  <2>2. /\ e.profileExplicit = cf.profileExplicit /\ e.profile = cf.profile
        /\ e.requestMethodExplicit = cf.requestMethodExplicit
        /\ e.requestMethod = cf.requestMethod
    OBVIOUS
  <2> SUFFICES ConfigOK("New", e)
    OBVIOUS
  <2> HIDE DEF e, Config
  <2> QED
    BY <2>1, <2>2
<1>7. \A p \in Profiles :
        ConfigOK("New", [cf EXCEPT !.profile = p, !.profileExplicit = TRUE])
  OBVIOUS
<1>8. \A m \in Modes :
        ConfigOK("New", [cf EXCEPT !.discoveryMode = m,
                                   !.discoveryModeExplicit = TRUE])
  OBVIOUS
<1> HIDE DEF ConfigOK, Config
<1> QED
  BY <1>1, <1>2, <1>3, <1>4, <1>5, <1>6, <1>7, <1>8

\* applyProfileDefaults fills in what was not set, and nothing else.
LEMMA ProfileDefaults ==
  ASSUME NEW cf, ConfigOK("New", cf)
  PROVE  LET df == applyProfileDefaults(cf)
         IN /\ ConfigOK("New", df) /\ Defaulted(df)
            /\ cf.scopesExplicit => df.scopes = cf.scopes
            /\ cf.requirePARExplicit => df.requirePAR = cf.requirePAR
            /\ cf.requestMethodExplicit => df.requestMethod = cf.requestMethod
            /\ cf.responseModeExplicit => df.responseMode = cf.responseMode
            /\ cf.responseTypeExplicit => df.responseType = cf.responseType
            /\ cf.validateIssuerSet => df.validateIssuer = cf.validateIssuer
<1> DEFINE p == cf.profile
<1>1. CASE ~cf.profileExplicit \/ p = "OIDC"
  <2>1. applyProfileDefaults(cf) = cf /\ p = "OIDC"
    BY <1>1 DEF applyProfileDefaults, ConfigOK
  <2> QED
    BY <2>1 DEF Defaulted, isFAPI, FAPI2
<1>2. CASE ~(~cf.profileExplicit \/ p = "OIDC")
  <2> DEFINE
        signed == p \in FAPI2 \cup {"FAPI1Adv"}
        sc == Default(cf.scopesExplicit, cf.scopes,
                      IF p = "OAuth2" THEN cf.scopes \ {"openid"}
                      ELSE {"openid"})
        rm == Default(cf.requestMethodExplicit \/ ~signed,
                      cf.requestMethod, "signed")
        rp == Default(cf.requirePARExplicit \/ p \notin FAPI2,
                      cf.requirePAR, TRUE)
        mode == Default(cf.responseModeExplicit \/ p # "FAPI2MS",
                        cf.responseMode, "jwt")
        rt == Default(cf.responseTypeExplicit \/ p # "FAPI1Adv",
                      cf.responseType, "code id_token")
        vi == Default(cf.validateIssuerSet \/ ~isFAPI(p),
                      cf.validateIssuer, TRUE)
        df == [cf EXCEPT !.scopes = sc, !.requestMethod = rm,
                         !.requirePAR = rp, !.responseMode = mode,
                         !.responseType = rt, !.validateIssuer = vi]
  <2>1. applyProfileDefaults(cf) = df
    BY <1>2 DEF applyProfileDefaults
  <2>2. sc \in SUBSET {"openid", "api"} /\ (cf.scopesExplicit => sc = cf.scopes)
    BY DEF Default, ConfigOK, Config
  <2>3. /\ rm \in RequestMethods /\ rm \in {cf.requestMethod, "signed"}
        /\ cf.requestMethodExplicit => rm = cf.requestMethod
    BY DEF Default, ConfigOK, Config, RequestMethods
  <2>4. rp \in BOOLEAN /\ (cf.requirePARExplicit => rp = cf.requirePAR)
    BY DEF Default, ConfigOK, Config
  <2>5. /\ mode \in {"none", "query", "jwt"}
        /\ cf.responseModeExplicit => mode = cf.responseMode
        /\ p = "FAPI2MS" /\ ~cf.responseModeExplicit => mode = "jwt"
    BY DEF Default, ConfigOK, Config
  <2>6. /\ rt \in {"code", "code id_token"}
        /\ cf.responseTypeExplicit => rt = cf.responseType
    BY DEF Default, ConfigOK, Config
  <2>7. /\ vi \in BOOLEAN
        /\ cf.validateIssuerSet => vi = cf.validateIssuer
        /\ isFAPI(p) /\ ~cf.validateIssuerSet => vi
    BY DEF Default, ConfigOK, Config
  <2> HIDE DEF sc, rm, rp, mode, rt, vi
  <2>8. df \in Config
    <3> DEFINE d1 == [cf EXCEPT !.scopes = sc, !.requestMethod = rm]
               d2 == [d1 EXCEPT !.requirePAR = rp, !.responseMode = mode]
               d3 == [d2 EXCEPT !.responseType = rt, !.validateIssuer = vi]
    <3>1. d1 \in Config
      BY <2>2, <2>3 DEF ConfigOK, Config
    <3> HIDE DEF d1
    <3>2. d2 \in Config
      BY <3>1, <2>4, <2>5 DEF Config
    <3> HIDE DEF d2
    <3>3. d3 \in Config
      BY <3>2, <2>6, <2>7 DEF Config
    <3>4. df = d3
      BY DEF d1, d2
    <3> QED
      BY <3>3, <3>4
  <2>9. /\ df.scopes = sc /\ df.requestMethod = rm /\ df.requirePAR = rp
        /\ df.responseMode = mode /\ df.responseType = rt
        /\ df.validateIssuer = vi
        /\ df.profile = p /\ df.profileExplicit = cf.profileExplicit
        /\ df.requestMethodExplicit = cf.requestMethodExplicit
        /\ df.responseModeExplicit = cf.responseModeExplicit
        /\ df.validateIssuerSet = cf.validateIssuerSet
    BY DEF ConfigOK, Config
  <2> HIDE DEF df
  <2>10. ConfigOK("New", df)
    BY <2>3, <2>8, <2>9 DEF ConfigOK
  <2>11. Defaulted(df)
    BY <2>5, <2>7, <2>9 DEF Defaulted
  <2> QED
    BY <2>1, <2>2, <2>3, <2>4, <2>5, <2>6, <2>7, <2>9, <2>10, <2>11
<1> QED
  BY <1>1, <1>2

-----------------------------------------------------------------------------
(* The constructor *)

\* A goroutine without a request fits every client.
LEMMA IdleFits ==
  /\ Idle \in CallState /\ Idle.pc = "idle"
  /\ \A ct, cf, pv, w, from : CallOK(Idle, ct, cf, pv, w, from)
<1>1. NoRequest \in Requests /\ NoRequest.kind = "none" /\ NoRequest.url = "none"
  BY DEF NoRequest, Requests, Methods, URLs
<1>2. Idle \in CallState
  BY <1>1, NoDocumentTyped DEF Idle, CallState, Methods
<1>3. Idle.pc = "idle" /\ Idle.request = NoRequest /\ Idle.doc = NoDocument
  BY DEF Idle
<1>4. SUFFICES ASSUME NEW ct, NEW cf, NEW pv, NEW w, NEW from
               PROVE  CallOK(Idle, ct, cf, pv, w, from)
  BY <1>2, <1>3
<1>5. RequestOK(NoRequest, ct, cf, pv, w)
  BY <1>1 DEF RequestOK
<1>6. Checked(from, NoDocument)
  BY NoDocumentTyped DEF Checked
<1> QED
  BY <1>1, <1>2, <1>3, <1>5, <1>6 DEF CallOK

\* While the constructor runs nobody uses the client.
LEMMA ConstructorStep ==
  ASSUME Inv, stage # "ready", UNCHANGED call,
         Building(stage, given, ctor, conf, provider, origin, auth, wired)'
  PROVE  Inv'
<1>1. \A c \in Callers : call[c] = Idle /\ call'[c] = Idle
  BY DEF Inv
<1>2. call' \in [Callers -> CallState]
  BY DEF Inv
<1>3. \A c \in Callers :
        CallOK(call[c], ctor, conf, provider, wired, origin)'
  BY <1>1, IdleFits
<1> QED
  BY <1>1, <1>2, <1>3 DEF Inv

LEMMA NothingResolved ==
  [method |-> "", fallback |-> FALSE]
    \in [method : Methods \cup {""}, fallback : BOOLEAN]
OBVIOUS

LEMMA RefuseInv ==
  ASSUME Inv, stage # "ready", Refuse
  PROVE  Inv'
<1>1. /\ stage' = "refused" /\ given' = 0 /\ ctor' = ctor /\ conf' = newRP
      /\ provider' = NoDocument /\ origin' = "none" /\ wired' = wired
      /\ auth' = [method |-> "", fallback |-> FALSE] /\ call' = call
  BY DEF Refuse
<1>2. ctor \in Constructors /\ wired \in BOOLEAN
  BY DEF Inv, Building
<1>3. Checked(origin', provider')
  BY <1>1 DEF Checked
<1>4. 0 \in 0..MaxOptions
  BY RPConfigAssumption
<1>5. ConfigOK(ctor, newRP)
  BY NewConfig
<1>6. Building(stage, given, ctor, conf, provider, origin, auth, wired)'
  BY <1>1, <1>2, <1>3, <1>4, <1>5, NoDocumentTyped, NothingResolved
     DEF Building, Stages
<1> QED
  BY <1>1, <1>6, ConstructorStep

LEMMA ApplyInv ==
  ASSUME Inv, NEW new, ConfigOK(ctor, new), Apply(new)
  PROVE  Inv'
<1>1. /\ stage = "options" /\ given < MaxOptions /\ given' = given + 1
      /\ conf' = new /\ ctor' = ctor /\ stage' = stage
      /\ provider' = provider /\ origin' = origin /\ auth' = auth
      /\ wired' = wired /\ call' = call
  BY DEF Apply
<1>2. given \in 0..MaxOptions
  BY DEF Inv, Building
<1>3. given' \in 0..MaxOptions
  BY <1>1, <1>2, RPConfigAssumption
<1>4. Building(stage, given, ctor, conf, provider, origin, auth, wired)'
  BY <1>1, <1>3 DEF Inv, Building
<1> QED
  BY <1>1, <1>4, ConstructorStep

LEMMA AuthCodeOptionInv ==
  ASSUME Inv, NEW new, ctor = "New" => ConfigOK("New", new),
         AuthCodeOption(new)
  PROVE  Inv'
BY ApplyInv, RefuseInv DEF AuthCodeOption

LEMMA OptionsInv ==
  ASSUME Inv, Options
  PROVE  Inv'
<1>0. ConfigOK(ctor, conf) /\ (ctor = "New" => ConfigOK("New", conf))
  BY DEF Inv, Building
<1>1. CASE WithClientID
  BY <1>0, <1>1, CommonOptions, ApplyInv DEF WithClientID
<1>2. CASE WithClientSecret
  BY <1>0, <1>2, CommonOptions, ApplyInv DEF WithClientSecret
<1>3. CASE \E k \in Keys \ {"none"} : WithClientKeyProvider(k)
  BY <1>0, <1>3, CommonOptions, ApplyInv DEF WithClientKeyProvider
<1>4. CASE \E m \in Methods : WithAuthMethod(m)
  BY <1>0, <1>4, CommonOptions, ApplyInv DEF WithAuthMethod
<1>5. CASE \E s \in {{"openid"}, {"api"}} : WithScopes(s)
  BY <1>0, <1>5, CommonOptions, ApplyInv DEF WithScopes
<1>6. CASE \E s \in {"none", "dpop", "mtls"} : WithSenderConstrain(s)
  BY <1>0, <1>6, CommonOptions, ApplyInv DEF WithSenderConstrain
<1>7. CASE \E doc \in Metadata : WithProviderMetadata(doc)
  <2>1. PICK doc \in Metadata : WithProviderMetadata(doc)
    BY <1>7
  <2>2. mergeConfiguredProvider(conf.configured, doc) \in Documents
    BY <1>0, RPConfigAssumption, ConfiguredTyped DEF ConfigOK, Config
  <2> QED
    BY <1>0, <2>1, <2>2, CommonOptions, ApplyInv DEF WithProviderMetadata
<1>8. CASE InvalidOption
  BY <1>0, <1>8, CommonOptions, ApplyInv DEF InvalidOption
<1>9. CASE WithRedirectURI
  BY <1>0, <1>9, FlowOptions, AuthCodeOptionInv DEF WithRedirectURI
<1>10. CASE \E b \in BOOLEAN : WithRequirePAR(b)
  BY <1>0, <1>10, FlowOptions, AuthCodeOptionInv DEF WithRequirePAR
<1>11. CASE \E r \in RequestMethods : WithRequestMethod(r)
  BY <1>0, <1>11, FlowOptions, AuthCodeOptionInv DEF WithRequestMethod
<1>12. CASE \E r \in {"query", "jwt"} : WithResponseMode(r)
  BY <1>0, <1>12, FlowOptions, AuthCodeOptionInv DEF WithResponseMode
<1>13. CASE WithResponseType
  BY <1>0, <1>13, FlowOptions, AuthCodeOptionInv DEF WithResponseType
<1>14. CASE \E b \in BOOLEAN : WithValidateAuthorizationResponseIssuer(b)
  BY <1>0, <1>14, FlowOptions, AuthCodeOptionInv
     DEF WithValidateAuthorizationResponseIssuer
<1>15. CASE \E p \in Profiles : WithProfile(p)
  BY <1>0, <1>15, FlowOptions, AuthCodeOptionInv DEF WithProfile
<1>16. CASE \E m \in Modes : WithDiscoveryMode(m)
  BY <1>0, <1>16, FlowOptions, AuthCodeOptionInv DEF WithDiscoveryMode
<1> QED
  BY <1>1, <1>2, <1>3, <1>4, <1>5, <1>6, <1>7, <1>8, <1>9, <1>10, <1>11,
     <1>12, <1>13, <1>14, <1>15, <1>16 DEF Options

\* What Prepare does to the configuration, for the invariant and for the
\* options that were given explicitly.
LEMMA PreparedConfig ==
  ASSUME Inv
  PROVE  LET cf == IF ctor = "New" THEN applyProfileDefaults(conf) ELSE conf
         IN ConfigOK(ctor, cf) /\ Defaulted(cf)
<1>0. ConfigOK(ctor, conf)
  BY DEF Inv, Building
<1>1. CASE ctor = "New"
  BY <1>0, <1>1, ProfileDefaults
<1>2. CASE ctor # "New"
  BY <1>0, <1>2 DEF ConfigOK, Defaulted, isFAPI, FAPI2
<1> QED
  BY <1>1, <1>2

LEMMA PrepareInv ==
  ASSUME Inv, Prepare
  PROVE  Inv'
<1> DEFINE cf == IF ctor = "New" THEN applyProfileDefaults(conf) ELSE conf
<1>1. stage = "options" /\ ConfigOK(ctor, cf) /\ Defaulted(cf)
  BY PreparedConfig DEF Prepare
<1>2. \/ Refuse
      \/ /\ stage' = "provider" /\ conf' = cf /\ given' = 0
         /\ ctor' = ctor /\ provider' = provider /\ origin' = origin
         /\ auth' = auth /\ wired' = wired /\ call' = call
  BY DEF Prepare
<1> HIDE DEF cf
<1>3. CASE Refuse
  BY <1>1, <1>3, RefuseInv
<1>4. CASE ~Refuse
  <2>1. 0 \in 0..MaxOptions
    BY RPConfigAssumption
  <2>2. Building(stage, given, ctor, conf, provider, origin, auth, wired)'
    BY <1>1, <1>2, <1>4, <2>1 DEF Inv, Building, Stages
  <2> QED
    BY <1>1, <1>2, <1>4, <2>2, ConstructorStep
<1> QED
  BY <1>3, <1>4

LEMMA ResolvedInv ==
  ASSUME Inv, stage = "provider", NEW doc \in Documents,
         NEW from \in {"configured", "discovered", "merged", "server"},
         Checked(from, doc), Resolved(doc, from)
  PROVE  Inv'
<1>1. /\ provider' = doc /\ origin' = from /\ stage' = "method"
      /\ ctor' = ctor /\ given' = given /\ conf' = conf /\ auth' = auth
      /\ wired' = wired /\ call' = call
  BY DEF Resolved
<1>2. Building(stage, given, ctor, conf, provider, origin, auth, wired)'
  BY <1>1 DEF Inv, Building, Stages
<1> QED
  BY <1>1, <1>2, ConstructorStep

LEMMA resolveProviderInv ==
  ASSUME Inv, resolveProvider
  PROVE  Inv'
<1> DEFINE mode == effectiveDiscoveryMode
           own == conf.configured
<1>1. stage = "provider" /\ own \in Documents
  BY DEF resolveProvider, Inv, Building, ConfigOK, Config
<1>2. CASE Refuse
  BY <1>1, <1>2, RefuseInv
<1>3. CASE Secure(own) /\ Resolved(own, "configured")
  BY <1>1, <1>3, ResolvedInv DEF Checked
<1>4. ASSUME NEW d \in discoverProviderMetadataForMode(mode)
      PROVE  d \in Documents /\ (mode # "oauth2" => Secure(d))
  BY RPConfigAssumption, DiscoveredTyped DEF discoverProviderMetadataForMode
<1>5. CASE \E d \in discoverProviderMetadataForMode(mode) :
             Resolved(mergeProviderMissing(own, d), "merged")
  BY <1>1, <1>4, <1>5, MergeTyped, ResolvedInv DEF Checked
<1>6. CASE \E d \in discoverProviderMetadataForMode(mode) :
             Resolved(d, IF mode = "oauth2" THEN "server" ELSE "discovered")
  <2>1. PICK d \in discoverProviderMetadataForMode(mode) :
          Resolved(d, IF mode = "oauth2" THEN "server" ELSE "discovered")
    BY <1>6
  <2>2. d \in Documents /\ (mode # "oauth2" => Secure(d))
    BY <1>4
  <2> HIDE DEF mode
  <2>3. CASE mode = "oauth2"
    BY <1>1, <2>1, <2>2, <2>3, ResolvedInv DEF Checked
  <2>4. CASE mode # "oauth2"
    BY <1>1, <2>1, <2>2, <2>4, ResolvedInv DEF Checked
  <2> QED
    BY <2>3, <2>4
<1> QED
  BY <1>2, <1>3, <1>5, <1>6 DEF resolveProvider

LEMMA resolveProviderFromDiscoveryInv ==
  ASSUME Inv, resolveProviderFromDiscovery
  PROVE  Inv'
<1> DEFINE own == conf.configured
<1>1. stage = "provider" /\ own \in Documents
  BY DEF resolveProviderFromDiscovery, Inv, Building, ConfigOK, Config
<1>2. CASE Refuse
  BY <1>1, <1>2, RefuseInv
<1>3. CASE Secure(own) /\ Resolved(own, "configured")
  BY <1>1, <1>3, ResolvedInv DEF Checked
<1>4. CASE \E d \in Discovered : Resolved(d, "discovered")
  BY <1>1, <1>4, RPConfigAssumption, ResolvedInv DEF Checked
<1> QED
  BY <1>2, <1>3, <1>4 DEF resolveProviderFromDiscovery

LEMMA ResolveAuthMethodInv ==
  ASSUME Inv, ResolveAuthMethod
  PROVE  Inv'
<1> DEFINE found == IF ctor = "NewGrantManager" THEN {auth}
               ELSE selectAuthMethodFromSupported(conf, Published(ctor, provider))
<1>1. stage = "method" /\ conf.authMethod \in Methods \cup {""}
  BY DEF ResolveAuthMethod, Inv, Building, ConfigOK, Config
<1>2. \/ Refuse
      \/ /\ auth' \in found /\ stage' = "checks"
         /\ ctor' = ctor /\ given' = given /\ conf' = conf
         /\ provider' = provider /\ origin' = origin /\ wired' = wired
         /\ call' = call
  BY DEF ResolveAuthMethod, Published
<1>3. CASE Refuse
  BY <1>1, <1>3, RefuseInv
<1>4. CASE ~Refuse
  <2>1. auth' \in [method : Methods \cup {""}, fallback : BOOLEAN]
    <3>1. CASE ctor = "NewGrantManager"
      BY <1>2, <1>4, <3>1 DEF Inv, Building
    <3>2. CASE ctor # "NewGrantManager"
      <4>1. auth' \in selectAuthMethodFromSupported(conf,
                                                    Published(ctor, provider))
        BY <1>2, <1>4, <3>2
      <4>2. auth' \in [method : Methods, fallback : BOOLEAN]
        BY <1>1, <4>1, SelectOne
      <4> QED
        BY <4>2
    <3> QED
      BY <3>1, <3>2
  <2>2. IF ctor = "NewGrantManager" THEN auth'.method = "" /\ ~auth'.fallback
        ELSE auth' \in selectAuthMethodFromSupported(conf,
                                                     Published(ctor, provider))
    <3>1. auth.method = "" /\ ~auth.fallback
      BY <1>1 DEF Inv, Building
    <3> QED
      BY <1>2, <1>4, <3>1
  <2> HIDE DEF found
  <2>3. Building(stage, given, ctor, conf, provider, origin, auth, wired)'
    BY <1>1, <1>2, <1>4, <2>1, <2>2 DEF Inv, Building, Stages
  <2> QED
    BY <1>1, <1>2, <1>4, <2>3, ConstructorStep
<1> QED
  BY <1>3, <1>4

\* An outcome of the constructor's negotiation that passes its checks is a
\* method the client may use.
LEMMA NegotiatedFits ==
  ASSUME NEW ct \in Constructors \ {"NewGrantManager"}, NEW cf, NEW pv, NEW w,
         cf.authMethod \in Methods \cup {""},
         NEW a \in selectAuthMethodFromSupported(cf, Published(ct, pv)),
         a.method \in TLSMethods => w,
         isFAPI(cf.profile) => a.method \in FAPIMethods
  PROVE  MethodOK(a.method, ct, cf, pv, w) /\ GuessOK(a.fallback, ct, pv)
<1>1. /\ a.method \in Methods
      /\ validateResolvedAuthMethod(cf, a.method)
      /\ Published(ct, pv) # {} =>
           methodSupported(a.method, Published(ct, pv))
      /\ a.fallback => Published(ct, pv) = {}
  BY SelectOne
<1>2. ct \in Granting => Published(ct, pv) = pv.methods
  BY DEF Granting, Published
<1> QED
  BY <1>1, <1>2 DEF MethodOK, GuessOK

\* validateResolvedAuthMethod, method by method.
LEMMA Credentials ==
  ASSUME NEW cf, NEW m, validateResolvedAuthMethod(cf, m)
  PROVE  /\ m \in {"basic", "post", "secretJWT"} => cf.secret
         /\ m = "keyJWT" => cf.key # "none"
         /\ m \in TLSMethods => hasCertificate(cf)
BY DEF validateResolvedAuthMethod, TLSMethods

LEMMA FinishInv ==
  ASSUME Inv, Finish
  PROVE  Inv'
<1>1. stage = "checks"
  BY DEF Finish
<1>2. CASE ~Accepted
  BY <1>1, <1>2, RefuseInv DEF Finish
<1>3. CASE Accepted
  <2> DEFINE w == wireMTLSClientCertificate
  <2>1. /\ stage' = "ready" /\ wired' = w /\ ctor' = ctor /\ given' = given
        /\ conf' = conf /\ provider' = provider /\ origin' = origin
        /\ auth' = auth /\ call' = call
    BY <1>3 DEF Finish
  <2>2. /\ ctor \in Constructors /\ ConfigOK(ctor, conf) /\ conf \in Config
        /\ Defaulted(conf)
        /\ auth \in [method : Methods \cup {""}, fallback : BOOLEAN]
        /\ IF ctor = "NewGrantManager" THEN auth.method = "" /\ ~auth.fallback
           ELSE auth \in selectAuthMethodFromSupported(conf,
                                                       Published(ctor, provider))
    BY <1>1 DEF Inv, Building, ConfigOK
  <2>3. conf.authMethod \in Methods \cup {""}
    BY <2>2 DEF Config
  <2>4. /\ conf.senderConstrain = "dpop" => conf.key # "none"
        /\ conf.senderConstrain = "mtls" => hasCertificate(conf)
        /\ ctor = "New" => ~ProfileContradicted
        /\ ctor = "New" => validateFAPIProfileRequirements
    BY <1>3 DEF Accepted, RPAccepted, validateExplicitDPoP
  <2>5. /\ conf.senderConstrain = "mtls" => w
        /\ w \in BOOLEAN
    BY <2>4 DEF wireMTLSClientCertificate
  <2>6. isFAPI(conf.profile) => ctor = "New"
    BY <2>2 DEF ConfigOK, isFAPI, FAPI2
  <2>7. isFAPI(conf.profile) =>
          /\ auth.method \in FAPIMethods
          /\ \/ conf.requirePAR
             \/ conf.profile \notin FAPI2 /\ conf.requestMethod = "signed"
          /\ conf.key # "weak"
    BY <2>4, <2>6 DEF validateFAPIProfileRequirements
  <2>8. validateResolvedAuthMethod(conf, auth.method)
    <3>1. CASE ctor = "NewGrantManager"
      BY <2>2, <3>1 DEF validateResolvedAuthMethod, TLSMethods
    <3>2. CASE ctor # "NewGrantManager"
      BY <2>2, <2>3, <3>2, SelectOne
    <3> QED
      BY <3>1, <3>2
  <2>9. auth.method \in TLSMethods => w
    BY <2>8, Credentials DEF wireMTLSClientCertificate, TLSMethods
  <2> HIDE DEF w
  <2>10. MethodOK(auth.method, ctor, conf, provider, w)
    <3>1. CASE ctor = "NewGrantManager"
      BY <2>2, <2>6, <2>8, <3>1 DEF MethodOK, TLSMethods, Granting
    <3>2. CASE ctor # "NewGrantManager"
      BY <2>2, <2>3, <2>7, <2>9, <3>2, NegotiatedFits
    <3> QED
      BY <3>1, <3>2
  <2>11. GuessOK(auth.fallback, ctor, provider)
    <3>1. CASE ctor = "NewGrantManager"
      BY <3>1 DEF GuessOK, Granting
    <3>2. CASE ctor # "NewGrantManager"
      BY <2>2, <2>3, <2>7, <2>9, <3>2, NegotiatedFits
    <3> QED
      BY <3>1, <3>2
  <2>12. conf.requestMethod # "unknown"
    BY <2>2, <2>4 DEF ConfigOK, ProfileContradicted
  <2>13. isFAPI(conf.profile) =>
           /\ conf.key \in {"plain", "cert"}
           /\ conf.profile = "FAPI2MS" => conf.responseMode = "jwt"
           /\ conf.profile # "PlainFAPI" => conf.validateIssuer
    <3> SUFFICES ASSUME isFAPI(conf.profile)
                 PROVE  /\ conf.key \in {"plain", "cert"}
                        /\ conf.profile = "FAPI2MS" =>
                             conf.responseMode = "jwt"
                        /\ conf.profile # "PlainFAPI" => conf.validateIssuer
      OBVIOUS
    <3>1. ~ProfileContradicted /\ auth.method \in FAPIMethods
      BY <2>4, <2>6, <2>7
    <3>2. conf.key # "none"
      BY <2>8, <3>1, Credentials DEF FAPIMethods, hasCertificate
    <3>3. conf.key \in {"plain", "cert"}
      BY <2>2, <2>7, <3>2 DEF Config, Keys
    <3>4. conf.profile = "FAPI2MS" => conf.responseMode = "jwt"
      BY <2>2, <3>1 DEF ProfileContradicted, Defaulted
    <3>5. conf.profile # "PlainFAPI" => conf.validateIssuer
      BY <2>2, <3>1 DEF ProfileContradicted, Defaulted
    <3> QED
      BY <3>3, <3>4, <3>5
  <2>14. ctor # "NewGrantManager" =>
           \A a \in selectAuthMethodFromSupported(conf,
                                                  Published(ctor, provider)) :
             MethodOK(a.method, ctor, conf, provider, w)
    BY <2>2, <2>3, <2>10, SelectOne
  <2>15. ConstructorChecked(ctor, conf, provider, w)
    BY <2>4, <2>5, <2>7, <2>12, <2>13, <2>14 DEF ConstructorChecked
  <2>16. Building(stage, given, ctor, conf, provider, origin, auth, wired)'
    BY <2>1, <2>5, <2>10, <2>11, <2>15, <1>1 DEF Inv, Building, Stages
  <2> QED
    BY <1>1, <2>1, <2>16, ConstructorStep
<1> QED
  BY <1>2, <1>3

-----------------------------------------------------------------------------
(* Requests of the client *)

\* A call that is not idle is one of a client that was returned.
LEMMA InUse ==
  ASSUME Inv, NEW c \in Callers, call[c].pc # "idle"
  PROVE  stage = "ready"
BY IdleFits DEF Inv

\* What is known of the client while it is used.
LEMMA Client ==
  ASSUME Inv, stage = "ready"
  PROVE  /\ ctor \in Constructors /\ ConfigOK(ctor, conf) /\ conf \in Config
         /\ conf.authMethod \in Methods \cup {""}
         /\ provider \in Documents /\ Checked(origin, provider)
         /\ auth \in [method : Methods \cup {""}, fallback : BOOLEAN]
         /\ ConstructorChecked(ctor, conf, provider, wired)
         /\ MethodOK(auth.method, ctor, conf, provider, wired)
         /\ GuessOK(auth.fallback, ctor, provider)
         /\ \A c \in Callers :
              /\ call[c] \in CallState
              /\ CallOK(call[c], ctor, conf, provider, wired, origin)
<1>1. conf \in Config
  BY DEF Inv, Building, ConfigOK
<1>2. conf.authMethod \in Methods \cup {""}
  BY <1>1 DEF Config
<1> QED
  BY <1>1, <1>2 DEF Inv, Building

\* A goroutine proceeds to a call that fits the client.
LEMMA UseStep ==
  ASSUME Inv, stage = "ready", NEW c \in Callers, NEW next,
         CallOK(next, ctor, conf, provider, wired, origin), Proceed(c, next),
         auth' \in [method : Methods \cup {""}, fallback : BOOLEAN],
         MethodOK(auth'.method, ctor, conf, provider, wired),
         GuessOK(auth'.fallback, ctor, provider)
  PROVE  Inv'
<1>1. /\ call' = [call EXCEPT ![c] = next]
      /\ ctor' = ctor /\ stage' = stage /\ given' = given /\ conf' = conf
      /\ provider' = provider /\ origin' = origin /\ wired' = wired
  BY DEF Proceed
<1>2. Building(stage, given, ctor, conf, provider, origin, auth, wired)'
  BY <1>1 DEF Inv, Building
<1>3. call' \in [Callers -> CallState]
  BY <1>1 DEF Inv, CallOK
<1>4. \A d \in Callers : CallOK(call'[d], ctor, conf, provider, wired, origin)
  BY <1>1 DEF Inv
<1> QED
  BY <1>1, <1>2, <1>3, <1>4 DEF Inv

\* The same if the negotiated method stays as it is.
LEMMA UseStepSame ==
  ASSUME Inv, stage = "ready", NEW c \in Callers, NEW next,
         CallOK(next, ctor, conf, provider, wired, origin), Proceed(c, next),
         auth' = auth
  PROVE  Inv'
BY Client, UseStep

\* The same if it was negotiated again with the provider's list.
LEMMA UseStepNegotiated ==
  ASSUME Inv, stage = "ready", ctor = "New", NEW c \in Callers, NEW next,
         CallOK(next, ctor, conf, provider, wired, origin), Proceed(c, next),
         auth' \in selectAuthMethodFromSupported(conf, provider.methods)
  PROVE  Inv'
<1>1. Published(ctor, provider) = provider.methods
  BY DEF Published
<1>2. MethodOK(auth'.method, ctor, conf, provider, wired)
  BY <1>1, Client DEF ConstructorChecked
<1>3. /\ auth' \in [method : Methods, fallback : BOOLEAN]
      /\ auth'.fallback => provider.methods = {}
  <2>1. conf.authMethod \in Methods \cup {""}
    BY Client
  <2> QED
    BY <2>1, SelectOne
<1>4. GuessOK(auth'.fallback, ctor, provider)
  BY <1>3 DEF GuessOK
<1>5. auth' \in [method : Methods \cup {""}, fallback : BOOLEAN]
  BY <1>3
<1> QED
  BY <1>2, <1>4, <1>5, UseStep

LEMMA DoneInv ==
  ASSUME Inv, stage = "ready", NEW c \in Callers, Proceed(c, Idle),
         auth' = auth
  PROVE  Inv'
BY IdleFits, UseStepSame

\* A request record and its fields.
IsRequest(r, kind, doc, to, m, dpop) ==
  /\ r \in Requests
  /\ r.kind = kind /\ r.to = to /\ r.url = doc.at[to]
  /\ r.method = m /\ r.dpop = dpop /\ r.signedBy = "nobody"

Kinds == {"redirect", "par", "token", "introspection", "grant"}

LEMMA RequestTyped ==
  ASSUME NEW kind \in Kinds, NEW doc \in Documents, NEW to \in Endpoints,
         NEW m \in Methods \cup {""}, NEW dpop \in BOOLEAN
  PROVE  IsRequest(Request(kind, doc, to, m, dpop), kind, doc, to, m, dpop)
<1>1. doc.at[to] \in URLs
  BY DEF Documents
<1> QED
  BY <1>1 DEF Request, Requests, IsRequest, Kinds

LEMMA CheckedURL ==
  ASSUME NEW from, NEW doc, NEW to \in Endpoints, Checked(from, doc)
  PROVE  from \in {"configured", "discovered"} => doc.at[to] # "http"
BY DEF Checked, Secure

LEMMA AuthorizationURLInv ==
  ASSUME Inv, NEW c \in Callers, AuthorizationURL(c)
  PROVE  Inv'
<1> DEFINE next == [Idle EXCEPT !.pc = "negotiated", !.doc = provider]
<1>1. /\ stage = "ready" /\ ctor = "New" /\ Proceed(c, next)
      /\ auth' \in selectAuthMethodFromSupported(conf, provider.methods)
  BY DEF AuthorizationURL, Start
<1>2. provider \in Documents /\ Checked(origin, provider)
  BY <1>1, Client
<1>3. /\ next \in CallState
      /\ next.pc = "negotiated" /\ next.doc = provider
      /\ next.request = Idle.request
  BY <1>2, IdleFits DEF CallState
<1> HIDE DEF next
<1>4. CallOK(next, ctor, conf, provider, wired, origin)
  BY <1>2, <1>3, IdleFits DEF CallOK
<1> QED
  BY <1>1, <1>4, UseStepNegotiated

LEMMA ReadMethodInv ==
  ASSUME Inv, NEW c \in Callers, ReadMethod(c)
  PROVE  Inv'
<1> DEFINE s == call[c]
           next == [s EXCEPT !.pc = "chosen", !.method = auth.method]
<1>1. s.pc = "negotiated" /\ Proceed(c, next) /\ auth' = auth
  BY DEF ReadMethod
<1>2. stage = "ready"
  BY <1>1, InUse
<1>3. /\ s \in CallState
      /\ CallOK(s, ctor, conf, provider, wired, origin)
      /\ auth.method \in Methods \cup {""}
      /\ MethodOK(auth.method, ctor, conf, provider, wired)
  BY <1>2, Client
<1> HIDE DEF s
<1>4. /\ next \in CallState
      /\ next.pc = "chosen" /\ next.method = auth.method
      /\ next.doc = s.doc /\ next.request = s.request
  BY <1>3 DEF CallState
<1> HIDE DEF next
<1>5. CallOK(next, ctor, conf, provider, wired, origin)
  BY <1>1, <1>3, <1>4 DEF CallOK
<1> QED
  BY <1>1, <1>2, <1>5, UseStepSame

\* An authorization request, pushed by method m or sent with the browser.
LEMMA SendAuthorizationInv ==
  ASSUME Inv, NEW c \in Callers, SendAuthorization(c)
  PROVE  Inv'
<1> DEFINE
      s == call[c]
      m == s.method
      pushed == IF m \in FAPIMethods \cup {"secretJWT"} THEN m ELSE "none"
      to == IF shouldUsePAR THEN parEndpoint(provider, m) ELSE "auth"
      dpop == shouldUseDPoPWithAuthMethod
      plain == IF shouldUsePAR THEN Request("par", provider, to, pushed, dpop)
               ELSE Request("redirect", provider, to, "none", FALSE)
      request == [plain EXCEPT !.signedBy = Signer]
      next == [s EXCEPT !.pc = "sent", !.request = request]
<1>1. /\ s.pc = "chosen" /\ auth' = auth
      /\ Proceed(c, IF "none" \in {provider.at[to], Signer} THEN Idle ELSE next)
  BY DEF SendAuthorization
<1>2. stage = "ready"
  BY <1>1, InUse
<1>3. /\ provider \in Documents /\ Checked(origin, provider)
      /\ ConfigOK(ctor, conf) /\ conf \in Config
      /\ ConstructorChecked(ctor, conf, provider, wired)
      /\ s \in CallState
      /\ CallOK(s, ctor, conf, provider, wired, origin)
  BY <1>2, Client
<1>4. CASE "none" \in {provider.at[to], Signer}
  BY <1>1, <1>2, <1>4, DoneInv
<1>5. CASE "none" \notin {provider.at[to], Signer}
  <2>1. to \in Endpoints
    BY DEF parEndpoint, Alias, Endpoints
  <2>2. MethodOK(m, ctor, conf, provider, wired)
    BY <1>1, <1>3 DEF CallOK
  <2>3. pushed \in Methods \cup {""}
    BY <2>2 DEF MethodOK, Methods
  <2>4. MethodOK(pushed, ctor, conf, provider, wired)
    <3>1. CASE m \in FAPIMethods \cup {"secretJWT"}
      BY <2>2, <3>1
    <3>2. CASE m \notin FAPIMethods \cup {"secretJWT"}
      <4>1. validateResolvedAuthMethod(conf, "none")
        BY DEF validateResolvedAuthMethod, TLSMethods
      <4>2. methodSupported("none", provider.methods)
        BY DEF methodSupported
      <4>3. ~(provider.issuer /\ isFAPI(conf.profile))
        BY <2>2, <3>2 DEF MethodOK
      <4> QED
        BY <3>2, <4>1, <4>2, <4>3 DEF MethodOK, Methods, TLSMethods
    <3> QED
      BY <3>1, <3>2
  <2>5. Signer \in {"nobody", "key", "secret"}
    BY <1>5 DEF Signer
  <2>6. dpop \in BOOLEAN
    BY DEF shouldUseDPoPWithAuthMethod
  <2>7. ctor = "New" /\ conf.senderConstrain = "dpop" => dpop
    BY <1>3 DEF shouldUseDPoPWithAuthMethod, ConstructorChecked
  <2>8. isFAPI(conf.profile) /\ ~shouldUsePAR =>
          conf.profile \notin FAPI2 /\ Signer = "key"
    <3> SUFFICES ASSUME isFAPI(conf.profile), ~shouldUsePAR
                 PROVE  conf.profile \notin FAPI2 /\ Signer = "key"
      OBVIOUS
    <3>1. ~conf.requirePAR
      BY DEF shouldUsePAR
    <3>2. /\ conf.profile \notin FAPI2 /\ conf.requestMethod = "signed"
          /\ conf.key \in {"plain", "cert"}
      BY <1>3, <3>1 DEF ConstructorChecked
    <3> QED
      BY <3>2 DEF Signer
  <2>9. provider.at[to] # "http" \/ origin \notin {"configured", "discovered"}
    BY <1>3, <2>1, CheckedURL
  <2> HIDE DEF to, pushed, dpop
  <2>10. /\ plain \in Requests
         /\ plain.kind = IF shouldUsePAR THEN "par" ELSE "redirect"
         /\ plain.url = provider.at[to]
         /\ shouldUsePAR => plain.method = pushed /\ plain.dpop = dpop
    <3>1. CASE shouldUsePAR
      <4> DEFINE r == Request("par", provider, to, pushed, dpop)
      <4>1. /\ r \in Requests /\ r.kind = "par" /\ r.url = provider.at[to]
            /\ r.method = pushed /\ r.dpop = dpop
        <5>1. IsRequest(r, "par", provider, to, pushed, dpop)
          BY <1>3, <2>1, <2>3, <2>6, RequestTyped DEF Kinds
        <5> HIDE DEF r
        <5> QED
          BY <5>1 DEF IsRequest
      <4>2. plain = r
        BY <3>1
      <4> HIDE DEF r, plain
      <4> QED
        BY <3>1, <4>1, <4>2
    <3>2. CASE ~shouldUsePAR
      <4>1. "none" \in Methods \cup {""} /\ FALSE \in BOOLEAN
        BY DEF Methods
      <4> DEFINE r == Request("redirect", provider, to, "none", FALSE)
      <4>2. r \in Requests /\ r.kind = "redirect" /\ r.url = provider.at[to]
        <5>1. IsRequest(r, "redirect", provider, to, "none", FALSE)
          BY <1>3, <2>1, <4>1, RequestTyped DEF Kinds
        <5> HIDE DEF r
        <5> QED
          BY <5>1 DEF IsRequest
      <4>3. plain = r
        BY <3>2
      <4> HIDE DEF r, plain
      <4> QED
        BY <3>2, <4>2, <4>3
    <3> QED
      BY <3>1, <3>2
  <2> HIDE DEF plain
  <2>11. /\ request \in Requests
         /\ request.kind = plain.kind /\ request.url = plain.url
         /\ request.method = plain.method /\ request.signedBy = Signer
    BY <2>5, <2>10 DEF Requests
  <2>12. request.dpop = plain.dpop
    BY <2>10 DEF Requests
  <2> HIDE DEF request
  <2>13. RequestOK(request, ctor, conf, provider, wired)
    <3>1. CASE shouldUsePAR
      BY <2>4, <2>7, <2>10, <2>11, <2>12, <3>1 DEF RequestOK
    <3>2. CASE ~shouldUsePAR
      BY <2>8, <2>10, <2>11, <3>2 DEF RequestOK
    <3> QED
      BY <3>1, <3>2
  <2> HIDE DEF s
  <2>14. /\ next \in CallState /\ next.pc = "sent"
         /\ next.doc = s.doc /\ next.request = request
    BY <1>3, <2>11 DEF CallState
  <2>15. Proceed(c, next)
    BY <1>1, <1>5 DEF to
  <2> HIDE DEF next
  <2>16. CallOK(next, ctor, conf, provider, wired, origin)
    BY <1>1, <1>3, <2>9, <2>10, <2>11, <2>13, <2>14 DEF CallOK
  <2> QED
    BY <1>1, <1>2, <2>15, <2>16, UseStepSame
<1> QED
  BY <1>4, <1>5

LEMMA HandleCallbackInv ==
  ASSUME Inv, NEW c \in Callers, HandleCallback(c)
  PROVE  Inv'
<1>1. stage = "ready" /\ ctor = "New"
  BY DEF HandleCallback, Start
<1>2. PICK doc \in IF provider.issuer THEN {provider}
                   ELSE discoverProviderMetadata :
        /\ IF doc.methods = {} THEN UNCHANGED auth
           ELSE auth' \in selectAuthMethodFromSupported(conf, doc.methods)
        /\ Proceed(c, [Idle EXCEPT !.pc = "located", !.doc = doc])
  BY DEF HandleCallback
<1> DEFINE next == [Idle EXCEPT !.pc = "located", !.doc = doc]
<1>3. doc \in Documents /\ Checked(origin, doc)
  <2>1. CASE provider.issuer
    BY <1>1, <2>1, Client
  <2>2. CASE ~provider.issuer
    BY <2>2, DiscoveredTyped DEF Checked
  <2> QED
    BY <2>1, <2>2
<1>4. provider.issuer => doc = provider
  OBVIOUS
<1>5. /\ next \in CallState /\ next.pc = "located" /\ next.doc = doc
      /\ next.request = Idle.request
  BY <1>3, IdleFits DEF CallState
<1>6. Proceed(c, next)
  BY <1>2
<1> HIDE DEF next
<1>7. CallOK(next, ctor, conf, provider, wired, origin)
  BY <1>1, <1>3, <1>4, <1>5, IdleFits DEF CallOK, Granting
<1>8. CASE doc.methods = {}
  BY <1>1, <1>2, <1>6, <1>7, <1>8, UseStepSame
<1>9. CASE doc.methods # {} /\ provider.issuer
  BY <1>1, <1>2, <1>4, <1>6, <1>7, <1>9, UseStepNegotiated
<1>10. CASE doc.methods # {} /\ ~provider.issuer
  <2>1. auth' \in selectAuthMethodFromSupported(conf, doc.methods)
    BY <1>2, <1>10
  <2>2. conf.authMethod \in Methods \cup {""}
    BY <1>1, Client
  <2>3. /\ auth' \in [method : Methods, fallback : BOOLEAN]
        /\ validateResolvedAuthMethod(conf, auth'.method)
    BY <2>1, <2>2, SelectOne
  <2>4. auth' \in [method : Methods \cup {""}, fallback : BOOLEAN]
    BY <2>3
  <2>5. /\ MethodOK(auth'.method, ctor, conf, provider, wired)
        /\ GuessOK(auth'.fallback, ctor, provider)
    BY <1>1, <1>10, <2>3 DEF MethodOK, GuessOK
  <2> QED
    BY <1>1, <1>6, <1>7, <2>4, <2>5, UseStep
<1> QED
  BY <1>8, <1>9, <1>10

LEMMA TokenEndpointInv ==
  ASSUME Inv, NEW c \in Callers, TokenEndpoint(c)
  PROVE  Inv'
<1> DEFINE s == call[c]
           callback == s.pc = "located"
           doc == IF callback THEN s.doc ELSE provider
           to == effectiveTokenEndpoint(doc)
           next == [Idle EXCEPT !.pc = "endpoint", !.doc = doc,
                                !.endpoint = to]
<1>1. /\ callback \/ Start(c, {"New", "NewClientCredentials"})
      /\ Proceed(c, IF doc.at[to] = "none" THEN Idle ELSE next)
      /\ auth' = auth
  BY DEF TokenEndpoint
<1>2. stage = "ready"
  BY <1>1, InUse DEF Start
<1>3. /\ provider \in Documents /\ Checked(origin, provider)
      /\ s \in CallState
      /\ CallOK(s, ctor, conf, provider, wired, origin)
  BY <1>2, Client
<1>4. ctor \in Granting
  BY <1>1, <1>3 DEF CallOK, Start, Granting
<1>5. /\ doc \in Documents /\ Checked(origin, doc)
      /\ provider.issuer => doc = provider
  BY <1>3 DEF CallOK, CallState
<1>6. to \in Endpoints /\ AliasUsed(conf, doc, to)
  <2> HIDE DEF doc
  <2> QED
    BY DEF effectiveTokenEndpoint, usesMTLS, Alias, Endpoints, AliasUsed
<1> HIDE DEF doc, to
<1>7. /\ next \in CallState /\ next.pc = "endpoint" /\ next.doc = doc
      /\ next.endpoint = to /\ next.request = Idle.request
  BY <1>5, <1>6, IdleFits DEF CallState
<1>8. Proceed(c, Idle) \/ Proceed(c, next)
  BY <1>1
<1> HIDE DEF next
<1>9. CallOK(next, ctor, conf, provider, wired, origin)
  BY <1>4, <1>5, <1>6, <1>7, IdleFits DEF CallOK
<1> QED
  BY <1>1, <1>2, <1>8, <1>9, DoneInv, UseStepSame

\* A token request of a grant under way, by a method the client may use.
LEMMA TokenRequestTyped ==
  ASSUME Inv, stage = "ready", NEW c \in Callers,
         NEW m \in Methods \cup {""},
         call[c].endpoint \in Endpoints
  PROVE  LET r == TokenRequest(c, m)
         IN /\ r \in Requests /\ r.kind = "token" /\ r.method = m
            /\ r.to = call[c].endpoint
            /\ r.url = call[c].doc.at[call[c].endpoint]
            /\ ctor = "New" /\ conf.senderConstrain = "dpop" => r.dpop
<1> DEFINE doc == call[c].doc
           to == call[c].endpoint
           d1 == shouldUseDPoPWithAuthMethod
           d2 == shouldUseDPoPForMethod(auth.method)
<1>1. doc \in Documents
  BY Client DEF CallState
<1>2. d1 \in BOOLEAN /\ d2 \in BOOLEAN
  BY DEF shouldUseDPoPWithAuthMethod, shouldUseDPoPForMethod
<1>3. ctor = "New" /\ conf.senderConstrain = "dpop" => d1
  BY Client DEF shouldUseDPoPWithAuthMethod, ConstructorChecked
<1>4. TokenRequest(c, m) = IF ctor = "New" THEN Request("token", doc, to, m, d1)
                           ELSE Request("token", doc, to, m, d2)
  BY DEF TokenRequest, exchangeTokenOnceAs, requestToken
<1> HIDE DEF doc, to, d1, d2
<1>5. to \in Endpoints
  BY DEF to
<1>6. CASE ctor = "New"
  <2> DEFINE r == Request("token", doc, to, m, d1)
  <2>1. /\ r \in Requests /\ r.kind = "token" /\ r.method = m /\ r.to = to
        /\ r.url = doc.at[to] /\ r.dpop = d1
    <3>1. IsRequest(r, "token", doc, to, m, d1)
      BY <1>1, <1>2, <1>5, RequestTyped DEF Kinds
    <3> HIDE DEF r
    <3> QED
      BY <3>1 DEF IsRequest
  <2>2. TokenRequest(c, m) = r
    BY <1>4, <1>6
  <2> HIDE DEF r
  <2> QED
    BY <1>3, <2>1, <2>2 DEF doc, to
<1>7. CASE ctor # "New"
  <2> DEFINE r == Request("token", doc, to, m, d2)
  <2>1. /\ r \in Requests /\ r.kind = "token" /\ r.method = m /\ r.to = to
        /\ r.url = doc.at[to]
    <3>1. IsRequest(r, "token", doc, to, m, d2)
      BY <1>1, <1>2, <1>5, RequestTyped DEF Kinds
    <3> HIDE DEF r
    <3> QED
      BY <3>1 DEF IsRequest
  <2>2. TokenRequest(c, m) = r
    BY <1>4, <1>7
  <2> HIDE DEF r
  <2> QED
    BY <1>7, <2>1, <2>2 DEF doc, to
<1> QED
  BY <1>6, <1>7

\* Such a request fits the client, in a call that got to its endpoint.
LEMMA TokenRequestFits ==
  ASSUME Inv, stage = "ready", NEW c \in Callers,
         NEW m, MethodOK(m, ctor, conf, provider, wired),
         ctor \in Granting, call[c].endpoint \in Endpoints,
         AliasUsed(conf, call[c].doc, call[c].endpoint),
         provider.issuer => call[c].doc = provider,
         NEW next \in CallState,
         next.pc = "sent", next.doc = call[c].doc,
         next.endpoint = call[c].endpoint, next.request = TokenRequest(c, m),
         GuessOK(next.fallback, ctor, provider)
  PROVE  CallOK(next, ctor, conf, provider, wired, origin)
<1> DEFINE r == TokenRequest(c, m)
<1>1. m \in Methods \cup {""}
  BY DEF MethodOK
<1>2. /\ r \in Requests /\ r.kind = "token" /\ r.method = m
      /\ r.to = call[c].endpoint
      /\ r.url = call[c].doc.at[call[c].endpoint]
      /\ ctor = "New" /\ conf.senderConstrain = "dpop" => r.dpop
  BY <1>1, TokenRequestTyped
<1>3. next.request = r
  OBVIOUS
<1> HIDE DEF r
<1>4. RequestOK(r, ctor, conf, provider, wired)
  BY <1>2 DEF RequestOK
<1>5. Checked(origin, call[c].doc)
  BY Client DEF CallOK
<1>6. origin \in {"configured", "discovered"} => r.url # "http"
  BY <1>2, <1>5, CheckedURL
<1> QED
  BY <1>2, <1>3, <1>4, <1>5, <1>6 DEF CallOK

LEMMA executeTokenGrantInv ==
  ASSUME Inv, NEW c \in Callers, executeTokenGrant(c)
  PROVE  Inv'
<1> DEFINE s == call[c]
           m == auth.method
           r == TokenRequest(c, m)
           next == [s EXCEPT !.pc = "sent", !.fallback = auth.fallback,
                             !.request = r]
<1>1. s.pc = "endpoint" /\ Proceed(c, next) /\ auth' = auth
  BY DEF executeTokenGrant
<1>2. stage = "ready"
  BY <1>1, InUse
<1>3. /\ MethodOK(m, ctor, conf, provider, wired)
      /\ m \in Methods \cup {""} /\ auth.fallback \in BOOLEAN
      /\ GuessOK(auth.fallback, ctor, provider)
      /\ s \in CallState
      /\ CallOK(s, ctor, conf, provider, wired, origin)
  BY <1>2, Client
<1>4. /\ ctor \in Granting /\ s.endpoint \in Endpoints
      /\ AliasUsed(conf, s.doc, s.endpoint)
      /\ provider.issuer => s.doc = provider
  BY <1>1, <1>3 DEF CallOK
<1>5. r \in Requests
  BY <1>2, <1>3, <1>4, TokenRequestTyped
<1> HIDE DEF r, s, m
<1>6. /\ next \in CallState /\ next.pc = "sent" /\ next.doc = s.doc
      /\ next.endpoint = s.endpoint /\ next.request = r
  BY <1>3, <1>5 DEF CallState
<1>7. next.fallback = auth.fallback
  BY <1>3 DEF CallState
<1> HIDE DEF next
<1>8. CallOK(next, ctor, conf, provider, wired, origin)
  BY <1>2, <1>3, <1>4, <1>6, <1>7, TokenRequestFits DEF r, s, m
<1> QED
  BY <1>1, <1>2, <1>8, UseStepSame

\* HTTP Basic after a refused guess: it needs the secret the guess needed, no
\* FAPI profile made that guess, and nothing was published.
LEMMA BasicFits ==
  ASSUME NEW ct, NEW cf, NEW pv, NEW w,
         MethodOK("post", ct, cf, pv, w),
         ct \in Granting => (pv.issuer => pv.methods = {})
  PROVE  MethodOK("basic", ct, cf, pv, w)
<1>1. cf.secret
  BY Credentials DEF MethodOK
<1>2. validateResolvedAuthMethod(cf, "basic")
  BY <1>1 DEF validateResolvedAuthMethod, TLSMethods
<1>3. ~(pv.issuer /\ isFAPI(cf.profile))
  BY DEF MethodOK, FAPIMethods, TLSMethods
<1> QED
  BY <1>2, <1>3 DEF MethodOK, Methods, TLSMethods

LEMMA TokenAnswerInv ==
  ASSUME Inv, NEW c \in Callers, TokenAnswer(c)
  PROVE  Inv'
<1> DEFINE s == call[c]
<1>1. s.request.kind = "token"
  BY DEF TokenAnswer
<1>2. s.pc = "sent"
  BY <1>1 DEF Inv, CallOK
<1>3. stage = "ready"
  BY <1>2, InUse
<1>4. /\ s \in CallState /\ CallOK(s, ctor, conf, provider, wired, origin)
      /\ auth \in [method : Methods \cup {""}, fallback : BOOLEAN]
      /\ MethodOK(auth.method, ctor, conf, provider, wired)
      /\ GuessOK(auth.fallback, ctor, provider)
  BY <1>3, Client
<1>5. /\ ctor \in Granting /\ s.endpoint \in Endpoints
      /\ GuessOK(s.fallback, ctor, provider)
      /\ AliasUsed(conf, s.doc, s.endpoint)
      /\ provider.issuer => s.doc = provider
      /\ MethodOK(s.request.method, ctor, conf, provider, wired)
  BY <1>1, <1>2, <1>4 DEF CallOK, RequestOK
<1>6. CASE /\ auth' = IF s.fallback
                      THEN [method |-> s.request.method, fallback |-> FALSE]
                      ELSE auth
           /\ Proceed(c, Idle)
  <2>1. s.request.method \in Methods \cup {""}
    BY <1>5 DEF MethodOK
  <2>2. /\ auth' \in [method : Methods \cup {""}, fallback : BOOLEAN]
        /\ MethodOK(auth'.method, ctor, conf, provider, wired)
        /\ GuessOK(auth'.fallback, ctor, provider)
    <3>1. CASE s.fallback
      <4>1. auth' = [method |-> s.request.method, fallback |-> FALSE]
        BY <1>6, <3>1
      <4> QED
        BY <1>5, <2>1, <4>1 DEF GuessOK
    <3>2. CASE ~s.fallback
      BY <1>4, <1>6, <3>2
    <3> QED
      BY <3>1, <3>2
  <2> QED
    BY <1>3, <1>6, <2>2, IdleFits, UseStep
<1>7. CASE Done(c)
  BY <1>3, <1>7, DoneInv DEF Done
<1>8. CASE /\ FallsBack(c) /\ UNCHANGED auth
           /\ Proceed(c, [s EXCEPT !.request = TokenRequest(c, "basic")])
  <2> DEFINE r == TokenRequest(c, "basic")
             next == [s EXCEPT !.request = r]
  <2>1. s.fallback /\ s.request.method = "post"
    BY <1>8 DEF FallsBack
  <2>2. MethodOK("basic", ctor, conf, provider, wired)
    BY <1>5, <2>1, BasicFits DEF GuessOK
  <2>3. "basic" \in Methods \cup {""}
    BY DEF Methods
  <2>4. r \in Requests
    BY <1>3, <1>5, <2>3, TokenRequestTyped
  <2>5. Proceed(c, next)
    BY <1>8
  <2> HIDE DEF r, s
  <2>6. /\ next \in CallState /\ next.pc = s.pc /\ next.doc = s.doc
        /\ next.endpoint = s.endpoint /\ next.request = r
    BY <1>4, <2>4 DEF CallState
  <2>7. next.fallback = s.fallback
    BY <1>4 DEF CallState
  <2> HIDE DEF next
  <2>8. CallOK(next, ctor, conf, provider, wired, origin)
    BY <1>2, <1>3, <1>5, <2>2, <2>6, <2>7, TokenRequestFits DEF r, s
  <2> QED
    BY <1>3, <1>8, <2>5, <2>8, UseStepSame
<1> QED
  BY <1>6, <1>7, <1>8 DEF TokenAnswer

\* An introspection request fits the client.
LEMMA IntrospectionFits ==
  ASSUME Inv, stage = "ready", ctor \in {"New", "NewIntrospector"},
         NEW m \in Methods \cup {""}, NEW to \in Endpoints,
         ctor # "New" => MethodOK(m, ctor, conf, provider, wired),
         NEW next, NEW old \in CallState, NEW guess \in BOOLEAN,
         Checked(origin, old.doc), provider.issuer => old.doc = provider,
         next = [old EXCEPT !.pc = "sent", !.fallback = guess,
                            !.request = introspectTokenOnce(to, m)]
  PROVE  CallOK(next, ctor, conf, provider, wired, origin)
<1> DEFINE r == introspectTokenOnce(to, m)
           dpop == shouldUseDPoPForMethod(m)
<1>1. dpop \in BOOLEAN
  BY DEF shouldUseDPoPForMethod
<1>2. provider \in Documents /\ Checked(origin, provider)
  BY Client
<1>3. r = Request("introspection", provider, to, m, dpop)
  BY DEF introspectTokenOnce
<1> HIDE DEF r, dpop
<1>4. /\ r \in Requests /\ r.kind = "introspection" /\ r.method = m
      /\ r.url = provider.at[to] /\ r.to = to
  <2>1. IsRequest(r, "introspection", provider, to, m, dpop)
    BY <1>1, <1>2, <1>3, RequestTyped DEF Kinds
  <2> QED
    BY <2>1 DEF IsRequest
<1>5. RequestOK(r, ctor, conf, provider, wired)
  BY <1>4 DEF RequestOK
<1>6. origin \in {"configured", "discovered"} => r.url # "http"
  BY <1>2, <1>4, CheckedURL
<1>7. next = [old EXCEPT !.pc = "sent", !.fallback = guess, !.request = r]
  BY DEF r
<1>8. /\ next \in CallState /\ next.pc = "sent" /\ next.doc = old.doc
      /\ next.request = r
  BY <1>4, <1>7 DEF CallState
<1> QED
  BY <1>2, <1>4, <1>5, <1>6, <1>8 DEF CallOK

LEMMA IntrospectTokenInv ==
  ASSUME Inv, NEW c \in Callers, IntrospectToken(c)
  PROVE  Inv'
<1> DEFINE to == introspectionEndpoint(provider)
           a == introspectionAuthMethod
           r == introspectTokenOnce(to, a.method)
           next == [Idle EXCEPT !.pc = "sent", !.doc = provider,
                      !.fallback = a.fallback, !.request = r]
<1>1. /\ stage = "ready" /\ ctor \in {"New", "NewIntrospector"}
      /\ Proceed(c, next) /\ auth' = auth
  BY DEF IntrospectToken, Start
<1>2. to \in Endpoints
  BY DEF introspectionEndpoint, Alias, Endpoints
<1>3. /\ provider \in Documents /\ Checked(origin, provider)
      /\ conf.authMethod \in Methods \cup {""}
      /\ auth \in [method : Methods \cup {""}, fallback : BOOLEAN]
      /\ MethodOK(auth.method, ctor, conf, provider, wired)
      /\ ConstructorChecked(ctor, conf, provider, wired)
  BY <1>1, Client
<1>4. /\ a \in [method : Methods \cup {""}, fallback : BOOLEAN]
      /\ ctor # "New" => MethodOK(a.method, ctor, conf, provider, wired)
  <2> DEFINE list == provider.introspectionMethods
             found == selectAuthMethodFromSupported(conf, list)
  <2>1. a = IF list # {} /\ found # {} THEN CHOOSE x \in found : TRUE ELSE auth
    BY DEF introspectionAuthMethod
  <2> HIDE DEF found, a
  <2>2. CASE list # {} /\ found # {}
    <3>1. a \in found
      BY <2>1, <2>2
    <3>2. a \in [method : Methods, fallback : BOOLEAN]
      BY <1>3, <3>1, SelectOne DEF found
    <3>3. ctor # "New" => Published(ctor, provider) = list
      BY <1>1, <2>2 DEF Published, introspectionList
    <3>4. ctor # "New" => MethodOK(a.method, ctor, conf, provider, wired)
      BY <1>1, <1>3, <3>1, <3>3 DEF ConstructorChecked, found
    <3>5. a \in [method : Methods \cup {""}, fallback : BOOLEAN]
      BY <3>2
    <3> QED
      BY <3>4, <3>5
  <2>3. CASE ~(list # {} /\ found # {})
    BY <1>3, <2>1, <2>3
  <2> QED
    BY <2>2, <2>3
<1> DEFINE old == [Idle EXCEPT !.doc = provider]
<1> HIDE DEF a, to
<1>5. old \in CallState /\ old.doc = provider
  BY <1>3, IdleFits DEF CallState
<1>6. next = [old EXCEPT !.pc = "sent", !.fallback = a.fallback, !.request = r]
  BY IdleFits DEF CallState
<1>7. CallOK(next, ctor, conf, provider, wired, origin)
  <2> HIDE DEF old, next
  <2> QED
    BY <1>1, <1>2, <1>3, <1>4, <1>5, <1>6, IntrospectionFits DEF r
<1> QED
  BY <1>1, <1>7, UseStepSame DEF a, to

LEMMA IntrospectionAnswerInv ==
  ASSUME Inv, NEW c \in Callers, IntrospectionAnswer(c)
  PROVE  Inv'
<1> DEFINE s == call[c]
           r == s.request
<1>1. r.kind = "introspection"
  BY DEF IntrospectionAnswer
<1>2. s.pc = "sent"
  BY <1>1 DEF Inv, CallOK
<1>3. stage = "ready"
  BY <1>2, InUse
<1>4. s \in CallState /\ CallOK(s, ctor, conf, provider, wired, origin)
  BY <1>3, Client
<1>5. CASE Done(c)
  BY <1>3, <1>5, DoneInv DEF Done
<1>6. CASE /\ FallsBack(c) /\ UNCHANGED auth
           /\ Proceed(c, [s EXCEPT !.request = introspectTokenOnce(r.to, "basic")])
  <2> DEFINE new == introspectTokenOnce(r.to, "basic")
             next == [s EXCEPT !.request = new]
             full == [s EXCEPT !.pc = "sent", !.fallback = s.fallback,
                               !.request = new]
  <2>1. r.method = "post" /\ s.fallback \in BOOLEAN
    BY <1>4, <1>6 DEF FallsBack, CallState
  <2>2. /\ ctor \in {"New", "NewIntrospector"} /\ r.to \in Endpoints
        /\ Checked(origin, s.doc) /\ (provider.issuer => s.doc = provider)
        /\ ctor # "New" => MethodOK("post", ctor, conf, provider, wired)
    BY <1>1, <1>2, <1>4, <2>1 DEF CallOK, RequestOK
  <2>3. ctor # "New" => MethodOK("basic", ctor, conf, provider, wired)
    BY <2>2, BasicFits DEF Granting
  <2>4. "basic" \in Methods \cup {""}
    BY DEF Methods
  <2>5. CallOK(full, ctor, conf, provider, wired, origin)
    <3> HIDE DEF s, full
    <3>1. full = [s EXCEPT !.pc = "sent", !.fallback = s.fallback,
                           !.request = introspectTokenOnce(r.to, "basic")]
      BY DEF full
    <3> HIDE DEF r
    <3> QED
      BY <1>3, <1>4, <2>1, <2>2, <2>3, <2>4, <3>1, IntrospectionFits
  <2>6. full = next
    <3> HIDE DEF s, new
    <3> QED
      BY <1>2, <1>4 DEF CallState
  <2>7. Proceed(c, next) /\ auth' = auth
    BY <1>6
  <2> QED
    BY <1>3, <2>5, <2>6, <2>7, UseStepSame
<1> QED
  BY <1>5, <1>6 DEF IntrospectionAnswer

LEMMA GrantRequestInv ==
  ASSUME Inv, NEW c \in Callers, GrantRequest(c)
  PROVE  Inv'
<1> DEFINE dpop == shouldUseDPoPForMethod(auth.method)
           r == Request("grant", provider, "grants", "none", dpop)
           next == [Idle EXCEPT !.pc = "sent", !.doc = provider, !.request = r]
<1>1. stage = "ready" /\ Proceed(c, next) /\ auth' = auth
  BY DEF GrantRequest, Start
<1>2. provider \in Documents /\ Checked(origin, provider)
  BY <1>1, Client
<1>3. dpop \in BOOLEAN /\ "grants" \in Endpoints /\ "none" \in Methods \cup {""}
  BY DEF shouldUseDPoPForMethod, Endpoints, Methods
<1> HIDE DEF dpop
<1>4. /\ r \in Requests /\ r.kind = "grant" /\ r.url = provider.at["grants"]
  <2>1. IsRequest(r, "grant", provider, "grants", "none", dpop)
    BY <1>2, <1>3, RequestTyped DEF Kinds
  <2> HIDE DEF r
  <2> QED
    BY <2>1 DEF IsRequest
<1> HIDE DEF r
<1>5. RequestOK(r, ctor, conf, provider, wired)
  BY <1>4 DEF RequestOK
<1>6. origin \in {"configured", "discovered"} => r.url # "http"
  BY <1>2, <1>3, <1>4, CheckedURL
<1>7. /\ next \in CallState /\ next.pc = "sent" /\ next.doc = provider
      /\ next.request = r
  BY <1>2, <1>4, IdleFits DEF CallState
<1>8. CallOK(next, ctor, conf, provider, wired, origin)
  <2> HIDE DEF next
  <2> QED
    BY <1>2, <1>4, <1>5, <1>6, <1>7 DEF CallOK
<1> QED
  BY <1>1, <1>8, UseStepSame DEF r, dpop

LEMMA OtherAnswerInv ==
  ASSUME Inv, NEW c \in Callers, OtherAnswer(c)
  PROVE  Inv'
<1>1. call[c].request.kind # "none" /\ Done(c)
  BY DEF OtherAnswer
<1>2. call[c].pc = "sent"
  BY <1>1 DEF Inv, CallOK
<1>3. stage = "ready"
  BY <1>2, InUse
<1> QED
  BY <1>1, <1>3, DoneInv DEF Done

-----------------------------------------------------------------------------
(* The invariant *)

LEMMA InitInv == Init => Inv
<1> SUFFICES ASSUME Init PROVE Inv
  OBVIOUS
<1>1. /\ ctor \in Constructors /\ stage = "options" /\ given = 0
      /\ conf \in {newRP, defaultClientConfig}
      /\ provider = NoDocument /\ origin = "none" /\ wired = FALSE
      /\ auth = [method |-> "", fallback |-> FALSE]
      /\ call = [c \in Callers |-> Idle]
  BY DEF Init
<1>2. ConfigOK(ctor, conf) /\ 0 \in 0..MaxOptions
  <2>1. ConfigOK(ctor, newRP) /\ ConfigOK(ctor, defaultClientConfig)
    BY NewConfig
  <2>2. 0 \in 0..MaxOptions
    BY RPConfigAssumption
  <2> QED
    BY <1>1, <2>1, <2>2, Zenon
<1>3. Checked(origin, provider)
  BY <1>1 DEF Checked
<1>4. Building(stage, given, ctor, conf, provider, origin, auth, wired)
  BY <1>1, <1>2, <1>3, NoDocumentTyped, NothingResolved DEF Building, Stages
<1> QED
  BY <1>1, <1>4, IdleFits DEF Inv

LEMMA NextInv == Inv /\ [Next]_vars => Inv'
<1> SUFFICES ASSUME Inv, [Next]_vars PROVE Inv'
  OBVIOUS
<1>1. CASE Options
  BY <1>1, OptionsInv
<1>2. CASE Construct
  BY <1>2, PrepareInv, resolveProviderInv, resolveProviderFromDiscoveryInv,
     ResolveAuthMethodInv, FinishInv DEF Construct
<1>3. ASSUME NEW c \in Callers, Use(c)
      PROVE  Inv'
  BY <1>3, AuthorizationURLInv, ReadMethodInv, SendAuthorizationInv,
     HandleCallbackInv, TokenEndpointInv, executeTokenGrantInv,
     TokenAnswerInv, IntrospectTokenInv, IntrospectionAnswerInv,
     GrantRequestInv, OtherAnswerInv DEF Use
<1>4. CASE UNCHANGED vars
  BY <1>4 DEF vars, Inv
<1> QED
  BY <1>1, <1>2, <1>3, <1>4 DEF Next

THEOREM InvHolds == Spec => []Inv
BY InitInv, NextInv, PTL DEF Spec

-----------------------------------------------------------------------------
(* Theorems *)

\* Every state is well formed, and no client that New returned has a request
\* method it does not know (WithRequestMethod, the checks of New).
THEOREM TypeCorrect == Spec => []TypeOK
<1>1. Inv => TypeOK
  <2> SUFFICES ASSUME Inv PROVE TypeOK
    OBVIOUS
  <2>1. Building(stage, given, ctor, conf, provider, origin, auth, wired)
    BY DEF Inv
  <2>2. /\ conf.authMethod \in Methods \cup {""} /\ conf.key \in Keys
        /\ conf.profile \in Profiles /\ conf.configured \in Documents
    BY <2>1 DEF Building, ConfigOK, Config
  <2>3. \A c \in Callers :
          /\ call[c].pc \in {"idle", "negotiated", "chosen", "located",
                             "endpoint", "sent"}
          /\ call[c].request \in Requests
    BY DEF Inv, CallState
  <2>4. stage = "ready" => conf.requestMethod # "unknown"
    BY <2>1 DEF Building, ConstructorChecked
  <2> QED
    BY <2>1, <2>2, <2>3, <2>4 DEF TypeOK, Building, Stages
<1> QED
  BY <1>1, InvHolds, PTL

\* Calls with a request are calls of a client that was returned.
LEMMA RequestInUse ==
  ASSUME Inv, NEW c \in Callers, call[c].request.kind # "none"
  PROVE  /\ stage = "ready" /\ call[c].pc = "sent"
         /\ ConstructorChecked(ctor, conf, provider, wired)
         /\ CallOK(call[c], ctor, conf, provider, wired, origin)
         /\ RequestOK(call[c].request, ctor, conf, provider, wired)
<1>1. call[c].pc = "sent"
  BY DEF Inv, CallOK
<1>2. stage = "ready"
  BY <1>1, InUse
<1>3. CallOK(call[c], ctor, conf, provider, wired, origin)
  BY DEF Inv
<1> QED
  BY <1>1, <1>2, <1>3, Client DEF CallOK

\* What a FAPI profile demands holds of every request a client sends, however
\* its goroutines interleave: validateFAPIProfileRequirements runs once, the
\* negotiation with every authorization request and callback.
THEOREM FAPIRequestsHold == Spec => []FAPIRequests
<1>1. Inv => FAPIAuthentication
  <2> SUFFICES ASSUME Inv, isFAPI(conf.profile), Pinned,
                      NEW c \in Callers,
                      call[c].request.kind \in {"par", "token"}
               PROVE  /\ call[c].request.method \in FAPIMethods
                      /\ conf.key \in {"plain", "cert"}
    BY DEF FAPIAuthentication, InFlight
  <2>1. /\ ConstructorChecked(ctor, conf, provider, wired)
        /\ RequestOK(call[c].request, ctor, conf, provider, wired)
    BY RequestInUse
  <2> QED
    BY <2>1 DEF ConstructorChecked, RequestOK, MethodOK, Pinned
<1>2. Inv => ProfileProtected
  <2> SUFFICES ASSUME Inv, isFAPI(conf.profile), NEW c \in Callers,
                      call[c].request.kind \in {"redirect", "par"}
               PROVE  LET r == call[c].request
                      IN /\ \/ r.kind = "par"
                            \/ conf.profile \notin FAPI2 /\ r.signedBy = "key"
                         /\ conf.profile = "FAPI2MS" =>
                              conf.responseMode = "jwt"
                         /\ conf.profile # "PlainFAPI" => conf.validateIssuer
    BY DEF ProfileProtected, InFlight
  <2>1. /\ ConstructorChecked(ctor, conf, provider, wired)
        /\ RequestOK(call[c].request, ctor, conf, provider, wired)
    BY RequestInUse
  <2>2. conf.profile # "PlainFAPI" => conf.validateIssuer
    BY <2>1 DEF ConstructorChecked
  <2>3. /\ conf.profile = "FAPI2MS" => conf.responseMode = "jwt"
        /\ \/ call[c].request.kind = "par"
           \/ conf.profile \notin FAPI2 /\ call[c].request.signedBy = "key"
    BY <2>1 DEF ConstructorChecked, RequestOK
  <2> QED
    BY <2>2, <2>3
<1> QED
  BY <1>1, <1>2, InvHolds, PTL DEF FAPIRequests

\* With a provider known by its issuer, the method of a pushed request or a
\* grant is one the client has the credential for and, if it is a TLS method,
\* presents (selectAuthMethodFromSupported, wireMTLSClientCertificate); so is
\* that of a request of the other constructors' clients.  A grant then uses a
\* method the provider published.  No request goes to an unchecked endpoint of
\* a document that is configured or discovered as a whole (ValidateEndpoints).
\* Nothing is said of introspection by an RP, of providers without an issuer,
\* or of the endpoints of merged and OAuth documents.
THEOREM RequestsAlwaysFit == Spec => []RequestsFit
<1>1. Inv => CredentialPresented
  <2> SUFFICES ASSUME Inv, Pinned \/ ctor # "New", NEW c \in Callers,
                      \/ call[c].request.kind \in {"par", "token"}
                      \/ ctor # "New" /\ call[c].request.kind = "introspection"
               PROVE  LET r == call[c].request
                      IN /\ r.method \in {"basic", "post", "secretJWT"} =>
                              conf.secret
                         /\ r.method = "keyJWT" => conf.key # "none"
                         /\ r.method \in TLSMethods => wired
    BY DEF CredentialPresented, InFlight
  <2>1. RequestOK(call[c].request, ctor, conf, provider, wired)
    BY RequestInUse
  <2>2. MethodOK(call[c].request.method, ctor, conf, provider, wired)
    BY <2>1 DEF RequestOK
  <2> QED
    BY <2>2, Credentials DEF MethodOK, Pinned
<1>2. Inv => PublishedMethod
  <2> SUFFICES ASSUME Inv, Pinned, NEW c \in Callers,
                      call[c].request.kind = "token", call[c].doc.methods # {}
               PROVE  methodSupported(call[c].request.method,
                                      call[c].doc.methods)
    BY DEF PublishedMethod
  <2>1. /\ call[c].pc = "sent"
        /\ CallOK(call[c], ctor, conf, provider, wired, origin)
        /\ RequestOK(call[c].request, ctor, conf, provider, wired)
    BY RequestInUse
  <2>2. call[c].doc = provider /\ ctor \in Granting
    BY <2>1 DEF CallOK, Pinned
  <2> QED
    BY <2>1, <2>2 DEF RequestOK, MethodOK, Pinned
<1>3. Inv => EndpointsChecked
  BY DEF Inv, CallOK, EndpointsChecked
<1> QED
  BY <1>1, <1>2, <1>3, InvHolds, PTL DEF RequestsFit

\* A login that asks for sender-constrained tokens gets them
\* (shouldUseDPoPWithAuthMethod, effectiveTokenEndpoint, the certificate on
\* the connection).
THEOREM TokensSenderConstrained == Spec => []SenderConstrained
<1>1. Inv => SenderConstrained
  <2> SUFFICES ASSUME Inv, ctor = "New", NEW c \in Callers
               PROVE  /\ conf.senderConstrain = "dpop" =>
                           (call[c].request.kind \in {"par", "token"} =>
                              call[c].request.dpop)
                      /\ conf.senderConstrain = "mtls" =>
                           (call[c].request.kind = "token" =>
                              /\ wired
                              /\ call[c].doc.at["mtlsToken"] # "none" =>
                                   call[c].request.to = "mtlsToken")
    BY DEF SenderConstrained, InFlight
  <2>1. CASE call[c].request.kind = "none"
    BY <2>1
  <2>2. CASE call[c].request.kind # "none"
    <3>1. /\ ConstructorChecked(ctor, conf, provider, wired)
          /\ CallOK(call[c], ctor, conf, provider, wired, origin)
          /\ RequestOK(call[c].request, ctor, conf, provider, wired)
      BY <2>2, RequestInUse
    <3>2. conf.senderConstrain = "dpop" =>
            (call[c].request.kind \in {"par", "token"} => call[c].request.dpop)
      BY <3>1 DEF RequestOK
    <3>3. conf.senderConstrain = "mtls" => wired
      BY <3>1 DEF ConstructorChecked
    <3>4. conf.senderConstrain = "mtls" /\ call[c].request.kind = "token" =>
            (call[c].doc.at["mtlsToken"] # "none" =>
               call[c].request.to = "mtlsToken")
      BY <3>1 DEF CallOK, AliasUsed
    <3> QED
      BY <3>2, <3>3, <3>4
  <2> QED
    BY <2>1, <2>2
<1> QED
  BY <1>1, InvHolds, PTL

\* The explicit values of cf are those of df.
Kept(cf, df) ==
  /\ cf.scopesExplicit => df.scopes = cf.scopes
  /\ cf.requirePARExplicit => df.requirePAR = cf.requirePAR
  /\ cf.requestMethodExplicit => df.requestMethod = cf.requestMethod
  /\ cf.responseModeExplicit => df.responseMode = cf.responseMode
  /\ cf.responseTypeExplicit => df.responseType = cf.responseType
  /\ cf.validateIssuerSet => df.validateIssuer = cf.validateIssuer

\* An option the caller gave is never replaced by a default of the profile,
\* wherever in the list of options the profile stands (applyProfileDefaults):
\* the constructor keeps the value or refuses.
THEOREM ExplicitOptionsKept == Spec => ExplicitKept
<1>1. Inv /\ [Next]_vars =>
        (stage' \notin {"options", "refused"} => Kept(conf, conf'))
  <2> SUFFICES ASSUME Inv, [Next]_vars, stage' \notin {"options", "refused"}
               PROVE  Kept(conf, conf')
    OBVIOUS
  <2>1. ASSUME UNCHANGED conf PROVE Kept(conf, conf')
    BY <2>1 DEF Kept
  <2>2. CASE Options
    <3>1. ASSUME NEW new, Apply(new) PROVE FALSE
      BY <3>1 DEF Apply
    <3>2. ASSUME NEW new, AuthCodeOption(new) PROVE FALSE
      BY <3>1, <3>2 DEF AuthCodeOption, Refuse
    <3> QED
      BY <2>2, <3>1, <3>2
         DEF Options, WithClientID, WithRedirectURI, WithClientSecret,
             WithClientKeyProvider, WithAuthMethod, WithScopes,
             WithSenderConstrain, WithProviderMetadata, InvalidOption,
             WithRequirePAR, WithRequestMethod, WithResponseMode,
             WithResponseType, WithValidateAuthorizationResponseIssuer,
             WithProfile, WithDiscoveryMode
  <2>3. CASE Prepare
    <3> DEFINE df == IF ctor = "New" THEN applyProfileDefaults(conf) ELSE conf
    <3>1. ~Refuse
      BY DEF Refuse
    <3>2. conf' = df
      BY <2>3, <3>1 DEF Prepare
    <3>3. CASE ctor = "New"
      <4>1. ConfigOK("New", conf)
        BY <3>3 DEF Inv, Building
      <4> QED
        BY <3>2, <3>3, <4>1, ProfileDefaults DEF Kept
    <3>4. CASE ctor # "New"
      BY <2>1, <3>2, <3>4
    <3> QED
      BY <3>3, <3>4
  <2>4. CASE \/ resolveProvider \/ resolveProviderFromDiscovery
             \/ ResolveAuthMethod \/ Finish
    <3>1. Refuse \/ UNCHANGED conf
      BY <2>4 DEF resolveProvider, resolveProviderFromDiscovery,
                  ResolveAuthMethod, Finish, Resolved
    <3> QED
      BY <2>1, <3>1 DEF Refuse
  <2>5. CASE \E c \in Callers : Use(c)
    <3>1. UNCHANGED conf
      BY <2>5 DEF Use, AuthorizationURL, ReadMethod, SendAuthorization,
                  HandleCallback, TokenEndpoint, executeTokenGrant,
                  TokenAnswer, IntrospectToken, IntrospectionAnswer,
                  GrantRequest, OtherAnswer, Done, Proceed
    <3> QED
      BY <2>1, <3>1
  <2>6. CASE UNCHANGED vars
    BY <2>1, <2>6 DEF vars
  <2> QED
    BY <2>2, <2>3, <2>4, <2>5, <2>6 DEF Next, Construct
<1>2. Inv /\ [Next]_vars =>
        [stage' \notin {"options", "refused"} =>
           /\ conf.scopesExplicit => conf'.scopes = conf.scopes
           /\ conf.requirePARExplicit => conf'.requirePAR = conf.requirePAR
           /\ conf.requestMethodExplicit =>
                conf'.requestMethod = conf.requestMethod
           /\ conf.responseModeExplicit =>
                conf'.responseMode = conf.responseMode
           /\ conf.responseTypeExplicit =>
                conf'.responseType = conf.responseType
           /\ conf.validateIssuerSet =>
                conf'.validateIssuer = conf.validateIssuer]_vars
  BY <1>1 DEF Kept
<1> QED
  BY <1>2, InvHolds, PTL DEF Spec, ExplicitKept
=============================================================================
