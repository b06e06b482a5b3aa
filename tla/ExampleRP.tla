----------------------------- MODULE ExampleRP -----------------------------
(***************************************************************************)
(* cmd/example-rp: the server the conformance suite tests.  Concurrent     *)
(* HTTP handlers share                                                     *)
(*   - the registry of conformance runtimes, one configuration per alias,  *)
(*     replaced by every test module and deleted when a job ends;          *)
(*   - the cache of dynamically registered clients, behind one mutex that  *)
(*     is held over discovery and registration;                            *)
(*   - the state stores, namespaced per registration, in which issuers are *)
(*     stored under their alias;                                           *)
(*   - the store of request objects served at /request/{id}.               *)
(* Every handler builds its own RP; what one RP does with a login is       *)
(* AuthCodeFlow's subject, here only the order of its store accesses and   *)
(* requests matters.                                                       *)
(*                                                                         *)
(* A login is one AuthorizationURL call; its number also names its state,  *)
(* its code and its request object.  The issuer of alias a is .../test/a/a *)
(* in full, or a itself: records [full, of].  The clients are the two that *)
(* are configured, and one per dynamic registration.                       *)
(***************************************************************************)
EXTENDS Naturals, Sequences

CONSTANTS
  Aliases,
  EnvAlias,          \* the alias in RP_ISSUER
  Modules,           \* names of test modules
  EncryptedModules,  \* the ones the second static client is for
  Traffic,           \* bound: the requests a behaviour may contain
  Handlers,          \* requests served at a time
  MaxLogins,         \* bound: AuthorizationURL calls
  MaxClients,        \* bound: dynamic client registrations
  None

Logins == 1..MaxLogins
Actions == {"full_flow", "discovery_only", "discovery_and_jwks",
            "discovery_webfinger_acct", "discovery_webfinger_url"}
Clients == ({"static"} \X (1..2)) \cup ({"dynamic"} \X (1..MaxClients))
Static(n) == <<"static", n>>
Dynamic(n) == <<"dynamic", n>>
Namespaces == (Aliases \X (Modules \cup {None})) \cup {None}

\* The registry holds rpRuntimeConfig values; Default is the configuration of
\* a request that resolves to no runtime.
RuntimeConfig ==
  [alias : Aliases, module : Modules \cup {None},
   namespace : Aliases \X (Modules \cup {None}),
   action : Actions \cup {None}, allowError : BOOLEAN,
   complete : BOOLEAN,    \* has a client_id (or registers one) and redirect_uri
   client : Clients, dynamic : BOOLEAN, openid : BOOLEAN,
   fapi : BOOLEAN,        \* any FAPI profile: a resource is fetched
   memory : BOOLEAN,      \* one of those whose logins are kept in memory
   requestURI : BOOLEAN]

Issuers == [full : BOOLEAN, of : Aliases]

\* A correlation in a state store, and what has come of the login.
Stores == [base : {"memory", "cookie"}, namespace : Namespaces]
LoginResult == [store : Stores, issuer : Issuers]
LoginState ==
  [store : Stores, client : Clients \cup {None}, by : Clients,
   issuer : Issuers, openid : BOOLEAN,
   alias : Aliases,
   state : {"saved", "taken", "done"},
   presented : Clients \cup {None},
   result : LoginResult \cup {None}]

\* An entry of the cache of dynamically registered clients.
DynamicClient == [client : Clients, module : Modules \cup {None}]

ASSUME ExampleAssumption ==
  /\ EnvAlias \in Aliases
  /\ EncryptedModules \subseteq Modules
  /\ Traffic \subseteq
       [runtimes : SUBSET RuntimeConfig,   \* posted to /conformance/runtime
        logins :                           \* issuer and module_name of /login
          SUBSET ((Aliases \cup {None}) \X (Modules \cup {None}))]
  /\ \A t \in Traffic : \A q \in t.runtimes : q.memory => q.fapi
  /\ MaxLogins \in Nat /\ MaxClients \in Nat
  /\ None \notin Aliases \cup Modules \cup Handlers \cup Clients
  /\ None \notin Aliases \X (Modules \cup {None})
  /\ None \notin RuntimeConfig
  /\ None \notin DynamicClient
  /\ None \notin LoginState
  /\ None \notin LoginResult

Default ==
  [alias |-> EnvAlias, module |-> None, namespace |-> None, action |-> None,
   allowError |-> FALSE, complete |-> TRUE, client |-> Static(1),
   dynamic |-> FALSE, openid |-> TRUE, fapi |-> FALSE, memory |-> FALSE,
   requestURI |-> FALSE]

VARIABLES
  traffic,    \* the requests of this behaviour
  registry,   \* conformanceRuntimes: [Aliases -> RuntimeConfig or None]
  dynamic,    \* dynamicRegistrations.entries
  lock,       \* who holds the mutex of dynamicRegistrations
  issued,     \* history: the dynamic registrations, <<alias, module>> each
  login,      \* login[l]: what AuthorizationURL saved, and what came of it
  object,     \* object[l]: age of the request object of login l
  items,      \* ids in the request object store
  handler     \* handler[h]: progress of a request

vars == <<traffic, registry, dynamic, lock, issued, login, object, items, handler>>
objVars == <<object, items>>

IssuerOf(cfg) == [full |-> TRUE, of |-> cfg.alias]

Idle ==
  [pc |-> "idle", cfg |-> Default, name |-> None, after |-> "idle",
   client |-> Static(1), login |-> 0, issuer |-> IssuerOf(Default),
   fapi |-> FALSE]

Init ==
  /\ traffic \in Traffic
  /\ registry = [a \in Aliases |-> None]
  /\ dynamic = [a \in Aliases |-> None]
  /\ lock = None
  /\ issued = <<>>
  /\ login = [l \in Logins |-> None]
  /\ object = [l \in Logins |-> "none"]
  /\ items = {}
  /\ handler = [h \in Handlers |-> Idle]

-----------------------------------------------------------------------------
(* Configuration of a request *)

\* An unknown or empty startup action is the full flow.
parseStartupAction(s) == IF s \in Actions THEN s ELSE "full_flow"

shouldRegisterDynamically(cfg) ==
  cfg.dynamic /\ parseStartupAction(cfg.action) = "full_flow"

shouldUseSecondClient(name) == name \in EncryptedModules

\* plain_fapi and fapi2 profiles; a FAPI 1 runtime keeps its logins in cookies.
shouldUseMemoryStateStore(cfg) == cfg.memory

\* The store an RP uses and the namespace its keys get there.
stateStoreForRuntime(cfg) ==
  [base |-> IF shouldUseMemoryStateStore(cfg) THEN "memory" ELSE "cookie",
   namespace |-> cfg.namespace]

\* Only the cookie store of a runtime abbreviates issuers.
Abbreviates(cfg) == cfg # Default /\ ~shouldUseMemoryStateStore(cfg)

\* The configurations a request may resolve to: none when it names an alias
\* that is not registered.  An explicit issuer wins over the path, and so does
\* the alias in RP_ISSUER once it is registered.
resolveRPRequest(issuerAlias, pathAlias) ==
  LET alias == IF issuerAlias = None THEN EnvAlias ELSE issuerAlias
  IN IF registry[alias] # None THEN {registry[alias]}
     ELSE IF issuerAlias # None THEN {}
     ELSE IF pathAlias = None THEN {Default}
     ELSE {registry[pathAlias]} \ {None}

\* The handler goes on at pc with client c, or by way of the dynamic
\* registration for module name.
Resolved(hs, cfg, name, c, pc) ==
  IF shouldRegisterDynamically(cfg)
  THEN [hs EXCEPT !.pc = "lock", !.cfg = cfg, !.name = name, !.after = pc]
  ELSE [hs EXCEPT !.pc = pc, !.cfg = cfg, !.client = c]

\* A request's module name may ask for the second client.
applyRuntimeConfig(hs, cfg, name, pc) ==
  Resolved(hs, cfg, name,
           IF shouldUseSecondClient(name) THEN Static(2) ELSE cfg.client, pc)

resolveRPRequestFromRuntimeConfig(cfg) ==
  Resolved(Idle, cfg, cfg.module, cfg.client, "startup")

\* The handler goes on to Register.
Stored(hs) == [Idle EXCEPT !.pc = "store", !.cfg = hs.cfg]

\* An error answer.  A runtime request that allows errors registers all the same.
Failed(hs) ==
  IF "startup" \in {hs.pc, hs.after} /\ hs.cfg.allowError
  THEN Stored(hs)
  ELSE Idle

-----------------------------------------------------------------------------
(* ensureDynamicClientRegistration *)

\* The handler goes on with client c, unless it resolves for the second time.
WithClient(hs, c) ==
  [hs EXCEPT !.pc = hs.after, !.after = "idle", !.name = None,
             !.client = IF hs.after = "consume" THEN @ ELSE c]

\* The cached client serves requests without a module and those of its own.
Cached(hs) ==
  LET entry == dynamic[hs.cfg.alias]
  IN entry # None /\ (hs.name = None \/ hs.name = entry.module)

\* Mutant: the mutex is not held over the requests to the provider.
LookupUnlocked(h) ==
  LET hs == handler[h] IN
  /\ hs.pc = "lock"
  /\ handler' = [handler EXCEPT ![h] =
                   IF Cached(hs) THEN WithClient(hs, dynamic[hs.cfg.alias].client)
                   ELSE [hs EXCEPT !.pc = "net"]]
  /\ UNCHANGED <<traffic, registry, dynamic, lock, issued, login, object, items>>

\* The lock is kept over the requests to the provider.
LockDynamic(h) ==
  LET hs == handler[h] IN
  /\ hs.pc = "lock"
  /\ lock = None
  /\ handler' = [handler EXCEPT ![h] =
                   IF Cached(hs) THEN WithClient(hs, dynamic[hs.cfg.alias].client)
                   ELSE [hs EXCEPT !.pc = "net"]]
  /\ lock' = IF Cached(hs) THEN None ELSE h
  /\ UNCHANGED <<traffic, registry, dynamic, issued, login, object, items>>

\* Discovery and registration succeed.
RegisterClient(h) ==
  LET hs == handler[h]
      c == Dynamic(Len(issued) + 1)
  IN /\ hs.pc = "net"
     /\ Len(issued) < MaxClients
     /\ issued' = Append(issued, <<hs.cfg.alias, hs.name>>)
     /\ dynamic' = [dynamic EXCEPT ![hs.cfg.alias] =
                      [client |-> c, module |-> hs.name]]
     /\ lock' = None
     /\ handler' = [handler EXCEPT ![h] = WithClient(hs, c)]
     /\ UNCHANGED <<traffic, registry, login, object, items>>

\* One of them fails, or the HTTP client's timeout ends it.
RegisterClientFails(h) ==
  /\ handler[h].pc = "net"
  /\ lock' = None
  /\ handler' = [handler EXCEPT ![h] = Failed(@)]
  /\ UNCHANGED <<traffic, registry, dynamic, issued, login, object, items>>

-----------------------------------------------------------------------------
(* AuthorizationURL, by /login and by the full-flow startup action *)

\* The next random values.
FreshLogins ==
  {l \in Logins : \A k \in l..MaxLogins : login[k] = None /\ object[k] = "none"}
NextLogin ==
  {l \in FreshLogins : l - 1 \notin FreshLogins}

\* SaveCorrelation of issuerShorthandStore: the alias replaces the issuer if
\* it is registered at that time.
shorten(cfg) ==
  [full |-> ~(Abbreviates(cfg) /\ registry[cfg.alias] # None), of |-> cfg.alias]

\* The client as the store keeps it: the payload of a cookie has no field for
\* it (toPayloadCorrelation).
toPayloadCorrelation(cfg, client) ==
  IF shouldUseMemoryStateStore(cfg) THEN client ELSE None

\* state: in the store, taken by a callback, or done.  by: history, the client
\* the authorization request was made with.
saveCorrelation(cfg, client) ==
  [store |-> stateStoreForRuntime(cfg),
   client |-> toPayloadCorrelation(cfg, client),
   issuer |-> shorten(cfg), openid |-> cfg.openid, alias |-> cfg.alias,
   state |-> "saved", by |-> client, presented |-> None, result |-> None]

\* Store of requestObjectStore.
StoreObject(cfg, l) ==
  IF cfg.requestURI
  THEN object' = [object EXCEPT ![l] = "live"] /\ items' = items \cup {l}
  ELSE UNCHANGED objVars

\* The RP is built, the request object stored, then the correlation saved.
AuthorizationURL(h, l, saves) ==
  LET hs == handler[h] IN
  /\ StoreObject(hs.cfg, l)
  /\ login' = IF saves
              THEN [login EXCEPT ![l] = saveCorrelation(hs.cfg, hs.client)]
              ELSE login

-----------------------------------------------------------------------------
(* POST and DELETE /conformance/runtime *)

\* The startup action is resolved and run before the runtime is registered.
PostRuntime(h, q) ==
  /\ handler[h].pc = "idle"
  /\ handler' = [handler EXCEPT ![h] =
       IF q.action = None THEN Stored([cfg |-> q])
       ELSE resolveRPRequestFromRuntimeConfig(q)]
  /\ UNCHANGED <<traffic, registry, dynamic, lock, issued, login, object,
                 items>>

\* executeStartupAction and, for an error, handleConformanceRuntime.
StartupError(hs) == Failed(hs)

executeStartupAction(h) ==
  LET hs == handler[h] IN
  /\ hs.pc = "startup"
  /\ \/ /\ parseStartupAction(hs.cfg.action) = "full_flow"
        /\ \E l \in NextLogin, ok \in BOOLEAN :
               /\ AuthorizationURL(h, l, ok)
               /\ handler' = [handler EXCEPT ![h] =
                    IF ok THEN Stored(hs) ELSE StartupError(hs)]
     \/ /\ parseStartupAction(hs.cfg.action) # "full_flow"
        /\ handler' = [handler EXCEPT ![h] = Stored(hs)]
        /\ UNCHANGED <<login, object, items>>
     \/ /\ handler' = [handler EXCEPT ![h] = StartupError(hs)]
        /\ UNCHANGED <<login, object, items>>
  /\ UNCHANGED <<traffic, registry, dynamic, lock, issued>>

Register(h) ==
  LET cfg == handler[h].cfg IN
  /\ handler[h].pc = "store"
  /\ registry' = IF cfg.complete THEN [registry EXCEPT ![cfg.alias] = cfg]
                 ELSE registry
  /\ handler' = [handler EXCEPT ![h] = Idle]
  /\ UNCHANGED <<traffic, dynamic, lock, issued, login, object, items>>

DeleteRuntime(a) ==
  /\ registry[a] # None
  /\ registry' = [registry EXCEPT ![a] = None]
  /\ UNCHANGED <<traffic, dynamic, lock, issued, login, object, items, handler>>

-----------------------------------------------------------------------------
(* GET /login?issuer=..&module_name=.. *)

Login(h, issuerAlias, name) ==
  /\ handler[h].pc = "idle"
  /\ \E cfg \in resolveRPRequest(issuerAlias, None) :
       handler' = [handler EXCEPT ![h] = applyRuntimeConfig(Idle, cfg, name, "authorize")]
  /\ UNCHANGED <<traffic, registry, dynamic, lock, issued, login, object,
                 items>>

handleLogin(h) ==
  /\ handler[h].pc = "authorize"
  /\ handler' = [handler EXCEPT ![h] = Idle]
  /\ \/ \E l \in NextLogin, ok \in BOOLEAN : AuthorizationURL(h, l, ok)
     \/ UNCHANGED <<login, object, items>>
  /\ UNCHANGED <<traffic, registry, dynamic, lock, issued>>

-----------------------------------------------------------------------------
(* /callback and /callback/{alias} *)

\* The redirect URI of a runtime names its alias.
callbackAliasFromPath(l) ==
  IF login[l].store.namespace = None THEN None ELSE login[l].alias

\* rpClientFromRequest: the RP that will handle the callback.
Callback(h, l) ==
  /\ handler[h].pc = "idle"
  /\ login[l] # None
  /\ \E cfg \in resolveRPRequest(None, callbackAliasFromPath(l)) :
       handler' = [handler EXCEPT ![h] =
                     applyRuntimeConfig([Idle EXCEPT !.login = l], cfg, None, "again")]
  /\ UNCHANGED <<traffic, registry, dynamic, lock, issued, login, object,
                 items>>

\* The request is resolved a second time, for the status and the resource.
ResolveAgain(h) ==
  LET hs == handler[h]
      cfgs == resolveRPRequest(None, callbackAliasFromPath(hs.login))
  IN /\ hs.pc = "again"
     /\ IF cfgs = {} THEN handler' = [handler EXCEPT ![h] = Idle]
        ELSE \E cfg \in cfgs :
               handler' = [handler EXCEPT ![h] =
                 [@ EXCEPT !.fapi = cfg.fapi, !.after = "consume",
                           !.pc = IF shouldRegisterDynamically(cfg) THEN "lock"
                                  ELSE "consume"]]
     /\ UNCHANGED <<traffic, registry, dynamic, lock, issued, login, object,
                 items>>

\* namespaceKey: the key a callback looks under is the one the login has.
SameKey(a, b) == a = b

\* ConsumeCorrelation of issuerShorthandStore: the alias is looked up again.
expand(cfg, issuer) ==
  [issuer EXCEPT !.full = @ \/ (Abbreviates(cfg) /\ registry[issuer.of] # None)]

\* Mutant: the client a correlation names is not looked at.
clientCredentials_OwnClient(hs, saved) == hs.client

\* A correlation without a client leaves the one the callback's RP has.
clientCredentials(hs, saved) ==
  IF saved.client = None THEN hs.client ELSE saved.client

ConsumeCorrelation(h) ==
  LET hs == handler[h]
      saved == login[hs.login]
      found == /\ saved # None
               /\ saved.state = "saved"
               /\ SameKey(saved.store, stateStoreForRuntime(hs.cfg))
  IN /\ hs.pc = "consume"
     /\ IF found
        THEN /\ login' = [login EXCEPT ![hs.login].state = "taken"]
             /\ handler' = [handler EXCEPT ![h] =
                  [hs EXCEPT !.pc = "exchange",
                             !.client = clientCredentials(hs, saved),
                             !.issuer = expand(hs.cfg, saved.issuer)]]
        ELSE /\ login' = login
             /\ handler' = [handler EXCEPT ![h] = Idle]
     /\ UNCHANGED <<traffic, registry, dynamic, lock, issued, object, items>>

\* An ID token names the issuer in full; without openid there is none.
IssuerValid(hs) == hs.cfg.openid => hs.issuer = IssuerOf(hs.cfg)

\* "Login complete".
Complete(hs) ==
  [login EXCEPT ![hs.login] =
     [@ EXCEPT !.state = "done", !.presented = hs.client,
               !.result = [store |-> stateStoreForRuntime(hs.cfg),
                           issuer |-> hs.issuer]]]

\* The code goes to the token endpoint with the client of the flow, and the ID
\* token it brings is validated.
ExchangeToken(h) ==
  LET hs == handler[h] IN
  /\ hs.pc = "exchange"
  /\ \/ /\ IssuerValid(hs) /\ ~hs.fapi
        /\ login' = Complete(hs)
        /\ handler' = [handler EXCEPT ![h] = Idle]
     \/ /\ IssuerValid(hs) /\ hs.fapi
        /\ login' = [login EXCEPT ![hs.login].presented = hs.client]
        /\ handler' = [handler EXCEPT ![h].pc = "resource"]
     \/ /\ login' = [login EXCEPT ![hs.login].presented = hs.client]
        /\ handler' = [handler EXCEPT ![h] = Idle]
  /\ UNCHANGED <<traffic, registry, dynamic, lock, issued, object, items>>

FetchResourceForever(h) ==
  LET hs == handler[h] IN
  /\ hs.pc \in {"resource", "retry"}
  /\ \/ login' = Complete(hs) /\ handler' = [handler EXCEPT ![h] = Idle]
     \/ login' = login /\ handler' = [handler EXCEPT ![h] = Idle]
     \/ /\ login' = login
        /\ handler' = [handler EXCEPT ![h].pc =
                         IF @ = "retry" THEN "resource" ELSE "retry"]
  /\ UNCHANGED <<traffic, registry, dynamic, lock, issued, object, items>>

\* maybeFetchConformanceResource: a DPoP nonce challenge is answered once.
FetchResource(h) ==
  LET hs == handler[h] IN
  /\ hs.pc \in {"resource", "retry"}
  /\ \/ login' = Complete(hs) /\ handler' = [handler EXCEPT ![h] = Idle]
     \/ login' = login /\ handler' = [handler EXCEPT ![h] = Idle]
     \/ /\ hs.pc = "resource"
        /\ login' = login
        /\ handler' = [handler EXCEPT ![h].pc = "retry"]
  /\ UNCHANGED <<traffic, registry, dynamic, lock, issued, object, items>>

-----------------------------------------------------------------------------
(* Request objects *)

\* Load reads the entry under the read lock ..
FetchObject(h, l) ==
  /\ handler[h].pc = "idle"
  /\ l \in items
  /\ handler' = [handler EXCEPT ![h] = [Idle EXCEPT !.pc = "loaded", !.login = l]]
  /\ UNCHANGED <<traffic, registry, dynamic, lock, issued, login, object,
                 items>>

\* .. serves it or, when it has expired, ..
CheckObject(h) ==
  LET l == handler[h].login IN
  /\ handler[h].pc = "loaded"
  /\ handler' = [handler EXCEPT ![h] =
       IF object[l] = "expired" THEN [@ EXCEPT !.pc = "evict"] ELSE Idle]
  /\ UNCHANGED <<traffic, registry, dynamic, lock, issued, login, object,
                 items>>

\* .. deletes it under the write lock.
EvictObject(h) ==
  /\ handler[h].pc = "evict"
  /\ items' = items \ {handler[h].login}
  /\ handler' = [handler EXCEPT ![h] = Idle]
  /\ UNCHANGED <<traffic, registry, dynamic, lock, issued, login, object>>

\* Mutant: the cleanup does not look at the expiry.
CleanupAll ==
  /\ items # {}
  /\ items' = {}
  /\ UNCHANGED <<traffic, registry, dynamic, lock, issued, login, object, handler>>

\* StartCleanup: the ticker's goroutine.
Cleanup ==
  /\ \E l \in items : object[l] = "expired"
  /\ items' = {l \in items : object[l] # "expired"}
  /\ UNCHANGED <<traffic, registry, dynamic, lock, issued, login, object, handler>>

ExpireObject(l) ==
  /\ object[l] = "live"
  /\ object' = [object EXCEPT ![l] = "expired"]
  /\ UNCHANGED <<traffic, registry, dynamic, lock, issued, login, items, handler>>

-----------------------------------------------------------------------------

\* What a handler does once its request has been taken up.
HandlerStep(h) ==
  \/ RegisterClient(h) \/ RegisterClientFails(h)
  \/ executeStartupAction(h) \/ Register(h)
  \/ handleLogin(h)
  \/ ResolveAgain(h) \/ ConsumeCorrelation(h)
  \/ ExchangeToken(h) \/ FetchResource(h)
  \/ CheckObject(h) \/ EvictObject(h)

Request(h) ==
  \/ \E q \in traffic.runtimes : PostRuntime(h, q)
  \/ \E r \in traffic.logins : Login(h, r[1], r[2])
  \/ \E l \in Logins : Callback(h, l) \/ FetchObject(h, l)

Next ==
  \/ \E h \in Handlers : Request(h) \/ LockDynamic(h) \/ HandlerStep(h)
  \/ \E a \in Aliases : DeleteRuntime(a)
  \/ \E l \in Logins : ExpireObject(l)
  \/ Cleanup

\* The server's goroutines run, its HTTP client has a timeout, sync.Mutex
\* starves no waiter and the cleanup ticker ticks.  No request need come.
Fairness ==
  /\ \A h \in Handlers : WF_vars(HandlerStep(h)) /\ SF_vars(LockDynamic(h))
  /\ WF_vars(Cleanup)

Spec == Init /\ [][Next]_vars /\ Fairness

-----------------------------------------------------------------------------
(* Properties *)

PCs == {"idle", "lock", "net", "startup", "store", "authorize", "again",
        "consume", "exchange", "resource", "retry",
        "loaded", "evict"}

\* A request object is served as long as it has not expired: neither the
\* cleanup nor a slow Load of another request removes it earlier.
LiveObjectKept == \A l \in Logins : object[l] = "live" => l \in items

\* Every variable has its type, the cache holds only clients the provider has
\* issued, and the store every live request object.
TypeOK ==
  /\ registry \in [Aliases -> RuntimeConfig \cup {None}]
  /\ \A a \in Aliases : dynamic[a] # None =>
        dynamic[a] \in [client : {"dynamic"} \X (1..Len(issued)), module : Modules \cup {None}]
  /\ Len(issued) <= MaxClients
  /\ \A l \in Logins : login[l] # None => login[l] \in LoginState
  /\ object \in [Logins -> {"none", "live", "expired"}]
  /\ items \subseteq Logins
  /\ \A h \in Handlers :
        /\ handler[h].pc \in PCs
        /\ handler[h].client \in Clients
        /\ handler[h].login \in 0..MaxLogins
  /\ lock \in Handlers \cup {None}
  /\ LiveObjectKept

\* A login is completed only by a callback served with the registration (the
\* namespace) that started it: a callback that comes after the next module
\* has replaced the runtime, or that RP_ISSUER sends to another alias, never
\* completes it.
ModuleIsolation ==
  \A l \in Logins : login[l] # None /\ login[l].result # None =>
    login[l].result.store = login[l].store

\* c is a client of the registration cfg: the configured one, or one that was
\* registered dynamically for its alias.
ClientOf(c, cfg) ==
  \/ c = cfg.client
  \/ c[1] = "dynamic" /\ issued[c[2]][1] = cfg.alias

\* The code of a login kept in memory goes to the token endpoint with the client
\* the login was started with, although the callback's RP is built from what
\* is registered then, and the client cached for the alias may be the next
\* module's.  A login kept in a cookie falls back on the RP's client; that is
\* at least one of the registration the login belongs to, never another
\* alias' client.
ClientKept ==
  \A l \in Logins : login[l] # None /\ login[l].presented # None =>
    \/ login[l].presented = login[l].by
    \/ /\ login[l].store.base = "cookie"
       /\ \E cfg \in traffic.runtimes \cup {Default} :
            /\ stateStoreForRuntime(cfg) = login[l].store
            /\ ClientOf(login[l].presented, cfg)

\* A completed login with an ID token has the issuer it was started with, in
\* full, although the store keeps the alias only and the runtime may be gone
\* when a callback resolves it.
IssuerKept ==
  \A l \in Logins :
    login[l] # None /\ login[l].result # None /\ login[l].openid =>
      login[l].result.issuer = [full |-> TRUE, of |-> login[l].alias]

\* A login ends as it began: same module, same issuer, and the same client
\* where the correlation can carry it.
LoginKept == ModuleIsolation /\ ClientKept /\ IssuerKept

\* One client is registered per module window: an alias never gets a second
\* registration under the module it was last registered for, however many
\* requests ask at the same time.
OneClientPerModule ==
  \A i \in 1..Len(issued), j \in 1..Len(issued) :
    /\ i < j
    /\ issued[i] = issued[j]
    => \E k \in i + 1..j - 1 : issued[k][1] = issued[i][1]

\* Every request gets its answer, those that wait for the mutex held over the
\* provider's answers too.
RequestsReturn ==
  \A h \in Handlers : (handler[h].pc # "idle") ~> (handler[h].pc = "idle")
=============================================================================
