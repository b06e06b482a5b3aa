-------------------------- MODULE ExampleRPProofs ---------------------------
(***************************************************************************)
(* Proofs about cmd/example-rp for any number of handlers, aliases, test   *)
(* modules, logins and dynamic registrations.                              *)
(***************************************************************************)
EXTENDS ExampleRP, TLAPS

-----------------------------------------------------------------------------
(* The inductive invariant *)

\* The configurations a request can resolve to, given the requests tr.
Served(tr) == tr.runtimes \cup {Default}

HandlerState(tr) ==
  [pc : PCs, cfg : Served(tr), name : Modules \cup {None}, after : PCs,
   client : Clients, login : 0..MaxLogins, issuer : Issuers, fapi : BOOLEAN]

\* A runtime is being posted.
Posting(hs) ==
  \/ hs.pc \in {"startup", "store"}
  \/ hs.pc \in {"lock", "net"} /\ hs.after = "startup"

\* A callback before and after it has taken the correlation of its login.
InCallback(hs) ==
  \/ hs.pc \in {"again", "consume"}
  \/ hs.pc \in {"lock", "net"} /\ hs.after \in {"again", "consume"}
Exchanging(hs) == hs.pc \in {"exchange", "resource", "retry"}

\* What a callback has taken over from the login record r: the alias of its
\* issuer and, from memory, its client, although the RP was built with another
\* one; its own configuration has the store of the login.  Past the exchange
\* the issuer has been validated.
TakenOver(hs, r) ==
  /\ r.store.base = "memory" => hs.client = r.by
  /\ r.store = stateStoreForRuntime(hs.cfg)
  /\ hs.issuer.of = r.alias
  /\ hs.pc # "exchange" => IssuerValid(hs)

\* A handler in the state hs, given the logins lg and the request objects ob.
HandlerOK(hs, tr, lg, ob) ==
  /\ hs \in HandlerState(tr)
  /\ Posting(hs) => hs.cfg \in tr.runtimes
  /\ InCallback(hs) => hs.login \in Logins /\ lg[hs.login] # None
  /\ Exchanging(hs) => /\ hs.login \in Logins
                       /\ lg[hs.login] # None
                       /\ TakenOver(hs, lg[hs.login])
  /\ hs.pc \in {"lock", "net"} =>
       hs.after \in {"startup", "authorize", "again", "consume"}
  /\ hs.pc \in {"loaded", "evict"} => hs.login \in Logins
  /\ hs.pc = "evict" => ob[hs.login] = "expired"

\* A login r was started by one of the configurations.
StartedBy(r, cfg) ==
  /\ r.store = stateStoreForRuntime(cfg)
  /\ r.openid = cfg.openid
  /\ r.alias = cfg.alias

LoginOK(r, tr) ==
  /\ r \in LoginState
  /\ r.client # None => r.client = r.by
  /\ r.store.base = "memory" => r.client # None
  /\ r.issuer.of = r.alias
  /\ \E cfg \in Served(tr) : StartedBy(r, cfg)
  /\ r.presented # None /\ r.store.base = "memory" => r.presented = r.by
  /\ r.result # None => /\ r.result.store = r.store
                        /\ r.result.issuer.of = r.alias

\* The ID token was validated against the issuer in full.
IssuerOK(r) ==
  r.result # None /\ r.openid => r.result.issuer = [full |-> TRUE, of |-> r.alias]

\* The cache holds the client of the last registration for the alias.
CacheOK(dy, is) ==
  /\ dy \in [Aliases -> DynamicClient \cup {None}]
  /\ is \in Seq(Aliases \X (Modules \cup {None}))
  /\ \A a \in Aliases :
       IF dy[a] = None
       THEN \A k \in 1..Len(is) : is[k][1] # a
       ELSE /\ dy[a].client \in {"dynamic"} \X (1..Len(is))
            /\ \E k \in 1..Len(is) :
                 /\ is[k] = <<a, dy[a].module>>
                 /\ \A j \in k + 1..Len(is) : is[j][1] # a

\* The handler that registers a client holds the mutex, and the cache has had
\* no client for it since it took it.
Uncached(hs, dy) ==
  dy[hs.cfg.alias] # None =>
    hs.name # None /\ hs.name # dy[hs.cfg.alias].module
MutexOK(hs, h, lk, dy) ==
  /\ hs.pc = "net" => lk = h /\ Uncached(hs, dy)
  /\ lk = h => hs.pc = "net"

RegistryOK(rg, tr) == tr \in Traffic /\ rg \in [Aliases -> tr.runtimes \cup {None}]
LoginsOK(lg, tr) ==
  /\ lg \in [Logins -> LoginState \cup {None}]
  /\ \A l \in Logins : lg[l] # None => LoginOK(lg[l], tr)
ObjectsOK(ob, it) ==
  /\ ob \in [Logins -> {"none", "live", "expired"}]
  /\ it \subseteq Logins
  /\ \A l \in Logins : ob[l] = "live" => l \in it
ClientsOK ==
  CacheOK(dynamic, issued) /\ Len(issued) <= MaxClients /\ OneClientPerModule
HandlersOK(hd, tr, lg, ob) ==
  /\ hd \in [Handlers -> HandlerState(tr)]
  /\ \A h \in Handlers : HandlerOK(hd[h], tr, lg, ob)
MutexesOK(hd, lk, dy) ==
  /\ lk \in Handlers \cup {None}
  /\ \A h \in Handlers : MutexOK(hd[h], h, lk, dy)

Inv ==
  /\ RegistryOK(registry, traffic)
  /\ LoginsOK(login, traffic)
  /\ ObjectsOK(object, items)
  /\ ClientsOK
  /\ HandlersOK(handler, traffic, login, object)
  /\ MutexesOK(handler, lock, dynamic)

-----------------------------------------------------------------------------
(* Configurations and handler states *)

\* What a configuration consists of.
LEMMA ConfigFields ==
  ASSUME NEW tr \in Traffic, NEW cfg \in Served(tr)
  PROVE  /\ cfg.alias \in Aliases
         /\ cfg.module \in Modules \cup {None}
         /\ cfg.client \in Clients
         /\ cfg.openid \in BOOLEAN
         /\ cfg.fapi \in BOOLEAN
         /\ cfg.memory \in BOOLEAN
         /\ stateStoreForRuntime(cfg) \in Stores
         /\ IssuerOf(cfg) \in Issuers
<1>1. tr.runtimes \subseteq RuntimeConfig
  BY ExampleAssumption
<1>2. CASE cfg \in RuntimeConfig
  BY <1>2 DEF RuntimeConfig, stateStoreForRuntime, IssuerOf, Stores, Issuers,
              Namespaces
<1>3. CASE cfg = Default
  BY <1>3, ExampleAssumption
     DEF Default, Static, Clients, stateStoreForRuntime, shouldUseMemoryStateStore,
         IssuerOf, Stores, Issuers, Namespaces
<1>4. QED
  BY <1>1, <1>2, <1>3 DEF Served

\* A handler that waits for a request.
LEMMA IdleOK ==
  ASSUME NEW tr \in Traffic, NEW lg, NEW ob
  PROVE  HandlerOK(Idle, tr, lg, ob) /\ Idle.pc = "idle"
<1>1. Default \in Served(tr)
  BY DEF Served
<1>2. /\ Static(1) \in Clients
      /\ IssuerOf(Default) \in Issuers
  BY <1>1, ConfigFields DEF Static, Clients
<1>3. Idle \in HandlerState(tr)
  BY <1>1, <1>2, ExampleAssumption DEF Idle, HandlerState, PCs
<1>4. QED
  BY <1>3 DEF HandlerOK, Idle, Posting, InCallback, Exchanging

\* A handler that is about to store the runtime it was sent.
LEMMA StoredOK ==
  ASSUME NEW tr \in Traffic, NEW lg, NEW ob, NEW hs, hs.cfg \in tr.runtimes
  PROVE  HandlerOK(Stored(hs), tr, lg, ob) /\ Stored(hs).pc = "store"
<1>1. Idle \in HandlerState(tr)
  BY IdleOK DEF HandlerOK
<1>2. /\ Stored(hs) \in HandlerState(tr)
      /\ Stored(hs).pc = "store"
      /\ Stored(hs).cfg = hs.cfg
  BY <1>1 DEF Stored, HandlerState, PCs, Served
<1>3. QED
  BY <1>2 DEF HandlerOK, Posting, InCallback, Exchanging

\* A handler after an error.
LEMMA FailedOK ==
  ASSUME NEW tr \in Traffic, NEW lg, NEW ob, NEW hs, HandlerOK(hs, tr, lg, ob),
         hs.pc \in {"net", "startup"}
  PROVE  HandlerOK(Failed(hs), tr, lg, ob) /\ Failed(hs).pc # "net"
<1>1. "startup" \in {hs.pc, hs.after} => hs.cfg \in tr.runtimes
  BY DEF HandlerOK, Posting
<1>2. QED
  BY <1>1, StoredOK, IdleOK DEF Failed

\* A handler whose request has been resolved to cfg.
LEMMA ResolvedOK ==
  ASSUME NEW tr \in Traffic, NEW lg, NEW ob,
         NEW hs \in HandlerState(tr), NEW cfg \in Served(tr),
         NEW name \in Modules \cup {None}, NEW c \in Clients,
         NEW pc \in {"startup", "authorize", "again"},
         pc = "startup" => cfg \in tr.runtimes,
         pc = "again" => hs.login \in Logins /\ lg[hs.login] # None
  PROVE  /\ HandlerOK(Resolved(hs, cfg, name, c, pc), tr, lg, ob)
         /\ Resolved(hs, cfg, name, c, pc).pc # "net"
<1>1. CASE shouldRegisterDynamically(cfg)
  <2> DEFINE new == [hs EXCEPT !.pc = "lock", !.cfg = cfg, !.name = name, !.after = pc]
  <2>1. Resolved(hs, cfg, name, c, pc) = new
    BY <1>1 DEF Resolved
  <2>2. /\ new \in HandlerState(tr) /\ new.pc = "lock" /\ new.after = pc
        /\ new.login = hs.login /\ new.cfg = cfg
    BY DEF HandlerState, PCs
  <2> HIDE DEF new
  <2>3. QED
    BY <2>1, <2>2 DEF HandlerOK, Posting, InCallback, Exchanging
<1>2. CASE ~shouldRegisterDynamically(cfg)
  <2> DEFINE new == [hs EXCEPT !.pc = pc, !.cfg = cfg, !.client = c]
  <2>1. Resolved(hs, cfg, name, c, pc) = new
    BY <1>2 DEF Resolved
  <2>2. new \in HandlerState(tr) /\ new.pc = pc /\ new.login = hs.login
        /\ new.cfg = cfg
    BY DEF HandlerState, PCs
  <2> HIDE DEF new
  <2>3. QED
    BY <2>1, <2>2 DEF HandlerOK, Posting, InCallback, Exchanging
<1>3. QED
  BY <1>1, <1>2

\* A handler that has got its dynamic client.
LEMMA WithClientOK ==
  ASSUME NEW tr \in Traffic, NEW lg, NEW ob, NEW hs, HandlerOK(hs, tr, lg, ob),
         hs.pc \in {"lock", "net"}, NEW c \in Clients
  PROVE  /\ HandlerOK(WithClient(hs, c), tr, lg, ob)
         /\ WithClient(hs, c).pc # "net"
<1> DEFINE d == IF hs.after = "consume" THEN hs.client ELSE c
           new == [hs EXCEPT !.pc = hs.after, !.after = "idle", !.name = None,
                             !.client = d]
<1>1. hs \in HandlerState(tr)
  BY DEF HandlerOK
<1>2. d \in Clients
  BY <1>1 DEF HandlerState
<1>3. WithClient(hs, c) = new
  BY <1>1 DEF WithClient, HandlerState
<1> HIDE DEF d
<1>4. /\ new \in HandlerState(tr) /\ new.pc = hs.after
      /\ new.login = hs.login /\ new.cfg = hs.cfg
  BY <1>1, <1>2 DEF HandlerState, PCs
<1> HIDE DEF new
<1>5. QED
  BY <1>3, <1>4 DEF HandlerOK, Posting, InCallback, Exchanging

-----------------------------------------------------------------------------
(* Steps of one handler *)

\* Logins are never forgotten, and what they were started with stays.
Grows(lg, lg2) ==
  \A l \in Logins : lg[l] # None =>
    /\ lg2[l] # None
    /\ lg2[l].by = lg[l].by
    /\ lg2[l].store = lg[l].store
    /\ lg2[l].alias = lg[l].alias

\* An expired request object stays expired.
StaysExpired(ob, ob2) == \A l \in Logins : ob[l] = "expired" => ob2[l] = "expired"

\* A step of another handler does not disturb a handler.
LEMMA HandlerUndisturbed ==
  ASSUME NEW tr, NEW hs, NEW lg, NEW lg2, NEW ob, NEW ob2,
         HandlerOK(hs, tr, lg, ob), Grows(lg, lg2), StaysExpired(ob, ob2)
  PROVE  HandlerOK(hs, tr, lg2, ob2)
BY DEF HandlerOK, Grows, StaysExpired, TakenOver

\* Handler h goes to the state new.
LEMMA HandlersKept ==
  ASSUME Inv, NEW h \in Handlers, NEW new,
         handler' = [handler EXCEPT ![h] = new],
         HandlerOK(new, traffic, login', object'),
         Grows(login, login'), StaysExpired(object, object'), traffic' = traffic
  PROVE  HandlersOK(handler', traffic', login', object')
<1>1. handler \in [Handlers -> HandlerState(traffic)] /\ new \in HandlerState(traffic)
  BY DEF Inv, HandlersOK, HandlerOK
<1>2. \A g \in Handlers : HandlerOK(handler[g], traffic, login', object')
  BY HandlerUndisturbed DEF Inv, HandlersOK
<1>3. \A g \in Handlers : handler'[g] = IF g = h THEN new ELSE handler[g]
  BY <1>1
<1>4. QED
  BY <1>1, <1>2, <1>3 DEF HandlersOK

\* The mutex does not change hands.
LEMMA MutexesKept ==
  ASSUME Inv, NEW h \in Handlers, NEW new,
         handler' = [handler EXCEPT ![h] = new],
         handler[h].pc # "net", new.pc # "net",
         lock' = lock, dynamic' = dynamic
  PROVE  MutexesOK(handler', lock', dynamic')
<1>1. handler \in [Handlers -> HandlerState(traffic)]
  BY DEF Inv, HandlersOK
<1>2. \A g \in Handlers : handler'[g] = IF g = h THEN new ELSE handler[g]
  BY <1>1
<1>3. QED
  BY <1>2 DEF Inv, MutexesOK, MutexOK

\* A step of handler h that changes nothing else.
LEMMA LocalStep ==
  ASSUME Inv, NEW h \in Handlers, NEW new,
         handler' = [handler EXCEPT ![h] = new],
         HandlerOK(new, traffic, login, object),
         handler[h].pc # "net", new.pc # "net",
         UNCHANGED <<traffic, registry, dynamic, lock, issued, login, object, items>>
  PROVE  Inv'
<1>1. Grows(login, login') /\ StaysExpired(object, object')
  BY DEF Grows, StaysExpired
<1>2. HandlersOK(handler', traffic', login', object')
  BY <1>1, HandlersKept
<1>3. MutexesOK(handler', lock', dynamic')
  BY MutexesKept
<1>4. ClientsOK'
  BY DEF Inv, ClientsOK, OneClientPerModule
<1>5. QED
  BY <1>2, <1>3, <1>4 DEF Inv

-----------------------------------------------------------------------------
(* Requests *)

\* A request resolves to a configuration that was posted, or to the default.
LEMMA ResolveServed ==
  ASSUME RegistryOK(registry, traffic), NEW i \in Aliases \cup {None},
         NEW q \in Aliases \cup {None}
  PROVE  resolveRPRequest(i, q) \subseteq Served(traffic)
BY ExampleAssumption DEF RegistryOK, resolveRPRequest, Served

\* Every request a handler takes up keeps the invariant.
LEMMA RequestStep ==
  ASSUME Inv, NEW h \in Handlers, Request(h)
  PROVE  Inv'
<1>0. /\ traffic \in Traffic
      /\ traffic.runtimes \subseteq Served(traffic)
      /\ traffic.logins \subseteq (Aliases \cup {None}) \X (Modules \cup {None})
      /\ RegistryOK(registry, traffic)
  BY ExampleAssumption DEF Inv, RegistryOK, Served
<1>1. ASSUME NEW q \in traffic.runtimes, PostRuntime(h, q) PROVE Inv'
  <2> DEFINE new == IF q.action = None THEN Stored([cfg |-> q])
                    ELSE resolveRPRequestFromRuntimeConfig(q)
  <2>1. /\ handler' = [handler EXCEPT ![h] = new]
        /\ handler[h].pc = "idle"
        /\ UNCHANGED <<traffic, registry, dynamic, lock, issued, login, object, items>>
    BY <1>1 DEF PostRuntime
  <2>2. q \in Served(traffic)
    BY <1>0
  <2>3. /\ HandlerOK(Stored([cfg |-> q]), traffic, login, object)
        /\ Stored([cfg |-> q]).pc # "net"
    BY <1>0, StoredOK
  <2>4. /\ HandlerOK(resolveRPRequestFromRuntimeConfig(q), traffic, login, object)
        /\ resolveRPRequestFromRuntimeConfig(q).pc # "net"
    <3>1. Idle \in HandlerState(traffic)
      BY <1>0, IdleOK DEF HandlerOK
    <3>2. q.module \in Modules \cup {None} /\ q.client \in Clients
      BY <1>0, <2>2, ConfigFields
    <3>3. QED
      BY <1>0, <2>2, <3>1, <3>2, ResolvedOK DEF resolveRPRequestFromRuntimeConfig
  <2>5. HandlerOK(new, traffic, login, object) /\ new.pc # "net"
    BY <2>3, <2>4
  <2> HIDE DEF new
  <2>6. QED
    BY <2>1, <2>5, LocalStep
<1>2. ASSUME NEW r \in traffic.logins, Login(h, r[1], r[2]) PROVE Inv'
  <2>1. r[1] \in Aliases \cup {None} /\ r[2] \in Modules \cup {None}
    BY <1>0
  <2>2. PICK cfg \in resolveRPRequest(r[1], None) :
          handler' = [handler EXCEPT ![h] =
                        applyRuntimeConfig(Idle, cfg, r[2], "authorize")]
    BY <1>2 DEF Login
  <2>3. cfg \in Served(traffic)
    BY <1>0, <2>1, ResolveServed
  <2> DEFINE new == applyRuntimeConfig(Idle, cfg, r[2], "authorize")
  <2>4. HandlerOK(new, traffic, login, object) /\ new.pc # "net"
    <3> DEFINE c == IF shouldUseSecondClient(r[2]) THEN Static(2) ELSE cfg.client
    <3>1. Idle \in HandlerState(traffic)
      BY <1>0, IdleOK DEF HandlerOK
    <3>2. c \in Clients
      BY <1>0, <2>3, ConfigFields DEF Static, Clients
    <3>3. new = Resolved(Idle, cfg, r[2], c, "authorize")
      BY DEF applyRuntimeConfig
    <3> HIDE DEF c, new
    <3>4. QED
      BY <1>0, <2>1, <2>3, <3>1, <3>2, <3>3, ResolvedOK
  <2> HIDE DEF new
  <2>5. QED
    BY <1>2, <2>2, <2>4, LocalStep DEF Login, new
<1>3. ASSUME NEW l \in Logins, Callback(h, l) PROVE Inv'
  <2>1. login[l] # None /\ login[l] \in LoginState
    BY <1>3 DEF Callback, Inv, LoginsOK, LoginOK
  <2>2. callbackAliasFromPath(l) \in Aliases \cup {None}
    BY <2>1 DEF callbackAliasFromPath, LoginState
  <2>3. PICK cfg \in resolveRPRequest(None, callbackAliasFromPath(l)) :
          handler' = [handler EXCEPT ![h] =
                        applyRuntimeConfig([Idle EXCEPT !.login = l], cfg, None, "again")]
    BY <1>3 DEF Callback
  <2>4. cfg \in Served(traffic)
    BY <1>0, <2>2, ResolveServed
  <2> DEFINE new == applyRuntimeConfig([Idle EXCEPT !.login = l], cfg, None, "again")
  <2>5. HandlerOK(new, traffic, login, object) /\ new.pc # "net"
    <3> DEFINE c == IF shouldUseSecondClient(None) THEN Static(2) ELSE cfg.client
               start == [Idle EXCEPT !.login = l]
    <3>1. start \in HandlerState(traffic) /\ start.login = l
      <4>1. Idle \in HandlerState(traffic)
        BY <1>0, IdleOK DEF HandlerOK
      <4>2. l \in 0..MaxLogins
        BY ExampleAssumption DEF Logins
      <4>3. QED
        BY <4>1, <4>2 DEF HandlerState
    <3>2. c \in Clients
      BY <1>0, <2>4, ConfigFields DEF Static, Clients
    <3>3. new = Resolved(start, cfg, None, c, "again")
      BY DEF applyRuntimeConfig
    <3> HIDE DEF c, new, start
    <3>4. QED
      BY <1>0, <2>1, <2>4, <3>1, <3>2, <3>3, ResolvedOK
  <2> HIDE DEF new
  <2>6. QED
    BY <1>3, <2>3, <2>5, LocalStep DEF Callback, new
<1>4. ASSUME NEW l \in Logins, FetchObject(h, l) PROVE Inv'
  <2> DEFINE new == [Idle EXCEPT !.pc = "loaded", !.login = l]
  <2>1. new \in HandlerState(traffic) /\ new.pc = "loaded" /\ new.login = l
    <3>1. Idle \in HandlerState(traffic)
      BY <1>0, IdleOK DEF HandlerOK
    <3>2. l \in 0..MaxLogins
      BY ExampleAssumption DEF Logins
    <3>3. QED
      BY <3>1, <3>2 DEF HandlerState, PCs
  <2>2. handler' = [handler EXCEPT ![h] = new]
    BY <1>4 DEF FetchObject
  <2> HIDE DEF new
  <2>3. HandlerOK(new, traffic, login, object)
    BY <2>1 DEF HandlerOK, Posting, InCallback, Exchanging
  <2>4. QED
    BY <1>4, <2>1, <2>2, <2>3, LocalStep DEF FetchObject
<1>5. QED
  BY <1>1, <1>2, <1>3, <1>4 DEF Request

-----------------------------------------------------------------------------
(* Dynamic registration *)

\* Taking the mutex: the client of the cache is used, or the handler goes on to
\* register one.
LEMMA LockStep ==
  ASSUME Inv, NEW h \in Handlers, LockDynamic(h)
  PROVE  Inv'
<1> DEFINE hs == handler[h]
<1>0. /\ traffic \in Traffic
      /\ HandlerOK(hs, traffic, login, object)
      /\ hs \in HandlerState(traffic)
      /\ hs.pc = "lock" /\ lock = None
      /\ UNCHANGED <<traffic, registry, dynamic, issued, login, object, items>>
  BY DEF LockDynamic, Inv, RegistryOK, HandlersOK
<1>1. CASE Cached(hs)
  <2> DEFINE c == dynamic[hs.cfg.alias].client
             new == WithClient(hs, c)
  <2>1. c \in Clients
    <3>1. hs.cfg.alias \in Aliases
      BY <1>0, ConfigFields DEF HandlerState
    <3>2. QED
      BY <1>1, <3>1 DEF Inv, ClientsOK, CacheOK, Cached, DynamicClient
  <2> HIDE DEF c
  <2>2. handler' = [handler EXCEPT ![h] = new] /\ lock' = lock
    BY <1>0, <1>1 DEF LockDynamic, c
  <2>3. HandlerOK(new, traffic, login, object) /\ new.pc # "net"
    BY <1>0, <2>1, WithClientOK
  <2> HIDE DEF new
  <2>4. QED
    BY <1>0, <2>2, <2>3, LocalStep
<1>2. CASE ~Cached(hs)
  <2> DEFINE new == [hs EXCEPT !.pc = "net"]
  <2>1. handler' = [handler EXCEPT ![h] = new] /\ lock' = h
    BY <1>2 DEF LockDynamic
  <2>2. /\ new \in HandlerState(traffic)
        /\ new.pc = "net" /\ new.after = hs.after /\ new.login = hs.login
        /\ new.cfg = hs.cfg /\ new.name = hs.name
    BY <1>0 DEF HandlerState, PCs
  <2> HIDE DEF new
  <2>3. HandlerOK(new, traffic, login', object')
    BY <1>0, <2>2 DEF HandlerOK, Posting, InCallback, Exchanging
  <2>4. Grows(login, login') /\ StaysExpired(object, object')
    BY <1>0 DEF Grows, StaysExpired
  <2>5. HandlersOK(handler', traffic', login', object')
    BY <1>0, <2>1, <2>3, <2>4, HandlersKept
  <2>6. MutexesOK(handler', lock', dynamic')
    <3>1. Uncached(new, dynamic)
      BY <1>2, <2>2 DEF Cached, Uncached
    <3>2. \A g \in Handlers : handler'[g] = IF g = h THEN new ELSE handler[g]
      BY <2>1 DEF Inv, HandlersOK
    <3>3. \A g \in Handlers : handler[g].pc # "net"
      BY <1>0, ExampleAssumption DEF Inv, MutexesOK, MutexOK
    <3>4. QED
      BY <1>0, <2>1, <2>2, <3>1, <3>2, <3>3 DEF MutexesOK, MutexOK
  <2>7. ClientsOK'
    BY <1>0 DEF Inv, ClientsOK, OneClientPerModule
  <2>8. QED
    BY <1>0, <2>5, <2>6, <2>7 DEF Inv
<1>3. QED
  BY <1>1, <1>2

\* Appending to the registrations.
LEMMA Appended ==
  ASSUME NEW S, NEW is \in Seq(S), NEW x \in S
  PROVE  /\ Append(is, x) \in Seq(S)
         /\ Len(is) \in Nat
         /\ Len(Append(is, x)) = Len(is) + 1
         /\ \A k \in 1..Len(is) : Append(is, x)[k] = is[k]
         /\ Append(is, x)[Len(is) + 1] = x
OBVIOUS

\* The mutex is given back.
LEMMA MutexReleased ==
  ASSUME Inv, NEW h \in Handlers, NEW new,
         handler' = [handler EXCEPT ![h] = new],
         handler[h].pc = "net", new.pc # "net", lock' = None
  PROVE  MutexesOK(handler', lock', dynamic')
<1>1. \A g \in Handlers : handler'[g] = IF g = h THEN new ELSE handler[g]
  BY DEF Inv, HandlersOK
<1>2. \A g \in Handlers : g # h => handler[g].pc # "net"
  BY DEF Inv, MutexesOK, MutexOK
<1>3. QED
  BY <1>1, <1>2, ExampleAssumption DEF MutexesOK, MutexOK

\* A registration is the first of its alias, or for another module than the
\* last one.
LEMMA RegisterStep ==
  ASSUME Inv, NEW h \in Handlers, RegisterClient(h)
  PROVE  Inv'
<1> DEFINE hs == handler[h]
           a == hs.cfg.alias
           n == Len(issued)
           c == Dynamic(n + 1)
           x == <<a, hs.name>>
           new == WithClient(hs, c)
<1>0. /\ traffic \in Traffic
      /\ HandlerOK(hs, traffic, login, object)
      /\ hs \in HandlerState(traffic)
      /\ hs.pc = "net"
      /\ n < MaxClients
      /\ issued' = Append(issued, x)
      /\ dynamic' = [dynamic EXCEPT ![a] = [client |-> c, module |-> hs.name]]
      /\ lock' = None
      /\ handler' = [handler EXCEPT ![h] = new]
      /\ UNCHANGED <<traffic, registry, login, object, items>>
  BY DEF RegisterClient, Inv, RegistryOK, HandlersOK
<1>1. a \in Aliases /\ hs.name \in Modules \cup {None}
  BY <1>0, ConfigFields DEF HandlerState
<1>2. CacheOK(dynamic, issued) /\ Uncached(hs, dynamic)
  BY <1>0 DEF Inv, ClientsOK, MutexesOK, MutexOK
<1>3. /\ issued \in Seq(Aliases \X (Modules \cup {None}))
      /\ x \in Aliases \X (Modules \cup {None})
  BY <1>1, <1>2 DEF CacheOK
<1> HIDE DEF x
<1>4. /\ issued' \in Seq(Aliases \X (Modules \cup {None}))
      /\ n \in Nat
      /\ Len(issued') = n + 1
      /\ \A k \in 1..n : issued'[k] = issued[k]
      /\ issued'[n + 1] = x
  BY <1>0, <1>3, Appended
<1>5. c \in Clients /\ c \in {"dynamic"} \X (1..n + 1)
  BY <1>0, <1>4, ExampleAssumption DEF Dynamic, Clients
<1>6. HandlersOK(handler', traffic', login', object') /\ new.pc # "net"
  <2>1. HandlerOK(new, traffic, login', object') /\ new.pc # "net"
    BY <1>0, <1>5, WithClientOK
  <2>2. Grows(login, login') /\ StaysExpired(object, object')
    BY <1>0 DEF Grows, StaysExpired
  <2> HIDE DEF new
  <2>3. QED
    BY <1>0, <2>1, <2>2, HandlersKept
<1>7. MutexesOK(handler', lock', dynamic')
  <2> HIDE DEF new
  <2>1. QED
    BY <1>0, <1>6, MutexReleased
<1> DEFINE e == [client |-> c, module |-> hs.name]
<1>8. e \in DynamicClient /\ e # None /\ e.client = c /\ e.module = hs.name
  BY <1>1, <1>5, ExampleAssumption DEF DynamicClient
<1> HIDE DEF e, c
<1>9. /\ dynamic' \in [Aliases -> DynamicClient \cup {None}]
      /\ dynamic'[a] = e
      /\ \A b \in Aliases : b # a => dynamic'[b] = dynamic[b]
  BY <1>0, <1>1, <1>2, <1>8 DEF CacheOK, e
<1>10. CacheOK(dynamic', issued')
  <2> SUFFICES ASSUME NEW b \in Aliases
               PROVE  IF dynamic'[b] = None
                      THEN \A k \in 1..Len(issued') : issued'[k][1] # b
                      ELSE /\ dynamic'[b].client \in {"dynamic"} \X (1..Len(issued'))
                           /\ \E k \in 1..Len(issued') :
                                /\ issued'[k] = <<b, dynamic'[b].module>>
                                /\ \A j \in k + 1..Len(issued') : issued'[j][1] # b
    BY <1>4, <1>9 DEF CacheOK
  <2>1. CASE b = a
    <3>1. issued'[n + 1] = <<b, dynamic'[b].module>>
      BY <1>4, <1>8, <1>9, <2>1 DEF x
    <3>2. n + 1 \in 1..Len(issued') /\ \A j \in n + 1 + 1..Len(issued') : FALSE
      BY <1>4
    <3>3. QED
      BY <1>4, <1>5, <1>8, <1>9, <2>1, <3>1, <3>2
  <2>2. CASE b # a
    <3>1. dynamic'[b] = dynamic[b] /\ issued'[n + 1][1] # b
      BY <1>4, <1>9, <2>2 DEF x
    <3>2. CASE dynamic[b] = None
      <4>1. \A k \in 1..n : issued[k][1] # b
        BY <1>2, <3>2 DEF CacheOK
      <4>2. QED
        BY <1>4, <3>1, <3>2, <4>1
    <3>3. CASE dynamic[b] # None
      <4>1. /\ dynamic[b].client \in {"dynamic"} \X (1..n)
            /\ \E k \in 1..n :
                 /\ issued[k] = <<b, dynamic[b].module>>
                 /\ \A j \in k + 1..n : issued[j][1] # b
        BY <1>2, <3>3 DEF CacheOK
      <4>2. PICK k \in 1..n : /\ issued[k] = <<b, dynamic[b].module>>
                              /\ \A j \in k + 1..n : issued[j][1] # b
        BY <4>1
      <4>3. k \in 1..n + 1 /\ issued'[k] = <<b, dynamic'[b].module>>
        BY <1>4, <3>1, <4>2
      <4>4. \A j \in k + 1..n + 1 : issued'[j][1] # b
        BY <1>4, <3>1, <4>2
      <4>5. dynamic'[b].client \in {"dynamic"} \X (1..n + 1)
        BY <1>4, <3>1, <4>1
      <4>6. QED
        BY <1>4, <3>1, <3>3, <4>3, <4>4, <4>5
    <3>4. QED
      BY <3>2, <3>3
  <2>3. QED
    BY <2>1, <2>2
<1>11. OneClientPerModule'
  <2> SUFFICES ASSUME NEW i \in 1..n + 1, NEW j \in 1..n + 1,
                      i < j, issued'[i] = issued'[j]
               PROVE  \E k \in i + 1..j - 1 : issued'[k][1] = issued'[i][1]
    BY <1>4 DEF OneClientPerModule
  <2>1. i \in 1..n /\ issued'[i] = issued[i]
    BY <1>4
  <2>2. CASE j \in 1..n
    <3>1. PICK k \in i + 1..j - 1 : issued[k][1] = issued[i][1]
      BY <1>4, <2>1, <2>2 DEF Inv, ClientsOK, OneClientPerModule
    <3>2. k \in 1..n
      BY <1>4, <2>1, <2>2
    <3>3. QED
      BY <1>4, <2>1, <3>1, <3>2
  <2>3. CASE j = n + 1
    <3>1. issued[i] = <<a, hs.name>>
      BY <1>4, <2>1, <2>3 DEF x
    <3>2. dynamic[a] # None
      BY <1>1, <1>2, <2>1, <3>1 DEF CacheOK
    <3>3. hs.name # dynamic[a].module
      BY <1>2, <3>2 DEF Uncached
    <3>4. PICK k \in 1..n : /\ issued[k] = <<a, dynamic[a].module>>
                            /\ \A m \in k + 1..n : issued[m][1] # a
      BY <1>1, <1>2, <3>2 DEF CacheOK
    <3>5. k # i /\ ~ (i \in k + 1..n)
      BY <3>1, <3>3, <3>4
    <3>6. k \in i + 1..j - 1
      BY <1>4, <2>1, <2>3, <3>5
    <3>7. issued'[k][1] = a /\ issued'[i][1] = a
      BY <1>4, <2>1, <3>1, <3>4
    <3>8. QED
      BY <3>6, <3>7
  <2>4. QED
    BY <1>4, <2>2, <2>3
<1>12. Len(issued') <= MaxClients
  BY <1>0, <1>4, ExampleAssumption
<1>13. QED
  BY <1>0, <1>6, <1>7, <1>10, <1>11, <1>12 DEF Inv, ClientsOK

\* A registration that fails gives the mutex back.
LEMMA RegisterFailsStep ==
  ASSUME Inv, NEW h \in Handlers, RegisterClientFails(h)
  PROVE  Inv'
<1> DEFINE new == Failed(handler[h])
<1>0. /\ traffic \in Traffic
      /\ handler[h].pc = "net"
      /\ handler[h] \in HandlerState(traffic)
      /\ lock' = None
      /\ handler' = [handler EXCEPT ![h] = new]
      /\ UNCHANGED <<traffic, registry, dynamic, issued, login, object, items>>
  BY DEF RegisterClientFails, Inv, RegistryOK, HandlersOK
<1>1. HandlerOK(new, traffic, login', object') /\ new.pc # "net"
  BY <1>0, FailedOK DEF Inv, HandlersOK
<1>2. Grows(login, login') /\ StaysExpired(object, object')
  BY <1>0 DEF Grows, StaysExpired
<1> HIDE DEF new
<1>3. HandlersOK(handler', traffic', login', object')
  BY <1>0, <1>1, <1>2, HandlersKept
<1>4. MutexesOK(handler', lock', dynamic')
  BY <1>0, <1>1, MutexReleased
<1>5. ClientsOK'
  BY <1>0 DEF Inv, ClientsOK, OneClientPerModule
<1>6. QED
  BY <1>0, <1>3, <1>4, <1>5 DEF Inv

-----------------------------------------------------------------------------
(* AuthorizationURL *)

\* A login starts with the client of its RP and the store of its configuration.
LEMMA CorrelationOK ==
  ASSUME NEW tr \in Traffic, NEW cfg \in Served(tr), NEW c \in Clients,
         registry \in [Aliases -> tr.runtimes \cup {None}]
  PROVE  LoginOK(saveCorrelation(cfg, c), tr)
<1> DEFINE r == saveCorrelation(cfg, c)
<1>1. shorten(cfg) \in Issuers /\ shorten(cfg).of = cfg.alias
  BY ConfigFields DEF shorten, Issuers
<1>2. /\ r.store = stateStoreForRuntime(cfg)
      /\ r.openid = cfg.openid
      /\ r.alias = cfg.alias
      /\ r.client = (IF cfg.memory THEN c ELSE None) /\ r.by = c
      /\ r.issuer = shorten(cfg)
      /\ r.presented = None /\ r.result = None
  BY DEF saveCorrelation, toPayloadCorrelation, shouldUseMemoryStateStore
<1>3. r \in LoginState
  BY <1>1, ConfigFields DEF saveCorrelation, toPayloadCorrelation, LoginState
<1> HIDE DEF r
<1>4. StartedBy(r, cfg)
  BY <1>2 DEF StartedBy
<1>5. /\ r.client # None => r.client = r.by
      /\ r.store.base = "memory" => r.client # None
  <2>1. r.store.base = "memory" => cfg.memory
    BY <1>2 DEF stateStoreForRuntime, shouldUseMemoryStateStore
  <2>2. QED
    BY <1>2, <2>1, ExampleAssumption
<1>6. QED
  BY <1>1, <1>2, <1>3, <1>4, <1>5 DEF LoginOK, r

\* It uses random values no login has used before.
LEMMA AuthorizationStep ==
  ASSUME Inv, NEW h \in Handlers, NEW l \in NextLogin, NEW saves \in BOOLEAN,
         AuthorizationURL(h, l, saves)
  PROVE  /\ LoginsOK(login', traffic)
         /\ ObjectsOK(object', items')
         /\ Grows(login, login')
         /\ StaysExpired(object, object')
<1> DEFINE hs == handler[h]
           r == saveCorrelation(hs.cfg, hs.client)
<1>0. /\ l \in Logins /\ login[l] = None /\ object[l] = "none"
  <2>1. l \in Logins /\ \A k \in l..MaxLogins : login[k] = None /\ object[k] = "none"
    BY DEF NextLogin, FreshLogins
  <2>2. l \in l..MaxLogins
    BY <2>1, ExampleAssumption DEF Logins
  <2>3. QED
    BY <2>1, <2>2
<1>1. LoginOK(r, traffic)
  BY CorrelationOK DEF Inv, RegistryOK, HandlersOK, HandlerState
<1>2. login' = login \/ login' = [login EXCEPT ![l] = r]
  BY DEF AuthorizationURL
<1> HIDE DEF r
<1>3. /\ r # None /\ r \in LoginState
  BY <1>1, ExampleAssumption DEF LoginOK
<1>4. /\ login \in [Logins -> LoginState \cup {None}]
      /\ \A k \in Logins : login[k] # None => LoginOK(login[k], traffic)
  BY DEF Inv, LoginsOK
<1>5. LoginsOK(login', traffic) /\ Grows(login, login')
  BY <1>0, <1>1, <1>2, <1>3, <1>4 DEF LoginsOK, Grows
<1>6. \/ object' = object /\ items' = items
      \/ object' = [object EXCEPT ![l] = "live"] /\ items' = items \cup {l}
  BY DEF AuthorizationURL, StoreObject, objVars
<1>7. ObjectsOK(object, items)
  BY DEF Inv
<1>8. ObjectsOK(object', items') /\ StaysExpired(object, object')
  BY <1>0, <1>6, <1>7 DEF ObjectsOK, StaysExpired
<1>9. QED
  BY <1>5, <1>8

\* A handler that may have started a login goes to the state new.
LEMMA LoginStep ==
  ASSUME Inv, NEW h \in Handlers, NEW new,
         handler' = [handler EXCEPT ![h] = new],
         HandlerOK(new, traffic, login', object'),
         handler[h].pc # "net", new.pc # "net",
         UNCHANGED <<traffic, registry, dynamic, lock, issued>>,
         LoginsOK(login', traffic), ObjectsOK(object', items'),
         Grows(login, login'), StaysExpired(object, object')
  PROVE  Inv'
<1>1. HandlersOK(handler', traffic', login', object')
  BY HandlersKept
<1>2. MutexesOK(handler', lock', dynamic')
  BY MutexesKept
<1>3. ClientsOK'
  BY DEF Inv, ClientsOK, OneClientPerModule
<1>4. QED
  BY <1>1, <1>2, <1>3 DEF Inv

\* /login and the startup action.
LEMMA StartStep ==
  ASSUME Inv, NEW h \in Handlers, executeStartupAction(h) \/ handleLogin(h)
  PROVE  Inv'
<1> DEFINE hs == handler[h]
<1>0. /\ traffic \in Traffic
      /\ hs \in HandlerState(traffic)
      /\ hs.cfg \in Served(traffic)
      /\ LoginsOK(login, traffic) /\ ObjectsOK(object, items)
      /\ Grows(login, login) /\ StaysExpired(object, object)
  BY DEF Inv, RegistryOK, HandlersOK, HandlerState, Grows, StaysExpired
<1>1. /\ hs.pc \in {"startup", "authorize"}
      /\ UNCHANGED <<traffic, registry, dynamic, lock, issued>>
  BY DEF executeStartupAction, handleLogin
<1>2. \/ \E l \in NextLogin, ok \in BOOLEAN : AuthorizationURL(h, l, ok)
      \/ UNCHANGED <<login, object, items>>
  BY Zenon DEF executeStartupAction, handleLogin
<1>3. /\ LoginsOK(login', traffic) /\ ObjectsOK(object', items')
      /\ Grows(login, login') /\ StaysExpired(object, object')
  BY <1>0, <1>2, AuthorizationStep
<1>4. PICK new \in {Stored(hs), Failed(hs), Idle} :
        /\ handler' = [handler EXCEPT ![h] = new]
        /\ new # Idle => hs.pc = "startup"
  BY Zenon DEF executeStartupAction, handleLogin, StartupError
<1>5. HandlerOK(new, traffic, login', object') /\ new.pc # "net"
  <2>1. HandlerOK(hs, traffic, login', object')
    BY <1>3, HandlerUndisturbed DEF Inv, HandlersOK
  <2>2. hs.pc = "startup" => hs.cfg \in traffic.runtimes
    BY <2>1 DEF HandlerOK, Posting
  <2>3. QED
    BY <1>0, <1>4, <2>1, <2>2, StoredOK, FailedOK, IdleOK
<1>6. QED
  BY <1>1, <1>3, <1>4, <1>5, LoginStep

-----------------------------------------------------------------------------
(* The registry *)

\* Steps that change the registry only.
LEMMA RegistryStep ==
  ASSUME Inv,
         \/ \E h \in Handlers : Register(h)
         \/ \E a \in Aliases : DeleteRuntime(a)
  PROVE  Inv'
<1>1. ASSUME NEW h \in Handlers, Register(h) PROVE Inv'
  <2> DEFINE cfg == handler[h].cfg
  <2>1. traffic \in Traffic /\ cfg \in traffic.runtimes
    BY <1>1 DEF Register, Inv, RegistryOK, HandlersOK, HandlerOK, Posting
  <2>2. cfg.alias \in Aliases
    BY <2>1, ConfigFields DEF Served
  <2>3. /\ \/ registry' = registry
           \/ registry' = [registry EXCEPT ![cfg.alias] = cfg]
        /\ handler' = [handler EXCEPT ![h] = Idle]
        /\ handler[h].pc = "store"
        /\ UNCHANGED <<traffic, dynamic, lock, issued, login, object, items>>
    BY <1>1 DEF Register
  <2> HIDE DEF cfg
  <2>4. RegistryOK(registry', traffic')
    BY <2>1, <2>2, <2>3 DEF Inv, RegistryOK
  <2>5. HandlerOK(Idle, traffic, login', object') /\ Idle.pc # "net"
    BY <2>1, IdleOK
  <2>6. Grows(login, login') /\ StaysExpired(object, object')
    BY <2>3 DEF Grows, StaysExpired
  <2>7. HandlersOK(handler', traffic', login', object')
    BY <2>3, <2>5, <2>6, HandlersKept
  <2>8. MutexesOK(handler', lock', dynamic')
    BY <2>3, <2>5, MutexesKept
  <2>9. ClientsOK'
    BY <2>3 DEF Inv, ClientsOK, OneClientPerModule
  <2>10. QED
    BY <2>3, <2>4, <2>7, <2>8, <2>9 DEF Inv
<1>2. ASSUME NEW a \in Aliases, DeleteRuntime(a) PROVE Inv'
  <2>1. registry' \in [Aliases -> traffic.runtimes \cup {None}]
    BY <1>2 DEF DeleteRuntime, Inv, RegistryOK
  <2>2. ClientsOK'
    BY <1>2 DEF DeleteRuntime, Inv, ClientsOK, OneClientPerModule
  <2>3. QED
    BY <1>2, <2>1, <2>2 DEF DeleteRuntime, Inv, RegistryOK
<1>3. QED
  BY <1>1, <1>2

-----------------------------------------------------------------------------
(* Callbacks *)

\* The second resolution decides only how the callback goes on.
LEMMA ResolveAgainStep ==
  ASSUME Inv, NEW h \in Handlers, ResolveAgain(h)
  PROVE  Inv'
<1> DEFINE hs == handler[h]
           cfgs == resolveRPRequest(None, callbackAliasFromPath(hs.login))
<1>0. /\ traffic \in Traffic
      /\ hs \in HandlerState(traffic)
      /\ hs.login \in Logins /\ login[hs.login] # None
      /\ hs.pc = "again"
      /\ UNCHANGED <<traffic, registry, dynamic, lock, issued, login, object, items>>
  BY DEF ResolveAgain, Inv, RegistryOK, HandlersOK, HandlerOK, InCallback
<1>1. cfgs \subseteq Served(traffic)
  <2>1. login[hs.login] \in LoginState
    BY <1>0 DEF Inv, LoginsOK
  <2>2. callbackAliasFromPath(hs.login) \in Aliases \cup {None}
    BY <2>1 DEF callbackAliasFromPath, LoginState
  <2>3. QED
    BY <2>2, ResolveServed DEF Inv
<1>2. CASE cfgs = {}
  <2>1. handler' = [handler EXCEPT ![h] = Idle]
    BY <1>2 DEF ResolveAgain
  <2>2. QED
    BY <1>0, <2>1, IdleOK, LocalStep
<1>3. CASE cfgs # {}
  <2>1. PICK cfg \in cfgs :
          handler' = [handler EXCEPT ![h] =
            [@ EXCEPT !.fapi = cfg.fapi, !.after = "consume",
                      !.pc = IF shouldRegisterDynamically(cfg) THEN "lock"
                             ELSE "consume"]]
    BY <1>3 DEF ResolveAgain
  <2> DEFINE pc == IF shouldRegisterDynamically(cfg) THEN "lock" ELSE "consume"
             new == [hs EXCEPT !.fapi = cfg.fapi, !.after = "consume", !.pc = pc]
  <2>2. handler' = [handler EXCEPT ![h] = new]
    BY <2>1 DEF Inv, HandlersOK
  <2>3. cfg.fapi \in BOOLEAN
    BY <1>0, <1>1, ConfigFields
  <2>4. pc \in {"lock", "consume"}
    OBVIOUS
  <2> HIDE DEF pc
  <2>5. /\ new \in HandlerState(traffic) /\ new.pc \in {"lock", "consume"}
        /\ new.after = "consume" /\ new.login = hs.login
    BY <1>0, <2>3, <2>4 DEF HandlerState, PCs
  <2> HIDE DEF new
  <2>6. HandlerOK(new, traffic, login, object)
    BY <1>0, <2>5 DEF HandlerOK, Posting, InCallback, Exchanging
  <2>7. QED
    BY <1>0, <2>2, <2>5, <2>6, LocalStep
<1>4. QED
  BY <1>2, <1>3

\* The record of login l becomes r: what the login was started with stays.
LEMMA LoginUpdated ==
  ASSUME Inv, NEW l \in Logins, login[l] # None, NEW r,
         login' = [login EXCEPT ![l] = r],
         LoginOK(r, traffic), r.by = login[l].by, r.store = login[l].store,
         r.alias = login[l].alias
  PROVE  LoginsOK(login', traffic) /\ Grows(login, login')
<1>1. login \in [Logins -> LoginState \cup {None}] /\ r \in LoginState /\ r # None
  BY ExampleAssumption DEF Inv, LoginsOK, LoginOK
<1>2. \A k \in Logins : login'[k] = IF k = l THEN r ELSE login[k]
  BY <1>1
<1>3. QED
  BY <1>1, <1>2 DEF Inv, LoginsOK, Grows

\* A callback that finds the correlation under its own key takes over the
\* client and the issuer that are stored there.
LEMMA ConsumeStep ==
  ASSUME Inv, NEW h \in Handlers, ConsumeCorrelation(h)
  PROVE  Inv'
<1> DEFINE hs == handler[h]
           l == hs.login
           saved == login[l]
           found == /\ saved # None
                    /\ saved.state = "saved"
                    /\ SameKey(saved.store, stateStoreForRuntime(hs.cfg))
<1>0. /\ traffic \in Traffic
      /\ hs \in HandlerState(traffic)
      /\ l \in Logins /\ saved # None
      /\ LoginOK(saved, traffic)
      /\ hs.pc = "consume"
      /\ UNCHANGED <<traffic, registry, dynamic, lock, issued, object, items>>
      /\ ObjectsOK(object, items)
      /\ login \in [Logins -> LoginState \cup {None}]
  BY DEF ConsumeCorrelation, Inv, RegistryOK, HandlersOK, HandlerOK, InCallback, LoginsOK
<1>1. CASE found
  <2> DEFINE client == clientCredentials(hs, saved)
             issuer == expand(hs.cfg, saved.issuer)
             new == [hs EXCEPT !.pc = "exchange", !.client = client, !.issuer = issuer]
             r == [saved EXCEPT !.state = "taken"]
  <2>1. login' = [login EXCEPT ![l] = r] /\ handler' = [handler EXCEPT ![h] = new]
    BY <1>0, <1>1 DEF ConsumeCorrelation, HandlerState
  <2>2. /\ saved \in LoginState /\ saved.by \in Clients
        /\ saved.client # None => saved.client = saved.by
        /\ saved.store.base = "memory" => saved.client # None
    BY <1>0 DEF LoginOK, LoginState
  <2>3. client \in Clients /\ (saved.store.base = "memory" => client = saved.by)
    BY <1>0, <2>2 DEF clientCredentials, HandlerState
  <2>4. issuer \in Issuers /\ issuer.of = saved.alias
    <3>1. saved.issuer \in Issuers /\ saved.issuer.of = saved.alias
      BY <1>0, <2>2 DEF LoginOK, LoginState
    <3>2. QED
      BY <3>1 DEF expand, Issuers
  <2> HIDE DEF client, issuer
  <2>5. /\ new \in HandlerState(traffic) /\ new.pc = "exchange"
        /\ new.client = client /\ new.issuer = issuer /\ new.cfg = hs.cfg
        /\ new.login = l
    BY <1>0, <2>2, <2>3, <2>4 DEF HandlerState, PCs
  <2>6. /\ r.by = saved.by /\ r.store = saved.store /\ r.alias = saved.alias
        /\ LoginOK(r, traffic)
    <3>1. /\ r \in LoginState /\ r.by = saved.by /\ r.store = saved.store
          /\ r.alias = saved.alias /\ r.client = saved.client
          /\ r.issuer = saved.issuer /\ r.presented = saved.presented
          /\ r.result = saved.result /\ r.openid = saved.openid
      BY <2>2 DEF LoginState
    <3> HIDE DEF r
    <3>2. QED
      BY <1>0, <3>1 DEF LoginOK, StartedBy
  <2> HIDE DEF new, r
  <2>7. LoginsOK(login', traffic) /\ Grows(login, login')
    BY <1>0, <2>1, <2>6, LoginUpdated
  <2>8. login'[l] = r /\ r # None
    BY <1>0, <2>1, <2>6, ExampleAssumption DEF LoginOK
  <2>9. HandlerOK(new, traffic, login', object')
    <3>1. TakenOver(new, r)
      BY <1>1, <2>3, <2>4, <2>5, <2>6 DEF TakenOver, SameKey
    <3>2. QED
      BY <1>0, <2>5, <2>8, <3>1 DEF HandlerOK, Posting, InCallback, Exchanging
  <2>10. StaysExpired(object, object')
    BY <1>0 DEF StaysExpired
  <2>11. QED
    BY <1>0, <2>1, <2>5, <2>7, <2>9, <2>10, LoginStep
<1>2. CASE ~found
  <2>1. login' = login /\ handler' = [handler EXCEPT ![h] = Idle]
    BY <1>2 DEF ConsumeCorrelation
  <2>2. QED
    BY <1>0, <2>1, IdleOK, LocalStep
<1>3. QED
  BY <1>1, <1>2

\* A handler past ConsumeCorrelation and the login it has taken.
LEMMA ExchangingFacts ==
  ASSUME Inv, NEW h \in Handlers, Exchanging(handler[h])
  PROVE  /\ traffic \in Traffic
         /\ handler[h] \in HandlerState(traffic)
         /\ handler[h].login \in Logins
         /\ login[handler[h].login] # None
         /\ LoginOK(login[handler[h].login], traffic)
         /\ TakenOver(handler[h], login[handler[h].login])
         /\ login \in [Logins -> LoginState \cup {None}]
         /\ ObjectsOK(object, items)
BY DEF Inv, RegistryOK, HandlersOK, HandlerOK, LoginsOK

\* The client of the token request is recorded with the login ..
LEMMA PresentedOK ==
  ASSUME Inv, NEW h \in Handlers, Exchanging(handler[h]),
         login' = [login EXCEPT ![handler[h].login].presented = handler[h].client]
  PROVE  LoginsOK(login', traffic) /\ Grows(login, login')
<1> DEFINE hs == handler[h]
           saved == login[hs.login]
           r == [saved EXCEPT !.presented = hs.client]
<1>1. /\ hs.login \in Logins /\ saved # None /\ LoginOK(saved, traffic)
      /\ hs.client \in Clients
      /\ saved.store.base = "memory" => hs.client = saved.by
      /\ login \in [Logins -> LoginState \cup {None}]
  BY ExchangingFacts DEF TakenOver, HandlerState
<1>2. /\ r \in LoginState /\ r.by = saved.by /\ r.store = saved.store
      /\ r.alias = saved.alias /\ r.client = saved.client
      /\ r.issuer = saved.issuer /\ r.presented = hs.client
      /\ r.result = saved.result /\ r.openid = saved.openid
  BY <1>1 DEF LoginOK, LoginState
<1>3. login' = [login EXCEPT ![hs.login] = r]
  BY <1>1
<1> HIDE DEF r
<1>4. LoginOK(r, traffic)
  BY <1>1, <1>2 DEF LoginOK, StartedBy
<1>5. QED
  BY <1>1, <1>2, <1>3, <1>4, LoginUpdated

\* .. and, once it is complete, the store and the issuer.
LEMMA CompleteOK ==
  ASSUME Inv, NEW h \in Handlers, Exchanging(handler[h]),
         login' = Complete(handler[h])
  PROVE  LoginsOK(login', traffic) /\ Grows(login, login')
<1> DEFINE hs == handler[h]
           saved == login[hs.login]
           res == [store |-> stateStoreForRuntime(hs.cfg), issuer |-> hs.issuer]
           r == [saved EXCEPT !.state = "done", !.presented = hs.client, !.result = res]
<1>1. /\ traffic \in Traffic /\ hs \in HandlerState(traffic)
      /\ hs.login \in Logins /\ saved # None /\ LoginOK(saved, traffic)
      /\ TakenOver(hs, saved)
      /\ login \in [Logins -> LoginState \cup {None}]
  BY ExchangingFacts
<1>2. /\ res \in LoginResult /\ res.store = saved.store /\ res.issuer = hs.issuer
      /\ hs.issuer.of = saved.alias
      /\ hs.client \in Clients
      /\ saved.store.base = "memory" => hs.client = saved.by
  BY <1>1 DEF LoginResult, TakenOver, LoginOK, LoginState, HandlerState
<1>3. login' = [login EXCEPT ![hs.login] = r]
  BY <1>1 DEF Complete
<1> HIDE DEF res
<1>4. /\ r \in LoginState /\ r.by = saved.by /\ r.store = saved.store
      /\ r.alias = saved.alias /\ r.client = saved.client
      /\ r.issuer = saved.issuer /\ r.presented = hs.client
      /\ r.result = res /\ r.openid = saved.openid
  BY <1>1, <1>2 DEF LoginOK, LoginState
<1> HIDE DEF r
<1>5. LoginOK(r, traffic)
  BY <1>1, <1>2, <1>4 DEF LoginOK, StartedBy
<1>6. QED
  BY <1>1, <1>3, <1>4, <1>5, LoginUpdated

\* The exchange and the resource request keep what was taken over.
LEMMA ExchangeStep ==
  ASSUME Inv, NEW h \in Handlers, ExchangeToken(h) \/ FetchResource(h)
  PROVE  Inv'
<1> DEFINE hs == handler[h]
<1>1. /\ Exchanging(hs)
      /\ UNCHANGED <<traffic, registry, dynamic, lock, issued, object, items>>
  BY DEF ExchangeToken, FetchResource, Exchanging
<1>2. \/ login' = login
      \/ login' = Complete(hs)
      \/ login' = [login EXCEPT ![hs.login].presented = hs.client]
  BY DEF ExchangeToken, FetchResource
<1>3. LoginsOK(login', traffic) /\ Grows(login, login')
  <2>1. LoginsOK(login, traffic) /\ Grows(login, login)
    BY DEF Inv, Grows
  <2>2. QED
    BY <1>1, <1>2, <2>1, PresentedOK, CompleteOK
<1>4. /\ traffic \in Traffic /\ hs \in HandlerState(traffic)
      /\ hs.login \in Logins
      /\ TakenOver(hs, login[hs.login])
      /\ ObjectsOK(object', items') /\ StaysExpired(object, object')
  BY <1>1, ExchangingFacts DEF StaysExpired
<1>5. CASE handler' = [handler EXCEPT ![h] = Idle]
  BY <1>1, <1>3, <1>4, <1>5, IdleOK, LoginStep DEF Exchanging
<1>6. ASSUME NEW pc \in {"resource", "retry"},
             handler' = [handler EXCEPT ![h].pc = pc], IssuerValid(hs)
      PROVE  Inv'
  <2> DEFINE new == [hs EXCEPT !.pc = pc]
  <2>1. handler' = [handler EXCEPT ![h] = new]
    BY <1>6 DEF Inv, HandlersOK
  <2>2. /\ new \in HandlerState(traffic) /\ new.pc = pc
        /\ new.cfg = hs.cfg /\ new.issuer = hs.issuer /\ new.client = hs.client
        /\ new.login = hs.login
    BY <1>4, <1>6 DEF HandlerState, PCs
  <2> HIDE DEF new
  <2>3. HandlerOK(new, traffic, login', object')
    <3>1. TakenOver(new, login'[hs.login]) /\ login'[hs.login] # None
      BY <1>1, <1>3, <1>4, <1>6, <2>2, ExchangingFacts DEF TakenOver, IssuerValid, Grows
    <3>2. QED
      BY <1>4, <1>6, <2>2, <3>1 DEF HandlerOK, Posting, InCallback, Exchanging
  <2>4. QED
    BY <1>1, <1>3, <1>4, <1>6, <2>1, <2>2, <2>3, LoginStep DEF Exchanging
<1>7. \/ handler' = [handler EXCEPT ![h] = Idle]
      \/ handler' = [handler EXCEPT ![h].pc = "resource"] /\ IssuerValid(hs)
      \/ handler' = [handler EXCEPT ![h].pc = "retry"] /\ IssuerValid(hs)
  <2>1. hs.pc # "exchange" => IssuerValid(hs)
    BY <1>4 DEF TakenOver
  <2>2. QED
    BY <2>1 DEF ExchangeToken, FetchResource
<1>8. QED
  BY <1>5, <1>6, <1>7

-----------------------------------------------------------------------------
(* Request objects *)

\* Load evicts only what has expired, and so does the cleanup.
LEMMA ObjectStep ==
  ASSUME Inv,
         \/ \E h \in Handlers : CheckObject(h) \/ EvictObject(h)
         \/ \E l \in Logins : ExpireObject(l)
         \/ Cleanup
  PROVE  Inv'
<1>0. ObjectsOK(object, items) /\ traffic \in Traffic
  BY DEF Inv, RegistryOK
<1>1. ASSUME NEW h \in Handlers, CheckObject(h) PROVE Inv'
  <2> DEFINE hs == handler[h]
             old == [hs EXCEPT !.pc = "evict"]
  <2>1. /\ hs \in HandlerState(traffic) /\ hs.pc = "loaded" /\ hs.login \in Logins
        /\ UNCHANGED <<traffic, registry, dynamic, lock, issued, login, object, items>>
    BY <1>1 DEF CheckObject, Inv, HandlersOK, HandlerOK
  <2>2. CASE object[hs.login] = "expired"
    <3>1. handler' = [handler EXCEPT ![h] = old]
      BY <1>1, <2>2 DEF CheckObject
    <3>2. old \in HandlerState(traffic) /\ old.pc = "evict" /\ old.login = hs.login
      BY <2>1 DEF HandlerState, PCs
    <3> HIDE DEF old
    <3>3. HandlerOK(old, traffic, login, object)
      BY <2>1, <2>2, <3>2 DEF HandlerOK, Posting, InCallback, Exchanging
    <3>4. QED
      BY <2>1, <3>1, <3>2, <3>3, LocalStep
  <2>3. CASE object[hs.login] # "expired"
    <3>1. handler' = [handler EXCEPT ![h] = Idle]
      BY <1>1, <2>3 DEF CheckObject
    <3>2. QED
      BY <1>0, <2>1, <3>1, IdleOK, LocalStep
  <2>4. QED
    BY <2>2, <2>3
<1>2. ASSUME NEW h \in Handlers, EvictObject(h) PROVE Inv'
  <2>1. /\ handler[h].pc = "evict" /\ object[handler[h].login] = "expired"
        /\ items' = items \ {handler[h].login}
        /\ handler' = [handler EXCEPT ![h] = Idle]
        /\ UNCHANGED <<traffic, registry, dynamic, lock, issued, login, object>>
    BY <1>2 DEF EvictObject, Inv, HandlersOK, HandlerOK
  <2>2. ObjectsOK(object', items')
    BY <1>0, <2>1 DEF ObjectsOK
  <2>3. /\ LoginsOK(login', traffic)
        /\ Grows(login, login') /\ StaysExpired(object, object')
    BY <2>1 DEF Inv, Grows, StaysExpired
  <2>4. QED
    BY <1>0, <2>1, <2>2, <2>3, IdleOK, LoginStep
<1>3. ASSUME NEW l \in Logins, ExpireObject(l) PROVE Inv'
  <2>1. /\ object' = [object EXCEPT ![l] = "expired"]
        /\ UNCHANGED <<traffic, registry, dynamic, lock, issued, login, items, handler>>
    BY <1>3 DEF ExpireObject
  <2>2. ObjectsOK(object', items') /\ StaysExpired(object, object')
    BY <1>0, <2>1 DEF ObjectsOK, StaysExpired
  <2>3. HandlersOK(handler', traffic', login', object')
    <3>1. Grows(login, login)
      BY DEF Grows
    <3>2. QED
      BY <2>1, <2>2, <3>1, HandlerUndisturbed DEF Inv, HandlersOK
  <2>4. ClientsOK'
    BY <2>1 DEF Inv, ClientsOK, OneClientPerModule
  <2>5. QED
    BY <2>1, <2>2, <2>3, <2>4 DEF Inv
<1>4. CASE Cleanup
  <2>1. /\ items' = {l \in items : object[l] # "expired"}
        /\ UNCHANGED <<traffic, registry, dynamic, lock, issued, login, object, handler>>
    BY <1>4 DEF Cleanup
  <2>2. ObjectsOK(object', items')
    BY <1>0, <2>1 DEF ObjectsOK
  <2>3. ClientsOK'
    BY <2>1 DEF Inv, ClientsOK, OneClientPerModule
  <2>4. QED
    BY <2>1, <2>2, <2>3 DEF Inv
<1>5. QED
  BY <1>1, <1>2, <1>3, <1>4

-----------------------------------------------------------------------------
(* The invariant *)

\* The invariant holds when the server starts ..
LEMMA InitInv == Init => Inv
<1> SUFFICES ASSUME Init PROVE Inv
  OBVIOUS
<1>1. RegistryOK(registry, traffic) /\ LoginsOK(login, traffic)
  BY DEF Init, RegistryOK, LoginsOK
<1>2. ObjectsOK(object, items)
  BY DEF Init, ObjectsOK
<1>3. ClientsOK
  <2>1. issued = <<>> /\ Len(issued) = 0
    BY DEF Init
  <2>2. CacheOK(dynamic, issued)
    BY <2>1 DEF Init, CacheOK
  <2>3. OneClientPerModule
    BY <2>1 DEF OneClientPerModule
  <2>4. QED
    BY <2>1, <2>2, <2>3, ExampleAssumption DEF ClientsOK
<1>4. HandlersOK(handler, traffic, login, object)
  <2>1. HandlerOK(Idle, traffic, login, object) /\ Idle \in HandlerState(traffic)
    BY IdleOK DEF Init, HandlerOK
  <2>2. QED
    BY <2>1 DEF Init, HandlersOK
<1>5. MutexesOK(handler, lock, dynamic)
  <2>1. Idle.pc = "idle"
    BY DEF Idle
  <2>2. QED
    BY <2>1, ExampleAssumption DEF Init, MutexesOK, MutexOK
<1>6. QED
  BY <1>1, <1>2, <1>3, <1>4, <1>5 DEF Inv

\* .. and every step keeps it.
LEMMA StepInv == Inv /\ [Next]_vars => Inv'
<1> SUFFICES ASSUME Inv, [Next]_vars PROVE Inv'
  OBVIOUS
<1>1. CASE UNCHANGED vars
  BY <1>1 DEF vars, Inv, ClientsOK, OneClientPerModule
<1>2. ASSUME NEW h \in Handlers, Request(h) \/ LockDynamic(h) PROVE Inv'
  BY <1>2, RequestStep, LockStep
<1>3. ASSUME NEW h \in Handlers, HandlerStep(h) PROVE Inv'
  BY <1>3, RegisterStep, RegisterFailsStep, StartStep, RegistryStep,
     ResolveAgainStep, ConsumeStep, ExchangeStep, ObjectStep DEF HandlerStep
<1>4. QED
  BY <1>1, <1>2, <1>3, RegistryStep, ObjectStep DEF Next

\* The invariant holds in every reachable state.
LEMMA Invariant == Spec => []Inv
BY InitInv, StepInv, PTL DEF Spec

-----------------------------------------------------------------------------
(* Clients *)

\* c is a client of the registration cfg, given the registrations is.
OwnClient(c, cfg, is) ==
  \/ c = cfg.client
  \/ c \in {"dynamic"} \X (1..Len(is)) /\ is[c[2]][1] = cfg.alias

\* A callback whose RP has been built and that has not consumed its login.
Chosen(hs) ==
  \/ hs.pc \in {"again", "consume"}
  \/ hs.pc \in {"lock", "net"} /\ hs.after = "consume"

\* With Inv the inductive strengthening of ClientKept: the cache has a client
\* of its alias, a callback one of its registration or that of its login.
HandlerOwn(hs, lg, is) ==
  /\ Chosen(hs) => OwnClient(hs.client, hs.cfg, is)
  /\ Exchanging(hs) => \/ hs.client = lg[hs.login].by
                       \/ OwnClient(hs.client, hs.cfg, is)
LoginOwn(r, tr, is) ==
  r.presented # None =>
    \/ r.presented = r.by
    \/ \E cfg \in Served(tr) :
         stateStoreForRuntime(cfg) = r.store /\ OwnClient(r.presented, cfg, is)
CacheOwn(dy, is) ==
  \A a \in Aliases : dy[a] # None => is[dy[a].client[2]][1] = a
HandlersOwn(hd, lg, is) == \A h \in Handlers : HandlerOwn(hd[h], lg, is)
LoginsOwn(lg, tr, is) == \A l \in Logins : lg[l] # None => LoginOwn(lg[l], tr, is)
OwnInv ==
  /\ CacheOwn(dynamic, issued)
  /\ HandlersOwn(handler, login, issued)
  /\ LoginsOwn(login, traffic, issued)

\* Registrations are only added.
IssuedGrows(is, is2) ==
  \A k \in 1..Len(is) : k \in 1..Len(is2) /\ is2[k] = is[k]

\* A client of a registration stays one when more are added.
LEMMA OwnGrows ==
  ASSUME NEW c, NEW cfg, NEW is, NEW is2, IssuedGrows(is, is2), OwnClient(c, cfg, is)
  PROVE  OwnClient(c, cfg, is2)
BY DEF OwnClient, IssuedGrows

\* The last registration, and what the cache has for its alias then.
LEMMA IssuedStep ==
  ASSUME Inv, OwnInv, [Next]_vars
  PROVE  IssuedGrows(issued, issued') /\ CacheOwn(dynamic', issued')
<1>0. /\ issued \in Seq(Aliases \X (Modules \cup {None}))
      /\ dynamic \in [Aliases -> DynamicClient \cup {None}]
      /\ \A a \in Aliases : dynamic[a] # None =>
           dynamic[a].client \in {"dynamic"} \X (1..Len(issued))
  BY DEF Inv, ClientsOK, CacheOK
<1>1. ASSUME NEW h \in Handlers, RegisterClient(h)
      PROVE  IssuedGrows(issued, issued') /\ CacheOwn(dynamic', issued')
  <2> DEFINE hs == handler[h]
             a == hs.cfg.alias
             n == Len(issued)
             x == <<a, hs.name>>
             e == [client |-> Dynamic(n + 1), module |-> hs.name]
  <2>1. /\ issued' = Append(issued, x)
        /\ dynamic' = [dynamic EXCEPT ![a] = e]
    BY <1>1 DEF RegisterClient
  <2>2. a \in Aliases /\ x \in Aliases \X (Modules \cup {None})
    BY ConfigFields DEF Inv, RegistryOK, HandlersOK, HandlerState
  <2>3. /\ n \in Nat /\ Len(issued') = n + 1
        /\ \A k \in 1..n : issued'[k] = issued[k]
        /\ issued'[n + 1] = x
    BY <1>0, <2>1, <2>2, Appended
  <2>4. e.client[2] = n + 1 /\ x[1] = a
    BY DEF Dynamic
  <2> HIDE DEF e, x, n, a
  <2>5. \A b \in Aliases : dynamic'[b] = IF b = a THEN e ELSE dynamic[b]
    BY <1>0, <2>1
  <2>6. IssuedGrows(issued, issued')
    BY <2>3 DEF IssuedGrows, n
  <2>7. ASSUME NEW b \in Aliases, dynamic'[b] # None
        PROVE  issued'[dynamic'[b].client[2]][1] = b
    <3>1. CASE b = a
      BY <2>3, <2>4, <2>5, <3>1
    <3>2. CASE b # a
      <4>1. dynamic'[b] = dynamic[b] /\ issued[dynamic[b].client[2]][1] = b
        BY <2>5, <2>7, <3>2 DEF OwnInv, CacheOwn
      <4>2. dynamic[b].client[2] \in 1..n
        BY <1>0, <2>7, <4>1 DEF n
      <4>3. QED
        BY <2>3, <4>1, <4>2
    <3>3. QED
      BY <3>1, <3>2
  <2>8. QED
    BY <2>6, <2>7 DEF CacheOwn
<1>2. CASE UNCHANGED <<dynamic, issued>>
  BY <1>2 DEF IssuedGrows, OwnInv
<1>3. ASSUME NEW h \in Handlers, HandlerStep(h)
      PROVE  RegisterClient(h) \/ UNCHANGED <<dynamic, issued>>
  BY <1>3 DEF HandlerStep, RegisterClientFails, executeStartupAction, Register,
              handleLogin, ResolveAgain, ConsumeCorrelation, ExchangeToken,
              FetchResource, CheckObject, EvictObject
<1>4. ASSUME NEW h \in Handlers, Request(h) \/ LockDynamic(h)
      PROVE  UNCHANGED <<dynamic, issued>>
  BY <1>4 DEF Request, LockDynamic, PostRuntime, Login, Callback, FetchObject
<1>5. CASE \/ \E a \in Aliases : DeleteRuntime(a)
           \/ \E l \in Logins : ExpireObject(l)
           \/ Cleanup
           \/ UNCHANGED vars
  BY <1>2, <1>5 DEF DeleteRuntime, ExpireObject, Cleanup, vars
<1>6. QED
  BY <1>1, <1>2, <1>3, <1>4, <1>5 DEF Next

\* What a step does to the logins.
LoginChange ==
  \/ login' = login
  \/ \E h \in Handlers, l \in NextLogin, ok \in BOOLEAN : AuthorizationURL(h, l, ok)
  \/ \E h \in Handlers :
       /\ handler[h].login \in Logins /\ login[handler[h].login] # None
       /\ login' = [login EXCEPT ![handler[h].login].state = "taken"]
  \/ \E h \in Handlers :
       /\ Exchanging(handler[h])
       /\ \/ login' = Complete(handler[h]) /\ IssuerValid(handler[h])
          \/ login' = [login EXCEPT ![handler[h].login].presented = handler[h].client]

\* Every step is one of these.
LEMMA LoginChanges ==
  ASSUME Inv, [Next]_vars
  PROVE  LoginChange
<1>5. ASSUME NEW h \in Handlers, HandlerStep(h)
      PROVE  LoginChange
  <2>1. CASE executeStartupAction(h) \/ handleLogin(h)
    <3>1. \/ \E l \in NextLogin, ok \in BOOLEAN : AuthorizationURL(h, l, ok)
          \/ login' = login
      BY <2>1, Zenon DEF executeStartupAction, handleLogin
    <3>2. QED
      BY <3>1, Zenon DEF LoginChange
  <2>2. CASE ConsumeCorrelation(h)
    <3>1. handler[h].login \in Logins /\ login[handler[h].login] # None
      BY <2>2 DEF ConsumeCorrelation, Inv, HandlersOK, HandlerOK, InCallback
    <3>2. login' = login \/ login' = [login EXCEPT ![handler[h].login].state = "taken"]
      BY <2>2 DEF ConsumeCorrelation
    <3>3. QED
      BY <3>1, <3>2 DEF LoginChange
  <2>3. CASE ExchangeToken(h) \/ FetchResource(h)
    <3>1. Exchanging(handler[h])
      BY <2>3 DEF ExchangeToken, FetchResource, Exchanging
    <3>2. handler[h].pc # "exchange" => IssuerValid(handler[h])
      BY <3>1, ExchangingFacts DEF TakenOver
    <3>3. \/ login' = login
          \/ login' = Complete(handler[h]) /\ IssuerValid(handler[h])
          \/ login' = [login EXCEPT ![handler[h].login].presented = handler[h].client]
      BY <2>3, <3>2 DEF ExchangeToken, FetchResource
    <3>4. QED
      BY <3>1, <3>3 DEF LoginChange
  <2>4. CASE \/ RegisterClient(h) \/ RegisterClientFails(h) \/ Register(h)
             \/ ResolveAgain(h) \/ CheckObject(h) \/ EvictObject(h)
    BY <2>4 DEF RegisterClient, RegisterClientFails, Register, ResolveAgain,
                CheckObject, EvictObject, LoginChange
  <2>5. QED
    BY <1>5, <2>1, <2>2, <2>3, <2>4 DEF HandlerStep
<1>6. ASSUME NEW h \in Handlers, Request(h) \/ LockDynamic(h)
      PROVE  LoginChange
  BY <1>6 DEF Request, LockDynamic, PostRuntime, Login, Callback, FetchObject,
              LoginChange
<1>7. CASE \/ \E a \in Aliases : DeleteRuntime(a)
           \/ \E l \in Logins : ExpireObject(l)
           \/ Cleanup
           \/ UNCHANGED vars
  BY <1>7 DEF DeleteRuntime, ExpireObject, Cleanup, vars, LoginChange
<1>8. QED
  BY <1>5, <1>6, <1>7 DEF Next

\* A login that was started stays, and presents a client of its own.
LEMMA LoginsOwnStep ==
  ASSUME Inv, OwnInv, LoginChange, IssuedGrows(issued, issued'), traffic' = traffic
  PROVE  LoginsOwn(login', traffic', issued') /\ Grows(login, login')
<1>0. login \in [Logins -> LoginState \cup {None}]
  BY DEF Inv, LoginsOK
<1>1. ASSUME NEW r, NEW l \in Logins, login[l] # None, LoginOwn(login[l], traffic, issued),
             r.presented = login[l].presented, r.by = login[l].by, r.store = login[l].store
      PROVE  LoginOwn(r, traffic', issued')
  BY <1>1, OwnGrows DEF LoginOwn
<1>2. \A l \in Logins : login[l] # None => LoginOwn(login[l], traffic', issued')
  BY <1>1 DEF OwnInv, LoginsOwn
<1>3. CASE login' = login
  BY <1>2, <1>3 DEF LoginsOwn, Grows
<1>4. ASSUME NEW h \in Handlers, NEW l \in NextLogin, NEW ok \in BOOLEAN,
             AuthorizationURL(h, l, ok)
      PROVE  LoginsOwn(login', traffic', issued') /\ Grows(login, login')
  <2> DEFINE r == saveCorrelation(handler[h].cfg, handler[h].client)
  <2>1. login' = login \/ login' = [login EXCEPT ![l] = r]
    BY <1>4 DEF AuthorizationURL
  <2>2. r.presented = None
    BY DEF saveCorrelation, toPayloadCorrelation
  <2>3. Grows(login, login')
    BY <1>4, AuthorizationStep
  <2> HIDE DEF r
  <2>4. \A k \in Logins : login'[k] = login[k] \/ login'[k] = r
    BY <1>0, <2>1
  <2>5. LoginOwn(r, traffic', issued')
    BY <2>2 DEF LoginOwn
  <2>6. QED
    BY <1>2, <2>3, <2>4, <2>5 DEF LoginsOwn
<1>5. ASSUME NEW h \in Handlers, handler[h].login \in Logins,
             login[handler[h].login] # None,
             login' = [login EXCEPT ![handler[h].login].state = "taken"]
      PROVE  LoginsOwn(login', traffic', issued') /\ Grows(login, login')
  <2> DEFINE l == handler[h].login
             r == [login[l] EXCEPT !.state = "taken"]
  <2>1. login[l] \in LoginState
    BY <1>0, <1>5
  <2>2. login' = [login EXCEPT ![l] = r]
    BY <1>0, <1>5
  <2>3. /\ r \in LoginState /\ r.presented = login[l].presented /\ r.by = login[l].by
        /\ r.store = login[l].store /\ r.alias = login[l].alias
    BY <2>1 DEF LoginState
  <2> HIDE DEF r
  <2>4. LoginOwn(r, traffic', issued') /\ r # None
    BY <1>1, <1>5, <2>3, ExampleAssumption DEF OwnInv, LoginsOwn
  <2>5. \A k \in Logins : login'[k] = IF k = l THEN r ELSE login[k]
    BY <1>0, <2>2
  <2>6. QED
    BY <1>2, <2>3, <2>4, <2>5 DEF LoginsOwn, Grows
<1>6. ASSUME NEW h \in Handlers, Exchanging(handler[h]),
             \/ login' = Complete(handler[h])
             \/ login' = [login EXCEPT ![handler[h].login].presented = handler[h].client]
      PROVE  LoginsOwn(login', traffic', issued') /\ Grows(login, login')
  <2> DEFINE hs == handler[h]
             l == hs.login
             saved == login[l]
             res == [store |-> stateStoreForRuntime(hs.cfg), issuer |-> hs.issuer]
             r1 == [saved EXCEPT !.state = "done", !.presented = hs.client, !.result = res]
             r2 == [saved EXCEPT !.presented = hs.client]
             r == login'[l]
  <2>1. /\ l \in Logins /\ saved # None /\ saved \in LoginState
        /\ hs.cfg \in Served(traffic)
        /\ saved.store = stateStoreForRuntime(hs.cfg)
    BY <1>0, <1>6, ExchangingFacts DEF TakenOver, HandlerState
  <2>2. Grows(login, login')
    BY <1>6, PresentedOK, CompleteOK
  <2>3. /\ r1.presented = hs.client /\ r1.by = saved.by /\ r1.store = saved.store
        /\ r2.presented = hs.client /\ r2.by = saved.by /\ r2.store = saved.store
    BY <2>1 DEF LoginState
  <2>4. login' = [login EXCEPT ![l] = r1] \/ login' = [login EXCEPT ![l] = r2]
    BY <1>0, <1>6, <2>1 DEF Complete
  <2> HIDE DEF r1, r2
  <2>5. \A k \in Logins : k # l => login'[k] = login[k]
    BY <1>0, <2>1, <2>4
  <2>6. r = r1 \/ r = r2
    BY <1>0, <2>1, <2>4
  <2>7. hs.client = saved.by \/ OwnClient(hs.client, hs.cfg, issued')
    BY <1>6, OwnGrows DEF OwnInv, HandlersOwn, HandlerOwn
  <2>8. LoginOwn(r, traffic', issued')
    <3>1. r.presented = hs.client /\ r.by = saved.by /\ r.store = saved.store
      BY <2>3, <2>6
    <3> HIDE DEF r
    <3>2. QED
      BY <2>1, <2>7, <3>1 DEF LoginOwn
  <2>9. QED
    BY <1>2, <2>2, <2>5, <2>8 DEF LoginsOwn
<1>7. QED
  BY <1>3, <1>4, <1>5, <1>6 DEF LoginChange

\* Handler h goes to the state new.
LEMMA HandlersOwnKept ==
  ASSUME Inv, OwnInv, NEW h \in Handlers, NEW new,
         handler' = [handler EXCEPT ![h] = new],
         HandlerOwn(new, login', issued'),
         Grows(login, login'), IssuedGrows(issued, issued')
  PROVE  HandlersOwn(handler', login', issued')
<1>1. \A g \in Handlers : handler'[g] = IF g = h THEN new ELSE handler[g]
  BY DEF Inv, HandlersOK
<1>2. ASSUME NEW g \in Handlers PROVE HandlerOwn(handler[g], login', issued')
  <2> DEFINE hs == handler[g]
  <2>1. HandlerOwn(hs, login, issued)
    BY DEF OwnInv, HandlersOwn
  <2>2. Exchanging(hs) => hs.login \in Logins /\ login[hs.login] # None
    BY ExchangingFacts
  <2>3. Exchanging(hs) => login'[hs.login].by = login[hs.login].by
    BY <2>2 DEF Grows
  <2>4. QED
    BY <2>1, <2>3, OwnGrows DEF HandlerOwn
<1>3. QED
  BY <1>1, <1>2 DEF HandlersOwn

\* A handler with no callback under way.
Quiet(hs) == ~Chosen(hs) /\ ~Exchanging(hs)

\* The states outside a callback.
LEMMA QuietStates ==
  Quiet(Idle) /\ \A hs : Quiet(Stored(hs)) /\ Quiet(Failed(hs))
<1>1. Quiet(Idle)
  BY DEF Idle, Quiet, Chosen, Exchanging
<1>2. ASSUME NEW hs PROVE Quiet(Stored(hs))
  <2>1. Stored(hs).pc = "store"
    BY DEF Stored, Idle
  <2>2. QED
    BY <2>1 DEF Quiet, Chosen, Exchanging
<1>3. QED
  BY <1>1, <1>2 DEF Failed

\* The client a handler goes on with, c being one of its registration.
LEMMA WithClientOwn ==
  ASSUME NEW tr, NEW hs \in HandlerState(tr), NEW c, NEW lg, NEW is, NEW is2,
         HandlerOwn(hs, lg, is), IssuedGrows(is, is2), OwnClient(c, hs.cfg, is2),
         hs.pc \in {"lock", "net"},
         hs.after \in {"startup", "authorize", "again", "consume"}
  PROVE  HandlerOwn(WithClient(hs, c), lg, is2)
<1> DEFINE d == IF hs.after = "consume" THEN hs.client ELSE c
           new == [hs EXCEPT !.pc = hs.after, !.after = "idle", !.name = None,
                             !.client = d]
<1>1. WithClient(hs, c) = new
  BY DEF WithClient, HandlerState
<1>2. OwnClient(d, hs.cfg, is2)
  BY OwnGrows DEF HandlerOwn, Chosen
<1> HIDE DEF d
<1>3. new.pc = hs.after /\ new.client = d /\ new.cfg = hs.cfg
  BY DEF HandlerState
<1> HIDE DEF new
<1>4. QED
  BY <1>1, <1>2, <1>3 DEF HandlerOwn, Exchanging

\* The RP of a callback is built with the client of what it resolves to, ..
LEMMA RequestOwn ==
  ASSUME Inv, NEW h \in Handlers, Request(h)
  PROVE  \E new : handler' = [handler EXCEPT ![h] = new] /\ HandlerOwn(new, login', issued')
<1>0. Idle \in HandlerState(traffic)
  BY IdleOK DEF Inv, RegistryOK, HandlerOK
<1>1. ASSUME NEW hs \in HandlerState(traffic), NEW cfg, NEW name, NEW c,
             NEW pc \in {"startup", "authorize", "again"}, pc = "again" => c = cfg.client
      PROVE  HandlerOwn(Resolved(hs, cfg, name, c, pc), login', issued')
  <2> DEFINE new1 == [hs EXCEPT !.pc = "lock", !.cfg = cfg, !.name = name, !.after = pc]
             new2 == [hs EXCEPT !.pc = pc, !.cfg = cfg, !.client = c]
  <2>1. /\ new1.pc = "lock" /\ new1.after = pc
        /\ new2.pc = pc /\ new2.client = c /\ new2.cfg = cfg
    BY DEF HandlerState
  <2>2. Resolved(hs, cfg, name, c, pc) = new1 \/ Resolved(hs, cfg, name, c, pc) = new2
    BY DEF Resolved
  <2> HIDE DEF new1, new2
  <2>3. HandlerOwn(new1, login', issued')
    BY <2>1 DEF HandlerOwn, Chosen, Exchanging
  <2>4. HandlerOwn(new2, login', issued')
    BY <1>1, <2>1 DEF HandlerOwn, Chosen, Exchanging, OwnClient
  <2>5. QED
    BY <2>2, <2>3, <2>4
<1>2. ASSUME NEW hs, Quiet(hs) PROVE HandlerOwn(hs, login', issued')
  BY <1>2 DEF Quiet, HandlerOwn
<1>3. ASSUME NEW q \in traffic.runtimes, PostRuntime(h, q)
      PROVE  \E new : handler' = [handler EXCEPT ![h] = new] /\ HandlerOwn(new, login', issued')
  <2>1. HandlerOwn(resolveRPRequestFromRuntimeConfig(q), login', issued')
    BY <1>0, <1>1 DEF resolveRPRequestFromRuntimeConfig
  <2>2. HandlerOwn(Stored([cfg |-> q]), login', issued')
    BY <1>2, QuietStates
  <2>3. QED
    BY <1>3, <2>1, <2>2 DEF PostRuntime
<1>4. ASSUME NEW r \in traffic.logins, Login(h, r[1], r[2])
      PROVE  \E new : handler' = [handler EXCEPT ![h] = new] /\ HandlerOwn(new, login', issued')
  <2>1. PICK cfg : handler' = [handler EXCEPT ![h] =
                                 applyRuntimeConfig(Idle, cfg, r[2], "authorize")]
    BY <1>4 DEF Login
  <2>2. HandlerOwn(applyRuntimeConfig(Idle, cfg, r[2], "authorize"), login', issued')
    BY <1>0, <1>1 DEF applyRuntimeConfig
  <2>3. QED
    BY <2>1, <2>2
<1>5. ASSUME NEW l \in Logins, Callback(h, l)
      PROVE  \E new : handler' = [handler EXCEPT ![h] = new] /\ HandlerOwn(new, login', issued')
  <2> DEFINE start == [Idle EXCEPT !.login = l]
  <2>1. PICK cfg : handler' = [handler EXCEPT ![h] =
                                 applyRuntimeConfig(start, cfg, None, "again")]
    BY <1>5 DEF Callback
  <2>2. start \in HandlerState(traffic)
    <3>1. l \in 0..MaxLogins
      BY ExampleAssumption DEF Logins
    <3>2. QED
      BY <1>0, <3>1 DEF HandlerState
  <2> HIDE DEF start
  <2>3. ~shouldUseSecondClient(None)
    BY ExampleAssumption DEF shouldUseSecondClient
  <2>4. HandlerOwn(applyRuntimeConfig(start, cfg, None, "again"), login', issued')
    BY <1>1, <2>2, <2>3 DEF applyRuntimeConfig
  <2>5. QED
    BY <2>1, <2>4
<1>6. ASSUME NEW l \in Logins, FetchObject(h, l)
      PROVE  \E new : handler' = [handler EXCEPT ![h] = new] /\ HandlerOwn(new, login', issued')
  <2> DEFINE new == [Idle EXCEPT !.pc = "loaded", !.login = l]
  <2>1. handler' = [handler EXCEPT ![h] = new]
    BY <1>6 DEF FetchObject
  <2>2. new.pc = "loaded"
    BY DEF Idle
  <2> HIDE DEF new
  <2>3. QED
    BY <2>1, <2>2 DEF HandlerOwn, Chosen, Exchanging
<1>7. QED
  BY <1>3, <1>4, <1>5, <1>6 DEF Request

\* .. and keeps it, or takes the one that the cache has for its alias, ..
LEMMA RegistrationOwn ==
  ASSUME Inv, OwnInv, NEW h \in Handlers, LockDynamic(h) \/ RegisterClient(h),
         IssuedGrows(issued, issued'), CacheOwn(dynamic', issued'), Inv'
  PROVE  \E new : handler' = [handler EXCEPT ![h] = new] /\ HandlerOwn(new, login', issued')
<1> DEFINE hs == handler[h]
           a == hs.cfg.alias
<1>0. /\ hs \in HandlerState(traffic) /\ HandlerOwn(hs, login, issued)
      /\ hs.pc \in {"lock", "net"}
      /\ hs.after \in {"startup", "authorize", "again", "consume"}
      /\ login' = login
      /\ a \in Aliases
  BY ConfigFields DEF Inv, RegistryOK, HandlersOK, HandlerOK, HandlerState, OwnInv,
     HandlersOwn, LockDynamic, RegisterClient
<1>1. dynamic'[a] # None => OwnClient(dynamic'[a].client, hs.cfg, issued')
  BY <1>0 DEF Inv, ClientsOK, CacheOK, CacheOwn, OwnClient
<1>2. CASE LockDynamic(h) /\ Cached(hs)
  <2>1. /\ handler' = [handler EXCEPT ![h] = WithClient(hs, dynamic'[a].client)]
        /\ dynamic'[a] # None
    BY <1>2 DEF LockDynamic, Cached
  <2>2. HandlerOwn(WithClient(hs, dynamic'[a].client), login', issued')
    BY <1>0, <1>1, <2>1, WithClientOwn
  <2>3. QED
    BY <2>1, <2>2
<1>3. CASE LockDynamic(h) /\ ~Cached(hs)
  <2> DEFINE new == [hs EXCEPT !.pc = "net"]
  <2>1. handler' = [handler EXCEPT ![h] = new] /\ issued' = issued /\ hs.pc = "lock"
    BY <1>3 DEF LockDynamic
  <2>2. /\ new.pc = "net" /\ new.after = hs.after /\ new.client = hs.client
        /\ new.cfg = hs.cfg
    BY <1>0 DEF HandlerState
  <2> HIDE DEF new
  <2>3. HandlerOwn(new, login', issued')
    BY <1>0, <2>1, <2>2 DEF HandlerOwn, Chosen, Exchanging
  <2>4. QED
    BY <2>1, <2>3
<1>4. CASE RegisterClient(h)
  <2> DEFINE c == Dynamic(Len(issued) + 1)
             e == [client |-> c, module |-> hs.name]
  <2>1. /\ handler' = [handler EXCEPT ![h] = WithClient(hs, c)]
        /\ dynamic' = [dynamic EXCEPT ![a] = e]
    BY <1>4 DEF RegisterClient
  <2>2. e.client = c
    OBVIOUS
  <2> HIDE DEF c, e
  <2>3. dynamic'[a] = e
    BY <1>0, <2>1 DEF Inv, ClientsOK, CacheOK
  <2>4. dynamic'[a] # None
    <3>1. issued' = Append(issued, <<a, hs.name>>)
      BY <1>4 DEF RegisterClient
    <3>2. e \in DynamicClient
      <4>1. Len(issued) \in Nat /\ Len(issued) < MaxClients
        BY <1>4 DEF RegisterClient, Inv, ClientsOK, CacheOK
      <4>2. c \in Clients
        BY <4>1, ExampleAssumption DEF c, Dynamic, Clients
      <4>3. QED
        BY <1>0, <4>2 DEF DynamicClient, HandlerState, e
    <3>3. QED
      BY <2>3, <3>2, ExampleAssumption
  <2>5. HandlerOwn(WithClient(hs, c), login', issued')
    BY <1>0, <1>1, <2>2, <2>3, <2>4, WithClientOwn
  <2>6. QED
    BY <2>1, <2>5
<1>5. QED
  BY <1>2, <1>3, <1>4

\* .. unless the correlation names one.
LEMMA CallbackOwn ==
  ASSUME Inv, OwnInv, NEW h \in Handlers, Grows(login, login'),
         \/ ResolveAgain(h) \/ ConsumeCorrelation(h)
         \/ ExchangeToken(h) \/ FetchResource(h)
  PROVE  \E new : handler' = [handler EXCEPT ![h] = new] /\ HandlerOwn(new, login', issued')
<1> DEFINE hs == handler[h]
<1>0. /\ hs \in HandlerState(traffic) /\ HandlerOwn(hs, login, issued)
      /\ handler \in [Handlers -> HandlerState(traffic)]
  BY DEF Inv, HandlersOK, OwnInv, HandlersOwn
<1>1. issued' = issued
  BY DEF ResolveAgain, ConsumeCorrelation, ExchangeToken, FetchResource
<1>2. HandlerOwn(Idle, login', issued')
  BY QuietStates DEF HandlerOwn, Quiet
<1>3. CASE handler' = [handler EXCEPT ![h] = Idle]
  BY <1>2, <1>3
<1>4. CASE ResolveAgain(h) /\ ~(handler' = [handler EXCEPT ![h] = Idle])
  <2>1. PICK cfg :
          /\ handler' = [handler EXCEPT ![h] =
               [@ EXCEPT !.fapi = cfg.fapi, !.after = "consume",
                         !.pc = IF shouldRegisterDynamically(cfg) THEN "lock"
                                ELSE "consume"]]
          /\ hs.pc = "again"
    BY <1>4 DEF ResolveAgain
  <2> DEFINE pc == IF shouldRegisterDynamically(cfg) THEN "lock" ELSE "consume"
             new == [hs EXCEPT !.fapi = cfg.fapi, !.after = "consume", !.pc = pc]
  <2>2. handler' = [handler EXCEPT ![h] = new]
    BY <1>0, <2>1
  <2>3. pc \in {"lock", "consume"}
    OBVIOUS
  <2> HIDE DEF pc
  <2>4. new.pc = pc /\ new.client = hs.client /\ new.cfg = hs.cfg
    BY <1>0 DEF HandlerState
  <2> HIDE DEF new
  <2>5. HandlerOwn(new, login', issued')
    BY <1>0, <1>1, <2>1, <2>3, <2>4 DEF HandlerOwn, Chosen, Exchanging
  <2>6. QED
    BY <2>2, <2>5
<1>5. CASE ConsumeCorrelation(h) /\ ~(handler' = [handler EXCEPT ![h] = Idle])
  <2> DEFINE saved == login[hs.login]
             client == clientCredentials(hs, saved)
             new == [hs EXCEPT !.pc = "exchange", !.client = client,
                               !.issuer = expand(hs.cfg, saved.issuer)]
  <2>1. handler' = [handler EXCEPT ![h] = new] /\ hs.pc = "consume"
    BY <1>0, <1>5 DEF ConsumeCorrelation
  <2>2. /\ hs.login \in Logins /\ saved # None
        /\ saved.client # None => saved.client = saved.by
    BY <2>1 DEF Inv, HandlersOK, HandlerOK, InCallback, LoginsOK, LoginOK
  <2>3. login'[hs.login].by = saved.by
    BY <2>2 DEF Grows
  <2>4. client = saved.by \/ client = hs.client
    BY <2>2 DEF clientCredentials
  <2> HIDE DEF client
  <2>5. /\ new.pc = "exchange" /\ new.client = client /\ new.cfg = hs.cfg
        /\ new.login = hs.login
    BY <1>0 DEF HandlerState
  <2> HIDE DEF new
  <2>6. HandlerOwn(new, login', issued')
    BY <1>0, <1>1, <2>1, <2>3, <2>4, <2>5 DEF HandlerOwn, Chosen, Exchanging
  <2>7. QED
    BY <2>1, <2>6
<1>6. CASE (ExchangeToken(h) \/ FetchResource(h)) /\ ~(handler' = [handler EXCEPT ![h] = Idle])
  <2>1. Exchanging(hs)
    BY <1>6 DEF ExchangeToken, FetchResource, Exchanging
  <2>2. \E pc \in {"resource", "retry"} : handler' = [handler EXCEPT ![h].pc = pc]
    BY <1>6 DEF ExchangeToken, FetchResource
  <2>3. PICK pc \in {"resource", "retry"} : handler' = [handler EXCEPT ![h].pc = pc]
    BY <2>2
  <2> DEFINE new == [hs EXCEPT !.pc = pc]
  <2>4. handler' = [handler EXCEPT ![h] = new]
    BY <1>0, <2>3
  <2>5. /\ new.pc = pc /\ new.client = hs.client /\ new.cfg = hs.cfg
        /\ new.login = hs.login
    BY <1>0 DEF HandlerState
  <2>6. login'[hs.login].by = login[hs.login].by
    BY <2>1, ExchangingFacts DEF Grows
  <2> HIDE DEF new
  <2>7. HandlerOwn(new, login', issued')
    BY <1>0, <1>1, <2>1, <2>3, <2>5, <2>6 DEF HandlerOwn, Chosen
  <2>8. QED
    BY <2>4, <2>7
<1>7. QED
  BY <1>3, <1>4, <1>5, <1>6

\* A handler that is no callback's.
LEMMA OtherOwn ==
  ASSUME Inv, NEW h \in Handlers,
         \/ RegisterClientFails(h) \/ executeStartupAction(h) \/ Register(h)
         \/ handleLogin(h) \/ CheckObject(h) \/ EvictObject(h)
  PROVE  \E new : handler' = [handler EXCEPT ![h] = new] /\ HandlerOwn(new, login', issued')
<1> DEFINE hs == handler[h]
           old == [hs EXCEPT !.pc = "evict"]
<1>1. handler \in [Handlers -> HandlerState(traffic)] /\ hs \in HandlerState(traffic)
  BY DEF Inv, HandlersOK
<1>2. \E new \in {Idle, Stored(hs), Failed(hs), old} : handler' = [handler EXCEPT ![h] = new]
  BY <1>1, Zenon DEF RegisterClientFails, executeStartupAction, StartupError, Register,
     handleLogin, CheckObject, EvictObject
<1>3. old.pc = "evict"
  BY <1>1 DEF HandlerState
<1> HIDE DEF old
<1>4. Quiet(old)
  BY <1>3 DEF Quiet, Chosen, Exchanging
<1>5. \A new \in {Idle, Stored(hs), Failed(hs), old} : HandlerOwn(new, login', issued')
  BY <1>4, QuietStates DEF HandlerOwn, Quiet
<1>6. QED
  BY <1>2, <1>5

\* Every step keeps the clients' invariant.
LEMMA OwnStep == Inv /\ Inv' /\ OwnInv /\ [Next]_vars => OwnInv'
<1> SUFFICES ASSUME Inv, Inv', OwnInv, [Next]_vars PROVE OwnInv'
  OBVIOUS
<1>1. traffic' = traffic
  BY DEF Next, Request, HandlerStep, LockDynamic, PostRuntime, Login, Callback, FetchObject,
     RegisterClient, RegisterClientFails, executeStartupAction, Register, handleLogin,
     ResolveAgain, ConsumeCorrelation, ExchangeToken, FetchResource, CheckObject,
     EvictObject, DeleteRuntime, ExpireObject, Cleanup, vars
<1>2. IssuedGrows(issued, issued') /\ CacheOwn(dynamic', issued')
  BY IssuedStep
<1>3. LoginsOwn(login', traffic', issued') /\ Grows(login, login')
  BY <1>1, <1>2, LoginChanges, LoginsOwnStep
<1>4. HandlersOwn(handler', login', issued')
  <2>1. ASSUME NEW h \in Handlers, Request(h) \/ LockDynamic(h) \/ HandlerStep(h)
        PROVE  \E new : /\ handler' = [handler EXCEPT ![h] = new]
                        /\ HandlerOwn(new, login', issued')
    BY <1>2, <1>3, <2>1, RequestOwn, RegistrationOwn, CallbackOwn, OtherOwn DEF HandlerStep
  <2>2. CASE \E h \in Handlers : Request(h) \/ LockDynamic(h) \/ HandlerStep(h)
    BY <1>2, <1>3, <2>1, <2>2, HandlersOwnKept
  <2>3. CASE \/ \E a \in Aliases : DeleteRuntime(a)
             \/ \E l \in Logins : ExpireObject(l)
             \/ Cleanup
             \/ UNCHANGED vars
    BY <2>3 DEF DeleteRuntime, ExpireObject, Cleanup, vars, OwnInv, HandlersOwn
  <2>4. QED
    BY <2>2, <2>3 DEF Next
<1>5. QED
  BY <1>2, <1>3, <1>4 DEF OwnInv

\* The client of every token request is one of its login's.
LEMMA ClientsOwn == Spec => []ClientKept
<1>1. Init => OwnInv
  <2> SUFFICES ASSUME Init PROVE OwnInv
    OBVIOUS
  <2>1. Quiet(Idle)
    BY QuietStates
  <2>2. QED
    BY <2>1 DEF Init, OwnInv, CacheOwn, HandlersOwn, HandlerOwn, LoginsOwn, Quiet
<1>2. Inv /\ OwnInv => ClientKept
  <2> SUFFICES ASSUME Inv, OwnInv, NEW l \in Logins,
                      login[l] # None, login[l].presented # None,
                      login[l].presented # login[l].by
               PROVE  /\ login[l].store.base = "cookie"
                      /\ \E cfg \in traffic.runtimes \cup {Default} :
                           /\ stateStoreForRuntime(cfg) = login[l].store
                           /\ ClientOf(login[l].presented, cfg)
    BY DEF ClientKept
  <2>1. login[l].store.base = "cookie"
    BY DEF Inv, LoginsOK, LoginOK, LoginState, Stores
  <2>2. QED
    BY <2>1 DEF OwnInv, LoginsOwn, LoginOwn, OwnClient, ClientOf, Served
<1>3. QED
  BY <1>1, <1>2, OwnStep, Invariant, PTL DEF Spec

-----------------------------------------------------------------------------
(* Issuers *)

\* A job registers a test module with one configuration: runtimes posted in one
\* behaviour that share a state store agree on whether a login brings an ID
\* token.
OneConfigPerStore ==
  \A tr \in Traffic : \A p, q \in tr.runtimes :
    stateStoreForRuntime(p) = stateStoreForRuntime(q) => p.openid = q.openid

\* With Inv the inductive strengthening of IssuerKept.
IssuersOK(lg) == \A l \in Logins : lg[l] # None => IssuerOK(lg[l])

\* A callback past the exchange has validated the issuer it completes with, if
\* the login was to bring an ID token.
LEMMA IssuerValidated ==
  ASSUME OneConfigPerStore, Inv, NEW h \in Handlers, Exchanging(handler[h]),
         IssuerValid(handler[h])
  PROVE  login[handler[h].login].openid =>
           handler[h].issuer = [full |-> TRUE, of |-> login[handler[h].login].alias]
<1> DEFINE hs == handler[h]
           r == login[hs.login]
<1>1. /\ traffic \in Traffic /\ hs \in HandlerState(traffic)
      /\ LoginOK(r, traffic) /\ TakenOver(hs, r)
  BY ExchangingFacts
<1>2. PICK cfg \in Served(traffic) : StartedBy(r, cfg)
  BY <1>1 DEF LoginOK
<1>3. hs.cfg \in Served(traffic)
  BY <1>1 DEF HandlerState
<1>4. stateStoreForRuntime(cfg) = stateStoreForRuntime(hs.cfg)
  BY <1>1, <1>2 DEF StartedBy, TakenOver
<1>5. cfg.openid = hs.cfg.openid
  <2>1. CASE cfg \in traffic.runtimes /\ hs.cfg \in traffic.runtimes
    BY <1>1, <1>4, <2>1 DEF OneConfigPerStore
  <2>2. CASE cfg = Default \/ hs.cfg = Default
    <3>1. cfg.namespace = hs.cfg.namespace
      BY <1>4 DEF stateStoreForRuntime
    <3>2. \A q \in traffic.runtimes : q.namespace # None
      BY <1>1, ExampleAssumption DEF RuntimeConfig
    <3>3. Default.namespace = None
      BY DEF Default
    <3>4. QED
      BY <1>2, <1>3, <2>2, <3>1, <3>2, <3>3 DEF Served
  <2>3. QED
    BY <1>2, <1>3, <2>1, <2>2 DEF Served
<1>6. r.openid = hs.cfg.openid
  BY <1>2, <1>5 DEF StartedBy
<1>7. r.openid => hs.issuer = IssuerOf(hs.cfg)
  BY <1>6 DEF IssuerValid
<1>8. IssuerOf(hs.cfg) = [full |-> TRUE, of |-> hs.cfg.alias]
  BY DEF IssuerOf
<1>9. r.openid => hs.issuer = [full |-> TRUE, of |-> r.alias]
  <2>1. hs.issuer.of = r.alias
    BY <1>1 DEF TakenOver
  <2>2. r.openid => hs.issuer = [full |-> TRUE, of |-> hs.cfg.alias]
    BY <1>7, <1>8, Zenon
  <2>3. [full |-> TRUE, of |-> hs.cfg.alias].of = hs.cfg.alias
    OBVIOUS
  <2>4. r.openid => hs.cfg.alias = r.alias
    BY <2>1, <2>2, <2>3, Zenon
  <2>5. QED
    BY <2>2, <2>4, Zenon
<1>10. QED
  BY <1>9

\* A record that keeps the result, or gets a validated one, is right.
LEMMA IssuersStep ==
  ASSUME OneConfigPerStore
  PROVE  Inv /\ IssuersOK(login) /\ [Next]_vars => IssuersOK(login')
<1> SUFFICES ASSUME Inv, IssuersOK(login), [Next]_vars PROVE IssuersOK(login')
  OBVIOUS
<1>0. login \in [Logins -> LoginState \cup {None}]
  BY DEF Inv, LoginsOK
<1>1. CASE login' = login
  BY <1>1
<1>2. ASSUME NEW h \in Handlers, NEW l \in NextLogin, NEW ok \in BOOLEAN,
             AuthorizationURL(h, l, ok)
      PROVE  IssuersOK(login')
  <2> DEFINE r == saveCorrelation(handler[h].cfg, handler[h].client)
  <2>1. login' = login \/ login' = [login EXCEPT ![l] = r]
    BY <1>2 DEF AuthorizationURL
  <2>2. r.result = None
    BY DEF saveCorrelation, toPayloadCorrelation
  <2> HIDE DEF r
  <2>3. QED
    BY <1>0, <2>1, <2>2 DEF IssuersOK, IssuerOK
<1>3. ASSUME NEW h \in Handlers, handler[h].login \in Logins,
             login[handler[h].login] # None,
             \/ login' = [login EXCEPT ![handler[h].login].state = "taken"]
             \/ login' = [login EXCEPT ![handler[h].login].presented = handler[h].client]
      PROVE  IssuersOK(login')
  <2> DEFINE l == handler[h].login
             r == login'[l]
  <2>1. login[l] \in LoginState
    BY <1>0, <1>3
  <2>2. r.result = login[l].result /\ r.openid = login[l].openid /\ r.alias = login[l].alias
    BY <1>0, <1>3, <2>1 DEF LoginState
  <2>3. \A k \in Logins : k # l => login'[k] = login[k]
    BY <1>0, <1>3
  <2>4. QED
    BY <1>3, <2>2, <2>3 DEF IssuersOK, IssuerOK
<1>4. ASSUME NEW h \in Handlers, Exchanging(handler[h]), IssuerValid(handler[h]),
             login' = Complete(handler[h])
      PROVE  IssuersOK(login')
  <2> DEFINE hs == handler[h]
             saved == login[hs.login]
             res == [store |-> stateStoreForRuntime(hs.cfg), issuer |-> hs.issuer]
             r == [saved EXCEPT !.state = "done", !.presented = hs.client, !.result = res]
  <2>1. hs.login \in Logins /\ saved \in LoginState
    BY <1>0, <1>4, ExchangingFacts
  <2>2. login' = [login EXCEPT ![hs.login] = r]
    BY <1>0, <1>4 DEF Complete
  <2>3. res.issuer = hs.issuer
    OBVIOUS
  <2> HIDE DEF res
  <2>4. r.result = res /\ r.openid = saved.openid /\ r.alias = saved.alias
    BY <2>1 DEF LoginState
  <2> HIDE DEF r
  <2>5. IssuerOK(r)
    BY <1>4, <2>3, <2>4, IssuerValidated DEF IssuerOK
  <2>6. QED
    BY <1>0, <2>1, <2>2, <2>5 DEF IssuersOK
<1>5. QED
  BY <1>1, <1>2, <1>3, <1>4, LoginChanges, ExchangingFacts DEF LoginChange

-----------------------------------------------------------------------------
(* Theorems *)

\* Every reachable state is well typed; in particular the cache of dynamic
\* clients holds only clients the provider has issued, and the request object
\* store every object that has not expired.
THEOREM TypeCorrect == Spec => []TypeOK
<1>1. Inv => TypeOK
  <2> SUFFICES ASSUME Inv PROVE TypeOK
    OBVIOUS
  <2>1. registry \in [Aliases -> RuntimeConfig \cup {None}]
    BY ExampleAssumption DEF Inv, RegistryOK
  <2>2. \A a \in Aliases : dynamic[a] # None =>
          dynamic[a] \in [client : {"dynamic"} \X (1..Len(issued)),
                          module : Modules \cup {None}]
    BY DEF Inv, ClientsOK, CacheOK, DynamicClient
  <2>3. \A h \in Handlers :
          /\ handler[h].pc \in PCs
          /\ handler[h].client \in Clients
          /\ handler[h].login \in 0..MaxLogins
    BY DEF Inv, HandlersOK, HandlerState
  <2>4. LiveObjectKept /\ items \subseteq Logins
        /\ object \in [Logins -> {"none", "live", "expired"}]
    BY DEF Inv, ObjectsOK, LiveObjectKept
  <2>5. QED
    BY <2>1, <2>2, <2>3, <2>4 DEF Inv, TypeOK, LoginsOK, LoginOK, ClientsOK, MutexesOK
<1>2. QED
  BY <1>1, Invariant, PTL

\* However many requests of an alias ask for a dynamic client at the same time,
\* the module the alias was last registered for gets no second one.
THEOREM OneRegistrationPerModule == Spec => []OneClientPerModule
<1>1. Inv => OneClientPerModule
  BY DEF Inv, ClientsOK
<1>2. QED
  BY <1>1, Invariant, PTL

\* A login is completed under the registration that started it, whatever has
\* been registered since.  Kept in memory it also keeps the client it was
\* started with; kept in a cookie, which drops the client, it may be completed
\* with another one, but only with one of its own registration.  No assumption
\* is made on the configurations.
THEOREM LoginStaysWithItsModule == Spec => [](ModuleIsolation /\ ClientKept)
<1>1. Inv => ModuleIsolation
  BY DEF Inv, LoginsOK, LoginOK, ModuleIsolation
<1>2. QED
  BY <1>1, Invariant, ClientsOwn, PTL

\* If a test module has one configuration, a completed login also has the
\* issuer it was started with, in full, although the store abbreviates it and
\* the runtime may be replaced or gone when the callback expands it.
THEOREM LoginIsKept ==
  ASSUME OneConfigPerStore
  PROVE  Spec => []LoginKept
<1>1. Init => IssuersOK(login)
  BY DEF Init, IssuersOK
<1>2. Inv /\ IssuersOK(login) /\ [Next]_vars => IssuersOK(login)'
  BY IssuersStep DEF IssuersOK
<1>3. IssuersOK(login) => IssuerKept
  BY DEF IssuersOK, IssuerOK, IssuerKept
<1>4. ModuleIsolation /\ ClientKept /\ IssuerKept => LoginKept
  BY DEF LoginKept
<1>5. QED
  BY <1>1, <1>2, <1>3, <1>4, Invariant, LoginStaysWithItsModule, PTL DEF Spec
=============================================================================
