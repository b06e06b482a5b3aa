----------------------------- MODULE Discovery -----------------------------
(***************************************************************************)
(* Metadata discovery: metadata.Client with its cache and its singleflight *)
(* group, called directly or through rp.DiscoverProvider, with or without  *)
(* WebFinger and the preloading of the key set.                            *)
(*                                                                         *)
(* A key is a kind of document and an issuer.  Its well-known URL is that  *)
(* of the issuer without its trailing slash, so two keys may share a URL   *)
(* while they never share a cache entry.  The server publishes versions of *)
(* the document at a URL, tagged with their version; an intermediary may   *)
(* fail a request or answer it with a document that is not the issuer's.   *)
(* Stale entries are served and refreshed by a background goroutine.       *)
(***************************************************************************)
EXTENDS Integers, FiniteSets

CONSTANTS Callers,        \* goroutines that call the client
          Preloaders,     \* the callers that use WithDiscoveryPreloadJWKS
          Refreshers,     \* bound: background refreshes at one time
          Issuers,        \* issuer strings that are https URLs
          BadIssuers,     \* issuer strings validateIssuerURL refuses
          Slashed,        \* the issuers that end with a slash
          Bare,           \* [Issuers -> Issuers]: without trailing slash
          Requests,       \* the keys there are
          MaxAsked,       \* bound: keys the callers ask for in one behaviour
          Misserved,      \* defects of the documents an intermediary serves
          MaxVersion,     \* bound: publications of the document at a URL
          MaxFaults       \* bound: failed requests and misserved documents

ASSUME DiscoveryConstants ==
    /\ Preloaders \subseteq Callers
    /\ Callers \cap Refreshers = {}
    /\ Slashed \subseteq Issuers
    /\ Issuers \cap BadIssuers = {}
    /\ Bare \in [Issuers -> Issuers \ Slashed]
    /\ \A i \in Issuers \ Slashed : Bare[i] = i
    /\ Requests \subseteq {"provider", "as"} \X Issuers
    /\ \A m \in Misserved : m.issuer \in Issuers
    /\ "none" \notin Callers \cup Refreshers
    /\ MaxVersion \in Nat \ {0}
    /\ MaxAsked \in Nat \ {0}
    /\ MaxFaults \in Nat

VARIABLES
    asked,       \* the keys the callers ask for
    fresh,       \* WithConformanceFreshDiscovery
    tolerant,    \* the trailing slash tolerance of the client
    served,      \* [URLs -> versions]: what the server publishes
    cache,       \* [Requests -> entries or NoEntry]: discoveryCache
    flight,      \* [Requests -> threads or NoThread]: discoveryGroup
    thread,      \* [Threads -> what the goroutine does]
    faults,      \* requests the network and the callers' contexts broke
    seen         \* history: the newest version a call returned for a key

config == <<asked, fresh, tolerant>>
vars   == <<config, served, cache, flight, thread, faults, seen>>

Threads  == Callers \cup Refreshers
NoThread == "none"
NoEntry  == [doc |-> [version |-> 0], etag |-> 0, live |-> FALSE]

(* WellKnownURL: one URL for an issuer with and without its slash *)
URL(k) == <<k[1], Bare[k[2]]>>
URLs   == {URL(k) : k \in Requests}

Sound == [missing |-> {}, insecure |-> {}]

Document(i, d, v) == [issuer |-> i, missing |-> d.missing,
                      insecure |-> d.insecure, version |-> v]

Defects   == {[missing |-> m.missing, insecure |-> m.insecure] :
                  m \in Misserved}
Documents == {Document(i, d, v) : i \in Issuers, d \in Defects \cup {Sound},
                                  v \in 1..MaxVersion}
Entries   == [doc : Documents, etag : 0..MaxVersion, live : BOOLEAN]

Idle == [pc |-> "idle", key |-> <<>>, existing |-> NoEntry,
         out |-> NoEntry, floor |-> 0]

-----------------------------------------------------------------------------
(***************************************************************************)
(* Validation of a document fetched for an issuer.                         *)
(***************************************************************************)

AnyIssuer(expected, actual) == TRUE

IssuerMatches(expected, actual) ==
    \/ expected = actual
    \/ tolerant /\ Bare[expected] = Bare[actual]

(* A provider document needs all it is used for, and checks every endpoint *)
ValidateProvider(i, d) ==
    /\ IssuerMatches(i, d.issuer)
    /\ d.missing = {}
    /\ d.insecure = {}

(* An authorization server's endpoints are optional; three are checked *)
ValidateAuthorizationServer(i, d) ==
    /\ IssuerMatches(i, d.issuer)
    /\ "response_types_supported" \notin d.missing
    /\ d.insecure \cap {"authorization_endpoint", "jwks_uri", "token_endpoint"}
         = {}

Valid(k, d) == IF k[1] = "provider"
               THEN ValidateProvider(k[2], d)
               ELSE ValidateAuthorizationServer(k[2], d)

-----------------------------------------------------------------------------
(***************************************************************************)
(* Returning to the caller.                                                *)
(***************************************************************************)

(* What a goroutine does once discovery gave it an entry or an error; a
   preloading caller of rp.DiscoverProvider first fetches the key set *)
After(t, begun, e) ==
    IF t \in Refreshers
    THEN Idle
    ELSE [begun EXCEPT !.existing = NoEntry, !.out = e,
              !.pc = IF e # NoEntry /\ t \in Preloaders
                        /\ begun.key[1] = "provider"
                     THEN "preload" ELSE "return"]

(* keySet.Keys(ctx) for the document's jwks_uri; an error fails the call *)
Preload(t) ==
    /\ thread[t].pc = "preload"
    /\ \E e \in {thread[t].out, NoEntry} :
          thread' = [thread EXCEPT ![t] = [@ EXCEPT !.pc = "return", !.out = e]]
    /\ UNCHANGED <<config, served, cache, flight, faults, seen>>

(* The caller has the document or the error *)
Return(t) ==
    LET k == thread[t].key
        v == thread[t].out.doc.version
    IN  /\ thread[t].pc = "return"
        /\ seen' = IF v = 0 \/ v < seen[k] THEN seen
                   ELSE [seen EXCEPT ![k] = v]
        /\ thread' = [thread EXCEPT ![t] = Idle]
        /\ UNCHANGED <<config, served, cache, flight, faults>>

Refused(t) == thread' = [thread EXCEPT ![t] = [Idle EXCEPT !.pc = "return"]]

-----------------------------------------------------------------------------
(***************************************************************************)
(* The call: validateIssuerURL, the look into the cache.                   *)
(***************************************************************************)

ServeStale(t, k) ==
    LET e     == cache[k]
        begun == [Idle EXCEPT !.key = k, !.existing = e, !.floor = seen[k]]
    IN  thread' = [thread EXCEPT ![t] =
            IF e = NoEntry \/ fresh
            THEN [begun EXCEPT !.pc = "refresh"]
            ELSE After(t, begun, e)]

(* discoverProvider and discoverAuthorizationServer for the key k: a cached
   document is returned without a request, a stale one is refreshed behind
   the caller's back *)
Discover(t, k) ==
    LET e     == cache[k]
        begun == [Idle EXCEPT !.key = k, !.existing = e, !.floor = seen[k]]
        wait  == [begun EXCEPT !.pc = "refresh"]
    IN  \/ /\ e = NoEntry \/ fresh
           /\ thread' = [thread EXCEPT ![t] = wait]
        \/ /\ e # NoEntry /\ ~fresh /\ e.live
           /\ thread' = [thread EXCEPT ![t] = After(t, begun, e)]
        \/ /\ e # NoEntry /\ ~fresh /\ ~e.live
           /\ \E r \in Refreshers :
                /\ thread[r] = Idle
                /\ thread' = [thread EXCEPT ![t] = After(t, begun, e),
                                            ![r] = [wait EXCEPT !.floor = 0]]

Call(t, k) ==
    /\ thread[t] = Idle
    /\ Discover(t, k)
    /\ UNCHANGED <<config, served, cache, flight, faults, seen>>

(* An issuer that is not an https URL without query and fragment *)
CallBad(t) ==
    /\ thread[t] = Idle
    /\ BadIssuers # {}
    /\ Refused(t)
    /\ UNCHANGED <<config, served, cache, flight, faults, seen>>

(* DiscoverProviderFromResource: WebFinger names the issuer *)
CallResource(t) ==
    /\ thread[t] = Idle
    /\ thread' = [thread EXCEPT ![t].pc = "webfinger"]
    /\ UNCHANGED <<config, served, cache, flight, faults, seen>>

(* The first issuer link with an href, which has to be a valid issuer *)
WebFinger(t) ==
    /\ thread[t].pc = "webfinger"
    /\ \/ \E k \in asked : k[1] = "provider" /\ Discover(t, k)
       \/ Refused(t)    \* no answer, no issuer link, or a bad one
    /\ UNCHANGED <<config, served, cache, flight, faults, seen>>

-----------------------------------------------------------------------------
(***************************************************************************)
(* refreshDiscovery: one flight per key fetches, validates and stores.     *)
(***************************************************************************)

AlwaysLead(t) ==
    /\ thread[t].pc = "refresh"
    /\ flight' = [flight EXCEPT ![thread[t].key] = t]
    /\ thread' = [thread EXCEPT ![t].pc = "fetch"]
    /\ UNCHANGED <<config, served, cache, faults, seen>>

(* discoveryGroup.Do: lead a flight for the key or wait for the one there is *)
Do(t) ==
    LET k == thread[t].key
    IN  /\ thread[t].pc = "refresh"
        /\ IF flight[k] = NoThread
           THEN /\ flight' = [flight EXCEPT ![k] = t]
                /\ thread' = [thread EXCEPT ![t].pc = "fetch"]
           ELSE /\ thread' = [thread EXCEPT ![t] =
                                 [@ EXCEPT !.pc = "wait", !.existing = NoEntry]]
                /\ UNCHANGED flight
        /\ UNCHANGED <<config, served, cache, faults, seen>>

(* The entry a 200 answer makes; no entry when the document is refused *)
NewEntry(k, d, tag) == IF Valid(k, d)
                       THEN [doc |-> d, etag |-> tag, live |-> TRUE]
                       ELSE NoEntry

(* The entry a 304 answer makes: the document the request named, live again *)
RefreshExisting(e, tag) == [e EXCEPT !.etag = tag, !.live = TRUE]

Goes(t, pc, e) ==
    thread' = [thread EXCEPT ![t] =
                  [@ EXCEPT !.pc = pc, !.out = e, !.existing = NoEntry]]

(* fetchAndValidate against the server: 304 when the tag still names its
   document, the document otherwise *)
Answer(t) ==
    LET k == thread[t].key
        e == thread[t].existing
        v == served[URL(k)]
    IN  /\ thread[t].pc = "fetch"
        /\ IF e # NoEntry /\ e.etag = v
           THEN Goes(t, "store", RefreshExisting(e, v))
           ELSE LET n == NewEntry(k, Document(Bare[k[2]], Sound, v), v)
                IN  Goes(t, IF n = NoEntry THEN "release" ELSE "store", n)
        /\ UNCHANGED <<config, served, cache, flight, faults, seen>>

(* A request that fails (the network, a status, a body that does not decode,
   a 304 to a request without a tag, the leader's context), or is answered
   with a document that is not the server's and does not have its tag *)
Fault(t) ==
    LET k == thread[t].key
    IN  /\ thread[t].pc = "fetch"
        /\ faults < MaxFaults
        /\ faults' = faults + 1
        /\ \/ Goes(t, "release", NoEntry)
           \/ \E m \in Misserved :
                LET n == NewEntry(k, Document(m.issuer, m, served[URL(k)]), 0)
                IN  Goes(t, IF n = NoEntry THEN "release" ELSE "store", n)
        /\ UNCHANGED <<config, served, cache, flight, seen>>

(* discoveryCache.Set, still inside the flight *)
Store(t) ==
    /\ thread[t].pc = "store"
    /\ cache' = [cache EXCEPT ![thread[t].key] = thread[t].out]
    /\ thread' = [thread EXCEPT ![t].pc = "release"]
    /\ UNCHANGED <<config, served, flight, faults, seen>>

(* The leader and all who wait for the key go on with the flight's entry *)
Handed(t, k, e) ==
    thread' = [s \in Threads |->
        IF s = t \/ (thread[s].pc = "wait" /\ thread[s].key = k)
        THEN After(s, thread[s], e)
        ELSE thread[s]]

FlightKept(t) ==
    LET k == thread[t].key
        e == thread[t].out
    IN  /\ thread[t].pc = "release"
        /\ flight' = [flight EXCEPT ![k] = IF e = NoEntry THEN @ ELSE NoThread]
        /\ Handed(t, k, e)
        /\ UNCHANGED <<config, served, cache, faults, seen>>

ErrorToLeader(t) ==
    LET k == thread[t].key
        e == thread[t].out
    IN  /\ thread[t].pc = "release"
        /\ flight' = [flight EXCEPT ![k] = NoThread]
        /\ IF e = NoEntry
           THEN thread' = [thread EXCEPT ![t] = After(t, @, e)]
           ELSE Handed(t, k, e)
        /\ UNCHANGED <<config, served, cache, faults, seen>>

(* The flight ends: leader and waiters get the same entry or the same error *)
Release(t) ==
    LET k == thread[t].key
        e == thread[t].out
    IN  /\ thread[t].pc = "release"
        /\ flight' = [flight EXCEPT ![k] = NoThread]
        /\ Handed(t, k, e)
        /\ UNCHANGED <<config, served, cache, faults, seen>>

-----------------------------------------------------------------------------
(***************************************************************************)
(* The rest of the world.                                                  *)
(***************************************************************************)

(* freshUntil of the entry passes *)
Expire(k) ==
    /\ cache[k] # NoEntry /\ cache[k].live
    /\ cache' = [cache EXCEPT ![k].live = FALSE]
    /\ UNCHANGED <<config, served, flight, thread, faults, seen>>

(* The provider publishes a new version of the document at a URL *)
Publish(u) ==
    /\ served[u] < MaxVersion
    /\ served' = [served EXCEPT ![u] = @ + 1]
    /\ UNCHANGED <<config, cache, flight, thread, faults, seen>>

Init ==
    /\ asked \in {A \in SUBSET Requests : Cardinality(A) \in 1..MaxAsked}
    /\ fresh \in BOOLEAN
    /\ tolerant \in BOOLEAN
    /\ served = [u \in URLs |-> 1]
    /\ cache = [k \in Requests |-> NoEntry]
    /\ flight = [k \in Requests |-> NoThread]
    /\ thread = [t \in Threads |-> Idle]
    /\ faults = 0
    /\ seen = [k \in Requests |-> 0]

(* What a goroutine inside a call or a background refresh does by itself .. *)
Work(t) == Do(t) \/ Store(t) \/ Release(t) \/ Return(t)

(* .. and the end of a request it waits for *)
Network(t) == Answer(t) \/ Fault(t) \/ WebFinger(t) \/ Preload(t)

Next ==
    \/ \E t \in Callers : CallBad(t) \/ CallResource(t)
    \/ \E t \in Callers, k \in asked : Call(t, k)
    \/ \E t \in Threads : Work(t) \/ Network(t)
    \/ \E k \in Requests : Expire(k)
    \/ \E k \in asked : Publish(URL(k))

(* Goroutines run and time passes.  Nobody has to call, and nothing makes a
   request end: the default HTTP client has no timeout, and a background
   refresh no deadline *)
Fairness ==
    /\ \A t \in Threads : WF_vars(Work(t))
    /\ \A k \in Requests : WF_vars(Expire(k))

Spec == Init /\ [][Next]_vars /\ Fairness

-----------------------------------------------------------------------------
(***************************************************************************)
(* Properties.                                                             *)
(***************************************************************************)

PCs == {"idle", "webfinger", "refresh", "wait", "fetch", "store",
        "release", "preload", "return"}

(* Types; whoever leads a flight is working on its key
   (discovery_refresh.go, discoveryGroup.Do). *)
TypeOK ==
    /\ asked \subseteq Requests
    /\ fresh \in BOOLEAN /\ tolerant \in BOOLEAN
    /\ served \in [URLs -> 1..MaxVersion]
    /\ cache \in [Requests -> Entries \cup {NoEntry}]
    /\ flight \in [Requests -> Threads \cup {NoThread}]
    /\ \A t \in Threads :
        /\ thread[t].pc \in PCs
        /\ thread[t].key \in Requests \cup {<<>>}
        /\ thread[t].existing \in Entries \cup {NoEntry}
        /\ thread[t].out \in Entries \cup {NoEntry}
    /\ faults \in 0..MaxFaults
    /\ seen \in [Requests -> 0..MaxVersion]
    /\ \A k \in Requests : flight[k] # NoThread =>
        /\ thread[flight[k]].pc \in {"fetch", "store", "release"}
        /\ thread[flight[k]].key = k

(* The call returns a document *)
Returns(t) == thread[t].pc = "return" /\ thread[t].out # NoEntry

(* A document an RP may be configured from *)
Trusted(k, d) ==
    /\ d.issuer = k[2] \/ (tolerant /\ Bare[d.issuer] = Bare[k[2]])
    /\ k[1] = "provider" => /\ {"authorization_endpoint", "jwks_uri"}
                                   \cap d.missing = {}
                            /\ d.insecure = {}
    /\ {"authorization_endpoint", "jwks_uri", "token_endpoint"}
           \cap d.insecure = {}

(* Whatever an intermediary serves and whichever flight a call shared, what
   is cached for an issuer and what a call returns is that issuer's document
   with secure endpoints (validate.go, before discoveryCache.Set). *)
DocumentsTrusted ==
    /\ \A k \in Requests : cache[k] # NoEntry => Trusted(k, cache[k].doc)
    /\ \A t \in Callers :
        Returns(t) => Trusted(thread[t].key, thread[t].out.doc)

(* The metadata never goes back: a call returns no older version than any
   call for the issuer had returned when it began.  Late background refreshes
   hold old entries and old tags; it is the flight around fetch and Set that
   keeps a slow answer from replacing a newer one (discovery_refresh.go:26). *)
NeverOlder ==
    \A t \in Callers :
        Returns(t) => thread[t].out.doc.version >= thread[t].floor

(* A goroutine that waits in discoveryGroup.Do, where its own context does
   not reach it, has a flight to wait for: whatever ends a flight, the error
   of its leader too, hands everyone on who joined it. *)
WaitersHaveFlight ==
    \A t \in Threads :
        thread[t].pc = "wait" => flight[thread[t].key] # NoThread

Calls(k) == \E t \in Callers : Call(t, k)

(* What the code needs of the server and the network: whoever is at a request
   again and again, or for good, is answered again and again *)
ServerAnswers ==
    \A t \in Threads :
        []<>(thread[t].pc = "fetch") => []<><<Answer(t)>>_vars

(* The cache has the issuer's own document in the version it publishes; a
   slashed issuer has none that a strict client accepts *)
CaughtUp(k) ==
    \/ /\ cache[k] # NoEntry
       /\ cache[k].doc = Document(Bare[k[2]], Sound, served[URL(k)])
    \/ ~tolerant /\ k[2] \in Slashed

(* Stale documents, and those an intermediary slipped in, are served only for
   so long: as long as calls for an issuer keep coming and the server answers,
   each version it publishes last is cached, through the background refreshes
   (discovery.go:112) and conditional requests. *)
CacheCatchesUp ==
    \A k \in Requests :
        ServerAnswers /\ []<><<Calls(k)>>_vars => []<>CaughtUp(k)
=============================================================================
