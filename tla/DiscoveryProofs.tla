-------------------------- MODULE DiscoveryProofs ---------------------------
(***************************************************************************)
(* Proofs about the metadata client for any number of goroutines, issuers, *)
(* published versions and faults of the network.                           *)
(***************************************************************************)
EXTENDS Discovery, TLAPS

-----------------------------------------------------------------------------
(* The inductive invariant.  Its parts are stated for a cache c, flights f,  *)
(* published versions sv and a tolerance tol, so that a step's effect on one *)
(* of them can be followed.                                                  *)

EntryOrNone == Entries \cup {NoEntry}

ThreadState ==
    [pc : PCs, key : Requests \cup {<<>>}, existing : EntryOrNone,
     out : EntryOrNone, floor : 0..MaxVersion]

StateOK ==
    /\ asked \subseteq Requests
    /\ fresh \in BOOLEAN /\ tolerant \in BOOLEAN
    /\ served \in [URLs -> 1..MaxVersion]
    /\ cache \in [Requests -> EntryOrNone]
    /\ flight \in [Requests -> Threads \cup {NoThread}]
    /\ thread \in [Threads -> ThreadState]
    /\ faults \in 0..MaxFaults
    /\ seen \in [Requests -> 0..MaxVersion]

(* Document d may be used for k *)
Fit(tol, k, d) ==
    /\ d.issuer = k[2] \/ (tol /\ Bare[d.issuer] = Bare[k[2]])
    /\ k[1] = "provider" => /\ {"authorization_endpoint", "jwks_uri"}
                                   \cap d.missing = {}
                            /\ d.insecure = {}
    /\ {"authorization_endpoint", "jwks_uri", "token_endpoint"}
           \cap d.insecure = {}

(* Entry e holds a document fit for k that the server had published at k's
   URL, and its tag, if it has one, names that document *)
Earned(k, e, sv, tol) ==
    /\ k \in Requests
    /\ Fit(tol, k, e.doc)
    /\ e.etag \in {0, e.doc.version}
    /\ e.doc.version <= sv[URL(k)]

Working == {"refresh", "wait", "fetch", "store", "release", "preload"}
Leading == {"fetch", "store", "release"}

(* Goroutine t in state r: it knows the key it works on; if it fetches or
   stores it is the flight of the key; its entries are earned; the cache is
   at least as new as what it has to match and as what it is about to return,
   and no newer than what it is about to store *)
ThreadOK(t, r, c, f, sv, tol) ==
    /\ r.existing # NoEntry => Earned(r.key, r.existing, sv, tol)
    /\ r.out # NoEntry => Earned(r.key, r.out, sv, tol)
    /\ r.pc \in Working => r.key \in Requests
    /\ r.pc \in Leading => f[r.key] = t
    /\ r.key \in Requests => r.floor <= c[r.key].doc.version
    /\ r.pc \in {"preload", "return"} /\ r.out # NoEntry =>
           /\ r.floor <= r.out.doc.version
           /\ r.out.doc.version <= c[r.key].doc.version
    /\ r.pc = "store" =>
           r.out # NoEntry /\ c[r.key].doc.version <= r.out.doc.version
    /\ r.pc = "release" /\ r.out # NoEntry =>
           r.out.doc.version = c[r.key].doc.version

(* The cached documents are earned, and none is older than what a call for
   its key has returned *)
CacheOK(c, sv, tol, sn) ==
    \A k \in Requests : /\ c[k] # NoEntry => Earned(k, c[k], sv, tol)
                        /\ sn[k] <= c[k].doc.version

(* A flight there is, is one that its goroutine leads *)
FlightsLed(f, th) ==
    \A k \in Requests : f[k] # NoThread =>
        th[f[k]].pc \in Leading /\ th[f[k]].key = k

Inv ==
    /\ StateOK
    /\ CacheOK(cache, served, tolerant, seen)
    /\ FlightsLed(flight, thread)
    /\ \A t \in Threads : ThreadOK(t, thread[t], cache, flight, served, tolerant)

-----------------------------------------------------------------------------
(* Facts about documents and entries *)

(* A key is a kind and an issuer; its URL is one of those served. *)
LEMMA KeyFacts ==
    ASSUME NEW k \in Requests
    PROVE  /\ k[2] \in Issuers /\ Bare[k[2]] \in Issuers
           /\ Bare[Bare[k[2]]] = Bare[k[2]]
           /\ URL(k) \in URLs
           /\ k # <<>>
<1>1. k \in {"provider", "as"} \X Issuers
  BY DiscoveryConstants
<1>2. k[2] \in Issuers
  BY <1>1
<1>3. Bare[k[2]] \in Issuers \ Slashed
  BY <1>2, DiscoveryConstants
<1>4. Bare[Bare[k[2]]] = Bare[k[2]]
  BY <1>3, DiscoveryConstants
<1>5. k # <<>>
  BY <1>1
<1>6. URL(k) \in URLs
  BY DEF URLs
<1>7. QED
  BY <1>2, <1>3, <1>4, <1>5, <1>6

(* The absent entry has version 0 and no document has. *)
LEMMA NoEntryFacts ==
    /\ NoEntry.doc.version = 0
    /\ NoEntry \in EntryOrNone
BY DEF NoEntry, EntryOrNone

(* What is in an entry. *)
LEMMA EntryFacts ==
    ASSUME NEW e \in EntryOrNone
    PROVE  /\ e.doc.version \in 0..MaxVersion
           /\ e \in Entries => /\ e # NoEntry
                               /\ e.doc.version \in 1..MaxVersion
                               /\ e.doc \in Documents
                               /\ e.etag \in 0..MaxVersion
<1>1. ASSUME e \in Entries
      PROVE  /\ e.doc.version \in 1..MaxVersion
             /\ e.doc \in Documents
             /\ e.etag \in 0..MaxVersion
  <2>1. e.doc \in Documents /\ e.etag \in 0..MaxVersion
    BY <1>1 DEF Entries
  <2>2. \A d \in Documents : d.version \in 1..MaxVersion
    BY DEF Documents, Document
  <2>3. QED
    BY <2>1, <2>2
<1>2. MaxVersion \in Nat
  BY DiscoveryConstants
<1>3. CASE e \in Entries
  BY <1>1, <1>2, <1>3, NoEntryFacts
<1>4. CASE e \notin Entries
  <2>1. e = NoEntry
    BY <1>4 DEF EntryOrNone
  <2>2. e.doc.version = 0
    BY <2>1, NoEntryFacts
  <2>3. QED
    BY <1>2, <1>4, <2>2
<1>5. QED
  BY <1>3, <1>4

(* A document that passes validation for k is fit for k. *)
LEMMA ValidIsFit ==
    ASSUME NEW k \in Requests, NEW d, Valid(k, d)
    PROVE  Fit(tolerant, k, d)
BY DEF Valid, ValidateProvider, ValidateAuthorizationServer, IssuerMatches, Fit

(* The entry a fetched document makes is earned. *)
LEMMA NewEntryEarned ==
    ASSUME StateOK, NEW k \in Requests, NEW d \in Documents,
           d.version = served[URL(k)], NEW tag \in {0, d.version}
    PROVE  /\ NewEntry(k, d, tag) \in EntryOrNone
           /\ NewEntry(k, d, tag) # NoEntry =>
                /\ Earned(k, NewEntry(k, d, tag), served, tolerant)
                /\ NewEntry(k, d, tag).doc.version = served[URL(k)]
<1> DEFINE e == [doc |-> d, etag |-> tag, live |-> TRUE]
<1>1. CASE ~Valid(k, d)
  BY <1>1, NoEntryFacts DEF NewEntry
<1>2. CASE Valid(k, d)
  <2>1. NewEntry(k, d, tag) = e /\ e.doc = d /\ e.etag = tag
    BY <1>2 DEF NewEntry
  <2>2. d.version \in 1..MaxVersion
    BY KeyFacts DEF StateOK
  <2>3. e \in Entries
    <3>1. tag \in 0..MaxVersion
      BY <2>2, DiscoveryConstants
    <3>2. QED
      BY <3>1 DEF Entries
  <2>4. Fit(tolerant, k, d)
    BY <1>2, ValidIsFit
  <2> HIDE DEF e
  <2>5. Earned(k, e, served, tolerant)
    BY <2>1, <2>2, <2>4 DEF Earned
  <2>6. QED
    BY <2>1, <2>3, <2>5 DEF EntryOrNone
<1>3. QED
  BY <1>1, <1>2

-----------------------------------------------------------------------------
(* Steps of one goroutine *)

(* A goroutine that does nothing is in order. *)
LEMMA IdleOK ==
    /\ Idle \in ThreadState
    /\ \A t, c, f, sv, tol : ThreadOK(t, Idle, c, f, sv, tol)
<1>1. /\ Idle.pc = "idle" /\ Idle.key = <<>> /\ Idle.existing = NoEntry
      /\ Idle.out = NoEntry /\ Idle.floor = 0
  BY DEF Idle
<1>2. <<>> \notin Requests
  BY KeyFacts
<1>3. Idle \in ThreadState
  BY NoEntryFacts, DiscoveryConstants DEF Idle, ThreadState, PCs
<1>4. \A t, c, f, sv, tol : ThreadOK(t, Idle, c, f, sv, tol)
  BY <1>1, <1>2 DEF ThreadOK, Working, Leading
<1>5. QED
  BY <1>3, <1>4

(* A step of one goroutine that leaves cache and flights alone. *)
LEMMA OneThread ==
    ASSUME Inv, NEW t \in Threads, NEW r \in ThreadState,
           thread' = [thread EXCEPT ![t] = r],
           ThreadOK(t, r, cache, flight, served, tolerant),
           thread[t].pc \in Leading => r.pc \in Leading /\ r.key = thread[t].key,
           UNCHANGED <<config, served, cache, flight, seen>>,
           faults' \in 0..MaxFaults
    PROVE  Inv'
<1>0. thread \in [Threads -> ThreadState]
  BY DEF Inv, StateOK
<1>1. thread'[t] = r /\ \A s \in Threads : s # t => thread'[s] = thread[s]
  BY <1>0
<1>2. StateOK'
  BY <1>0 DEF Inv, StateOK, config
<1>3. CacheOK(cache', served', tolerant', seen')
  BY DEF Inv, config
<1>4. FlightsLed(flight', thread')
  <2> SUFFICES ASSUME NEW k \in Requests, flight[k] # NoThread
               PROVE  thread'[flight[k]].pc \in Leading /\ thread'[flight[k]].key = k
    BY DEF FlightsLed
  <2>1. thread[flight[k]].pc \in Leading /\ thread[flight[k]].key = k
    BY DEF Inv, FlightsLed
  <2>2. flight[k] \in Threads
    BY DEF Inv, StateOK
  <2>3. QED
    BY <1>1, <2>1, <2>2
<1>5. ASSUME NEW s \in Threads
      PROVE  ThreadOK(s, thread'[s], cache', flight', served', tolerant')
  <2>1. ThreadOK(s, thread'[s], cache, flight, served, tolerant)
    BY <1>1 DEF Inv
  <2>2. QED
    BY <2>1 DEF config
<1>6. QED
  BY <1>2, <1>3, <1>4, <1>5 DEF Inv

(* What a goroutine goes on with after discovery. *)
LEMMA AfterFacts ==
    ASSUME NEW s, NEW b \in ThreadState, NEW e \in EntryOrNone
    PROVE  /\ After(s, b, e) \in ThreadState
           /\ \/ After(s, b, e) = Idle
              \/ /\ After(s, b, e).pc \in {"preload", "return"}
                 /\ After(s, b, e).pc = "preload" => e # NoEntry
                 /\ After(s, b, e).key = b.key
                 /\ After(s, b, e).existing = NoEntry
                 /\ After(s, b, e).out = e
                 /\ After(s, b, e).floor = b.floor
<1>1. CASE s \in Refreshers
  BY <1>1, IdleOK DEF After
<1>2. CASE s \notin Refreshers
  <2> DEFINE pc == IF e # NoEntry /\ s \in Preloaders /\ b.key[1] = "provider"
                   THEN "preload" ELSE "return"
  <2>1. After(s, b, e) = [b EXCEPT !.existing = NoEntry, !.out = e, !.pc = pc]
    BY <1>2 DEF After
  <2>2. pc \in {"preload", "return"} /\ (pc = "preload" => e # NoEntry)
    OBVIOUS
  <2> HIDE DEF pc
  <2>3. QED
    BY <2>1, <2>2, NoEntryFacts DEF ThreadState, PCs
<1>3. QED
  BY <1>1, <1>2

(* A goroutine that was handed an entry which is as new as the cache, or an
   error, is in order. *)
LEMMA AfterOK ==
    ASSUME NEW s, NEW b \in ThreadState, NEW e \in EntryOrNone,
           NEW c, NEW f, NEW sv, NEW tol,
           b.key \in Requests, b.floor <= c[b.key].doc.version,
           e # NoEntry => /\ Earned(b.key, e, sv, tol)
                          /\ e.doc.version = c[b.key].doc.version
    PROVE  ThreadOK(s, After(s, b, e), c, f, sv, tol)
<1> DEFINE r == After(s, b, e)
<1>1. \/ r = Idle
      \/ /\ r.pc \in {"preload", "return"}
         /\ r.key = b.key
         /\ r.existing = NoEntry
         /\ r.out = e
         /\ r.floor = b.floor
  BY AfterFacts
<1> HIDE DEF r
<1>2. CASE r = Idle
  BY <1>2, IdleOK DEF r
<1>3. CASE /\ r.pc \in {"preload", "return"}
           /\ r.key = b.key
           /\ r.existing = NoEntry
           /\ r.out = e
           /\ r.floor = b.floor
  <2>1. r.pc \notin Leading /\ r.pc # "store" /\ r.pc # "release"
    BY <1>3 DEF Leading
  <2>2. e # NoEntry => e.doc.version <= c[b.key].doc.version
    <3>1. e.doc.version \in 0..MaxVersion
      BY EntryFacts
    <3>2. QED
      BY <3>1
  <2>3. ThreadOK(s, r, c, f, sv, tol)
    BY <1>3, <2>1, <2>2 DEF ThreadOK
  <2>4. QED
    BY <2>3 DEF r
<1>4. QED
  BY <1>1, <1>2, <1>3

(* Facts of every reachable state that the steps below need. *)
LEMMA Basics ==
    ASSUME Inv, NEW t \in Threads
    PROVE  /\ thread \in [Threads -> ThreadState]
           /\ thread[t] \in ThreadState
           /\ ThreadOK(t, thread[t], cache, flight, served, tolerant)
           /\ faults \in 0..MaxFaults
BY DEF Inv, StateOK

(* Preloading the key set keeps the invariant. *)
LEMMA PreloadStep ==
    ASSUME Inv, NEW t \in Threads, Preload(t)
    PROVE  Inv'
<1> DEFINE old == thread[t]
<1>1. PICK e \in {old.out, NoEntry} :
        thread' = [thread EXCEPT ![t] = [old EXCEPT !.pc = "return", !.out = e]]
  BY DEF Preload
<1>2. /\ old.pc = "preload"
      /\ UNCHANGED <<config, served, cache, flight, seen>> /\ UNCHANGED faults
  BY DEF Preload
<1>3. old \in ThreadState /\ ThreadOK(t, old, cache, flight, served, tolerant)
  BY Basics
<1> DEFINE r == [old EXCEPT !.pc = "return", !.out = e]
<1> HIDE DEF old
<1>4. /\ r \in ThreadState /\ r.pc = "return" /\ r.out = e /\ r.key = old.key
      /\ r.existing = old.existing /\ r.floor = old.floor
  BY <1>1, <1>3, NoEntryFacts DEF ThreadState, PCs
<1> HIDE DEF r
<1>5. ThreadOK(t, r, cache, flight, served, tolerant)
  BY <1>1, <1>2, <1>3, <1>4 DEF ThreadOK, Working, Leading
<1>6. thread' = [thread EXCEPT ![t] = r] /\ thread[t].pc \notin Leading
  BY <1>1, <1>2 DEF r, old, Leading
<1>7. faults' \in 0..MaxFaults
  BY <1>2, Basics
<1>8. QED
  BY <1>2, <1>4, <1>5, <1>6, <1>7, OneThread

(* Returning to the caller keeps the invariant: what a call returned is no
   newer than what is cached. *)
LEMMA ReturnStep ==
    ASSUME Inv, NEW t \in Threads, Return(t)
    PROVE  Inv'
<1> DEFINE k == thread[t].key
           v == thread[t].out.doc.version
<1>1. /\ thread[t].pc = "return"
      /\ thread' = [thread EXCEPT ![t] = Idle]
      /\ seen' = IF v = 0 \/ v < seen[k] THEN seen ELSE [seen EXCEPT ![k] = v]
      /\ UNCHANGED <<config, served, cache, flight, faults>>
  BY DEF Return
<1>2. /\ thread \in [Threads -> ThreadState]
      /\ thread[t] \in ThreadState
      /\ ThreadOK(t, thread[t], cache, flight, served, tolerant)
  BY Basics
<1>3. seen \in [Requests -> 0..MaxVersion]
  BY DEF Inv, StateOK
<1>4. v \in 0..MaxVersion /\ (v # 0 => thread[t].out # NoEntry)
  <2>1. thread[t].out \in EntryOrNone
    BY <1>2 DEF ThreadState
  <2>2. QED
    BY <2>1, EntryFacts, NoEntryFacts
<1>5. v # 0 => k \in Requests /\ v <= cache[k].doc.version
  BY <1>1, <1>2, <1>4 DEF ThreadOK, Earned
<1> HIDE DEF v, k
<1>6. /\ seen' \in [Requests -> 0..MaxVersion]
      /\ \A q \in Requests : seen'[q] = seen[q] \/ (q = k /\ v # 0 /\ seen'[q] = v)
  BY <1>1, <1>3, <1>4, <1>5
<1>7. StateOK'
  BY <1>1, <1>2, <1>6, IdleOK DEF Inv, StateOK, config
<1>8. CacheOK(cache', served', tolerant', seen')
  <2>1. CacheOK(cache, served, tolerant, seen)
    BY DEF Inv
  <2>2. CacheOK(cache, served, tolerant, seen')
    BY <1>5, <1>6, <2>1 DEF CacheOK
  <2>3. QED
    BY <1>1, <2>2 DEF config
<1>9. FlightsLed(flight', thread')
  <2>1. thread[t].pc \notin Leading
    BY <1>1 DEF Leading
  <2>2. FlightsLed(flight, thread) /\ flight \in [Requests -> Threads \cup {NoThread}]
    BY DEF Inv, StateOK
  <2>3. QED
    BY <1>1, <1>2, <2>1, <2>2 DEF FlightsLed
<1>10. ASSUME NEW s \in Threads
       PROVE  ThreadOK(s, thread'[s], cache', flight', served', tolerant')
  <2>1. thread'[s] = thread[s] \/ thread'[s] = Idle
    BY <1>1, <1>2
  <2>2. ThreadOK(s, thread[s], cache, flight, served, tolerant)
    BY Basics
  <2>3. ThreadOK(s, thread'[s], cache, flight, served, tolerant)
    BY <2>1, <2>2, IdleOK
  <2>4. QED
    BY <1>1, <2>3 DEF config
<1>11. QED
  BY <1>7, <1>8, <1>9, <1>10 DEF Inv

(* A goroutine that ends with an error keeps the invariant. *)
LEMMA RefusedStep ==
    ASSUME Inv, NEW t \in Threads, thread[t].pc \notin Leading, Refused(t),
           UNCHANGED <<config, served, cache, flight, faults, seen>>
    PROVE  Inv'
<1> DEFINE r == [Idle EXCEPT !.pc = "return"]
<1>1. /\ r \in ThreadState /\ r.pc = "return" /\ r.key = <<>>
      /\ r.existing = NoEntry /\ r.out = NoEntry
  BY NoEntryFacts, DiscoveryConstants DEF Idle, ThreadState, PCs
<1>2. <<>> \notin Requests
  BY KeyFacts
<1>3. thread' = [thread EXCEPT ![t] = r]
  BY DEF Refused
<1> HIDE DEF r
<1>4. ThreadOK(t, r, cache, flight, served, tolerant)
  BY <1>1, <1>2 DEF ThreadOK, Working, Leading
<1>5. faults' \in 0..MaxFaults
  BY Basics
<1>6. QED
  BY <1>1, <1>3, <1>4, <1>5, OneThread

(* A goroutine that starts to refresh key k is in order. *)
LEMMA BeginOK ==
    ASSUME Inv, NEW t, NEW k \in Requests, NEW n \in {0, seen[k]}
    PROVE  LET begun == [Idle EXCEPT !.key = k, !.existing = cache[k], !.floor = n]
               wait  == [begun EXCEPT !.pc = "refresh"]
           IN  /\ begun \in ThreadState /\ begun.key = k /\ begun.floor = n
               /\ begun.floor <= cache[k].doc.version
               /\ wait \in ThreadState /\ wait.pc = "refresh" /\ wait.key = k
               /\ ThreadOK(t, wait, cache, flight, served, tolerant)
<1> DEFINE begun == [Idle EXCEPT !.key = k, !.existing = cache[k], !.floor = n]
           wait  == [begun EXCEPT !.pc = "refresh"]
<1>1. cache[k] \in EntryOrNone /\ n \in 0..MaxVersion /\ seen[k] \in 0..MaxVersion
  BY DiscoveryConstants DEF Inv, StateOK
<1>2. begun \in ThreadState /\ begun.key = k /\ begun.floor = n
  BY <1>1, NoEntryFacts DEF Idle, ThreadState, PCs
<1>3. /\ wait \in ThreadState /\ wait.pc = "refresh" /\ wait.key = k
      /\ wait.existing = cache[k] /\ wait.out = NoEntry /\ wait.floor = n
  BY <1>1, NoEntryFacts DEF Idle, ThreadState, PCs
<1>4. n <= cache[k].doc.version
  <2>1. cache[k].doc.version \in 0..MaxVersion
    BY <1>1, EntryFacts
  <2>2. seen[k] <= cache[k].doc.version
    BY DEF Inv, CacheOK
  <2>3. QED
    BY <1>1, <2>1, <2>2
<1>5. cache[k] # NoEntry => Earned(k, cache[k], served, tolerant)
  BY DEF Inv, CacheOK
<1> HIDE DEF begun, wait
<1>6. ThreadOK(t, wait, cache, flight, served, tolerant)
  BY <1>3, <1>4, <1>5 DEF ThreadOK, Working, Leading
<1>7. QED
  BY <1>2, <1>3, <1>4, <1>6 DEF begun, wait

(* Goroutines that lead no flight may change at once. *)
LEMMA ManyThreads ==
    ASSUME Inv, NEW th \in [Threads -> ThreadState], thread' = th,
           \A s \in Threads :
               \/ th[s] = thread[s]
               \/ /\ thread[s].pc \notin Leading
                  /\ ThreadOK(s, th[s], cache, flight, served, tolerant),
           UNCHANGED <<config, served, cache, flight, faults, seen>>
    PROVE  Inv'
<1>1. StateOK'
  BY DEF Inv, StateOK, config
<1>2. CacheOK(cache', served', tolerant', seen')
  BY DEF Inv, config
<1>3. FlightsLed(flight', thread')
  <2>1. FlightsLed(flight, thread) /\ flight \in [Requests -> Threads \cup {NoThread}]
    BY DEF Inv, StateOK
  <2>2. FlightsLed(flight, th)
    BY <2>1 DEF FlightsLed
  <2>3. QED
    BY <2>2
<1>4. ASSUME NEW s \in Threads
      PROVE  ThreadOK(s, thread'[s], cache', flight', served', tolerant')
  <2>1. ThreadOK(s, thread[s], cache, flight, served, tolerant)
    BY DEF Inv
  <2>2. ThreadOK(s, th[s], cache, flight, served, tolerant)
    BY <2>1
  <2>3. QED
    BY <2>2 DEF config
<1>5. QED
  BY <1>1, <1>2, <1>3, <1>4 DEF Inv

(* Looking into the cache keeps the invariant. *)
LEMMA DiscoverStep ==
    ASSUME Inv, NEW t \in Threads, NEW k \in Requests,
           thread[t].pc \notin Leading, Discover(t, k),
           UNCHANGED <<config, served, cache, flight, faults, seen>>
    PROVE  Inv'
<1> DEFINE e     == cache[k]
           begun == [Idle EXCEPT !.key = k, !.existing = e, !.floor = seen[k]]
           wait  == [begun EXCEPT !.pc = "refresh"]
           after == After(t, begun, e)
           quiet == [wait EXCEPT !.floor = 0]
<1>1. thread \in [Threads -> ThreadState] /\ faults' \in 0..MaxFaults
  BY Basics
<1>2. e \in EntryOrNone /\ (e # NoEntry => Earned(k, e, served, tolerant))
  BY DEF Inv, StateOK, CacheOK
<1>3. wait \in ThreadState /\ ThreadOK(t, wait, cache, flight, served, tolerant)
  BY BeginOK
<1>4. after \in ThreadState /\ ThreadOK(t, after, cache, flight, served, tolerant)
  <2>1. /\ begun \in ThreadState /\ begun.key = k
        /\ begun.floor <= cache[k].doc.version
    BY BeginOK
  <2> HIDE DEF begun
  <2>2. QED
    BY <1>2, <2>1, AfterFacts, AfterOK
<1>5. quiet \in ThreadState
      /\ \A r : ThreadOK(r, quiet, cache, flight, served, tolerant)
  <2>1. quiet = [[Idle EXCEPT !.key = k, !.existing = e, !.floor = 0]
                   EXCEPT !.pc = "refresh"]
    BY DEF Idle
  <2>2. QED
    BY <2>1, BeginOK
<1>6. \/ thread' = [thread EXCEPT ![t] = wait]
      \/ thread' = [thread EXCEPT ![t] = after]
      \/ \E r \in Refreshers :
           /\ thread[r] = Idle
           /\ thread' = [thread EXCEPT ![t] = after, ![r] = quiet]
  BY DEF Discover
<1> HIDE DEF wait, after, quiet
<1>7. CASE thread' = [thread EXCEPT ![t] = wait]
  BY <1>1, <1>3, <1>7, OneThread
<1>8. CASE thread' = [thread EXCEPT ![t] = after]
  BY <1>1, <1>4, <1>8, OneThread
<1>9. ASSUME NEW r \in Refreshers, thread[r] = Idle,
             thread' = [thread EXCEPT ![t] = after, ![r] = quiet]
      PROVE  Inv'
  <2> DEFINE th == [[thread EXCEPT ![t] = after] EXCEPT ![r] = quiet]
  <2>1. r \in Threads /\ thread[r].pc \notin Leading
    BY <1>9 DEF Threads, Idle, Leading
  <2>2. thread' = th
    BY <1>1, <1>9
  <2>3. th \in [Threads -> ThreadState]
    BY <1>1, <1>4, <1>5
  <2>4. \A s \in Threads : \/ th[s] = thread[s]
                           \/ s = t /\ th[s] = after
                           \/ s = r /\ th[s] = quiet
    BY <1>1, <2>1
  <2> HIDE DEF th
  <2>5. QED
    BY <1>4, <1>5, <2>1, <2>2, <2>3, <2>4, ManyThreads
<1>10. QED
  BY <1>6, <1>7, <1>8, <1>9

(* Starting a call keeps the invariant. *)
LEMMA CallStep ==
    ASSUME Inv, NEW t \in Threads,
           \/ \E k \in asked : Call(t, k)
           \/ CallBad(t) \/ CallResource(t) \/ WebFinger(t)
    PROVE  Inv'
<1>0. Idle.pc = "idle" /\ asked \subseteq Requests
  BY DEF Idle, Inv, StateOK
<1>1. ASSUME NEW k \in asked, Call(t, k) PROVE Inv'
  BY <1>0, <1>1, DiscoverStep DEF Call, Leading
<1>2. CASE CallBad(t)
  BY <1>0, <1>2, RefusedStep DEF CallBad, Leading
<1>3. CASE CallResource(t)
  <2> DEFINE r == [Idle EXCEPT !.pc = "webfinger"]
  <2>1. /\ r \in ThreadState /\ r.pc = "webfinger" /\ r.key = <<>>
        /\ r.existing = NoEntry /\ r.out = NoEntry
    BY NoEntryFacts, DiscoveryConstants DEF Idle, ThreadState, PCs
  <2>2. thread[t] = Idle /\ thread' = [thread EXCEPT ![t] = r]
    BY <1>3 DEF CallResource
  <2> HIDE DEF r
  <2>3. ThreadOK(t, r, cache, flight, served, tolerant)
    BY <2>1, KeyFacts DEF ThreadOK, Working, Leading
  <2>4. QED
    BY <1>0, <1>3, <2>1, <2>2, <2>3, Basics, OneThread DEF CallResource, Leading
<1>4. CASE WebFinger(t)
  BY <1>0, <1>4, DiscoverStep, RefusedStep DEF WebFinger, Leading
<1>5. QED
  BY <1>1, <1>2, <1>3, <1>4

-----------------------------------------------------------------------------
(* The flight of a key *)

(* A goroutine with a new flight or none at all: it joins the key's flight or
   starts it. *)
LEMMA DoStep ==
    ASSUME Inv, NEW t \in Threads, Do(t)
    PROVE  Inv'
<1> DEFINE old == thread[t]
           k == old.key
           lead == [old EXCEPT !.pc = "fetch"]
           join == [old EXCEPT !.pc = "wait", !.existing = NoEntry]
<1>0. /\ old.pc = "refresh"
      /\ UNCHANGED <<config, served, cache, faults, seen>>
      /\ \/ /\ flight[k] = NoThread
            /\ flight' = [flight EXCEPT ![k] = t]
            /\ thread' = [thread EXCEPT ![t] = lead]
         \/ /\ thread' = [thread EXCEPT ![t] = join]
            /\ flight' = flight
  BY DEF Do
<1>1. /\ thread \in [Threads -> ThreadState] /\ old \in ThreadState
      /\ ThreadOK(t, old, cache, flight, served, tolerant)
      /\ faults \in 0..MaxFaults
  BY Basics
<1>2. k \in Requests /\ old.pc \notin Leading
  BY <1>0, <1>1 DEF ThreadOK, Working, Leading
<1>3. /\ lead \in ThreadState /\ lead.pc = "fetch" /\ lead.key = k
      /\ lead.existing = old.existing /\ lead.out = old.out
      /\ lead.floor = old.floor
  BY <1>1 DEF ThreadState, PCs
<1>4. /\ join \in ThreadState /\ join.pc = "wait" /\ join.key = k
      /\ join.existing = NoEntry /\ join.out = old.out
      /\ join.floor = old.floor
  BY <1>1, NoEntryFacts DEF ThreadState, PCs
<1>50. old = thread[t]
  OBVIOUS
<1> HIDE DEF old, lead, join
<1>5. CASE thread' = [thread EXCEPT ![t] = join] /\ flight' = flight
  <2>1. ThreadOK(t, join, cache, flight, served, tolerant)
    BY <1>1, <1>2, <1>4 DEF ThreadOK, Working, Leading
  <2>2. thread[t].pc \notin Leading
    BY <1>2, <1>50
  <2>3. QED
    BY <1>0, <1>1, <1>4, <1>5, <2>1, <2>2, OneThread
<1>6. CASE /\ flight[k] = NoThread
           /\ flight' = [flight EXCEPT ![k] = t]
           /\ thread' = [thread EXCEPT ![t] = lead]
  <2>1. flight \in [Requests -> Threads \cup {NoThread}]
    BY DEF Inv, StateOK
  <2>2. /\ flight'[k] = t
        /\ \A q \in Requests : q # k => flight'[q] = flight[q]
        /\ flight' \in [Requests -> Threads \cup {NoThread}]
    BY <1>2, <1>6, <2>1
  <2>3. /\ thread'[t] = lead
        /\ \A s \in Threads : s # t => thread'[s] = thread[s]
        /\ thread' \in [Threads -> ThreadState]
    BY <1>1, <1>3, <1>6
  <2>4. StateOK'
    BY <1>0, <2>2, <2>3 DEF Inv, StateOK, config
  <2>5. CacheOK(cache', served', tolerant', seen')
    BY <1>0 DEF Inv, config
  <2>6. FlightsLed(flight', thread')
    <3> SUFFICES ASSUME NEW q \in Requests, flight'[q] # NoThread
                 PROVE  /\ thread'[flight'[q]].pc \in Leading
                        /\ thread'[flight'[q]].key = q
      BY DEF FlightsLed
    <3>1. CASE q = k
      BY <1>3, <2>2, <2>3, <3>1 DEF Leading
    <3>2. CASE q # k
      <4>1. flight'[q] = flight[q] /\ flight[q] \in Threads
        BY <2>1, <2>2, <3>2
      <4>2. thread[flight[q]].pc \in Leading /\ thread[flight[q]].key = q
        BY <4>1 DEF Inv, FlightsLed
      <4>3. flight[q] # t
        BY <1>2, <1>50, <4>2
      <4>4. QED
        BY <2>3, <4>1, <4>2, <4>3
    <3>3. QED
      BY <3>1, <3>2
  <2>7. ASSUME NEW s \in Threads
        PROVE  ThreadOK(s, thread'[s], cache', flight', served', tolerant')
    <3>1. CASE s = t
      <4>1. ThreadOK(t, lead, cache, flight', served, tolerant)
        BY <1>1, <1>2, <1>3, <2>2 DEF ThreadOK, Working, Leading
      <4>2. QED
        BY <1>0, <2>3, <3>1, <4>1 DEF config
    <3>2. CASE s # t
      <4>1. ThreadOK(s, thread[s], cache, flight, served, tolerant)
        BY Basics
      <4>2. s # NoThread
        BY DiscoveryConstants DEF Threads, NoThread
      <4>3. thread[s].pc \in Leading => thread[s].key \in Requests \ {k}
        BY <1>6, <4>1, <4>2 DEF ThreadOK, Working, Leading
      <4>4. ThreadOK(s, thread[s], cache, flight', served, tolerant)
        BY <2>2, <4>1, <4>3 DEF ThreadOK
      <4>5. QED
        BY <1>0, <2>3, <3>2, <4>4 DEF config
    <3>3. QED
      BY <3>1, <3>2
  <2>8. QED
    BY <2>4, <2>5, <2>6, <2>7 DEF Inv
<1>7. QED
  BY <1>0, <1>5, <1>6

(* A fetch that ends with an entry as new as the server's, or with none. *)
LEMMA GoesStep ==
    ASSUME Inv, NEW t \in Threads, thread[t].pc = "fetch",
           NEW e \in EntryOrNone,
           e # NoEntry => /\ Earned(thread[t].key, e, served, tolerant)
                          /\ e.doc.version = served[URL(thread[t].key)],
           NEW pc, pc = (IF e = NoEntry THEN "release" ELSE "store"),
           Goes(t, pc, e),
           UNCHANGED <<config, served, cache, flight, seen>>,
           faults' \in 0..MaxFaults
    PROVE  Inv'
<1> DEFINE old == thread[t]
           r == [old EXCEPT !.pc = pc, !.out = e, !.existing = NoEntry]
<1>1. old \in ThreadState /\ ThreadOK(t, old, cache, flight, served, tolerant)
  BY Basics
<1>2. pc \in {"release", "store"} /\ (pc = "store" => e # NoEntry)
      /\ (pc = "release" => e = NoEntry)
  OBVIOUS
<1>3. /\ r \in ThreadState /\ r.pc = pc /\ r.key = old.key /\ r.out = e
      /\ r.existing = NoEntry /\ r.floor = old.floor
  BY <1>1, <1>2, NoEntryFacts DEF ThreadState, PCs
<1>4. thread' = [thread EXCEPT ![t] = r]
  BY DEF Goes
<1>5. old.pc = "fetch" /\ (e # NoEntry => /\ Earned(old.key, e, served, tolerant)
                                          /\ e.doc.version = served[URL(old.key)])
  OBVIOUS
<1>50. old = thread[t]
  OBVIOUS
<1> HIDE DEF old, r
<1>6. old.key \in Requests /\ flight[old.key] = t
  BY <1>1, <1>5 DEF ThreadOK, Working, Leading
<1>7. cache[old.key].doc.version <= served[URL(old.key)]
  <2>1. cache[old.key] \in EntryOrNone
        /\ served[URL(old.key)] \in 1..MaxVersion
    BY <1>6, KeyFacts DEF Inv, StateOK
  <2>2. CASE cache[old.key] = NoEntry
    BY <2>1, <2>2, NoEntryFacts, DiscoveryConstants
  <2>3. CASE cache[old.key] # NoEntry
    BY <1>6, <2>3 DEF Inv, CacheOK, Earned
  <2>4. QED
    BY <2>2, <2>3
<1>8. ThreadOK(t, r, cache, flight, served, tolerant)
  BY <1>1, <1>2, <1>3, <1>5, <1>6, <1>7 DEF ThreadOK, Leading
<1>9. r.pc \in Leading /\ r.key = thread[t].key
  BY <1>2, <1>3, <1>50 DEF Leading
<1>10. QED
  BY <1>3, <1>4, <1>8, <1>9, OneThread

(* The server's answer: the document, or the word that the tag's document is
   still the published one. *)
LEMMA AnswerStep ==
    ASSUME Inv, NEW t \in Threads, Answer(t)
    PROVE  Inv'
<1> DEFINE k == thread[t].key
           e == thread[t].existing
           v == served[URL(k)]
           d == Document(Bare[k[2]], Sound, v)
           n == NewEntry(k, d, v)
           m == RefreshExisting(e, v)
<1>1. /\ thread[t].pc = "fetch"
      /\ \/ e # NoEntry /\ e.etag = v /\ Goes(t, "store", m)
         \/ Goes(t, IF n = NoEntry THEN "release" ELSE "store", n)
      /\ UNCHANGED <<config, served, cache, flight, seen>>
      /\ faults' \in 0..MaxFaults
  BY Basics DEF Answer
<1>2. thread[t] \in ThreadState /\ ThreadOK(t, thread[t], cache, flight, served, tolerant)
  BY Basics
<1>3. k \in Requests
  BY <1>1, <1>2 DEF ThreadOK, Working
<1>4. v \in 1..MaxVersion /\ StateOK
  BY <1>3, KeyFacts DEF Inv, StateOK
<1>5. CASE e # NoEntry /\ e.etag = v /\ Goes(t, "store", m)
  <2>1. e \in Entries /\ Earned(k, e, served, tolerant)
    BY <1>2, <1>5 DEF ThreadOK, ThreadState, EntryOrNone
  <2>2. m \in Entries /\ m.doc = e.doc /\ m.etag = v
    <3>1. v \in 0..MaxVersion
      BY <1>4, DiscoveryConstants
    <3>2. QED
      BY <2>1, <3>1 DEF RefreshExisting, Entries
  <2>3. m \in EntryOrNone /\ m # NoEntry
    BY <2>2, EntryFacts DEF EntryOrNone
  <2>4. Earned(k, m, served, tolerant) /\ m.doc.version = v
    BY <1>4, <1>5, <2>1, <2>2 DEF Earned
  <2> HIDE DEF m
  <2>5. QED
    BY <1>1, <1>5, <2>3, <2>4, GoesStep
<1>6. CASE Goes(t, IF n = NoEntry THEN "release" ELSE "store", n)
  <2>1. d \in Documents /\ d.version = v
    BY <1>3, <1>4, KeyFacts DEF Documents, Document
  <2> HIDE DEF d
  <2>2. n \in EntryOrNone
        /\ (n # NoEntry => Earned(k, n, served, tolerant) /\ n.doc.version = v)
    BY <1>3, <1>4, <2>1, NewEntryEarned
  <2> HIDE DEF n
  <2>3. QED
    BY <1>1, <1>6, <2>2, GoesStep
<1>7. QED
  BY <1>1, <1>5, <1>6

(* A request that fails, or is answered with another document. *)
LEMMA FaultStep ==
    ASSUME Inv, NEW t \in Threads, Fault(t)
    PROVE  Inv'
<1> DEFINE k == thread[t].key
           v == served[URL(k)]
<1>1. /\ thread[t].pc = "fetch"
      /\ UNCHANGED <<config, served, cache, flight, seen>>
      /\ faults < MaxFaults /\ faults' = faults + 1
  BY DEF Fault
<1>2. faults' \in 0..MaxFaults
  BY <1>1, Basics, DiscoveryConstants
<1>3. thread[t] \in ThreadState /\ ThreadOK(t, thread[t], cache, flight, served, tolerant)
  BY Basics
<1>4. k \in Requests
  BY <1>1, <1>3 DEF ThreadOK, Working
<1>5. v \in 1..MaxVersion /\ StateOK
  BY <1>4, KeyFacts DEF Inv, StateOK
<1>6. CASE Goes(t, "release", NoEntry)
  BY <1>1, <1>2, <1>6, NoEntryFacts, GoesStep
<1>7. ASSUME NEW m \in Misserved,
             LET n == NewEntry(k, Document(m.issuer, m, v), 0)
             IN  Goes(t, IF n = NoEntry THEN "release" ELSE "store", n)
      PROVE  Inv'
  <2> DEFINE d == Document(m.issuer, m, v)
             n == NewEntry(k, d, 0)
  <2>0. Goes(t, IF n = NoEntry THEN "release" ELSE "store", n)
    BY <1>7
  <2>1. d \in Documents /\ d.version = v
    <3> DEFINE x == [missing |-> m.missing, insecure |-> m.insecure]
    <3>1. x \in Defects /\ m.issuer \in Issuers
      BY DiscoveryConstants DEF Defects
    <3>2. d = Document(m.issuer, x, v)
      BY DEF Document
    <3> HIDE DEF x
    <3>3. d \in Documents
      BY <1>5, <3>1, <3>2 DEF Documents
    <3>4. QED
      BY <3>3 DEF Document
  <2> HIDE DEF d
  <2>2. n \in EntryOrNone
        /\ (n # NoEntry => Earned(k, n, served, tolerant) /\ n.doc.version = v)
    BY <1>4, <1>5, <2>1, NewEntryEarned
  <2> HIDE DEF n
  <2>3. QED
    BY <1>1, <1>2, <2>0, <2>2, GoesStep
<1>8. QED
  BY <1>6, <1>7 DEF Fault

(* Storing keeps the invariant: only the flight of the key stores, and what it
   stores is no older than what is there. *)
LEMMA StoreStep ==
    ASSUME Inv, NEW t \in Threads, Store(t)
    PROVE  Inv'
<1> DEFINE old == thread[t]
           k == old.key
           e == old.out
           r == [old EXCEPT !.pc = "release"]
<1>0. /\ old.pc = "store"
      /\ cache' = [cache EXCEPT ![k] = e]
      /\ thread' = [thread EXCEPT ![t] = r]
      /\ UNCHANGED <<config, served, flight, faults, seen>>
  BY DEF Store
<1>1. /\ thread \in [Threads -> ThreadState] /\ old \in ThreadState
      /\ ThreadOK(t, old, cache, flight, served, tolerant)
  BY Basics
<1>2. /\ k \in Requests /\ flight[k] = t
      /\ e # NoEntry /\ Earned(k, e, served, tolerant)
      /\ cache[k].doc.version <= e.doc.version
  BY <1>0, <1>1 DEF ThreadOK, Working, Leading
<1>3. e \in EntryOrNone
  BY <1>1 DEF ThreadState
<1>4. /\ r \in ThreadState /\ r.pc = "release" /\ r.key = k /\ r.out = e
      /\ r.existing = old.existing /\ r.floor = old.floor
  BY <1>1 DEF ThreadState, PCs
<1>50. old = thread[t] /\ k = old.key /\ e = old.out
  OBVIOUS
<1> HIDE DEF old, k, e, r
<1>5. cache \in [Requests -> EntryOrNone]
  BY DEF Inv, StateOK
<1>6. /\ cache' \in [Requests -> EntryOrNone]
      /\ cache'[k] = e
      /\ \A q \in Requests : q # k => cache'[q] = cache[q]
  BY <1>0, <1>2, <1>3, <1>5
<1>7. \A q \in Requests :
        /\ cache[q].doc.version \in Nat /\ cache'[q].doc.version \in Nat
        /\ cache[q].doc.version <= cache'[q].doc.version
  <2>1. \A q \in Requests : cache[q].doc.version \in Nat /\ cache'[q].doc.version \in Nat
    BY <1>5, <1>6, EntryFacts
  <2>2. QED
    BY <1>2, <1>6, <2>1
<1>8. /\ thread'[t] = r
      /\ \A s \in Threads : s # t => thread'[s] = thread[s]
      /\ thread' \in [Threads -> ThreadState]
  BY <1>0, <1>1, <1>4
<1>9. StateOK'
  BY <1>0, <1>6, <1>8 DEF Inv, StateOK, config
<1>10. CacheOK(cache', served', tolerant', seen')
  <2>1. CacheOK(cache, served, tolerant, seen) /\ seen \in [Requests -> 0..MaxVersion]
    BY DEF Inv, StateOK
  <2>2. \A q \in Requests : seen[q] <= cache'[q].doc.version
    <3>1. \A q \in Requests : seen[q] <= cache[q].doc.version /\ seen[q] \in Nat
      BY <2>1 DEF CacheOK
    <3>2. QED
      BY <1>7, <3>1
  <2>3. CacheOK(cache', served, tolerant, seen)
    BY <1>2, <1>6, <2>1, <2>2 DEF CacheOK
  <2>4. QED
    BY <1>0, <2>3 DEF config
<1>11. FlightsLed(flight', thread')
  <2>1. FlightsLed(flight, thread) /\ flight \in [Requests -> Threads \cup {NoThread}]
    BY DEF Inv, StateOK
  <2>2. r.pc \in Leading /\ r.key = thread[t].key
    BY <1>4, <1>50 DEF Leading
  <2>3. QED
    BY <1>0, <1>8, <2>1, <2>2 DEF FlightsLed
<1>12. ASSUME NEW s \in Threads
       PROVE  ThreadOK(s, thread'[s], cache', flight', served', tolerant')
  <2>1. CASE s = t
    <3>1. r.floor <= cache'[k].doc.version
      <4>1. r.floor \in Nat /\ r.floor <= cache[k].doc.version
        BY <1>1, <1>2, <1>4, <1>50 DEF ThreadOK, ThreadState
      <4>2. QED
        BY <1>2, <1>7, <4>1
    <3>2. ThreadOK(t, r, cache', flight, served, tolerant)
      BY <1>1, <1>2, <1>4, <1>6, <1>50, <3>1 DEF ThreadOK
    <3>3. QED
      BY <1>0, <1>8, <2>1, <3>2 DEF config
  <2>2. CASE s # t
    <3> DEFINE q == thread[s]
    <3>1. q \in ThreadState /\ ThreadOK(s, q, cache, flight, served, tolerant)
      BY Basics
    <3> HIDE DEF q
    <3>2. q.key \in Requests => q.floor <= cache'[q.key].doc.version
      <4>1. q.floor \in Nat /\ (q.key \in Requests => q.floor <= cache[q.key].doc.version)
        BY <3>1 DEF ThreadOK, ThreadState
      <4>2. QED
        BY <1>7, <4>1
    <3>3. q.pc \in {"preload", "return"} /\ q.out # NoEntry =>
            q.out.doc.version <= cache'[q.key].doc.version
      <4>1. q.out.doc.version \in Nat
        BY <3>1, EntryFacts DEF ThreadState
      <4>2. q.pc \in {"preload", "return"} /\ q.out # NoEntry =>
              /\ q.key \in Requests
              /\ q.out.doc.version <= cache[q.key].doc.version
        BY <3>1 DEF ThreadOK, Earned
      <4>3. QED
        BY <1>7, <4>1, <4>2
    <3>4. q.pc \in Leading => cache'[q.key] = cache[q.key]
      <4>1. q.pc \in Leading => q.key \in Requests /\ flight[q.key] = s
        BY <3>1 DEF ThreadOK, Working, Leading
      <4>2. QED
        BY <1>2, <1>6, <2>2, <4>1
    <3>5. ThreadOK(s, q, cache', flight, served, tolerant)
      BY <3>1, <3>2, <3>3, <3>4 DEF ThreadOK, Leading
    <3>6. QED
      BY <1>0, <1>8, <2>2, <3>5 DEF config, q
  <2>3. QED
    BY <2>1, <2>2
<1>13. QED
  BY <1>9, <1>10, <1>11, <1>12 DEF Inv

(* The end of a flight keeps the invariant: whoever waited for it goes on with
   an entry that is as new as the cache. *)
LEMMA ReleaseStep ==
    ASSUME Inv, NEW t \in Threads, Release(t)
    PROVE  Inv'
<1> DEFINE k == thread[t].key
           e == thread[t].out
<1>0. /\ thread[t].pc = "release"
      /\ flight' = [flight EXCEPT ![k] = NoThread]
      /\ thread' = [s \in Threads |->
            IF s = t \/ (thread[s].pc = "wait" /\ thread[s].key = k)
            THEN After(s, thread[s], e) ELSE thread[s]]
      /\ UNCHANGED <<config, served, cache, faults, seen>>
  BY DEF Release, Handed
<1>1. /\ thread \in [Threads -> ThreadState] /\ thread[t] \in ThreadState
      /\ ThreadOK(t, thread[t], cache, flight, served, tolerant)
  BY Basics
<1>2. /\ k \in Requests /\ flight[k] = t /\ e \in EntryOrNone
      /\ e # NoEntry => /\ Earned(k, e, served, tolerant)
                        /\ e.doc.version = cache[k].doc.version
  BY <1>0, <1>1 DEF ThreadOK, Working, Leading, ThreadState
<1>3. k = thread[t].key
  OBVIOUS
<1> HIDE DEF k, e
<1>4. flight \in [Requests -> Threads \cup {NoThread}]
  BY DEF Inv, StateOK
<1>5. /\ flight'[k] = NoThread
      /\ \A q \in Requests : q # k => flight'[q] = flight[q]
      /\ flight' \in [Requests -> Threads \cup {NoThread}]
  BY <1>0, <1>2, <1>4
<1>6. ASSUME NEW s \in Threads
      PROVE  /\ thread'[s] \in ThreadState
             /\ \/ thread'[s] = thread[s] /\ s # t
                \/ /\ thread[s].pc \notin Leading \/ s = t
                   /\ ThreadOK(s, thread'[s], cache, flight', served, tolerant)
  <2>0. thread[s] \in ThreadState /\ ThreadOK(s, thread[s], cache, flight, served, tolerant)
    BY Basics
  <2>1. CASE s = t \/ (thread[s].pc = "wait" /\ thread[s].key = k)
    <3>1. thread'[s] = After(s, thread[s], e)
      BY <1>0, <2>1
    <3>2. thread[s].key = k /\ (thread[s].pc \notin Leading \/ s = t)
      BY <1>3, <2>1 DEF Leading
    <3>3. thread[s].floor <= cache[k].doc.version
      BY <1>2, <2>0, <3>2 DEF ThreadOK
    <3>4. After(s, thread[s], e) \in ThreadState
      BY <1>2, <2>0, AfterFacts
    <3>5. ThreadOK(s, After(s, thread[s], e), cache, flight', served, tolerant)
      BY <1>2, <2>0, <3>2, <3>3, AfterOK
    <3>6. QED
      BY <3>1, <3>2, <3>4, <3>5
  <2>2. CASE ~(s = t \/ (thread[s].pc = "wait" /\ thread[s].key = k))
    BY <1>0, <2>0, <2>2
  <2>3. QED
    BY <2>1, <2>2
<1>7. thread' \in [Threads -> ThreadState]
  BY <1>0, <1>6
<1>8. StateOK'
  BY <1>0, <1>5, <1>7 DEF Inv, StateOK, config
<1>9. CacheOK(cache', served', tolerant', seen')
  BY <1>0 DEF Inv, config
<1>10. FlightsLed(flight', thread')
  <2> SUFFICES ASSUME NEW q \in Requests, flight'[q] # NoThread
               PROVE  /\ thread'[flight'[q]].pc \in Leading
                      /\ thread'[flight'[q]].key = q
    BY DEF FlightsLed
  <2>1. q # k /\ flight'[q] = flight[q] /\ flight[q] \in Threads
    BY <1>4, <1>5
  <2>2. thread[flight[q]].pc \in Leading /\ thread[flight[q]].key = q
    BY <2>1 DEF Inv, FlightsLed
  <2>3. flight[q] # t
    BY <1>3, <2>1, <2>2
  <2>4. thread'[flight[q]] = thread[flight[q]]
    BY <1>6, <2>1, <2>2, <2>3
  <2>5. QED
    BY <2>1, <2>2, <2>4
<1>11. ASSUME NEW s \in Threads
       PROVE  ThreadOK(s, thread'[s], cache', flight', served', tolerant')
  <2>1. CASE thread'[s] = thread[s] /\ s # t
    <3>1. ThreadOK(s, thread[s], cache, flight, served, tolerant)
      BY Basics
    <3>2. thread[s].pc \in Leading => flight'[thread[s].key] = s
      <4>1. thread[s].pc \in Leading =>
              thread[s].key \in Requests /\ flight[thread[s].key] = s
        BY <3>1 DEF ThreadOK, Working, Leading
      <4>2. QED
        BY <1>2, <1>5, <2>1, <4>1
    <3>3. ThreadOK(s, thread[s], cache, flight', served, tolerant)
      BY <3>1, <3>2 DEF ThreadOK
    <3>4. QED
      BY <1>0, <2>1, <3>3 DEF config
  <2>2. CASE ThreadOK(s, thread'[s], cache, flight', served, tolerant)
    BY <1>0, <2>2 DEF config
  <2>3. QED
    BY <1>6, <2>1, <2>2
<1>12. QED
  BY <1>8, <1>9, <1>10, <1>11 DEF Inv

(* An entry that goes stale keeps its document. *)
LEMMA ExpireStep ==
    ASSUME Inv, NEW k \in Requests, Expire(k)
    PROVE  Inv'
<1> DEFINE e == [cache[k] EXCEPT !.live = FALSE]
<1>0. /\ cache[k] # NoEntry
      /\ cache' = [cache EXCEPT ![k] = e]
      /\ UNCHANGED <<config, served, flight, thread, faults, seen>>
  BY DEF Expire
<1>1. cache \in [Requests -> EntryOrNone] /\ cache[k] \in Entries
  BY <1>0 DEF Inv, StateOK, EntryOrNone
<1>2. e \in Entries /\ e.doc = cache[k].doc /\ e.etag = cache[k].etag
  BY <1>1 DEF Entries
<1> HIDE DEF e
<1>3. /\ cache' \in [Requests -> EntryOrNone]
      /\ \A q \in Requests : \/ cache'[q] = cache[q]
                             \/ q = k /\ cache'[q] = e
  BY <1>0, <1>1, <1>2 DEF EntryOrNone
<1>4. \A q \in Requests : cache'[q].doc = cache[q].doc
  BY <1>2, <1>3
<1>5. StateOK'
  BY <1>0, <1>3 DEF Inv, StateOK, config
<1>6. CacheOK(cache', served', tolerant', seen')
  <2>1. CacheOK(cache, served, tolerant, seen)
    BY DEF Inv
  <2>2. Earned(k, e, served, tolerant)
    BY <1>0, <1>2, <2>1 DEF CacheOK, Earned
  <2>3. CacheOK(cache', served, tolerant, seen)
    BY <1>3, <1>4, <2>1, <2>2 DEF CacheOK
  <2>4. QED
    BY <1>0, <2>3 DEF config
<1>7. ASSUME NEW s \in Threads
      PROVE  ThreadOK(s, thread'[s], cache', flight', served', tolerant')
  <2> DEFINE r == thread[s]
  <2>1. ThreadOK(s, r, cache, flight, served, tolerant)
    BY Basics
  <2>2. r.out # NoEntry \/ r.pc = "store" => r.key \in Requests
    BY <2>1 DEF ThreadOK, Earned, Working
  <2> HIDE DEF r
  <2>3. ThreadOK(s, r, cache', flight, served, tolerant)
    BY <1>4, <2>1, <2>2 DEF ThreadOK
  <2>4. QED
    BY <1>0, <2>3 DEF config, r
<1>8. QED
  BY <1>0, <1>5, <1>6, <1>7 DEF Inv

(* A publication makes nothing that was earned unearned. *)
LEMMA PublishStep ==
    ASSUME Inv, NEW u \in URLs, Publish(u)
    PROVE  Inv'
<1>0. /\ served[u] < MaxVersion
      /\ served' = [served EXCEPT ![u] = served[u] + 1]
      /\ UNCHANGED <<config, cache, flight, thread, faults, seen>>
  BY DEF Publish
<1>1. served \in [URLs -> 1..MaxVersion] /\ MaxVersion \in Nat
  BY DiscoveryConstants DEF Inv, StateOK
<1>2. /\ served' \in [URLs -> 1..MaxVersion]
      /\ \A w \in URLs : served[w] <= served'[w]
  BY <1>0, <1>1
<1>3. ASSUME NEW k, NEW e \in EntryOrNone, Earned(k, e, served, tolerant)
      PROVE  Earned(k, e, served', tolerant)
  <2>1. k \in Requests /\ URL(k) \in URLs
    BY <1>3, KeyFacts DEF Earned
  <2>2. /\ e.doc.version \in Nat
        /\ served[URL(k)] \in Nat /\ served'[URL(k)] \in Nat
        /\ served[URL(k)] <= served'[URL(k)]
    BY <1>1, <1>2, <2>1, EntryFacts
  <2>3. QED
    BY <1>3, <2>2 DEF Earned
<1>4. StateOK'
  BY <1>0, <1>2 DEF Inv, StateOK, config
<1>5. CacheOK(cache', served', tolerant', seen')
  <2>1. CacheOK(cache, served, tolerant, seen) /\ cache \in [Requests -> EntryOrNone]
    BY DEF Inv, StateOK
  <2>2. CacheOK(cache, served', tolerant, seen)
    BY <1>3, <2>1 DEF CacheOK
  <2>3. QED
    BY <1>0, <2>2 DEF config
<1>6. ASSUME NEW s \in Threads
      PROVE  ThreadOK(s, thread'[s], cache', flight', served', tolerant')
  <2> DEFINE r == thread[s]
  <2>1. r \in ThreadState /\ ThreadOK(s, r, cache, flight, served, tolerant)
    BY Basics
  <2> HIDE DEF r
  <2>2. r.existing \in EntryOrNone /\ r.out \in EntryOrNone
    BY <2>1 DEF ThreadState
  <2>3. ThreadOK(s, r, cache, flight, served', tolerant)
    BY <1>3, <2>1, <2>2 DEF ThreadOK
  <2>4. QED
    BY <1>0, <2>3 DEF config, r
<1>7. QED
  BY <1>0, <1>4, <1>5, <1>6 DEF Inv

-----------------------------------------------------------------------------
(* The theorems *)

(* Every reachable state satisfies the invariant. *)
LEMMA Invariant == Spec => []Inv
<1>1. Init => Inv
  <2> SUFFICES ASSUME Init PROVE Inv
    OBVIOUS
  <2>1. StateOK
    BY IdleOK, NoEntryFacts, DiscoveryConstants DEF Init, StateOK
  <2>2. CacheOK(cache, served, tolerant, seen)
    BY NoEntryFacts DEF Init, CacheOK
  <2>3. FlightsLed(flight, thread)
    BY DEF Init, FlightsLed
  <2>4. \A t \in Threads : ThreadOK(t, thread[t], cache, flight, served, tolerant)
    BY IdleOK DEF Init
  <2>5. QED
    BY <2>1, <2>2, <2>3, <2>4 DEF Inv
<1>2. Inv /\ [Next]_vars => Inv'
  <2> SUFFICES ASSUME Inv, [Next]_vars PROVE Inv'
    OBVIOUS
  <2>1. ASSUME NEW t \in Callers, CallBad(t) \/ CallResource(t) PROVE Inv'
    BY <2>1, CallStep DEF Threads
  <2>2. ASSUME NEW t \in Callers, NEW k \in asked, Call(t, k) PROVE Inv'
    BY <2>2, CallStep DEF Threads
  <2>3. ASSUME NEW t \in Threads, Work(t) \/ Network(t) PROVE Inv'
    BY <2>3, DoStep, AnswerStep, FaultStep, StoreStep, ReleaseStep, CallStep,
       PreloadStep, ReturnStep DEF Work, Network
  <2>4. ASSUME NEW k \in Requests, Expire(k) PROVE Inv'
    BY <2>4, ExpireStep
  <2>5. ASSUME NEW k \in asked, Publish(URL(k)) PROVE Inv'
    <3>1. URL(k) \in URLs
      BY KeyFacts DEF Inv, StateOK
    <3>2. QED
      BY <2>5, <3>1, PublishStep
  <2>6. CASE UNCHANGED vars
    BY <2>6 DEF vars, config, Inv, StateOK
  <2>7. QED
    BY <2>1, <2>2, <2>3, <2>4, <2>5, <2>6 DEF Next
<1>3. QED
  BY <1>1, <1>2, PTL DEF Spec

(* A step in which nobody begins to wait and no flight ends. *)
LEMMA WaitersKept ==
    ASSUME Inv, WaitersHaveFlight,
           \A s \in Threads : \/ thread'[s] = thread[s]
                             \/ thread'[s].pc # "wait",
           \A k : flight[k] # NoThread => flight'[k] # NoThread
    PROVE  WaitersHaveFlight'
BY DEF WaitersHaveFlight

(* Nobody goes on waiting who has the entry or the error. *)
LEMMA AfterNotWaiting ==
    ASSUME NEW t, NEW begun \in ThreadState, NEW e
    PROVE  After(t, begun, e).pc # "wait"
<1>1. Idle.pc # "wait"
  BY DEF Idle
<1> DEFINE pc == IF e # NoEntry /\ t \in Preloaders /\ begun.key[1] = "provider"
                 THEN "preload" ELSE "return"
           n == [begun EXCEPT !.existing = NoEntry, !.out = e, !.pc = pc]
<1>2. pc # "wait"
  OBVIOUS
<1> HIDE DEF pc
<1>3. n.pc = pc
  BY DEF ThreadState
<1> HIDE DEF n
<1>4. After(t, begun, e) = Idle \/ After(t, begun, e) = n
  BY DEF After, n, pc
<1>5. QED
  BY <1>1, <1>2, <1>3, <1>4

(* A call begins by looking into the cache, not by waiting. *)
LEMMA DiscoverNotWaiting ==
    ASSUME Inv, NEW t \in Threads, NEW k \in Requests, Discover(t, k)
    PROVE  \A s \in Threads : thread'[s] = thread[s] \/ thread'[s].pc # "wait"
<1> DEFINE e == cache[k]
           begun == [Idle EXCEPT !.key = k, !.existing = e, !.floor = seen[k]]
           wait == [begun EXCEPT !.pc = "refresh"]
           wait0 == [wait EXCEPT !.floor = 0]
           done == After(t, begun, e)
<1>1. thread \in [Threads -> ThreadState] /\ Idle \in ThreadState
  BY IdleOK DEF Inv, StateOK
<1>2. begun \in ThreadState
  BY <1>1 DEF Inv, StateOK, ThreadState
<1> HIDE DEF begun
<1>3. wait.pc = "refresh" /\ wait0.pc = "refresh"
  BY <1>2 DEF ThreadState
<1>4. done.pc # "wait"
  BY <1>2, AfterNotWaiting
<1>5. \/ thread' = [thread EXCEPT ![t] = wait]
      \/ thread' = [thread EXCEPT ![t] = done]
      \/ \E r \in Refreshers : thread' = [thread EXCEPT ![t] = done, ![r] = wait0]
  BY DEF Discover, begun
<1> HIDE DEF wait, wait0, done
<1>6. QED
  BY <1>1, <1>3, <1>4, <1>5

(* Every step keeps it. *)
LEMMA WaitersStep ==
    ASSUME Inv, WaitersHaveFlight, [Next]_vars
    PROVE  WaitersHaveFlight'
<1>0. /\ thread \in [Threads -> ThreadState]
      /\ flight \in [Requests -> Threads \cup {NoThread}]
      /\ asked \subseteq Requests
      /\ Idle.pc = "idle" /\ Idle \in ThreadState
  BY IdleOK DEF Inv, StateOK, Idle
<1>1. ASSUME NEW t \in Threads, NEW n, thread' = [thread EXCEPT ![t] = n],
             n.pc # "wait", flight' = flight
      PROVE  WaitersHaveFlight'
  <2>1. \A s \in Threads : thread'[s] = thread[s] \/ thread'[s].pc # "wait"
    BY <1>0, <1>1
  <2>2. QED
    BY <1>1, <2>1, WaitersKept
<1>2. ASSUME NEW t \in Threads, NEW k \in Requests, Discover(t, k), flight' = flight
      PROVE  WaitersHaveFlight'
  BY <1>2, DiscoverNotWaiting, WaitersKept
<1>3. ASSUME NEW t \in Threads, Refused(t), flight' = flight PROVE WaitersHaveFlight'
  <2> DEFINE n == [Idle EXCEPT !.pc = "return"]
  <2>1. n.pc = "return"
    BY <1>0 DEF Idle
  <2>2. thread' = [thread EXCEPT ![t] = n]
    BY <1>3 DEF Refused
  <2> HIDE DEF n
  <2>3. QED
    BY <1>1, <1>3, <2>1, <2>2
<1>4. ASSUME NEW t \in Threads, CallBad(t) \/ CallResource(t) \/ WebFinger(t)
      PROVE  WaitersHaveFlight'
  <2>1. flight' = flight
    BY <1>4 DEF CallBad, CallResource, WebFinger
  <2>2. CASE CallResource(t)
    <3> DEFINE n == [thread[t] EXCEPT !.pc = "webfinger"]
    <3>1. n.pc = "webfinger"
      BY <1>0 DEF ThreadState
    <3>2. thread' = [thread EXCEPT ![t] = n]
      BY <1>0, <2>2 DEF CallResource
    <3> HIDE DEF n
    <3>3. QED
      BY <1>1, <2>1, <3>1, <3>2
  <2>3. CASE CallBad(t) \/ WebFinger(t)
    BY <1>0, <1>2, <1>3, <2>1, <2>3 DEF CallBad, WebFinger
  <2>4. QED
    BY <1>4, <2>2, <2>3
<1>5. ASSUME NEW t \in Callers, NEW k \in asked, Call(t, k) PROVE WaitersHaveFlight'
  BY <1>0, <1>2, <1>5 DEF Call, Threads
<1>6. ASSUME NEW t \in Threads, Preload(t) \/ Return(t) \/ Store(t)
      PROVE  WaitersHaveFlight'
  <2>1. flight' = flight
    BY <1>6 DEF Preload, Return, Store
  <2>2. CASE Preload(t)
    <3>1. PICK e : thread' = [thread EXCEPT ![t] = [@ EXCEPT !.pc = "return", !.out = e]]
      BY <2>2 DEF Preload
    <3> DEFINE n == [thread[t] EXCEPT !.pc = "return", !.out = e]
    <3>2. n.pc = "return"
      BY <1>0 DEF ThreadState
    <3>3. thread' = [thread EXCEPT ![t] = n]
      BY <1>0, <3>1
    <3> HIDE DEF n
    <3>4. QED
      BY <1>1, <2>1, <3>2, <3>3
  <2>3. CASE Return(t)
    BY <1>0, <1>1, <2>1, <2>3 DEF Return
  <2>4. CASE Store(t)
    <3> DEFINE n == [thread[t] EXCEPT !.pc = "release"]
    <3>1. n.pc = "release"
      BY <1>0 DEF ThreadState
    <3>2. thread' = [thread EXCEPT ![t] = n]
      BY <1>0, <2>4 DEF Store
    <3> HIDE DEF n
    <3>3. QED
      BY <1>1, <2>1, <3>1, <3>2
  <2>5. QED
    BY <1>6, <2>2, <2>3, <2>4
<1>7. ASSUME NEW t \in Threads, Answer(t) \/ Fault(t) PROVE WaitersHaveFlight'
  <2>1. PICK pc, e : pc \in {"store", "release"} /\ Goes(t, pc, e)
    BY <1>7 DEF Answer, Fault
  <2> DEFINE n == [thread[t] EXCEPT !.pc = pc, !.out = e, !.existing = NoEntry]
  <2>2. n.pc = pc
    BY <1>0 DEF ThreadState
  <2>3. thread' = [thread EXCEPT ![t] = n]
    BY <1>0, <2>1 DEF Goes
  <2> HIDE DEF n
  <2>4. flight' = flight
    BY <1>7 DEF Answer, Fault
  <2>5. QED
    BY <1>1, <2>1, <2>2, <2>3, <2>4
<1>8. ASSUME NEW t \in Threads, Do(t) PROVE WaitersHaveFlight'
  <2> DEFINE k == thread[t].key
             lead == [thread[t] EXCEPT !.pc = "fetch"]
             join == [thread[t] EXCEPT !.pc = "wait", !.existing = NoEntry]
  <2>1. k \in Requests /\ t # NoThread
    BY <1>8, Basics, DiscoveryConstants DEF Do, ThreadOK, Working, Threads, NoThread
  <2>2. lead.pc = "fetch" /\ join.key = k
    BY <1>0 DEF ThreadState
  <2>3. CASE flight[k] = NoThread
    <3>1. flight' = [flight EXCEPT ![k] = t] /\ thread' = [thread EXCEPT ![t] = lead]
      BY <1>0, <1>8, <2>3 DEF Do
    <3> HIDE DEF lead
    <3>2. \A s \in Threads : thread'[s] = thread[s] \/ thread'[s].pc # "wait"
      BY <1>0, <2>2, <3>1
    <3>3. \A j : flight[j] # NoThread => flight'[j] # NoThread
      BY <1>0, <2>1, <2>3, <3>1
    <3>4. QED
      BY <3>2, <3>3, WaitersKept
  <2>4. CASE flight[k] # NoThread
    <3>1. flight' = flight /\ thread' = [thread EXCEPT ![t] = join]
      BY <1>0, <1>8, <2>4 DEF Do
    <3> HIDE DEF join
    <3>2. \A s \in Threads : thread'[s] = IF s = t THEN join ELSE thread[s]
      BY <1>0, <3>1
    <3>3. QED
      BY <2>2, <2>4, <3>1, <3>2 DEF WaitersHaveFlight
  <2>5. QED
    BY <2>3, <2>4
<1>9. ASSUME NEW t \in Threads, Release(t) PROVE WaitersHaveFlight'
  <2> DEFINE k == thread[t].key
             e == thread[t].out
  <2>1. flight' = [flight EXCEPT ![k] = NoThread] /\ Handed(t, k, e)
    BY <1>9 DEF Release
  <2> SUFFICES ASSUME NEW s \in Threads, thread'[s].pc = "wait"
               PROVE  flight'[thread'[s].key] # NoThread
    BY DEF WaitersHaveFlight
  <2>2. thread'[s] = IF s = t \/ (thread[s].pc = "wait" /\ thread[s].key = k)
                     THEN After(s, thread[s], e) ELSE thread[s]
    BY <2>1 DEF Handed
  <2>3. After(s, thread[s], e).pc # "wait"
    BY <1>0, AfterNotWaiting
  <2>4. thread'[s] = thread[s] /\ thread[s].key # k
    BY <2>2, <2>3
  <2>5. flight[thread[s].key] # NoThread /\ thread[s].key \in Requests
    BY <2>4, Basics DEF WaitersHaveFlight, ThreadOK, Working
  <2>6. QED
    BY <1>0, <2>1, <2>4, <2>5
<1>10. CASE \/ \E k \in Requests : Expire(k)
            \/ \E k \in asked : Publish(URL(k))
            \/ UNCHANGED vars
  BY <1>10, WaitersKept DEF Expire, Publish, vars
<1>11. ASSUME NEW t \in Threads, Work(t) \/ Network(t) PROVE WaitersHaveFlight'
  BY <1>4, <1>6, <1>7, <1>8, <1>9, <1>11 DEF Work, Network
<1>12. ASSUME NEW t \in Callers, CallBad(t) \/ CallResource(t) PROVE WaitersHaveFlight'
  BY <1>4, <1>12 DEF Threads
<1>13. QED
  BY <1>5, <1>10, <1>11, <1>12 DEF Next

(* Every reachable state is well typed, and a flight there is, is led by a
   goroutine that works on its key. *)
THEOREM TypeCorrect == Spec => []TypeOK
<1>1. Inv => TypeOK
  BY DEF Inv, StateOK, FlightsLed, TypeOK, ThreadState, EntryOrNone, Leading
<1>2. QED
  BY <1>1, Invariant, PTL

(* However flights are shared and whatever an intermediary serves, what is
   cached for an issuer and what a call returns is a document that was
   validated for that issuer. *)
THEOREM OnlyTrustedDocuments == Spec => []DocumentsTrusted
<1>1. Inv => DocumentsTrusted
  <2> SUFFICES ASSUME Inv PROVE DocumentsTrusted
    OBVIOUS
  <2>1. \A k, d : Fit(tolerant, k, d) => Trusted(k, d)
    BY DEF Fit, Trusted
  <2>2. \A k \in Requests : cache[k] # NoEntry => Fit(tolerant, k, cache[k].doc)
    BY DEF Inv, CacheOK, Earned
  <2>3. \A t \in Callers : thread[t].out # NoEntry =>
          Fit(tolerant, thread[t].key, thread[t].out.doc)
    BY DEF Inv, ThreadOK, Earned, Threads
  <2>4. QED
    BY <2>1, <2>2, <2>3 DEF DocumentsTrusted, Returns
<1>2. QED
  BY <1>1, Invariant, PTL

(* The metadata a call returns is no older than what any earlier call for the
   issuer returned, for any interleaving of callers, background refreshes,
   slow answers and publications. *)
THEOREM MetadataNeverOlder == Spec => []NeverOlder
<1>1. Inv => NeverOlder
  <2> SUFFICES ASSUME Inv, NEW t \in Callers, Returns(t)
               PROVE  thread[t].out.doc.version >= thread[t].floor
    BY DEF NeverOlder
  <2>1. t \in Threads
    BY DEF Threads
  <2>2. /\ thread[t].floor <= thread[t].out.doc.version
        /\ thread[t] \in ThreadState
    BY <2>1, Basics DEF ThreadOK, Returns
  <2>3. thread[t].out.doc.version \in Nat /\ thread[t].floor \in Nat
    BY <2>2, EntryFacts DEF ThreadState
  <2>4. QED
    BY <2>2, <2>3
<1>2. QED
  BY <1>1, Invariant, PTL

(* A goroutine in discoveryGroup.Do always has a flight under way to wait for,
   and by TypeCorrect that flight has a leader: what keeps a call from
   returning can only be a request that never ends. *)
THEOREM NobodyWaitsInVain == Spec => []WaitersHaveFlight
<1>1. Init => WaitersHaveFlight
  BY DEF Init, WaitersHaveFlight, Idle
<1>2. Inv /\ WaitersHaveFlight /\ [Next]_vars => WaitersHaveFlight'
  BY WaitersStep
<1>3. QED
  BY <1>1, <1>2, Invariant, PTL DEF Spec
=============================================================================
