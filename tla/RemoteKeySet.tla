---------------------------- MODULE RemoteKeySet ----------------------------
(***************************************************************************)
(* jwks/remote_keyset.go and its use in rp/idtoken.go: the key set of one  *)
(* jwks_uri, cached for every validation of an RP.                         *)
(*                                                                         *)
(* The cache is shared (metadata.Client hands it to every RemoteKeySet it  *)
(* builds) while the singleflight group belongs to one RemoteKeySet, and   *)
(* rp builds one per validation: which callers share an instance is the    *)
(* constant InstanceOf.  Cache entries are shared by pointer and           *)
(* markRefreshAttempt writes through the pointer, so they live in a heap.  *)
(* A caller, a background refresh and a fetch are steps that interleave.   *)
(*                                                                         *)
(* Data: the server publishes key set versions 1, 2, ..; version v holds   *)
(* the keys KeysOf(v) and has entity tag v (0: no tag).  Time is relative: *)
(* an entry counts the time it stays fresh down and the time since its     *)
(* last refresh attempt up, to the largest value that matters.             *)
(***************************************************************************)
EXTENDS Naturals, FiniteSets

CONSTANTS
  Callers,      \* goroutines inside Key, or in an ID token validation
  Instances,    \* RemoteKeySet values that share the cache
  InstanceOf,   \* InstanceOf[c]: the RemoteKeySet caller c uses
  Fallback,     \* callers are validateIDTokenAs, which retries without cache
  MaxVersion,   \* bound on key rotations
  Overlap,      \* versions a key stays published after its successor
  Tagging,      \* whether answers carry an ETag
  Lifetimes,    \* how long an answer is fresh, expiryDelta deducted
  MinGap,       \* minRefreshInterval
  MaxSpawned,   \* bound: background refreshes waiting for the scheduler
  Pool,         \* bound: addresses of cache entries alive at a time
  Nil           \* the nil pointer

ASSUME KeySetAssumption ==
  /\ InstanceOf \in [Callers -> Instances]
  /\ Fallback \in BOOLEAN
  /\ MaxVersion \in Nat \ {0}
  /\ Overlap \in Nat
  /\ Tagging \subseteq BOOLEAN
  /\ Lifetimes \subseteq Nat
  /\ MinGap \in Nat
  /\ MaxSpawned \in Nat
  /\ Nil \notin Pool

VARIABLES
  published,    \* the version the server publishes
  heap,         \* heap[e]: the CacheEntry at address e
  cache,        \* the address the cache holds for the jwks_uri, or Nil
  flight,       \* flight[i]: the singleflight call of instance i
  spawned,      \* background refreshes not yet scheduled: <<instance, entry>>
  caller        \* caller[c]: progress of the call of goroutine c

keysVars == <<published, heap, cache, flight, spawned, caller>>

Versions == 1..MaxVersion
KeysOf(v) == {k \in Versions : k <= v /\ v <= k + Overlap}
Addresses == Pool \cup {Nil}

CacheEntry ==
  [keys : Versions, etag : Versions \cup {0}, left : Nat, since : 0..MinGap]
\* An address not in use.  since = MinGap: a zero lastRefreshAttempt, or one
\* at least minRefreshInterval ago.
FreeEntry == [keys |-> 1, etag |-> 0, left |-> 0, since |-> MinGap]

\* What a successful fetch brought: the version, and whether by a 304.
NoAnswer == [status |-> "none", version |-> 1, etag |-> 0]
Answers ==
  [status : {"none", "ok", "notModified"},
   version : Versions, etag : Versions \cup {0}]
IdleFlight == [pc |-> "idle", existing |-> Nil, answer |-> NoAnswer]

\* owed: the wanted key was published all the time since the call began, and
\* no fetch the call waited for has failed.
Calling ==
  {"keys", "cold", "coldWait", "missing", "mark", "refresh", "wait",
   "fresh", "freshAgain"}
CallerState ==
  [pc : Calling \cup {"idle", "failed"}, kid : Versions, entry : Addresses,
   owed : BOOLEAN]

\* Before a call, and after one that found its key.
NoCall ==
  [pc |-> "idle", kid |-> 1, entry |-> Nil, owed |-> FALSE]

NewRemoteKeySet ==
  /\ published = 1
  /\ heap = [e \in Pool |-> FreeEntry]
  /\ cache = Nil
  /\ flight = [i \in Instances |-> IdleFlight]
  /\ spawned = {}
  /\ caller = [c \in Callers |-> NoCall]

-----------------------------------------------------------------------------
(* The server and the clock *)

Rotate ==
  /\ published < MaxVersion
  /\ published' = published + 1
  /\ caller' = [c \in Callers |->
                  IF caller[c].kid \in KeysOf(published + 1) THEN caller[c]
                  ELSE [caller[c] EXCEPT !.owed = FALSE]]
  /\ UNCHANGED <<heap, cache, flight, spawned>>

Older(n) == IF n < MinGap THEN n + 1 ELSE n

Tick ==
  /\ heap' = [e \in Pool |->
                [heap[e] EXCEPT !.left = IF @ > 0 THEN @ - 1 ELSE 0,
                                !.since = Older(@)]]
  /\ UNCHANGED <<published, cache, flight, spawned, caller>>

-----------------------------------------------------------------------------
(* Addresses *)

\* Entries a goroutine or the cache still refers to; the rest is garbage.
Reachable ==
  {cache} \cup {flight[i].existing : i \in Instances}
    \cup {s[2] : s \in spawned} \cup {caller[c].entry : c \in Callers}

Garbage == Pool \ Reachable

\* The heap h after a step that may have dropped the last reference to an entry.
Collect(h) == [e \in Pool |-> IF e \in Reachable' THEN h[e] ELSE FreeEntry]

-----------------------------------------------------------------------------
(* refresh *)

\* group.Do of instance i with the caller's existing entry: it starts a fetch
\* when none is in flight and waits for the running one otherwise, whose own
\* existing entry then counts.
StartFlight(i, existing) ==
  flight' = IF flight[i].pc = "idle"
            THEN [flight EXCEPT ![i] = [pc |-> "sent", existing |-> existing,
                                        answer |-> NoAnswer]]
            ELSE flight

\* The tag sent as If-None-Match.
PriorETag(i) ==
  IF flight[i].existing = Nil THEN 0 ELSE heap[flight[i].existing].etag

\* The server answers: 304 when the tag is the one it publishes, otherwise the
\* key set, with or without a tag of its own.
fetchJWKS(i) ==
  /\ flight[i].pc = "sent"
  /\ \E tag \in {IF t THEN published ELSE 0 : t \in Tagging} :
       flight' = [flight EXCEPT ![i] =
                    [pc |-> "answered", existing |-> @.existing,
                     answer |-> [status |-> IF PriorETag(i) = published
                                            THEN "notModified" ELSE "ok",
                                 version |-> published, etag |-> tag]]]
  /\ UNCHANGED <<published, heap, cache, spawned, caller>>

\* Mutant: the keys of a 200 answer are dropped when an entry exists.
refreshedEntry_OldKeys(a, existing, left) ==
  LET old == IF existing = Nil THEN FreeEntry ELSE heap[existing]
  IN [keys |-> IF existing = Nil THEN a.version ELSE old.keys,
      etag |-> IF a.etag = 0 THEN old.etag ELSE a.etag,
      left |-> left, since |-> old.since]

\* The entry refresh stores for answer a: after a 304 the keys of the existing
\* entry, and its tag unless the answer names one.  The time of the last
\* attempt is what the existing entry holds by now.
refreshedEntry(a, existing, left) ==
  LET old == IF existing = Nil THEN FreeEntry ELSE heap[existing]
  IN [keys |-> IF a.status = "notModified" THEN old.keys ELSE a.version,
      etag |-> IF a.status = "notModified" /\ a.etag = 0 THEN old.etag ELSE a.etag,
      left |-> left,
      since |-> old.since]

\* A call that did not find its key: an ID token validation tries again.
Missed == IF Fallback THEN "fresh" ELSE "failed"

\* findKey in the keys of version v; a call that does not find its key goes on
\* at pc.
findKey(c, v, pc) ==
  IF caller[c].kid \in KeysOf(v) THEN NoCall ELSE [caller[c] EXCEPT !.pc = pc]

\* How a caller goes on when the fetch it waited for brought keys of version
\* v: Key has another attempt after Keys, and none after its own refresh.
AfterRefresh(c, v) ==
  findKey(c, v, IF caller[c].pc = "coldWait" THEN "missing" ELSE Missed)

Waiting(c, i) == InstanceOf[c] = i /\ caller[c].pc \in {"coldWait", "wait"}

\* Mutant: waiting calls are not told of a failure.
refreshFails_NoWakeup(i) ==
  /\ flight[i].pc = "sent"
  /\ flight' = [flight EXCEPT ![i] = IdleFlight]
  /\ UNCHANGED <<published, cache, spawned, caller>>
  /\ heap' = Collect(heap)

\* The fetch fails (no connection, a timeout, the context of the leading call
\* cancelled, a status other than 200 and 304, a body that does not decode),
\* and with it every call that waits on it.
refreshFails(i) ==
  /\ flight[i].pc = "sent"
  /\ flight' = [flight EXCEPT ![i] = IdleFlight]
  /\ caller' = [c \in Callers |->
                  IF Waiting(c, i)
                  THEN [caller[c] EXCEPT !.pc = Missed, !.owed = FALSE]
                  ELSE caller[c]]
  /\ UNCHANGED <<published, cache, spawned>>
  /\ heap' = Collect(heap)

\* The new entry replaces whatever the cache holds by now, and everyone who
\* waits on this flight gets it.
refresh(i) ==
  LET e == CHOOSE f \in Garbage : TRUE
  IN /\ flight[i].pc = "answered"
     /\ Garbage # {}
     /\ \E left \in Lifetimes :
          LET entry == refreshedEntry(flight[i].answer, flight[i].existing, left)
          IN /\ cache' = e
             /\ caller' = [c \in Callers |-> IF Waiting(c, i)
                                             THEN AfterRefresh(c, entry.keys)
                                             ELSE caller[c]]
             /\ flight' = [flight EXCEPT ![i] = IdleFlight]
             /\ UNCHANGED <<published, spawned>>
             /\ heap' = Collect([heap EXCEPT ![e] = entry])

-----------------------------------------------------------------------------
(* Key and Keys *)

MoveTo(c, pc) == caller' = [caller EXCEPT ![c] = [@ EXCEPT !.pc = pc]]

Call(c, k) ==
  /\ caller[c].pc \in {"idle", "failed"}
  /\ caller' = [caller EXCEPT ![c] =
                  [pc |-> "keys", kid |-> k, entry |-> Nil,
                   owed |-> k \in KeysOf(published)]]
  /\ UNCHANGED <<published, heap, cache, flight, spawned>>

\* Mutant: a stale entry starts no refresh.
Keys_NoRefresh(c) ==
  /\ caller[c].pc = "keys"
  /\ cache # Nil
  /\ caller' = [caller EXCEPT ![c] = findKey(c, heap[cache].keys, "missing")]
  /\ UNCHANGED <<published, heap, cache, flight, spawned>>

\* Keys with an entry in the cache: the keys are returned at once, and a
\* background refresh is started when they are no longer fresh.
Keys(c) ==
  /\ caller[c].pc = "keys"
  /\ cache # Nil
  /\ spawned' = IF heap[cache].left > 0 THEN spawned
                ELSE spawned \cup {<<InstanceOf[c], cache>>}
  /\ Cardinality(spawned') <= MaxSpawned
  /\ caller' = [caller EXCEPT ![c] = findKey(c, heap[cache].keys, "missing")]
  /\ UNCHANGED <<published, heap, cache, flight>>

KeysMiss(c) ==
  /\ caller[c].pc = "keys"
  /\ cache = Nil
  /\ MoveTo(c, "cold")
  /\ UNCHANGED <<published, heap, cache, flight, spawned>>

\* The goroutine Keys started; nobody waits for its result.
BackgroundRefresh(s) ==
  /\ s \in spawned
  /\ spawned' = spawned \ {s}
  /\ StartFlight(s[1], s[2])
  /\ UNCHANGED <<published, cache, caller>>
  /\ heap' = Collect(heap)

\* Mutant: a call that comes too early is not retried without the cache.
UnknownKid_NoRetry(c) ==
  /\ caller[c].pc = "missing"
  /\ caller' = [caller EXCEPT ![c] = [@ EXCEPT
                  !.entry = IF heap[cache].since < MinGap THEN Nil ELSE cache,
                  !.pc = IF heap[cache].since < MinGap THEN "failed" ELSE "mark"]]
  /\ UNCHANGED <<published, heap, cache, flight, spawned>>

\* Key did not find the kid: cachedEntry, and the test of markRefreshAttempt.
UnknownKid(c) ==
  /\ caller[c].pc = "missing"
  /\ caller' = [caller EXCEPT ![c] = [@ EXCEPT
                  !.entry = IF heap[cache].since < MinGap THEN Nil ELSE cache,
                  !.pc = IF heap[cache].since < MinGap THEN Missed ELSE "mark"]]
  /\ UNCHANGED <<published, heap, cache, flight, spawned>>

\* markRefreshAttempt writes the time into the entry it tested and puts that
\* entry, whatever happened to the cache in between, back into the cache.
markRefreshAttempt(c) ==
  /\ caller[c].pc = "mark"
  /\ cache' = caller[c].entry
  /\ MoveTo(c, "refresh")
  /\ UNCHANGED <<published, flight, spawned>>
  /\ heap' = Collect([heap EXCEPT ![caller[c].entry] = [@ EXCEPT !.since = 0]])

\* The blocking refresh of Keys (without an entry) and of Key.
Refresh(c) ==
  /\ caller[c].pc \in {"cold", "refresh"}
  /\ StartFlight(InstanceOf[c], caller[c].entry)
  /\ caller' = [caller EXCEPT ![c] = [@ EXCEPT
                  !.pc = IF caller[c].pc = "cold" THEN "coldWait" ELSE "wait",
                  !.entry = Nil]]
  /\ UNCHANGED <<published, cache, spawned>>
  /\ heap' = Collect(heap)

-----------------------------------------------------------------------------
(* The second attempt of validateIDTokenAs: a RemoteKeySet with a cache of   *)
(* its own and no minimum interval, so Key fetches, and fetches once more    *)
(* when the kid is still unknown.                                            *)

FreshKeys(c) ==
  /\ caller[c].pc = "fresh"
  /\ caller' = [caller EXCEPT ![c] = findKey(c, published, "freshAgain")]
  /\ UNCHANGED <<published, heap, cache, flight, spawned>>

FreshKey(c) ==
  /\ caller[c].pc = "freshAgain"
  /\ caller' = [caller EXCEPT ![c] = findKey(c, published, "failed")]
  /\ UNCHANGED <<published, heap, cache, flight, spawned>>

FreshFails(c) ==
  /\ caller[c].pc \in {"fresh", "freshAgain"}
  /\ caller' = [caller EXCEPT ![c] = [@ EXCEPT !.pc = "failed", !.owed = FALSE]]
  /\ UNCHANGED <<published, heap, cache, flight, spawned>>

-----------------------------------------------------------------------------
\* What a caller does by itself; the rest is up to the network.
Step(c) ==
  \/ Keys(c) \/ KeysMiss(c) \/ UnknownKid(c) \/ markRefreshAttempt(c) \/ Refresh(c)

KeysNext ==
  \/ Rotate
  \/ Tick
  \/ \E i \in Instances :
       fetchJWKS(i) \/ refresh(i) \/ refreshFails(i)
  \/ \E s \in spawned : BackgroundRefresh(s)
  \/ \E c \in Callers :
       \/ \E k \in Versions : Call(c, k)
       \/ Step(c) \/ FreshKeys(c) \/ FreshKey(c) \/ FreshFails(c)

KeysSpec == NewRemoteKeySet /\ [][KeysNext]_keysVars

\* Goroutines are scheduled and time passes.  Nothing makes a fetch end: the
\* default HTTP client has no timeout, and a background refresh no deadline.
Fairness ==
  /\ WF_keysVars(Tick)
  /\ \A i \in Instances :
       /\ WF_keysVars(refresh(i))
       /\ \A e \in Pool : WF_keysVars(BackgroundRefresh(<<i, e>>))
  /\ \A c \in Callers : WF_keysVars(Step(c))

LiveSpec == KeysSpec /\ Fairness

-----------------------------------------------------------------------------
(* Properties *)

\* A tag in the cache, or in the hands of a goroutine, names the keys stored
\* with it: a late refresh that starts from an entry long replaced never gets
\* a 304 that confirms other keys than the server publishes.
TagNamesKeys ==
  \A e \in Reachable \ {Nil} : heap[e].etag \in {0, heap[e].keys}

\* Every variable has its type, and every entry in use is well formed.
KeysTypeOK ==
  /\ published \in Versions
  /\ heap \in [Pool -> CacheEntry]
  /\ cache \in Addresses
  /\ flight \in [Instances -> [pc : {"idle", "sent", "answered"},
                               existing : Addresses, answer : Answers]]
  /\ spawned \subseteq Instances \X Pool
  /\ caller \in [Callers -> CallerState]
  /\ TagNamesKeys

\* An ID token signed with a key that the server publishes throughout the
\* validation is refused for its key only when a fetch failed, however the
\* cache was stale, rate-limited, shared with a late fetch or overwritten.
PublishedKeyIsFound ==
  \A c \in Callers : ~ (caller[c].pc = "failed" /\ caller[c].owed)

\* A call that waits has a fetch to wait for: every way a flight can end, the
\* cancellation of the call that leads it too, sends on everyone who joined it.
WaitersHaveFlight ==
  \A c \in Callers : caller[c].pc \in {"coldWait", "wait"} =>
    flight[InstanceOf[c]].pc # "idle"

\* What the code needs of the server and the network: a fetch that is under way
\* again and again, or for good, is answered again and again.
ServerAnswers ==
  \A i \in Instances :
    []<>(flight[i].pc = "sent") => []<><<fetchJWKS(i)>>_keysVars

\* While callers keep coming and the server answers, the cache gets to the
\* published keys again and again: a late answer, or an old entry that
\* markRefreshAttempt puts back, is replaced once it is stale.  (Not for good:
\* markRefreshAttempt may put an old entry back after every success.)
CacheCatchesUp ==
  ServerAnswers /\ []<><<\E c \in Callers : Keys(c) \/ KeysMiss(c)>>_keysVars
    => []<>(cache # Nil /\ heap[cache].keys = published)
=============================================================================
