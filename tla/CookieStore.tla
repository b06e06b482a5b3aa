----------------------------- MODULE CookieStore ----------------------------
(***************************************************************************)
(* rp/store/cookie/store.go: the state store whose contents are a session  *)
(* cookie.  Nothing is kept at the server: a request carries the cookie    *)
(* the browser had when it was sent, the operations of its handler work on *)
(* that copy, and the response puts the result into the jar, or is lost.   *)
(*                                                                         *)
(* Data: a saved correlation or value is the number of its save, as in     *)
(* MemoryStore.  A second is Second clock ticks and the payload keeps      *)
(* whole seconds.  What counts against the 4096 bytes of a cookie is the   *)
(* number of states and values in it.  The session is cached in the        *)
(* request, so several operations of one handler see one another.  The     *)
(* load operations change nothing and have no action.                      *)
(***************************************************************************)
EXTENDS Naturals, FiniteSets

CONSTANTS
  States,
  Names,
  Browsers,
  Tabs,         \* requests a browser may have in flight
  BrowserOf,
  Second,       \* clock ticks in a second
  TTL,          \* Store.ttl, in ticks
  ExpiresIn,    \* lifetimes of a pushed authorization request
  Room,         \* states and values that fit into a cookie
  MaxTime,      \* bound on the clock
  MaxSaves,     \* bound on the number of saves
  MaxOps,       \* bound on the operations of one request
  MaxKey        \* bound on restarts with a new key

ASSUME CookieAssumption ==
  /\ BrowserOf \in [Tabs -> Browsers]
  /\ Second \in Nat \ {0}
  /\ TTL \in Nat \ {0}
  /\ ExpiresIn \subseteq Nat \ {0}
  /\ Room \in Nat \ {0}
  /\ MaxTime \in Nat
  /\ MaxSaves \in Nat
  /\ MaxOps \in Nat
  /\ MaxKey \in Nat

VARIABLES
  now,
  key,      \* the key the server signs and decrypts with
  jar,      \* jar[b]: the session cookie of browser b
  tab,      \* tab[t]: the request of tab t and the session cached in it
  saves,    \* number of saves so far
  login,    \* history: login[i], what became of the correlation of save i
  handed,   \* history: the saves handed out
  again,    \* history: the saves handed out more than once
  lost      \* history: saves handed out by a handler whose response was lost

vars == <<now, key, jar, tab, saves, login, handed, again, lost>>

Time == Nat
Ids == 1..MaxSaves
IdOrNone == 0..MaxSaves

\* A payloadState; createdAt = 0: the payload has no such state, and
\* correlation.id = 0: a nil correlation.
payloadCorrelation == [id : IdOrNone, createdAt : Time, expiry : Time]
NoCorrelation == [id |-> 0, createdAt |-> 0, expiry |-> 0]
payloadState ==
  [correlation : payloadCorrelation, values : [Names -> IdOrNone], createdAt : Time]
NoState ==
  [correlation |-> NoCorrelation, values |-> [n \in Names |-> 0], createdAt |-> 0]
payload == [States -> payloadState]
Empty == [s \in States |-> NoState]

NoCookie == [payload |-> Empty, expires |-> 0, key |-> 0]
Cookie == [payload : payload, expires : Time, key : 0..MaxKey]

\* A request: whether its cookie could be decoded, the payload of its session,
\* and the cookie its response sets, if any.
Request ==
  [pc : {"idle", "sent"}, valid : BOOLEAN, payload : payload,
   set : BOOLEAN, reply : payload, took : SUBSET Ids, ops : 0..MaxOps]
Idle ==
  [pc |-> "idle", valid |-> TRUE, payload |-> Empty, set |-> FALSE,
   reply |-> Empty, took |-> {}, ops |-> 0]

NoLogin == [phase |-> "none", until |-> 0]
LoginOver == [phase |-> "over", until |-> 0]

Init ==
  /\ now = Second
  /\ key = 0
  /\ jar = [b \in Browsers |-> NoCookie]
  /\ tab = [t \in Tabs |-> Idle]
  /\ saves = 0
  /\ login = [i \in Ids |-> NoLogin]
  /\ handed = {}
  /\ again = {}
  /\ lost = {}

-----------------------------------------------------------------------------
(* Helpers *)

\* Time.Unix and back: whole seconds.
Unix(at) == (at \div Second) * Second

\* ttlToMaxAge: the ttl in seconds, rounded up.
MaxAge == ((TTL + Second - 1) \div Second) * Second

isExpired(e, at) ==
  LET createdAt == IF e.correlation.createdAt # 0 THEN e.correlation.createdAt
                   ELSE e.createdAt
  IN \/ createdAt # 0 /\ createdAt + TTL < at
     \/ e.correlation.expiry # 0 /\ e.correlation.expiry < at

Present(p) == {s \in States : p[s].createdAt # 0}

Size(p) ==
  Cardinality(Present(p))
    + Cardinality({x \in States \X Names : p[x[1]].values[x[2]] # 0})

Fits(p) == Size(p) <= Room

\* State s of p without value n; the state goes when nothing is left in it.
DropValue(p, s, n) ==
  LET values == [p[s].values EXCEPT ![n] = 0]
  IN [p EXCEPT ![s] =
        IF @.correlation.id = 0 /\ \A m \in Names : values[m] = 0
        THEN NoState
        ELSE [correlation |-> @.correlation, values |-> values,
              createdAt |-> @.createdAt]]

\* The saves ids are handed out.
HandOut(ids) ==
  /\ handed' = handed \cup ids
  /\ again' = again \cup (ids \cap handed)

\* saveSessionPayload(t, p, ids): the session of t becomes p, and the response
\* sets it as the cookie unless it is too long, which is an error.  An
\* operation that succeeds hands the saves ids out.
saveSessionPayload(t, p, ids) ==
  LET r == tab[t] IN
  /\ tab' = [tab EXCEPT ![t] =
               IF Fits(p)
               THEN [r EXCEPT !.payload = p, !.set = TRUE, !.reply = p,
                              !.took = r.took \cup ids, !.ops = r.ops + 1]
               ELSE [r EXCEPT !.payload = p, !.ops = r.ops + 1]]
  /\ HandOut(IF Fits(p) THEN ids ELSE {})

\* The logins ids are over.
Over(ids) ==
  login' = [i \in Ids |-> IF i \in ids THEN LoginOver ELSE login[i]]

-----------------------------------------------------------------------------
(* Browser, clock and server process *)

Tick ==
  /\ now < MaxTime
  /\ now' = now + 1
  /\ UNCHANGED <<key, jar, tab, saves, login, handed, again, lost>>

\* The process restarts with another key; requests it was working on get no
\* response, and no cookie of a browser can be decoded any more: the logins so
\* far are over.
Restart ==
  /\ key < MaxKey
  /\ key' = key + 1
  /\ tab' = [t \in Tabs |-> Idle]
  /\ lost' = lost \cup UNION {tab[t].took : t \in Tabs}
  /\ Over(1..saves)
  /\ UNCHANGED <<now, jar, saves, handed, again>>

\* Mutant: a missing cookie leaves the map of states unallocated.
loadSessionPayload_NilMap(t) ==
  LET cookie == jar[BrowserOf[t]]
      alive == now < cookie.expires
  IN /\ tab[t].pc = "idle"
     /\ tab' = [tab EXCEPT ![t] =
                  [Idle EXCEPT !.pc = "sent", !.valid = ~alive \/ cookie.key = key,
                               !.payload = IF alive THEN cookie.payload ELSE << >>]]
     /\ UNCHANGED <<now, key, jar, saves, login, handed, again, lost>>

\* A request goes out with the cookie of the jar, if that has not run out, and
\* its handler loads the session.  A cookie of an earlier key is an error for
\* every operation of the request.
loadSessionPayload(t) ==
  LET cookie == jar[BrowserOf[t]]
      alive == now < cookie.expires
  IN /\ tab[t].pc = "idle"
     /\ tab' = [tab EXCEPT ![t] =
                  [Idle EXCEPT !.pc = "sent", !.valid = ~alive \/ cookie.key = key,
                               !.payload = IF alive THEN cookie.payload ELSE Empty]]
     /\ UNCHANGED <<now, key, jar, saves, login, handed, again, lost>>

\* The response arrives; a payload without states clears the cookie.
Receive(t) ==
  LET b == BrowserOf[t]
      r == tab[t]
      ids == {r.reply[s].correlation.id : s \in States}
  IN /\ r.pc = "sent"
     /\ jar' = [jar EXCEPT ![b] =
                  IF ~r.set THEN @
                  ELSE IF Present(r.reply) = {} THEN NoCookie
                  ELSE [payload |-> r.reply, expires |-> now + MaxAge, key |-> key]]
     /\ login' = [i \in Ids |->
                    IF r.set /\ i \in ids /\ login[i].phase = "saved"
                    THEN [login[i] EXCEPT !.phase = "started"] ELSE login[i]]
     /\ tab' = [tab EXCEPT ![t] = Idle]
     /\ UNCHANGED <<now, key, saves, handed, again, lost>>

\* The response is lost.
Lose(t) ==
  /\ tab[t].pc = "sent"
  /\ tab' = [tab EXCEPT ![t] = Idle]
  /\ lost' = lost \cup tab[t].took
  /\ UNCHANGED <<now, key, jar, saves, login, handed, again>>

-----------------------------------------------------------------------------
(* Operations *)

Open(t) == tab[t].pc = "sent" /\ tab[t].valid /\ tab[t].ops < MaxOps

\* SaveCorrelation; expiry # 0 is the one of a pushed authorization request.
SaveCorrelation(t, s, expiry) ==
  LET i == saves + 1
      old == tab[t].payload[s]
      entry == [correlation |-> [id |-> i, createdAt |-> Unix(now),
                                 expiry |-> Unix(expiry)],
                values |-> old.values,
                createdAt |-> IF old.createdAt = 0 THEN Unix(now) ELSE old.createdAt]
      p == [tab[t].payload EXCEPT ![s] = entry]
      until == IF expiry # 0 /\ expiry < now + TTL THEN expiry ELSE now + TTL
  IN /\ Open(t)
     /\ saves < MaxSaves
     /\ saves' = i
     /\ saveSessionPayload(t, p, {})
     /\ login' = [j \in Ids |->
                    IF j = i /\ Fits(p) THEN [phase |-> "saved", until |-> until]
                    ELSE IF j = old.correlation.id
                    THEN LoginOver
                    ELSE login[j]]
     /\ UNCHANGED <<now, key, jar, lost>>

\* Mutant: the removal is not written to the cookie.
ConsumeCorrelation_NoSave(t, s) ==
  LET e == tab[t].payload[s]
  IN /\ Open(t)
     /\ s \in Present(tab[t].payload)
     /\ e.correlation.id # 0 /\ ~isExpired(e, now)
     /\ HandOut({e.correlation.id})
     /\ Over({e.correlation.id})
     /\ UNCHANGED <<now, key, jar, tab, saves, lost>>

\* Mutant: a consumed login takes the cookie with it.
ConsumeCorrelation_ClearAll(t, s) ==
  LET e == tab[t].payload[s]
  IN /\ Open(t)
     /\ s \in Present(tab[t].payload)
     /\ e.correlation.id # 0 /\ ~isExpired(e, now)
     /\ saveSessionPayload(t, Empty, {e.correlation.id})
     /\ Over({e.correlation.id})
     /\ UNCHANGED <<now, key, jar, saves, lost>>

\* ConsumeCorrelation: an expired state is removed, one without a correlation
\* left alone.
ConsumeCorrelation(t, s) ==
  LET e == tab[t].payload[s]
      rest == [tab[t].payload EXCEPT ![s] = NoState]
  IN /\ Open(t)
     /\ s \in Present(tab[t].payload)
     /\ \/ isExpired(e, now) /\ saveSessionPayload(t, rest, {})
        \/ /\ ~isExpired(e, now)
           /\ e.correlation.id # 0
           /\ saveSessionPayload(t, rest, {e.correlation.id})
     /\ Over({e.correlation.id})
     /\ UNCHANGED <<now, key, jar, saves, lost>>

DeleteState(t, s) ==
  /\ Open(t)
  /\ saveSessionPayload(t, [tab[t].payload EXCEPT ![s] = NoState], {})
  /\ Over({tab[t].payload[s].correlation.id})
  /\ UNCHANGED <<now, key, jar, saves, lost>>

\* SaveValue starts an expired state afresh.
SaveValue(t, s, n) ==
  LET old == IF isExpired(tab[t].payload[s], now) THEN NoState
             ELSE tab[t].payload[s]
      entry == [correlation |-> old.correlation,
                values |-> [old.values EXCEPT ![n] = saves + 1],
                createdAt |-> IF old.createdAt = 0 THEN Unix(now) ELSE old.createdAt]
  IN /\ Open(t)
     /\ saves < MaxSaves
     /\ saves' = saves + 1
     /\ saveSessionPayload(t, [tab[t].payload EXCEPT ![s] = entry], {})
     /\ UNCHANGED <<now, key, jar, login, lost>>

DeleteValue(t, s, n) ==
  /\ Open(t)
  /\ s \in Present(tab[t].payload)
  /\ saveSessionPayload(t, DropValue(tab[t].payload, s, n), {})
  /\ UNCHANGED <<now, key, jar, saves, login, lost>>

ConsumeValue(t, s, n) ==
  LET e == tab[t].payload[s]
  IN /\ Open(t)
     /\ s \in Present(tab[t].payload)
     /\ \/ /\ isExpired(e, now)
           /\ saveSessionPayload(t, [tab[t].payload EXCEPT ![s] = NoState], {})
           /\ Over({e.correlation.id})
        \/ /\ ~isExpired(e, now)
           /\ e.values[n] # 0
           /\ saveSessionPayload(t, DropValue(tab[t].payload, s, n), {e.values[n]})
           /\ UNCHANGED login
     /\ UNCHANGED <<now, key, jar, saves, lost>>

Expiries == {0} \cup {now + d : d \in ExpiresIn}

Next ==
  \/ Tick
  \/ Restart
  \/ \E t \in Tabs :
       \/ loadSessionPayload(t) \/ Receive(t) \/ Lose(t)
       \/ \E s \in States :
            \/ \E x \in Expiries : SaveCorrelation(t, s, x)
            \/ ConsumeCorrelation(t, s)
            \/ DeleteState(t, s)
            \/ \E n \in Names :
                 SaveValue(t, s, n) \/ DeleteValue(t, s, n) \/ ConsumeValue(t, s, n)

Spec == Init /\ [][Next]_vars

-----------------------------------------------------------------------------
(* Properties *)

TypeOK ==
  /\ now \in Time
  /\ key \in 0..MaxKey
  /\ jar \in [Browsers -> Cookie]
  /\ tab \in [Tabs -> Request]
  /\ saves \in IdOrNone
  /\ login \in [Ids -> [phase : {"none", "saved", "started", "over"}, until : Time]]
  /\ handed \subseteq Ids
  /\ again \subseteq handed
  /\ lost \subseteq Ids

\* A browser that sends one request at a time is handed a correlation or a
\* value again only when the response to the first time was lost.
ReplayNeedsLoss == again \subseteq lost

\* A login whose redirect has reached such a browser is in its cookie, and the
\* cookie is alive and can be decoded by the server, until the last second of
\* the login's lifetime or the next change of the key; other logins, values,
\* failed operations and lost responses in between do not end it.
InitiatorCanFinish ==
  \A i \in Ids :
    login[i].phase = "started" /\ now + Second <= login[i].until =>
      \E b \in Browsers :
        /\ now < jar[b].expires /\ jar[b].key = key
        /\ \E s \in States : jar[b].payload[s].correlation.id = i
                             /\ ~isExpired(jar[b].payload[s], now)
=============================================================================
