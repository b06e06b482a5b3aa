---------------------------- MODULE MemoryStore -----------------------------
(***************************************************************************)
(* rp/store/memory/store.go: the in-process state store behind             *)
(* AuthorizationURL and HandleCallback, shared by every request goroutine. *)
(*                                                                         *)
(* One action per operation.  An operation that holds s.mu from its first  *)
(* read to its last write is one step; LoadState and LoadValue, which      *)
(* release the read lock and take the write lock later, are two.  A login  *)
(* that reaches the store through HTTP is three: the browser sends the     *)
(* request with the binding cookie it holds, SaveCorrelation runs, and the *)
(* Set-Cookie of its response reaches the browser.                         *)
(*                                                                         *)
(* Data: a saved correlation or value is the number of the save that       *)
(* stored it (0: none), so that two saves are never mistaken for one       *)
(* another; a binding token drawn at random is the number of the save that *)
(* drew it; time is a small counter and 0 is Go's zero time.               *)
(***************************************************************************)
EXTENDS Naturals, FiniteSets

CONSTANTS
  States,         \* non-empty state strings (an empty one is refused at once)
  Names,          \* names of caller-owned values
  Browsers,       \* user agents with a cookie jar each
  NoBrowser,      \* a call with neither request nor response writer
  Tabs,           \* login requests a browser may have in flight
  BrowserOf,      \* BrowserOf[t]: the browser tab t belongs to
  Workers,        \* goroutines inside LoadState or LoadValue
  TTL,            \* Store.ttl
  BindingMargin,  \* the extra minute of the binding cookie
  MaxEntries,     \* maxEntries
  ExpiresIn,      \* lifetimes of a pushed authorization request
  MaxLag,         \* bound: how long ago the caller read CreatedAt
  MaxTime,        \* bound on the clock
  MaxSaves        \* bound on the number of saves

ASSUME StoreAssumption ==
  /\ NoBrowser \notin Browsers
  /\ BrowserOf \in [Tabs -> Browsers]
  /\ TTL \in Nat \ {0}
  /\ BindingMargin \in Nat \ {0}
  /\ MaxEntries \in Nat \ {0}
  /\ ExpiresIn \subseteq Nat \ {0}
  /\ MaxLag \in Nat
  /\ MaxTime \in Nat \ {0}
  /\ MaxSaves \in Nat

VARIABLES
  now,      \* the clock behind currentTime
  items,    \* Store.items; a key that is absent reads as the zero entry
  jar,      \* jar[b]: the binding cookie browser b holds
  tab,      \* tab[t]: the login request in flight in tab t
  load,     \* load[w]: the load operation in flight in goroutine w
  saves,    \* number of saves so far
  owner,    \* history: the browser that save i was bound to
  handed,   \* history: how often save i was handed out by a Consume operation;
            \* handed[0] counts correlations handed out that nobody saved
  taker,    \* history: the last agent that save i was handed to
  deleted   \* history: the saves the application deleted

vars == <<now, items, jar, tab, load, saves, owner, handed, taker, deleted>>

Time == Nat
Ids == 1..MaxSaves
IdOrNone == 0..MaxSaves
Agents == Browsers \cup {NoBrowser}

Correlation == [id : IdOrNone, createdAt : Time, expiry : Time]
ZeroCorrelation == [id |-> 0, createdAt |-> 0, expiry |-> 0]

StateEntry ==
  [present : BOOLEAN, correlation : Correlation, values : [Names -> IdOrNone],
   createdAt : Time, binding : Nat]

\* The value Go returns for a key that is not in the map.
ZeroEntry ==
  [present |-> FALSE, correlation |-> ZeroCorrelation,
   values |-> [n \in Names |-> 0], createdAt |-> 0, binding |-> 0]

NoCookie == [token |-> 0, expires |-> 0]
IdleTab == [pc |-> "idle", token |-> 0]
\* A goroutine outside LoadState and LoadValue, and one in between the two
\* critical sections of such a call.
IdleLoad == [pc |-> "idle"]
PendingLoad ==
  [pc : {"loadState", "loadValue"}, state : States, entry : StateEntry]

\* Mutant: the map is not allocated.
New_NilMap ==
  /\ now = 1
  /\ items = << >>
  /\ jar = [b \in Browsers |-> NoCookie]
  /\ tab = [t \in Tabs |-> IdleTab]
  /\ load = [w \in Workers |-> IdleLoad]
  /\ saves = 0
  /\ owner = [i \in Ids |-> NoBrowser]
  /\ handed = [i \in IdOrNone |-> 0]
  /\ taker = [i \in Ids |-> NoBrowser]
  /\ deleted = {}

New ==
  /\ now = 1
  /\ items = [s \in States |-> ZeroEntry]
  /\ jar = [b \in Browsers |-> NoCookie]
  /\ tab = [t \in Tabs |-> IdleTab]
  /\ load = [w \in Workers |-> IdleLoad]
  /\ saves = 0
  /\ owner = [i \in Ids |-> NoBrowser]
  /\ handed = [i \in IdOrNone |-> 0]
  /\ taker = [i \in Ids |-> NoBrowser]
  /\ deleted = {}

-----------------------------------------------------------------------------
(* Helpers *)

isExpired(e, at) ==
  LET createdAt == IF e.correlation.createdAt # 0 THEN e.correlation.createdAt
                   ELSE e.createdAt
  IN \/ createdAt # 0 /\ createdAt + TTL < at
     \/ e.correlation.expiry # 0 /\ e.correlation.expiry < at

isZeroCorrelation(c) == c = ZeroCorrelation

\* The cookie a request of agent b presents: none once the browser dropped it.
bindingCookieValue(b) ==
  IF b \in Browsers /\ now < jar[b].expires THEN jar[b].token ELSE 0

\* The saves in entry s.
Held(s) ==
  ({items[s].correlation.id} \cup {items[s].values[n] : n \in Names}) \ {0}

Present(m) == {s \in States : m[s].present}

Without(m, S) == [s \in States |-> IF s \in S THEN ZeroEntry ELSE m[s]]

\* sweepLocked: first every expired entry goes, then, one at a time, an entry
\* whose createdAt is smallest until MaxEntries are left.  Ties are broken by
\* Go's map iteration order, so several sets of evicted keys are possible.
sweepLocked(m) ==
  LET live == {s \in Present(m) : ~isExpired(m[s], now)}
      excess == IF Cardinality(live) > MaxEntries
                THEN Cardinality(live) - MaxEntries ELSE 0
  IN {Without(m, (States \ live) \cup evicted) :
        evicted \in {E \in SUBSET live :
                       /\ Cardinality(E) = excess
                       /\ \A s \in E, u \in live \ E :
                            m[s].createdAt <= m[u].createdAt}}

-----------------------------------------------------------------------------
(* Operations *)

\* The shared part of SaveCorrelation: store correlation number saves + 1
\* under s, bound to token binding (0: unbound).  createdAt = 0 is a zero
\* CreatedAt, replaced by the current time; expiry # 0 is what rp sets after
\* a pushed authorization request.
StoreCorrelation(s, createdAt, expiry, binding) ==
  LET at == IF createdAt = 0 THEN now ELSE createdAt
      old == items[s]
      entry == [present |-> TRUE,
                correlation |-> [id |-> saves + 1, createdAt |-> at,
                                 expiry |-> expiry],
                values |-> old.values,
                createdAt |-> IF old.createdAt = 0 THEN at ELSE old.createdAt,
                binding |-> binding]
  IN /\ saves < MaxSaves
     /\ saves' = saves + 1
     /\ items' \in sweepLocked([items EXCEPT ![s] = entry])

\* A time the caller read before the call, or Go's zero time.
CallerTimes == {0} \cup {c \in 1..now : now - c <= MaxLag}
Expiries == {0} \cup {now + d : d \in ExpiresIn}

\* SaveCorrelation called without a request or a response writer.
SaveCorrelationUnbound(s, createdAt, expiry) ==
  /\ StoreCorrelation(s, createdAt, expiry, 0)
  /\ UNCHANGED <<now, jar, tab, load, owner, handed, taker, deleted>>

\* The browser of tab t asks the application to start a login.
SendLogin(t) ==
  /\ tab[t].pc = "idle"
  /\ tab' = [tab EXCEPT ![t] = [pc |-> "sent",
                                token |-> bindingCookieValue(BrowserOf[t])]]
  /\ UNCHANGED <<now, items, jar, load, saves, owner, handed, taker, deleted>>

\* SaveCorrelation for the request of tab t: the presented binding is kept, a
\* fresh one is drawn when there is none, and the response renews the cookie.
SaveCorrelation(t, s, createdAt, expiry) ==
  LET binding == IF tab[t].token # 0 THEN tab[t].token ELSE saves + 1
  IN /\ tab[t].pc = "sent"
     /\ StoreCorrelation(s, createdAt, expiry, binding)
     /\ tab' = [tab EXCEPT ![t] = [pc |-> "replied", token |-> binding]]
     /\ owner' = [owner EXCEPT ![saves + 1] = BrowserOf[t]]
     /\ UNCHANGED <<now, jar, load, handed, taker, deleted>>

\* Mutant: the cookie lives no longer than the entry.
ReceiveCookie_NoMargin(t) ==
  /\ tab[t].pc = "replied"
  /\ jar' = [jar EXCEPT ![BrowserOf[t]] =
               [token |-> tab[t].token, expires |-> now + TTL]]
  /\ tab' = [tab EXCEPT ![t] = IdleTab]
  /\ UNCHANGED <<now, items, load, saves, owner, handed, taker, deleted>>

\* The response reaches the browser; Max-Age counts from here.
ReceiveCookie(t) ==
  /\ tab[t].pc = "replied"
  /\ jar' = [jar EXCEPT ![BrowserOf[t]] =
               [token |-> tab[t].token, expires |-> now + TTL + BindingMargin]]
  /\ tab' = [tab EXCEPT ![t] = IdleTab]
  /\ UNCHANGED <<now, items, load, saves, owner, handed, taker, deleted>>

\* Bookkeeping of a Consume operation that hands save i to agent b.
HandOut(i, b) ==
  /\ handed' = [handed EXCEPT ![i] = @ + 1]
  /\ taker' = IF i = 0 THEN taker ELSE [taker EXCEPT ![i] = b]

\* Mutant: the binding cookie is not compared.
ConsumeCorrelation_NoBinding(s, b) ==
  /\ items[s].present
  /\ ~isExpired(items[s], now)
  /\ items' = Without(items, {s})
  /\ HandOut(items[s].correlation.id, b)
  /\ UNCHANGED <<now, jar, tab, load, saves, owner, deleted>>

\* Mutant: the entry is read but not removed.
ConsumeCorrelation_Keep(s, b) ==
  /\ items[s].present
  /\ ~isExpired(items[s], now)
  /\ items[s].binding \in {0, bindingCookieValue(b)}
  /\ HandOut(items[s].correlation.id, b)
  /\ UNCHANGED <<now, items, jar, tab, load, saves, owner, deleted>>

\* Mutant: the entry is removed before the binding is compared.
ConsumeCorrelation_DeleteFirst(s, b) ==
  /\ items[s].present
  /\ items' = Without(items, {s})
  /\ IF ~isExpired(items[s], now) /\ items[s].binding \in {0, bindingCookieValue(b)}
     THEN HandOut(items[s].correlation.id, b)
     ELSE UNCHANGED <<handed, taker>>
  /\ UNCHANGED <<now, jar, tab, load, saves, owner, deleted>>

ConsumeCorrelation(s, b) ==
  /\ items[s].present
  /\ \/ /\ isExpired(items[s], now)
        /\ items' = Without(items, {s})
        /\ UNCHANGED <<handed, taker>>
     \/ /\ ~isExpired(items[s], now)
        /\ items[s].binding \in {0, bindingCookieValue(b)}
        /\ items' = Without(items, {s})
        /\ HandOut(items[s].correlation.id, b)
  /\ UNCHANGED <<now, jar, tab, load, saves, owner, deleted>>

DeleteState(s) ==
  /\ items[s].present
  /\ items' = Without(items, {s})
  /\ deleted' = deleted \cup Held(s)
  /\ UNCHANGED <<now, jar, tab, load, saves, owner, handed, taker>>

\* SaveValue neither looks at the expiry of the entry nor sweeps.
SaveValue(s, n) ==
  /\ saves < MaxSaves
  /\ saves' = saves + 1
  /\ items' = [items EXCEPT ![s] =
                 [present |-> TRUE,
                  correlation |-> @.correlation,
                  values |-> [@.values EXCEPT ![n] = saves + 1],
                  createdAt |-> IF @.createdAt = 0 THEN now ELSE @.createdAt,
                  binding |-> @.binding]]
  /\ UNCHANGED <<now, jar, tab, load, owner, handed, taker, deleted>>

\* Entry e without value n; the entry itself goes when nothing is left in it.
DropValue(e, n) ==
  LET rest == [e.values EXCEPT ![n] = 0]
  IN IF isZeroCorrelation(e.correlation) /\ \A m \in Names : rest[m] = 0
     THEN ZeroEntry
     ELSE [present |-> e.present, correlation |-> e.correlation,
           values |-> rest, createdAt |-> e.createdAt, binding |-> e.binding]

DeleteValue(s, n) ==
  /\ items[s].present
  /\ items' = [items EXCEPT ![s] = DropValue(@, n)]
  /\ deleted' = deleted \cup ({items[s].values[n]} \ {0})
  /\ UNCHANGED <<now, jar, tab, load, saves, owner, handed, taker>>

\* Mutant: a value that is the last of its entry is not removed.
ConsumeValue_Keep(s, n, b) ==
  /\ items[s].present
  /\ ~isExpired(items[s], now)
  /\ items[s].values[n] # 0
  /\ items' = IF DropValue(items[s], n).present
              THEN [items EXCEPT ![s] = DropValue(@, n)] ELSE items
  /\ HandOut(items[s].values[n], b)
  /\ UNCHANGED <<now, jar, tab, load, saves, owner, deleted>>

ConsumeValue(s, n, b) ==
  /\ items[s].present
  /\ \/ /\ isExpired(items[s], now)
        /\ items' = Without(items, {s})
        /\ UNCHANGED <<handed, taker>>
     \/ /\ ~isExpired(items[s], now)
        /\ items[s].values[n] # 0
        /\ items' = [items EXCEPT ![s] = DropValue(@, n)]
        /\ HandOut(items[s].values[n], b)
  /\ UNCHANGED <<now, jar, tab, load, saves, owner, deleted>>

\* LoadState, first half: copy the entry under the read lock.
LoadStateRead(w, s) ==
  /\ load[w] = IdleLoad
  /\ items[s].present
  /\ load' = [load EXCEPT ![w] = [pc |-> "loadState", state |-> s,
                                  entry |-> items[s]]]
  /\ UNCHANGED <<now, items, jar, tab, saves, owner, handed, taker, deleted>>

\* LoadState, second half: return the copy, or delete the key if the copy has
\* expired, without looking at what the key holds by now.
LoadStateFinish(w) ==
  /\ load[w].pc = "loadState"
  /\ items' = IF isExpired(load[w].entry, now)
              THEN Without(items, {load[w].state}) ELSE items
  /\ load' = [load EXCEPT ![w] = IdleLoad]
  /\ UNCHANGED <<now, jar, tab, saves, owner, handed, taker, deleted>>

\* LoadValue, first half: an unexpired entry is answered from under the read
\* lock; only an expired one leaves work for later.
LoadValueRead(w, s) ==
  /\ load[w] = IdleLoad
  /\ items[s].present
  /\ isExpired(items[s], now)
  /\ load' = [load EXCEPT ![w] = [pc |-> "loadValue", state |-> s,
                                  entry |-> items[s]]]
  /\ UNCHANGED <<now, items, jar, tab, saves, owner, handed, taker, deleted>>

\* LoadValue, second half: what the key holds by now is deleted if it has
\* expired.
LoadValueFinish(w) ==
  LET s == load[w].state
  IN /\ load[w].pc = "loadValue"
     /\ items' = IF isExpired(items[s], now)
                 THEN Without(items, {s}) ELSE items
     /\ load' = [load EXCEPT ![w] = IdleLoad]
     /\ UNCHANGED <<now, jar, tab, saves, owner, handed, taker, deleted>>

Tick ==
  /\ now < MaxTime
  /\ now' = now + 1
  /\ UNCHANGED <<items, jar, tab, load, saves, owner, handed, taker, deleted>>

Next ==
  \/ Tick
  \/ \E t \in Tabs : SendLogin(t) \/ ReceiveCookie(t)
  \/ \E s \in States, c \in CallerTimes, x \in Expiries :
       \/ SaveCorrelationUnbound(s, c, x)
       \/ \E t \in Tabs : SaveCorrelation(t, s, c, x)
  \/ \E s \in States, b \in Agents : ConsumeCorrelation(s, b)
  \/ \E s \in States : DeleteState(s)
  \/ \E s \in States, n \in Names :
       \/ SaveValue(s, n)
       \/ DeleteValue(s, n)
       \/ \E b \in Agents : ConsumeValue(s, n, b)
  \/ \E w \in Workers :
       \/ \E s \in States : LoadStateRead(w, s) \/ LoadValueRead(w, s)
       \/ LoadStateFinish(w)
       \/ LoadValueFinish(w)

Spec == New /\ [][Next]_vars

-----------------------------------------------------------------------------
(* Properties *)

TypeOK ==
  /\ now \in Time
  /\ items \in [States -> StateEntry]
  /\ jar \in [Browsers -> [token : Nat, expires : Time]]
  /\ tab \in [Tabs -> [pc : {"idle", "sent", "replied"}, token : Nat]]
  /\ load \in [Workers -> {IdleLoad} \cup PendingLoad]
  /\ saves \in IdOrNone
  /\ owner \in [Ids -> Agents]
  /\ handed \in [IdOrNone -> Nat]
  /\ taker \in [Ids -> Agents]
  /\ deleted \subseteq Ids

\* Whether save i is still in the store.
Stored(i) ==
  \E s \in States :
    /\ items[s].present
    /\ \/ items[s].correlation.id = i
       \/ \E n \in Names : items[s].values[n] = i

\* Strict one-time consumption (promised by rp/store/cookie/store.go:144 of
\* this store): no interleaving of ConsumeCorrelation, ConsumeValue, loads,
\* overwrites and sweeps hands one saved correlation or value out twice.
AtMostOnce == \A i \in Ids : handed[i] <= 1

\* Browser binding: a correlation saved for a login of one browser is never
\* handed to another browser, nor to a request without cookies.
BindingRespected ==
  \A i \in Ids : owner[i] # NoBrowser /\ handed[i] > 0 => taker[i] = owner[i]

\* The browser that started a login can finish it for as long as the entry
\* lives: once the response has arrived it presents the entry's binding, and
\* its cookie outlives the entry (the renewal in SaveCorrelation).
InitiatorCanFinish ==
  \A s \in States :
    LET e == items[s]
        waiting == \E t \in Tabs : tab[t].pc = "replied" /\ tab[t].token = e.binding
    IN e.binding # 0 /\ ~isExpired(e, now) /\ ~waiting
         => bindingCookieValue(owner[e.correlation.id]) = e.binding

\* When entry e expires: its TTL, or earlier its pushed request, runs out.
ExpiresAt(e) ==
  LET ttlEnd == e.correlation.createdAt + TTL
  IN IF e.correlation.expiry \in 1..ttlEnd THEN e.correlation.expiry ELSE ttlEnd

\* A store over its capacity evicts "the soonest-to-expire survivors"
\* (sweepLocked): a live correlation evicted for the one just saved does not
\* outlast it.
SweepsSoonestToExpire ==
  [][\A s, u \in States :
       /\ ~isZeroCorrelation(items[s].correlation)
       /\ ~isExpired(items[s], now)
       /\ ~items'[s].present
       /\ saves' > saves /\ items'[u].correlation.id = saves'
       => ExpiresAt(items[s]) <= ExpiresAt(items'[u])]_vars

\* The delayed deletion of LoadState, which "loads a state scope when present
\* and not expired", removes only what has expired, whatever was saved under
\* the key since its first half.
LoadStateKeepsLive ==
  [][\A w \in Workers, s \in States :
       load[w].pc = "loadState" /\ load'[w] = IdleLoad /\ items[s].present
         => items'[s].present \/ isExpired(items[s], now)]_vars

\* The reasons for which a step may take entry s out of the store: something of
\* it is handed out, the application deletes it, a save finds the store full,
\* or LoadState finishes a call that began with an expired entry.
HandedOutOf(s) ==
  \E i \in {items[s].correlation.id} \cup {items[s].values[n] : n \in Names} :
    handed'[i] > handed[i]
DeletedByCaller(s) == Held(s) \cap deleted' # {}
ForLackOfRoom == saves' > saves /\ Cardinality(Present(items')) = MaxEntries
RacedByLoadState(s) ==
  \E w \in Workers : /\ LoadStateFinish(w)
                     /\ load[w].state = s
                     /\ isExpired(load[w].entry, now)

\* No login in progress is lost for another's sake: a live entry with something
\* in it leaves the store for one of the reasons above only.  A callback in a foreign browser
\* leaves it ("the entry stays for the legitimate browser"), so does the delayed
\* deletion of LoadValue, and a sweep takes it only when the store is full.
LiveEntriesKept ==
  [][\A s \in States :
       /\ items[s].present /\ Held(s) # {}
       /\ ~isExpired(items[s], now)
       /\ ~items'[s].present
       => \/ HandedOutOf(s)
          \/ DeletedByCaller(s)
          \/ ForLackOfRoom
          \/ RacedByLoadState(s)]_vars

\* The store implements single-use tickets: expiry, sweep, overwrite and
\* delete only lose tickets, and a ticket is handed out once, to its holder.
TicketOf ==
  [i \in Ids |-> IF i > saves THEN "none"
                 ELSE IF handed[i] > 0 THEN "taken"
                 ELSE IF Stored(i) THEN "open" ELSE "gone"]

Tickets == INSTANCE SingleUseTickets
             WITH Tickets <- Ids, ticket <- TicketOf, holder <- owner

ImplementsTickets == Tickets!Spec
=============================================================================
