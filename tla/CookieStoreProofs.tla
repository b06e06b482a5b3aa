-------------------------- MODULE CookieStoreProofs -------------------------
(***************************************************************************)
(* Proofs about rp/store/cookie/store.go for any number of states, values, *)
(* browsers, requests, keys and saves, any lifetime and any room in the    *)
(* cookie.                                                                 *)
(***************************************************************************)
EXTENDS CookieStore, TLAPS

-----------------------------------------------------------------------------
(* The inductive invariant *)

\* Save i is in the payload p, as a correlation or at all.
HoldsLogin(p, i) == \E s \in States : p[s].correlation.id = i
Holds(p, i) ==
  \E s \in States : p[s].correlation.id = i \/ \E n \in Names : p[s].values[n] = i

\* No save is in a payload twice.
Distinct(p) ==
  /\ \A s, r \in States :
       p[s].correlation.id # 0 /\ p[s].correlation.id = p[r].correlation.id => s = r
  /\ \A s, r \in States, n \in Names :
       p[s].correlation.id # 0 => p[s].correlation.id # p[r].values[n]
  /\ \A s, r \in States, n, m \in Names :
       p[s].values[n] # 0 /\ p[s].values[n] = p[r].values[m] => s = r /\ n = m

\* A payload after sv saves.
PayloadOK(p, sv) ==
  /\ p \in payload
  /\ Distinct(p)
  /\ \A i \in Ids : Holds(p, i) => i <= sv
  /\ \A s \in States : p[s].correlation.id # 0 => p[s].createdAt # 0

\* A login in the payload p is kept until the last second of its lifetime,
\* although the payload has whole seconds only.
Active(e) == e.phase \in {"saved", "started"}
Timely(p, lg) ==
  \A s \in States : \A i \in Ids :
    p[s].correlation.id = i /\ Active(lg[i]) =>
      /\ p[s].correlation.createdAt # 0
      /\ lg[i].until < p[s].correlation.createdAt + TTL + Second
      /\ p[s].correlation.expiry # 0 => lg[i].until < p[s].correlation.expiry + Second

\* A request r of a browser with the cookie k: what has been handed out and is
\* still in a payload was lost, or is what r itself has taken out.
RequestOK(r, sv, lg) ==
  /\ PayloadOK(r.payload, sv) /\ PayloadOK(r.reply, sv)
  /\ Timely(r.payload, lg) /\ Timely(r.reply, lg)
  /\ r.pc = "idle" => r = Idle
  /\ ~r.set => r.took = {} /\ r.reply = Empty
CookieOK(k, sv, lg) ==
  /\ PayloadOK(k.payload, sv)
  /\ Timely(k.payload, lg)
  /\ \A i \in Ids : HoldsLogin(k.payload, i) /\ Active(lg[i]) => lg[i].until <= k.expires
Spent(r, k, hd, ls) ==
  /\ r.took \subseteq hd
  /\ \A i \in hd : Holds(r.payload, i) \/ Holds(r.reply, i) => i \in ls
  /\ \A i \in hd : Holds(k.payload, i) => i \in ls \cup r.took

\* The payloads of different browsers have no save in common.
Reach(r, k, i) == Holds(r.payload, i) \/ Holds(r.reply, i) \/ Holds(k.payload, i)
Apart(tb, jr) ==
  \A t, u \in Tabs : t # u =>
    \A i \in Ids : ~ (Reach(tb[t], jr[BrowserOf[t]], i) /\ Reach(tb[u], jr[BrowserOf[u]], i))

\* A started login is in the cookie of its browser, which is of the present
\* key, and in the payloads of the request that browser has in flight.
Kept(r, k, i, ky) ==
  /\ HoldsLogin(k.payload, i) /\ k.key = ky
  /\ r.pc = "sent" => /\ HoldsLogin(r.payload, i)
                      /\ r.set => HoldsLogin(r.reply, i)
StartedKept(tb, jr, lg, at, ky) ==
  \A i \in Ids : lg[i].phase = "started" /\ at + Second <= lg[i].until =>
    \E t \in Tabs : Kept(tb[t], jr[BrowserOf[t]], i, ky)

PayloadsOK ==
  /\ now >= Second
  /\ handed \subseteq 1..saves
  /\ \A i \in Ids : Active(login[i]) => i <= saves /\ login[i].until <= now + TTL
  /\ \A b \in Browsers : CookieOK(jar[b], saves, login)
  /\ \A t \in Tabs : RequestOK(tab[t], saves, login)

\* The invariants that need browsers with one request at a time.
SpentInv ==
  /\ Apart(tab, jar)
  /\ \A t \in Tabs : Spent(tab[t], jar[BrowserOf[t]], handed, lost)
  /\ ReplayNeedsLoss
KeptInv == StartedKept(tab, jar, login, now, key)

Inv == TypeOK /\ PayloadsOK

-----------------------------------------------------------------------------
(* Whole seconds *)

\* Rounding down loses less than a second.
LEMMA UnixFacts ==
  ASSUME NEW at \in Nat
  PROVE  /\ Unix(at) \in Nat
         /\ at < Unix(at) + Second
         /\ at >= Second => Unix(at) # 0
         /\ at = 0 => Unix(at) = 0
<1> DEFINE q == at \div Second
<1>1. /\ q \in Nat
      /\ q * Second <= at
      /\ at < q * Second + Second
  BY CookieAssumption
<1>2. q * Second \in Nat
  BY <1>1, CookieAssumption
<1>3. at >= Second => q * Second # 0
  BY <1>1, <1>2, CookieAssumption
<1>4. QED
  BY <1>1, <1>2, <1>3, CookieAssumption DEF Unix

\* The cookie outlives what is in it.
LEMMA MaxAgeFacts == MaxAge \in Nat /\ MaxAge >= TTL
<1> DEFINE at == TTL + Second - 1
           q == at \div Second
<1>0. at \in Nat /\ Second \in Nat /\ Second > 0 /\ TTL \in Nat
  BY CookieAssumption
<1>1. /\ q \in Nat
      /\ at < q * Second + Second
  BY <1>0
<1>2. q * Second \in Nat
  BY <1>0, <1>1
<1>3. q * Second >= TTL
  BY <1>0, <1>1, <1>2
<1>4. QED
  BY <1>2, <1>3 DEF MaxAge

-----------------------------------------------------------------------------
(* Payloads *)

\* The types of the records.
LEMMA Records ==
  /\ NoCorrelation \in payloadCorrelation
  /\ NoState \in payloadState
  /\ Empty \in payload
  /\ NoCookie \in Cookie
  /\ Idle \in Request
  /\ \A s \in States : Empty[s] = NoState
  /\ NoCorrelation.id = 0
  /\ NoState.correlation = NoCorrelation
  /\ NoState.createdAt = 0
  /\ \A n \in Names : NoState.values[n] = 0
<1>1. /\ NoCorrelation \in payloadCorrelation
      /\ NoCorrelation.id = 0
  BY CookieAssumption DEF NoCorrelation, payloadCorrelation, IdOrNone, Time
<1>2. /\ NoState \in payloadState
      /\ NoState.correlation = NoCorrelation
      /\ NoState.createdAt = 0
      /\ \A n \in Names : NoState.values[n] = 0
  BY <1>1, CookieAssumption DEF NoState, payloadState, IdOrNone, Time
<1>3. Empty \in payload /\ \A s \in States : Empty[s] = NoState
  BY <1>2 DEF Empty, payload
<1>4. NoCookie \in Cookie
  BY <1>3, CookieAssumption DEF NoCookie, Cookie, Time
<1>5. Idle \in Request
  BY <1>3, CookieAssumption DEF Idle, Request
<1>6. QED
  BY <1>1, <1>2, <1>3, <1>4, <1>5

\* Nothing is in an empty payload.
LEMMA EmptyOK ==
  ASSUME NEW sv, NEW lg
  PROVE  /\ PayloadOK(Empty, sv)
         /\ Timely(Empty, lg)
         /\ \A i \in Ids : ~Holds(Empty, i) /\ ~HoldsLogin(Empty, i)
<1>1. \A s \in States : /\ Empty[s].correlation.id = 0
                        /\ \A n \in Names : Empty[s].values[n] = 0
  BY Records
<1>2. \A i \in Ids : i # 0
  BY DEF Ids
<1>3. QED
  BY <1>1, <1>2, Records DEF PayloadOK, Distinct, Holds, HoldsLogin, Timely

\* The fields of a typed payload.
LEMMA PayloadFields ==
  ASSUME NEW p \in payload, NEW s \in States
  PROVE  /\ p[s] \in payloadState
         /\ p[s].correlation \in payloadCorrelation
         /\ p[s].correlation.id \in IdOrNone
         /\ p[s].correlation.createdAt \in Nat
         /\ p[s].correlation.expiry \in Nat
         /\ p[s].createdAt \in Nat
         /\ p[s].values \in [Names -> IdOrNone]
         /\ \A n \in Names : p[s].values[n] \in IdOrNone
BY DEF payload, payloadState, payloadCorrelation, Time

\* An operation that only takes something out of p.
TakesOut(p, q) ==
  /\ q \in payload
  /\ \A s \in States :
       /\ q[s].correlation = p[s].correlation \/ q[s].correlation = NoCorrelation
       /\ q[s].createdAt = p[s].createdAt \/ q[s].correlation.id = 0
       /\ \A n \in Names : q[s].values[n] = p[s].values[n] \/ q[s].values[n] = 0

\* It keeps a payload in order.
LEMMA TakesOutOK ==
  ASSUME NEW sv, NEW lg, NEW p, PayloadOK(p, sv), Timely(p, lg), NEW q, TakesOut(p, q)
  PROVE  /\ PayloadOK(q, sv)
         /\ Timely(q, lg)
         /\ \A i \in Ids : Holds(q, i) => Holds(p, i)
<1>1. NoCorrelation.id = 0 /\ \A i \in Ids : i # 0
  BY Records DEF Ids
<1>2. \A i \in Ids : Holds(q, i) => Holds(p, i)
  BY <1>1 DEF TakesOut, Holds
<1>3. Distinct(q)
  <2>1. Distinct(p)
    BY DEF PayloadOK
  <2>2. \A s \in States : q[s].correlation.id # 0 => q[s].correlation = p[s].correlation
    BY <1>1 DEF TakesOut
  <2>3. \A s \in States, n \in Names : q[s].values[n] # 0 => q[s].values[n] = p[s].values[n]
    BY DEF TakesOut
  <2>4. QED
    BY <2>1, <2>2, <2>3 DEF Distinct
<1>4. Timely(q, lg)
  BY <1>1 DEF TakesOut, Timely
<1>5. QED
  BY <1>1, <1>2, <1>3, <1>4 DEF PayloadOK, TakesOut

\* A state is taken out.
LEMMA RemoveOK ==
  ASSUME NEW p \in payload, NEW s \in States, Distinct(p)
  PROVE  LET q == [p EXCEPT ![s] = NoState]
         IN /\ TakesOut(p, q)
            /\ \A i \in Ids :
                 /\ p[s].correlation.id = i => ~Holds(q, i)
                 /\ p[s].correlation.id # i /\ HoldsLogin(p, i) => HoldsLogin(q, i)
<1> DEFINE q == [p EXCEPT ![s] = NoState]
<1>1. q \in payload /\ \A r \in States : q[r] = IF r = s THEN NoState ELSE p[r]
  BY Records DEF payload
<1> HIDE DEF q
<1>2. TakesOut(p, q)
  BY <1>1, Records DEF TakesOut
<1>3. ASSUME NEW i \in Ids PROVE p[s].correlation.id = i => ~Holds(q, i)
  <2>1. i # 0
    BY DEF Ids
  <2>2. QED
    BY <1>1, <2>1, Records DEF Holds, Distinct
<1>4. ASSUME NEW i \in Ids
      PROVE p[s].correlation.id # i /\ HoldsLogin(p, i) => HoldsLogin(q, i)
  BY <1>1 DEF HoldsLogin
<1>5. QED
  BY <1>2, <1>3, <1>4 DEF q

\* A value is taken out; the correlation beside it stays.
LEMMA DropValueOK ==
  ASSUME NEW p \in payload, NEW s \in States, NEW n \in Names, Distinct(p)
  PROVE  LET q == DropValue(p, s, n)
         IN /\ TakesOut(p, q)
            /\ \A i \in Ids :
                 /\ p[s].values[n] = i => ~Holds(q, i)
                 /\ HoldsLogin(p, i) => HoldsLogin(q, i)
<1> DEFINE q == DropValue(p, s, n)
           vs == [p[s].values EXCEPT ![n] = 0]
           e == [correlation |-> p[s].correlation, values |-> vs,
                 createdAt |-> p[s].createdAt]
<1>1. vs \in [Names -> IdOrNone]
      /\ \A m \in Names : vs[m] = IF m = n THEN 0 ELSE p[s].values[m]
  BY PayloadFields, CookieAssumption DEF IdOrNone
<1>2. q = [p EXCEPT ![s] = IF p[s].correlation.id = 0 /\ \A m \in Names : vs[m] = 0
                           THEN NoState ELSE e]
  BY DEF DropValue, payload
<1> HIDE DEF vs
<1>3. /\ e \in payloadState /\ e.correlation = p[s].correlation
      /\ e.values = vs /\ e.createdAt = p[s].createdAt
  BY <1>1, PayloadFields DEF payloadState, Time
<1> HIDE DEF e, q
<1>4. /\ q \in payload
      /\ \A r \in States : r # s => q[r] = p[r]
      /\ \/ q[s] = NoState /\ p[s].correlation.id = 0
         \/ q[s] = e
  BY <1>2, <1>3, Records DEF payload
<1>5. TakesOut(p, q)
  BY <1>1, <1>3, <1>4, Records DEF TakesOut
<1>6. ASSUME NEW i \in Ids, p[s].values[n] = i PROVE ~Holds(q, i)
  <2>1. i # 0
    BY DEF Ids
  <2>2. \A r \in States : p[r].correlation.id # i
    BY <1>6, <2>1 DEF Distinct
  <2>3. \A r \in States, m \in Names : p[r].values[m] = i => r = s /\ m = n
    BY <1>6, <2>1 DEF Distinct
  <2>4. \A m \in Names : q[s].values[m] # i
    BY <1>1, <1>3, <1>4, <1>6, <2>1, <2>3, Records
  <2>5. \A r \in States : q[r].correlation.id # i
    BY <1>3, <1>4, <2>1, <2>2, Records
  <2>6. QED
    BY <1>4, <2>3, <2>4, <2>5 DEF Holds
<1>7. ASSUME NEW i \in Ids PROVE HoldsLogin(p, i) => HoldsLogin(q, i)
  <2>1. i # 0
    BY DEF Ids
  <2>2. QED
    BY <1>3, <1>4, <2>1 DEF HoldsLogin
<1>8. QED
  BY <1>5, <1>6, <1>7 DEF q

\* Save i, which is in no payload, is put into state s: the new entry e has it
\* as its correlation, or as its value n.
LEMMA PutOK ==
  ASSUME NEW sv \in Nat, sv + 1 \in Ids, NEW p, PayloadOK(p, sv), NEW s \in States,
         NEW e \in payloadState,
         e.correlation.id # 0 => e.createdAt # 0,
         \/ /\ e.correlation.id = sv + 1
            /\ e.values = p[s].values
         \/ /\ e.correlation = p[s].correlation \/ e.correlation = NoCorrelation
            /\ \E n \in Names :
                 /\ e.values[n] = sv + 1
                 /\ \A m \in Names : m # n =>
                      e.values[m] = p[s].values[m] \/ e.values[m] = 0
  PROVE  LET q == [p EXCEPT ![s] = e]
         IN /\ PayloadOK(q, sv + 1)
            /\ \A i \in Ids : Holds(q, i) => Holds(p, i) \/ i = sv + 1
<1> DEFINE q == [p EXCEPT ![s] = e]
           f == sv + 1
<1>1. p \in payload /\ Distinct(p) /\ \A i \in Ids : Holds(p, i) => i <= sv
  BY DEF PayloadOK
<1>2. q \in payload /\ \A r \in States : q[r] = IF r = s THEN e ELSE p[r]
  BY <1>1 DEF payload
<1>3. f \in Ids /\ f # 0 /\ \A i \in Ids : i <= sv => i # f /\ i <= f
  BY DEF Ids
<1>4. \A i \in Ids : i # 0
  BY DEF Ids
<1>5. /\ \A r \in States : p[r].correlation.id # f
      /\ \A r \in States, n \in Names : p[r].values[n] # f
  BY <1>1, <1>3 DEF Holds
<1> HIDE DEF q, f
<1>6. \A i \in Ids : Holds(q, i) => Holds(p, i) \/ i = f
  BY <1>2, <1>4, Records DEF Holds, f
<1>7. Distinct(q)
  <2>1. CASE e.correlation.id = f /\ e.values = p[s].values
    BY <1>1, <1>2, <1>3, <1>5, <2>1 DEF Distinct
  <2>2. ASSUME NEW n \in Names,
               e.correlation = p[s].correlation \/ e.correlation = NoCorrelation,
               e.values[n] = f,
               \A m \in Names : m # n =>
                      e.values[m] = p[s].values[m] \/ e.values[m] = 0
        PROVE  Distinct(q)
    <3>1. \A r \in States : q[r].correlation.id # 0 =>
            q[r].correlation.id = p[r].correlation.id
      BY <1>2, <2>2, Records
    <3>2. \A r \in States, m \in Names : q[r].values[m] # 0 =>
            \/ q[r].values[m] = p[r].values[m] /\ ~ (r = s /\ m = n)
            \/ q[r].values[m] = f /\ r = s /\ m = n
      BY <1>2, <2>2
    <3>3. QED
      BY <1>1, <1>3, <1>5, <3>1, <3>2 DEF Distinct
  <2>3. QED
    BY <2>1, <2>2 DEF f
<1>8. \A r \in States : q[r].correlation.id # 0 => q[r].createdAt # 0
  BY <1>2 DEF PayloadOK
<1>9. \A i \in Ids : Holds(q, i) => i <= f
  BY <1>1, <1>3, <1>6 DEF f
<1>10. QED
  BY <1>2, <1>6, <1>7, <1>8, <1>9 DEF PayloadOK, q, f

-----------------------------------------------------------------------------
(* Operations *)

Logins == [phase : {"none", "saved", "started", "over"}, until : Time]

\* The logins lg become lg2: only the one of a new save becomes active.
LoginsGoOn(lg, lg2, sv, sv2, at) ==
  /\ lg2 \in [Ids -> Logins]
  /\ \A i \in Ids : i <= sv => lg2[i] = lg[i] \/ ~Active(lg2[i])
  /\ \A i \in Ids : Active(lg2[i]) => i <= sv2 /\ lg2[i].until <= at + TTL
  /\ \A i \in Ids : lg2[i].phase = "started" => lg2[i] = lg[i]

\* An operation turns the payload p0 of a request into p, hands out the saves
\* ids and puts in at most the new one.  It takes out a started login only
\* when that is over or in its last second.
Edits(p0, p, ids, sv, sv2, lg2, at) ==
  /\ PayloadOK(p, sv2)
  /\ Timely(p, lg2)
  /\ \A i \in Ids : Holds(p, i) => Holds(p0, i) \/ i > sv
  /\ ids \subseteq Ids
  /\ \A i \in ids : Holds(p0, i) /\ ~Holds(p, i)
  /\ \A i \in Ids :
       lg2[i].phase = "started" /\ at + Second <= lg2[i].until /\ HoldsLogin(p0, i)
         => HoldsLogin(p, i)

\* A payload the operation does not touch stays in order.
LEMMA PayloadUntouched ==
  ASSUME NEW p, NEW sv \in Nat, NEW sv2 \in Nat, sv <= sv2, NEW lg, NEW lg2, NEW at,
         PayloadOK(p, sv), Timely(p, lg), LoginsGoOn(lg, lg2, sv, sv2, at)
  PROVE  PayloadOK(p, sv2) /\ Timely(p, lg2)
<1>1. \A i \in Ids : Holds(p, i) => i <= sv /\ i <= sv2
  BY DEF PayloadOK, Ids
<1>2. \A i \in Ids : HoldsLogin(p, i) => Holds(p, i)
  BY DEF HoldsLogin, Holds
<1>3. \A i \in Ids : HoldsLogin(p, i) => lg2[i] = lg[i] \/ ~Active(lg2[i])
  BY <1>1, <1>2 DEF LoginsGoOn
<1>4. Timely(p, lg2)
  BY <1>3 DEF Timely, HoldsLogin
<1>5. PayloadOK(p, sv2)
  BY <1>1 DEF PayloadOK
<1>6. QED
  BY <1>4, <1>5

\* So do the cookies and the other requests.
LEMMA CookieUntouched ==
  ASSUME NEW k, NEW sv \in Nat, NEW sv2 \in Nat, sv <= sv2, NEW lg, NEW lg2, NEW at,
         CookieOK(k, sv, lg), LoginsGoOn(lg, lg2, sv, sv2, at)
  PROVE  CookieOK(k, sv2, lg2)
<1>1. \A i \in Ids : HoldsLogin(k.payload, i) => i <= sv
  BY DEF CookieOK, PayloadOK, HoldsLogin, Holds
<1>2. \A i \in Ids : HoldsLogin(k.payload, i) => lg2[i] = lg[i] \/ ~Active(lg2[i])
  BY <1>1 DEF LoginsGoOn
<1>3. QED
  BY <1>2, PayloadUntouched DEF CookieOK

\* The same for requests.
LEMMA RequestUntouched ==
  ASSUME NEW r, NEW sv \in Nat, NEW sv2 \in Nat, sv <= sv2, NEW lg, NEW lg2, NEW at,
         RequestOK(r, sv, lg), LoginsGoOn(lg, lg2, sv, sv2, at)
  PROVE  RequestOK(r, sv2, lg2)
BY PayloadUntouched DEF RequestOK

\* The request after saveSessionPayload.
Goes(r, new, p, ids, hd, hd2, ag, ag2) ==
  /\ new \in Request
  /\ new.pc = r.pc
  /\ new.payload = p
  /\ \/ /\ new.set /\ new.reply = p /\ new.took = r.took \cup ids
        /\ hd2 = hd \cup ids /\ ag2 = ag \cup (ids \cap hd)
     \/ /\ new.set = r.set /\ new.reply = r.reply /\ new.took = r.took
        /\ hd2 = hd /\ ag2 = ag

\* What saveSessionPayload does.
LEMMA SaveSession ==
  ASSUME TypeOK, NEW t \in Tabs, NEW p \in payload, NEW ids, ids \subseteq Ids,
         Open(t), saveSessionPayload(t, p, ids)
  PROVE  \E new : /\ tab' = [tab EXCEPT ![t] = new]
                  /\ Goes(tab[t], new, p, ids, handed, handed', again, again')
<1> DEFINE r == tab[t]
           took == r.took \cup ids
           ops == r.ops + 1
           yes == [r EXCEPT !.payload = p, !.set = TRUE, !.reply = p,
                            !.took = took, !.ops = ops]
           no == [r EXCEPT !.payload = p, !.ops = ops]
<1>1. /\ r \in Request /\ took \subseteq Ids /\ ops \in 0..MaxOps
      /\ tab \in [Tabs -> Request]
  BY CookieAssumption DEF TypeOK, Request, Open
<1>2. tab' = [tab EXCEPT ![t] = IF Fits(p) THEN yes ELSE no]
  BY Zenon DEF saveSessionPayload
<1>3. CASE Fits(p)
  <2>1. tab' = [tab EXCEPT ![t] = yes]
    BY <1>2, <1>3, Zenon
  <2>2. handed' = handed \cup ids /\ again' = again \cup (ids \cap handed)
    BY <1>3 DEF saveSessionPayload, HandOut
  <2> HIDE DEF took, ops
  <2>3. /\ yes \in Request /\ yes.pc = r.pc /\ yes.payload = p
        /\ yes.set = TRUE /\ yes.reply = p /\ yes.took = took
    BY <1>1 DEF Request
  <2> HIDE DEF yes
  <2>4. QED
    BY <2>1, <2>2, <2>3 DEF Goes, took
<1>4. CASE ~Fits(p)
  <2>1. tab' = [tab EXCEPT ![t] = no]
    BY <1>2, <1>4, Zenon
  <2>2. handed' = handed /\ again' = again
    BY <1>4 DEF saveSessionPayload, HandOut
  <2> HIDE DEF took, ops
  <2>3. /\ no \in Request /\ no.pc = r.pc /\ no.payload = p
        /\ no.set = r.set /\ no.reply = r.reply /\ no.took = r.took
    BY <1>1 DEF Request
  <2> HIDE DEF no
  <2>4. QED
    BY <2>1, <2>2, <2>3 DEF Goes
<1>5. QED
  BY <1>3, <1>4

\* A step that is one operation of request t.
Operation(t, p, ids) ==
  /\ Open(t)
  /\ saveSessionPayload(t, p, ids)
  /\ saves' \in IdOrNone /\ saves <= saves'
  /\ LoginsGoOn(login, login', saves, saves', now)
  /\ Edits(tab[t].payload, p, ids, saves, saves', login', now)
  /\ UNCHANGED <<now, key, jar, lost>>

\* It keeps the general invariant ..
LEMMA OperationInv ==
  ASSUME Inv, NEW t \in Tabs, NEW p, NEW ids, Operation(t, p, ids)
  PROVE  Inv'
<1>1. p \in payload /\ ids \subseteq Ids
  BY DEF Operation, Edits, PayloadOK
<1>2. PICK new : /\ tab' = [tab EXCEPT ![t] = new]
                 /\ Goes(tab[t], new, p, ids, handed, handed', again, again')
  BY <1>1, SaveSession DEF Operation, Inv
<1>3. /\ saves \in Nat /\ saves' \in Nat /\ saves <= saves'
      /\ LoginsGoOn(login, login', saves, saves', now)
      /\ UNCHANGED <<now, key, jar, lost>>
  BY CookieAssumption DEF Operation, Inv, TypeOK, IdOrNone
<1>4. /\ tab \in [Tabs -> Request]
      /\ \A u \in Tabs : tab'[u] = IF u = t THEN new ELSE tab[u]
  BY <1>2 DEF Inv, TypeOK
<1>5. /\ handed' \subseteq handed \cup ids /\ handed \subseteq handed'
      /\ again' \subseteq again \cup handed
  BY <1>2 DEF Goes
<1>6. TypeOK'
  <2>1. tab' \in [Tabs -> Request]
    BY <1>2, <1>4 DEF Goes
  <2>2. saves' \in IdOrNone /\ login' \in [Ids -> Logins]
    BY DEF Operation, LoginsGoOn
  <2>3. handed' \subseteq Ids /\ again' \subseteq handed'
    BY <1>1, <1>5 DEF Inv, TypeOK
  <2>4. QED
    BY <1>3, <2>1, <2>2, <2>3 DEF Inv, TypeOK, Logins
<1>7. \A i \in ids : i <= saves
  <2>1. PayloadOK(tab[t].payload, saves)
    BY DEF Inv, PayloadsOK, RequestOK
  <2>2. QED
    BY <2>1 DEF Operation, Edits, PayloadOK
<1>8. handed' \subseteq 1..saves'
  BY <1>1, <1>3, <1>5, <1>7 DEF Inv, PayloadsOK, Ids
<1>9. \A b \in Browsers : CookieOK(jar'[b], saves', login')
  BY <1>3, CookieUntouched DEF Inv, PayloadsOK
<1>10. \A u \in Tabs : u # t => RequestOK(tab'[u], saves', login')
  BY <1>3, <1>4, RequestUntouched DEF Inv, PayloadsOK
<1>11. RequestOK(new, saves', login')
  <2>1. RequestOK(tab[t], saves', login')
    BY <1>3, RequestUntouched DEF Inv, PayloadsOK
  <2>2. PayloadOK(p, saves') /\ Timely(p, login')
    BY DEF Operation, Edits
  <2>3. new.pc # "idle"
    BY <1>2 DEF Goes, Operation, Open
  <2>4. QED
    BY <1>2, <2>1, <2>2, <2>3 DEF Goes, RequestOK
<1>12. QED
  BY <1>3, <1>4, <1>6, <1>8, <1>9, <1>10, <1>11 DEF Inv, PayloadsOK, LoginsGoOn

\* .. hands out again only what was lost ..
LEMMA OperationSpent ==
  ASSUME Inv, SpentInv, NEW t \in Tabs, NEW p, NEW ids, Operation(t, p, ids)
  PROVE  SpentInv'
<1>1. p \in payload /\ ids \subseteq Ids
  BY DEF Operation, Edits, PayloadOK
<1>2. PICK new : /\ tab' = [tab EXCEPT ![t] = new]
                 /\ Goes(tab[t], new, p, ids, handed, handed', again, again')
  BY <1>1, SaveSession DEF Operation, Inv
<1> DEFINE r == tab[t]
           k == jar[BrowserOf[t]]
<1>3. /\ \A u \in Tabs : tab'[u] = IF u = t THEN new ELSE tab[u]
      /\ jar' = jar /\ lost' = lost
      /\ handed \subseteq Ids /\ handed \subseteq 1..saves /\ saves \in Nat
  <2>1. tab \in [Tabs -> Request] /\ handed \subseteq Ids
    BY DEF Inv, TypeOK
  <2>2. \A u \in Tabs : tab'[u] = IF u = t THEN new ELSE tab[u]
    BY <1>2, <2>1
  <2>3. saves \in Nat
    BY CookieAssumption DEF Inv, TypeOK, IdOrNone
  <2>4. jar' = jar /\ lost' = lost /\ handed \subseteq 1..saves
    BY DEF Operation, Inv, PayloadsOK
  <2>5. QED
    BY <2>1, <2>2, <2>3, <2>4
<1>4. /\ \A i \in Ids : Holds(p, i) => Holds(r.payload, i) \/ i > saves
      /\ \A i \in ids : Holds(r.payload, i) /\ ~Holds(p, i)
  BY DEF Operation, Edits
<1>5. \A u \in Tabs, i \in Ids : Reach(tab[u], jar[BrowserOf[u]], i) => i <= saves
  BY CookieAssumption DEF Inv, PayloadsOK, RequestOK, CookieOK, PayloadOK, Reach
<1>6. /\ new.payload = p
      /\ new.reply = p \/ new.reply = r.reply
  BY <1>2 DEF Goes
<1>7. \A i \in Ids : Reach(new, k, i) => Reach(r, k, i) \/ i > saves
  BY <1>4, <1>6 DEF Reach
<1>8. Apart(tab', jar')
  <2> SUFFICES ASSUME NEW u \in Tabs, NEW v \in Tabs, u # v, NEW i \in Ids,
                      Reach(tab'[u], jar'[BrowserOf[u]], i),
                      Reach(tab'[v], jar'[BrowserOf[v]], i)
               PROVE  FALSE
    BY DEF Apart
  <2>1. ~ (i > saves)
    <3>1. PICK w \in {u, v} : w # t
      OBVIOUS
    <3>2. tab'[w] = tab[w] /\ jar' = jar
      BY <1>3, <3>1
    <3>3. i <= saves
      BY <1>5, <3>1, <3>2
    <3>4. QED
      BY <1>3, <3>3 DEF Ids
  <2>2. /\ Reach(tab[u], jar[BrowserOf[u]], i)
        /\ Reach(tab[v], jar[BrowserOf[v]], i)
    BY <1>3, <1>7, <2>1
  <2>3. QED
    BY <2>2 DEF SpentInv, Apart
<1>9. Spent(new, k, handed', lost)
  <2>1. Spent(r, k, handed, lost)
    BY DEF SpentInv
  <2>2. \A i \in handed : Holds(p, i) => i \in lost
    <3>1. \A i \in handed : ~ (i > saves)
      BY <1>3
    <3>2. QED
      BY <1>3, <1>4, <2>1, <3>1 DEF Spent
  <2>3. CASE /\ new.reply = p /\ new.took = r.took \cup ids
             /\ handed' = handed \cup ids
    BY <1>4, <1>6, <2>1, <2>2, <2>3 DEF Spent
  <2>4. CASE /\ new.reply = r.reply /\ new.took = r.took
             /\ handed' = handed
    BY <1>4, <1>6, <2>1, <2>2, <2>4 DEF Spent
  <2>5. QED
    BY <1>2, <2>3, <2>4 DEF Goes
<1>10. ASSUME NEW u \in Tabs, u # t
       PROVE  Spent(tab[u], jar[BrowserOf[u]], handed', lost)
  <2>1. handed' \subseteq handed \cup ids /\ handed \subseteq handed'
    BY <1>2 DEF Goes
  <2>2. \A i \in ids : ~Reach(tab[u], jar[BrowserOf[u]], i)
    BY <1>1, <1>4, <1>10 DEF SpentInv, Apart, Reach
  <2>3. Spent(tab[u], jar[BrowserOf[u]], handed, lost)
    BY DEF SpentInv
  <2>4. QED
    BY <2>1, <2>2, <2>3 DEF Spent, Reach
<1>11. ReplayNeedsLoss'
  <2>1. again' \subseteq again \cup (ids \cap handed)
    BY <1>2 DEF Goes
  <2>2. \A i \in ids \cap handed : i \in lost
    BY <1>4 DEF SpentInv, Spent
  <2>3. QED
    BY <1>3, <2>1, <2>2 DEF SpentInv, ReplayNeedsLoss
<1>12. QED
  BY <1>3, <1>8, <1>9, <1>10, <1>11 DEF SpentInv

\* .. and loses no started login.
LEMMA OperationKept ==
  ASSUME Inv, KeptInv, NEW t \in Tabs, NEW p, NEW ids, Operation(t, p, ids)
  PROVE  KeptInv'
<1>1. p \in payload /\ ids \subseteq Ids
  BY DEF Operation, Edits, PayloadOK
<1>2. PICK new : /\ tab' = [tab EXCEPT ![t] = new]
                 /\ Goes(tab[t], new, p, ids, handed, handed', again, again')
  BY <1>1, SaveSession DEF Operation, Inv
<1>3. /\ \A u \in Tabs : tab'[u] = IF u = t THEN new ELSE tab[u]
      /\ jar' = jar /\ now' = now /\ key' = key
  BY <1>2 DEF Inv, TypeOK, Operation
<1> SUFFICES ASSUME NEW i \in Ids, login'[i].phase = "started",
                    now + Second <= login'[i].until
             PROVE  \E u \in Tabs : Kept(tab'[u], jar[BrowserOf[u]], i, key)
  BY <1>3 DEF KeptInv, StartedKept
<1>4. login'[i] = login[i]
  BY DEF Operation, LoginsGoOn
<1>5. PICK u \in Tabs : Kept(tab[u], jar[BrowserOf[u]], i, key)
  BY <1>4 DEF KeptInv, StartedKept
<1>6. CASE u = t
  <2>1. HoldsLogin(p, i)
    BY <1>5, <1>6 DEF Operation, Open, Edits, Kept
  <2>2. Kept(new, jar[BrowserOf[t]], i, key)
    BY <1>2, <1>5, <1>6, <2>1 DEF Goes, Kept, Operation, Open
  <2>3. QED
    BY <1>3, <2>2
<1>7. CASE u # t
  BY <1>3, <1>5, <1>7
<1>8. QED
  BY <1>6, <1>7

-----------------------------------------------------------------------------
(* What the operations put in and take out *)

\* Logins that are over, and nothing else.
LEMMA OverGoesOn ==
  ASSUME Inv, NEW ids, Over(ids)
  PROVE  LoginsGoOn(login, login', saves, saves, now)
<1>1. LoginOver \in Logins /\ LoginOver.phase = "over"
  BY DEF LoginOver, Logins, Time
<1>2. login \in [Ids -> Logins]
  BY DEF Inv, TypeOK, Logins
<1>3. /\ login' \in [Ids -> Logins]
      /\ \A i \in Ids : login'[i] = IF i \in ids THEN LoginOver ELSE login[i]
  BY <1>1, <1>2 DEF Over
<1>4. QED
  BY <1>1, <1>3 DEF LoginsGoOn, Active, Inv, PayloadsOK

\* The logins as they are.
LEMMA SameGoesOn ==
  ASSUME Inv, NEW sv \in IdOrNone, saves <= sv
  PROVE  LoginsGoOn(login, login, saves, sv, now)
<1>1. login \in [Ids -> Logins]
  BY DEF Inv, TypeOK, Logins
<1>2. \A i \in Ids : i <= saves => i <= sv
  BY CookieAssumption DEF Inv, TypeOK, IdOrNone, Ids
<1>3. QED
  BY <1>1, <1>2 DEF LoginsGoOn, Inv, PayloadsOK

\* The payload of a request that can be worked on.
LEMMA OpenPayload ==
  ASSUME Inv, NEW t \in Tabs
  PROVE  /\ PayloadOK(tab[t].payload, saves)
         /\ tab[t].payload \in payload
         /\ Distinct(tab[t].payload)
         /\ Timely(tab[t].payload, login)
         /\ saves \in Nat /\ saves \in IdOrNone /\ now \in Nat
BY CookieAssumption DEF Inv, TypeOK, PayloadsOK, RequestOK, PayloadOK, IdOrNone, Time

\* An entry that has expired belongs to a login in its last second.
LEMMA ExpiredIsOver ==
  ASSUME NEW p, NEW sv, PayloadOK(p, sv), NEW lg \in [Ids -> Logins], Timely(p, lg),
         NEW s \in States, NEW at \in Nat, isExpired(p[s], at),
         NEW i \in Ids, p[s].correlation.id = i, Active(lg[i])
  PROVE  ~ (at + Second <= lg[i].until)
<1> DEFINE c == p[s].correlation
<1>1. /\ c.createdAt \in Nat /\ c.expiry \in Nat
  BY PayloadFields DEF PayloadOK
<1>2. /\ c.createdAt # 0
      /\ lg[i].until < c.createdAt + TTL + Second
      /\ c.expiry # 0 => lg[i].until < c.expiry + Second
  BY DEF Timely
<1>3. lg[i].until \in Nat /\ TTL \in Nat /\ Second \in Nat
  BY CookieAssumption DEF Logins, Time
<1>4. \/ c.createdAt + TTL < at
      \/ c.expiry # 0 /\ c.expiry < at
  BY <1>2 DEF isExpired
<1> HIDE DEF c
<1>5. QED
  BY <1>1, <1>2, <1>3, <1>4

\* The logins that are not over keep a payload in order.
LEMMA TimelyGoesOn ==
  ASSUME Inv, NEW p, PayloadOK(p, saves), Timely(p, login),
         LoginsGoOn(login, login', saves, saves, now)
  PROVE  Timely(p, login')
<1>1. saves \in Nat /\ saves <= saves
  BY CookieAssumption DEF Inv, TypeOK, IdOrNone
<1>2. QED
  BY <1>1, PayloadUntouched

\* An operation that takes state s out and ends its login, handing it out or
\* not.
LEMMA RemoveOperation ==
  ASSUME Inv, NEW t \in Tabs, NEW s \in States, NEW ids,
         ids = {} \/ (/\ ids = {tab[t].payload[s].correlation.id}
                      /\ tab[t].payload[s].correlation.id # 0),
         Open(t), saveSessionPayload(t, [tab[t].payload EXCEPT ![s] = NoState], ids),
         Over({tab[t].payload[s].correlation.id}),
         UNCHANGED <<now, key, jar, saves, lost>>
  PROVE  Operation(t, [tab[t].payload EXCEPT ![s] = NoState], ids)
<1> DEFINE p0 == tab[t].payload
           p == [p0 EXCEPT ![s] = NoState]
           c == p0[s].correlation.id
<1>1. /\ PayloadOK(p0, saves) /\ Timely(p0, login)
      /\ p0 \in payload /\ Distinct(p0)
      /\ saves \in Nat /\ saves \in IdOrNone
  BY OpenPayload
<1>2. /\ TakesOut(p0, p)
      /\ \A i \in Ids : /\ c = i => ~Holds(p, i)
                        /\ c # i /\ HoldsLogin(p0, i) => HoldsLogin(p, i)
  BY <1>1, RemoveOK
<1>3. LoginsGoOn(login, login', saves, saves, now)
  BY OverGoesOn
<1>4. c \in IdOrNone
  BY <1>1, PayloadFields
<1>5. \A i \in Ids : i = c => Holds(p0, i) /\ login'[i].phase # "started"
  <2>1. \A i \in Ids : i = c => login'[i] = LoginOver
    BY DEF Over
  <2>2. QED
    BY <2>1 DEF Holds, LoginOver
<1> HIDE DEF p, c
<1>6. /\ PayloadOK(p, saves) /\ Timely(p, login)
      /\ \A i \in Ids : Holds(p, i) => Holds(p0, i)
  BY <1>1, <1>2, TakesOutOK
<1>7. Timely(p, login')
  BY <1>3, <1>6, TimelyGoesOn
<1>8. ids \subseteq Ids /\ \A i \in ids : i = c
  BY <1>4, CookieAssumption DEF c, IdOrNone, Ids
<1>9. Edits(p0, p, ids, saves, saves, login', now)
  BY <1>2, <1>5, <1>6, <1>7, <1>8 DEF Edits
<1>10. QED
  BY <1>1, <1>3, <1>9 DEF Operation, p

\* An operation that takes value n out, handing it out or not.
LEMMA DropOperation ==
  ASSUME Inv, NEW t \in Tabs, NEW s \in States, NEW n \in Names, NEW ids,
         ids = {} \/ (/\ ids = {tab[t].payload[s].values[n]}
                      /\ tab[t].payload[s].values[n] # 0),
         Open(t), saveSessionPayload(t, DropValue(tab[t].payload, s, n), ids),
         UNCHANGED <<now, key, jar, saves, login, lost>>
  PROVE  Operation(t, DropValue(tab[t].payload, s, n), ids)
<1> DEFINE p0 == tab[t].payload
           p == DropValue(p0, s, n)
           v == p0[s].values[n]
<1>1. /\ PayloadOK(p0, saves) /\ Timely(p0, login)
      /\ p0 \in payload /\ Distinct(p0)
      /\ saves \in Nat /\ saves \in IdOrNone
  BY OpenPayload
<1>2. /\ TakesOut(p0, p)
      /\ \A i \in Ids : /\ v = i => ~Holds(p, i)
                        /\ HoldsLogin(p0, i) => HoldsLogin(p, i)
  BY <1>1, DropValueOK
<1>3. LoginsGoOn(login, login', saves, saves, now)
  BY <1>1, SameGoesOn
<1>4. v \in IdOrNone
  BY <1>1, PayloadFields
<1>5. \A i \in Ids : i = v => Holds(p0, i)
  BY DEF Holds
<1> HIDE DEF p, v
<1>6. /\ PayloadOK(p, saves) /\ Timely(p, login')
      /\ \A i \in Ids : Holds(p, i) => Holds(p0, i)
  BY <1>1, <1>2, TakesOutOK
<1>7. ids \subseteq Ids /\ \A i \in ids : i = v
  BY <1>4, CookieAssumption DEF v, IdOrNone, Ids
<1>8. Edits(p0, p, ids, saves, saves, login', now)
  BY <1>2, <1>5, <1>6, <1>7 DEF Edits
<1>9. QED
  BY <1>1, <1>3, <1>8 DEF Operation, p

\* SaveValue takes out an expired state and puts in a new value.
LEMMA SaveValueOperation ==
  ASSUME Inv, NEW t \in Tabs, NEW s \in States, NEW n \in Names, SaveValue(t, s, n)
  PROVE  \E p : Operation(t, p, {})
<1> DEFINE p0 == tab[t].payload
           old == IF isExpired(p0[s], now) THEN NoState ELSE p0[s]
           vs == [old.values EXCEPT ![n] = saves + 1]
           at == IF old.createdAt = 0 THEN Unix(now) ELSE old.createdAt
           e == [correlation |-> old.correlation, values |-> vs, createdAt |-> at]
           p == [p0 EXCEPT ![s] = e]
<1>1. /\ Open(t)
      /\ saves < MaxSaves
      /\ saves' = saves + 1
      /\ saveSessionPayload(t, p, {})
      /\ UNCHANGED <<now, key, jar, login, lost>>
  BY DEF SaveValue
<1>2. /\ PayloadOK(p0, saves) /\ Timely(p0, login)
      /\ p0 \in payload /\ Distinct(p0)
      /\ saves \in Nat /\ saves \in IdOrNone /\ now \in Nat
  BY OpenPayload
<1>3. saves + 1 \in Ids /\ saves + 1 \in IdOrNone /\ saves <= saves + 1
  BY <1>1, <1>2, CookieAssumption DEF Ids, IdOrNone
<1>4. /\ old \in payloadState
      /\ old.correlation = p0[s].correlation \/ old.correlation = NoCorrelation
      /\ \A m \in Names : old.values[m] = p0[s].values[m] \/ old.values[m] = 0
      /\ old.correlation.id # 0 => ~isExpired(p0[s], now) /\ old = p0[s]
  BY <1>2, PayloadFields, Records
<1>5. old.correlation.id # 0 => old.createdAt # 0
  BY <1>2, <1>4 DEF PayloadOK
<1>6. now >= Second /\ Unix(now) \in Nat /\ Unix(now) # 0
  BY <1>2, UnixFacts DEF Inv, PayloadsOK
<1> HIDE DEF old
<1>7. /\ vs \in [Names -> IdOrNone]
      /\ vs[n] = saves + 1
      /\ \A m \in Names : m # n => vs[m] = old.values[m]
  BY <1>3, <1>4 DEF payloadState
<1>8. at \in Nat /\ at # 0
  BY <1>4, <1>6 DEF payloadState, Time
<1> HIDE DEF vs, at
<1>9. /\ e \in payloadState
      /\ e.correlation = old.correlation /\ e.values = vs /\ e.createdAt = at
  BY <1>4, <1>7, <1>8 DEF payloadState, Time
<1> HIDE DEF e
<1>10. /\ PayloadOK(p, saves + 1)
       /\ \A i \in Ids : Holds(p, i) => Holds(p0, i) \/ i = saves + 1
  BY <1>2, <1>3, <1>4, <1>7, <1>8, <1>9, PutOK
<1>11. \A r \in States : p[r] = IF r = s THEN e ELSE p0[r]
  BY <1>2, <1>9 DEF payload
<1> HIDE DEF p
<1>12. LoginsGoOn(login, login', saves, saves', now)
  BY <1>1, <1>3, SameGoesOn
<1>13. Timely(p, login')
  <2>1. NoCorrelation.id = 0 /\ \A i \in Ids : i # 0
    BY Records DEF Ids
  <2>2. \A r \in States : p[r].correlation = p0[r].correlation \/ p[r].correlation.id = 0
    BY <1>4, <1>9, <1>11, <2>1
  <2>3. QED
    BY <1>1, <1>2, <2>1, <2>2 DEF Timely
<1>14. ASSUME NEW i \in Ids, login[i].phase = "started", now + Second <= login[i].until,
              HoldsLogin(p0, i)
       PROVE  HoldsLogin(p, i)
  <2>1. PICK r \in States : p0[r].correlation.id = i
    BY <1>14 DEF HoldsLogin
  <2>2. CASE r # s
    BY <1>11, <2>1, <2>2 DEF HoldsLogin
  <2>3. CASE r = s
    <3>1. ~isExpired(p0[s], now)
      <4>1. login \in [Ids -> Logins] /\ Active(login[i])
        BY <1>14 DEF Inv, TypeOK, Logins, Active
      <4>2. QED
        BY <1>2, <1>14, <2>1, <2>3, <4>1, ExpiredIsOver
    <3>2. old = p0[s]
      BY <3>1 DEF old
    <3>3. p[s].correlation.id = i
      BY <1>9, <1>11, <2>1, <2>3, <3>2
    <3>4. QED
      BY <3>3 DEF HoldsLogin
  <2>4. QED
    BY <2>2, <2>3
<1>15. Edits(p0, p, {}, saves, saves', login', now)
  <2>1. \A i \in Ids : i = saves + 1 => i > saves
    BY <1>2
  <2>2. QED
    BY <1>1, <1>10, <1>13, <1>14, <2>1 DEF Edits
<1>16. Operation(t, p, {})
  BY <1>1, <1>3, <1>12, <1>15 DEF Operation
<1>17. QED
  BY <1>16

\* SaveCorrelation puts in a new correlation, and ends the login it replaces.
LEMMA SaveCorrelationOperation ==
  ASSUME Inv, NEW t \in Tabs, NEW s \in States, NEW x \in Expiries,
         SaveCorrelation(t, s, x)
  PROVE  \E p : Operation(t, p, {})
<1> DEFINE p0 == tab[t].payload
           old == p0[s]
           i == saves + 1
           c == [id |-> i, createdAt |-> Unix(now), expiry |-> Unix(x)]
           at == IF old.createdAt = 0 THEN Unix(now) ELSE old.createdAt
           e == [correlation |-> c, values |-> old.values, createdAt |-> at]
           p == [p0 EXCEPT ![s] = e]
           until == IF x # 0 /\ x < now + TTL THEN x ELSE now + TTL
<1>1. /\ Open(t)
      /\ saves < MaxSaves
      /\ saves' = i
      /\ saveSessionPayload(t, p, {})
      /\ login' = [j \in Ids |->
                     IF j = i /\ Fits(p) THEN [phase |-> "saved", until |-> until]
                     ELSE IF j = old.correlation.id
                     THEN LoginOver
                     ELSE login[j]]
      /\ UNCHANGED <<now, key, jar, lost>>
  BY DEF SaveCorrelation
<1>2. /\ PayloadOK(p0, saves) /\ Timely(p0, login)
      /\ p0 \in payload /\ Distinct(p0)
      /\ saves \in Nat /\ saves \in IdOrNone /\ now \in Nat
  BY OpenPayload
<1>3. i \in Ids /\ i \in IdOrNone /\ saves <= i
  BY <1>1, <1>2, CookieAssumption DEF Ids, IdOrNone
<1>4. x \in Nat /\ (x # 0 => x >= now)
  BY <1>2, CookieAssumption DEF Expiries
<1>5. /\ now >= Second /\ Second \in Nat /\ TTL \in Nat
      /\ Unix(now) \in Nat /\ Unix(now) # 0 /\ now < Unix(now) + Second
      /\ Unix(x) \in Nat /\ x < Unix(x) + Second
      /\ x = 0 => Unix(x) = 0
  BY <1>2, <1>4, UnixFacts, CookieAssumption DEF Inv, PayloadsOK
<1>6. /\ old \in payloadState /\ old.values \in [Names -> IdOrNone]
      /\ old.createdAt \in Nat
  BY <1>2, PayloadFields
<1>7. at \in Nat /\ at # 0
  BY <1>5, <1>6
<1> HIDE DEF at, i
<1>8. /\ c \in payloadCorrelation /\ c.id = i /\ c.createdAt = Unix(now)
      /\ c.expiry = Unix(x)
  BY <1>3, <1>5 DEF payloadCorrelation, Time
<1> HIDE DEF c
<1>9. /\ e \in payloadState
      /\ e.correlation = c /\ e.values = old.values /\ e.createdAt = at
  BY <1>6, <1>7, <1>8 DEF payloadState, Time
<1> HIDE DEF e
<1>10. /\ PayloadOK(p, i)
       /\ \A j \in Ids : Holds(p, j) => Holds(p0, j) \/ j = i
  BY <1>2, <1>3, <1>7, <1>8, <1>9, PutOK DEF i
<1>11. \A r \in States : p[r] = IF r = s THEN e ELSE p0[r]
  BY <1>2, <1>9 DEF payload
<1> HIDE DEF p
<1>12. /\ until \in Nat /\ until <= now + TTL
       /\ until < Unix(now) + TTL + Second
       /\ Unix(x) # 0 => until < Unix(x) + Second
  BY <1>2, <1>4, <1>5
<1> HIDE DEF until
<1> DEFINE new == [phase |-> "saved", until |-> until]
<1>13. /\ new \in Logins /\ new.phase = "saved" /\ new.until = until
       /\ LoginOver \in Logins /\ LoginOver.phase = "over"
  BY <1>12 DEF Logins, LoginOver, Time
<1>14. /\ login \in [Ids -> Logins]
       /\ login' = [j \in Ids |-> IF j = i /\ Fits(p) THEN new
                                  ELSE IF j = old.correlation.id THEN LoginOver
                                  ELSE login[j]]
  BY <1>1 DEF Inv, TypeOK, Logins
<1> HIDE DEF new
<1>15. /\ login' \in [Ids -> Logins]
       /\ \A j \in Ids : \/ login'[j] = new /\ j = i
                         \/ login'[j] = LoginOver
                         \/ login'[j] = login[j] /\ j # old.correlation.id
  BY <1>13, <1>14
<1>16. LoginsGoOn(login, login', saves, saves', now)
  <2>1. \A j \in Ids : j <= saves => j # i /\ j <= i
    BY <1>2 DEF i, Ids
  <2>2. i <= i
    BY <1>2 DEF i
  <2>3. QED
    BY <1>1, <1>12, <1>13, <1>15, <2>1, <2>2 DEF LoginsGoOn, Active, Inv, PayloadsOK
<1>17. Timely(p, login')
  <2>1. ASSUME NEW r \in States, r # s, NEW j \in Ids, p[r].correlation.id = j,
               Active(login'[j])
        PROVE  p0[r].correlation = p[r].correlation /\ login'[j] = login[j]
    <3>1. p[r] = p0[r]
      BY <1>11, <2>1
    <3>2. j <= saves
      BY <1>2, <2>1, <3>1 DEF PayloadOK, Holds
    <3>3. j # i
      BY <1>2, <3>2 DEF i, Ids
    <3>4. QED
      BY <1>13, <1>15, <2>1, <3>1, <3>3 DEF Active
  <2>2. ASSUME NEW j \in Ids, p[s].correlation.id = j, Active(login'[j])
        PROVE  j = i /\ (login'[j] = new \/ login'[j] = login[j])
    BY <1>8, <1>9, <1>11, <1>13, <1>15, <2>2 DEF Active
  <2>3. ~Active(login[i])
    <3>1. ~ (i <= saves)
      BY <1>2 DEF i
    <3>2. QED
      BY <1>3, <3>1 DEF Inv, PayloadsOK
  <2>4. ASSUME NEW j \in Ids, p[s].correlation.id = j, Active(login'[j])
        PROVE  /\ p[s].correlation.createdAt # 0
               /\ login'[j].until < p[s].correlation.createdAt + TTL + Second
               /\ p[s].correlation.expiry # 0 =>
                    login'[j].until < p[s].correlation.expiry + Second
    BY <1>5, <1>8, <1>9, <1>11, <1>12, <1>13, <2>2, <2>3, <2>4
  <2>5. QED
    BY <1>2, <2>1, <2>4 DEF Timely
<1>18. ASSUME NEW j \in Ids, login'[j].phase = "started", HoldsLogin(p0, j)
       PROVE  HoldsLogin(p, j)
  <2>1. j # old.correlation.id
    BY <1>13, <1>15, <1>18
  <2>2. QED
    BY <1>11, <1>18, <2>1 DEF HoldsLogin
<1>19. Edits(p0, p, {}, saves, saves', login', now)
  <2>1. \A j \in Ids : j = i => j > saves
    BY <1>2 DEF i
  <2>2. QED
    BY <1>1, <1>10, <1>17, <1>18, <2>1 DEF Edits
<1>20. Operation(t, p, {})
  BY <1>1, <1>3, <1>16, <1>19 DEF Operation
<1>21. QED
  BY <1>20

\* Every operation of a handler.
Operations(t) ==
  \E s \in States :
    \/ \E x \in Expiries : SaveCorrelation(t, s, x)
    \/ ConsumeCorrelation(t, s)
    \/ DeleteState(t, s)
    \/ \E n \in Names :
         SaveValue(t, s, n) \/ DeleteValue(t, s, n) \/ ConsumeValue(t, s, n)

\* All of them are operations in the sense above.
LEMMA OperationsAre ==
  ASSUME Inv, NEW t \in Tabs, Operations(t)
  PROVE  \E p, ids : Operation(t, p, ids)
<1> PICK s \in States :
      \/ \E x \in Expiries : SaveCorrelation(t, s, x)
      \/ ConsumeCorrelation(t, s)
      \/ DeleteState(t, s)
      \/ \E n \in Names :
           SaveValue(t, s, n) \/ DeleteValue(t, s, n) \/ ConsumeValue(t, s, n)
  BY Zenon DEF Operations
<1> DEFINE p0 == tab[t].payload
           rest == [p0 EXCEPT ![s] = NoState]
           c == p0[s].correlation.id
<1>1. CASE \E x \in Expiries : SaveCorrelation(t, s, x)
  BY <1>1, SaveCorrelationOperation
<1>2. CASE ConsumeCorrelation(t, s)
  <2>1. /\ Open(t) /\ Over({c}) /\ UNCHANGED <<now, key, jar, saves, lost>>
        /\ \/ saveSessionPayload(t, rest, {})
           \/ c # 0 /\ saveSessionPayload(t, rest, {c})
    BY <1>2 DEF ConsumeCorrelation
  <2>2. QED
    BY <2>1, RemoveOperation
<1>3. CASE DeleteState(t, s)
  <2>1. /\ Open(t) /\ Over({c}) /\ UNCHANGED <<now, key, jar, saves, lost>>
        /\ saveSessionPayload(t, rest, {})
    BY <1>3 DEF DeleteState
  <2>2. QED
    BY <2>1, RemoveOperation
<1>4. ASSUME NEW n \in Names, SaveValue(t, s, n)
      PROVE  \E p, ids : Operation(t, p, ids)
  BY <1>4, SaveValueOperation
<1>5. ASSUME NEW n \in Names, DeleteValue(t, s, n)
      PROVE  \E p, ids : Operation(t, p, ids)
  <2>1. /\ Open(t) /\ UNCHANGED <<now, key, jar, saves, login, lost>>
        /\ saveSessionPayload(t, DropValue(p0, s, n), {})
    BY <1>5 DEF DeleteValue
  <2>2. QED
    BY <2>1, DropOperation
<1>6. ASSUME NEW n \in Names, ConsumeValue(t, s, n)
      PROVE  \E p, ids : Operation(t, p, ids)
  <2>1. Open(t) /\ UNCHANGED <<now, key, jar, saves, lost>>
    BY <1>6 DEF ConsumeValue
  <2>2. \/ saveSessionPayload(t, rest, {}) /\ Over({c})
        \/ /\ p0[s].values[n] # 0
           /\ saveSessionPayload(t, DropValue(p0, s, n), {p0[s].values[n]})
           /\ UNCHANGED login
    BY <1>6 DEF ConsumeValue
  <2>3. QED
    BY <2>1, <2>2, RemoveOperation, DropOperation
<1>7. QED
  BY <1>1, <1>2, <1>3, <1>4, <1>5, <1>6

-----------------------------------------------------------------------------
(* Browser, clock and server process *)

\* A request that is over.
LEMMA IdleOK ==
  ASSUME NEW sv, NEW lg
  PROVE  /\ RequestOK(Idle, sv, lg)
         /\ Idle.pc = "idle" /\ Idle.took = {}
         /\ Idle.payload = Empty /\ Idle.reply = Empty
<1>1. /\ Idle.pc = "idle" /\ Idle.took = {} /\ Idle.set = FALSE
      /\ Idle.payload = Empty /\ Idle.reply = Empty
  BY DEF Idle
<1>2. QED
  BY <1>1, EmptyOK DEF RequestOK

\* Time passes.
LEMMA TickStep ==
  ASSUME Inv, Tick
  PROVE  Inv' /\ (SpentInv => SpentInv') /\ (KeptInv => KeptInv')
<1>1. /\ now \in Nat /\ now' = now + 1 /\ now' \in Nat
      /\ TTL \in Nat /\ Second \in Nat
      /\ UNCHANGED <<key, jar, tab, saves, login, handed, again, lost>>
  BY CookieAssumption DEF Tick, Inv, TypeOK, Time
<1>2. \A i \in Ids : login[i].until \in Nat
  BY DEF Inv, TypeOK, Time
<1>3. TypeOK'
  BY <1>1 DEF Inv, TypeOK, Time
<1>4. /\ now' >= Second
      /\ \A i \in Ids : login[i].until <= now + TTL => login[i].until <= now' + TTL
      /\ \A i \in Ids : now' + Second <= login[i].until => now + Second <= login[i].until
  BY <1>1, <1>2 DEF Inv, PayloadsOK
<1>5. PayloadsOK'
  BY <1>1, <1>4 DEF Inv, PayloadsOK
<1>6. SpentInv => SpentInv'
  BY <1>1 DEF SpentInv, ReplayNeedsLoss
<1>7. KeptInv => KeptInv'
  BY <1>1, <1>4 DEF KeptInv, StartedKept
<1>8. QED
  BY <1>3, <1>5, <1>6, <1>7 DEF Inv

\* A request that ends without a response, and a server that is restarted.
LEMMA EndStep ==
  ASSUME Inv, Restart \/ \E t \in Tabs : Lose(t)
  PROVE  Inv' /\ (SpentInv => SpentInv') /\ (KeptInv => KeptInv')
<1>1. /\ UNCHANGED <<now, jar, saves, handed, again>>
      /\ key' \in 0..MaxKey
      /\ saves \in Nat
  BY CookieAssumption DEF Restart, Lose, Inv, TypeOK, IdOrNone
<1>0. LoginsGoOn(login, login', saves, saves, now)
  <2>1. saves \in IdOrNone /\ saves <= saves
    BY CookieAssumption DEF Inv, TypeOK, IdOrNone
  <2>2. login' = login \/ Over(1..saves)
    BY DEF Restart, Lose
  <2>3. QED
    BY <2>1, <2>2, OverGoesOn, SameGoesOn
<1>2. \A u \in Tabs :
        \/ tab'[u] = Idle /\ tab[u].took \subseteq lost'
        \/ tab'[u] = tab[u]
  <2>1. CASE Restart
    BY <2>1 DEF Restart
  <2>2. ASSUME NEW t \in Tabs, Lose(t)
        PROVE  \A u \in Tabs : \/ tab'[u] = Idle /\ tab[u].took \subseteq lost'
                               \/ tab'[u] = tab[u]
    BY <2>2 DEF Lose, Inv, TypeOK
  <2>3. QED
    BY <2>1, <2>2
<1>3. lost \subseteq lost' /\ lost' \subseteq Ids
  <2>1. \A u \in Tabs : tab[u].took \subseteq Ids
    BY DEF Inv, TypeOK, Request
  <2>2. QED
    BY <2>1 DEF Restart, Lose, Inv, TypeOK
<1>4. tab' \in [Tabs -> Request]
  <2>1. tab \in [Tabs -> Request] /\ Idle \in Request
    BY Records DEF Inv, TypeOK
  <2>2. QED
    BY <2>1 DEF Restart, Lose
<1>5. TypeOK'
  BY <1>0, <1>1, <1>3, <1>4 DEF Inv, TypeOK, LoginsGoOn, Logins
<1>6. PayloadsOK'
  <2>1. \A b \in Browsers : CookieOK(jar[b], saves, login')
    BY <1>0, <1>1, CookieUntouched DEF Inv, PayloadsOK
  <2>2. \A u \in Tabs : RequestOK(tab'[u], saves, login')
    <3>1. \A u \in Tabs : RequestOK(tab[u], saves, login')
      BY <1>0, <1>1, RequestUntouched DEF Inv, PayloadsOK
    <3>2. QED
      BY <1>2, <3>1, IdleOK
  <2>3. \A i \in Ids : Active(login'[i]) => i <= saves /\ login'[i].until <= now + TTL
    BY <1>0 DEF LoginsGoOn
  <2>4. QED
    BY <1>1, <2>1, <2>2, <2>3 DEF Inv, PayloadsOK
<1>7. SpentInv => SpentInv'
  <2> SUFFICES ASSUME SpentInv PROVE SpentInv'
    OBVIOUS
  <2>1. \A u \in Tabs, i \in Ids :
          Reach(tab'[u], jar[BrowserOf[u]], i) => Reach(tab[u], jar[BrowserOf[u]], i)
    BY <1>2, IdleOK, EmptyOK DEF Reach
  <2>2. Apart(tab', jar')
    BY <1>1, <2>1 DEF SpentInv, Apart
  <2>3. ASSUME NEW u \in Tabs PROVE Spent(tab'[u], jar[BrowserOf[u]], handed, lost')
    <3>1. Spent(tab[u], jar[BrowserOf[u]], handed, lost) /\ handed \subseteq Ids
      BY DEF SpentInv, Inv, TypeOK
    <3>2. CASE tab'[u] = tab[u]
      BY <1>3, <3>1, <3>2 DEF Spent
    <3>3. CASE tab'[u] = Idle /\ tab[u].took \subseteq lost'
      BY <1>3, <3>1, <3>3, IdleOK, EmptyOK DEF Spent
    <3>4. QED
      BY <1>2, <3>2, <3>3
  <2>4. ReplayNeedsLoss'
    BY <1>1, <1>3 DEF SpentInv, ReplayNeedsLoss
  <2>5. QED
    BY <1>1, <2>2, <2>3, <2>4 DEF SpentInv
<1>8. KeptInv => KeptInv'
  <2>1. CASE Restart
    <3>1. \A i \in Ids : login'[i].phase # "started"
      <4>1. \A i \in Ids : login'[i] = IF i \in 1..saves THEN LoginOver ELSE login[i]
        BY <2>1 DEF Restart, Over
      <4>2. \A i \in Ids : login[i].phase = "started" => i \in 1..saves
        BY <1>1 DEF Inv, PayloadsOK, Active, Ids
      <4>3. LoginOver.phase = "over"
        BY DEF LoginOver
      <4>4. QED
        BY <4>1, <4>2, <4>3
    <3>2. QED
      BY <3>1 DEF KeptInv, StartedKept
  <2>2. CASE \E t \in Tabs : Lose(t)
    <3>1. login' = login /\ key' = key
      BY <2>2 DEF Lose
    <3>2. QED
      BY <1>1, <1>2, <3>1, IdleOK DEF KeptInv, StartedKept, Kept
  <2>3. QED
    BY <2>1, <2>2
<1>9. QED
  BY <1>5, <1>6, <1>7, <1>8 DEF Inv

\* A request goes out with a copy of the cookie.
LEMMA LoadStep ==
  ASSUME Inv, NEW t \in Tabs, loadSessionPayload(t)
  PROVE  Inv' /\ (SpentInv => SpentInv') /\ (KeptInv => KeptInv')
<1> DEFINE k == jar[BrowserOf[t]]
           alive == now < k.expires
           valid == ~alive \/ k.key = key
           p == IF alive THEN k.payload ELSE Empty
           new == [Idle EXCEPT !.pc = "sent", !.valid = valid, !.payload = p]
<1>1. /\ tab[t].pc = "idle"
      /\ tab' = [tab EXCEPT ![t] = new]
      /\ UNCHANGED <<now, key, jar, saves, login, handed, again, lost>>
  BY DEF loadSessionPayload
<1>2. /\ BrowserOf[t] \in Browsers /\ k \in Cookie /\ CookieOK(k, saves, login)
      /\ tab[t] = Idle /\ tab \in [Tabs -> Request]
  BY <1>1, CookieAssumption DEF Inv, TypeOK, PayloadsOK, RequestOK
<1>3. /\ p \in payload /\ PayloadOK(p, saves) /\ Timely(p, login)
      /\ \A i \in Ids : Holds(p, i) => Holds(k.payload, i)
  BY <1>2, EmptyOK, Records DEF CookieOK, Cookie
<1>4. alive => p = k.payload
  OBVIOUS
<1>5. valid \in BOOLEAN
  OBVIOUS
<1> HIDE DEF p, valid
<1>6. /\ new \in Request /\ new.pc = "sent" /\ new.payload = p /\ new.set = FALSE
      /\ new.reply = Empty /\ new.took = {}
  BY <1>3, <1>5, Records DEF Idle, Request
<1> HIDE DEF new
<1>7. \A u \in Tabs : tab'[u] = IF u = t THEN new ELSE tab[u]
  BY <1>1, <1>2
<1>8. TypeOK'
  BY <1>1, <1>2, <1>6 DEF Inv, TypeOK
<1>9. RequestOK(new, saves, login)
  BY <1>3, <1>6, EmptyOK DEF RequestOK
<1>10. PayloadsOK'
  BY <1>1, <1>7, <1>9 DEF Inv, PayloadsOK
<1>11. SpentInv => SpentInv'
  <2> SUFFICES ASSUME SpentInv PROVE SpentInv'
    OBVIOUS
  <2>1. \A i \in Ids : Reach(new, k, i) => Reach(tab[t], k, i)
    BY <1>3, <1>6, EmptyOK DEF Reach
  <2>2. Apart(tab', jar')
    BY <1>1, <1>7, <2>1 DEF SpentInv, Apart
  <2>3. Spent(new, k, handed, lost)
    <3>1. Spent(tab[t], k, handed, lost) /\ handed \subseteq Ids
      BY DEF SpentInv, Inv, TypeOK
    <3>2. \A i \in handed : Holds(k.payload, i) => i \in lost
      BY <1>2, <3>1, IdleOK DEF Spent
    <3>3. QED
      BY <1>3, <1>6, <3>1, <3>2, EmptyOK DEF Spent
  <2>4. QED
    BY <1>1, <1>7, <2>2, <2>3 DEF SpentInv, ReplayNeedsLoss
<1>12. KeptInv => KeptInv'
  <2> SUFFICES ASSUME KeptInv, NEW i \in Ids, login[i].phase = "started",
                      now + Second <= login[i].until
               PROVE  \E u \in Tabs : Kept(tab'[u], jar[BrowserOf[u]], i, key)
    BY <1>1 DEF KeptInv, StartedKept
  <2>1. PICK u \in Tabs : Kept(tab[u], jar[BrowserOf[u]], i, key)
    BY DEF KeptInv, StartedKept
  <2>2. CASE u # t
    BY <1>7, <2>1, <2>2
  <2>3. CASE u = t
    <3>1. HoldsLogin(k.payload, i) /\ k.key = key
      BY <2>1, <2>3 DEF Kept
    <3>2. login[i].until <= k.expires
      BY <1>2, <3>1 DEF CookieOK, Active
    <3>3. alive
      <4>1. now \in Nat /\ login[i].until \in Nat /\ k.expires \in Nat /\ Second \in Nat
            /\ Second > 0
        BY <1>2, CookieAssumption DEF Inv, TypeOK, Cookie, Time
      <4>2. QED
        BY <3>2, <4>1
    <3>4. Kept(new, k, i, key)
      BY <1>4, <1>6, <3>1, <3>3 DEF Kept
    <3>5. QED
      BY <1>7, <3>4
  <2>4. QED
    BY <2>2, <2>3
<1>13. QED
  BY <1>8, <1>10, <1>11, <1>12 DEF Inv

\* A browser has one request in flight at a time.
OneRequestPerBrowser ==
  \A t, u \in Tabs : BrowserOf[t] = BrowserOf[u] => t = u

\* The cookie k of a browser after the response to r.
NewCookie(r, k, at, key0) ==
  IF ~r.set THEN k
  ELSE IF Present(r.reply) = {} THEN NoCookie
  ELSE [payload |-> r.reply, expires |-> at + MaxAge, key |-> key0]

\* What is known of it.
LEMMA NewCookieFields ==
  ASSUME NEW r \in Request, NEW k \in Cookie, NEW at \in Nat, NEW key0 \in 0..MaxKey,
         NEW sv, NEW lg, RequestOK(r, sv, lg)
  PROVE  LET k2 == NewCookie(r, k, at, key0)
         IN /\ k2 \in Cookie
            /\ \/ ~r.set /\ k2 = k
               \/ /\ r.set /\ k2.payload = Empty
                  /\ \A i \in Ids : ~HoldsLogin(r.reply, i)
               \/ /\ r.set /\ k2.payload = r.reply /\ k2.expires = at + MaxAge
                  /\ k2.key = key0
<1> DEFINE k2 == NewCookie(r, k, at, key0)
           c == [payload |-> r.reply, expires |-> at + MaxAge, key |-> key0]
<1>1. CASE ~r.set
  BY <1>1 DEF NewCookie
<1>2. CASE r.set /\ Present(r.reply) = {}
  <2>1. k2 = NoCookie /\ NoCookie.payload = Empty
    BY <1>2 DEF NewCookie, NoCookie
  <2>2. \A s \in States : r.reply[s].correlation.id = 0
    BY <1>2 DEF Present, RequestOK, PayloadOK
  <2>3. \A i \in Ids : ~HoldsLogin(r.reply, i)
    BY <2>2 DEF HoldsLogin, Ids
  <2>4. QED
    BY <1>2, <2>1, <2>3, Records
<1>3. CASE r.set /\ Present(r.reply) # {}
  <2>1. k2 = c
    BY <1>3 DEF NewCookie
  <2>2. c \in Cookie /\ c.payload = r.reply /\ c.expires = at + MaxAge /\ c.key = key0
    BY MaxAgeFacts DEF Cookie, Request, Time
  <2> HIDE DEF c, k2
  <2>3. QED
    BY <1>3, <2>1, <2>2 DEF k2
<1>4. QED
  BY <1>1, <1>2, <1>3

\* The response arrives.
LEMMA ReceiveStep ==
  ASSUME Inv, NEW t \in Tabs, Receive(t)
  PROVE  /\ Inv'
         /\ OneRequestPerBrowser /\ SpentInv => SpentInv'
         /\ OneRequestPerBrowser /\ KeptInv => KeptInv'
<1> DEFINE b == BrowserOf[t]
           r == tab[t]
           k == jar[b]
           k2 == NewCookie(r, k, now, key)
<1>1. /\ r.pc = "sent"
      /\ jar' = [jar EXCEPT ![b] = k2]
      /\ tab' = [tab EXCEPT ![t] = Idle]
      /\ UNCHANGED <<now, key, saves, handed, again, lost>>
  BY DEF Receive, NewCookie
<1>2. /\ b \in Browsers /\ k \in Cookie /\ r \in Request
      /\ now \in Nat /\ key \in 0..MaxKey
      /\ RequestOK(r, saves, login) /\ CookieOK(k, saves, login)
      /\ tab \in [Tabs -> Request] /\ jar \in [Browsers -> Cookie]
      /\ login \in [Ids -> Logins]
  BY CookieAssumption DEF Inv, TypeOK, PayloadsOK, Time, Logins
<1>3. /\ k2 \in Cookie
      /\ \/ ~r.set /\ k2 = k
         \/ /\ r.set /\ k2.payload = Empty
            /\ \A i \in Ids : ~HoldsLogin(r.reply, i)
         \/ /\ r.set /\ k2.payload = r.reply /\ k2.expires = now + MaxAge
            /\ k2.key = key
  BY <1>2, NewCookieFields
<1>4. login' = [i \in Ids |->
                  IF r.set /\ i \in {r.reply[s].correlation.id : s \in States}
                       /\ login[i].phase = "saved"
                  THEN [login[i] EXCEPT !.phase = "started"] ELSE login[i]]
  BY DEF Receive
<1> HIDE DEF k2
<1>5. /\ login' \in [Ids -> Logins]
      /\ \A i \in Ids :
           /\ login'[i].until = login[i].until
           /\ Active(login'[i]) => Active(login[i])
           /\ login'[i].phase = "started" =>
                \/ login[i].phase = "started"
                \/ r.set /\ HoldsLogin(r.reply, i)
  <2> SUFFICES ASSUME NEW i \in Ids
               PROVE  /\ login'[i] \in Logins
                      /\ login'[i].until = login[i].until
                      /\ Active(login'[i]) => Active(login[i])
                      /\ login'[i].phase = "started" =>
                           \/ login[i].phase = "started"
                           \/ r.set /\ HoldsLogin(r.reply, i)
    BY <1>4
  <2>1. \/ login'[i] = login[i]
        \/ /\ login'[i] = [login[i] EXCEPT !.phase = "started"]
           /\ login[i].phase = "saved"
           /\ r.set /\ \E s \in States : r.reply[s].correlation.id = i
    BY <1>4
  <2>2. QED
    BY <1>2, <2>1 DEF Logins, Active, HoldsLogin
<1>6. /\ \A u \in Tabs : tab'[u] = IF u = t THEN Idle ELSE tab[u]
      /\ \A a \in Browsers : jar'[a] = IF a = b THEN k2 ELSE jar[a]
  BY <1>1, <1>2
<1>7. TypeOK'
  <2>1. tab' \in [Tabs -> Request] /\ jar' \in [Browsers -> Cookie]
    BY <1>1, <1>2, <1>3, Records
  <2>2. QED
    BY <1>1, <1>5, <2>1 DEF Inv, TypeOK, Logins
<1>8. ASSUME NEW p, Timely(p, login) PROVE Timely(p, login')
  BY <1>5, <1>8 DEF Timely
<1>9. ASSUME NEW c, CookieOK(c, saves, login) PROVE CookieOK(c, saves, login')
  BY <1>5, <1>8, <1>9 DEF CookieOK
<1>10. ASSUME NEW q, RequestOK(q, saves, login) PROVE RequestOK(q, saves, login')
  BY <1>8, <1>10 DEF RequestOK
<1>11. CookieOK(k2, saves, login)
  <2>1. CASE k2 = k
    BY <1>2, <2>1
  <2>2. CASE k2.payload = Empty
    BY <2>2, EmptyOK DEF CookieOK
  <2>3. CASE k2.payload = r.reply /\ k2.expires = now + MaxAge
    <3>1. \A i \in Ids : Active(login[i]) => login[i].until <= now + MaxAge
      <4>1. \A i \in Ids : login[i].until \in Nat
        BY <1>2 DEF Logins, Time
      <4>2. TTL \in Nat
        BY CookieAssumption
      <4>3. QED
        BY <1>2, <4>1, <4>2, MaxAgeFacts DEF Inv, PayloadsOK
    <3>2. QED
      BY <1>2, <2>3, <3>1 DEF CookieOK, RequestOK
  <2>4. QED
    BY <1>3, <2>1, <2>2, <2>3
<1>12. PayloadsOK'
  <2>1. \A a \in Browsers : CookieOK(jar'[a], saves, login')
    BY <1>6, <1>9, <1>11 DEF Inv, PayloadsOK
  <2>2. \A u \in Tabs : RequestOK(tab'[u], saves, login')
    BY <1>6, <1>10, IdleOK DEF Inv, PayloadsOK
  <2>3. QED
    BY <1>1, <1>5, <2>1, <2>2 DEF Inv, PayloadsOK
<1>13. ASSUME OneRequestPerBrowser, NEW u \in Tabs, u # t
       PROVE  jar'[BrowserOf[u]] = jar[BrowserOf[u]] /\ tab'[u] = tab[u]
  BY <1>6, <1>13, CookieAssumption DEF OneRequestPerBrowser
<1>14. jar'[b] = k2 /\ tab'[t] = Idle
  BY <1>2, <1>6
<1>15. ASSUME OneRequestPerBrowser, SpentInv PROVE SpentInv'
  <2>1. \A i \in Ids : Holds(k2.payload, i) => Holds(k.payload, i) \/ Holds(r.reply, i)
    BY <1>3, EmptyOK
  <2>2. \A i \in Ids : Reach(Idle, k2, i) => Reach(r, k, i)
    BY <2>1, IdleOK, EmptyOK DEF Reach
  <2>3. \A u \in Tabs, i \in Ids :
          Reach(tab'[u], jar'[BrowserOf[u]], i) => Reach(tab[u], jar[BrowserOf[u]], i)
    BY <1>13, <1>14, <1>15, <2>2
  <2>4. Apart(tab', jar')
    BY <1>15, <2>3 DEF SpentInv, Apart
  <2>5. Spent(Idle, k2, handed, lost)
    <3>1. Spent(r, k, handed, lost) /\ handed \subseteq Ids
      BY <1>15 DEF SpentInv, Inv, TypeOK
    <3>2. ~r.set => r.took = {}
      BY <1>2 DEF RequestOK
    <3>3. \A i \in handed : Holds(k2.payload, i) => i \in lost
      BY <1>3, <3>1, <3>2, EmptyOK DEF Spent
    <3>4. QED
      BY <3>1, <3>3, IdleOK, EmptyOK DEF Spent
  <2>6. \A u \in Tabs : Spent(tab'[u], jar'[BrowserOf[u]], handed, lost)
    BY <1>13, <1>14, <1>15, <2>5 DEF SpentInv
  <2>7. QED
    BY <1>1, <1>15, <2>4, <2>6 DEF SpentInv, ReplayNeedsLoss
<1>16. ASSUME OneRequestPerBrowser, KeptInv PROVE KeptInv'
  <2> SUFFICES ASSUME NEW i \in Ids, login'[i].phase = "started",
                      now + Second <= login'[i].until
               PROVE  \E u \in Tabs : Kept(tab'[u], jar'[BrowserOf[u]], i, key)
    BY <1>1 DEF KeptInv, StartedKept
  <2>1. CASE r.set /\ HoldsLogin(r.reply, i)
    <3>1. Kept(Idle, k2, i, key)
      BY <1>3, <2>1, IdleOK DEF Kept
    <3>2. QED
      BY <1>14, <3>1
  <2>2. CASE login[i].phase = "started"
    <3>1. PICK u \in Tabs : Kept(tab[u], jar[BrowserOf[u]], i, key)
      BY <1>5, <1>16, <2>2 DEF KeptInv, StartedKept
    <3>2. CASE u # t
      BY <1>13, <1>16, <3>1, <3>2
    <3>3. CASE u = t
      <4>1. Kept(Idle, k2, i, key)
        BY <1>1, <1>3, <3>1, <3>3, IdleOK DEF Kept
      <4>2. QED
        BY <1>14, <4>1
    <3>4. QED
      BY <3>2, <3>3
  <2>3. QED
    BY <1>5, <2>1, <2>2
<1>17. QED
  BY <1>7, <1>12, <1>15, <1>16 DEF Inv

-----------------------------------------------------------------------------
(* The invariants *)

\* The first state: empty jars, no request.
LEMMA InitInv == Init => Inv /\ SpentInv /\ KeptInv
<1> SUFFICES ASSUME Init PROVE Inv /\ SpentInv /\ KeptInv
  OBVIOUS
<1>1. /\ NoLogin \in Logins /\ ~Active(NoLogin) /\ NoLogin.phase = "none"
      /\ NoCookie.payload = Empty
  BY DEF NoLogin, Logins, Active, Time, NoCookie
<1>2. /\ login = [i \in Ids |-> NoLogin] /\ jar = [c \in Browsers |-> NoCookie]
      /\ tab = [t \in Tabs |-> Idle]
      /\ handed = {} /\ again = {} /\ lost = {} /\ saves = 0 /\ now = Second /\ key = 0
  BY DEF Init
<1>3. TypeOK
  <2>1. /\ now \in Time /\ key \in 0..MaxKey /\ saves \in IdOrNone
    BY <1>2, CookieAssumption DEF Time, IdOrNone
  <2>2. jar \in [Browsers -> Cookie] /\ tab \in [Tabs -> Request]
    BY <1>2, Records
  <2>3. login \in [Ids -> [phase : {"none", "saved", "started", "over"}, until : Time]]
    BY <1>1, <1>2 DEF Logins
  <2>4. QED
    BY <1>2, <2>1, <2>2, <2>3 DEF TypeOK
<1>4. PayloadsOK
  <2>1. CookieOK(NoCookie, saves, login)
    BY <1>1, EmptyOK DEF CookieOK
  <2>2. now >= Second
    BY <1>2, CookieAssumption
  <2>3. QED
    BY <1>1, <1>2, <2>1, <2>2, IdleOK DEF PayloadsOK
<1>5. SpentInv
  <2>1. \A t \in Tabs : tab[t] = Idle /\ jar[BrowserOf[t]] = NoCookie
    BY <1>2, CookieAssumption
  <2>2. \A i \in Ids : ~Reach(Idle, NoCookie, i)
    BY <1>1, IdleOK, EmptyOK DEF Reach
  <2>3. Apart(tab, jar)
    BY <2>1, <2>2 DEF Apart
  <2>4. QED
    BY <1>2, <2>1, <2>3, IdleOK DEF SpentInv, Spent, ReplayNeedsLoss
<1>6. KeptInv
  BY <1>1, <1>2 DEF KeptInv, StartedKept
<1>7. QED
  BY <1>3, <1>4, <1>5, <1>6 DEF Inv

\* Every step keeps the first, and with one request per browser the others.
LEMMA StepInv ==
  ASSUME Inv, [Next]_vars
  PROVE  /\ Inv'
         /\ OneRequestPerBrowser /\ SpentInv => SpentInv'
         /\ OneRequestPerBrowser /\ KeptInv => KeptInv'
<1>1. CASE Tick
  BY <1>1, TickStep
<1>2. CASE Restart \/ \E t \in Tabs : Lose(t)
  BY <1>2, EndStep
<1>3. ASSUME NEW t \in Tabs, loadSessionPayload(t) \/ Receive(t)
      PROVE  /\ Inv'
             /\ OneRequestPerBrowser /\ SpentInv => SpentInv'
             /\ OneRequestPerBrowser /\ KeptInv => KeptInv'
  BY <1>3, LoadStep, ReceiveStep
<1>4. ASSUME NEW t \in Tabs, Operations(t)
      PROVE  Inv' /\ (SpentInv => SpentInv') /\ (KeptInv => KeptInv')
  <2>1. PICK p, ids : Operation(t, p, ids)
    BY <1>4, OperationsAre
  <2>2. QED
    BY <2>1, OperationInv, OperationSpent, OperationKept
<1>5. CASE UNCHANGED vars
  BY <1>5 DEF vars, Inv, TypeOK, PayloadsOK, SpentInv, KeptInv, ReplayNeedsLoss
<1>6. QED
  BY <1>1, <1>2, <1>3, <1>4, <1>5 DEF Next, Operations

\* A started login can be finished.
LEMMA KeptFinishes == Inv /\ KeptInv => InitiatorCanFinish
<1> SUFFICES ASSUME Inv, KeptInv, NEW i \in Ids, login[i].phase = "started",
                    now + Second <= login[i].until
             PROVE  \E b \in Browsers :
                      /\ now < jar[b].expires /\ jar[b].key = key
                      /\ \E s \in States : jar[b].payload[s].correlation.id = i
                                           /\ ~isExpired(jar[b].payload[s], now)
  BY DEF InitiatorCanFinish
<1>1. PICK t \in Tabs : Kept(tab[t], jar[BrowserOf[t]], i, key)
  BY DEF KeptInv, StartedKept
<1> DEFINE k == jar[BrowserOf[t]]
<1>2. /\ BrowserOf[t] \in Browsers /\ k \in Cookie /\ CookieOK(k, saves, login)
      /\ Active(login[i]) /\ login \in [Ids -> Logins]
  BY CookieAssumption DEF Inv, TypeOK, PayloadsOK, Active, Logins
<1>3. PICK s \in States : k.payload[s].correlation.id = i
  BY <1>1 DEF Kept, HoldsLogin
<1>4. now < k.expires
  <2>1. login[i].until <= k.expires
    BY <1>1, <1>2 DEF Kept, CookieOK
  <2>2. /\ now \in Nat /\ login[i].until \in Nat /\ k.expires \in Nat
        /\ Second \in Nat /\ Second > 0
    BY <1>2, CookieAssumption DEF Inv, TypeOK, Cookie, Time
  <2>3. QED
    BY <2>1, <2>2
<1>5. ~isExpired(k.payload[s], now)
  BY <1>2, <1>3, ExpiredIsOver DEF CookieOK, Inv, TypeOK, Time
<1>6. k.key = key
  BY <1>1 DEF Kept
<1>7. QED
  BY <1>2, <1>3, <1>4, <1>5, <1>6

-----------------------------------------------------------------------------
(* Theorems *)

\* Every reachable state is well typed, whatever requests overlap.
THEOREM TypeCorrect == Spec => []TypeOK
<1>1. Inv /\ [Next]_vars => Inv'
  BY StepInv
<1>2. Inv => TypeOK
  BY DEF Inv
<1>3. QED
  BY <1>1, <1>2, InitInv, PTL DEF Spec

\* A browser that sends one request at a time is handed a correlation or a value
\* a second time only if the response to the first time was lost, however
\* operations fail for want of room and servers restart.
THEOREM ReplayOnlyAfterLoss ==
  ASSUME OneRequestPerBrowser
  PROVE  Spec => []ReplayNeedsLoss
<1>1. Inv /\ SpentInv /\ [Next]_vars => Inv' /\ SpentInv'
  BY StepInv
<1>2. SpentInv => ReplayNeedsLoss
  BY DEF SpentInv
<1>3. QED
  BY <1>1, <1>2, InitInv, PTL DEF Spec

\* A login whose redirect has reached such a browser stays in a cookie that is
\* alive and that the server can decode, until the last second of the login's
\* lifetime or the next change of the key: neither rounding to seconds nor the
\* age of the cookie nor another operation ends it.
THEOREM InitiatorFinishes ==
  ASSUME OneRequestPerBrowser
  PROVE  Spec => []InitiatorCanFinish
<1>1. Inv /\ KeptInv /\ [Next]_vars => Inv' /\ KeptInv'
  BY StepInv
<1>2. QED
  BY <1>1, InitInv, KeptFinishes, PTL DEF Spec
=============================================================================
