------------------------- MODULE MemoryStoreProofs --------------------------
(***************************************************************************)
(* Proofs about rp/store/memory for every set of states, names, browsers,  *)
(* tabs and goroutines, every TTL and capacity, and any number of saves.   *)
(***************************************************************************)
EXTENDS MemoryStore, FiniteSetTheorems, TLAPS

-----------------------------------------------------------------------------
(* The inductive invariant *)

\* In store m after k saves, with hand-out counts h: every save sits in at most
\* one place, is not newer than k, and has not been handed out while there.
PlacesOK(m, k, h) ==
  /\ \A s \in States :
       /\ m[s].correlation.id <= k
       /\ m[s].correlation.id # 0 => h[m[s].correlation.id] = 0
  /\ \A s \in States, n \in Names :
       /\ m[s].values[n] <= k
       /\ m[s].values[n] # 0 => h[m[s].values[n]] = 0
  /\ \A s, u \in States :
       m[s].correlation.id # 0 /\ m[s].correlation.id = m[u].correlation.id => s = u
  /\ \A s, u \in States, n \in Names :
       m[s].values[n] # 0 => m[s].values[n] # m[u].correlation.id
  /\ \A s, u \in States, n, p \in Names :
       m[s].values[n] # 0 /\ m[s].values[n] = m[u].values[p] => s = u /\ n = p

SavesInv ==
  /\ PlacesOK(items, saves, handed)
  /\ \A i \in Ids : i > saves => handed[i] = 0

\* In store m after k saves of owners o: a bound entry's token was drawn by a
\* save of the browser that owns its correlation, an unbound entry's
\* correlation has no owner, and values never have one.
BindingsOK(m, k, o) ==
  /\ \A s \in States :
       /\ m[s].binding # 0 =>
            /\ m[s].binding \in 1..k
            /\ m[s].correlation.id # 0
            /\ o[m[s].binding] = o[m[s].correlation.id]
       /\ m[s].correlation.id # 0 /\ m[s].binding = 0 =>
            o[m[s].correlation.id] = NoBrowser
  /\ \A s \in States, n \in Names :
       m[s].values[n] # 0 => o[m[s].values[n]] = NoBrowser

\* Token k was drawn by save k, so owner[k] is the one browser that may hold
\* it: in its jar, in its requests and responses, and in its entries.
TokensInv ==
  /\ \A i \in Ids : i > saves => owner[i] = NoBrowser
  /\ \A b \in Browsers :
       jar[b].token # 0 => jar[b].token \in 1..saves /\ owner[jar[b].token] = b
  /\ \A t \in Tabs :
       tab[t].token # 0 =>
         tab[t].token \in 1..saves /\ owner[tab[t].token] = BrowserOf[t]
  /\ BindingsOK(items, saves, owner)

Inv == TypeOK /\ SavesInv /\ AtMostOnce /\ TokensInv /\ BindingRespected

-----------------------------------------------------------------------------
(* Facts about the helpers *)

\* The zero entry is an entry.
LEMMA ZeroEntryType == ZeroEntry \in StateEntry
BY StoreAssumption
   DEF ZeroEntry, ZeroCorrelation, StateEntry, Correlation, Time, IdOrNone

\* Deleting keys leaves every other entry as it was.
LEMMA WithoutFacts ==
  ASSUME NEW m \in [States -> StateEntry], NEW S
  PROVE  /\ Without(m, S) \in [States -> StateEntry]
         /\ \A s \in States : Without(m, S)[s] = m[s] \/ Without(m, S)[s] = ZeroEntry
         /\ \A s \in States \cap S : Without(m, S)[s] = ZeroEntry
BY ZeroEntryType DEF Without

\* The sweep changes nothing about the entries it keeps.
LEMMA SweepFacts ==
  ASSUME NEW m \in [States -> StateEntry], NEW r \in sweepLocked(m)
  PROVE  /\ r \in [States -> StateEntry]
         /\ \A s \in States : r[s] = m[s] \/ r[s] = ZeroEntry
<1>1. PICK S : r = Without(m, S)
  BY DEF sweepLocked
<1>2. QED
  BY <1>1, WithoutFacts

\* What DropValue leaves is an entry that lost value n and nothing else, or
\* nothing at all.
LEMMA DropValueFacts ==
  ASSUME NEW e \in StateEntry, NEW n \in Names
  PROVE  /\ DropValue(e, n) \in StateEntry
         /\ \/ DropValue(e, n) = ZeroEntry
            \/ /\ DropValue(e, n).present = e.present
               /\ DropValue(e, n).correlation = e.correlation
               /\ DropValue(e, n).binding = e.binding
               /\ DropValue(e, n).values = [e.values EXCEPT ![n] = 0]
BY ZeroEntryType, StoreAssumption DEF DropValue, StateEntry, IdOrNone

-----------------------------------------------------------------------------
(* Type correctness *)

\* The first state is well typed.
LEMMA InitType == New => TypeOK
BY StoreAssumption, ZeroEntryType
   DEF New, TypeOK, NoCookie, IdleTab, IdleLoad, Ids, IdOrNone, Agents, Time

\* StoreCorrelation keeps the store and the counter well typed.
LEMMA StoreCorrelationType ==
  ASSUME TypeOK, NEW s \in States, NEW c \in CallerTimes, NEW x \in Expiries,
         NEW k \in Nat, StoreCorrelation(s, c, x, k)
  PROVE  /\ items' \in [States -> StateEntry]
         /\ saves' \in IdOrNone
         /\ saves + 1 \in Ids
<1> DEFINE at == IF c = 0 THEN now ELSE c
           corr == [id |-> saves + 1, createdAt |-> at, expiry |-> x]
           old == items[s]
           entry == [present |-> TRUE, correlation |-> corr,
                     values |-> old.values,
                     createdAt |-> IF old.createdAt = 0 THEN at ELSE old.createdAt,
                     binding |-> k]
           m == [items EXCEPT ![s] = entry]
<1>1. saves' = saves + 1 /\ saves < MaxSaves /\ items' \in sweepLocked(m)
  BY DEF StoreCorrelation
<1>2. at \in Nat /\ x \in Nat /\ saves + 1 \in Ids /\ saves + 1 \in IdOrNone
  BY <1>1, StoreAssumption DEF TypeOK, Time, CallerTimes, Expiries, Ids, IdOrNone
<1>3. corr \in Correlation
  BY <1>2 DEF Correlation, Time
<1>4. entry \in StateEntry
  BY <1>2, <1>3 DEF TypeOK, StateEntry, Time
<1>5. m \in [States -> StateEntry]
  BY <1>4 DEF TypeOK
<1>6. items' \in [States -> StateEntry]
  BY <1>1, <1>5, SweepFacts
<1>7. QED
  BY <1>1, <1>2, <1>6

\* The bookkeeping of a Consume operation keeps the histories well typed.
LEMMA HandOutType ==
  ASSUME TypeOK, NEW i \in IdOrNone, NEW b \in Agents,
         UNCHANGED <<handed, taker>> \/ HandOut(i, b)
  PROVE  handed' \in [IdOrNone -> Nat] /\ taker' \in [Ids -> Agents]
<1>1. CASE UNCHANGED <<handed, taker>>
  BY <1>1 DEF TypeOK
<1>2. CASE HandOut(i, b)
  <2>0. handed' = [handed EXCEPT ![i] = handed[i] + 1]
    BY <1>2 DEF HandOut
  <2>1. handed' \in [IdOrNone -> Nat]
    BY <2>0 DEF TypeOK
  <2>2. taker' = taker \/ taker' = [taker EXCEPT ![i] = b]
    BY <1>2 DEF HandOut
  <2>3. taker' \in [Ids -> Agents]
    BY <2>2 DEF TypeOK
  <2>4. QED
    BY <2>1, <2>3
<1>3. QED
  BY <1>1, <1>2

\* What an entry holds was saved.
LEMMA HeldType ==
  ASSUME TypeOK, NEW s \in States
  PROVE  Held(s) \subseteq Ids
<1>1. /\ items[s].correlation.id \in IdOrNone
      /\ \A n \in Names : items[s].values[n] \in IdOrNone
  BY DEF TypeOK, StateEntry, Correlation
<1>2. IdOrNone \ {0} \subseteq Ids
  BY StoreAssumption DEF IdOrNone, Ids
<1>3. QED
  BY <1>1, <1>2 DEF Held

\* Every step keeps the state well typed.
LEMMA StepType == TypeOK /\ [Next]_vars => TypeOK'
<1> SUFFICES ASSUME TypeOK, [Next]_vars PROVE TypeOK'
  OBVIOUS
<1> USE StoreAssumption
<1>1. CASE Tick
  BY <1>1 DEF Tick, TypeOK, Time
<1>2. ASSUME NEW t \in Tabs, SendLogin(t) PROVE TypeOK'
  BY <1>2 DEF SendLogin, TypeOK, bindingCookieValue, Time
<1>3. ASSUME NEW t \in Tabs, ReceiveCookie(t) PROVE TypeOK'
  BY <1>3 DEF ReceiveCookie, TypeOK, IdleTab, Time
<1>4. ASSUME NEW s \in States, NEW c \in CallerTimes, NEW x \in Expiries,
             SaveCorrelationUnbound(s, c, x)
      PROVE  TypeOK'
  BY <1>4, StoreCorrelationType DEF SaveCorrelationUnbound, TypeOK
<1>5. ASSUME NEW s \in States, NEW c \in CallerTimes, NEW x \in Expiries,
             NEW t \in Tabs, SaveCorrelation(t, s, c, x)
      PROVE  TypeOK'
  <2> DEFINE k == IF tab[t].token # 0 THEN tab[t].token ELSE saves + 1
  <2>1. k \in Nat /\ StoreCorrelation(s, c, x, k)
    BY <1>5 DEF SaveCorrelation, TypeOK, IdOrNone
  <2>2. /\ items' \in [States -> StateEntry]
        /\ saves' \in IdOrNone
        /\ saves + 1 \in Ids
    BY <2>1, StoreCorrelationType
  <2>3. tab' \in [Tabs -> [pc : {"idle", "sent", "replied"}, token : Nat]]
    BY <1>5, <2>1 DEF SaveCorrelation, TypeOK
  <2>4. owner' \in [Ids -> Agents]
    BY <1>5, <2>2 DEF SaveCorrelation, TypeOK, Agents
  <2>5. QED
    BY <1>5, <2>2, <2>3, <2>4 DEF SaveCorrelation, TypeOK
<1>6. ASSUME NEW s \in States, NEW b \in Agents, ConsumeCorrelation(s, b)
      PROVE  TypeOK'
  <2>0. /\ items' = Without(items, {s})
        /\ UNCHANGED <<handed, taker>> \/ HandOut(items[s].correlation.id, b)
    BY <1>6, Zenon DEF ConsumeCorrelation
  <2>1. items' \in [States -> StateEntry]
    BY <2>0, WithoutFacts DEF TypeOK
  <2>2. items[s].correlation.id \in IdOrNone
    BY DEF TypeOK, StateEntry, Correlation
  <2>3. handed' \in [IdOrNone -> Nat] /\ taker' \in [Ids -> Agents]
    BY <2>0, <2>2, HandOutType
  <2>4. QED
    BY <1>6, <2>1, <2>3 DEF ConsumeCorrelation, TypeOK
<1>7. ASSUME NEW s \in States, DeleteState(s) PROVE TypeOK'
  <2>1. Held(s) \subseteq Ids
    BY HeldType
  <2>2. deleted' \subseteq Ids
    BY <1>7, <2>1 DEF DeleteState, TypeOK
  <2>3. QED
    BY <1>7, <2>2, WithoutFacts DEF DeleteState, TypeOK
<1>8. ASSUME NEW s \in States, NEW n \in Names, SaveValue(s, n) PROVE TypeOK'
  BY <1>8 DEF SaveValue, TypeOK, StateEntry, Time, IdOrNone
<1>9. ASSUME NEW s \in States, NEW n \in Names, DeleteValue(s, n) PROVE TypeOK'
  <2>1. {items[s].values[n]} \ {0} \subseteq Ids
    BY HeldType DEF Held
  <2>2. deleted' \subseteq Ids
    BY <1>9, <2>1 DEF DeleteValue, TypeOK
  <2>3. QED
    BY <1>9, <2>2, DropValueFacts DEF DeleteValue, TypeOK
<1>10. ASSUME NEW s \in States, NEW n \in Names, NEW b \in Agents,
              ConsumeValue(s, n, b)
       PROVE  TypeOK'
  <2>0. /\ \/ items' = Without(items, {s})
           \/ items' = [items EXCEPT ![s] = DropValue(@, n)]
        /\ UNCHANGED <<handed, taker>> \/ HandOut(items[s].values[n], b)
    BY <1>10, Zenon DEF ConsumeValue
  <2>1. items' \in [States -> StateEntry]
    <3>1. CASE items' = Without(items, {s})
      BY <3>1, WithoutFacts DEF TypeOK
    <3>2. CASE items' = [items EXCEPT ![s] = DropValue(@, n)]
      BY <3>2, DropValueFacts DEF TypeOK
    <3>3. QED
      BY <2>0, <3>1, <3>2
  <2>2. items[s].values[n] \in IdOrNone
    BY DEF TypeOK, StateEntry
  <2>3. handed' \in [IdOrNone -> Nat] /\ taker' \in [Ids -> Agents]
    BY <2>0, <2>2, HandOutType
  <2>4. QED
    BY <1>10, <2>1, <2>3 DEF ConsumeValue, TypeOK
<1>11. ASSUME NEW w \in Workers, NEW s \in States, LoadStateRead(w, s)
       PROVE  TypeOK'
  BY <1>11 DEF LoadStateRead, TypeOK, PendingLoad
<1>12. ASSUME NEW w \in Workers, NEW s \in States, LoadValueRead(w, s)
       PROVE  TypeOK'
  BY <1>12 DEF LoadValueRead, TypeOK, PendingLoad
<1>13. ASSUME NEW w \in Workers, LoadStateFinish(w) PROVE TypeOK'
  BY <1>13, WithoutFacts DEF LoadStateFinish, TypeOK
<1>14. ASSUME NEW w \in Workers, LoadValueFinish(w) PROVE TypeOK'
  BY <1>14, WithoutFacts DEF LoadValueFinish, TypeOK
<1>15. CASE UNCHANGED vars
  BY <1>15 DEF vars, TypeOK
<1>16. QED
  BY <1>1, <1>2, <1>3, <1>4, <1>5, <1>6, <1>7, <1>8, <1>9, <1>10, <1>11,
     <1>12, <1>13, <1>14, <1>15 DEF Next

\* The store, the cookie jars, the requests in flight and the histories keep
\* their types in every reachable state.
THEOREM TypeCorrect == Spec => []TypeOK
BY InitType, StepType, PTL DEF Spec

-----------------------------------------------------------------------------
(* Operations that only remove things from the store *)

\* Store r is store m with some entries and some values removed.
Thinner(r, m) ==
  /\ r \in [States -> StateEntry]
  /\ \A s \in States :
       \/ r[s] = ZeroEntry
       \/ /\ r[s].present = m[s].present
          /\ r[s].correlation = m[s].correlation
          /\ r[s].binding = m[s].binding
          /\ \A n \in Names : r[s].values[n] \in {0, m[s].values[n]}

\* The fields of the zero entry.
LEMMA ZeroEntryFields ==
  /\ ~ZeroEntry.present
  /\ ZeroEntry.correlation.id = 0
  /\ ZeroEntry.binding = 0
  /\ \A n \in Names : ZeroEntry.values[n] = 0
BY DEF ZeroEntry, ZeroCorrelation

\* Deleting keys thins the store.
LEMMA WithoutThins ==
  ASSUME NEW m \in [States -> StateEntry], NEW S
  PROVE  Thinner(Without(m, S), m)
BY WithoutFacts DEF Thinner

\* Sweeping thins the store.
LEMMA SweepThins ==
  ASSUME NEW m \in [States -> StateEntry], NEW r \in sweepLocked(m)
  PROVE  Thinner(r, m)
BY SweepFacts DEF Thinner

\* Removing one value thins the store.
LEMMA DropValueThins ==
  ASSUME NEW m \in [States -> StateEntry], NEW s \in States, NEW n \in Names
  PROVE  Thinner([m EXCEPT ![s] = DropValue(@, n)], m)
<1> DEFINE r == [m EXCEPT ![s] = DropValue(@, n)]
<1>1. m[s] \in StateEntry
  OBVIOUS
<1>2. r \in [States -> StateEntry]
  BY <1>1, DropValueFacts
<1>3. ASSUME NEW u \in States, u # s
      PROVE  r[u] = m[u]
  BY <1>3
<1>4. r[s] = DropValue(m[s], n)
  OBVIOUS
<1>5. \/ r[s] = ZeroEntry
      \/ /\ r[s].present = m[s].present
         /\ r[s].correlation = m[s].correlation
         /\ r[s].binding = m[s].binding
         /\ \A p \in Names : r[s].values[p] \in {0, m[s].values[p]}
  <2>1. m[s].values \in [Names -> IdOrNone]
    BY <1>1 DEF StateEntry
  <2>2. CASE r[s] = ZeroEntry
    BY <2>2
  <2>3. CASE r[s] # ZeroEntry
    <3>1. /\ r[s].present = m[s].present
          /\ r[s].correlation = m[s].correlation
          /\ r[s].binding = m[s].binding
          /\ r[s].values = [m[s].values EXCEPT ![n] = 0]
      BY <1>1, <1>4, <2>3, DropValueFacts, Zenon
    <3>2. QED
      BY <2>1, <3>1
  <2>4. QED
    BY <2>2, <2>3
<1>6. QED
  BY <1>2, <1>3, <1>5 DEF Thinner

\* Thinning keeps every save in at most one place.
LEMMA ThinnerPlaces ==
  ASSUME NEW m \in [States -> StateEntry], NEW r, NEW k \in Nat, NEW h,
         PlacesOK(m, k, h), Thinner(r, m)
  PROVE  PlacesOK(r, k, h)
<1>1. \A s \in States : r[s].correlation.id \in {0, m[s].correlation.id}
  BY ZeroEntryFields DEF Thinner
<1>2. \A s \in States, n \in Names : r[s].values[n] \in {0, m[s].values[n]}
  BY ZeroEntryFields DEF Thinner
<1>3. \A s \in States :
        /\ r[s].correlation.id <= k
        /\ r[s].correlation.id # 0 => h[r[s].correlation.id] = 0
  BY <1>1 DEF PlacesOK
<1>4. \A s \in States, n \in Names :
        /\ r[s].values[n] <= k
        /\ r[s].values[n] # 0 => h[r[s].values[n]] = 0
  BY <1>2 DEF PlacesOK
<1>5. \A s, u \in States :
        r[s].correlation.id # 0 /\ r[s].correlation.id = r[u].correlation.id => s = u
  BY <1>1 DEF PlacesOK
<1>6. \A s, u \in States, n \in Names :
        r[s].values[n] # 0 => r[s].values[n] # r[u].correlation.id
  BY <1>1, <1>2 DEF PlacesOK
<1>7. \A s, u \in States, n, p \in Names :
        r[s].values[n] # 0 /\ r[s].values[n] = r[u].values[p] => s = u /\ n = p
  BY <1>2 DEF PlacesOK
<1>8. QED
  BY <1>3, <1>4, <1>5, <1>6, <1>7 DEF PlacesOK

\* Thinning keeps the bindings of the entries that remain.
LEMMA ThinnerBindings ==
  ASSUME NEW m, NEW r, NEW k \in Nat, NEW o, BindingsOK(m, k, o), Thinner(r, m)
  PROVE  BindingsOK(r, k, o)
BY ZeroEntryFields DEF BindingsOK, Thinner

\* A step that only thins the store and hands nothing out.
LEMMA RemovalStep ==
  ASSUME Inv, TypeOK', Thinner(items', items),
         UNCHANGED <<saves, owner, handed, taker>>,
         UNCHANGED <<jar, tab>>
  PROVE  Inv'
<1>1. saves \in Nat
  BY StoreAssumption DEF Inv, TypeOK, IdOrNone
<1>2. SavesInv'
  BY <1>1, ThinnerPlaces DEF Inv, SavesInv, TypeOK
<1>3. TokensInv'
  BY <1>1, ThinnerBindings DEF Inv, TokensInv
<1>4. AtMostOnce' /\ BindingRespected'
  BY DEF Inv, AtMostOnce, BindingRespected
<1>5. QED
  BY <1>2, <1>3, <1>4 DEF Inv

\* A step that thins the store and hands out what sat in one place of it:
\* save i is nowhere in the store afterwards.
LEMMA HandOutStep ==
  ASSUME Inv, TypeOK', Thinner(items', items),
         NEW i \in IdOrNone, NEW b \in Agents, HandOut(i, b),
         UNCHANGED <<saves, owner, jar, tab>>,
         i # 0 => i <= saves /\ handed[i] = 0 /\ owner[i] \in {NoBrowser, b},
         \A s \in States : /\ items'[s].correlation.id = i => i = 0
                           /\ \A n \in Names : items'[s].values[n] = i => i = 0
  PROVE  Inv'
<1>1. saves \in Nat
  BY StoreAssumption DEF Inv, TypeOK, IdOrNone
<1>2. PlacesOK(items', saves, handed)
  BY <1>1, ThinnerPlaces DEF Inv, SavesInv, TypeOK
<1>3. \A j \in IdOrNone : j # i => handed'[j] = handed[j]
  BY DEF HandOut, Inv, TypeOK
<1>4. \A s \in States : items'[s].correlation.id \in IdOrNone
  BY DEF TypeOK, StateEntry, Correlation
<1>5. \A s \in States, n \in Names : items'[s].values[n] \in IdOrNone
  BY DEF TypeOK, StateEntry
<1>6. PlacesOK(items', saves, handed')
  BY <1>2, <1>3, <1>4, <1>5 DEF PlacesOK
<1>7. SavesInv'
  <2>1. \A j \in Ids : j > saves => handed'[j] = 0
    <3>1. \A j \in Ids : j \in IdOrNone /\ j # 0 /\ j \in Nat
      BY StoreAssumption DEF Ids, IdOrNone
    <3>2. \A j \in Ids : j > saves => j # i
      BY <1>1, <3>1
    <3>3. QED
      BY <1>3, <3>1, <3>2 DEF Inv, SavesInv
  <2>2. QED
    BY <1>6, <2>1 DEF SavesInv
<1>8. TokensInv'
  BY <1>1, ThinnerBindings DEF Inv, TokensInv
<1>9. AtMostOnce'
  <2>1. \A j \in Ids : j \in IdOrNone /\ j # 0
    BY StoreAssumption DEF Ids, IdOrNone
  <2>2. i # 0 => handed'[i] = 1
    BY DEF HandOut, Inv, TypeOK
  <2>3. QED
    BY <1>3, <2>1, <2>2 DEF Inv, AtMostOnce
<1>10. BindingRespected'
  <2>1. \A j \in Ids : j \in IdOrNone /\ j # 0
    BY StoreAssumption DEF Ids, IdOrNone
  <2>2. \A j \in Ids : j # i => taker'[j] = taker[j]
    BY <2>1 DEF HandOut, Inv, TypeOK
  <2>3. i \in Ids => taker'[i] = b
    BY <2>1 DEF HandOut, Inv, TypeOK
  <2>4. ASSUME NEW j \in Ids, owner'[j] # NoBrowser, handed'[j] > 0
        PROVE  taker'[j] = owner'[j]
    <3>1. CASE j = i
      BY <2>1, <2>3, <2>4, <3>1
    <3>2. CASE j # i
      BY <1>3, <2>1, <2>2, <2>4, <3>2 DEF Inv, BindingRespected
    <3>3. QED
      BY <3>1, <3>2
  <2>5. QED
    BY <2>4 DEF BindingRespected
<1>11. QED
  BY <1>7, <1>8, <1>9, <1>10 DEF Inv

-----------------------------------------------------------------------------
(* Operations that save *)

\* Putting a fresh save into the correlation of one entry, and leaving its
\* values alone, keeps every save in at most one place.
LEMMA FreshCorrelationPlaces ==
  ASSUME NEW m \in [States -> StateEntry], NEW k \in Nat, NEW h,
         k + 1 \in Ids, h[k + 1] = 0, PlacesOK(m, k, h),
         NEW s \in States, NEW e \in StateEntry,
         e.correlation.id = k + 1, e.values = m[s].values
  PROVE  PlacesOK([m EXCEPT ![s] = e], k + 1, h)
<1> DEFINE r == [m EXCEPT ![s] = e]
<1>0. /\ \A u \in States : m[u].correlation.id \in Nat /\ m[u].correlation.id <= k
      /\ \A u \in States, n \in Names : m[u].values[n] \in Nat /\ m[u].values[n] <= k
  BY StoreAssumption DEF PlacesOK, StateEntry, Correlation, IdOrNone
<1>1. \A u \in States : r[u].correlation.id = IF u = s THEN k + 1 ELSE m[u].correlation.id
  OBVIOUS
<1>2. \A u \in States : r[u].values = m[u].values
  OBVIOUS
<1>3. \A u \in States :
        /\ r[u].correlation.id <= k + 1
        /\ r[u].correlation.id # 0 => h[r[u].correlation.id] = 0
  BY <1>0, <1>1 DEF PlacesOK
<1>4. \A u \in States, n \in Names :
        /\ r[u].values[n] <= k + 1
        /\ r[u].values[n] # 0 => h[r[u].values[n]] = 0
  BY <1>0, <1>2 DEF PlacesOK
<1>5. \A u, v \in States :
        r[u].correlation.id # 0 /\ r[u].correlation.id = r[v].correlation.id => u = v
  BY <1>0, <1>1 DEF PlacesOK
<1>6. \A u, v \in States, n \in Names :
        r[u].values[n] # 0 => r[u].values[n] # r[v].correlation.id
  BY <1>0, <1>1, <1>2 DEF PlacesOK
<1>7. \A u, v \in States, n, p \in Names :
        r[u].values[n] # 0 /\ r[u].values[n] = r[v].values[p] => u = v /\ n = p
  BY <1>2 DEF PlacesOK
<1>8. QED
  BY <1>3, <1>4, <1>5, <1>6, <1>7 DEF PlacesOK

\* The same for a fresh save put into one value of one entry.
LEMMA FreshValuePlaces ==
  ASSUME NEW m \in [States -> StateEntry], NEW k \in Nat, NEW h,
         k + 1 \in Ids, h[k + 1] = 0, PlacesOK(m, k, h),
         NEW s \in States, NEW q \in Names, NEW e \in StateEntry,
         e.correlation = m[s].correlation,
         e.values = [m[s].values EXCEPT ![q] = k + 1]
  PROVE  PlacesOK([m EXCEPT ![s] = e], k + 1, h)
<1> DEFINE r == [m EXCEPT ![s] = e]
<1>0. /\ \A u \in States : m[u].correlation.id \in Nat /\ m[u].correlation.id <= k
      /\ \A u \in States, n \in Names : m[u].values[n] \in Nat /\ m[u].values[n] <= k
      /\ \A u \in States : m[u].values \in [Names -> IdOrNone]
  BY StoreAssumption DEF PlacesOK, StateEntry, Correlation, IdOrNone
<1>1. \A u \in States : r[u].correlation.id = m[u].correlation.id
  OBVIOUS
<1>2. \A u \in States, n \in Names :
        r[u].values[n] = IF u = s /\ n = q THEN k + 1 ELSE m[u].values[n]
  BY <1>0
<1>3. \A u \in States :
        /\ r[u].correlation.id <= k + 1
        /\ r[u].correlation.id # 0 => h[r[u].correlation.id] = 0
  BY <1>0, <1>1 DEF PlacesOK
<1>4. \A u \in States, n \in Names :
        /\ r[u].values[n] <= k + 1
        /\ r[u].values[n] # 0 => h[r[u].values[n]] = 0
  BY <1>0, <1>2 DEF PlacesOK
<1>5. \A u, v \in States :
        r[u].correlation.id # 0 /\ r[u].correlation.id = r[v].correlation.id => u = v
  BY <1>1 DEF PlacesOK
<1>6. \A u, v \in States, n \in Names :
        r[u].values[n] # 0 => r[u].values[n] # r[v].correlation.id
  BY <1>0, <1>1, <1>2 DEF PlacesOK
<1>7. \A u, v \in States, n, p \in Names :
        r[u].values[n] # 0 /\ r[u].values[n] = r[v].values[p] => u = v /\ n = p
  BY <1>0, <1>2 DEF PlacesOK
<1>8. QED
  BY <1>3, <1>4, <1>5, <1>6, <1>7 DEF PlacesOK

\* StoreCorrelation keeps the inductive invariant for the new owners o, which
\* extend the old ones by the owner of the new save.
LEMMA StoreCorrelationStep ==
  ASSUME Inv, NEW s \in States, NEW c \in CallerTimes, NEW x \in Expiries,
         NEW k \in Nat, StoreCorrelation(s, c, x, k),
         NEW o \in [Ids -> Agents],
         \A i \in Ids : i # saves + 1 => o[i] = owner[i],
         k = 0 => o[saves + 1] = NoBrowser,
         k # 0 => k \in 1..(saves + 1) /\ o[k] = o[saves + 1]
  PROVE  /\ PlacesOK(items', saves', handed)
         /\ BindingsOK(items', saves', o)
         /\ \A i \in Ids : i > saves' => handed[i] = 0 /\ o[i] = NoBrowser
<1> DEFINE at == IF c = 0 THEN now ELSE c
           corr == [id |-> saves + 1, createdAt |-> at, expiry |-> x]
           old == items[s]
           entry == [present |-> TRUE, correlation |-> corr,
                     values |-> old.values,
                     createdAt |-> IF old.createdAt = 0 THEN at ELSE old.createdAt,
                     binding |-> k]
           m == [items EXCEPT ![s] = entry]
<1>1. saves' = saves + 1 /\ saves < MaxSaves /\ items' \in sweepLocked(m)
  BY DEF StoreCorrelation
<1>2. at \in Nat /\ x \in Nat /\ saves + 1 \in Ids /\ saves + 1 \in IdOrNone /\ saves \in Nat
  <2>1. saves \in IdOrNone /\ now \in Nat
    BY DEF Inv, TypeOK, Time
  <2>2. at \in Nat /\ x \in Nat
    BY <2>1, StoreAssumption DEF CallerTimes, Expiries, Time
  <2>3. QED
    BY <1>1, <2>1, <2>2, StoreAssumption DEF Ids, IdOrNone
<1>3. corr \in Correlation
  BY <1>2 DEF Correlation, Time
<1>4. entry \in StateEntry
  BY <1>2, <1>3 DEF Inv, TypeOK, StateEntry, Time
<1>5. items \in [States -> StateEntry] /\ m \in [States -> StateEntry]
  BY <1>4 DEF Inv, TypeOK
<1>6. Thinner(items', m)
  BY <1>1, <1>5, SweepThins
<1>7. PlacesOK(m, saves + 1, handed)
  <2>1. handed[saves + 1] = 0
    BY <1>2 DEF Inv, SavesInv
  <2>2. PlacesOK(items, saves, handed)
    BY DEF Inv, SavesInv
  <2> HIDE DEF entry
  <2>3. entry.correlation.id = saves + 1 /\ entry.values = items[s].values
    BY DEF entry
  <2>4. QED
    BY <1>2, <1>4, <1>5, <2>1, <2>2, <2>3, FreshCorrelationPlaces
<1>8. BindingsOK(m, saves + 1, o)
  <2>1. BindingsOK(items, saves, owner)
    BY DEF Inv, TokensInv
  <2>2. \A u \in States : /\ items[u].correlation.id \in 0..saves
                          /\ items[u].binding \in Nat
    BY <1>2, <1>5 DEF Inv, SavesInv, PlacesOK, StateEntry, Correlation, IdOrNone
  <2>3. \A u \in States, n \in Names : items[u].values[n] \in 0..saves
    BY <1>2, <1>5 DEF Inv, SavesInv, PlacesOK, StateEntry, IdOrNone
  <2>4. \A i \in 1..saves : i \in Ids /\ o[i] = owner[i]
    BY <1>1, <1>2, StoreAssumption DEF Ids
  <2>5. ASSUME NEW u \in States
        PROVE  /\ m[u].binding # 0 =>
                    /\ m[u].binding \in 1..(saves + 1)
                    /\ m[u].correlation.id # 0
                    /\ o[m[u].binding] = o[m[u].correlation.id]
               /\ m[u].correlation.id # 0 /\ m[u].binding = 0 =>
                    o[m[u].correlation.id] = NoBrowser
    <3>1. CASE u = s
      <4>1. m[u].binding = k /\ m[u].correlation.id = saves + 1
        BY <1>5, <3>1
      <4>2. QED
        BY <1>2, <4>1
    <3>2. CASE u # s
      <4>1. m[u] = items[u]
        BY <1>5, <3>2
      <4>2. QED
        BY <1>2, <2>1, <2>2, <2>4, <4>1 DEF BindingsOK
    <3>3. QED
      BY <3>1, <3>2
  <2>6. ASSUME NEW u \in States, NEW n \in Names, m[u].values[n] # 0
        PROVE  o[m[u].values[n]] = NoBrowser
    <3>1. m[u].values = items[u].values
      BY <1>5
    <3>2. m[u].values[n] \in 1..saves
      BY <1>2, <2>3, <2>6, <3>1
    <3>3. QED
      BY <2>1, <2>4, <2>6, <3>1, <3>2 DEF BindingsOK
  <2>7. QED
    BY <2>5, <2>6 DEF BindingsOK
<1>9. \A i \in Ids : i > saves' => handed[i] = 0 /\ o[i] = NoBrowser
  BY <1>1, <1>2 DEF Inv, SavesInv, TokensInv, Ids
<1>10. PlacesOK(items', saves', handed)
  <2> HIDE DEF m
  <2>1. QED
    BY <1>1, <1>2, <1>5, <1>6, <1>7, ThinnerPlaces
<1>11. BindingsOK(items', saves', o)
  <2> HIDE DEF m
  <2>1. QED
    BY <1>1, <1>2, <1>6, <1>8, ThinnerBindings
<1>12. QED
  BY <1>9, <1>10, <1>11

-----------------------------------------------------------------------------
(* The invariant holds in every reachable state *)

\* The empty store satisfies the invariant.
LEMMA InitInv == New => Inv
<1> SUFFICES ASSUME New PROVE Inv
  OBVIOUS
<1>1. TypeOK
  BY InitType
<1>2. SavesInv
  BY ZeroEntryFields, StoreAssumption DEF New, SavesInv, PlacesOK, Ids, IdOrNone
<1>3. TokensInv
  BY ZeroEntryFields, StoreAssumption
     DEF New, TokensInv, BindingsOK, NoCookie, IdleTab, Ids
<1>4. AtMostOnce /\ BindingRespected
  BY StoreAssumption DEF New, AtMostOnce, BindingRespected, Ids, IdOrNone
<1>5. QED
  BY <1>1, <1>2, <1>3, <1>4 DEF Inv

\* A browser presents only tokens drawn for it.
LEMMA CookieFacts ==
  ASSUME Inv, NEW b \in Agents, bindingCookieValue(b) # 0
  PROVE  /\ b \in Browsers
         /\ bindingCookieValue(b) \in 1..saves
         /\ owner[bindingCookieValue(b)] = b
BY DEF Inv, TokensInv, bindingCookieValue

\* What a browser that passes the binding check is handed is its own or
\* nobody's, and has not been handed out before.
LEMMA CorrelationIsOwn ==
  ASSUME Inv, NEW s \in States, NEW b \in Agents,
         items[s].binding \in {0, bindingCookieValue(b)},
         items[s].correlation.id # 0
  PROVE  /\ items[s].correlation.id <= saves
         /\ handed[items[s].correlation.id] = 0
         /\ owner[items[s].correlation.id] \in {NoBrowser, b}
<1>1. items[s].correlation.id <= saves /\ handed[items[s].correlation.id] = 0
  BY DEF Inv, SavesInv, PlacesOK
<1>2. CASE items[s].binding = 0
  BY <1>1, <1>2 DEF Inv, TokensInv, BindingsOK
<1>3. CASE items[s].binding # 0
  <2>1. owner[items[s].binding] = owner[items[s].correlation.id]
    BY <1>3 DEF Inv, TokensInv, BindingsOK
  <2>2. owner[items[s].binding] = b
    BY <1>3, CookieFacts
  <2>3. QED
    BY <1>1, <2>1, <2>2
<1>4. QED
  BY <1>2, <1>3

\* Every step keeps the invariant.
LEMMA StepInv == Inv /\ [Next]_vars => Inv'
<1> SUFFICES ASSUME Inv, [Next]_vars PROVE Inv'
  OBVIOUS
<1> USE StoreAssumption
<1>0. TypeOK /\ TypeOK'
  BY StepType DEF Inv
<1>100. saves \in Nat /\ items \in [States -> StateEntry]
  BY <1>0 DEF TypeOK, IdOrNone
<1>101. Thinner(items, items)
  BY <1>100 DEF Thinner
<1>1. CASE Tick
  BY <1>0, <1>1, <1>101, RemovalStep DEF Tick
<1>2. ASSUME NEW t \in Tabs, SendLogin(t) PROVE Inv'
  <2>1. BrowserOf[t] \in Agents
    BY DEF Agents
  <2>2. TokensInv'
    BY <1>0, <1>2, <2>1, CookieFacts DEF SendLogin, Inv, TokensInv, TypeOK
  <2>3. SavesInv' /\ AtMostOnce' /\ BindingRespected'
    BY <1>2 DEF SendLogin, Inv, SavesInv, AtMostOnce, BindingRespected
  <2>4. QED
    BY <1>0, <2>2, <2>3 DEF Inv
<1>3. ASSUME NEW t \in Tabs, ReceiveCookie(t) PROVE Inv'
  <2>1. TokensInv'
    BY <1>0, <1>3 DEF ReceiveCookie, Inv, TokensInv, TypeOK, IdleTab
  <2>2. SavesInv' /\ AtMostOnce' /\ BindingRespected'
    BY <1>3 DEF ReceiveCookie, Inv, SavesInv, AtMostOnce, BindingRespected
  <2>3. QED
    BY <1>0, <2>1, <2>2 DEF Inv
<1>4. ASSUME NEW s \in States, NEW c \in CallerTimes, NEW x \in Expiries,
             SaveCorrelationUnbound(s, c, x)
      PROVE  Inv'
  <2>1. StoreCorrelation(s, c, x, 0) /\ UNCHANGED <<jar, tab, owner, handed, taker>>
    BY <1>4 DEF SaveCorrelationUnbound
  <2>2. saves + 1 \in Ids /\ saves' = saves + 1
    BY <1>100, <2>1 DEF StoreCorrelation, Ids
  <2>3. owner \in [Ids -> Agents] /\ owner[saves + 1] = NoBrowser
    BY <1>0, <1>100, <2>2 DEF TypeOK, Inv, TokensInv
  <2>4. /\ PlacesOK(items', saves', handed)
        /\ BindingsOK(items', saves', owner)
        /\ \A i \in Ids : i > saves' => handed[i] = 0 /\ owner[i] = NoBrowser
    BY <2>1, <2>3, StoreCorrelationStep
  <2>5. SavesInv'
    BY <2>1, <2>4 DEF SavesInv
  <2>6. TokensInv'
    BY <1>100, <2>1, <2>2, <2>4 DEF Inv, TokensInv
  <2>7. AtMostOnce' /\ BindingRespected'
    BY <2>1 DEF Inv, AtMostOnce, BindingRespected
  <2>8. QED
    BY <1>0, <2>5, <2>6, <2>7 DEF Inv
<1>5. ASSUME NEW s \in States, NEW c \in CallerTimes, NEW x \in Expiries,
             NEW t \in Tabs, SaveCorrelation(t, s, c, x)
      PROVE  Inv'
  <2> DEFINE k == IF tab[t].token # 0 THEN tab[t].token ELSE saves + 1
  <2>1. /\ StoreCorrelation(s, c, x, k)
        /\ tab' = [tab EXCEPT ![t] = [pc |-> "replied", token |-> k]]
        /\ owner' = [owner EXCEPT ![saves + 1] = BrowserOf[t]]
        /\ UNCHANGED <<jar, handed, taker>>
    BY <1>5 DEF SaveCorrelation
  <2>2. saves + 1 \in Ids /\ saves' = saves + 1
    BY <1>100, <2>1 DEF StoreCorrelation, Ids
  <2>3. /\ owner' \in [Ids -> Agents]
        /\ \A i \in Ids : i # saves + 1 => owner'[i] = owner[i]
        /\ owner'[saves + 1] = BrowserOf[t]
    BY <1>0, <2>1, <2>2 DEF TypeOK
  <2>31. \A i \in 1..saves : i \in Ids /\ i # saves + 1
    BY <1>100, <2>2 DEF Ids
  <2>4. k \in Nat /\ k # 0 /\ k \in 1..(saves + 1) /\ owner'[k] = BrowserOf[t]
    <3>1. CASE tab[t].token # 0
      <4>1. k \in 1..saves /\ owner[k] = BrowserOf[t]
        BY <3>1 DEF Inv, TokensInv
      <4>2. QED
        BY <1>100, <2>3, <2>31, <4>1
    <3>2. CASE tab[t].token = 0
      BY <1>100, <2>3, <3>2
    <3>3. QED
      BY <3>1, <3>2
  <2> HIDE DEF k
  <2>5. /\ PlacesOK(items', saves', handed)
        /\ BindingsOK(items', saves', owner')
        /\ \A i \in Ids : i > saves' => handed[i] = 0 /\ owner'[i] = NoBrowser
    <3> DEFINE o == owner'
    <3> HIDE DEF o
    <3>1. /\ o \in [Ids -> Agents]
          /\ \A i \in Ids : i # saves + 1 => o[i] = owner[i]
          /\ k # 0 /\ o[k] = o[saves + 1]
      BY <2>3, <2>4 DEF o
    <3>2. /\ PlacesOK(items', saves', handed)
          /\ BindingsOK(items', saves', o)
          /\ \A i \in Ids : i > saves' => handed[i] = 0 /\ o[i] = NoBrowser
      BY <2>1, <2>4, <3>1, StoreCorrelationStep
    <3>3. QED
      BY <3>2 DEF o
  <2>6. SavesInv'
    BY <2>1, <2>5 DEF SavesInv
  <2>7. TokensInv'
    <3>1. \A b \in Browsers : jar'[b].token # 0 =>
            jar'[b].token \in 1..saves' /\ owner'[jar'[b].token] = b
      BY <1>100, <2>1, <2>2, <2>3, <2>31 DEF Inv, TokensInv
    <3>2. \A u \in Tabs : tab'[u].token # 0 =>
            tab'[u].token \in 1..saves' /\ owner'[tab'[u].token] = BrowserOf[u]
      <4> SUFFICES ASSUME NEW u \in Tabs, tab'[u].token # 0
                   PROVE  /\ tab'[u].token \in 1..saves'
                          /\ owner'[tab'[u].token] = BrowserOf[u]
        OBVIOUS
      <4>1. CASE u = t
        <5>1. tab'[u].token = k
          BY <1>0, <2>1, <4>1 DEF TypeOK
        <5>2. QED
          BY <2>2, <2>4, <4>1, <5>1
      <4>2. CASE u # t
        <5>1. tab'[u] = tab[u]
          BY <1>0, <2>1, <4>2 DEF TypeOK
        <5>2. QED
          BY <1>100, <2>2, <2>3, <2>31, <5>1 DEF Inv, TokensInv
      <4>3. QED
        BY <4>1, <4>2
    <3>3. QED
      BY <2>5, <3>1, <3>2 DEF TokensInv
  <2>8. AtMostOnce'
    BY <2>1 DEF Inv, AtMostOnce
  <2>9. BindingRespected'
    <3>1. \A i \in Ids : handed[i] > 0 => i # saves + 1
      BY <1>100, <2>2 DEF Inv, SavesInv
    <3>2. QED
      BY <2>1, <2>3, <3>1 DEF Inv, BindingRespected
  <2>10. QED
    BY <1>0, <2>6, <2>7, <2>8, <2>9 DEF Inv
<1>6. ASSUME NEW s \in States, NEW b \in Agents, ConsumeCorrelation(s, b)
      PROVE  Inv'
  <2> DEFINE e == items[s]
  <2>1. /\ items' = Without(items, {s})
        /\ UNCHANGED <<saves, owner, jar, tab>>
        /\ \/ UNCHANGED <<handed, taker>>
           \/ /\ HandOut(e.correlation.id, b)
              /\ e.binding \in {0, bindingCookieValue(b)}
    BY <1>6, Zenon DEF ConsumeCorrelation
  <2>2. Thinner(items', items) /\ items'[s] = ZeroEntry
    BY <1>100, <2>1, WithoutFacts, WithoutThins
  <2>3. CASE UNCHANGED <<handed, taker>>
    BY <1>0, <2>1, <2>2, <2>3, RemovalStep
  <2>4. CASE HandOut(e.correlation.id, b) /\ e.binding \in {0, bindingCookieValue(b)}
    <3> DEFINE i == e.correlation.id
    <3>1. i \in IdOrNone
      BY <1>100 DEF StateEntry, Correlation
    <3>3. i # 0 => i <= saves /\ handed[i] = 0 /\ owner[i] \in {NoBrowser, b}
      BY <2>4, CorrelationIsOwn
    <3>4. ASSUME NEW u \in States
          PROVE  /\ items'[u].correlation.id = i => i = 0
                 /\ \A n \in Names : items'[u].values[n] = i => i = 0
      <4>1. CASE u = s
        BY <2>2, <4>1, ZeroEntryFields
      <4>2. CASE items'[u] = ZeroEntry
        BY <4>2, ZeroEntryFields
      <4>3. CASE u # s /\ items'[u] # ZeroEntry
        <5>1. /\ items'[u].correlation = items[u].correlation
              /\ \A n \in Names : items'[u].values[n] \in {0, items[u].values[n]}
          BY <2>2, <4>3 DEF Thinner
        <5>2. QED
          BY <4>3, <5>1 DEF Inv, SavesInv, PlacesOK
      <4>4. QED
        BY <4>1, <4>2, <4>3
    <3> HIDE DEF i
    <3>5. QED
      BY <1>0, <2>1, <2>2, <2>4, <3>1, <3>3, <3>4, HandOutStep DEF i
  <2>5. QED
    BY <2>1, <2>3, <2>4
<1>7. ASSUME NEW s \in States, DeleteState(s) PROVE Inv'
  BY <1>0, <1>7, <1>100, WithoutThins, RemovalStep DEF DeleteState
<1>8. ASSUME NEW s \in States, NEW q \in Names, SaveValue(s, q) PROVE Inv'
  <2> DEFINE old == items[s]
             e == [present |-> TRUE, correlation |-> old.correlation,
                   values |-> [old.values EXCEPT ![q] = saves + 1],
                   createdAt |-> IF old.createdAt = 0 THEN now ELSE old.createdAt,
                   binding |-> old.binding]
  <2>1. /\ saves < MaxSaves /\ saves' = saves + 1
        /\ items' = [items EXCEPT ![s] = e]
        /\ UNCHANGED <<jar, tab, owner, handed, taker>>
    BY <1>8 DEF SaveValue
  <2>2. saves + 1 \in Ids /\ saves + 1 \in IdOrNone
    BY <1>100, <2>1 DEF Ids, IdOrNone
  <2>3. e \in StateEntry
    BY <1>0, <1>100, <2>2 DEF TypeOK, StateEntry, Time
  <2>4. handed[saves + 1] = 0 /\ owner[saves + 1] = NoBrowser
    BY <1>100, <2>2 DEF Inv, SavesInv, TokensInv
  <2>5. PlacesOK(items', saves', handed)
    <3>1. /\ e.correlation = items[s].correlation
          /\ e.values = [items[s].values EXCEPT ![q] = saves + 1]
      OBVIOUS
    <3> HIDE DEF e
    <3>2. PlacesOK(items, saves, handed)
      BY DEF Inv, SavesInv
    <3>3. PlacesOK([items EXCEPT ![s] = e], saves + 1, handed)
      BY <1>100, <2>2, <2>3, <2>4, <3>1, <3>2, FreshValuePlaces
    <3>4. QED
      BY <2>1, <3>3
  <2>6. SavesInv'
    BY <1>100, <2>1, <2>5 DEF Inv, SavesInv, Ids
  <2>7. BindingsOK(items', saves', owner)
    <3>1. \A u \in States : /\ items'[u].binding = items[u].binding
                            /\ items'[u].correlation = items[u].correlation
      BY <1>100, <2>1
    <3>2. \A u \in States, n \in Names :
            items'[u].values[n] \in {saves + 1, items[u].values[n]}
      <4>1. \A u \in States : items[u].values \in [Names -> IdOrNone]
        BY <1>100 DEF StateEntry
      <4>2. QED
        BY <1>100, <2>1, <4>1
    <3>3. QED
      BY <1>100, <2>1, <2>4, <3>1, <3>2 DEF Inv, TokensInv, BindingsOK
  <2>8. TokensInv'
    BY <1>100, <2>1, <2>7 DEF Inv, TokensInv, Ids
  <2>9. AtMostOnce' /\ BindingRespected'
    BY <2>1 DEF Inv, AtMostOnce, BindingRespected
  <2>10. QED
    BY <1>0, <2>6, <2>8, <2>9 DEF Inv
<1>9. ASSUME NEW s \in States, NEW n \in Names, DeleteValue(s, n) PROVE Inv'
  BY <1>0, <1>9, <1>100, DropValueThins, RemovalStep DEF DeleteValue
<1>10. ASSUME NEW s \in States, NEW n \in Names, NEW b \in Agents,
              ConsumeValue(s, n, b)
       PROVE  Inv'
  <2>1. /\ UNCHANGED <<saves, owner, jar, tab>>
        /\ \/ items' = Without(items, {s}) /\ UNCHANGED <<handed, taker>>
           \/ /\ items[s].values[n] # 0
              /\ items' = [items EXCEPT ![s] = DropValue(@, n)]
              /\ HandOut(items[s].values[n], b)
    BY <1>10, Zenon DEF ConsumeValue
  <2>2. CASE items' = Without(items, {s}) /\ UNCHANGED <<handed, taker>>
    BY <1>0, <1>100, <2>1, <2>2, WithoutThins, RemovalStep
  <2>3. CASE /\ items[s].values[n] # 0
             /\ items' = [items EXCEPT ![s] = DropValue(@, n)]
             /\ HandOut(items[s].values[n], b)
    <3> DEFINE i == items[s].values[n]
    <3>1. i \in IdOrNone
      BY <1>100 DEF StateEntry
    <3>2. Thinner(items', items)
      BY <1>100, <2>3, DropValueThins
    <3>3. i # 0 /\ i <= saves /\ handed[i] = 0 /\ owner[i] = NoBrowser
      BY <2>3 DEF Inv, SavesInv, PlacesOK, TokensInv, BindingsOK
    <3>4. ASSUME NEW u \in States
          PROVE  /\ items'[u].correlation.id # i
                 /\ \A p \in Names : items'[u].values[p] # i
      <4>1. CASE items'[u] = ZeroEntry
        BY <3>3, <4>1, ZeroEntryFields
      <4>2. CASE items'[u] # ZeroEntry
        <5>1. /\ items'[u].correlation = items[u].correlation
              /\ \A p \in Names : items'[u].values[p] \in {0, items[u].values[p]}
          BY <3>2, <4>2 DEF Thinner
        <5>2. u = s => items'[u].values[n] = 0
          <6>1. items[s] \in StateEntry /\ items[s].values \in [Names -> IdOrNone]
            BY <1>100 DEF StateEntry
          <6>2. u = s => items'[u] = DropValue(items[s], n)
            BY <1>100, <2>3
          <6>3. u = s => items'[u].values = [items[s].values EXCEPT ![n] = 0]
            BY <4>2, <6>1, <6>2, DropValueFacts
          <6>4. QED
            BY <6>1, <6>3
        <5>3. QED
          BY <3>3, <5>1, <5>2 DEF Inv, SavesInv, PlacesOK
      <4>3. QED
        BY <4>1, <4>2
    <3> HIDE DEF i
    <3>5. QED
      BY <1>0, <2>1, <2>3, <3>1, <3>2, <3>3, <3>4, HandOutStep DEF i
  <2>4. QED
    BY <2>1, <2>2, <2>3
<1>11. ASSUME NEW w \in Workers, NEW s \in States, LoadStateRead(w, s)
       PROVE  Inv'
  BY <1>0, <1>11, <1>101, RemovalStep DEF LoadStateRead
<1>12. ASSUME NEW w \in Workers, NEW s \in States, LoadValueRead(w, s)
       PROVE  Inv'
  BY <1>0, <1>12, <1>101, RemovalStep DEF LoadValueRead
<1>13. ASSUME NEW w \in Workers, LoadStateFinish(w) PROVE Inv'
  <2>1. Thinner(items', items)
    BY <1>13, <1>100, <1>101, WithoutThins DEF LoadStateFinish
  <2>2. QED
    BY <1>0, <1>13, <2>1, RemovalStep DEF LoadStateFinish
<1>14. ASSUME NEW w \in Workers, LoadValueFinish(w) PROVE Inv'
  <2>1. Thinner(items', items)
    BY <1>14, <1>100, <1>101, WithoutThins DEF LoadValueFinish
  <2>2. QED
    BY <1>0, <1>14, <2>1, RemovalStep DEF LoadValueFinish
<1>15. CASE UNCHANGED vars
  BY <1>0, <1>15, <1>101, RemovalStep DEF vars
<1>16. QED
  BY <1>1, <1>2, <1>3, <1>4, <1>5, <1>6, <1>7, <1>8, <1>9, <1>10, <1>11,
     <1>12, <1>13, <1>14, <1>15 DEF Next

\* No interleaving of the store's operations hands a saved correlation or
\* value out twice: strict one-time consumption.
THEOREM ConsumedAtMostOnce == Spec => []AtMostOnce
<1>1. Spec => []Inv
  BY InitInv, StepInv, PTL DEF Spec
<1>2. Inv => AtMostOnce
  BY DEF Inv
<1>3. QED
  BY <1>1, <1>2, PTL

\* A correlation saved for one browser's login is never handed to another
\* browser or to a request without cookies.
THEOREM ConsumedByInitiatorOnly == Spec => []BindingRespected
<1>1. Spec => []Inv
  BY InitInv, StepInv, PTL DEF Spec
<1>2. Inv => BindingRespected
  BY DEF Inv
<1>3. QED
  BY <1>1, <1>2, PTL

-----------------------------------------------------------------------------
(* The store implements single-use tickets *)

\* A key that is absent holds no save.
AbsentIsEmpty(m) ==
  \A s \in States :
    ~m[s].present => /\ m[s].correlation.id = 0
                     /\ \A n \in Names : m[s].values[n] = 0

\* The CreatedAt that a save of a caller's c keeps, and that of its entry when
\* the key held one of age old.
Stamp(c) == IF c = 0 THEN now ELSE c
EntryStamp(old, c) == IF old # 0 THEN old ELSE Stamp(c)

\* The entry e that StoreCorrelation builds, and what the sweep makes of it.
StoredEntry(e, s, c, x, k) ==
  /\ e.present
  /\ e.correlation.id = saves + 1
  /\ e.correlation.createdAt = Stamp(c)
  /\ e.correlation.expiry = x
  /\ e.values = items[s].values
  /\ e.createdAt = EntryStamp(items[s].createdAt, c)
  /\ e.binding = k
  /\ [items EXCEPT ![s] = e] \in [States -> StateEntry]
  /\ items' \in sweepLocked([items EXCEPT ![s] = e])

\* StoreCorrelation builds such an entry.
LEMMA StoreCorrelationEntry ==
  ASSUME TypeOK, NEW s \in States, NEW c \in CallerTimes, NEW x \in Expiries,
         NEW k \in Nat, StoreCorrelation(s, c, x, k)
  PROVE  \E e \in StateEntry : StoredEntry(e, s, c, x, k)
<1> DEFINE at == IF c = 0 THEN now ELSE c
           corr == [id |-> saves + 1, createdAt |-> at, expiry |-> x]
           old == items[s]
           entry == [present |-> TRUE, correlation |-> corr,
                     values |-> old.values,
                     createdAt |-> IF old.createdAt = 0 THEN at ELSE old.createdAt,
                     binding |-> k]
<1>1. items' \in sweepLocked([items EXCEPT ![s] = entry])
  BY DEF StoreCorrelation
<1>2. at \in Nat /\ x \in Nat /\ saves + 1 \in IdOrNone
  <2>1. now \in Nat
    BY DEF TypeOK, Time
  <2>2. at \in Nat
    BY <2>1, StoreAssumption DEF CallerTimes
  <2>3. x \in Nat
    BY <2>1, StoreAssumption DEF Expiries
  <2>4. saves + 1 \in IdOrNone
    BY StoreAssumption DEF TypeOK, StoreCorrelation, IdOrNone
  <2>5. QED
    BY <2>2, <2>3, <2>4
<1>3. corr \in Correlation
  BY <1>2 DEF Correlation, Time
<1>4. entry \in StateEntry
  BY <1>2, <1>3 DEF TypeOK, StateEntry, Time
<1>5. [items EXCEPT ![s] = entry] \in [States -> StateEntry]
  BY <1>4 DEF TypeOK
<1>6. /\ entry.present
      /\ entry.correlation = corr
      /\ entry.values = items[s].values
      /\ entry.createdAt = EntryStamp(items[s].createdAt, c)
      /\ entry.binding = k
  BY DEF EntryStamp, Stamp
<1>7. corr.id = saves + 1 /\ corr.createdAt = Stamp(c) /\ corr.expiry = x
  BY DEF Stamp
<1> HIDE DEF entry, corr
<1>8. StoredEntry(entry, s, c, x, k)
  BY <1>1, <1>5, <1>6, <1>7 DEF StoredEntry
<1>9. QED
  BY <1>4, <1>8

\* Whether save i sits in store m.
Holds(m, i) ==
  \E s \in States :
    /\ m[s].present
    /\ m[s].correlation.id = i \/ \E n \in Names : m[s].values[n] = i

\* Thinning a store brings nothing into it.
LEMMA ThinnerHolds ==
  ASSUME NEW m, NEW r, Thinner(r, m)
  PROVE  /\ AbsentIsEmpty(m) => AbsentIsEmpty(r)
         /\ \A i \in Ids : Holds(r, i) => Holds(m, i)
<1>1. AbsentIsEmpty(m) => AbsentIsEmpty(r)
  BY ZeroEntryFields DEF Thinner, AbsentIsEmpty
<1>2. ASSUME NEW i \in Ids, Holds(r, i) PROVE Holds(m, i)
  <2>1. i # 0
    BY DEF Ids
  <2>2. PICK s \in States :
          /\ r[s].present
          /\ r[s].correlation.id = i \/ \E n \in Names : r[s].values[n] = i
    BY <1>2 DEF Holds
  <2>3. /\ m[s].present
        /\ r[s].correlation = m[s].correlation
        /\ \A n \in Names : r[s].values[n] \in {0, m[s].values[n]}
    BY <2>2, ZeroEntryFields DEF Thinner
  <2>4. QED
    BY <2>1, <2>2, <2>3 DEF Holds
<1>3. QED
  BY <1>1, <1>2

\* Filling an entry with save k + 1 brings nothing else into the store.
LEMMA FreshHolds ==
  ASSUME NEW m \in [States -> StateEntry], AbsentIsEmpty(m), NEW k \in Nat,
         NEW s \in States, NEW e \in StateEntry, e.present,
         e.correlation.id \in {k + 1, m[s].correlation.id},
         \A n \in Names : e.values[n] \in {k + 1, m[s].values[n]}
  PROVE  /\ AbsentIsEmpty([m EXCEPT ![s] = e])
         /\ \A i \in 1..k : Holds([m EXCEPT ![s] = e], i) => Holds(m, i)
<1> DEFINE r == [m EXCEPT ![s] = e]
<1>1. r[s] = e /\ \A u \in States : u # s => r[u] = m[u]
  OBVIOUS
<1> HIDE DEF r
<1>2. AbsentIsEmpty(r)
  BY <1>1 DEF AbsentIsEmpty
<1>3. ASSUME NEW i \in 1..k, Holds(r, i) PROVE Holds(m, i)
  <2>1. PICK u \in States :
          /\ r[u].present
          /\ r[u].correlation.id = i \/ \E n \in Names : r[u].values[n] = i
    BY <1>3 DEF Holds
  <2>2. i # k + 1 /\ i # 0
    OBVIOUS
  <2>3. CASE u # s
    BY <1>1, <2>1, <2>3 DEF Holds
  <2>4. CASE u = s
    <3>1. m[s].correlation.id = i \/ \E n \in Names : m[s].values[n] = i
      BY <1>1, <2>1, <2>2, <2>4
    <3>2. m[s].present
      BY <2>2, <3>1, Zenon DEF AbsentIsEmpty
    <3>3. QED
      BY <3>1, <3>2 DEF Holds
  <2>5. QED
    BY <2>3, <2>4
<1>4. QED
  BY <1>2, <1>3 DEF r

\* What the life cycle of a save is, before and after a step.
LEMMA TicketFacts ==
  /\ TicketOf \in [Ids -> {"none", "taken", "open", "gone"}]
  /\ TicketOf' \in [Ids -> {"none", "taken", "open", "gone"}]
  /\ \A i \in Ids :
       /\ TicketOf[i] = IF i > saves THEN "none"
                        ELSE IF handed[i] > 0 THEN "taken"
                        ELSE IF Holds(items, i) THEN "open" ELSE "gone"
       /\ TicketOf'[i] = IF i > saves' THEN "none"
                         ELSE IF handed'[i] > 0 THEN "taken"
                         ELSE IF Holds(items', i) THEN "open" ELSE "gone"
BY DEF TicketOf, Stored, Holds

\* A step that loses saves and hands none out drops tickets.
LEMMA DropMaps ==
  ASSUME Inv, UNCHANGED <<saves, owner, taker>>,
         \A i \in Ids : handed'[i] = handed[i],
         \A i \in Ids : Holds(items', i) => Holds(items, i)
  PROVE  Tickets!Next
<1> DEFINE D == {i \in Ids : TicketOf[i] = "open" /\ TicketOf'[i] = "gone"}
<1>1. D \subseteq Tickets!Open
  BY DEF Tickets!Open
<1>2. ASSUME NEW i \in Ids
      PROVE  TicketOf'[i] = IF i \in D THEN "gone" ELSE TicketOf[i]
  BY TicketFacts
<1> HIDE DEF D
<1>3. TicketOf' = [i \in Ids |-> IF i \in D THEN "gone" ELSE TicketOf[i]]
  BY <1>2, TicketFacts
<1>4. Tickets!Drop(D)
  BY <1>1, <1>3 DEF Tickets!Drop
<1>5. QED
  BY <1>1, <1>4 DEF Tickets!Next

\* A step that hands out save i takes its ticket.
LEMMA TakeMaps ==
  ASSUME Inv, UNCHANGED <<saves, owner>>,
         NEW i \in Ids, NEW b \in Agents, HandOut(i, b),
         i <= saves, handed[i] = 0, owner[i] \in {NoBrowser, b}, Holds(items, i),
         \A j \in Ids : Holds(items', j) => Holds(items, j)
  PROVE  Tickets!Next
<1> DEFINE D == {j \in Ids : TicketOf[j] = "open" /\ TicketOf'[j] = "gone"}
<1>0. i \in IdOrNone /\ i # 0 /\ Ids \subseteq IdOrNone
  BY DEF Ids, IdOrNone
<1>1. /\ handed'[i] = 1
      /\ \A j \in Ids : j # i => handed'[j] = handed[j]
      /\ taker' = [taker EXCEPT ![i] = b]
  BY <1>0 DEF HandOut, Inv, TypeOK
<1>2. saves \in Nat /\ i \in Nat
  BY StoreAssumption DEF Inv, TypeOK, IdOrNone, Ids
<1>3. TicketOf[i] = "open" /\ TicketOf'[i] = "taken"
  BY <1>1, <1>2, TicketFacts
<1>4. i \in Tickets!Open /\ D \subseteq Tickets!Open \ {i}
  BY <1>3 DEF Tickets!Open
<1>5. ASSUME NEW j \in Ids
      PROVE  TicketOf'[j] = IF j \in D THEN "gone"
                            ELSE IF j = i THEN "taken" ELSE TicketOf[j]
  BY <1>1, <1>3, TicketFacts
<1> HIDE DEF D
<1>6. TicketOf' = [j \in Ids |-> IF j \in D THEN "gone"
                                 ELSE IF j = i THEN "taken" ELSE TicketOf[j]]
  BY <1>5, TicketFacts
<1>7. Tickets!Take(i, b, D)
  BY <1>1, <1>4, <1>6 DEF Tickets!Take
<1>8. QED
  BY <1>4, <1>7 DEF Tickets!Next, Tickets!Agents, Agents

\* A step that saves issues a ticket, which may be gone at once.
LEMMA IssueMaps ==
  ASSUME Inv, NEW b \in Agents, saves + 1 \in Ids, saves' = saves + 1,
         owner' = [owner EXCEPT ![saves + 1] = b],
         UNCHANGED <<handed, taker>>,
         \A i \in 1..saves : Holds(items', i) => Holds(items, i)
  PROVE  Tickets!Next
<1> DEFINE i == saves + 1
           D == {j \in Ids : /\ TicketOf[j] = "open" \/ j = i
                             /\ TicketOf'[j] = "gone"}
<1>1. saves \in Nat /\ handed[i] = 0 /\ Ids \subseteq Nat \ {0}
  BY StoreAssumption DEF Inv, SavesInv, TypeOK, IdOrNone, Ids
<1>2. TicketOf[i] = "none" /\ TicketOf'[i] \in {"open", "gone"}
  BY <1>1, TicketFacts
<1>3. D \subseteq Tickets!Open \cup {i}
  BY DEF Tickets!Open
<1>4. ASSUME NEW j \in Ids
      PROVE  TicketOf'[j] = IF j \in D THEN "gone"
                            ELSE IF j = i THEN "open" ELSE TicketOf[j]
  <2>1. CASE j = i
    BY <1>2, <2>1
  <2>2. CASE j > i
    <3>1. TicketOf[j] = "none" /\ TicketOf'[j] = "none"
      BY <1>1, <2>2, TicketFacts
    <3>2. QED
      BY <1>1, <2>2, <3>1
  <2>3. CASE j \in 1..saves
    <3>1. Holds(items', j) => Holds(items, j)
      BY <2>3
    <3>2. ~(j > saves) /\ ~(j > saves') /\ j # i
      BY <1>1, <2>3
    <3>3. QED
      BY <3>1, <3>2, TicketFacts
  <2>4. QED
    BY <1>1, <2>1, <2>2, <2>3
<1>5. i \in Tickets!Unissued
  BY <1>2 DEF Tickets!Unissued
<1> HIDE DEF D
<1>6. TicketOf' = [j \in Ids |-> IF j \in D THEN "gone"
                                 ELSE IF j = i THEN "open" ELSE TicketOf[j]]
  BY <1>4, TicketFacts
<1>7. Tickets!Issue(i, b, D)
  BY <1>3, <1>5, <1>6 DEF Tickets!Issue
<1>8. QED
  BY <1>3, <1>5, <1>7 DEF Tickets!Next, Tickets!Agents, Agents

\* Every step of the store is a step of the tickets, or changes none of them.
LEMMA StepMaps ==
  ASSUME Inv, AbsentIsEmpty(items), [Next]_vars
  PROVE  AbsentIsEmpty(items') /\ [Tickets!Next]_(Tickets!vars)
<1> USE StoreAssumption
<1>0. /\ TypeOK
      /\ saves \in Nat
      /\ items \in [States -> StateEntry]
      /\ \A i \in 1..saves : i \in Ids
      /\ \A i \in Ids : i \in IdOrNone /\ i # 0
  BY DEF Inv, TypeOK, IdOrNone, Ids
<1>100. ASSUME Thinner(items', items), UNCHANGED <<saves, owner, handed, taker>>
        PROVE  AbsentIsEmpty(items') /\ Tickets!Next
  BY <1>100, ThinnerHolds, DropMaps
<1>101. ASSUME UNCHANGED <<items, saves, owner, handed, taker>>
        PROVE  AbsentIsEmpty(items') /\ UNCHANGED Tickets!vars
  <2>1. UNCHANGED TicketOf
    BY <1>101 DEF TicketOf, Stored
  <2>2. QED
    BY <1>101, <2>1 DEF Tickets!vars
<1>102. ASSUME NEW s \in States, NEW c \in CallerTimes, NEW x \in Expiries,
               NEW k \in Nat, StoreCorrelation(s, c, x, k)
        PROVE  /\ AbsentIsEmpty(items')
               /\ saves' = saves + 1 /\ saves + 1 \in Ids
               /\ \A i \in 1..saves : Holds(items', i) => Holds(items, i)
  <2>1. PICK e \in StateEntry : StoredEntry(e, s, c, x, k)
    BY <1>0, <1>102, StoreCorrelationEntry
  <2> DEFINE m == [items EXCEPT ![s] = e]
  <2>2. AbsentIsEmpty(m) /\ \A i \in 1..saves : Holds(m, i) => Holds(items, i)
    BY <1>0, <2>1, FreshHolds DEF StoredEntry
  <2>3. m \in [States -> StateEntry] /\ items' \in sweepLocked(m)
    BY <2>1 DEF StoredEntry
  <2> HIDE DEF m
  <2>4. AbsentIsEmpty(items') /\ \A i \in Ids : Holds(items', i) => Holds(m, i)
    BY <2>2, <2>3, SweepThins, ThinnerHolds
  <2>5. saves' = saves + 1 /\ saves + 1 \in Ids
    BY <1>0, <1>102 DEF StoreCorrelation, Ids
  <2>6. QED
    BY <1>0, <2>2, <2>4, <2>5
<1>103. saves + 1 \in Ids => owner = [owner EXCEPT ![saves + 1] = NoBrowser]
  <2>1. owner \in [Ids -> Agents]
    BY <1>0 DEF TypeOK
  <2>2. saves + 1 \in Ids => owner[saves + 1] = NoBrowser
    BY <1>0 DEF Inv, TokensInv
  <2>3. QED
    BY <2>1, <2>2
<1>104. NoBrowser \in Agents /\ \A t \in Tabs : BrowserOf[t] \in Agents
  BY DEF Agents
<1>1. CASE Tick
  BY <1>1, <1>101 DEF Tick
<1>2. ASSUME NEW t \in Tabs, SendLogin(t)
      PROVE  AbsentIsEmpty(items') /\ UNCHANGED Tickets!vars
  BY <1>2, <1>101 DEF SendLogin
<1>3. ASSUME NEW t \in Tabs, ReceiveCookie(t)
      PROVE  AbsentIsEmpty(items') /\ UNCHANGED Tickets!vars
  BY <1>3, <1>101 DEF ReceiveCookie
<1>4. ASSUME NEW s \in States, NEW c \in CallerTimes, NEW x \in Expiries,
             SaveCorrelationUnbound(s, c, x)
      PROVE  AbsentIsEmpty(items') /\ Tickets!Next
  <2>1. StoreCorrelation(s, c, x, 0) /\ UNCHANGED <<owner, handed, taker>>
    BY <1>4 DEF SaveCorrelationUnbound
  <2>2. /\ AbsentIsEmpty(items')
        /\ saves' = saves + 1 /\ saves + 1 \in Ids
        /\ \A i \in 1..saves : Holds(items', i) => Holds(items, i)
    BY <1>102, <2>1
  <2>3. owner' = [owner EXCEPT ![saves + 1] = NoBrowser]
    BY <1>103, <2>1, <2>2
  <2>4. QED
    BY <1>104, <2>1, <2>2, <2>3, IssueMaps
<1>5. ASSUME NEW s \in States, NEW c \in CallerTimes, NEW x \in Expiries,
             NEW t \in Tabs, SaveCorrelation(t, s, c, x)
      PROVE  AbsentIsEmpty(items') /\ Tickets!Next
  <2> DEFINE k == IF tab[t].token # 0 THEN tab[t].token ELSE saves + 1
  <2>1. /\ StoreCorrelation(s, c, x, k) /\ UNCHANGED <<handed, taker>>
        /\ owner' = [owner EXCEPT ![saves + 1] = BrowserOf[t]]
    BY <1>5 DEF SaveCorrelation
  <2>2. k \in Nat
    BY <1>0 DEF TypeOK
  <2> HIDE DEF k
  <2>3. /\ AbsentIsEmpty(items')
        /\ saves' = saves + 1 /\ saves + 1 \in Ids
        /\ \A i \in 1..saves : Holds(items', i) => Holds(items, i)
    BY <1>102, <2>1, <2>2
  <2>4. QED
    BY <1>104, <2>1, <2>3, IssueMaps
<1>6. ASSUME NEW s \in States, NEW b \in Agents, ConsumeCorrelation(s, b)
      PROVE  AbsentIsEmpty(items') /\ Tickets!Next
  <2> DEFINE i == items[s].correlation.id
  <2>1. /\ items' = Without(items, {s})
        /\ UNCHANGED <<saves, owner>>
        /\ items[s].present
        /\ \/ UNCHANGED <<handed, taker>>
           \/ HandOut(i, b) /\ items[s].binding \in {0, bindingCookieValue(b)}
    BY <1>6, Zenon DEF ConsumeCorrelation
  <2>2. Thinner(items', items)
    BY <1>0, <2>1, WithoutThins
  <2>3. AbsentIsEmpty(items') /\ \A j \in Ids : Holds(items', j) => Holds(items, j)
    BY <2>2, ThinnerHolds
  <2>4. CASE UNCHANGED <<handed, taker>>
    BY <1>100, <2>1, <2>2, <2>4
  <2>5. CASE /\ HandOut(i, b) /\ items[s].binding \in {0, bindingCookieValue(b)}
             /\ i = 0
    <3>1. taker' = taker /\ \A j \in Ids : handed'[j] = handed[j]
      BY <1>0, <2>5 DEF HandOut, TypeOK
    <3>2. QED
      BY <2>1, <2>3, <3>1, DropMaps
  <2>6. CASE /\ HandOut(i, b) /\ items[s].binding \in {0, bindingCookieValue(b)}
             /\ i # 0
    <3>1. i <= saves /\ handed[i] = 0 /\ owner[i] \in {NoBrowser, b}
      BY <2>6, CorrelationIsOwn
    <3>2. i \in Ids
      <4>1. i \in IdOrNone
        BY <1>0 DEF StateEntry, Correlation
      <4>2. QED
        BY <2>6, <4>1 DEF Ids, IdOrNone
    <3>3. Holds(items, i)
      BY <2>1 DEF Holds
    <3> HIDE DEF i
    <3>4. QED
      BY <2>1, <2>3, <2>6, <3>1, <3>2, <3>3, TakeMaps
  <2>7. QED
    BY <2>1, <2>4, <2>5, <2>6
<1>7. ASSUME NEW s \in States, DeleteState(s)
      PROVE  AbsentIsEmpty(items') /\ Tickets!Next
  BY <1>0, <1>7, <1>100, WithoutThins DEF DeleteState
<1>8. ASSUME NEW s \in States, NEW q \in Names, SaveValue(s, q)
      PROVE  AbsentIsEmpty(items') /\ Tickets!Next
  <2> DEFINE old == items[s]
             e == [present |-> TRUE, correlation |-> old.correlation,
                   values |-> [old.values EXCEPT ![q] = saves + 1],
                   createdAt |-> IF old.createdAt = 0 THEN now ELSE old.createdAt,
                   binding |-> old.binding]
  <2>1. /\ saves < MaxSaves /\ saves' = saves + 1
        /\ items' = [items EXCEPT ![s] = e]
        /\ UNCHANGED <<owner, handed, taker>>
    BY <1>8 DEF SaveValue
  <2>2. saves + 1 \in Ids /\ saves + 1 \in IdOrNone
    BY <1>0, <2>1 DEF Ids, IdOrNone
  <2>3. e \in StateEntry
    BY <1>0, <2>2 DEF TypeOK, StateEntry, Time
  <2>4. /\ e.present
        /\ e.correlation.id = items[s].correlation.id
        /\ e.values = [items[s].values EXCEPT ![q] = saves + 1]
    OBVIOUS
  <2> HIDE DEF e
  <2>5. \A n \in Names : e.values[n] \in {saves + 1, items[s].values[n]}
    <3>1. items[s].values \in [Names -> IdOrNone]
      BY <1>0 DEF StateEntry
    <3>2. QED
      BY <2>4, <3>1
  <2>6. /\ AbsentIsEmpty([items EXCEPT ![s] = e])
        /\ \A i \in 1..saves : Holds([items EXCEPT ![s] = e], i) => Holds(items, i)
    BY <1>0, <2>3, <2>4, <2>5, FreshHolds
  <2>7. owner' = [owner EXCEPT ![saves + 1] = NoBrowser]
    BY <1>103, <2>1, <2>2
  <2>8. QED
    BY <1>104, <2>1, <2>2, <2>6, <2>7, IssueMaps
<1>9. ASSUME NEW s \in States, NEW n \in Names, DeleteValue(s, n)
      PROVE  AbsentIsEmpty(items') /\ Tickets!Next
  BY <1>0, <1>9, <1>100, DropValueThins DEF DeleteValue
<1>10. ASSUME NEW s \in States, NEW n \in Names, NEW b \in Agents,
              ConsumeValue(s, n, b)
       PROVE  AbsentIsEmpty(items') /\ Tickets!Next
  <2> DEFINE i == items[s].values[n]
  <2>1. /\ UNCHANGED <<saves, owner>>
        /\ items[s].present
        /\ \/ items' = Without(items, {s}) /\ UNCHANGED <<handed, taker>>
           \/ /\ i # 0
              /\ items' = [items EXCEPT ![s] = DropValue(@, n)]
              /\ HandOut(i, b)
    BY <1>10, Zenon DEF ConsumeValue
  <2>2. Thinner(items', items)
    BY <1>0, <2>1, WithoutThins, DropValueThins
  <2>3. AbsentIsEmpty(items') /\ \A j \in Ids : Holds(items', j) => Holds(items, j)
    BY <2>2, ThinnerHolds
  <2>4. CASE UNCHANGED <<handed, taker>>
    BY <1>100, <2>1, <2>2, <2>4
  <2>5. CASE i # 0 /\ HandOut(i, b)
    <3>1. i <= saves /\ handed[i] = 0 /\ owner[i] = NoBrowser
      BY <2>5 DEF Inv, SavesInv, PlacesOK, TokensInv, BindingsOK
    <3>2. i \in Ids
      <4>1. i \in IdOrNone
        BY <1>0 DEF StateEntry
      <4>2. QED
        BY <2>5, <4>1 DEF Ids, IdOrNone
    <3>3. Holds(items, i)
      BY <2>1 DEF Holds
    <3> HIDE DEF i
    <3>4. QED
      BY <2>1, <2>3, <2>5, <3>1, <3>2, <3>3, TakeMaps
  <2>6. QED
    BY <2>1, <2>4, <2>5
<1>11. ASSUME NEW w \in Workers, NEW s \in States,
              LoadStateRead(w, s) \/ LoadValueRead(w, s)
       PROVE  AbsentIsEmpty(items') /\ UNCHANGED Tickets!vars
  BY <1>11, <1>101 DEF LoadStateRead, LoadValueRead
<1>12. ASSUME NEW w \in Workers, LoadStateFinish(w) \/ LoadValueFinish(w)
       PROVE  AbsentIsEmpty(items') /\ Tickets!Next
  <2>1. Thinner(items, items)
    BY <1>0 DEF Thinner
  <2>2. /\ Thinner(items', items)
        /\ UNCHANGED <<saves, owner, handed, taker>>
    BY <1>0, <1>12, <2>1, WithoutThins DEF LoadStateFinish, LoadValueFinish
  <2>3. QED
    BY <1>100, <2>2
<1>13. CASE UNCHANGED vars
  BY <1>13, <1>101 DEF vars
<1>14. QED
  BY <1>1, <1>2, <1>3, <1>4, <1>5, <1>6, <1>7, <1>8, <1>9, <1>10, <1>11,
     <1>12, <1>13 DEF Next

\* The store implements single-use tickets: a save is a ticket that is open
\* until it is handed out once, to the browser it was issued to, or is lost by
\* expiry, sweep, overwrite or deletion; it never opens again.
THEOREM StoreImplementsTickets == Spec => ImplementsTickets
<1>1. New => Tickets!Init /\ Inv /\ AbsentIsEmpty(items)
  <2> SUFFICES ASSUME New PROVE Tickets!Init /\ AbsentIsEmpty(items) /\ Inv
    OBVIOUS
  <2>1. \A i \in Ids : i > saves
    BY DEF New, Ids
  <2>2. TicketOf = [i \in Ids |-> "none"]
    BY <2>1 DEF TicketOf
  <2>3. QED
    BY <2>2, InitInv, ZeroEntryFields DEF New, Tickets!Init, AbsentIsEmpty
<1>2. Inv /\ AbsentIsEmpty(items) /\ [Next]_vars
        => Inv' /\ AbsentIsEmpty(items)' /\ [Tickets!Next]_(Tickets!vars)
  BY StepInv, StepMaps
<1>3. QED
  BY <1>1, <1>2, PTL DEF Spec, ImplementsTickets, Tickets!Spec

-----------------------------------------------------------------------------
(* Live entries are lost for a reason *)

\* The store holds finitely many entries.
FinitelyMany(m) == IsFiniteSet(Present(m))

\* Thinning keeps the store finite.
LEMMA ThinnerFinite ==
  ASSUME NEW m, NEW r, Thinner(r, m), FinitelyMany(m)
  PROVE  FinitelyMany(r)
<1>1. Present(r) \in SUBSET Present(m)
  BY ZeroEntryFields DEF Thinner, Present
<1>2. QED
  BY <1>1, FS_Subset DEF FinitelyMany

\* So does filling one entry.
LEMMA FillFinite ==
  ASSUME NEW m \in [States -> StateEntry], FinitelyMany(m), NEW s \in States, NEW e
  PROVE  FinitelyMany([m EXCEPT ![s] = e])
<1>1. Present([m EXCEPT ![s] = e]) \in SUBSET (Present(m) \cup {s})
  BY DEF Present
<1>2. QED
  BY <1>1, FS_AddElement, FS_Subset DEF FinitelyMany

\* Every step keeps the store finite.
LEMMA StepFinite ==
  ASSUME TypeOK, FinitelyMany(items), [Next]_vars
  PROVE  FinitelyMany(items')
<1>0. items \in [States -> StateEntry]
  BY DEF TypeOK
<1>1. ASSUME NEW s \in States, NEW c \in CallerTimes, NEW x \in Expiries,
             NEW k \in Nat, StoreCorrelation(s, c, x, k)
      PROVE  FinitelyMany(items')
  <2>1. PICK e \in StateEntry : StoredEntry(e, s, c, x, k)
    BY <1>1, StoreCorrelationEntry
  <2> DEFINE m == [items EXCEPT ![s] = e]
  <2>2. FinitelyMany(m) /\ m \in [States -> StateEntry] /\ items' \in sweepLocked(m)
    BY <1>0, <2>1, FillFinite DEF StoredEntry
  <2> HIDE DEF m
  <2>3. QED
    BY <2>2, SweepThins, ThinnerFinite
<1>2. CASE Thinner(items', items)
  BY <1>2, ThinnerFinite
<1>3. Thinner(items, items)
  BY <1>0 DEF Thinner
<1>4. CASE Tick \/ UNCHANGED vars
  BY <1>4 DEF Tick, vars
<1>5. ASSUME NEW t \in Tabs, SendLogin(t) \/ ReceiveCookie(t)
      PROVE  FinitelyMany(items')
  BY <1>5 DEF SendLogin, ReceiveCookie
<1>6. ASSUME NEW s \in States, NEW c \in CallerTimes, NEW x \in Expiries,
             \/ SaveCorrelationUnbound(s, c, x)
             \/ \E t \in Tabs : SaveCorrelation(t, s, c, x)
      PROVE  FinitelyMany(items')
  <2>1. CASE SaveCorrelationUnbound(s, c, x)
    BY <1>1, <2>1 DEF SaveCorrelationUnbound
  <2>2. ASSUME NEW t \in Tabs, SaveCorrelation(t, s, c, x)
        PROVE  FinitelyMany(items')
    <3> DEFINE k == IF tab[t].token # 0 THEN tab[t].token ELSE saves + 1
    <3>1. StoreCorrelation(s, c, x, k)
      BY <2>2 DEF SaveCorrelation
    <3>2. k \in Nat
      BY DEF TypeOK, IdOrNone
    <3> HIDE DEF k
    <3>3. QED
      BY <1>1, <3>1, <3>2
  <2>3. QED
    BY <1>6, <2>1, <2>2
<1>7. ASSUME NEW s \in States, NEW b \in Agents, ConsumeCorrelation(s, b)
      PROVE  FinitelyMany(items')
  <2>1. items' = Without(items, {s})
    BY <1>7, Zenon DEF ConsumeCorrelation
  <2>2. QED
    BY <1>0, <1>2, <2>1, WithoutThins
<1>71. ASSUME NEW s \in States, DeleteState(s) PROVE FinitelyMany(items')
  BY <1>0, <1>2, <1>71, WithoutThins DEF DeleteState
<1>8. ASSUME NEW s \in States, NEW n \in Names, SaveValue(s, n)
      PROVE  FinitelyMany(items')
  BY <1>0, <1>8, FillFinite DEF SaveValue
<1>9. ASSUME NEW s \in States, NEW n \in Names, NEW b \in Agents,
             ConsumeValue(s, n, b)
      PROVE  FinitelyMany(items')
  <2>1. \/ items' = Without(items, {s})
        \/ items' = [items EXCEPT ![s] = DropValue(@, n)]
    BY <1>9, Zenon DEF ConsumeValue
  <2>2. QED
    BY <1>0, <1>2, <2>1, WithoutThins, DropValueThins
<1>91. ASSUME NEW s \in States, NEW n \in Names, DeleteValue(s, n)
       PROVE  FinitelyMany(items')
  BY <1>0, <1>2, <1>91, DropValueThins DEF DeleteValue
<1>10. ASSUME NEW w \in Workers, NEW s \in States,
              LoadStateRead(w, s) \/ LoadValueRead(w, s)
       PROVE  FinitelyMany(items')
  BY <1>10 DEF LoadStateRead, LoadValueRead
<1>11. ASSUME NEW w \in Workers, LoadStateFinish(w) \/ LoadValueFinish(w)
       PROVE  FinitelyMany(items')
  BY <1>0, <1>2, <1>3, <1>11, WithoutThins DEF LoadStateFinish, LoadValueFinish
<1>12. QED
  BY <1>4, <1>5, <1>6, <1>7, <1>71, <1>8, <1>9, <1>91, <1>10, <1>11 DEF Next

\* What the sweep takes of store m besides expired entries it takes only to
\* come down to the limit.
LEMMA SweepForRoom ==
  ASSUME NEW m \in [States -> StateEntry], NEW r \in sweepLocked(m),
         FinitelyMany(m),
         NEW s \in States, m[s].present, ~isExpired(m[s], now), ~r[s].present
  PROVE  Cardinality(Present(r)) = MaxEntries
<1> DEFINE live == {q \in Present(m) : ~isExpired(m[q], now)}
           excess == IF Cardinality(live) > MaxEntries
                     THEN Cardinality(live) - MaxEntries ELSE 0
<1>1. PICK E \in SUBSET live :
        /\ Cardinality(E) = excess
        /\ r = Without(m, (States \ live) \cup E)
  BY DEF sweepLocked
<1>2. live \subseteq States /\ s \in live
  BY DEF Present
<1>3. \A q \in States : r[q] = IF q \in live \ E THEN m[q] ELSE ZeroEntry
  BY <1>1 DEF Without
<1>4. Present(r) = live \ E
  <2>1. \A q \in live : m[q].present
    BY DEF Present
  <2>2. QED
    BY <1>2, <1>3, <2>1, ZeroEntryFields DEF Present
<1>6. s \in E
  BY <1>2, <1>3
<1>7. IsFiniteSet(live) /\ IsFiniteSet(E)
  <2>1. live \in SUBSET Present(m)
    OBVIOUS
  <2>2. IsFiniteSet(live)
    BY <2>1, FS_Subset DEF FinitelyMany
  <2>3. QED
    BY <1>1, <2>2, FS_Subset
<1>8. Cardinality(E) # 0
  BY <1>6, <1>7, FS_EmptySet
<1>9. Cardinality(live \ E) = Cardinality(live) - Cardinality(E)
  <2>1. live \cap E = E
    BY <1>1
  <2>2. QED
    BY <1>7, <2>1, FS_Difference
<1>10. Cardinality(live) \in Nat
  BY <1>7, FS_CardinalityType
<1> HIDE DEF live
<1>11. Cardinality(live \ E) = MaxEntries
  BY <1>1, <1>8, <1>9, <1>10, StoreAssumption
<1>12. QED
  BY <1>4, <1>11

\* The time a caller stamps on a save is at most MaxLag old, and the expiry of
\* a pushed request is not in the past.
LEMMA CallerFacts ==
  ASSUME TypeOK, NEW c \in CallerTimes, NEW x \in Expiries
  PROVE  /\ c = 0 \/ (c \in 1..now /\ now - c <= MaxLag)
         /\ x = 0 \/ \E d \in Nat : x = now + d
<1>1. c = 0 \/ (c \in 1..now /\ now - c <= MaxLag)
  BY DEF CallerTimes
<1>2. x = 0 \/ \E d \in Nat : x = now + d
  BY StoreAssumption, Zenon DEF Expiries
<1>3. QED
  BY <1>1, <1>2

\* An entry just saved has not expired, unless its caller dawdled for longer
\* than the TTL between reading the clock and the save.
LEMMA FreshIsLive ==
  ASSUME MaxLag <= TTL, TypeOK, now >= 1,
         NEW c \in CallerTimes, NEW x \in Expiries, NEW e,
         e.correlation.createdAt = Stamp(c),
         e.correlation.expiry = x
  PROVE  ~isExpired(e, now)
<1>1. now \in Nat /\ TTL \in Nat /\ MaxLag \in Nat
  BY StoreAssumption DEF TypeOK, Time
<1>2. c = 0 \/ (c \in 1..now /\ now - c <= MaxLag)
  BY CallerFacts
<1>3. x = 0 \/ \E d \in Nat : x = now + d
  BY CallerFacts
<1>4. QED
  BY <1>1, <1>2, <1>3 DEF isExpired, Stamp

\* The clock never shows Go's zero time.
LEMMA ClockRuns ==
  ASSUME TypeOK, now >= 1, [Next]_vars
  PROVE  now' >= 1
<1>1. CASE Tick
  BY <1>1 DEF Tick, TypeOK, Time
<1>2. CASE UNCHANGED now
  BY <1>2
<1>3. QED
  BY <1>1, <1>2
     DEF Next, vars, SendLogin, ReceiveCookie, SaveCorrelationUnbound,
         SaveCorrelation, ConsumeCorrelation, DeleteState, SaveValue, DeleteValue,
         ConsumeValue, LoadStateRead, LoadValueRead, LoadStateFinish,
         LoadValueFinish

\* A save takes a live entry only for lack of room.
LEMMA SaveForRoom ==
  ASSUME MaxLag <= TTL, TypeOK, FinitelyMany(items), now >= 1,
         NEW s \in States, NEW c \in CallerTimes, NEW x \in Expiries,
         NEW k \in Nat, StoreCorrelation(s, c, x, k),
         NEW q \in States, items[q].present, ~isExpired(items[q], now),
         ~items'[q].present
  PROVE  ForLackOfRoom
<1>0. items \in [States -> StateEntry] /\ now \in Nat /\ saves \in Nat
  BY StoreAssumption DEF TypeOK, Time, IdOrNone
<1>1. PICK e \in StateEntry : StoredEntry(e, s, c, x, k)
  BY StoreCorrelationEntry
<1> DEFINE m == [items EXCEPT ![s] = e]
<1>2. ~isExpired(e, now)
  BY <1>1, FreshIsLive DEF StoredEntry
<1>3. /\ FinitelyMany(m) /\ m \in [States -> StateEntry]
      /\ items' \in sweepLocked(m)
      /\ m[s] = e /\ \A v \in States : v # s => m[v] = items[v]
  BY <1>0, <1>1, FillFinite DEF StoredEntry
<1> HIDE DEF m
<1>4. m[q].present /\ ~isExpired(m[q], now)
  BY <1>1, <1>2, <1>3 DEF StoredEntry
<1>5. Cardinality(Present(items')) = MaxEntries
  BY <1>3, <1>4, SweepForRoom
<1>6. saves' > saves
  BY <1>0 DEF StoreCorrelation
<1>7. QED
  BY <1>5, <1>6 DEF ForLackOfRoom

\* A consumption that hands out save i of entry s.
LEMMA ConsumptionHandsOut ==
  ASSUME TypeOK, NEW s \in States, NEW b \in Agents,
         NEW i \in {items[s].correlation.id} \cup {items[s].values[n] : n \in Names},
         HandOut(i, b)
  PROVE  HandedOutOf(s)
<1>1. i \in IdOrNone
  BY DEF TypeOK, StateEntry, Correlation
<1>2. handed'[i] > handed[i]
  BY <1>1 DEF HandOut, TypeOK
<1>3. QED
  BY <1>2 DEF HandedOutOf

\* A live entry that a step takes away was lost for one of the reasons.
LEMMA LostForAReason ==
  ASSUME MaxLag <= TTL, TypeOK, FinitelyMany(items), now >= 1, Next,
         NEW q \in States, items[q].present, Held(q) # {}, ~isExpired(items[q], now),
         ~items'[q].present
  PROVE  \/ HandedOutOf(q)
         \/ DeletedByCaller(q)
         \/ ForLackOfRoom
         \/ RacedByLoadState(q)
<1>0. items \in [States -> StateEntry] /\ saves \in Nat
  BY StoreAssumption DEF TypeOK, IdOrNone
<1>1. ~(items' = items)
  OBVIOUS
<1>2. \A s \in States : items' = Without(items, {s}) => s = q
  BY <1>0 DEF Without
<1>3. ASSUME NEW s \in States, NEW e, items' = [items EXCEPT ![s] = e]
      PROVE  s = q /\ ~e.present
  BY <1>0, <1>3
<1>4. ASSUME NEW s \in States, NEW c \in CallerTimes, NEW x \in Expiries,
             NEW k \in Nat, StoreCorrelation(s, c, x, k)
      PROVE  ForLackOfRoom
  BY <1>4, SaveForRoom
<1>5. ASSUME NEW s \in States, NEW c \in CallerTimes, NEW x \in Expiries,
             NEW t \in Tabs, SaveCorrelation(t, s, c, x)
      PROVE  ForLackOfRoom
  <2> DEFINE k == IF tab[t].token # 0 THEN tab[t].token ELSE saves + 1
  <2>1. StoreCorrelation(s, c, x, k)
    BY <1>5 DEF SaveCorrelation
  <2>2. k \in Nat
    BY <1>0 DEF TypeOK
  <2> HIDE DEF k
  <2>3. QED
    BY <1>4, <2>1, <2>2
<1>6. ASSUME NEW s \in States, NEW b \in Agents, ConsumeCorrelation(s, b)
      PROVE  HandedOutOf(q)
  <2>1. s = q
    <3>1. items' = Without(items, {s})
      BY <1>6, Zenon DEF ConsumeCorrelation
    <3>2. QED
      BY <1>2, <3>1
  <2>2. HandOut(items[q].correlation.id, b)
    BY <1>6, <2>1, Zenon DEF ConsumeCorrelation
  <2>3. QED
    BY <2>2, ConsumptionHandsOut
<1>7. ASSUME NEW s \in States, DeleteState(s) PROVE DeletedByCaller(q)
  <2>1. s = q
    BY <1>2, <1>7 DEF DeleteState
  <2>2. QED
    BY <1>7, <2>1 DEF DeleteState, DeletedByCaller
<1>8. ASSUME NEW s \in States, NEW n \in Names, SaveValue(s, n) PROVE FALSE
  BY <1>0, <1>8 DEF SaveValue
<1>9. ASSUME NEW s \in States, NEW n \in Names, DeleteValue(s, n)
      PROVE  DeletedByCaller(q)
  <2>1. items' = [items EXCEPT ![s] = DropValue(items[s], n)]
    BY <1>0, <1>9 DEF DeleteValue
  <2>2. s = q
    BY <1>3, <2>1
  <2>3. ~DropValue(items[q], n).present
    BY <1>3, <2>1, <2>2
  <2>4. /\ items[q].correlation.id = 0
        /\ \A m \in Names \ {n} : items[q].values[m] = 0
    BY <1>0, <2>3 DEF DropValue, isZeroCorrelation, ZeroCorrelation, StateEntry
  <2>5. items[q].values[n] # 0
    BY <2>4 DEF Held
  <2>6. items[q].values[n] \in Held(q) \cap deleted'
    BY <1>9, <2>2, <2>5 DEF DeleteValue, Held
  <2>7. QED
    BY <2>6 DEF DeletedByCaller
<1>10. ASSUME NEW s \in States, NEW n \in Names, NEW b \in Agents,
              ConsumeValue(s, n, b)
       PROVE  HandedOutOf(q)
  <2>1. \/ items' = Without(items, {s})
        \/ items' = [items EXCEPT ![s] = DropValue(@, n)]
    BY <1>10, Zenon DEF ConsumeValue
  <2>2. s = q
    BY <1>0, <1>2, <2>1
  <2>3. HandOut(items[q].values[n], b)
    BY <1>10, <2>2, Zenon DEF ConsumeValue
  <2>4. QED
    BY <2>3, ConsumptionHandsOut
<1>11. ASSUME NEW w \in Workers, LoadStateFinish(w) PROVE RacedByLoadState(q)
  <2>1. isExpired(load[w].entry, now) /\ items' = Without(items, {load[w].state})
    BY <1>1, <1>11 DEF LoadStateFinish
  <2>2. load[w].state = q
    BY <1>0, <2>1 DEF Without
  <2>3. QED
    BY <1>11, <2>1, <2>2 DEF RacedByLoadState
<1>12. ASSUME NEW w \in Workers, LoadValueFinish(w) PROVE FALSE
  <2> DEFINE s == load[w].state
  <2>1. isExpired(items[s], now) /\ items' = Without(items, {s})
    BY <1>1, <1>12 DEF LoadValueFinish
  <2>2. s = q
    BY <1>0, <2>1 DEF Without
  <2>3. QED
    BY <2>1, <2>2
<1>13. QED
  BY <1>1, <1>4, <1>5, <1>6, <1>7, <1>8, <1>9, <1>10, <1>11, <1>12,
     StoreAssumption
     DEF Next, Tick, SendLogin, ReceiveCookie, SaveCorrelationUnbound,
         LoadStateRead, LoadValueRead

\* Provided that no caller reads the clock more than the TTL before it saves
\* (TTL is ten minutes, and only a pushed authorization request lies between
\* the two): a live entry leaves the store only when it is handed out, deleted,
\* given up by a full store, or lost to the race of LoadState.
THEOREM LiveEntriesAreKept ==
  ASSUME MaxLag <= TTL
  PROVE  Spec => LiveEntriesKept
<1> DEFINE LInv == TypeOK /\ FinitelyMany(items) /\ now >= 1
<1>1. New => LInv
  <2>1. New => FinitelyMany(items) /\ now >= 1
    <3> SUFFICES ASSUME New PROVE FinitelyMany(items) /\ now >= 1
      OBVIOUS
    <3>1. Present(items) = {}
      BY ZeroEntryFields DEF New, Present
    <3>2. QED
      BY <3>1, FS_EmptySet DEF New, FinitelyMany
  <2>2. QED
    BY <2>1, InitType
<1>2. LInv /\ [Next]_vars => LInv'
  BY StepType, StepFinite, ClockRuns
<1>3. LInv /\ [Next]_vars =>
        [\A s \in States :
           /\ items[s].present /\ Held(s) # {}
           /\ ~isExpired(items[s], now)
           /\ ~items'[s].present
           => \/ HandedOutOf(s)
              \/ DeletedByCaller(s)
              \/ ForLackOfRoom
              \/ RacedByLoadState(s)]_vars
  BY LostForAReason
<1> HIDE DEF LInv
<1>4. QED
  BY <1>1, <1>2, <1>3, PTL DEF Spec, LiveEntriesKept

-----------------------------------------------------------------------------
(* The initiating browser can finish its login *)

\* Every browser has one login request in flight at a time.
OneLoginPerBrowser == \A t, u \in Tabs : BrowserOf[t] = BrowserOf[u] => t = u

\* At time at, with requests tb and jars jr: bound entry e has expired, or the
\* response that carries its binding is on its way to tab t, or the browser of
\* t holds a cookie with the binding that outlives the entry and no request in
\* flight will replace it by another.
Presentable(t, e, at, tb, jr) ==
  \/ isExpired(e, at)
  \/ tb[t].pc = "replied" /\ tb[t].token = e.binding
  \/ /\ \/ tb[t].pc = "idle"
        \/ tb[t].pc = "sent" /\ tb[t].token = e.binding
     /\ jr[BrowserOf[t]].token = e.binding
     /\ e.correlation.createdAt + TTL < jr[BrowserOf[t]].expires

\* In store m with owners o: the tab that started the login of a bound entry
\* can present the binding.
CookiesOK(m, o, at, tb, jr) ==
  \A s \in States :
    m[s].binding # 0 =>
      /\ m[s].correlation.createdAt \in 1..at
      /\ \E t \in Tabs : /\ o[m[s].correlation.id] = BrowserOf[t]
                         /\ Presentable(t, m[s], at, tb, jr)

CookieInv == CookiesOK(items, owner, now, tab, jar)

\* Whether a stamped entry has expired is up to its correlation alone.
LEMMA ExpiryOfCorrelation ==
  ASSUME NEW e, NEW f, NEW at, e.correlation = f.correlation,
         e.correlation.createdAt # 0
  PROVE  isExpired(e, at) <=> isExpired(f, at)
BY DEF isExpired

\* Thinning keeps the cookies good for what remains.
LEMMA ThinnerCookies ==
  ASSUME NEW m, NEW r, NEW o, NEW at \in Nat, NEW tb, NEW jr, Thinner(r, m),
         CookiesOK(m, o, at, tb, jr)
  PROVE  CookiesOK(r, o, at, tb, jr)
<1> SUFFICES ASSUME NEW s \in States, r[s].binding # 0
             PROVE  /\ r[s].correlation.createdAt \in 1..at
                    /\ \E t \in Tabs : /\ o[r[s].correlation.id] = BrowserOf[t]
                                       /\ Presentable(t, r[s], at, tb, jr)
  BY DEF CookiesOK
<1>1. r[s].correlation = m[s].correlation /\ r[s].binding = m[s].binding
  BY ZeroEntryFields DEF Thinner
<1>2. /\ m[s].correlation.createdAt \in 1..at
      /\ \E t \in Tabs : /\ o[m[s].correlation.id] = BrowserOf[t]
                         /\ Presentable(t, m[s], at, tb, jr)
  BY <1>1 DEF CookiesOK
<1>3. isExpired(m[s], at) <=> isExpired(r[s], at)
  BY <1>1, <1>2, ExpiryOfCorrelation
<1>4. \A t \in Tabs : Presentable(t, m[s], at, tb, jr) => Presentable(t, r[s], at, tb, jr)
  BY <1>1, <1>3 DEF Presentable
<1>5. QED
  BY <1>1, <1>2, <1>4

\* A save that answers tab t's request with binding k, or one without a browser
\* (k = 0), keeps the cookies good: k is what the tab presented, or the tab
\* presented none because none of its entries is still alive.
LEMMA SaveCookies ==
  ASSUME Inv, CookieInv, now >= 1,
         NEW s \in States, NEW c \in CallerTimes, NEW x \in Expiries,
         NEW k \in Nat, StoreCorrelation(s, c, x, k),
         \/ k = 0 /\ UNCHANGED <<tab, owner>>
         \/ \E t \in Tabs :
              /\ tab[t].pc = "sent"
              /\ k # 0 /\ tab[t].token \in {0, k}
              /\ tab' = [tab EXCEPT ![t] = [pc |-> "replied", token |-> k]]
              /\ owner' = [owner EXCEPT ![saves + 1] = BrowserOf[t]]
  PROVE  CookiesOK(items', owner', now, tab', jar)
<1>0. /\ TypeOK /\ now \in Nat /\ saves \in Nat
      /\ items \in [States -> StateEntry]
      /\ saves + 1 \in Ids
      /\ owner \in [Ids -> Agents]
      /\ tab \in [Tabs -> [pc : {"idle", "sent", "replied"}, token : Nat]]
  <2>1. TypeOK
    BY DEF Inv
  <2>2. saves + 1 \in Ids
    BY <2>1, StoreCorrelationType
  <2>3. QED
    BY <2>1, <2>2, StoreAssumption DEF TypeOK, Time, IdOrNone
<1>1. PICK e \in StateEntry : StoredEntry(e, s, c, x, k)
  BY <1>0, StoreCorrelationEntry
<1> DEFINE m == [items EXCEPT ![s] = e]
<1>2. /\ m \in [States -> StateEntry]
      /\ items' \in sweepLocked(m)
      /\ m[s] = e /\ \A u \in States : u # s => m[u] = items[u]
      /\ e.binding = k /\ e.correlation.id = saves + 1
      /\ e.correlation.createdAt = Stamp(c)
  BY <1>0, <1>1 DEF StoredEntry
<1> HIDE DEF m
<1>3. Stamp(c) \in 1..now
  BY <1>0, CallerFacts DEF Stamp
<1>4. ASSUME NEW u \in States, u # s, m[u].binding # 0
      PROVE  /\ m[u].correlation.createdAt \in 1..now
             /\ \E t \in Tabs : /\ owner'[m[u].correlation.id] = BrowserOf[t]
                                /\ Presentable(t, m[u], now, tab', jar)
  <2>1. m[u] = items[u]
    BY <1>2, <1>4
  <2>2. m[u].correlation.createdAt \in 1..now
    BY <1>4, <2>1 DEF CookieInv, CookiesOK
  <2>3. PICK t \in Tabs : /\ owner[m[u].correlation.id] = BrowserOf[t]
                          /\ Presentable(t, m[u], now, tab, jar)
    BY <1>4, <2>1 DEF CookieInv, CookiesOK
  <2>4. m[u].correlation.id # saves + 1
    BY <1>0, <2>1 DEF Inv, SavesInv, PlacesOK, StateEntry, Correlation, IdOrNone
  <2>5. owner'[m[u].correlation.id] = owner[m[u].correlation.id]
    <3>1. m[u].correlation.id # 0 /\ m[u].correlation.id \in IdOrNone
      BY <1>0, <1>4, <2>1 DEF Inv, TokensInv, BindingsOK, StateEntry, Correlation
    <3>2. m[u].correlation.id \in Ids
      BY <3>1 DEF Ids, IdOrNone
    <3>3. QED
      BY <1>0, <2>4, <3>2
  <2>6. Presentable(t, m[u], now, tab', jar)
    <3>1. CASE UNCHANGED tab
      BY <2>3, <3>1
    <3>2. CASE \E v \in Tabs :
                 /\ tab[v].pc = "sent"
                 /\ tab[v].token \in {0, k}
                 /\ tab' = [tab EXCEPT ![v] = [pc |-> "replied", token |-> k]]
      <4>1. PICK v \in Tabs :
              /\ tab[v].pc = "sent"
              /\ tab[v].token \in {0, k}
              /\ tab' = [tab EXCEPT ![v] = [pc |-> "replied", token |-> k]]
        BY <3>2
      <4>2. CASE v # t
        <5>1. tab'[t] = tab[t]
          BY <1>0, <4>1, <4>2
        <5>2. QED
          BY <2>3, <5>1 DEF Presentable
      <4>3. CASE v = t
        <5>1. tab'[t].pc = "replied" /\ tab'[t].token = k
          BY <1>0, <4>1, <4>3
        <5>2. isExpired(m[u], now) \/ tab[t].token = m[u].binding
          BY <2>3, <4>1, <4>3 DEF Presentable
        <5>3. isExpired(m[u], now) \/ k = m[u].binding
          BY <1>4, <4>1, <4>3, <5>2
        <5>4. QED
          BY <5>1, <5>3 DEF Presentable
      <4>4. QED
        BY <4>2, <4>3
    <3>3. QED
      BY <3>1, <3>2
  <2>7. QED
    BY <2>2, <2>3, <2>5, <2>6
<1>5. ASSUME m[s].binding # 0
      PROVE  /\ m[s].correlation.createdAt \in 1..now
             /\ \E t \in Tabs : /\ owner'[m[s].correlation.id] = BrowserOf[t]
                                /\ Presentable(t, m[s], now, tab', jar)
  <2>1. k # 0 /\ m[s].correlation.createdAt \in 1..now
    BY <1>2, <1>3, <1>5
  <2>2. PICK t \in Tabs :
          /\ tab' = [tab EXCEPT ![t] = [pc |-> "replied", token |-> k]]
          /\ owner' = [owner EXCEPT ![saves + 1] = BrowserOf[t]]
    BY <2>1
  <2>3. tab'[t].pc = "replied" /\ tab'[t].token = k
    BY <1>0, <2>2
  <2>4. owner'[m[s].correlation.id] = BrowserOf[t]
    BY <1>0, <1>2, <2>2
  <2>5. Presentable(t, m[s], now, tab', jar)
    BY <1>2, <2>3 DEF Presentable
  <2>6. QED
    BY <2>1, <2>4, <2>5
<1>6. CookiesOK(m, owner', now, tab', jar)
  BY <1>4, <1>5 DEF CookiesOK
<1>7. QED
  BY <1>0, <1>2, <1>6, SweepThins, ThinnerCookies

\* The clock running lets entries expire and nothing else.
LEMMA TickCookies ==
  ASSUME TypeOK, CookieInv, now' = now + 1
  PROVE  CookiesOK(items, owner, now', tab, jar)
<1>0. now \in Nat /\ TTL \in Nat /\ items \in [States -> StateEntry]
  BY StoreAssumption DEF TypeOK, Time
<1> SUFFICES ASSUME NEW s \in States, items[s].binding # 0
             PROVE  /\ items[s].correlation.createdAt \in 1..now'
                    /\ \E t \in Tabs :
                         /\ owner[items[s].correlation.id] = BrowserOf[t]
                         /\ Presentable(t, items[s], now', tab, jar)
  BY DEF CookiesOK
<1>1. /\ items[s].correlation.createdAt \in 1..now
      /\ \E t \in Tabs : /\ owner[items[s].correlation.id] = BrowserOf[t]
                         /\ Presentable(t, items[s], now, tab, jar)
  BY DEF CookieInv, CookiesOK
<1>2. items[s].correlation.expiry \in Nat /\ items[s].createdAt \in Nat
  BY <1>0 DEF StateEntry, Correlation, Time
<1>3. isExpired(items[s], now) => isExpired(items[s], now')
  <2> DEFINE a == items[s].correlation.createdAt
             x == items[s].correlation.expiry
  <2>1. a \in Nat /\ x \in Nat
    BY <1>0, <1>1, <1>2
  <2>2. \A at : isExpired(items[s], at) <=> (a + TTL < at \/ (x # 0 /\ x < at))
    BY <1>1 DEF isExpired
  <2> HIDE DEF a, x
  <2>3. QED
    BY <1>0, <2>1, <2>2
<1>4. \A t \in Tabs : Presentable(t, items[s], now, tab, jar)
                        => Presentable(t, items[s], now', tab, jar)
  BY <1>3 DEF Presentable
<1>5. QED
  BY <1>0, <1>1, <1>4

\* An unexpired entry's cookie is still good.
LEMMA CookieOutlives ==
  ASSUME now \in Nat, TTL \in Nat, NEW e, ~isExpired(e, now),
         e.correlation.createdAt \in 1..now,
         NEW y \in Nat, e.correlation.createdAt + TTL < y
  PROVE  now < y
BY DEF isExpired

\* A cookie received now outlives every entry saved until now.
LEMMA MarginIsAhead ==
  ASSUME NEW n \in Nat, NEW ttl \in Nat, NEW margin \in Nat \ {0}, NEW c \in 1..n
  PROVE  c + ttl < n + ttl + margin
OBVIOUS

\* Sending and answering a request keep the cookies good, as long as no other
\* request of the same browser is under way.
LEMMA RequestCookies ==
  ASSUME Inv, CookieInv, now >= 1, OneLoginPerBrowser,
         NEW v \in Tabs, SendLogin(v) \/ ReceiveCookie(v)
  PROVE  CookieInv'
<1>0. /\ TypeOK /\ now \in Nat /\ TTL \in Nat /\ BindingMargin \in Nat \ {0}
      /\ items \in [States -> StateEntry]
      /\ tab \in [Tabs -> [pc : {"idle", "sent", "replied"}, token : Nat]]
      /\ jar \in [Browsers -> [token : Nat, expires : Nat]]
      /\ BrowserOf \in [Tabs -> Browsers]
  BY StoreAssumption DEF Inv, TypeOK, Time
<1>1. UNCHANGED <<now, items, owner>>
  BY DEF SendLogin, ReceiveCookie
<1> SUFFICES ASSUME NEW s \in States, items[s].binding # 0
             PROVE  /\ items[s].correlation.createdAt \in 1..now
                    /\ \E t \in Tabs :
                         /\ owner[items[s].correlation.id] = BrowserOf[t]
                         /\ Presentable(t, items[s], now, tab', jar')
  BY <1>1 DEF CookieInv, CookiesOK
<1> DEFINE e == items[s]
<1>2. e.correlation.createdAt \in 1..now
  BY DEF CookieInv, CookiesOK
<1>3. PICK t \in Tabs : /\ owner[e.correlation.id] = BrowserOf[t]
                        /\ Presentable(t, e, now, tab, jar)
  BY DEF CookieInv, CookiesOK
<1>4. e.binding # 0
  OBVIOUS
<1> HIDE DEF e
<1>5. ASSUME ~isExpired(e, now) PROVE Presentable(t, e, now, tab', jar')
  <2>1. CASE v # t
    <3>1. tab'[t] = tab[t]
      BY <1>0, <2>1 DEF SendLogin, ReceiveCookie
    <3>2. BrowserOf[v] # BrowserOf[t]
      BY <2>1 DEF OneLoginPerBrowser
    <3>3. jar'[BrowserOf[t]] = jar[BrowserOf[t]]
      BY <1>0, <3>2 DEF SendLogin, ReceiveCookie
    <3>4. QED
      BY <1>3, <3>1, <3>3 DEF Presentable
  <2>2. CASE v = t /\ SendLogin(v)
    <3>1. /\ tab[t].pc = "idle" /\ UNCHANGED jar
          /\ tab'[t] = [pc |-> "sent", token |-> bindingCookieValue(BrowserOf[t])]
      BY <1>0, <2>2 DEF SendLogin
    <3>2. /\ jar[BrowserOf[t]].token = e.binding
          /\ e.correlation.createdAt + TTL < jar[BrowserOf[t]].expires
      BY <1>3, <1>5, <3>1 DEF Presentable
    <3>3. now < jar[BrowserOf[t]].expires
      BY <1>0, <1>2, <1>5, <3>2, CookieOutlives
    <3>4. bindingCookieValue(BrowserOf[t]) = e.binding
      BY <1>0, <3>2, <3>3 DEF bindingCookieValue
    <3>5. tab'[t].pc = "sent" /\ tab'[t].token = e.binding
      BY <3>1, <3>4
    <3>6. QED
      BY <3>1, <3>2, <3>5 DEF Presentable
  <2>3. CASE v = t /\ ReceiveCookie(v)
    <3>1. /\ tab[t].pc = "replied"
          /\ tab' = [tab EXCEPT ![t] = IdleTab]
          /\ jar' = [jar EXCEPT ![BrowserOf[t]] =
                       [token |-> tab[t].token,
                        expires |-> now + TTL + BindingMargin]]
      BY <2>3 DEF ReceiveCookie
    <3>2. tab[t].token = e.binding
      BY <1>3, <1>5, <3>1 DEF Presentable
    <3>3. tab'[t].pc = "idle"
      BY <1>0, <3>1 DEF IdleTab
    <3>4. /\ jar'[BrowserOf[t]].token = tab[t].token
          /\ jar'[BrowserOf[t]].expires = now + TTL + BindingMargin
      BY <1>0, <3>1
    <3>5. e.correlation.createdAt + TTL < now + TTL + BindingMargin
      BY <1>0, <1>2, MarginIsAhead
    <3>6. QED
      BY <3>2, <3>3, <3>4, <3>5 DEF Presentable
  <2>4. QED
    BY <2>1, <2>2, <2>3
<1>6. Presentable(t, e, now, tab', jar')
  BY <1>5 DEF Presentable
<1>7. QED
  BY <1>2, <1>3, <1>6 DEF e

\* Every step keeps the cookies good.
LEMMA StepCookies ==
  ASSUME Inv, CookieInv, now >= 1, OneLoginPerBrowser, [Next]_vars
  PROVE  CookieInv'
<1> USE StoreAssumption
<1>0. TypeOK /\ now \in Nat /\ items \in [States -> StateEntry] /\ saves \in Nat
  BY DEF Inv, TypeOK, Time, IdOrNone
<1>1. Thinner(items, items)
  BY <1>0 DEF Thinner
<1>2. ASSUME Thinner(items', items), UNCHANGED <<now, jar, tab, owner>>
      PROVE  CookieInv'
  BY <1>0, <1>2, ThinnerCookies DEF CookieInv
<1>3. CASE Tick
  BY <1>0, <1>3, TickCookies DEF Tick, CookieInv
<1>4. ASSUME NEW t \in Tabs, SendLogin(t) \/ ReceiveCookie(t) PROVE CookieInv'
  BY <1>4, RequestCookies
<1>5. ASSUME NEW s \in States, NEW c \in CallerTimes, NEW x \in Expiries,
             SaveCorrelationUnbound(s, c, x)
      PROVE  CookieInv'
  <2>1. StoreCorrelation(s, c, x, 0) /\ UNCHANGED <<now, jar, tab, owner>>
    BY <1>5 DEF SaveCorrelationUnbound
  <2>2. CookiesOK(items', owner', now, tab', jar)
    BY <2>1, SaveCookies
  <2>3. QED
    BY <2>1, <2>2 DEF CookieInv
<1>6. ASSUME NEW s \in States, NEW c \in CallerTimes, NEW x \in Expiries,
             NEW t \in Tabs, SaveCorrelation(t, s, c, x)
      PROVE  CookieInv'
  <2> DEFINE k == IF tab[t].token # 0 THEN tab[t].token ELSE saves + 1
  <2>1. /\ tab[t].pc = "sent"
        /\ StoreCorrelation(s, c, x, k)
        /\ tab' = [tab EXCEPT ![t] = [pc |-> "replied", token |-> k]]
        /\ owner' = [owner EXCEPT ![saves + 1] = BrowserOf[t]]
        /\ UNCHANGED <<now, jar>>
    BY <1>6 DEF SaveCorrelation
  <2>2. k \in Nat /\ k # 0 /\ tab[t].token \in {0, k}
    BY <1>0 DEF TypeOK
  <2> HIDE DEF k
  <2>3. CookiesOK(items', owner', now, tab', jar)
    BY <2>1, <2>2, SaveCookies
  <2>4. QED
    BY <2>1, <2>3 DEF CookieInv
<1>7. ASSUME NEW s \in States, NEW b \in Agents, ConsumeCorrelation(s, b)
      PROVE  CookieInv'
  <2>1. items' = Without(items, {s}) /\ UNCHANGED <<now, jar, tab, owner>>
    BY <1>7, Zenon DEF ConsumeCorrelation
  <2>2. QED
    BY <1>0, <1>2, <2>1, WithoutThins
<1>8. ASSUME NEW s \in States, DeleteState(s) PROVE CookieInv'
  BY <1>0, <1>2, <1>8, WithoutThins DEF DeleteState
<1>9. ASSUME NEW s \in States, NEW n \in Names, SaveValue(s, n) PROVE CookieInv'
  <2>1. UNCHANGED <<now, jar, tab, owner>>
    BY <1>9 DEF SaveValue
  <2>2. \A u \in States : /\ items'[u].correlation = items[u].correlation
                          /\ items'[u].binding = items[u].binding
    BY <1>0, <1>9 DEF SaveValue
  <2> SUFFICES ASSUME NEW u \in States, items[u].binding # 0
               PROVE  /\ items'[u].correlation.createdAt \in 1..now
                      /\ \E t \in Tabs :
                           /\ owner[items'[u].correlation.id] = BrowserOf[t]
                           /\ Presentable(t, items'[u], now, tab, jar)
    BY <2>1, <2>2 DEF CookieInv, CookiesOK
  <2>3. /\ items[u].correlation.createdAt \in 1..now
        /\ \E t \in Tabs : /\ owner[items[u].correlation.id] = BrowserOf[t]
                           /\ Presentable(t, items[u], now, tab, jar)
    BY DEF CookieInv, CookiesOK
  <2>4. isExpired(items[u], now) <=> isExpired(items'[u], now)
    BY <2>2, <2>3, ExpiryOfCorrelation
  <2>5. \A t \in Tabs : Presentable(t, items[u], now, tab, jar)
                          => Presentable(t, items'[u], now, tab, jar)
    BY <2>2, <2>4 DEF Presentable
  <2>6. QED
    BY <2>2, <2>3, <2>5
<1>10. ASSUME NEW s \in States, NEW n \in Names, DeleteValue(s, n)
       PROVE  CookieInv'
  BY <1>0, <1>2, <1>10, DropValueThins DEF DeleteValue
<1>11. ASSUME NEW s \in States, NEW n \in Names, NEW b \in Agents,
              ConsumeValue(s, n, b)
       PROVE  CookieInv'
  <2>1. /\ UNCHANGED <<now, jar, tab, owner>>
        /\ \/ items' = Without(items, {s})
           \/ items' = [items EXCEPT ![s] = DropValue(@, n)]
    BY <1>11, Zenon DEF ConsumeValue
  <2>2. QED
    BY <1>0, <1>2, <2>1, WithoutThins, DropValueThins
<1>12. ASSUME NEW w \in Workers, NEW s \in States,
              LoadStateRead(w, s) \/ LoadValueRead(w, s)
       PROVE  CookieInv'
  BY <1>1, <1>2, <1>12 DEF LoadStateRead, LoadValueRead
<1>13. ASSUME NEW w \in Workers, LoadStateFinish(w) \/ LoadValueFinish(w)
       PROVE  CookieInv'
  BY <1>0, <1>1, <1>2, <1>13, WithoutThins DEF LoadStateFinish, LoadValueFinish
<1>14. CASE UNCHANGED vars
  BY <1>1, <1>2, <1>14 DEF vars
<1>15. QED
  BY <1>3, <1>4, <1>5, <1>6, <1>7, <1>8, <1>9, <1>10, <1>11, <1>12, <1>13,
     <1>14 DEF Next

\* Provided that a browser runs one login at a time: from the arrival of the
\* response on, and for as long as the entry lives, the browser that started a
\* login presents the entry's binding.
THEOREM InitiatorFinishes ==
  ASSUME OneLoginPerBrowser
  PROVE  Spec => []InitiatorCanFinish
<1> DEFINE CInv == Inv /\ CookieInv /\ now >= 1
<1>1. New => CInv
  <2> SUFFICES ASSUME New PROVE CInv
    OBVIOUS
  <2>1. CookieInv
    BY ZeroEntryFields DEF New, CookieInv, CookiesOK
  <2>2. QED
    BY <2>1, InitInv DEF New
<1>2. CInv /\ [Next]_vars => CInv'
  <2>1. Inv => TypeOK
    BY DEF Inv
  <2>2. QED
    BY <2>1, StepInv, StepCookies, ClockRuns
<1>3. CInv => InitiatorCanFinish
  <2> SUFFICES ASSUME CInv, NEW s \in States, items[s].binding # 0,
                      ~isExpired(items[s], now),
                      ~\E t \in Tabs : /\ tab[t].pc = "replied"
                                       /\ tab[t].token = items[s].binding
               PROVE  bindingCookieValue(owner[items[s].correlation.id])
                        = items[s].binding
    BY DEF InitiatorCanFinish
  <2>1. items[s].correlation.createdAt \in 1..now
    BY DEF CookieInv, CookiesOK
  <2>2. PICK t \in Tabs : /\ owner[items[s].correlation.id] = BrowserOf[t]
                          /\ Presentable(t, items[s], now, tab, jar)
    BY DEF CookieInv, CookiesOK
  <2>3. /\ jar[BrowserOf[t]].token = items[s].binding
        /\ items[s].correlation.createdAt + TTL < jar[BrowserOf[t]].expires
    BY <2>2 DEF Presentable
  <2>4. /\ now \in Nat /\ TTL \in Nat
        /\ BrowserOf[t] \in Browsers
        /\ jar[BrowserOf[t]].expires \in Nat
    BY StoreAssumption DEF Inv, TypeOK, Time
  <2>5. now < jar[BrowserOf[t]].expires
    BY <2>1, <2>3, <2>4, CookieOutlives
  <2>6. QED
    BY <2>2, <2>3, <2>4, <2>5 DEF bindingCookieValue
<1> HIDE DEF CInv
<1>4. QED
  BY <1>1, <1>2, <1>3, PTL DEF Spec
=============================================================================
