--------------------------- MODULE HarnessProofs ---------------------------
(***************************************************************************)
(* First the scheduler by itself, for any number of jobs and any settings: *)
(* types, the account of the jobs, the bound on what runs in parallel, the *)
(* order of the report.  Then the harness with one job in detail, which    *)
(* implements the scheduler, so that what is proved of the scheduler holds *)
(* for Execute, for any job list, plan, number of retries and behaviour of *)
(* the conformance suite.                                                  *)
(***************************************************************************)
EXTENDS Harness, SequenceTheorems, FiniteSetTheorems, TLAPS

-----------------------------------------------------------------------------
(* The scheduler *)

\* What makes the bound inductive: `running`, which the loop tests, is itself
\* within it.
RunningBound == running <= MaxParallelRuns

SchedInv == SchedTypeOK /\ JobsAccounted /\ ParallelBound /\ RunningBound

-----------------------------------------------------------------------------
(* Sequences of results *)

\* Sending a result adds its index to those in the channel.
LEMMA AppendIndexes ==
  ASSUME NEW rs \in Seq(Result), NEW r \in Result
  PROVE  /\ Append(rs, r) \in Seq(Result)
         /\ Len(Append(rs, r)) = Len(rs) + 1
         /\ Indexes(Append(rs, r)) = Indexes(rs) \cup {r.index}
         /\ Distinct(rs) /\ r.index \notin Indexes(rs)
              => Distinct(Append(rs, r))
<1> DEFINE ap == Append(rs, r)
<1>1. /\ ap \in Seq(Result)
      /\ Len(ap) = Len(rs) + 1
      /\ DOMAIN ap = DOMAIN rs \cup {Len(rs) + 1}
      /\ DOMAIN rs = 1..Len(rs)
      /\ \A i \in DOMAIN rs : ap[i] = rs[i]
      /\ ap[Len(rs) + 1] = r
  OBVIOUS
<1> HIDE DEF ap
<1>2. Indexes(ap) = Indexes(rs) \cup {r.index}
  BY <1>1 DEF Indexes
<1>3. ASSUME Distinct(rs), r.index \notin Indexes(rs)
      PROVE  Distinct(ap)
  BY <1>1, <1>3 DEF Distinct, Indexes
<1> QED
  BY <1>1, <1>2, <1>3 DEF ap

\* Receiving a result takes its index out of those in the channel.
LEMMA TailIndexes ==
  ASSUME NEW rs \in Seq(Result), rs # <<>>
  PROVE  /\ Head(rs) \in Result
         /\ Tail(rs) \in Seq(Result)
         /\ Len(rs) = Len(Tail(rs)) + 1
         /\ Indexes(rs) = Indexes(Tail(rs)) \cup {Head(rs).index}
         /\ Distinct(rs) => /\ Distinct(Tail(rs))
                            /\ Head(rs).index \notin Indexes(Tail(rs))
<1> DEFINE tl == Tail(rs)
           hd == Head(rs)
<1>1. /\ tl \in Seq(Result)
      /\ hd \in Result
      /\ Len(rs) = Len(tl) + 1
      /\ Len(tl) \in Nat
      /\ DOMAIN rs = 1..(Len(tl) + 1)
      /\ DOMAIN tl = 1..Len(tl)
      /\ rs[1] = hd
      /\ \A i \in 1..Len(tl) : tl[i] = rs[i + 1]
  OBVIOUS
<1> HIDE DEF tl, hd
<1>2. \A i \in DOMAIN rs : i = 1 \/ (i - 1 \in DOMAIN tl /\ rs[i] = tl[i - 1])
  BY <1>1
<1>3. Indexes(rs) = Indexes(tl) \cup {hd.index}
  <2>1. ASSUME NEW x \in Indexes(rs) PROVE x \in Indexes(tl) \cup {hd.index}
    BY <1>1, <1>2, <2>1 DEF Indexes
  <2>2. ASSUME NEW x \in Indexes(tl) PROVE x \in Indexes(rs)
    <3>1. PICK i \in DOMAIN tl : x = tl[i].index
      BY <2>2 DEF Indexes
    <3>2. i + 1 \in DOMAIN rs /\ tl[i] = rs[i + 1]
      BY <1>1
    <3> QED BY <3>1, <3>2 DEF Indexes
  <2>3. hd.index \in Indexes(rs)
    <3>1. 1 \in DOMAIN rs
      BY <1>1
    <3> QED BY <1>1, <3>1 DEF Indexes
  <2> QED BY <2>1, <2>2, <2>3
<1>4. ASSUME Distinct(rs) PROVE Distinct(tl)
  <2>1. ASSUME NEW a \in DOMAIN tl, NEW b \in DOMAIN tl,
               tl[a].index = tl[b].index
        PROVE  a = b
    <3>1. /\ a + 1 \in DOMAIN rs /\ b + 1 \in DOMAIN rs
          /\ tl[a] = rs[a + 1] /\ tl[b] = rs[b + 1]
          /\ a \in Nat /\ b \in Nat
      BY <1>1
    <3>2. a + 1 = b + 1
      BY <1>4, <2>1, <3>1 DEF Distinct
    <3> QED BY <3>1, <3>2
  <2> QED BY <2>1 DEF Distinct
<1>5. ASSUME Distinct(rs) PROVE hd.index \notin Indexes(tl)
  <2> SUFFICES ASSUME NEW i \in DOMAIN tl, hd.index = tl[i].index
               PROVE  FALSE
    BY DEF Indexes
  <2>1. /\ i + 1 \in DOMAIN rs /\ tl[i] = rs[i + 1] /\ 1 \in DOMAIN rs
        /\ i + 1 # 1
    BY <1>1
  <2> QED BY <1>1, <1>5, <2>1 DEF Distinct
<1> QED
  BY <1>1, <1>3, <1>4, <1>5 DEF tl, hd

\* MaxParallelRuns is a positive number, whatever the configuration says.
LEMMA MaxPositive ==
  ASSUME cfg \in Settings
  PROVE  MaxParallelRuns \in Nat \ {0}
<1>1. cfg \in [max : Int, failFast : BOOLEAN]
  BY SchedulerAssumption
<1>2. cfg.max \in Int
  BY <1>1
<1> QED BY <1>2 DEF MaxParallelRuns

\* The goroutines that execute are finitely many.
LEMMA ActiveFinite ==
  ASSUME active \in SUBSET Jobs
  PROVE  IsFiniteSet(active) /\ Cardinality(active) \in Nat
<1>1. IsFiniteSet(Jobs)
  BY FS_Interval, SchedulerAssumption DEF Jobs
<1>2. IsFiniteSet(active)
  BY <1>1, FS_Subset
<1> QED BY <1>2, FS_CardinalityType

-----------------------------------------------------------------------------
(* The steps *)

LEMMA InitInv == SchedInit => SchedInv
<1> SUFFICES ASSUME SchedInit PROVE SchedInv
  OBVIOUS
<1>1. SchedTypeOK
  <2>1. 1 \in 1..(NJobs + 1)
    BY SchedulerAssumption
  <2>2. <<>> \in Seq(Result)
    OBVIOUS
  <2> QED BY <2>1, <2>2 DEF SchedInit, SchedTypeOK
<1>2. JobsAccounted
  BY DEF SchedInit, JobsAccounted, Indexes, Distinct
<1>3. MaxParallelRuns \in Nat \ {0}
  BY <1>1, MaxPositive DEF SchedTypeOK
<1>4. Cardinality({}) = 0
  BY FS_EmptySet
<1>5. ParallelBound /\ RunningBound
  BY <1>3, <1>4 DEF SchedInit, ParallelBound, RunningBound
<1> QED BY <1>1, <1>2, <1>5 DEF SchedInv

LEMMA StartJobInv == SchedInv /\ StartJob => SchedInv'
<1> SUFFICES ASSUME SchedInv, StartJob PROVE SchedInv'
  OBVIOUS
<1> USE SchedulerAssumption
<1>1. /\ next \in Jobs /\ next + 1 \in 1..(NJobs + 1)
      /\ next \in 1..(NJobs + 1) /\ next \in Nat
      /\ running \in Nat /\ active \in SUBSET Jobs /\ cfg \in Settings
  BY DEF SchedInv, SchedTypeOK, StartJob, CanLaunch, Jobs
<1>2. SchedTypeOK'
  BY <1>1 DEF SchedInv, SchedTypeOK, StartJob
<1>3. /\ next \notin active
      /\ next \notin Indexes(resultsCh)
      /\ next \notin Indexes(results)
  <2>1. next \notin 1..(next - 1)
    BY <1>1
  <2> QED BY <2>1 DEF SchedInv, JobsAccounted
<1>4. JobsAccounted'
  <2>1. 1..(next' - 1) = 1..(next - 1) \cup {next}
    BY <1>1 DEF StartJob
  <2> QED BY <1>3, <2>1
          DEF SchedInv, JobsAccounted, StartJob, Indexes, Distinct
<1>5. /\ MaxParallelRuns \in Nat /\ MaxParallelRuns' = MaxParallelRuns
  BY <1>1, MaxPositive DEF StartJob, MaxParallelRuns
<1>6. /\ Cardinality(active') = Cardinality(active) + 1
      /\ Cardinality(active) \in Nat
  BY <1>1, <1>3, ActiveFinite, FS_AddElement DEF StartJob
<1>7. Len(resultsCh) \in Nat /\ resultsCh' = resultsCh
  BY LenProperties DEF SchedInv, SchedTypeOK, StartJob
<1>8. running + 1 <= MaxParallelRuns /\ running' = running + 1
  BY <1>1, <1>5 DEF StartJob, CanLaunch
<1>9. ParallelBound' /\ RunningBound'
  BY <1>1, <1>5, <1>6, <1>7, <1>8 DEF SchedInv, ParallelBound, RunningBound
<1> QED BY <1>2, <1>4, <1>9 DEF SchedInv

LEMMA JobDoneInv ==
  ASSUME NEW j \in Jobs, NEW failed \in BOOLEAN, SchedInv, JobDone(j, failed)
  PROVE  SchedInv'
<1> DEFINE r == [index |-> j, failed |-> failed]
<1>1. /\ r \in Result /\ r.index = j
      /\ resultsCh \in Seq(Result) /\ resultsCh' = Append(resultsCh, r)
      /\ running \in Nat /\ active \in SUBSET Jobs /\ cfg \in Settings
      /\ j \in active /\ active' = active \ {j}
  BY DEF SchedInv, SchedTypeOK, JobDone, Result
<1> HIDE DEF r
<1>2. /\ resultsCh' \in Seq(Result)
      /\ Len(resultsCh') = Len(resultsCh) + 1
      /\ Indexes(resultsCh') = Indexes(resultsCh) \cup {j}
      /\ Distinct(resultsCh) /\ j \notin Indexes(resultsCh)
           => Distinct(resultsCh')
  BY <1>1, AppendIndexes
<1>3. SchedTypeOK'
  BY <1>1, <1>2 DEF SchedInv, SchedTypeOK, JobDone
<1>4. JobsAccounted'
  <2>1. j \notin Indexes(resultsCh) /\ j \notin Indexes(results)
    BY <1>1 DEF SchedInv, JobsAccounted
  <2>2. results' = results /\ next' = next
    BY DEF JobDone
  <2>3. /\ Indexes(results') = Indexes(results)
        /\ Distinct(results') = Distinct(results)
    BY <2>2
  <2> QED BY <1>1, <1>2, <2>1, <2>2, <2>3 DEF SchedInv, JobsAccounted
<1>5. /\ MaxParallelRuns \in Nat /\ MaxParallelRuns' = MaxParallelRuns
  BY <1>1, MaxPositive DEF JobDone, MaxParallelRuns
<1>6. /\ Cardinality(active') = Cardinality(active) - 1
      /\ Cardinality(active) \in Nat
  BY <1>1, ActiveFinite, FS_RemoveElement
<1>7. Len(resultsCh) \in Nat /\ running' = running
  BY LenProperties DEF SchedInv, SchedTypeOK, JobDone
<1>8. ParallelBound' /\ RunningBound'
  BY <1>1, <1>2, <1>5, <1>6, <1>7 DEF SchedInv, ParallelBound, RunningBound
<1> QED BY <1>3, <1>4, <1>8 DEF SchedInv

LEMMA ReceiveInv == SchedInv /\ Receive => SchedInv'
<1> SUFFICES ASSUME SchedInv, Receive PROVE SchedInv'
  OBVIOUS
<1> DEFINE r == Head(resultsCh)
<1>1. /\ resultsCh \in Seq(Result) /\ resultsCh # <<>>
      /\ results \in Seq(Result)
      /\ results' = Append(results, r) /\ resultsCh' = Tail(resultsCh)
      /\ running \in Nat /\ running # 0 /\ running' = running - 1
      /\ active' = active /\ next' = next /\ cfg' = cfg
      /\ phase' = phase /\ cfg \in Settings /\ active \in SUBSET Jobs
  BY DEF SchedInv, SchedTypeOK, Receive
<1> HIDE DEF r
<1>2. /\ r \in Result
      /\ resultsCh' \in Seq(Result)
      /\ Len(resultsCh) = Len(resultsCh') + 1
      /\ Indexes(resultsCh) = Indexes(resultsCh') \cup {r.index}
      /\ Distinct(resultsCh) => /\ Distinct(resultsCh')
                                /\ r.index \notin Indexes(resultsCh')
  BY <1>1, TailIndexes DEF r
<1>3. /\ results' \in Seq(Result)
      /\ Indexes(results') = Indexes(results) \cup {r.index}
      /\ Distinct(results) /\ r.index \notin Indexes(results)
           => Distinct(results')
  BY <1>1, <1>2, AppendIndexes
<1>4. stopLaunching' \in BOOLEAN /\ cancelled' \in BOOLEAN
  BY Zenon DEF Receive
<1>5. SchedTypeOK'
  BY <1>1, <1>2, <1>3, <1>4 DEF SchedInv, SchedTypeOK
<1>6. JobsAccounted'
  BY <1>1, <1>2, <1>3 DEF SchedInv, JobsAccounted
<1>7. /\ MaxParallelRuns \in Nat /\ MaxParallelRuns' = MaxParallelRuns
  BY <1>1, MaxPositive DEF MaxParallelRuns
<1>8. Cardinality(active) \in Nat /\ Len(resultsCh') \in Nat
  BY <1>1, <1>2, ActiveFinite, LenProperties
<1>9. ParallelBound' /\ RunningBound'
  BY <1>1, <1>2, <1>7, <1>8 DEF SchedInv, ParallelBound, RunningBound
<1> QED BY <1>5, <1>6, <1>9 DEF SchedInv

\* Steps that leave the jobs alone.
LEMMA OtherInv ==
  ASSUME SchedInv, Return \/ Expire \/ UNCHANGED schedVars
  PROVE  SchedInv'
<1>1. /\ UNCHANGED <<cfg, next, running, active, resultsCh, results>>
      /\ phase' \in {"loop", "returned"}
  BY DEF SchedInv, SchedTypeOK, Return, Expire, schedVars
<1>2. stopLaunching' \in BOOLEAN /\ cancelled' \in BOOLEAN
  BY DEF SchedInv, SchedTypeOK, Return, Expire, schedVars
<1>3. SchedTypeOK'
  BY <1>1, <1>2 DEF SchedInv, SchedTypeOK
<1>4. JobsAccounted'
  BY <1>1 DEF SchedInv, JobsAccounted
<1>5. ParallelBound' /\ RunningBound'
  BY <1>1, Zenon DEF SchedInv, ParallelBound, RunningBound, MaxParallelRuns
<1> QED BY <1>3, <1>4, <1>5 DEF SchedInv

LEMMA NextInv == SchedInv /\ [SchedNext]_schedVars => SchedInv'
<1> SUFFICES ASSUME SchedInv, [SchedNext]_schedVars PROVE SchedInv'
  OBVIOUS
<1>1. CASE StartJob
  BY <1>1, StartJobInv
<1>2. CASE Receive
  BY <1>2, ReceiveInv
<1>3. CASE \E j \in Jobs, failed \in BOOLEAN : JobDone(j, failed)
  BY <1>3, JobDoneInv
<1>4. CASE Return \/ Expire \/ UNCHANGED schedVars
  BY <1>4, OtherInv
<1> QED BY <1>1, <1>2, <1>3, <1>4 DEF SchedNext

LEMMA SchedInvariant == SchedSpec => []SchedInv
BY InitInv, NextInv, PTL DEF SchedSpec

-----------------------------------------------------------------------------
(* The sorted report *)

\* A strictly increasing numbering of 1..n by 1..n is the identity: the first i
\* numbers fit into 1..q[i], and the others into q[i]..n.
LEMMA IncreasingIsIdentity ==
  ASSUME NEW n \in Nat, NEW q \in [1..n -> 1..n],
         \A i, k \in 1..n : i < k => q[i] < q[k]
  PROVE  \A i \in 1..n : q[i] = i
<1> TAKE i \in 1..n
<1>1. i \in Int /\ q[i] \in Int /\ 1 <= i /\ i <= n /\ 1 <= q[i] /\ q[i] <= n
  OBVIOUS
<1>2. i <= q[i]
  <2> DEFINE f == [x \in 1..i |-> q[x]]
  <2>1. f \in Injection(1..i, 1..q[i])
    <3>1. \A x \in 1..i : x \in 1..n /\ (x = i \/ x < i)
      BY <1>1
    <3>2. \A x \in 1..i : q[x] \in 1..q[i]
      <4> TAKE x \in 1..i
      <4>1. q[x] \in 1..n /\ (x = i \/ q[x] < q[i])
        BY <3>1
      <4> QED BY <1>1, <4>1
    <3>3. \A a, b \in 1..i : q[a] = q[b] => a = b
      <4> TAKE a, b \in 1..i
      <4>1. a \in 1..n /\ b \in 1..n /\ a \in Int /\ b \in Int
            /\ q[a] \in Int /\ q[b] \in Int
        BY <1>1
      <4>2. (a < b => q[a] < q[b]) /\ (b < a => q[b] < q[a])
        BY <4>1
      <4> QED BY <4>1, <4>2
    <3> QED BY <3>2, <3>3 DEF Injection, IsInjective
  <2>2. Cardinality(1..i) <= Cardinality(1..q[i])
    BY <1>1, <2>1, FS_Injection, FS_Interval
  <2> QED BY <1>1, <2>2, FS_Interval
<1>3. q[i] <= i
  <2> DEFINE f == [x \in i..n |-> q[x]]
  <2>1. f \in Injection(i..n, q[i]..n)
    <3>1. \A x \in i..n : x \in 1..n /\ (x = i \/ i < x)
      BY <1>1
    <3>2. \A x \in i..n : q[x] \in q[i]..n
      <4> TAKE x \in i..n
      <4>1. q[x] \in 1..n /\ (x = i \/ q[i] < q[x])
        BY <3>1
      <4> QED BY <1>1, <4>1
    <3>3. \A a, b \in i..n : q[a] = q[b] => a = b
      <4> TAKE a, b \in i..n
      <4>1. a \in 1..n /\ b \in 1..n /\ a \in Int /\ b \in Int
            /\ q[a] \in Int /\ q[b] \in Int
        BY <1>1
      <4>2. (a < b => q[a] < q[b]) /\ (b < a => q[b] < q[a])
        BY <4>1
      <4> QED BY <4>1, <4>2
    <3> QED BY <3>2, <3>3 DEF Injection, IsInjective
  <2>2. Cardinality(i..n) <= Cardinality(q[i]..n)
    BY <1>1, <2>1, FS_Injection, FS_Interval
  <2>3. Cardinality(i..n) = n - i + 1 /\ Cardinality(q[i]..n) = n - q[i] + 1
    BY <1>1, FS_Interval
  <2> QED BY <1>1, <2>2, <2>3
<1> QED BY <1>1, <1>2, <1>3

LEMMA CountUpTo ==
  ASSUME NEW n \in Nat
  PROVE  IsFiniteSet(1..n) /\ Cardinality(1..n) = n
<1>1. IsFiniteSet(1..n) /\ Cardinality(1..n) = IF 1 > n THEN 0 ELSE n - 1 + 1
  BY FS_Interval
<1> QED BY <1>1

\* Results that are of the jobs 1..n, one of each, are n results.
LEMMA OneResultEach ==
  ASSUME NEW rs \in Seq(Result), NEW n \in Nat,
         Distinct(rs), Indexes(rs) = 1..n
  PROVE  Len(rs) = n
<1> DEFINE f == [i \in 1..Len(rs) |-> rs[i].index]
<1>1. Len(rs) \in Nat /\ DOMAIN rs = 1..Len(rs)
  BY LenProperties
<1>2. f \in [1..Len(rs) -> 1..n]
  BY <1>1 DEF Indexes
<1>3. f \in Injection(1..Len(rs), 1..n)
  BY <1>1, <1>2 DEF Injection, IsInjective, Distinct
<1>4. \A k \in 1..n : \E i \in 1..Len(rs) : f[i] = k
  BY <1>1 DEF Indexes
<1>5. f \in Surjection(1..Len(rs), 1..n)
  BY <1>2, <1>4 DEF Surjection
<1>6. IsFiniteSet(1..n) /\ Cardinality(1..n) = n /\ Cardinality(1..Len(rs)) = Len(rs)
  BY <1>1, CountUpTo
<1> HIDE DEF f
<1>7. Cardinality(1..Len(rs)) = Cardinality(1..n)
  BY <1>3, <1>5, <1>6, FS_Injection
<1> QED BY <1>6, <1>7

\* sort.Slice puts the result of job i at place i, and loses none.
LEMMA OrderedReport ==
  ASSUME NEW rs \in Seq(Result), NEW n \in Nat,
         Distinct(rs), Indexes(rs) = 1..n
  PROVE  /\ DOMAIN Ordered(rs) = 1..n
         /\ \A i \in 1..n : Ordered(rs)[i].index = i
         /\ Len(Ordered(rs)) = n
         /\ \A i \in DOMAIN rs : \E k \in 1..n : Ordered(rs)[k] = rs[i]
<1> DEFINE Places == {p \in [DOMAIN rs -> DOMAIN rs] :
             /\ \A i \in DOMAIN rs : \E k \in DOMAIN rs : p[k] = i
             /\ \A i, k \in DOMAIN rs : i < k => rs[p[i]].index <= rs[p[k]].index}
           place == CHOOSE p \in [DOMAIN rs -> DOMAIN rs] :
             /\ \A i \in DOMAIN rs : \E k \in DOMAIN rs : p[k] = i
             /\ \A i, k \in DOMAIN rs : i < k => rs[p[i]].index <= rs[p[k]].index
<1>1. DOMAIN rs = 1..n /\ Len(rs) = n
  BY OneResultEach, LenProperties
<1>2. \A k \in 1..n : \E i \in 1..n : rs[i].index = k
  BY <1>1 DEF Indexes
<1>3. \A i \in 1..n : rs[i].index \in 1..n
  BY <1>1 DEF Indexes
<1>4. \A i, k \in 1..n : rs[i].index = rs[k].index => i = k
  BY <1>1 DEF Distinct
<1>5. \E p \in [DOMAIN rs -> DOMAIN rs] :
        /\ \A i \in DOMAIN rs : \E k \in DOMAIN rs : p[k] = i
        /\ \A i, k \in DOMAIN rs : i < k => rs[p[i]].index <= rs[p[k]].index
  <2> DEFINE w == [k \in 1..n |-> CHOOSE i \in 1..n : rs[i].index = k]
  <2>1. \A k \in 1..n : w[k] \in 1..n /\ rs[w[k]].index = k
    BY <1>2
  <2>2. w \in [1..n -> 1..n]
    BY <2>1
  <2> HIDE DEF w
  <2>3. \A i \in 1..n : \E k \in 1..n : w[k] = i
    <3> TAKE i \in 1..n
    <3>1. rs[i].index \in 1..n
      BY <1>3
    <3>2. /\ w[rs[i].index] \in 1..n
          /\ rs[w[rs[i].index]].index = rs[i].index
      BY <2>1, <3>1
    <3>3. w[rs[i].index] = i
      BY <1>4, <3>2
    <3> QED BY <3>1, <3>3
  <2>4. \A i, k \in 1..n : i < k => rs[w[i]].index <= rs[w[k]].index
    BY <2>1
  <2> QED BY <1>1, <2>2, <2>3, <2>4
<1>6. /\ place \in [DOMAIN rs -> DOMAIN rs]
      /\ \A i \in DOMAIN rs : \E k \in DOMAIN rs : place[k] = i
      /\ \A i, k \in DOMAIN rs : i < k => rs[place[i]].index <= rs[place[k]].index
  BY <1>5
<1>7. Ordered(rs) = [i \in 1..n |-> rs[place[i]]]
  BY <1>1 DEF Ordered
<1> HIDE DEF place
<1>8. \A i, k \in 1..n : place[i] = place[k] => i = k
  <2>1. place \in Surjection(1..n, 1..n)
    BY <1>1, <1>6 DEF Surjection
  <2>2. place \in Injection(1..n, 1..n)
    BY <2>1, FS_Interval, FS_SurjSameCardinalityImpliesInj
  <2> QED BY <2>2 DEF Injection, IsInjective
<1> DEFINE q == [i \in 1..n |-> rs[place[i]].index]
<1>9. q \in [1..n -> 1..n]
  BY <1>1, <1>3, <1>6
<1>10. \A i, k \in 1..n : i < k => q[i] < q[k]
  <2> TAKE i, k \in 1..n
  <2> HAVE i < k
  <2>1. place[i] \in 1..n /\ place[k] \in 1..n
    BY <1>1, <1>6
  <2>5. place[i] # place[k]
    BY <1>8
  <2>2. rs[place[i]].index # rs[place[k]].index
    BY <1>4, <2>1, <2>5
  <2>3. rs[place[i]].index <= rs[place[k]].index
    BY <1>1, <1>6
  <2>4. rs[place[i]].index \in Int /\ rs[place[k]].index \in Int
    BY <1>3, <2>1
  <2> QED BY <2>2, <2>3, <2>4
<1>11. \A i \in 1..n : q[i] = i
  <2> HIDE DEF q
  <2> QED BY <1>9, <1>10, IncreasingIsIdentity
<1>12. Ordered(rs) \in Seq(Result)
  <2>1. \A i \in 1..n : rs[place[i]] \in Result
    BY <1>1, <1>6, ElementOfSeq
  <2>2. Ordered(rs) \in [1..n -> Result]
    BY <1>7, <2>1
  <2> QED BY <2>2, SeqDef
<1>13. DOMAIN Ordered(rs) = 1..n
  BY <1>7
<1>14. Len(Ordered(rs)) = n
  <2>1. /\ Len(Ordered(rs)) \in Nat
        /\ 1..Len(Ordered(rs)) = 1..n
    BY <1>12, <1>13, LenProperties
  <2>2. Cardinality(1..n) = n /\ Cardinality(1..Len(Ordered(rs))) = Len(Ordered(rs))
    BY <2>1, CountUpTo
  <2> QED BY <2>1, <2>2
<1> QED BY <1>1, <1>6, <1>7, <1>11, <1>13, <1>14

\* The loop stops launching only for a failure it has received.
StopReason ==
  stopLaunching => cfg.failFast /\ \E i \in DOMAIN results : results[i].failed

ReportInv == SchedInv /\ StopReason /\ ReportComplete

\* Execute's report when the loop ends: no goroutine is left, so the results
\* received are of the jobs 1..next-1.
LEMMA ReturnComplete ==
  ASSUME SchedInv, StopReason, Return
  PROVE  ReportComplete'
<1> DEFINE n == next - 1
<1>1. /\ results \in Seq(Result) /\ resultsCh \in Seq(Result)
      /\ active \in SUBSET Jobs /\ cfg \in Settings
      /\ next \in 1..(NJobs + 1) /\ n \in Nat /\ n <= NJobs
      /\ running = 0 /\ ~CanLaunch /\ cfg' = cfg
      /\ report' = Ordered(results \o resultsCh)
  BY SchedulerAssumption DEF SchedInv, SchedTypeOK, Return
<1>2. Cardinality(active) = 0 /\ Len(resultsCh) = 0
  <2>1. Cardinality(active) \in Nat /\ Len(resultsCh) \in Nat
    BY <1>1, ActiveFinite, LenProperties
  <2>2. 0 = Cardinality(active) + Len(resultsCh)
    BY <1>1 DEF SchedInv, ParallelBound
  <2> QED BY <2>1, <2>2
<1>3. active = {} /\ resultsCh = <<>>
  BY <1>1, <1>2, ActiveFinite, FS_EmptySet, EmptySeq
<1>4. results \o resultsCh = results
  BY <1>1, <1>3, ConcatEmptySeq
<1>5. Indexes(results) = 1..n /\ Distinct(results)
  <2>1. Indexes(resultsCh) = {}
    BY <1>3 DEF Indexes
  <2> QED BY <1>3, <2>1 DEF SchedInv, JobsAccounted
<1>6. /\ DOMAIN report' = 1..n
      /\ \A i \in 1..n : report'[i].index = i
      /\ Len(report') = n
      /\ \A i \in DOMAIN results : \E k \in 1..n : report'[k] = results[i]
  <2>1. report' = Ordered(results) /\ n \in Nat /\ results \in Seq(Result)
    BY <1>1, <1>4
  <2> HIDE DEF n
  <2>2. /\ DOMAIN Ordered(results) = 1..n
        /\ \A i \in 1..n : Ordered(results)[i].index = i
        /\ Len(Ordered(results)) = n
        /\ \A i \in DOMAIN results : \E k \in 1..n : Ordered(results)[k] = results[i]
    BY <1>5, <2>1, OrderedReport
  <2> QED BY <2>1, <2>2
<1>7. stopLaunching \/ n = NJobs
  <2>1. MaxParallelRuns \in Nat \ {0}
    BY <1>1, MaxPositive
  <2> QED BY <1>1, <2>1, SchedulerAssumption DEF CanLaunch
<1>8. CASE n = NJobs
  BY <1>6, <1>8 DEF ReportComplete
<1>9. CASE stopLaunching
  <2>1. cfg.failFast /\ \E i \in DOMAIN results : results[i].failed
    BY <1>9 DEF StopReason
  <2>2. \E k \in DOMAIN report' : report'[k].failed
    BY <1>6, <2>1
  <2> QED BY <1>1, <1>6, <2>1, <2>2 DEF ReportComplete
<1> QED BY <1>7, <1>8, <1>9

LEMMA ReceiveReason == SchedInv /\ StopReason /\ Receive => StopReason'
<1> SUFFICES ASSUME SchedInv, StopReason, Receive, stopLaunching'
             PROVE  cfg'.failFast /\ \E i \in DOMAIN results' : results'[i].failed
  BY DEF StopReason
<1> DEFINE r == Head(resultsCh)
<1>1. /\ results \in Seq(Result) /\ r \in Result
      /\ results' = Append(results, r) /\ cfg' = cfg
  BY TailIndexes DEF SchedInv, SchedTypeOK, Receive
<1>2. stopLaunching \/ (cfg.failFast /\ r.failed)
  BY Zenon DEF Receive
<1> HIDE DEF r
<1>3. /\ DOMAIN results' = 1..(Len(results) + 1) /\ Len(results) \in Nat
      /\ DOMAIN results = 1..Len(results)
      /\ \A i \in DOMAIN results : results'[i] = results[i]
      /\ results'[Len(results) + 1] = r
  BY <1>1
<1>4. CASE stopLaunching
  <2>1. cfg.failFast /\ \E i \in DOMAIN results : results[i].failed
    BY <1>4 DEF StopReason
  <2>2. DOMAIN results \subseteq DOMAIN results'
    BY <1>3
  <2> QED BY <1>1, <1>3, <2>1, <2>2
<1>5. CASE cfg.failFast /\ r.failed
  <2>1. Len(results) + 1 \in DOMAIN results'
    BY <1>3
  <2> QED BY <1>1, <1>3, <1>5, <2>1
<1> QED BY <1>2, <1>4, <1>5

LEMMA ReportNext == ReportInv /\ [SchedNext]_schedVars => ReportInv'
<1> SUFFICES ASSUME SchedInv, StopReason, ReportComplete, [SchedNext]_schedVars
             PROVE  ReportInv'
  BY DEF ReportInv
<1>1. SchedInv'
  BY NextInv
<1>2. StopReason'
  <2>1. CASE Receive
    BY <2>1, ReceiveReason
  <2>2. CASE UNCHANGED <<cfg, stopLaunching, results>>
    BY <2>2 DEF StopReason
  <2> QED BY <2>1, <2>2
          DEF SchedNext, schedVars, StartJob, JobDone, Return, Expire
<1>3. ReportComplete'
  <2>1. CASE Return
    BY <2>1, ReturnComplete
  <2>2. CASE UNCHANGED <<cfg, report, phase>>
    BY <2>2 DEF ReportComplete
  <2> QED BY <2>1, <2>2
          DEF SchedNext, schedVars, StartJob, JobDone, Receive, Expire
<1> QED BY <1>1, <1>2, <1>3 DEF ReportInv

-----------------------------------------------------------------------------
(* Theorems *)

\* Every reachable state of scheduleJobs is well typed.
THEOREM PoolTypeCorrect == SchedSpec => []SchedTypeOK
<1>1. SchedInv => SchedTypeOK
  BY DEF SchedInv
<1> QED BY <1>1, SchedInvariant, PTL

\* Whatever order the goroutines of scheduleJobs end in, every launched job is
\* executing or has exactly one result: none is lost, none counted twice.
THEOREM NoJobLost == SchedSpec => []JobsAccounted
<1>1. SchedInv => JobsAccounted
  BY DEF SchedInv
<1> QED BY <1>1, SchedInvariant, PTL

\* Never more than MaxParallelRuns jobs execute at a time, and `running`
\* counts the goroutines together with the results the loop has yet to receive.
THEOREM ParallelRunsBounded == SchedSpec => []ParallelBound
<1>1. SchedInv => ParallelBound
  BY DEF SchedInv
<1> QED BY <1>1, SchedInvariant, PTL

\* The report Execute returns has the result of job i at place i, for every
\* number of jobs and every order in which they ended; a job is missing from it
\* only because FailFast met a failure, which the report then shows.
THEOREM ReportIsComplete == SchedSpec => []ReportComplete
<1>1. SchedInit => ReportInv
  BY InitInv DEF SchedInit, ReportInv, StopReason, ReportComplete
<1>2. ReportInv => ReportComplete
  BY DEF ReportInv
<1> QED BY <1>1, <1>2, ReportNext, PTL DEF SchedSpec

-----------------------------------------------------------------------------
(* The invariant of the job *)

\* A module is being executed; its test may exist.
Working ==
  {"ready", "ready_start", "register_alias", "poll", "poll_start", "recheck",
   "visit", "cancel", "wait_terminal"}
InModule == Working \cup {"create_test"}

Runner ==
  [pc : Pcs, module : Nat, attempts : Nat, triggerErr : BOOLEAN,
   started : BOOLEAN, hop : 0..MaxRedirects,
   aliases : SUBSET {"job", "suite"}, failed : BOOLEAN]

TestInfo ==
  [status : {"ABSENT", "CREATED", "CONFIGURED", "RUNNING", "WAITING"}
              \cup TerminalStatuses,
   result : {"", "FAILED"} \cup Outcomes]

Watch == [visited : BOOLEAN, period : 0..MaxPeriods,
          visits : 0..(WaitingMaxRetries + 1)]

JobTypeOK ==
  /\ plan \in Plans
  /\ runner \in Runner
  /\ runner.module <= Len(plan.modules)
  /\ timers \subseteq {"plan", "test", "cleanup"}
  /\ tests \in [Modules -> TestInfo]
  /\ watch \in Watch
  /\ registered \subseteq {"job", "suite"}
  /\ lost \subseteq {"job", "suite"}
  /\ loose \subseteq Modules
  /\ early \subseteq Modules

\* The modules are executed one after the other.
Progress ==
  /\ runner.pc \in {"idle", "register", "create_plan", "done"} => runner.module = 0
  /\ runner.pc \in InModule => runner.module \in Modules
  /\ runner.pc = "done" => runner.failed
  /\ runner.pc \in {"cleanup", "ended"} /\ ~runner.failed =>
       /\ Modules # {}
       /\ runner.module = Len(plan.modules)

\* No test exists before its module is reached.
TestsAhead ==
  \A m \in Modules :
    m > runner.module \/ (m = runner.module /\ runner.pc = "create_test") =>
      tests[m] = [status |-> "ABSENT", result |-> ""]

\* A test that was left behind has ended, or is known to be loose or to have
\* been read early, and it passed unless the job has failed.
Accounted(m) ==
  /\ tests[m].status \in {"ABSENT"} \cup TerminalStatuses \/ m \in loose \cup early
  /\ ~runner.failed =>
       m \in early
         \/ (isTerminalStatus(tests[m]) /\ tests[m].result \in Passing)

TestsBehind ==
  \A m \in Modules :
    m < runner.module \/ (m = runner.module /\ runner.pc \notin InModule)
      => Accounted(m)

\* The visits of one waiting period are counted by the attempts of the poll.
VisitsCounted ==
  /\ runner.pc = "recheck" => runner.attempts <= WaitingMaxRetries
  /\ runner.pc = "poll_start" =>
       tests[runner.module].status \in {"CONFIGURED"} \cup TerminalStatuses
  /\ runner.pc \in Working /\ tests[runner.module].status = "WAITING" =>
       watch.visits <= runner.attempts

\* What the RP holds is to be deleted, or was lost.
AliasesKnown ==
  /\ registered \subseteq runner.aliases \cup lost
  /\ runner.pc \in {"idle", "register", "done", "ended"} => runner.aliases = {}

\* A result of the job says what the job ended with.
Says(r) == r.index = Focus => runner.pc = "ended" /\ r.failed = runner.failed

ResultSaid ==
  /\ \A i \in DOMAIN resultsCh : Says(resultsCh[i])
  /\ \A i \in DOMAIN results : Says(results[i])

JobInv ==
  /\ JobTypeOK /\ Progress /\ TestsAhead /\ TestsBehind /\ VisitsCounted
  /\ AliasesKnown /\ ResultSaid

-----------------------------------------------------------------------------
(* The plan and the fields of the runner *)

LEMMA PlanSeq ==
  ASSUME plan \in Plans
  PROVE  /\ Len(plan.modules) \in Nat
         /\ Modules = 1..Len(plan.modules)
         /\ plan.suiteAlias \in {"job", "suite"}
<1>1. /\ plan.modules \in Seq({"full_flow", "negative", "discovery"})
      /\ plan.suiteAlias \in {"job", "suite"}
  BY HarnessAssumption
<1> QED BY <1>1, LenProperties DEF Modules

LEMMA GotoFields ==
  ASSUME runner \in Runner, NEW pc \in Pcs, Goto(pc)
  PROVE  /\ runner' \in Runner
         /\ runner'.pc = pc
         /\ runner'.module = runner.module
         /\ runner'.attempts = runner.attempts
         /\ runner'.aliases = runner.aliases
         /\ runner'.failed = runner.failed
BY DEF Runner, Goto

LEMMA EndModuleFields ==
  ASSUME JobTypeOK, runner.module \in Modules, NEW result, EndModule(result)
  PROVE  /\ runner' \in Runner
         /\ runner'.aliases = runner.aliases
         /\ runner'.failed = (runner.failed \/ moduleFailed(result))
         /\ \/ /\ runner.module = Len(plan.modules)
               /\ runner'.module = runner.module
               /\ runner'.pc = "cleanup"
            \/ /\ runner.module < Len(plan.modules)
               /\ runner'.module = runner.module + 1
               /\ runner'.pc = "create_test"
         /\ timers' \subseteq {"plan", "test", "cleanup"}
<1>1. (runner.failed \/ moduleFailed(result)) \in BOOLEAN
  BY Zenon
<1>2. /\ runner \in Runner /\ runner.module \in 1..Len(plan.modules)
      /\ Len(plan.modules) \in Nat /\ timers \subseteq {"plan", "test", "cleanup"}
  BY PlanSeq DEF JobTypeOK
<1>3. {"cleanup", "create_test"} \subseteq Pcs /\ 0 \in 0..MaxRedirects
  <2>1. MaxRedirects \in Nat
    BY HarnessAssumption
  <2> QED BY <2>1 DEF Pcs
<1> HIDE DEF moduleFailed
<1>4. runner' \in Runner
  <2> DEFINE failed == runner.failed \/ moduleFailed(result)
             last == runner.module = Len(plan.modules)
             pc == IF last THEN "cleanup" ELSE "create_test"
             module == IF last THEN runner.module ELSE runner.module + 1
  <2>1. runner' = [runner EXCEPT !.failed = failed, !.attempts = 0,
                     !.triggerErr = FALSE, !.started = FALSE, !.hop = 0,
                     !.pc = pc, !.module = module]
    BY DEF EndModule
  <2>2. failed \in BOOLEAN /\ pc \in Pcs /\ module \in Nat
    BY <1>1, <1>2, <1>3
  <2> HIDE DEF failed, pc, module
  <2> QED BY <1>2, <1>3, <2>1, <2>2 DEF Runner
<1>5. /\ runner'.aliases = runner.aliases
      /\ runner'.failed = (runner.failed \/ moduleFailed(result))
  BY <1>1, <1>2 DEF Runner, EndModule
<1>6. \/ /\ runner.module = Len(plan.modules)
         /\ runner'.module = runner.module
         /\ runner'.pc = "cleanup"
      \/ /\ runner.module < Len(plan.modules)
         /\ runner'.module = runner.module + 1
         /\ runner'.pc = "create_test"
  BY <1>2 DEF Runner, EndModule
<1>7. timers' \subseteq {"plan", "test", "cleanup"}
  BY <1>2 DEF EndModule
<1> QED BY <1>4, <1>5, <1>6, <1>7

LEMMA AfterVisitFields ==
  ASSUME runner \in Runner, NEW failed \in BOOLEAN, AfterVisit(failed)
  PROVE  /\ runner' \in Runner
         /\ runner'.pc \in {"cancel", "poll"}
         /\ runner'.module = runner.module
         /\ runner'.attempts = runner.attempts
         /\ runner'.aliases = runner.aliases
         /\ runner'.failed = runner.failed
<1>1. (runner.triggerErr \/ failed) \in BOOLEAN
  BY Zenon
<1>2. {"cancel", "poll"} \subseteq Pcs
  BY DEF Pcs
<1> DEFINE err == runner.triggerErr \/ failed
           pc == IF err /\ runner.attempts >= WaitingMaxRetries + 1
                 THEN "cancel" ELSE "poll"
<1>3. runner' = [runner EXCEPT !.triggerErr = err, !.pc = pc]
  BY DEF AfterVisit
<1>4. err \in BOOLEAN /\ pc \in {"cancel", "poll"}
  BY <1>1
<1> HIDE DEF err, pc
<1> QED BY <1>2, <1>3, <1>4 DEF Runner

LEMMA AbsentStatus ==
  ASSUME NEW t, t = [status |-> "ABSENT", result |-> ""]
  PROVE  t.status = "ABSENT"
OBVIOUS

\* One field of one test changes.
LEMMA StatusSet ==
  ASSUME tests \in [Modules -> TestInfo], NEW m \in Modules, NEW t,
         NEW s \in {"CREATED", "CONFIGURED", "RUNNING", "WAITING"} \cup TerminalStatuses,
         t = [tests EXCEPT ![m].status = s]
  PROVE  /\ t \in [Modules -> TestInfo]
         /\ t[m].status = s /\ t[m].result = tests[m].result
         /\ \A n \in Modules \ {m} : t[n] = tests[n]
BY DEF TestInfo

LEMMA ResultSet ==
  ASSUME tests \in [Modules -> TestInfo], NEW m \in Modules, NEW t,
         NEW r, r \in {"FAILED"} \cup Outcomes,
         t = [tests EXCEPT ![m].result = r]
  PROVE  /\ t \in [Modules -> TestInfo]
         /\ t[m].status = tests[m].status /\ t[m].result = r
         /\ \A n \in Modules \ {m} : t[n] = tests[n]
BY DEF TestInfo

-----------------------------------------------------------------------------
(* The three kinds of step inside a plan *)

\* A step inside a module touches its own test only.
LEMMA WorkStep ==
  ASSUME JobInv, runner.pc \in Working,
         runner' \in Runner, runner'.pc \in Working,
         runner'.module = runner.module, runner'.failed = runner.failed,
         UNCHANGED <<plan, resultsCh, results, loose, early, lost>>,
         timers' = timers,
         registered' \subseteq {"job", "suite"},
         registered' \subseteq runner'.aliases \cup lost,
         tests' \in [Modules -> TestInfo],
         \A n \in Modules \ {runner.module} : tests'[n] = tests[n],
         watch' \in Watch, VisitsCounted'
  PROVE  JobInv'
<1>1. Modules' = Modules /\ JobTypeOK /\ runner.module \in Modules
  BY DEF Modules, JobInv, Progress, InModule
<1>2. JobTypeOK'
  BY <1>1 DEF JobTypeOK, Modules
<1>3. Progress'
  BY <1>1 DEF Progress, Working, InModule
<1>4. TestsAhead'
  <2> SUFFICES ASSUME NEW m \in Modules, m > runner.module
               PROVE  tests'[m] = [status |-> "ABSENT", result |-> ""]
    BY <1>1 DEF TestsAhead, Working
  <2>1. m # runner.module
    BY <1>1, PlanSeq DEF JobTypeOK
  <2> QED BY <2>1 DEF JobInv, TestsAhead
<1>5. TestsBehind'
  <2> SUFFICES ASSUME NEW m \in Modules, m < runner.module PROVE Accounted(m)'
    BY <1>1 DEF TestsBehind, InModule
  <2>1. Accounted(m)
    BY DEF JobInv, TestsBehind
  <2>2. m # runner.module
    BY <1>1, PlanSeq DEF JobTypeOK
  <2> QED BY <1>1, <2>1, <2>2 DEF Accounted, isTerminalStatus
<1>6. AliasesKnown'
  BY DEF AliasesKnown, Working
<1>7. ResultSaid'
  BY DEF JobInv, ResultSaid, Says, Working
<1> QED BY <1>2, <1>3, <1>4, <1>5, <1>6, <1>7 DEF JobInv

\* The end of a module: its test is accounted for.
LEMMA EndStep ==
  ASSUME JobInv, runner.pc \in InModule, NEW result, EndModule(result),
         UNCHANGED <<plan, resultsCh, results>>,
         registered' \subseteq {"job", "suite"}, lost' \subseteq {"job", "suite"},
         registered' \subseteq runner.aliases \cup lost',
         tests' \in [Modules -> TestInfo],
         \A n \in Modules \ {runner.module} : tests'[n] = tests[n],
         watch' \in Watch,
         loose \subseteq loose', loose' \subseteq Modules,
         early \subseteq early', early' \subseteq Modules,
         \/ tests'[runner.module].status \in {"ABSENT"} \cup TerminalStatuses
         \/ runner.module \in loose' \cup early',
         \/ moduleFailed(result)
         \/ runner.module \in early'
         \/ /\ isTerminalStatus(tests'[runner.module])
            /\ tests'[runner.module].result \in Passing
  PROVE  JobInv'
<1>1. Modules' = Modules /\ JobTypeOK /\ runner.module \in Modules
      /\ Modules = 1..Len(plan.modules) /\ Len(plan.modules) \in Nat
  BY PlanSeq DEF Modules, JobInv, Progress, JobTypeOK
<1>2. /\ runner' \in Runner
      /\ runner'.aliases = runner.aliases
      /\ runner'.failed = (runner.failed \/ moduleFailed(result))
      /\ \/ /\ runner.module = Len(plan.modules)
            /\ runner'.module = runner.module
            /\ runner'.pc = "cleanup"
         \/ /\ runner.module < Len(plan.modules)
            /\ runner'.module = runner.module + 1
            /\ runner'.pc = "create_test"
      /\ timers' \subseteq {"plan", "test", "cleanup"}
  BY <1>1, EndModuleFields
<1> HIDE DEF moduleFailed
<1>3. JobTypeOK'
  BY <1>1, <1>2 DEF JobTypeOK, Modules
<1>4. Progress'
  BY <1>1, <1>2 DEF Progress, InModule, Working
<1>5. TestsAhead'
  <2>1. ASSUME NEW m \in Modules,
               m > runner'.module \/ (m = runner'.module /\ runner'.pc = "create_test")
        PROVE  tests'[m] = [status |-> "ABSENT", result |-> ""]
    <3>1. m \in Int /\ runner.module \in Int
      BY <1>1
    <3>2. m > runner.module /\ m # runner.module
      BY <1>2, <2>1, <3>1
    <3> QED BY <3>2 DEF JobInv, TestsAhead
  <2> QED BY <1>1, <2>1 DEF TestsAhead
<1>6. TestsBehind'
  <2> SUFFICES ASSUME NEW m \in Modules, m <= runner.module PROVE Accounted(m)'
    BY <1>1, <1>2 DEF TestsBehind, InModule, Working
  <2>1. CASE m = runner.module
    BY <1>1, <1>2, <2>1 DEF Accounted, isTerminalStatus
  <2>2. CASE m < runner.module
    <3>1. Accounted(m) /\ m # runner.module
      BY <1>1, <2>2 DEF JobInv, TestsBehind
    <3> QED BY <1>1, <1>2, <3>1 DEF Accounted, isTerminalStatus
  <2> QED BY <1>1, <2>1, <2>2
<1>7. VisitsCounted'
  BY <1>2 DEF VisitsCounted, Working
<1>8. AliasesKnown'
  BY <1>2 DEF AliasesKnown
<1>9. ResultSaid'
  BY DEF JobInv, ResultSaid, Says, InModule, Working
<1> QED BY <1>3, <1>4, <1>5, <1>6, <1>7, <1>8, <1>9 DEF JobInv

\* A step inside a module that leaves the suite and the RP alone.
LEMMA QuietStep ==
  ASSUME JobInv, runner.pc \in Working,
         runner' \in Runner, runner'.pc \in Working \ {"poll_start"},
         runner'.pc = "recheck" => runner'.attempts <= WaitingMaxRetries,
         runner'.module = runner.module, runner'.failed = runner.failed,
         runner'.aliases = runner.aliases,
         runner'.attempts = runner.attempts \/ tests[runner.module].status # "WAITING",
         UNCHANGED <<plan, resultsCh, results, loose, early, lost, timers, registered,
                     tests, watch>>
  PROVE  JobInv'
<1>1. VisitsCounted'
  BY DEF JobInv, VisitsCounted
<1>2. /\ tests' \in [Modules -> TestInfo] /\ watch' \in Watch
      /\ registered' \subseteq {"job", "suite"}
      /\ registered' \subseteq runner'.aliases \cup lost
  BY DEF JobInv, JobTypeOK, AliasesKnown
<1> QED BY <1>1, <1>2, WorkStep

-----------------------------------------------------------------------------
(* execute *)

LEMMA InitJob == Init => JobInv
<1> SUFFICES ASSUME Init PROVE JobInv
  OBVIOUS
<1>1. /\ plan \in Plans /\ Len(plan.modules) \in Nat
      /\ Modules = 1..Len(plan.modules)
  BY PlanSeq DEF Init
<1>2. /\ WaitingMaxRetries \in Nat /\ MaxRedirects \in Nat /\ MaxPeriods \in Nat
  BY HarnessAssumption
<1>3. /\ runner \in Runner /\ runner.module = 0 /\ runner.pc = "idle"
      /\ runner.aliases = {}
  <2>1. runner = [pc |-> "idle", module |-> 0, attempts |-> 0, triggerErr |-> FALSE,
                  started |-> FALSE, hop |-> 0, aliases |-> {}, failed |-> FALSE]
    BY DEF Init
  <2>2. 0 \in 0..MaxRedirects /\ "idle" \in Pcs
    BY <1>2 DEF Pcs
  <2> QED BY <2>1, <2>2 DEF Runner
<1>4. tests \in [Modules -> TestInfo]
      /\ \A m \in Modules : tests[m] = [status |-> "ABSENT", result |-> ""]
  <2>1. [status |-> "ABSENT", result |-> ""] \in TestInfo
    BY DEF TestInfo
  <2> HIDE DEF Modules
  <2> QED BY <2>1 DEF Init
<1>5. JobTypeOK
  <2>1. watch \in Watch
    <3>1. watch = [visited |-> FALSE, period |-> 0, visits |-> 0]
      BY DEF Init, Unwatched
    <3> QED BY <1>2, <3>1 DEF Watch
  <2>2. timers = {} /\ registered = {} /\ lost = {} /\ loose = {} /\ early = {}
    BY DEF Init
  <2>3. runner.module <= Len(plan.modules)
    BY <1>1, <1>3
  <2> QED BY <1>1, <1>3, <1>4, <2>1, <2>2, <2>3 DEF JobTypeOK
<1>6. Progress /\ AliasesKnown
  BY <1>3 DEF Init, Progress, AliasesKnown, InModule, Working
<1>7. TestsAhead /\ TestsBehind /\ VisitsCounted
  <2>1. \A m \in Modules : ~(m < 0) /\ m # 0
    BY <1>1
  <2> QED BY <1>3, <1>4, <2>1 DEF TestsAhead, TestsBehind, VisitsCounted, Working
<1>8. ResultSaid
  <2>1. resultsCh = <<>> /\ results = <<>>
    BY DEF Init, SchedInit
  <2> QED BY <2>1 DEF ResultSaid
<1> QED BY <1>5, <1>6, <1>7, <1>8 DEF JobInv

\* The steps before the first module and after the last leave the tests alone.
LEMMA OutsideStep ==
  ASSUME JobInv,
         runner' \in Runner, runner'.module = runner.module,
         runner'.pc \notin InModule, runner.pc \notin InModule,
         runner.failed => runner'.failed,
         Progress', AliasesKnown', ResultSaid',
         UNCHANGED <<plan, timers, tests, watch, loose, early>>,
         registered' \subseteq {"job", "suite"}, lost' \subseteq {"job", "suite"}
  PROVE  JobInv'
<1>1. Modules' = Modules /\ JobTypeOK
  BY DEF Modules, JobInv
<1>2. JobTypeOK'
  BY <1>1 DEF JobTypeOK
<1>3. TestsAhead'
  BY <1>1 DEF JobInv, TestsAhead, InModule
<1>4. TestsBehind'
  <2> SUFFICES ASSUME NEW m \in Modules,
                      m < runner.module \/ m = runner.module
               PROVE  Accounted(m)'
    BY <1>1 DEF TestsBehind
  <2>1. Accounted(m)
    BY DEF JobInv, TestsBehind
  <2> QED BY <2>1 DEF Accounted, isTerminalStatus
<1>5. VisitsCounted'
  BY DEF VisitsCounted, InModule, Working
<1> QED BY <1>2, <1>3, <1>4, <1>5 DEF JobInv

LEMMA BeginInv == JobInv /\ Begin => JobInv'
<1> SUFFICES ASSUME JobInv, Begin PROVE JobInv'
  OBVIOUS
<1>1. /\ runner' \in Runner /\ runner'.pc = "register"
      /\ runner'.module = runner.module /\ runner'.failed = runner.failed
      /\ runner'.aliases = runner.aliases /\ runner.pc = "idle"
  BY GotoFields DEF JobInv, JobTypeOK, Begin, Pcs
<1>2. /\ UNCHANGED <<schedVars, plan, timers, tests, watch, registered, lost, loose, early>>
      /\ JobTypeOK /\ Progress /\ AliasesKnown /\ ResultSaid
  BY DEF Begin, suite, JobInv
<1>3. Progress' /\ AliasesKnown' /\ ResultSaid'
  BY <1>1, <1>2 DEF Progress, AliasesKnown, ResultSaid, Says, InModule, Working, schedVars
<1> QED BY <1>1, <1>2, <1>3, OutsideStep DEF JobTypeOK, InModule, Working

LEMMA registerRuntimeInv == JobInv /\ registerRuntime => JobInv'
<1> SUFFICES ASSUME JobInv, registerRuntime PROVE JobInv'
  OBVIOUS
<1>1. /\ UNCHANGED <<schedVars, plan, timers, tests, watch, loose, early>>
      /\ JobTypeOK /\ Progress /\ AliasesKnown /\ ResultSaid
      /\ runner \in Runner /\ runner.pc = "register"
      /\ registered \subseteq {"job", "suite"} /\ lost \subseteq {"job", "suite"}
  BY DEF registerRuntime, suite, JobInv, JobTypeOK
<1>2. PICK answer \in {"ok", "error", "lost"} :
       /\ registered' = IF answer = "error" THEN registered ELSE registered \cup {"job"}
       /\ lost' = IF answer = "lost" THEN lost \cup {"job"} ELSE lost
       /\ runner' = IF answer = "ok"
                    THEN [runner EXCEPT !.pc = "create_plan", !.aliases = {"job"}]
                    ELSE [runner EXCEPT !.pc = "done", !.failed = TRUE]
  BY DEF registerRuntime, Answers
<1>3. /\ runner' \in Runner
      /\ runner'.module = runner.module
      /\ answer = "ok" => /\ runner'.pc = "create_plan"
                          /\ runner'.aliases = {"job"}
                          /\ runner'.failed = runner.failed
      /\ answer # "ok" => /\ runner'.pc = "done"
                          /\ runner'.aliases = runner.aliases
                          /\ runner'.failed = TRUE
  BY <1>1, <1>2 DEF Runner, Pcs
<1>4. /\ registered' \subseteq {"job", "suite"} /\ lost' \subseteq {"job", "suite"}
      /\ registered' \subseteq runner'.aliases \cup lost'
  BY <1>1, <1>2, <1>3 DEF AliasesKnown
<1>5. Progress' /\ AliasesKnown'
  BY <1>1, <1>3, <1>4 DEF Progress, AliasesKnown, InModule, Working
<1>6. ResultSaid'
  BY <1>1 DEF ResultSaid, Says, schedVars
<1> QED BY <1>1, <1>3, <1>4, <1>5, <1>6, OutsideStep DEF InModule, Working

LEMMA createPlanInv == JobInv /\ createPlan => JobInv'
<1> SUFFICES ASSUME JobInv, createPlan PROVE JobInv'
  OBVIOUS
<1>1. /\ UNCHANGED <<schedVars, plan, timers, tests, watch, registered, lost, loose, early>>
      /\ JobTypeOK /\ Progress /\ AliasesKnown /\ ResultSaid /\ TestsAhead
      /\ runner \in Runner /\ runner.pc = "create_plan" /\ runner.module = 0
      /\ registered \subseteq {"job", "suite"} /\ lost \subseteq {"job", "suite"}
      /\ Modules' = Modules
  BY DEF createPlan, suite, JobInv, JobTypeOK, Progress, Modules
<1>2. Modules = 1..Len(plan.modules) /\ Len(plan.modules) \in Nat
  BY <1>1, PlanSeq DEF JobTypeOK
<1>3. CASE /\ Modules # {}
           /\ runner' = [runner EXCEPT !.pc = "create_test", !.module = 1]
  <2>1. /\ runner' \in Runner /\ runner'.pc = "create_test" /\ runner'.module = 1
        /\ runner'.aliases = runner.aliases /\ runner'.failed = runner.failed
    BY <1>1, <1>3 DEF Runner, Pcs
  <2>2. 1 \in Modules /\ 1 <= Len(plan.modules)
    BY <1>2, <1>3
  <2>3. JobTypeOK' /\ Progress'
    BY <1>1, <2>1, <2>2 DEF JobTypeOK, Progress, InModule, Working
  <2>4. \A m \in Modules : m > 0 /\ ~(m < 1)
    BY <1>2
  <2>5. \A m \in Modules : tests'[m] = [status |-> "ABSENT", result |-> ""]
    BY <1>1, <2>4 DEF TestsAhead
  <2>6. TestsAhead'
    BY <1>1, <2>5 DEF TestsAhead
  <2>7. TestsBehind'
    BY <1>1, <2>1, <2>4 DEF TestsBehind, InModule
  <2>8. VisitsCounted' /\ AliasesKnown' /\ ResultSaid'
    BY <1>1, <2>1 DEF VisitsCounted, AliasesKnown, ResultSaid, Says, Working, schedVars
  <2> QED BY <2>3, <2>6, <2>7, <2>8 DEF JobInv
<1>4. CASE runner' = [runner EXCEPT !.pc = "cleanup", !.failed = TRUE]
  <2>1. /\ runner' \in Runner /\ runner'.pc = "cleanup"
        /\ runner'.module = runner.module
        /\ runner'.aliases = runner.aliases /\ runner'.failed = TRUE
    BY <1>1, <1>4 DEF Runner, Pcs
  <2>2. Progress' /\ AliasesKnown' /\ ResultSaid'
    BY <1>1, <2>1 DEF Progress, AliasesKnown, ResultSaid, Says, schedVars,
       InModule, Working
  <2> QED BY <1>1, <2>1, <2>2, OutsideStep DEF InModule, Working
<1> QED BY <1>3, <1>4 DEF createPlan

LEMMA deleteRuntimeInv ==
  ASSUME JobInv, NEW a \in runner.aliases, deleteRuntime(a)
  PROVE  JobInv'
<1>1. /\ UNCHANGED <<schedVars, plan, timers, tests, watch, loose, early>>
      /\ JobTypeOK /\ Progress /\ AliasesKnown /\ ResultSaid
      /\ runner \in Runner /\ runner.pc = "cleanup" /\ Modules' = Modules
      /\ registered \subseteq {"job", "suite"} /\ lost \subseteq {"job", "suite"}
      /\ runner' = [runner EXCEPT !.aliases = runner.aliases \ {a}]
      /\ \/ registered' = registered \ {a} /\ lost' = lost
         \/ lost' = lost \cup {a} /\ registered' = registered
  BY DEF deleteRuntime, suite, JobInv, JobTypeOK, Modules
<1>2. /\ runner' \in Runner /\ runner'.pc = "cleanup"
      /\ runner'.module = runner.module /\ runner'.failed = runner.failed
      /\ runner'.aliases = runner.aliases \ {a}
      /\ runner.aliases \subseteq {"job", "suite"}
  BY <1>1 DEF Runner
<1>3. /\ registered' \subseteq {"job", "suite"} /\ lost' \subseteq {"job", "suite"}
      /\ registered' \subseteq runner'.aliases \cup lost'
  BY <1>1, <1>2 DEF AliasesKnown
<1>4. Progress' /\ AliasesKnown' /\ ResultSaid'
  BY <1>1, <1>2, <1>3 DEF Progress, AliasesKnown, ResultSaid, Says, schedVars,
     InModule, Working
<1> QED BY <1>1, <1>2, <1>3, <1>4, OutsideStep DEF InModule, Working

LEMMA EndJobInv == SchedTypeOK /\ JobInv /\ EndJob => JobInv'
<1> SUFFICES ASSUME SchedTypeOK, JobInv, EndJob PROVE JobInv'
  OBVIOUS
<1>1. /\ UNCHANGED <<plan, timers, tests, watch, registered, lost, loose, early, results>>
      /\ JobTypeOK /\ Progress /\ AliasesKnown /\ ResultSaid
      /\ runner \in Runner /\ Modules' = Modules
      /\ registered \subseteq {"job", "suite"} /\ lost \subseteq {"job", "suite"}
      /\ runner.pc = "done" \/ (runner.pc = "cleanup" /\ runner.aliases = {})
      /\ resultsCh \in Seq(Result) /\ Goto("ended")
      /\ resultsCh' = Append(resultsCh, [index |-> Focus, failed |-> runner.failed])
  BY DEF EndJob, JobDone, suite, JobInv, JobTypeOK, Modules, SchedTypeOK
<1>2. /\ runner' \in Runner /\ runner'.pc = "ended"
      /\ runner'.module = runner.module /\ runner'.failed = runner.failed
      /\ runner'.aliases = runner.aliases
  BY <1>1, GotoFields DEF Pcs
<1>3. Progress' /\ AliasesKnown'
  BY <1>1, <1>2 DEF Progress, AliasesKnown, InModule, Working
<1>4. ResultSaid'
  <2>2. ASSUME NEW i \in DOMAIN results' PROVE Says(results[i])'
    BY <1>1, <1>2 DEF ResultSaid, Says
  <2>3. ASSUME NEW i \in DOMAIN resultsCh' PROVE Says(resultsCh[i])'
    <3> DEFINE r == [index |-> Focus, failed |-> runner.failed]
    <3>1. /\ Len(resultsCh) \in Nat /\ DOMAIN resultsCh = 1..Len(resultsCh)
          /\ DOMAIN Append(resultsCh, r) = 1..(Len(resultsCh) + 1)
          /\ \A k \in 1..Len(resultsCh) : Append(resultsCh, r)[k] = resultsCh[k]
          /\ Append(resultsCh, r)[Len(resultsCh) + 1] = r
      BY <1>1, LenProperties, AppendProperties
    <3>2. i \in 1..Len(resultsCh) \/ i = Len(resultsCh) + 1
      BY <1>1, <2>3, <3>1
    <3>3. CASE i \in 1..Len(resultsCh)
      BY <1>1, <1>2, <3>1, <3>3 DEF ResultSaid, Says
    <3>4. CASE i = Len(resultsCh) + 1
      BY <1>1, <1>2, <3>1, <3>4 DEF Says
    <3> QED BY <3>2, <3>3, <3>4
  <2> QED BY <2>2, <2>3 DEF ResultSaid
<1> QED BY <1>1, <1>2, <1>3, <1>4, OutsideStep DEF InModule, Working

-----------------------------------------------------------------------------
(* executeModule *)

\* What every action of a module starts from.
LEMMA ModuleFacts ==
  ASSUME JobInv, runner.pc \in InModule
  PROVE  /\ runner \in Runner /\ runner.module \in Modules
         /\ tests \in [Modules -> TestInfo] /\ watch \in Watch
         /\ tests[runner.module] \in TestInfo
         /\ registered \subseteq {"job", "suite"} /\ lost \subseteq {"job", "suite"}
         /\ registered \subseteq runner.aliases \cup lost
         /\ loose \subseteq Modules /\ early \subseteq Modules
         /\ {runner.attempts, WaitingMaxRetries, MaxRedirects, MaxPeriods} \subseteq Nat
         /\ VisitsCounted
<1>1. JobTypeOK /\ Progress /\ AliasesKnown /\ VisitsCounted
  BY DEF JobInv
<1>2. runner.attempts \in Nat
  BY <1>1 DEF JobTypeOK, Runner
<1> QED BY <1>1, <1>2, HarnessAssumption DEF JobTypeOK, Progress, AliasesKnown

\* A module that fails and leaves its test to itself.
LEMMA FailsLoose ==
  ASSUME JobInv, runner.pc \in InModule, EndModule("FAILED"),
         loose' = loose \cup {runner.module},
         UNCHANGED <<plan, resultsCh, results, tests, watch, early>>,
         registered' \subseteq {"job", "suite"}, lost' \subseteq {"job", "suite"},
         registered' \subseteq runner.aliases \cup lost'
  PROVE  JobInv'
<1>1. moduleFailed("FAILED")
  BY DEF moduleFailed
<1> HIDE DEF moduleFailed, Modules
<1> QED BY <1>1, ModuleFacts, EndStep

LEMMA createTestInv == JobInv /\ createTest => JobInv'
<1> SUFFICES ASSUME JobInv, createTest PROVE JobInv'
  OBVIOUS
<1> DEFINE m == runner.module
           created == [tests EXCEPT ![m].status = "CREATED"]
<1>1. /\ runner.pc = "create_test" /\ runner.pc \in InModule
      /\ UNCHANGED <<plan, resultsCh, results, registered, lost, early>>
      /\ watch' = Unwatched /\ Modules' = Modules
  BY DEF createTest, InModule, schedVars, Modules
<1>2. /\ runner \in Runner /\ m \in Modules /\ tests \in [Modules -> TestInfo]
      /\ loose \subseteq Modules /\ early \subseteq Modules
      /\ registered \subseteq {"job", "suite"}
      /\ lost \subseteq {"job", "suite"} /\ registered \subseteq runner.aliases \cup lost
      /\ {runner.attempts, WaitingMaxRetries, MaxRedirects, MaxPeriods} \subseteq Nat
  BY <1>1, ModuleFacts
<1>3. /\ created \in [Modules -> TestInfo]
      /\ created[m].status = "CREATED" /\ created[m].result = tests[m].result
      /\ \A n \in Modules \ {m} : created[n] = tests[n]
  BY <1>2, StatusSet
<1>4. Unwatched \in Watch /\ Unwatched.visits = 0
  BY <1>2 DEF Unwatched, Watch
<1>5. PICK answer \in {"ok", "error", "lost"} :
       /\ tests' = IF answer = "error" THEN tests ELSE created
       /\ IF answer = "ok" THEN Goto("ready") /\ UNCHANGED timers
          ELSE EndModule("FAILED")
       /\ loose' = IF answer = "lost" THEN loose \cup {m} ELSE loose
  BY DEF createTest, Answers
<1> HIDE DEF created
<1>6. CASE answer = "ok"
  <2>1. /\ runner' \in Runner /\ runner'.pc = "ready" /\ runner'.module = m
        /\ runner'.aliases = runner.aliases /\ runner'.failed = runner.failed
        /\ runner'.attempts = runner.attempts
    BY <1>2, <1>5, <1>6, GotoFields DEF Pcs
  <2>2. tests' = created /\ loose' = loose /\ timers' = timers
    BY <1>5, <1>6
  <2>3. JobTypeOK'
    BY <1>1, <1>2, <1>3, <1>4, <2>1, <2>2 DEF JobInv, JobTypeOK
  <2>4. Progress' /\ AliasesKnown'
    BY <1>1, <1>2, <2>1 DEF Progress, AliasesKnown, InModule, Working
  <2>5. TestsAhead'
    <3>1. ASSUME NEW n \in Modules, n > m PROVE tests'[n] = tests[n]
      BY <1>2, <1>3, <2>2, <3>1, PlanSeq DEF JobInv, JobTypeOK
    <3> QED BY <1>1, <2>1, <3>1 DEF JobInv, TestsAhead
  <2>6. TestsBehind'
    <3> SUFFICES ASSUME NEW n \in Modules, n < m PROVE Accounted(n)'
      BY <1>1, <2>1 DEF TestsBehind, InModule, Working
    <3>1. Accounted(n) /\ n # m
      BY <1>2, PlanSeq DEF JobInv, TestsBehind, JobTypeOK
    <3> QED BY <1>1, <1>3, <2>1, <2>2, <3>1 DEF Accounted, isTerminalStatus
  <2>7. VisitsCounted'
    BY <1>3, <2>1, <2>2 DEF VisitsCounted
  <2>8. ResultSaid'
    BY <1>1 DEF JobInv, ResultSaid, Says
  <2> QED BY <2>3, <2>4, <2>5, <2>6, <2>7, <2>8 DEF JobInv
<1>7. CASE answer # "ok"
  <2>1. moduleFailed("FAILED")
    BY DEF moduleFailed
  <2>2. EndModule("FAILED")
    BY <1>5, <1>7
  <2>3. /\ tests' \in [Modules -> TestInfo]
        /\ \A n \in Modules \ {m} : tests'[n] = tests[n]
        /\ loose \subseteq loose' /\ loose' \subseteq Modules
    BY <1>2, <1>3, <1>5
  <2>4. tests'[m].status \in {"ABSENT"} \cup TerminalStatuses \/ m \in loose' \cup early'
    <3>1. CASE answer = "error"
      <4>1. tests[m] = [status |-> "ABSENT", result |-> ""]
        BY <1>1, <1>2 DEF JobInv, TestsAhead
      <4>2. tests' = tests
        BY <1>5, <3>1
      <4>3. tests[m].status = "ABSENT"
        BY <4>1, AbsentStatus
      <4> QED BY <4>2, <4>3
    <3>2. CASE answer = "lost"
      BY <1>5, <3>2
    <3> QED BY <1>7, <3>1, <3>2
  <2> HIDE DEF moduleFailed, Modules
  <2> QED BY <1>1, <1>2, <1>4, <2>1, <2>2, <2>3, <2>4, EndStep
<1> QED BY <1>6, <1>7

LEMMA waitForTestReadyInv == JobInv /\ waitForTestReady => JobInv'
<1> SUFFICES ASSUME JobInv, waitForTestReady PROVE JobInv'
  OBVIOUS
<1>1. /\ runner.pc \in Working /\ runner.pc \in InModule
      /\ UNCHANGED <<plan, resultsCh, results, loose, early, lost, timers, registered,
                     tests, watch>>
  BY DEF waitForTestReady, Working, InModule, schedVars, suite
<1>2. PICK pc \in {"register_alias", "ready_start"} : Goto(pc)
  BY DEF waitForTestReady
<1>3. pc \in Pcs /\ pc \in Working \ {"poll_start"} /\ pc # "recheck"
  BY DEF Pcs, Working
<1> QED BY <1>1, <1>2, <1>3, ModuleFacts, GotoFields, QuietStep

LEMMA waitForTestReadyFailsInv == JobInv /\ waitForTestReadyFails => JobInv'
<1> SUFFICES ASSUME JobInv, waitForTestReadyFails PROVE JobInv'
  OBVIOUS
<1>1. /\ runner.pc \in InModule /\ EndModule("FAILED")
      /\ loose' = loose \cup {runner.module}
      /\ UNCHANGED <<plan, resultsCh, results, registered, lost, tests, watch, early>>
  BY DEF waitForTestReadyFails, Working, InModule, schedVars, suite
<1> QED BY <1>1, ModuleFacts, FailsLoose

\* StartTest changes a configured test only.
LEMMA StartTestKeeps ==
  ASSUME JobInv, runner.pc \in Working, StartTest
  PROVE  /\ tests' \in [Modules -> TestInfo]
         /\ \A n \in Modules \ {runner.module} : tests'[n] = tests[n]
         /\ \/ tests' = tests /\ tests[runner.module].status # "CONFIGURED"
            \/ tests'[runner.module].status = "RUNNING"
<1>1. /\ tests \in [Modules -> TestInfo] /\ runner.module \in Modules
  BY ModuleFacts DEF InModule
<1> HIDE DEF Modules
<1>2. \/ tests' = tests /\ tests[runner.module].status # "CONFIGURED"
      \/ tests' = [tests EXCEPT ![runner.module].status = "RUNNING"]
  BY DEF StartTest, Test
<1> QED BY <1>1, <1>2, StatusSet

LEMMA readyStartInv == JobInv /\ readyStart => JobInv'
<1> SUFFICES ASSUME JobInv, readyStart PROVE JobInv'
  OBVIOUS
<1>1. /\ runner.pc \in Working /\ runner.pc \in InModule
      /\ UNCHANGED <<plan, resultsCh, results, loose, early, lost, timers, registered, watch>>
      /\ StartTest /\ Goto("ready")
  BY DEF readyStart, Working, InModule, schedVars
<1>2. /\ runner' \in Runner /\ runner'.pc = "ready" /\ runner'.module = runner.module
      /\ runner'.aliases = runner.aliases /\ runner'.failed = runner.failed
      /\ runner'.attempts = runner.attempts
  BY <1>1, ModuleFacts, GotoFields DEF Pcs
<1>3. VisitsCounted'
  BY <1>1, <1>2, StartTestKeeps, ModuleFacts DEF VisitsCounted
<1> QED BY <1>1, <1>2, <1>3, StartTestKeeps, ModuleFacts, WorkStep DEF Working

LEMMA registerRuntimeAliasInv == JobInv /\ registerRuntimeAlias => JobInv'
<1> SUFFICES ASSUME JobInv, registerRuntimeAlias PROVE JobInv'
  OBVIOUS
<1>1. /\ runner.pc = "register_alias"
      /\ runner.pc \in Working /\ runner.pc \in InModule
      /\ UNCHANGED <<plan, resultsCh, results, tests, watch, early>>
  BY DEF registerRuntimeAlias, Working, InModule, schedVars, suite
<1>2. PICK answer \in {"ok", "error", "lost"} :
       /\ registered' = IF answer = "error" THEN registered
                        ELSE registered \cup {RuntimeAlias}
       /\ IF answer = "ok"
          THEN /\ runner' = [runner EXCEPT !.pc = "poll",
                               !.aliases = runner.aliases \cup {RuntimeAlias}]
               /\ UNCHANGED <<timers, lost, loose>>
          ELSE /\ EndModule("FAILED")
               /\ loose' = loose \cup {runner.module}
               /\ lost' = IF answer = "lost" THEN lost \cup {RuntimeAlias} ELSE lost
  BY DEF registerRuntimeAlias, Answers
<1>3. RuntimeAlias \in {"job", "suite"}
  BY PlanSeq DEF RuntimeAlias, JobInv, JobTypeOK
<1>4. /\ runner \in Runner /\ VisitsCounted
      /\ registered \subseteq {"job", "suite"} /\ lost \subseteq {"job", "suite"}
      /\ registered \subseteq runner.aliases \cup lost
      /\ tests \in [Modules -> TestInfo] /\ watch \in Watch
  BY <1>1, ModuleFacts
<1>5. CASE answer = "ok"
  <2>1. /\ runner' \in Runner /\ runner'.pc = "poll" /\ runner'.module = runner.module
        /\ runner'.aliases = runner.aliases \cup {RuntimeAlias}
        /\ runner'.failed = runner.failed /\ runner'.attempts = runner.attempts
    <3> DEFINE as == runner.aliases \cup {RuntimeAlias}
    <3>1. runner' = [runner EXCEPT !.pc = "poll", !.aliases = as]
      BY <1>2, <1>5
    <3>2. as \subseteq {"job", "suite"} /\ "poll" \in Pcs
      BY <1>3, <1>4 DEF Runner, Pcs
    <3> HIDE DEF as
    <3>3. /\ runner' \in Runner /\ runner'.pc = "poll"
          /\ runner'.module = runner.module /\ runner'.aliases = as
          /\ runner'.failed = runner.failed /\ runner'.attempts = runner.attempts
      BY <1>4, <3>1, <3>2 DEF Runner
    <3> QED BY <3>3 DEF as
  <2>2. VisitsCounted'
    BY <1>1, <1>4, <2>1 DEF VisitsCounted
  <2>3. /\ registered' \subseteq {"job", "suite"}
        /\ registered' \subseteq runner'.aliases \cup lost
        /\ UNCHANGED <<timers, lost, loose>>
    BY <1>2, <1>3, <1>4, <1>5, <2>1
  <2> QED BY <1>1, <1>4, <2>1, <2>2, <2>3, WorkStep DEF Working
<1>6. CASE answer # "ok"
  <2>1. /\ EndModule("FAILED") /\ loose' = loose \cup {runner.module}
        /\ registered' \subseteq {"job", "suite"} /\ lost' \subseteq {"job", "suite"}
        /\ registered' \subseteq runner.aliases \cup lost'
    BY <1>2, <1>3, <1>4, <1>6
  <2> QED BY <1>1, <2>1, FailsLoose
<1> QED BY <1>5, <1>6

-----------------------------------------------------------------------------
(* pollTestResultWithConfig *)

\* The poll gives up, or another step that only moves the runner.
LEMMA GotoQuiet ==
  ASSUME JobInv, runner.pc \in Working,
         NEW pc \in Working \ {"poll_start", "recheck"}, Goto(pc),
         UNCHANGED <<plan, resultsCh, results, loose, early, lost, timers, registered,
                     tests, watch>>
  PROVE  JobInv'
<1>1. pc \in Pcs /\ runner.pc \in InModule
  BY DEF Working, Pcs, InModule
<1> QED BY <1>1, ModuleFacts, GotoFields, QuietStep

LEMMA pollCtxDoneInv == JobInv /\ pollCtxDone => JobInv'
<1> SUFFICES ASSUME JobInv, pollCtxDone PROVE JobInv'
  OBVIOUS
<1>1. /\ runner.pc \in Working /\ Goto("cancel")
      /\ UNCHANGED <<plan, resultsCh, results, loose, early, lost, timers, registered,
                     tests, watch>>
  BY DEF pollCtxDone, PollFailed, Goto, Working, schedVars, suite
<1>2. "cancel" \in Working \ {"poll_start", "recheck"}
  BY DEF Working
<1> QED BY <1>1, <1>2, GotoQuiet

\* A test that is done ends its module with the result the suite holds.
LEMMA DoneEnds ==
  ASSUME JobInv, runner.pc \in InModule, isTestDone(Test), TakeResult,
         UNCHANGED <<plan, resultsCh, results, loose, lost, registered, tests, watch>>
  PROVE  JobInv'
<1> DEFINE m == runner.module
<1>1. m \in Modules /\ early \subseteq Modules
  BY ModuleFacts
<1>2. EndModule(Test.result) /\ Test = tests[m]
  BY DEF TakeResult, Test
<1>3. early \subseteq early' /\ early' \subseteq Modules
  BY <1>1 DEF TakeResult
<1>4. isTerminalStatus(tests[m]) \/ m \in early'
  BY <1>2 DEF TakeResult
<1>5. tests'[m].status \in {"ABSENT"} \cup TerminalStatuses \/ m \in loose' \cup early'
  BY <1>4 DEF isTerminalStatus
<1>6. \/ moduleFailed(Test.result)
      \/ m \in early'
      \/ isTerminalStatus(tests'[m]) /\ tests'[m].result \in Passing
  <2>1. moduleFailed(Test.result) \/ Test.result \in Passing
    BY DEF moduleFailed, Passing
  <2>2. tests' = tests
    OBVIOUS
  <2> QED BY <1>2, <1>4, <2>1, <2>2 DEF isTerminalStatus
<1> HIDE DEF moduleFailed, Modules, isTerminalStatus, Passing
<1> QED BY <1>2, <1>3, <1>5, <1>6, ModuleFacts, EndStep

LEMMA pollOtherInv == JobInv /\ pollOther => JobInv'
<1> SUFFICES ASSUME JobInv, pollOther PROVE JobInv'
  OBVIOUS
<1>1. /\ runner.pc \in Working /\ runner.pc \in InModule
      /\ UNCHANGED <<plan, resultsCh, results, loose, lost, registered, tests, watch>>
      /\ tests[runner.module].status # "WAITING"
  BY DEF pollOther, Working, InModule, schedVars, suite, Test
<1>2. CASE /\ Test.status = "CONFIGURED"
           /\ Goto("poll_start") /\ UNCHANGED <<timers, early>>
  <2>1. /\ runner' \in Runner /\ runner'.pc = "poll_start"
        /\ runner'.module = runner.module /\ runner'.failed = runner.failed
        /\ runner'.aliases = runner.aliases /\ runner'.attempts = runner.attempts
    BY <1>1, <1>2, ModuleFacts, GotoFields DEF Pcs
  <2>2. VisitsCounted'
    BY <1>1, <1>2, <2>1 DEF VisitsCounted, Test
  <2> QED BY <1>1, <1>2, <2>1, <2>2, ModuleFacts, WorkStep DEF Working
<1>3. CASE isTestDone(Test) /\ TakeResult
  BY <1>1, <1>3, DoneEnds
<1>4. CASE /\ runner' = [runner EXCEPT !.attempts = 0, !.triggerErr = FALSE]
           /\ UNCHANGED <<timers, early>>
  <2>1. /\ runner' \in Runner /\ runner'.pc = runner.pc
        /\ runner'.module = runner.module /\ runner'.failed = runner.failed
        /\ runner'.aliases = runner.aliases /\ runner.pc = "poll"
    BY <1>1, <1>4, ModuleFacts DEF Runner, pollOther
  <2> QED BY <1>1, <1>4, <2>1, QuietStep DEF Working
<1> QED BY <1>2, <1>3, <1>4 DEF pollOther

LEMMA pollStartInv == JobInv /\ pollStart => JobInv'
<1> SUFFICES ASSUME JobInv, pollStart PROVE JobInv'
  OBVIOUS
<1>1. /\ runner.pc = "poll_start" /\ runner.pc \in Working /\ runner.pc \in InModule
      /\ UNCHANGED <<plan, resultsCh, results, loose, early, lost, timers, registered, watch>>
  BY DEF pollStart, Working, InModule, schedVars
<1>2. CASE /\ StartTest
           /\ runner' = [runner EXCEPT !.pc = "poll", !.started = TRUE,
                                       !.attempts = 0, !.triggerErr = FALSE]
  <2>1. /\ runner' \in Runner /\ runner'.pc = "poll"
        /\ runner'.module = runner.module /\ runner'.failed = runner.failed
        /\ runner'.aliases = runner.aliases
    BY <1>1, <1>2, ModuleFacts DEF Runner, Pcs
  <2>2. tests[runner.module].status # "WAITING"
    BY <1>1, ModuleFacts DEF VisitsCounted, TerminalStatuses
  <2>3. VisitsCounted'
    BY <1>1, <1>2, <2>1, <2>2, StartTestKeeps DEF VisitsCounted
  <2> QED BY <1>1, <1>2, <2>1, <2>3, StartTestKeeps, ModuleFacts, WorkStep DEF Working
<1>3. CASE PollFailed /\ UNCHANGED tests
  <2>1. Goto("cancel") /\ "cancel" \in Working \ {"poll_start", "recheck"}
    BY <1>3 DEF PollFailed, Goto, Working
  <2> QED BY <1>1, <1>3, <2>1, GotoQuiet
<1> QED BY <1>2, <1>3 DEF pollStart

LEMMA pollWaitingInv == JobInv /\ pollWaiting => JobInv'
<1> SUFFICES ASSUME JobInv, pollWaiting PROVE JobInv'
  OBVIOUS
<1>1. /\ runner.pc \in Working /\ runner.pc \in InModule
      /\ UNCHANGED <<plan, resultsCh, results, loose, early, lost, timers, registered,
                     tests, watch>>
  BY DEF pollWaiting, Working, InModule, schedVars, suite
<1>2. CASE shouldTrigger /\ Goto("recheck")
  <2>1. "recheck" \in Pcs /\ "recheck" \in Working \ {"poll_start"}
    BY DEF Pcs, Working
  <2>2. runner.attempts <= WaitingMaxRetries
    BY <1>2 DEF shouldTrigger
  <2> QED BY <1>1, <1>2, <2>1, <2>2, ModuleFacts, GotoFields, QuietStep
<1>3. CASE PollFailed
  <2>1. Goto("cancel") /\ "cancel" \in Working \ {"poll_start", "recheck"}
    BY <1>3 DEF PollFailed, Goto, Working
  <2> QED BY <1>1, <2>1, GotoQuiet
<1> QED BY <1>2, <1>3 DEF pollWaiting

LEMMA recheckDoneInv == JobInv /\ recheckDone => JobInv'
<1> SUFFICES ASSUME JobInv, recheckDone PROVE JobInv'
  OBVIOUS
<1>1. /\ runner.pc \in InModule /\ isTestDone(Test) /\ TakeResult
      /\ UNCHANGED <<plan, resultsCh, results, loose, lost, registered, tests, watch>>
  BY DEF recheckDone, Working, InModule, schedVars, suite
<1> QED BY <1>1, DoneEnds

\* One more visit of a test that waits, and one more attempt.
LEMMA recheckVisitInv == JobInv /\ recheckVisit => JobInv'
<1> SUFFICES ASSUME JobInv, recheckVisit PROVE JobInv'
  OBVIOUS
<1>1. /\ runner.pc = "recheck" /\ runner.pc \in Working /\ runner.pc \in InModule
      /\ UNCHANGED <<plan, resultsCh, results, loose, early, lost, timers, registered, tests>>
  BY DEF recheckVisit, Working, InModule, schedVars
<1>2. /\ runner \in Runner /\ watch \in Watch /\ VisitsCounted
      /\ {runner.attempts, WaitingMaxRetries, MaxRedirects, MaxPeriods} \subseteq Nat
  BY <1>1, ModuleFacts
<1>3. /\ runner' = [runner EXCEPT !.pc = "visit", !.attempts = runner.attempts + 1,
                                  !.hop = 0]
      /\ watch' = IF tests[runner.module].status = "WAITING"
                  THEN [watch EXCEPT !.visits = watch.visits + 1] ELSE watch
  BY DEF recheckVisit, Test
<1>4. /\ runner' \in Runner /\ runner'.pc = "visit"
      /\ runner'.module = runner.module /\ runner'.failed = runner.failed
      /\ runner'.aliases = runner.aliases /\ runner'.attempts = runner.attempts + 1
  <2> DEFINE n == runner.attempts + 1
  <2>1. n \in Nat /\ 0 \in 0..MaxRedirects /\ "visit" \in Pcs
    BY <1>2 DEF Pcs
  <2>2. runner' = [runner EXCEPT !.pc = "visit", !.attempts = n, !.hop = 0]
    BY <1>3
  <2> HIDE DEF n
  <2>3. /\ runner' \in Runner /\ runner'.pc = "visit"
        /\ runner'.module = runner.module /\ runner'.failed = runner.failed
        /\ runner'.aliases = runner.aliases /\ runner'.attempts = n
    BY <1>2, <2>1, <2>2 DEF Runner
  <2> QED BY <2>3 DEF n
<1>5. runner.attempts <= WaitingMaxRetries
  BY <1>1, <1>2 DEF VisitsCounted
<1>6. CASE tests[runner.module].status = "WAITING"
  <2>1. watch.visits <= runner.attempts /\ watch.visits \in Nat
    BY <1>1, <1>2, <1>6 DEF VisitsCounted, Watch
  <2>2. watch.visits + 1 \in 0..(WaitingMaxRetries + 1)
    BY <1>2, <1>5, <2>1
  <2>3. watch' \in Watch /\ watch'.visits = watch.visits + 1
    BY <1>2, <1>3, <1>6, <2>2 DEF Watch
  <2>4. VisitsCounted'
    BY <1>2, <1>4, <2>1, <2>3 DEF VisitsCounted
  <2> QED BY <1>1, <1>4, <2>3, <2>4, ModuleFacts, WorkStep DEF Working
<1>7. CASE tests[runner.module].status # "WAITING"
  <2>1. watch' = watch
    BY <1>3, <1>7
  <2>2. VisitsCounted'
    BY <1>1, <1>4, <1>7 DEF VisitsCounted
  <2> QED BY <1>1, <1>2, <1>4, <2>1, <2>2, ModuleFacts, WorkStep DEF Working
<1> QED BY <1>6, <1>7

\* The steps of a visit move the runner and mark the test as visited.
LEMMA VisitStep ==
  ASSUME JobInv, runner.pc = "visit", runner' \in Runner,
         runner'.pc \in {"visit", "poll", "cancel"},
         runner'.module = runner.module, runner'.failed = runner.failed,
         runner'.aliases = runner.aliases, runner'.attempts = runner.attempts,
         watch' \in {watch, [watch EXCEPT !.visited = TRUE]},
         UNCHANGED <<plan, resultsCh, results, loose, early, lost, timers, registered, tests>>
  PROVE  JobInv'
<1>1. runner.pc \in Working /\ runner.pc \in InModule /\ runner'.pc \in Working
  BY DEF Working, InModule
<1>2. watch' \in Watch /\ watch'.visits = watch.visits
  BY <1>1, ModuleFacts DEF Watch
<1>3. VisitsCounted'
  BY <1>1, <1>2, ModuleFacts DEF VisitsCounted
<1> QED BY <1>1, <1>2, <1>3, ModuleFacts, WorkStep

LEMMA visitInv ==
  ASSUME JobInv, visitRedirect \/ visitEnds \/ visitFails
  PROVE  JobInv'
<1>1. /\ runner.pc = "visit" /\ runner.pc \in InModule
      /\ UNCHANGED <<plan, resultsCh, results, loose, early, lost, timers, registered, tests>>
      /\ watch' \in {watch, [watch EXCEPT !.visited = TRUE]}
  BY DEF visitRedirect, visitEnds, visitFails, schedVars, InModule, Working
<1>2. runner \in Runner /\ MaxRedirects \in Nat
  BY <1>1, ModuleFacts
<1>3. CASE visitRedirect
  <2>1. /\ runner' = [runner EXCEPT !.hop = runner.hop + 1]
        /\ runner.hop + 1 \in 0..MaxRedirects
    BY <1>2, <1>3 DEF visitRedirect, Runner
  <2>2. /\ runner' \in Runner /\ runner'.pc = runner.pc
        /\ runner'.module = runner.module /\ runner'.failed = runner.failed
        /\ runner'.aliases = runner.aliases /\ runner'.attempts = runner.attempts
    BY <1>2, <2>1 DEF Runner
  <2> QED BY <1>1, <2>2, VisitStep
<1>4. CASE visitEnds \/ visitFails
  <2>1. PICK failed \in BOOLEAN : AfterVisit(failed)
    BY <1>4 DEF visitEnds, visitFails
  <2> QED BY <1>1, <1>2, <2>1, AfterVisitFields, VisitStep
<1> QED BY <1>3, <1>4

LEMMA visitTooLateInv == JobInv /\ visitTooLate => JobInv'
<1> SUFFICES ASSUME JobInv, visitTooLate PROVE JobInv'
  OBVIOUS
<1>1. /\ runner.pc = "visit" /\ runner.pc \in InModule /\ runner.pc \in Working
      /\ UNCHANGED <<plan, resultsCh, results, loose, early, lost, timers, registered, watch>>
      /\ tests[runner.module].status \in TerminalStatuses
      /\ tests' \in {tests, [tests EXCEPT ![runner.module].result = "FAILED"]}
      /\ (\E failed \in BOOLEAN : AfterVisit(failed)) \/ Goto("poll")
  BY DEF visitTooLate, schedVars, InModule, Working, Test, isTerminalStatus
<1>2. /\ runner \in Runner /\ tests \in [Modules -> TestInfo]
      /\ runner.module \in Modules
  BY <1>1, ModuleFacts
<1>3. /\ runner' \in Runner /\ runner'.pc \in {"cancel", "poll"}
      /\ runner'.module = runner.module /\ runner'.failed = runner.failed
      /\ runner'.aliases = runner.aliases /\ runner'.attempts = runner.attempts
  BY <1>1, <1>2, AfterVisitFields, GotoFields DEF Pcs
<1>4. /\ tests' \in [Modules -> TestInfo]
      /\ tests'[runner.module].status = tests[runner.module].status
      /\ \A n \in Modules \ {runner.module} : tests'[n] = tests[n]
  <2> HIDE DEF Modules
  <2>1. CASE tests' = tests
    BY <1>2, <2>1
  <2>2. CASE tests' = [tests EXCEPT ![runner.module].result = "FAILED"]
    <3>1. "FAILED" \in {"FAILED"} \cup Outcomes
      OBVIOUS
    <3> QED BY <1>2, <2>2, <3>1, ResultSet
  <2> QED BY <1>1, <2>1, <2>2
<1>5. VisitsCounted'
  BY <1>1, <1>3, <1>4 DEF VisitsCounted, TerminalStatuses
<1> QED BY <1>1, <1>3, <1>4, <1>5, ModuleFacts, WorkStep DEF Working

-----------------------------------------------------------------------------
(* cancelTestAndWaitTerminal *)

LEMMA cancelTestInv == JobInv /\ cancelTest => JobInv'
<1> SUFFICES ASSUME JobInv, cancelTest PROVE JobInv'
  OBVIOUS
<1>1. /\ runner.pc = "cancel" /\ runner.pc \in InModule /\ runner.pc \in Working
      /\ UNCHANGED <<plan, resultsCh, results, loose, early, lost, timers, registered, watch>>
      /\ \/ tests' = tests
         \/ tests' = [tests EXCEPT ![runner.module].status = "INTERRUPTED"]
      /\ Goto("wait_terminal")
  BY DEF cancelTest, schedVars, InModule, Working, Goto
<1>2. /\ runner \in Runner /\ tests \in [Modules -> TestInfo]
      /\ runner.module \in Modules
  BY <1>1, ModuleFacts
<1>3. /\ runner' \in Runner /\ runner'.pc = "wait_terminal"
      /\ runner'.module = runner.module /\ runner'.failed = runner.failed
      /\ runner'.aliases = runner.aliases /\ runner'.attempts = runner.attempts
  BY <1>1, <1>2, GotoFields DEF Pcs
<1>4. /\ tests' \in [Modules -> TestInfo]
      /\ \/ tests'[runner.module].status = tests[runner.module].status
         \/ tests'[runner.module].status = "INTERRUPTED"
      /\ \A n \in Modules \ {runner.module} : tests'[n] = tests[n]
  <2> HIDE DEF Modules
  <2>1. "INTERRUPTED" \in TerminalStatuses
    BY DEF TerminalStatuses
  <2>2. CASE tests' = tests
    BY <1>2, <2>2
  <2>3. CASE tests' = [tests EXCEPT ![runner.module].status = "INTERRUPTED"]
    BY <1>2, <2>1, <2>3, StatusSet
  <2> QED BY <1>1, <2>2, <2>3
<1>5. VisitsCounted'
  BY <1>1, <1>3, <1>4, ModuleFacts DEF VisitsCounted
<1> QED BY <1>1, <1>3, <1>4, <1>5, ModuleFacts, WorkStep DEF Working

LEMMA waitForTerminalTestStateInv == JobInv /\ waitForTerminalTestState => JobInv'
<1> SUFFICES ASSUME JobInv, waitForTerminalTestState PROVE JobInv'
  OBVIOUS
<1>1. /\ runner.pc \in InModule /\ EndModule("FAILED")
      /\ UNCHANGED <<plan, resultsCh, results, lost, registered, tests, watch, early>>
      /\ \/ loose' = loose \cup {runner.module}
         \/ loose' = loose /\ tests[runner.module].status \in TerminalStatuses
  BY DEF waitForTerminalTestState, schedVars, InModule, Working, suite, isTerminalStatus, Test
<1>2. CASE loose' = loose \cup {runner.module}
  BY <1>1, <1>2, ModuleFacts, FailsLoose
<1>3. CASE loose' = loose /\ tests[runner.module].status \in TerminalStatuses
  <2>1. moduleFailed("FAILED")
        /\ tests'[runner.module].status \in {"ABSENT"} \cup TerminalStatuses
    BY <1>1, <1>3 DEF moduleFailed
  <2> HIDE DEF moduleFailed, Modules
  <2> QED BY <1>1, <1>3, <2>1, ModuleFacts, EndStep
<1> QED BY <1>1, <1>2, <1>3

-----------------------------------------------------------------------------
(* The suite, the deadlines and the other jobs *)

\* What a step of the suite may do: it concerns one test that has not ended,
\* and a waiting period begins without visits.
LEMMA SuiteEffect ==
  ASSUME JobInv, NEW m \in Modules, SuiteStep(m)
  PROVE  /\ tests' \in [Modules -> TestInfo] /\ watch' \in Watch
         /\ \A n \in Modules \ {m} : tests'[n] = tests[n]
         /\ tests[m].status \notin {"ABSENT"} \cup TerminalStatuses
         /\ m = runner.module \/ watch' = watch
         /\ tests'[m].status = "WAITING" => watch'.visits = 0
         /\ tests[m].status = "CONFIGURED" => tests'[m].status \in TerminalStatuses
<1> DEFINE Live == {"CREATED", "CONFIGURED", "RUNNING", "WAITING"}
<1>1. /\ tests \in [Modules -> TestInfo] /\ watch \in Watch
      /\ MaxPeriods \in Nat /\ WaitingMaxRetries \in Nat
      /\ tests[m] \in TestInfo
  BY HarnessAssumption DEF JobInv, JobTypeOK
<1> HIDE DEF Modules
<1>2. ASSUME NEW s \in Live \cup TerminalStatuses,
             tests' = [tests EXCEPT ![m].status = s]
      PROVE  /\ tests' \in [Modules -> TestInfo]
             /\ \A n \in Modules \ {m} : tests'[n] = tests[n]
             /\ tests'[m].status = s
  BY <1>1, <1>2, StatusSet
<1>3. CASE /\ tests[m].status = "CREATED"
           /\ tests' \in {[tests EXCEPT ![m].status = s] : s \in {"CONFIGURED", "RUNNING"}}
           /\ UNCHANGED watch
  <2>1. PICK s \in {"CONFIGURED", "RUNNING"} : tests' = [tests EXCEPT ![m].status = s]
    BY <1>3
  <2>2. /\ tests' \in [Modules -> TestInfo]
        /\ \A n \in Modules \ {m} : tests'[n] = tests[n]
        /\ tests'[m].status = s
    BY <1>2, <2>1
  <2> QED BY <1>1, <1>3, <2>1, <2>2 DEF TerminalStatuses
<1>4. CASE /\ m = runner.module
           /\ tests[m].status = "RUNNING"
           /\ watch.period < MaxPeriods
           /\ tests' \in {[tests EXCEPT ![m].status = s] : s \in {"WAITING", "CONFIGURED"}}
           /\ watch' = [visited |-> FALSE, period |-> watch.period + 1, visits |-> 0]
  <2>1. PICK s \in {"WAITING", "CONFIGURED"} : tests' = [tests EXCEPT ![m].status = s]
    BY <1>4
  <2>2. /\ tests' \in [Modules -> TestInfo]
        /\ \A n \in Modules \ {m} : tests'[n] = tests[n]
        /\ tests'[m].status = s
    BY <1>2, <2>1
  <2>3. watch.period + 1 \in 0..MaxPeriods /\ 0 \in 0..(WaitingMaxRetries + 1)
    <3>1. watch.period \in 0..MaxPeriods
      BY <1>1 DEF Watch
    <3>2. watch.period < MaxPeriods /\ MaxPeriods \in Nat /\ WaitingMaxRetries \in Nat
      BY <1>1, <1>4
    <3> QED BY ONLY <3>1, <3>2
  <2>4. watch' \in Watch /\ watch'.visits = 0
    BY <1>4, <2>3 DEF Watch
  <2> QED BY <1>4, <2>2, <2>4 DEF TerminalStatuses
<1>5. CASE TestPublishes(m)
  <2>1. PICK r \in Outcomes : tests' = [tests EXCEPT ![m].result = r]
    BY <1>5 DEF TestPublishes
  <2>2. tests[m].status = "RUNNING" /\ UNCHANGED watch
    BY <1>5 DEF TestPublishes
  <2>3. /\ tests' \in [Modules -> TestInfo]
        /\ \A n \in Modules \ {m} : tests'[n] = tests[n]
        /\ tests'[m].status = tests[m].status
    BY <1>1, <2>1, ResultSet
  <2> QED BY <1>1, <2>2, <2>3 DEF TerminalStatuses
<1>6. CASE /\ tests[m].status = "WAITING"
           /\ tests' = [tests EXCEPT ![m].status = "RUNNING"]
           /\ UNCHANGED watch
  <2>1. /\ tests' \in [Modules -> TestInfo]
        /\ \A n \in Modules \ {m} : tests'[n] = tests[n]
        /\ tests'[m].status = "RUNNING"
    BY <1>2, <1>6
  <2> QED BY <1>1, <1>6, <2>1 DEF TerminalStatuses
<1>7. CASE TestEnds(m)
  <2>1. PICK s \in TerminalStatuses : tests' = [tests EXCEPT ![m].status = s]
    BY <1>7 DEF TestEnds, TerminalStatuses
  <2>2. tests[m].status \notin {"ABSENT"} \cup TerminalStatuses /\ UNCHANGED watch
    BY <1>7 DEF TestEnds, TerminalStatuses
  <2>3. /\ tests' \in [Modules -> TestInfo]
        /\ \A n \in Modules \ {m} : tests'[n] = tests[n]
        /\ tests'[m].status = s
    BY <1>2, <2>1
  <2> QED BY <1>1, <2>1, <2>2, <2>3 DEF TerminalStatuses
<1>8. CASE TestMoves(m)
  BY <1>3, <1>4, <1>6, <1>8 DEF TestMoves
<1> QED BY <1>5, <1>7, <1>8 DEF SuiteStep

LEMMA SuiteStepInv ==
  ASSUME JobInv, NEW m \in Modules, SuiteStep(m)
  PROVE  JobInv'
<1>1. /\ UNCHANGED <<plan, runner, timers, registered, lost, loose, early,
                     resultsCh, results>>
      /\ Modules' = Modules
      /\ JobTypeOK /\ Progress /\ AliasesKnown /\ ResultSaid
      /\ VisitsCounted /\ TestsAhead /\ TestsBehind
  BY DEF SuiteStep, schedVars, Modules, JobInv
<1>2. /\ tests' \in [Modules -> TestInfo] /\ watch' \in Watch
      /\ \A n \in Modules \ {m} : tests'[n] = tests[n]
      /\ tests[m].status \notin {"ABSENT"} \cup TerminalStatuses
      /\ m = runner.module \/ watch' = watch
      /\ tests'[m].status = "WAITING" => watch'.visits = 0
      /\ tests[m].status = "CONFIGURED" => tests'[m].status \in TerminalStatuses
  BY SuiteEffect
<1>3. JobTypeOK' /\ Progress' /\ AliasesKnown' /\ ResultSaid'
  BY <1>1, <1>2 DEF JobTypeOK, Progress, AliasesKnown, ResultSaid, Says
<1>4. TestsAhead'
  <2> SUFFICES ASSUME NEW n \in Modules,
                      n > runner.module \/ (n = runner.module /\ runner.pc = "create_test")
               PROVE  tests'[n] = [status |-> "ABSENT", result |-> ""]
    BY <1>1 DEF TestsAhead
  <2>1. tests[n] = [status |-> "ABSENT", result |-> ""]
    BY <1>1 DEF TestsAhead
  <2>2. n # m
    BY <1>2, <2>1, AbsentStatus
  <2> QED BY <1>2, <2>1, <2>2
<1>5. TestsBehind'
  <2> SUFFICES ASSUME NEW n \in Modules,
                      n < runner.module \/ (n = runner.module /\ runner.pc \notin InModule)
               PROVE  Accounted(n)'
    BY <1>1 DEF TestsBehind
  <2>1. Accounted(n)
    BY <1>1 DEF TestsBehind
  <2>2. CASE n = m
    <3>1. n \in loose \cup early /\ (runner.failed \/ n \in early)
      BY <1>2, <2>1, <2>2 DEF Accounted, isTerminalStatus
    <3> QED BY <1>1, <3>1 DEF Accounted
  <2>3. CASE n # m
    BY <1>1, <1>2, <2>1, <2>3 DEF Accounted, isTerminalStatus
  <2> QED BY <2>2, <2>3
<1>6. VisitsCounted'
  <2>1. CASE m = runner.module
    <3>1. runner.attempts \in Nat
      BY <1>1 DEF JobTypeOK, Runner
    <3>2. 0 <= runner.attempts
      BY <3>1
    <3>3. tests'[m].status = "WAITING" => watch'.visits <= runner.attempts
      BY <1>2, <3>2
    <3>4. runner.pc = "poll_start" => tests'[m].status \in {"CONFIGURED"} \cup TerminalStatuses
      BY <1>1, <1>2, <2>1 DEF VisitsCounted
    <3> QED BY <1>1, <2>1, <3>3, <3>4 DEF VisitsCounted
  <2>2. CASE m # runner.module
    <3>1. watch' = watch /\ (runner.module \in Modules => tests'[runner.module] = tests[runner.module])
      BY <1>2, <2>2
    <3>2. runner.pc \in Working => runner.module \in Modules
      BY <1>1 DEF Progress, InModule
    <3> QED BY <1>1, <3>1, <3>2 DEF VisitsCounted, Working
  <2> QED BY <2>1, <2>2
<1> QED BY <1>3, <1>4, <1>5, <1>6 DEF JobInv

\* A deadline that passes.
LEMMA TimeoutInv ==
  ASSUME JobInv, NEW t \in {"plan", "test", "cleanup"}, Timeout(t)
  PROVE  JobInv'
<1>1. /\ UNCHANGED <<plan, runner, tests, watch, registered, lost, loose, early,
                     resultsCh, results>>
      /\ Modules' = Modules /\ timers' = timers \cup {t}
  BY DEF Timeout, schedVars, suite, Modules
<1> QED BY <1>1 DEF JobInv, JobTypeOK, Progress, TestsAhead, TestsBehind, Accounted,
        VisitsCounted, AliasesKnown, ResultSaid, Says

\* The results move through the pool; the job stays as it is.
LEMMA PoolInv ==
  ASSUME JobInv, UNCHANGED jobVars, ResultSaid'
  PROVE  JobInv'
<1>1. UNCHANGED <<plan, runner, timers, tests, watch, registered, lost, loose, early>>
      /\ Modules' = Modules
  BY DEF jobVars, Modules
<1> QED BY <1>1 DEF JobInv, JobTypeOK, Progress, TestsAhead, TestsBehind, Accounted,
        VisitsCounted, AliasesKnown

LEMMA OtherResult ==
  ASSUME SchedTypeOK, JobInv, UNCHANGED runner,
         NEW j \in Jobs, j # Focus, NEW failed \in BOOLEAN, JobDone(j, failed)
  PROVE  ResultSaid'
<1> DEFINE r == [index |-> j, failed |-> failed]
<1>1. /\ resultsCh \in Seq(Result) /\ r \in Result /\ results' = results
      /\ resultsCh' = Append(resultsCh, r)
  BY DEF SchedTypeOK, JobDone, Result
<1>2. r.index = j
  OBVIOUS
<1> HIDE DEF r
<1>3. ResultSaid
  BY DEF JobInv
<1>4. ASSUME NEW i \in DOMAIN results' PROVE Says(results[i])'
  BY <1>1, <1>3 DEF ResultSaid, Says
<1>5. ASSUME NEW i \in DOMAIN resultsCh' PROVE Says(resultsCh[i])'
  <2>1. /\ Len(resultsCh) \in Nat /\ DOMAIN resultsCh = 1..Len(resultsCh)
        /\ DOMAIN Append(resultsCh, r) = 1..(Len(resultsCh) + 1)
        /\ \A k \in 1..Len(resultsCh) : Append(resultsCh, r)[k] = resultsCh[k]
        /\ Append(resultsCh, r)[Len(resultsCh) + 1] = r
    BY <1>1, LenProperties, AppendProperties
  <2>2. i \in 1..Len(resultsCh) \/ i = Len(resultsCh) + 1
    BY <1>1, <1>5, <2>1
  <2>3. CASE i \in 1..Len(resultsCh)
    BY <1>1, <1>3, <2>1, <2>3 DEF ResultSaid, Says
  <2>4. CASE i = Len(resultsCh) + 1
    BY <1>1, <1>2, <2>1, <2>4 DEF Says
  <2> QED BY <2>2, <2>3, <2>4
<1> QED BY <1>4, <1>5 DEF ResultSaid

LEMMA ReceivedResult ==
  ASSUME SchedTypeOK, JobInv, UNCHANGED runner, Receive
  PROVE  ResultSaid'
<1> DEFINE r == Head(resultsCh)
<1>1. /\ resultsCh \in Seq(Result) /\ resultsCh # <<>> /\ results \in Seq(Result)
      /\ results' = Append(results, r) /\ resultsCh' = Tail(resultsCh)
  BY DEF SchedTypeOK, Receive
<1>2. /\ Len(resultsCh) \in Nat /\ DOMAIN resultsCh = 1..Len(resultsCh)
      /\ 1 \in DOMAIN resultsCh /\ r = resultsCh[1]
      /\ DOMAIN Tail(resultsCh) = 1..(Len(resultsCh) - 1)
      /\ \A k \in 1..(Len(resultsCh) - 1) : Tail(resultsCh)[k] = resultsCh[k + 1]
  BY <1>1
<1>3. r \in Result
  BY <1>1, TailIndexes
<1> HIDE DEF r
<1>4. ResultSaid
  BY DEF JobInv
<1>5. ASSUME NEW i \in DOMAIN resultsCh' PROVE Says(resultsCh[i])'
  <2>1. i + 1 \in DOMAIN resultsCh /\ resultsCh'[i] = resultsCh[i + 1]
    BY <1>1, <1>2, <1>5
  <2> QED BY <1>4, <2>1 DEF ResultSaid, Says
<1>6. ASSUME NEW i \in DOMAIN results' PROVE Says(results[i])'
  <2>1. /\ Len(results) \in Nat /\ DOMAIN results = 1..Len(results)
        /\ DOMAIN Append(results, r) = 1..(Len(results) + 1)
        /\ \A k \in 1..Len(results) : Append(results, r)[k] = results[k]
        /\ Append(results, r)[Len(results) + 1] = r
    BY <1>1, <1>3, LenProperties, AppendProperties
  <2>2. i \in 1..Len(results) \/ i = Len(results) + 1
    BY <1>1, <1>6, <2>1
  <2>3. CASE i \in 1..Len(results)
    BY <1>1, <1>4, <2>1, <2>3 DEF ResultSaid, Says
  <2>4. CASE i = Len(results) + 1
    <3>1. Says(r)
      BY <1>2, <1>4 DEF ResultSaid
    <3> QED BY <1>1, <2>1, <2>4, <3>1 DEF Says
  <2> QED BY <2>2, <2>3, <2>4
<1> QED BY <1>5, <1>6 DEF ResultSaid

-----------------------------------------------------------------------------
(* The job's invariant is kept, and a step maps to a step of the scheduler *)

LEMMA RunnerStepInv ==
  ASSUME SchedTypeOK, JobInv, RunnerStep
  PROVE  JobInv'
<1>1. CASE Begin \/ registerRuntime \/ createPlan \/ EndJob
  BY <1>1, BeginInv, registerRuntimeInv, createPlanInv, EndJobInv
<1>2. CASE \E a \in runner.aliases : deleteRuntime(a)
  BY <1>2, deleteRuntimeInv
<1>3. CASE createTest \/ waitForTestReady \/ waitForTestReadyFails \/ readyStart
           \/ registerRuntimeAlias
  BY <1>3, createTestInv, waitForTestReadyInv, waitForTestReadyFailsInv,
     readyStartInv, registerRuntimeAliasInv
<1>4. CASE pollCtxDone \/ pollOther \/ pollStart \/ pollWaiting
  BY <1>4, pollCtxDoneInv, pollOtherInv, pollStartInv, pollWaitingInv
<1>5. CASE recheckDone \/ recheckVisit
  BY <1>5, recheckDoneInv, recheckVisitInv
<1>6. CASE visitRedirect \/ visitEnds \/ visitFails
  BY <1>6, visitInv
<1>7. CASE visitTooLate \/ cancelTest \/ waitForTerminalTestState
  BY <1>7, visitTooLateInv, cancelTestInv, waitForTerminalTestStateInv
<1> QED BY <1>1, <1>2, <1>3, <1>4, <1>5, <1>6, <1>7 DEF RunnerStep

LEMMA JobNext ==
  ASSUME SchedTypeOK, JobInv, [Next]_vars
  PROVE  JobInv'
<1>1. CASE RunnerStep
  BY <1>1, RunnerStepInv
<1>2. CASE PoolStep
  <2>1. UNCHANGED jobVars /\ UNCHANGED runner
    BY <1>2 DEF PoolStep, jobVars
  <2>2. CASE Receive
    BY <2>1, <2>2, ReceivedResult, PoolInv
  <2>3. CASE StartJob \/ Return
    <3>1. ResultSaid'
      BY <2>1, <2>3 DEF StartJob, Return, JobInv, ResultSaid, Says
    <3> QED BY <2>1, <3>1, PoolInv
  <2> QED BY <1>2, <2>2, <2>3 DEF PoolStep
<1>3. CASE Expire /\ UNCHANGED jobVars
  <2>1. ResultSaid'
    BY <1>3 DEF Expire, jobVars, JobInv, ResultSaid, Says
  <2> QED BY <1>3, <2>1, PoolInv
<1>4. CASE \E j \in Jobs : OtherJobDone(j)
  <2>1. PICK j \in Jobs : OtherJobDone(j)
    BY <1>4
  <2>2. UNCHANGED jobVars /\ UNCHANGED runner /\ j # Focus
    BY <2>1 DEF OtherJobDone, jobVars
  <2>3. PICK failed \in BOOLEAN : JobDone(j, failed)
    BY <2>1 DEF OtherJobDone
  <2>4. ResultSaid'
    BY <2>2, <2>3, OtherResult
  <2> QED BY <2>2, <2>4, PoolInv
<1>5. CASE \E t \in {"plan", "test", "cleanup"} : Timeout(t)
  BY <1>5, TimeoutInv
<1>6. CASE \E m \in Modules : SuiteStep(m)
  BY <1>6, SuiteStepInv
<1>7. CASE UNCHANGED vars
  <2>1. UNCHANGED jobVars /\ UNCHANGED <<runner, results, resultsCh>>
    BY <1>7 DEF vars, jobVars, schedVars
  <2>2. ResultSaid'
    BY <2>1 DEF JobInv, ResultSaid, Says
  <2> QED BY <2>1, <2>2, PoolInv
<1> QED BY <1>1, <1>2, <1>3, <1>4, <1>5, <1>6, <1>7 DEF Next

LEMMA RunnerStepMaps ==
  ASSUME JobInv, RunnerStep
  PROVE  SchedNext \/ UNCHANGED schedVars
<1>1. CASE EndJob
  <2>1. JobDone(Focus, runner.failed) /\ runner.failed \in BOOLEAN
    BY <1>1 DEF EndJob, JobInv, JobTypeOK, Runner
  <2> QED BY <2>1, HarnessAssumption DEF SchedNext
<1>2. CASE ~EndJob
  BY <1>2 DEF RunnerStep, Begin, registerRuntime, createPlan, deleteRuntime,
     createTest, waitForTestReady, waitForTestReadyFails, readyStart,
     registerRuntimeAlias, pollCtxDone, pollOther, pollStart, pollWaiting,
     recheckDone, recheckVisit, visitRedirect, visitEnds, visitFails,
     visitTooLate, cancelTest, waitForTerminalTestState
<1> QED BY <1>1, <1>2

LEMMA NextMaps ==
  ASSUME JobInv, [Next]_vars
  PROVE  [SchedNext]_schedVars
<1>1. CASE RunnerStep
  BY <1>1, RunnerStepMaps
<1>2. CASE PoolStep
  BY <1>2 DEF PoolStep, SchedNext
<1>3. CASE Expire /\ UNCHANGED jobVars
  BY <1>3 DEF SchedNext
<1>4. CASE \E j \in Jobs : OtherJobDone(j)
  BY <1>4 DEF OtherJobDone, SchedNext
<1>5. CASE \E t \in {"plan", "test", "cleanup"} : Timeout(t)
  BY <1>5 DEF Timeout
<1>6. CASE \E m \in Modules : SuiteStep(m)
  BY <1>6 DEF SuiteStep
<1>7. CASE UNCHANGED vars
  BY <1>7 DEF vars
<1> QED BY <1>1, <1>2, <1>3, <1>4, <1>5, <1>6, <1>7 DEF Next

LEMMA BothNext == SchedInv /\ JobInv /\ [Next]_vars => SchedInv' /\ JobInv'
<1> SUFFICES ASSUME SchedInv, JobInv, [Next]_vars PROVE SchedInv' /\ JobInv'
  OBVIOUS
<1>1. JobInv'
  BY JobNext DEF SchedInv
<1>2. SchedInv'
  BY NextMaps, NextInv
<1> QED BY <1>1, <1>2

LEMMA HarnessInvariant == Spec => [](SchedInv /\ JobInv)
<1>1. Init => SchedInv /\ JobInv
  BY InitInv, InitJob DEF Init
<1> QED BY <1>1, BothNext, PTL DEF Spec

-----------------------------------------------------------------------------
(* Theorems *)

\* Execute implements scheduleJobs' specification: whatever the detailed job
\* does, its goroutine sends one result, as any job of the pool does.
THEOREM ImplementsScheduler == Spec => SchedSpec
<1>1. Init => SchedInit
  BY DEF Init
<1>2. JobInv /\ [Next]_vars => [SchedNext]_schedVars
  BY NextMaps
<1> QED BY <1>1, <1>2, HarnessInvariant, PTL DEF Spec, SchedSpec

\* In every run of Execute each launched job is executing or has exactly one
\* result, whatever the order in which the goroutines of scheduleJobs end, and
\* at most MaxParallelRuns jobs execute at a time.
THEOREM ExecutePoolSound == Spec => []PoolSound
<1>1. JobsAccounted /\ ParallelBound => PoolSound
  BY DEF PoolSound
<1> QED BY <1>1, ImplementsScheduler, NoJobLost, ParallelRunsBounded, PTL

\* Every reachable state of the harness is well typed, and pollTest visits a
\* waiting test at most WaitingMaxRetries + 1 times, however often the status
\* reads and the suite interleave.
THEOREM HarnessTypeCorrect == Spec => []TypeOK
<1>1. SchedInv /\ JobInv => TypeOK
  <2> SUFFICES ASSUME SchedTypeOK, JobTypeOK PROVE TypeOK
    BY DEF SchedInv, JobInv
  <2>1. runner.module \in 0..Len(plan.modules)
    BY PlanSeq DEF JobTypeOK, Runner
  <2>2. runner \in
          [pc : Pcs, module : 0..Len(plan.modules), attempts : Nat,
           triggerErr : BOOLEAN, started : BOOLEAN, hop : 0..MaxRedirects,
           aliases : SUBSET {"job", "suite"}, failed : BOOLEAN]
    BY <2>1 DEF JobTypeOK, Runner
  <2> QED BY <2>2 DEF TypeOK, JobTypeOK, Watch
<1> QED BY <1>1, HarnessInvariant, PTL

\* When the job's goroutine ends, on any path through execute and executeModule
\* and whatever was cancelled, the RP keeps a runtime registration only where
\* its own call failed, and the suite keeps an unended test only where its
\* cancellation or an earlier call for it failed, or where the poll had taken
\* a result from the running test.
THEOREM NothingIsLeft == Spec => []NothingLeft
<1>1. JobInv => NothingLeft
  <2> SUFFICES ASSUME JobInv PROVE NothingLeft
    OBVIOUS
  <2>1. NoRuntimeLeft
    BY DEF JobInv, AliasesKnown, NoRuntimeLeft
  <2>2. NoTestLeft
    <3> SUFFICES ASSUME NEW m \in Modules, runner.pc = "ended", m \notin loose \cup early
                 PROVE  tests[m].status \in {"ABSENT"} \cup TerminalStatuses
      BY DEF NoTestLeft
    <3>1. Modules = 1..Len(plan.modules) /\ runner.module \in Nat
      BY PlanSeq DEF JobInv, JobTypeOK, Runner
    <3>2. m > runner.module \/ m < runner.module \/ m = runner.module
      BY <3>1
    <3>3. CASE m > runner.module
      <4>1. tests[m] = [status |-> "ABSENT", result |-> ""]
        BY <3>3 DEF JobInv, TestsAhead
      <4> QED BY <4>1, AbsentStatus
    <3>4. CASE m < runner.module \/ m = runner.module
      <4>1. Accounted(m)
        BY <3>4 DEF JobInv, TestsBehind, InModule, Working
      <4> QED BY <4>1 DEF Accounted
    <3> QED BY <3>2, <3>3, <3>4
  <2> QED BY <2>1, <2>2 DEF NothingLeft
<1> QED BY <1>1, HarnessInvariant, PTL

\* The report of Execute can be relied on: it has the result of every job in
\* its place, and the job is reported as passed only if it has modules and
\* each of their tests has ended in the suite with a result that moduleFailed
\* accepts, the skipped ones included, or was read before it had ended.
THEOREM ReportIsTruthful == Spec => []ReportTruthful
<1>1. JobInv => NoFalseGreen
  <2> SUFFICES ASSUME JobInv, NEW i \in DOMAIN results,
                      results[i].index = Focus, ~results[i].failed
               PROVE  /\ Modules # {}
                      /\ \A m \in Modules \ early :
                           isTerminalStatus(tests[m]) /\ tests[m].result \in Passing
    BY DEF NoFalseGreen
  <2>1. runner.pc = "ended" /\ ~runner.failed
    BY DEF JobInv, ResultSaid, Says
  <2>2. /\ Modules # {} /\ runner.module = Len(plan.modules)
        /\ Modules = 1..Len(plan.modules) /\ Len(plan.modules) \in Nat
    BY <2>1, PlanSeq DEF JobInv, JobTypeOK, Progress
  <2>3. ASSUME NEW m \in Modules \ early
        PROVE  isTerminalStatus(tests[m]) /\ tests[m].result \in Passing
    <3>1. m < runner.module \/ m = runner.module
      BY <2>2
    <3>2. Accounted(m)
      BY <2>1, <3>1 DEF JobInv, TestsBehind, InModule, Working
    <3> QED BY <2>1, <3>2 DEF Accounted
  <2> QED BY <2>2, <2>3
<1>2. NoFalseGreen /\ ReportComplete => ReportTruthful
  BY DEF ReportTruthful
<1> QED BY <1>1, <1>2, HarnessInvariant, ImplementsScheduler, ReportIsComplete, PTL
=============================================================================
