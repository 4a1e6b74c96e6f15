---------------------------- MODULE PlacesProofs ----------------------------
(***************************************************************************)
(* Where jobs stand, proved under any faults of the manager, the workers   *)
(* and the reaper.  A job stands in one place at most: once on one list,   *)
(* or with the reaper between its LREM and its RPUSH.  A job that stands   *)
(* nowhere any more, because its worker acknowledged it or a release took  *)
(* it off its list, never comes back.                                      *)
(***************************************************************************)
EXTENDS JobProtocolProofs, FiniteSetTheorems

InTransit(j) == reaper.pc = "requeue" /\ reaper.job = j

OnePlace ==
  /\ \A q \in Queues : IsInjective(pending[q])
  /\ IsInjective(inProgress)
  /\ \A j \in JobIds, q \in Queues : Contains(pending[q], j) =>
       /\ \A r \in Queues \ {q} : ~Contains(pending[r], j)
       /\ ~Contains(inProgress, j) /\ ~InTransit(j)
  /\ \A j \in JobIds : Contains(inProgress, j) => ~InTransit(j)

Nowhere(j) ==
  (\A q \in Queues : ~Contains(pending[q], j)) /\ ~Contains(inProgress, j) /\ ~InTransit(j)

PlacesCounted ==
  \A j \in JobIds : (\A a, b \in Places(j) : a = b) /\ (Places(j) = {} <=> Nowhere(j))

NoneReturns == \A j \in JobIds : Nowhere(j) => Nowhere(j)'

USE DEF JobIds, SomeJob, NoJob, Queues, Sources, Processes, storeVars, redisVars, mgrVars,
        reaperVars, workerVars

-----------------------------------------------------------------------------
(* What a command does to the elements of a list *)

LEMMA ContainsIsDomain ==
  ASSUME NEW S, NEW s \in Seq(S)
  PROVE  /\ Len(s) \in Nat /\ DOMAIN s = 1..Len(s)
         /\ IsInjective(s) <=> \A m, n \in 1..Len(s) : s[m] = s[n] => m = n
BY LenProperties DEF IsInjective

\* RPUSH of something new.
LEMMA AppendPlaces ==
  ASSUME NEW S, NEW s \in Seq(S), NEW e \in S, IsInjective(s), ~Contains(s, e)
  PROVE  /\ IsInjective(Append(s, e))
         /\ \A x : Contains(Append(s, e), x) <=> Contains(s, x) \/ x = e
<1> DEFINE t == Append(s, e)
<1>1. /\ t \in Seq(S) /\ Len(s) \in Nat /\ Len(t) = Len(s) + 1
      /\ \A i \in 1..Len(s) : t[i] = s[i]
      /\ t[Len(s) + 1] = e
  BY AppendProperties, LenProperties
<1> HIDE DEF t
<1>2. \A m, n \in 1..Len(s) : s[m] = s[n] => m = n
  BY ContainsIsDomain
<1>3. \A i \in 1..Len(t) : i \in 1..Len(s) \/ i = Len(s) + 1
  BY <1>1
<1>4. \A m, n \in 1..Len(t) : t[m] = t[n] => m = n
  BY <1>1, <1>2, <1>3 DEF Contains
<1>5. IsInjective(t)
  BY <1>1, <1>4, ContainsIsDomain
<1>6. \A i \in 1..Len(s) : i \in 1..Len(t)
  BY <1>1
<1>7. Len(s) + 1 \in 1..Len(t)
  BY <1>1
<1>8. \A x : Contains(t, x) <=> Contains(s, x) \/ x = e
  BY <1>1, <1>3, <1>6, <1>7 DEF Contains
<1> QED BY <1>5, <1>8 DEF t

\* The other half of BRPOPLPUSH: LPUSH of something new.
LEMMA ConsPlaces ==
  ASSUME NEW S, NEW s \in Seq(S), NEW e \in S, IsInjective(s), ~Contains(s, e)
  PROVE  /\ IsInjective(<<e>> \o s)
         /\ \A x : Contains(<<e>> \o s, x) <=> Contains(s, x) \/ x = e
<1> DEFINE t == <<e>> \o s
<1>1. /\ t \in Seq(S) /\ Len(s) \in Nat /\ Len(t) = Len(s) + 1
      /\ t[1] = e
      /\ \A i \in 1..Len(s) : t[i + 1] = s[i]
  <2>1. <<e>> \in Seq(S) /\ Len(<<e>>) = 1 /\ <<e>>[1] = e /\ Len(s) \in Nat
    BY LenProperties
  <2> QED BY <2>1, ConcatProperties
<1> HIDE DEF t
<1>2. \A m, n \in 1..Len(s) : s[m] = s[n] => m = n
  BY ContainsIsDomain
<1>3. \A i \in 1..Len(t) : i = 1 \/ (i - 1 \in 1..Len(s) /\ t[i] = s[i - 1])
  <2> SUFFICES ASSUME NEW i \in 1..Len(t), i # 1 PROVE i - 1 \in 1..Len(s) /\ t[i] = s[i - 1]
    OBVIOUS
  <2>1. i - 1 \in 1..Len(s) /\ (i - 1) + 1 = i
    BY <1>1
  <2> QED BY <1>1, <2>1
<1>4. \A m, n \in 1..Len(t) : t[m] = t[n] => m = n
  <2> SUFFICES ASSUME NEW m \in 1..Len(t), NEW n \in 1..Len(t), t[m] = t[n] PROVE m = n
    OBVIOUS
  <2>1. CASE m = 1 \/ n = 1
    BY <1>1, <1>3, <2>1 DEF Contains
  <2>2. CASE m # 1 /\ n # 1
    <3>1. m - 1 = n - 1
      BY <1>2, <1>3, <2>2
    <3> QED BY <1>1, <3>1
  <2> QED BY <2>1, <2>2
<1>5. IsInjective(t)
  BY <1>1, <1>4, ContainsIsDomain
<1>6. \A x : Contains(t, x) <=> Contains(s, x) \/ x = e
  <2>1. \A x : Contains(s, x) => Contains(t, x)
    <3> SUFFICES ASSUME NEW x, NEW i \in 1..Len(s), s[i] = x PROVE Contains(t, x)
      BY DEF Contains
    <3>1. i + 1 \in 1..Len(t) /\ t[i + 1] = x
      BY <1>1
    <3> QED BY <3>1 DEF Contains
  <2>2. Contains(t, e)
    BY <1>1 DEF Contains
  <2>3. ASSUME NEW x, Contains(t, x) PROVE Contains(s, x) \/ x = e
    <3>1. PICK i \in 1..Len(t) : t[i] = x
      BY <2>3 DEF Contains
    <3> QED BY <1>1, <1>3, <3>1 DEF Contains
  <2> QED BY <2>1, <2>2, <2>3
<1> QED BY <1>5, <1>6 DEF t

\* The first half: RPOP.
LEMMA FrontPlaces ==
  ASSUME NEW S, NEW s \in Seq(S), s # <<>>
  PROVE  /\ Contains(s, Last(s)) /\ Last(s) \in S /\ Front(s) \in Seq(S)
         /\ \A x : Contains(s, x) => x = Last(s) \/ Contains(Front(s), x)
         /\ \A x : Contains(Front(s), x) => Contains(s, x)
         /\ IsInjective(s) => IsInjective(Front(s)) /\ ~Contains(Front(s), Last(s))
<1> DEFINE t == Front(s)
           n == Len(s)
<1>1. n \in Nat \ {0} /\ \A i \in 1..n : s[i] \in S
  BY EmptySeq, LenProperties, ElementOfSeq
<1>2. t \in Seq(S) /\ Len(t) = n - 1 /\ \A i \in 1..(n - 1) : t[i] = s[i]
  <2>1. t = SubSeq(s, 1, n - 1)
    BY DEF Front
  <2> DEFINE k == n - 1
  <2>2. k \in Nat /\ \A i \in 1..k : s[i] \in S
    BY <1>1
  <2> HIDE DEF k, n, t
  <2>3. SubSeq(s, 1, k) \in Seq(S)
    BY <2>2, SubSeqProperties
  <2>4. /\ Len(SubSeq(s, 1, k)) = (IF 1 <= k THEN k - 1 + 1 ELSE 0)
        /\ \A i \in 1..(k - 1 + 1) : SubSeq(s, 1, k)[i] = s[1 + i - 1]
    BY <2>2, SubSeqProperties
  <2>5. Len(SubSeq(s, 1, k)) = k /\ \A i \in 1..k : SubSeq(s, 1, k)[i] = s[i]
    BY <2>2, <2>4
  <2> QED BY <2>1, <2>3, <2>5 DEF k
<1>3. Last(s) = s[n]
  BY DEF Last
<1> HIDE DEF n, t
<1>4. n = Len(s) /\ t = Front(s)
  BY DEF n, t
<1>5. /\ n \in 1..n /\ \A i \in 1..n : i = n \/ i \in 1..(n - 1)
      /\ \A i \in 1..(n - 1) : i \in 1..n /\ i # n
  BY <1>1
<1>6. /\ Contains(s, Last(s)) /\ Last(s) \in S
      /\ \A x : Contains(s, x) => x = Last(s) \/ Contains(t, x)
      /\ \A x : Contains(t, x) => Contains(s, x)
  BY <1>1, <1>2, <1>3, <1>4, <1>5 DEF Contains
<1>7. ASSUME IsInjective(s) PROVE IsInjective(t) /\ ~Contains(t, Last(s))
  <2>1. \A i, k \in 1..n : s[i] = s[k] => i = k
    BY <1>4, <1>7, ContainsIsDomain
  <2>2. \A i, k \in 1..Len(t) : t[i] = t[k] => i = k
    BY <1>2, <1>5, <2>1
  <2>3. ~Contains(t, Last(s))
    BY <1>2, <1>3, <1>5, <2>1 DEF Contains
  <2> QED BY <1>2, <2>2, <2>3, ContainsIsDomain
<1> QED BY <1>2, <1>4, <1>6, <1>7

\* LREM of one occurrence, element by element.
LEMMA RemovalShape ==
  ASSUME NEW S, NEW s \in Seq(S), NEW e, Contains(s, e)
  PROVE  \E k \in 1..Len(s) :
           /\ s[k] = e /\ Len(RemoveFirst(s, e)) = Len(s) - 1
           /\ \A n \in 1..(Len(s) - 1) :
                RemoveFirst(s, e)[n] = IF n < k THEN s[n] ELSE s[n + 1]
<1> DEFINE I == {i \in 1..Len(s) : s[i] = e}
           k == Min(I)
           r == RemoveFirst(s, e)
<1>1. k \in I
  <2>1. I \in SUBSET Nat /\ I # {}
    BY DEF Contains
  <2>2. \E y \in I : \A z \in I : y <= z
    BY <2>1, LeastExists
  <2> QED BY <2>2 DEF Min
<1>2. r = SubSeq(s, 1, k-1) \o SubSeq(s, k+1, Len(s))
  BY <1>1 DEF RemoveFirst, RemoveAt, SelectInSeq, Contains
<1>3. k \in 1..Len(s) /\ s[k] = e
  BY <1>1
<1> HIDE DEF k, r
<1>4. Len(s) \in Nat /\ \A n \in 1..Len(s) : s[n] \in S
  BY LenProperties, ElementOfSeq
<1> DEFINE a == SubSeq(s, 1, k-1)
           b == SubSeq(s, k+1, Len(s))
<1>5. /\ a \in Seq(S) /\ Len(a) = k - 1
      /\ \A n \in 1..(k-1) : a[n] = s[n]
  <2>1. \A n \in 1..(k-1) : s[n] \in S
    BY <1>3, <1>4
  <2> QED BY <2>1, <1>3, <1>4, SubSeqProperties
<1>6. /\ b \in Seq(S) /\ Len(b) = Len(s) - k
      /\ \A n \in 1..(Len(s) - k) : b[n] = s[k + n]
  <2>1. \A n \in (k+1)..Len(s) : s[n] \in S
    BY <1>3, <1>4
  <2> QED BY <2>1, <1>3, <1>4, SubSeqProperties
<1>7. r = a \o b
  BY <1>2
<1> HIDE DEF a, b
<1>8. /\ Len(r) = Len(a) + Len(b)
      /\ \A n \in 1..(Len(a) + Len(b)) : r[n] = IF n <= Len(a) THEN a[n] ELSE b[n - Len(a)]
  BY <1>5, <1>6, <1>7, ConcatProperties
<1>9. Len(r) = Len(s) - 1
  BY <1>3, <1>4, <1>5, <1>6, <1>8
<1>10. ASSUME NEW n \in 1..(Len(s) - 1) PROVE r[n] = IF n < k THEN s[n] ELSE s[n + 1]
  <2>1. n \in 1..(Len(a) + Len(b))
    BY <1>3, <1>4, <1>5, <1>6
  <2>2. CASE n < k
    <3>1. n <= Len(a) /\ n \in 1..(k - 1)
      BY <1>3, <1>4, <1>5, <2>2
    <3> QED BY <1>5, <1>8, <2>1, <2>2, <3>1
  <2>3. CASE ~(n < k)
    <3>1. ~(n <= Len(a)) /\ n - Len(a) \in 1..(Len(s) - k) /\ k + (n - Len(a)) = n + 1
      BY <1>3, <1>4, <1>5, <2>3
    <3> QED BY <1>6, <1>8, <2>1, <2>3, <3>1
  <2> QED BY <2>2, <2>3
<1> QED BY <1>3, <1>9, <1>10 DEF r

\* LREM adds nothing, takes nothing but its own element, and takes that from a list
\* that has it once.
LEMMA RemovalPlaces ==
  ASSUME NEW S, NEW s \in Seq(S), NEW e
  PROVE  /\ \A x : Contains(RemoveFirst(s, e), x) => Contains(s, x)
         /\ \A x : Contains(s, x) /\ x # e => Contains(RemoveFirst(s, e), x)
         /\ IsInjective(s) => IsInjective(RemoveFirst(s, e)) /\ ~Contains(RemoveFirst(s, e), e)
<1> DEFINE r == RemoveFirst(s, e)
<1>1. CASE ~Contains(s, e)
  BY <1>1 DEF RemoveFirst, Contains
<1>2. CASE Contains(s, e)
  <2>1. r \in Seq(S) /\ Len(s) \in Nat
    BY RemoveFirstType, LenProperties
  <2>2. PICK k \in 1..Len(s) :
          /\ s[k] = e /\ Len(r) = Len(s) - 1
          /\ \A n \in 1..(Len(s) - 1) : r[n] = IF n < k THEN s[n] ELSE s[n + 1]
    BY <1>2, RemovalShape
  <2> HIDE DEF r
  <2>3. \A n \in 1..Len(r) : /\ n < k => n \in 1..Len(s) /\ n # k /\ r[n] = s[n]
                             /\ ~(n < k) => n + 1 \in 1..Len(s) /\ n + 1 # k /\ r[n] = s[n + 1]
    BY <2>1, <2>2
  <2>4. \A x : Contains(r, x) => Contains(s, x)
    BY <2>3 DEF Contains
  <2>5. ASSUME NEW i \in 1..Len(s), i # k PROVE Contains(r, s[i])
    <3>1. CASE i < k
      <4>1. i \in 1..Len(r) /\ r[i] = s[i]
        BY <2>1, <2>2, <3>1
      <4> QED BY <4>1 DEF Contains
    <3>2. CASE ~(i < k)
      <4>1. i - 1 \in 1..(Len(s) - 1) /\ ~(i - 1 < k) /\ (i - 1) + 1 = i
        BY <2>1, <2>2, <2>5, <3>2
      <4>2. r[i - 1] = s[i]
        BY <2>2, <4>1
      <4> QED BY <2>2, <4>1, <4>2 DEF Contains
    <3> QED BY <3>1, <3>2
  <2>6. \A x : Contains(s, x) /\ x # e => Contains(r, x)
    BY <2>2, <2>5 DEF Contains
  <2>7. ASSUME IsInjective(s) PROVE IsInjective(r) /\ ~Contains(r, e)
    <3>1. \A m, n \in 1..Len(s) : s[m] = s[n] => m = n
      BY <2>7, ContainsIsDomain
    <3>2. \A n \in 1..Len(r) : r[n] # s[k]
      BY <2>3, <3>1
    <3>3. \A m, n \in 1..Len(r) : r[m] = r[n] => m = n
      <4> SUFFICES ASSUME NEW m \in 1..Len(r), NEW n \in 1..Len(r), r[m] = r[n] PROVE m = n
        OBVIOUS
      <4>1. m \in Nat /\ n \in Nat /\ k \in Nat
        BY <2>1, <2>2
      <4>2. CASE m < k /\ n < k
        BY <2>3, <3>1, <4>2
      <4>3. CASE ~(m < k) /\ ~(n < k)
        <5>1. m + 1 = n + 1
          BY <2>3, <3>1, <4>3
        <5> QED BY <4>1, <5>1
      <4>4. CASE m < k /\ ~(n < k)
        <5>1. m = n + 1
          BY <2>3, <3>1, <4>4
        <5> QED BY <4>1, <4>4, <5>1
      <4>5. CASE ~(m < k) /\ n < k
        <5>1. m + 1 = n
          BY <2>3, <3>1, <4>5
        <5> QED BY <4>1, <4>5, <5>1
      <4> QED BY <4>2, <4>3, <4>4, <4>5
    <3>4. IsInjective(r)
      BY <2>1, <3>3, ContainsIsDomain
    <3>5. ~Contains(r, e)
      BY <2>2, <3>2 DEF Contains
    <3> QED BY <3>4, <3>5
  <2> QED BY <2>4, <2>6, <2>7 DEF r
<1> QED BY <1>1, <1>2

-----------------------------------------------------------------------------
(* The invariant, step by step *)

LEMMA Lists ==
  ASSUME Inv
  PROVE  /\ pending \in [Queues -> Seq(JobIds)] /\ inProgress \in Seq(JobIds)
         /\ reaper.pc # "scan" => reaper.job \in JobIds
BY DEF Inv, TypeOK, Carried

\* A step that at most takes jobs away.
LEMMA PlacesShrink ==
  ASSUME OnePlace, UNCHANGED jobs,
         \A q \in Queues : IsInjective(pending'[q]), IsInjective(inProgress'),
         \A j \in JobIds : /\ \A q \in Queues : Contains(pending'[q], j) => Contains(pending[q], j)
                           /\ Contains(inProgress', j) => Contains(inProgress, j)
                           /\ InTransit(j)' => InTransit(j)
  PROVE  OnePlace' /\ NoneReturns
<1>1. JobIds' = JobIds
  OBVIOUS
<1> HIDE DEF JobIds, Queues
<1>2. OnePlace'
  BY <1>1 DEF OnePlace
<1>3. NoneReturns
  BY DEF NoneReturns, Nowhere
<1> QED BY <1>2, <1>3

LEMMA PlacesFrame ==
  ASSUME OnePlace, UNCHANGED <<jobs, pending, inProgress>>, reaper'.pc = "requeue" => reaper' = reaper
  PROVE  OnePlace' /\ NoneReturns
<1>1. \A j \in JobIds : InTransit(j)' => InTransit(j)
  BY DEF InTransit
<1>2. (\A q \in Queues : IsInjective(pending'[q])) /\ IsInjective(inProgress')
  BY DEF OnePlace
<1> QED BY <1>1, <1>2, PlacesShrink

\* LREM of jobs of an item that is won.
LEMMA ReleasePlaces == ASSUME Inv, OnePlace, ReleaseHedge PROVE OnePlace' /\ NoneReturns
<1> DEFINE L == Losers(ItemOf(msg.job), msg.job)
           C(q) == CHOOSE j \in L : SourceOf(j) = q
<1>1. /\ pending' = [q \in Queues |-> IF \E j \in L : SourceOf(j) = q
                                        THEN RemoveFirst(pending[q], C(q)) ELSE pending[q]]
      /\ UNCHANGED <<jobs, inProgress, reaper>>
  BY DEF ReleaseHedge
<1> HIDE DEF L, C, JobIds, Queues
<1>2. ASSUME NEW q \in Queues
      PROVE  /\ IsInjective(pending'[q])
             /\ \A j : Contains(pending'[q], j) => Contains(pending[q], j)
  <2>1. pending[q] \in Seq(JobIds) /\ IsInjective(pending[q])
    BY <1>2, Lists DEF OnePlace
  <2>2. /\ IsInjective(RemoveFirst(pending[q], C(q)))
        /\ \A j : Contains(RemoveFirst(pending[q], C(q)), j) => Contains(pending[q], j)
    BY <2>1, RemovalPlaces
  <2> QED BY <1>1, <1>2, <2>1, <2>2
<1>3. IsInjective(inProgress') /\ \A j \in JobIds : InTransit(j)' => InTransit(j)
  BY <1>1 DEF OnePlace, InTransit
<1> QED BY <1>1, <1>2, <1>3, PlacesShrink

\* RPUSH of a new job: its id is on no list yet.
LEMMA PushPlaces ==
  ASSUME Inv, OnePlace, NEW i \in Items, NEW s \in Sources, Push(i, s), UNCHANGED <<inProgress, reaper>>
  PROVE  OnePlace' /\ NoneReturns
<1>0. PICK n : n = Len(jobs) + 1
  OBVIOUS
<1>1. /\ Len(jobs) \in Nat /\ JobIds' = JobIds \union {n} /\ n \notin JobIds /\ JobIds \subseteq Nat
      /\ s \in Queues
  <2>1. Len(jobs') = Len(jobs) + 1 /\ Len(jobs) \in Nat /\ JobIds' = JobIds \union {Len(jobs')}
    BY PushGrows DEF Inv
  <2> QED BY <1>0, <2>1
<1>2. pending' = [pending EXCEPT ![s] = Append(pending[s], n)]
  BY <1>0 DEF Push
<1>3. /\ pending \in [Queues -> Seq(JobIds)] /\ inProgress \in Seq(JobIds)
      /\ reaper.pc # "scan" => reaper.job \in JobIds
  BY Lists
<1>4. n \in Nat
  BY <1>1
<1> HIDE DEF JobIds, Queues
<1>5. \A t \in Seq(JobIds) : ~Contains(t, n)
  <2> SUFFICES ASSUME NEW t \in Seq(JobIds), NEW k \in 1..Len(t), t[k] = n PROVE FALSE
    BY DEF Contains
  <2>1. t[k] \in JobIds
    BY ElementOfSeq
  <2> QED BY <1>1, <2>1
<1>6. /\ IsInjective(Append(pending[s], n))
      /\ \A x : Contains(Append(pending[s], n), x) <=> Contains(pending[s], x) \/ x = n
  <2>1. pending[s] \in Seq(Nat) /\ IsInjective(pending[s]) /\ ~Contains(pending[s], n)
    <3>1. pending[s] \in Seq(JobIds)
      BY <1>1, <1>3
    <3> QED BY <1>1, <1>5, <3>1, SeqMonotonic DEF OnePlace
  <2> QED BY <1>4, <2>1, AppendPlaces
<1>7. \A q \in Queues : /\ IsInjective(pending'[q])
                        /\ \A j \in JobIds : Contains(pending'[q], j) <=> Contains(pending[q], j)
                        /\ Contains(pending'[q], n) <=> q = s
  <2> SUFFICES ASSUME NEW q \in Queues
               PROVE  /\ IsInjective(pending'[q])
                      /\ \A j \in JobIds : Contains(pending'[q], j) <=> Contains(pending[q], j)
                      /\ Contains(pending'[q], n) <=> q = s
    OBVIOUS
  <2>1. CASE q = s
    BY <1>1, <1>2, <1>3, <1>6, <2>1
  <2>2. CASE q # s
    <3>1. pending'[q] = pending[q] /\ pending[q] \in Seq(JobIds)
      BY <1>2, <1>3, <2>2
    <3> QED BY <1>5, <2>2, <3>1 DEF OnePlace
  <2> QED BY <2>1, <2>2
<1>8. ~Contains(inProgress', n) /\ ~InTransit(n)'
  BY <1>1, <1>3, <1>5 DEF InTransit
<1>9. \A j : InTransit(j)' <=> InTransit(j)
  BY DEF InTransit
<1>10. OnePlace'
  <2>1. IsInjective(inProgress') /\ \A q \in Queues : IsInjective(pending'[q])
    BY <1>7 DEF OnePlace
  <2>2. ASSUME NEW j \in JobIds', NEW q \in Queues, Contains(pending'[q], j)
        PROVE  /\ \A r \in Queues \ {q} : ~Contains(pending'[r], j)
               /\ ~Contains(inProgress', j) /\ ~InTransit(j)'
    <3>1. CASE j = n
      BY <1>7, <1>8, <2>2, <3>1
    <3>2. CASE j \in JobIds
      BY <1>7, <1>9, <2>2, <3>2 DEF OnePlace
    <3> QED BY <1>1, <2>2, <3>1, <3>2
  <2>3. \A j \in JobIds' : Contains(inProgress', j) => ~InTransit(j)'
    BY <1>1, <1>8, <1>9 DEF OnePlace
  <2> QED BY <2>1, <2>2, <2>3 DEF OnePlace
<1>11. NoneReturns
  BY <1>7, <1>9 DEF NoneReturns, Nowhere
<1> QED BY <1>10, <1>11

LEMMA ManagerPlaces ==
  ASSUME Inv, OnePlace, Manager \/ ManagerFault
  PROVE  OnePlace' /\ NoneReturns
<1>1. CASE ReleaseHedge
  BY <1>1, ReleasePlaces
<1>2. CASE PushPrimary
  <2>1. plan.item \in Items /\ plan.source \in Sources
    BY <1>2 DEF PushPrimary, Inv, Carried
  <2> QED BY <1>2, <2>1, PushPlaces DEF PushPrimary
<1>3. ASSUME NEW i \in Items, FireHedge(i) PROVE OnePlace' /\ NoneReturns
  <2>1. hedge[i].backupSource \in Sources
    BY <1>3 DEF FireHedge, DueToFire, Hedged, Inv, HedgesOfItem
  <2> QED BY <1>3, <2>1, PushPlaces DEF FireHedge
<1>4. CASE ~(ReleaseHedge \/ PushPrimary \/ \E i \in Items : FireHedge(i))
  <2>1. UNCHANGED <<jobs, pending, inProgress, reaper>>
    BY <1>4 DEF Manager, ManagerFault, PopCompleted, ApplyWin, ApplyLate, ApplySideFailed, ApplyFailed,
                MarkFailed, RecordTrack, ForgetHedge, SaveHedge, ChooseSource, MarkGenerating, RememberHedge
  <2> QED BY <2>1, PlacesFrame
<1> QED BY <1>1, <1>2, <1>3, <1>4

\* BRPOPLPUSH takes the job from the one place it stands in to another.
LEMMA ClaimPlaces ==
  ASSUME Inv, OnePlace, NEW p \in Processes, NEW s \in Sources, Claim(p, s)
  PROVE  OnePlace' /\ NoneReturns
<1> DEFINE c == Last(pending[s])
<1>1. /\ pending[s] # <<>> /\ pending' = [pending EXCEPT ![s] = Front(pending[s])]
      /\ inProgress' = <<c>> \o inProgress /\ UNCHANGED <<jobs, reaper>>
  BY DEF Claim
<1>2. pending \in [Queues -> Seq(JobIds)] /\ inProgress \in Seq(JobIds) /\ s \in Queues
  BY Lists
<1>3. JobIds' = JobIds
  BY <1>1
<1> HIDE DEF JobIds, Queues
<1>4. /\ Contains(pending[s], c) /\ c \in JobIds
      /\ \A x : Contains(pending[s], x) => x = c \/ Contains(Front(pending[s]), x)
      /\ \A x : Contains(Front(pending[s]), x) => Contains(pending[s], x)
      /\ IsInjective(Front(pending[s])) /\ ~Contains(Front(pending[s]), c)
  BY <1>1, <1>2, FrontPlaces DEF OnePlace
<1> HIDE DEF c
<1>5. /\ \A r \in Queues \ {s} : ~Contains(pending[r], c)
      /\ ~Contains(inProgress, c) /\ ~InTransit(c)
  BY <1>2, <1>4 DEF OnePlace
<1>6. /\ IsInjective(inProgress')
      /\ \A x : Contains(inProgress', x) <=> Contains(inProgress, x) \/ x = c
  BY <1>1, <1>2, <1>4, <1>5, ConsPlaces DEF OnePlace
<1>7. /\ \A q \in Queues : IsInjective(pending'[q]) /\ ~Contains(pending'[q], c)
      /\ \A q \in Queues : \A x : Contains(pending'[q], x) => Contains(pending[q], x)
  BY <1>1, <1>2, <1>4, <1>5 DEF OnePlace
<1>8. \A j : InTransit(j)' <=> InTransit(j)
  BY <1>1 DEF InTransit
<1>9. OnePlace'
  BY <1>3, <1>5, <1>6, <1>7, <1>8 DEF OnePlace
<1>10. NoneReturns
  BY <1>2, <1>4, <1>6, <1>7, <1>8 DEF NoneReturns, Nowhere
<1> QED BY <1>9, <1>10

\* LREM by a worker that is done with a job, also with one that it lost.
LEMMA AckPlaces ==
  ASSUME Inv, OnePlace, NEW c, inProgress' = RemoveFirst(inProgress, c), UNCHANGED <<jobs, pending, reaper>>
  PROVE  OnePlace' /\ NoneReturns
<1>1. inProgress \in Seq(JobIds) /\ IsInjective(inProgress)
  BY Lists DEF OnePlace
<1> HIDE DEF JobIds, Queues
<1>2. IsInjective(inProgress') /\ \A x : Contains(inProgress', x) => Contains(inProgress, x)
  BY <1>1, RemovalPlaces
<1>3. \A j \in JobIds : InTransit(j)' => InTransit(j)
  BY DEF InTransit
<1>4. \A q \in Queues : IsInjective(pending'[q])
  BY DEF OnePlace
<1> QED BY <1>2, <1>3, <1>4, PlacesShrink

LEMMA WorkerPlaces ==
  ASSUME Inv, OnePlace, NEW p \in Processes, WorkerStep(p) \/ WorkerFault(p) \/ StatsFault(p)
  PROVE  OnePlace' /\ NoneReturns
<1>1. ASSUME NEW s \in Sources, Claim(p, s) PROVE OnePlace' /\ NoneReturns
  BY <1>1, ClaimPlaces
<1>2. CASE SkipCancelled(p) \/ \E outcome \in Outcomes : Acknowledge(p, outcome)
  BY <1>2, AckPlaces DEF SkipCancelled, Acknowledge, AckAndClear
<1>3. CASE StartGenerating(p) \/ PushCompleted(p) \/ WorkerFault(p) \/ StatsFault(p)
  BY <1>3, PlacesFrame DEF StartGenerating, PushCompleted, WorkerFault, StatsFault
<1> QED BY <1>1, <1>2, <1>3 DEF WorkerStep

\* LREM before RPUSH, and the RPUSH only if the LREM removed the entry.
LEMMA ReaperPlaces ==
  ASSUME Inv, OnePlace, Reaper \/ ReaperFault
  PROVE  OnePlace' /\ NoneReturns
<1> DEFINE c == reaper.job
<1>1. CASE ReaperFault \/ \E j \in ToSet(inProgress) : FindOrphan(j)
  <2>1. UNCHANGED <<jobs, pending, inProgress>> /\ reaper'.pc # "requeue"
    BY <1>1 DEF ReaperFault, FindOrphan, Scan
  <2> QED BY <2>1, PlacesFrame
<1>2. CASE RemoveOrphan
  <2>1. /\ UNCHANGED <<jobs, pending>> /\ reaper.pc = "remove"
        /\ inProgress' = RemoveFirst(inProgress, c)
        /\ reaper' = IF Contains(inProgress, c) THEN [reaper EXCEPT !.pc = "requeue"] ELSE Scan
    BY <1>2 DEF RemoveOrphan, Removed
  <2>2. /\ inProgress \in Seq(JobIds) /\ IsInjective(inProgress) /\ c \in JobIds /\ JobIds' = JobIds
        /\ reaper \in [pc : {"scan", "remove", "requeue"}, job : SomeJob]
    BY <2>1, Lists DEF OnePlace, Inv, TypeOK
  <2> HIDE DEF c, JobIds, Queues
  <2>3. /\ IsInjective(inProgress') /\ ~Contains(inProgress', c)
        /\ \A x : Contains(inProgress', x) => Contains(inProgress, x)
        /\ \A x : Contains(inProgress, x) /\ x # c => Contains(inProgress', x)
    BY <2>1, <2>2, RemovalPlaces
  <2>4. \A j : InTransit(j)' <=> j = c /\ Contains(inProgress, c)
    BY <2>1, <2>2 DEF InTransit, Scan, c
  <2>5. \A j : ~InTransit(j)
    BY <2>1 DEF InTransit
  <2>6. OnePlace'
    BY <2>1, <2>2, <2>3, <2>4 DEF OnePlace
  <2>7. NoneReturns
    BY <2>1, <2>3, <2>4 DEF NoneReturns, Nowhere
  <2> QED BY <2>6, <2>7
<1>3. CASE RequeueOrphan
  <2> DEFINE s == PendingListFor(c)
  <2>1. /\ UNCHANGED <<jobs, inProgress>> /\ reaper.pc = "requeue" /\ reaper' = Scan
        /\ pending' = [pending EXCEPT ![s] = Append(pending[s], c)]
    BY <1>3 DEF RequeueOrphan
  <2>2. /\ pending \in [Queues -> Seq(JobIds)] /\ c \in JobIds /\ JobIds' = JobIds
        /\ s \in Queues /\ InTransit(c)
    BY <2>1, Lists DEF PendingListFor, InTransit
  <2> HIDE DEF c, s, JobIds, Queues
  <2>3. (\A q \in Queues : ~Contains(pending[q], c)) /\ ~Contains(inProgress, c)
    BY <2>2 DEF OnePlace
  <2>4. /\ IsInjective(Append(pending[s], c))
        /\ \A x : Contains(Append(pending[s], c), x) <=> Contains(pending[s], x) \/ x = c
    BY <2>2, <2>3, AppendPlaces DEF OnePlace
  <2>5. \A q \in Queues : /\ IsInjective(pending'[q])
                          /\ \A x : Contains(pending'[q], x) <=> Contains(pending[q], x) \/ (q = s /\ x = c)
    BY <2>1, <2>2, <2>4 DEF OnePlace
  <2>6. \A j : ~InTransit(j)'
    BY <2>1 DEF InTransit, Scan
  <2>7. OnePlace'
    BY <2>1, <2>2, <2>3, <2>5, <2>6 DEF OnePlace
  <2>8. NoneReturns
    BY <2>1, <2>2, <2>5, <2>6 DEF NoneReturns, Nowhere
  <2> QED BY <2>7, <2>8
<1> QED BY <1>1, <1>2, <1>3 DEF Reaper

LEMMA PlacesStep == Inv /\ OnePlace /\ [Next]_vars => OnePlace' /\ NoneReturns
<1> SUFFICES ASSUME Inv, OnePlace, [Next]_vars PROVE OnePlace' /\ NoneReturns
  OBVIOUS
<1>1. CASE StoreUsers \/ Clock \/ UNCHANGED vars
  <2>1. UNCHANGED <<jobs, pending, inProgress, reaper>>
    BY <1>1 DEF vars, StoreUsers, Enqueue, ClaimNextReady, MarkPlayed, ReleaseToReady,
                RequeueInterrupted, Clock, HedgeFallsDue
  <2> QED BY <2>1, PlacesFrame
<1> QED BY <1>1, ManagerPlaces, WorkerPlaces, ReaperPlaces DEF Next

LEMMA PlacesInit == Init => OnePlace
<1> SUFFICES ASSUME Init PROVE OnePlace
  OBVIOUS
<1>1. Len(<<>>) = 0 /\ IsInjective(<<>>) /\ \A j : ~Contains(<<>>, j)
  BY DEF IsInjective, Contains
<1> QED BY <1>1 DEF Init, OnePlace

-----------------------------------------------------------------------------
(* The theorems *)

\* No payload is ever taken back.
LEMMA JobsStay == ASSUME Inv, [Next]_vars PROVE JobIds \subseteq JobIds'
<1>1. CASE PushPrimary \/ \E i \in Items : FireHedge(i)
  <2>1. PICK i \in Items, s \in Sources : Push(i, s)
    BY <1>1 DEF PushPrimary, FireHedge, DueToFire, Hedged, Inv, Carried, HedgesOfItem
  <2> QED BY <2>1, PushGrows DEF Inv
<1>2. CASE ~(PushPrimary \/ \E i \in Items : FireHedge(i))
  <2>1. UNCHANGED jobs
    <3>1. CASE StoreUsers \/ Clock \/ Reaper \/ ReaperFault \/ UNCHANGED vars
      BY <3>1 DEF StoreUsers, Enqueue, ClaimNextReady, MarkPlayed, ReleaseToReady, RequeueInterrupted,
                  Clock, HedgeFallsDue, Reaper, FindOrphan, RemoveOrphan, RequeueOrphan, ReaperFault, vars
    <3>2. CASE \E p \in Processes : WorkerStep(p) \/ WorkerFault(p) \/ StatsFault(p)
      BY <3>2 DEF WorkerStep, Claim, SkipCancelled, StartGenerating, Acknowledge, PushCompleted,
                  WorkerFault, StatsFault
    <3>3. CASE Manager \/ ManagerFault
      BY <1>2, <3>3 DEF Manager, ManagerFault, PopCompleted, ApplyWin, ApplyLate, ApplySideFailed,
                        ApplyFailed, MarkFailed, RecordTrack, ReleaseHedge, ForgetHedge, SaveHedge,
                        ChooseSource, MarkGenerating, RememberHedge
    <3> QED BY <3>1, <3>2, <3>3 DEF Next
  <2> QED BY <2>1
<1> QED BY <1>1, <1>2

\* Places counts what OnePlace says.
LEMMA PlacesOfJob == Inv /\ OnePlace => PlacesCounted
<1> SUFFICES ASSUME Inv, OnePlace, NEW j \in JobIds
             PROVE  /\ \A a, b \in Places(j) : a = b
                    /\ Places(j) = {} <=> Nowhere(j)
  BY DEF PlacesCounted
<1> DEFINE OnList(q, k) == k \in DOMAIN pending[q] /\ pending[q][k] = j
           AtWork(k) == k \in DOMAIN inProgress /\ inProgress[k] = j
<1>1. /\ \A q \in Queues : DOMAIN pending[q] = 1..Len(pending[q])
      /\ DOMAIN inProgress = 1..Len(inProgress)
  <2>1. pending \in [Queues -> Seq(JobIds)] /\ inProgress \in Seq(JobIds)
    BY Lists
  <2> HIDE DEF JobIds, Queues
  <2> QED BY <2>1, ContainsIsDomain
<1>2. \A a : a \in Places(j) <=>
        \/ \E q \in Queues : \E k : a = <<q, k>> /\ OnList(q, k)
        \/ \E k : a = <<"in progress", k>> /\ AtWork(k)
        \/ a = <<"requeue", j>> /\ InTransit(j)
  <2>1. reaper \in [pc : {"scan", "remove", "requeue"}, job : SomeJob]
    BY DEF Inv, TypeOK
  <2> DEFINE A == UNION {{<<q, k>> : k \in {n \in DOMAIN pending[q] : pending[q][n] = j}} : q \in Queues}
             B == {<<"in progress", k>> : k \in {n \in DOMAIN inProgress : inProgress[n] = j}}
             C == {<<r.pc, r.job>> : r \in {reaper} \intersect {[pc |-> "requeue", job |-> j]}}
  <2>2. \A a : a \in Places(j) <=> a \in A \/ a \in B \/ a \in C
    <3>1. Places(j) = A \union B \union C
      BY Zenon DEF Places
    <3> HIDE DEF A, B, C
    <3> QED BY <3>1
  <2>3. \A a : a \in A <=> \E q \in Queues : \E k : a = <<q, k>> /\ OnList(q, k)
    <3> HIDE DEF Queues
    <3> QED OBVIOUS
  <2>4. \A a : a \in B <=> \E k : a = <<"in progress", k>> /\ AtWork(k)
    OBVIOUS
  <2>5. \A a : a \in C <=> a = <<"requeue", j>> /\ InTransit(j)
    <3>1. CASE InTransit(j)
      <4>1. reaper = [pc |-> "requeue", job |-> j]
        BY <2>1, <3>1 DEF InTransit
      <4> QED BY <3>1, <4>1
    <3>2. CASE ~InTransit(j)
      <4>1. reaper # [pc |-> "requeue", job |-> j]
        BY <3>2 DEF InTransit
      <4> QED BY <3>2, <4>1
    <3> QED BY <3>1, <3>2
  <2> HIDE DEF A, B, C, OnList, AtWork
  <2> QED BY <2>2, <2>3, <2>4, <2>5
<1>3. /\ \A q \in Queues : Contains(pending[q], j) <=> \E k : OnList(q, k)
      /\ Contains(inProgress, j) <=> \E k : AtWork(k)
  BY <1>1 DEF Contains
<1>4. /\ \A q \in Queues : \A k, n : OnList(q, k) /\ OnList(q, n) => k = n
      /\ \A k, n : AtWork(k) /\ AtWork(n) => k = n
  <2>1. (\A q \in Queues : IsInjective(pending[q])) /\ IsInjective(inProgress)
    BY DEF OnePlace
  <2> QED BY <2>1 DEF IsInjective
<1> HIDE DEF OnList, AtWork, JobIds, Queues
<1>5. Places(j) = {} <=> Nowhere(j)
  BY <1>2, <1>3 DEF Nowhere
<1>6. /\ \A q, r \in Queues : (\E k : OnList(q, k)) /\ (\E k : OnList(r, k)) => q = r
      /\ \A q \in Queues : (\E k : OnList(q, k)) => ~(\E k : AtWork(k)) /\ ~InTransit(j)
      /\ (\E k : AtWork(k)) => ~InTransit(j)
  BY <1>3 DEF OnePlace
<1>7. ASSUME NEW a \in Places(j), NEW b \in Places(j) PROVE a = b
  <2>1. CASE \E q \in Queues : \E k : a = <<q, k>> /\ OnList(q, k)
    <3>1. PICK q \in Queues : \E k : a = <<q, k>> /\ OnList(q, k)
      BY <2>1
    <3>2. \E r \in Queues : \E n : b = <<r, n>> /\ OnList(r, n)
      <4>1. ~(\E n : AtWork(n)) /\ ~InTransit(j)
        BY <1>6, <3>1
      <4> QED BY <1>2, <1>7, <4>1
    <3>3. PICK r \in Queues : \E n : b = <<r, n>> /\ OnList(r, n)
      BY <3>2
    <3>4. q = r
      BY <1>6, <3>1, <3>3
    <3> QED BY <1>4, <3>1, <3>3, <3>4
  <2>2. CASE \E k : a = <<"in progress", k>> /\ AtWork(k)
    <3>1. \E k : b = <<"in progress", k>> /\ AtWork(k)
      BY <1>2, <1>6, <2>2
    <3> QED BY <1>4, <2>2, <3>1
  <2>3. CASE a = <<"requeue", j>> /\ InTransit(j)
    BY <1>2, <1>6, <2>3
  <2> QED BY <1>2, <2>1, <2>2, <2>3
<1> QED BY <1>5, <1>7

\* A job stands in one place at most: once on one list, or with the reaper (OnePlace),
\* with any faults of the manager, the workers and the reaper.
THEOREM OnePlaceAtMost == Spec => []OnePlace
<1>1. Inv /\ OnePlace /\ [Next]_vars => OnePlace'
  BY PlacesStep
<1>2. Spec => []Inv
  BY Invariance, PTL
<1> QED BY <1>1, <1>2, PlacesInit, PTL DEF Spec

\* No step queues a job a second time or brings back one that was acknowledged, whatever
\* the order of ack, requeue, release and crash (JobNeverQueuedTwice).
THEOREM NeverQueuedTwice == Spec => JobNeverQueuedTwice
<1>1. ASSUME PlacesCounted, PlacesCounted', NoneReturns, JobIds \subseteq JobIds'
      PROVE  \A j \in JobIds : Cardinality(Places(j)') <= Cardinality(Places(j))
  <2> SUFFICES ASSUME NEW j \in JobIds PROVE Cardinality(Places(j)') <= Cardinality(Places(j))
    OBVIOUS
  <2>1. /\ \A a, b \in Places(j) : a = b
        /\ \A a, b \in Places(j)' : a = b
        /\ Places(j) = {} <=> Nowhere(j)
        /\ Places(j)' = {} <=> Nowhere(j)'
    <3> HIDE DEF JobIds
    <3> QED BY <1>1 DEF PlacesCounted
  <2>2. Places(j) = {} => Places(j)' = {}
    BY <1>1, <2>1 DEF NoneReturns
  <2>3. ASSUME NEW S, \A a, b \in S : a = b
        PROVE  Cardinality(S) = IF S = {} THEN 0 ELSE 1
    <3>1. CASE S = {}
      BY <3>1, FS_EmptySet
    <3>2. CASE S # {}
      <4>1. PICK x \in S : S = {x}
        BY <2>3, <3>2
      <4> QED BY <4>1, FS_Singleton
    <3> QED BY <3>1, <3>2
  <2>4. /\ Cardinality(Places(j)) = (IF Places(j) = {} THEN 0 ELSE 1)
        /\ Cardinality(Places(j)') = (IF Places(j)' = {} THEN 0 ELSE 1)
    BY <2>1, <2>3
  <2> QED BY <2>2, <2>4
<1>2. Inv /\ OnePlace /\ [Next]_vars => OnePlace' /\ NoneReturns /\ JobIds \subseteq JobIds'
  BY PlacesStep, JobsStay
<1>3. PlacesCounted /\ PlacesCounted' /\ NoneReturns /\ JobIds \subseteq JobIds'
        => [\A j \in JobIds : Cardinality(Places(j)') <= Cardinality(Places(j))]_vars
  BY <1>1
<1>4. Inv /\ OnePlace => PlacesCounted
  BY PlacesOfJob
<1>5. Spec => []Inv
  BY Invariance, PTL
<1> QED BY <1>2, <1>3, <1>4, <1>5, PlacesInit, PTL DEF Spec, JobNeverQueuedTwice

=============================================================================
