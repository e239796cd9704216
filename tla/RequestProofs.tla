--------------------------- MODULE RequestProofs ---------------------------
(* What holds of requests on their way: of the limiter that admits them to *)
(* the server, for every limit and any set of clients, and of the relay    *)
(* that translates them for a model, for every conversation and every      *)
(* stream.                                                                 *)
EXTENDS RateLimit, Relay, FiniteSetTheorems, SequenceTheorems, TLAPS

-----------------------------------------------------------------------------
(* The limiter. *)

(* The store a request leaves behind is the swept store with the key of    *)
(* the request, or the swept store alone when there is no room.            *)
LEMMA SweptKeys ==
    ASSUME TypeOK, NEW k \in Keys
    PROVE  /\ Swept(k) \subseteq DOMAIN store
           /\ \A j \in DOMAIN store : Live(j) => j \in Swept(k)
           /\ k \in DOMAIN store => Swept(k) = DOMAIN store
BY DEF Swept, evictExpired

(* A counted store is again a store of windows. *)
LEMMA CountedType ==
    ASSUME TypeOK, NEW k \in Keys
    PROVE  /\ DOMAIN Counted(k) \subseteq Keys
           /\ Counted(k) \in [DOMAIN Counted(k) -> Entry]
<1>1. Swept(k) \subseteq DOMAIN store /\ DOMAIN store \subseteq Keys
  BY SweptKeys DEF TypeOK
<1>2. time \in Nat /\ Window \in Nat
  BY LimitsAssumption DEF TypeOK
<1>3. windowOf(k) \in [count : Nat, resetAt : Nat]
  <2>1. CASE Live(k)
    BY <2>1 DEF windowOf, Live, TypeOK, Entry
  <2>2. CASE ~Live(k)
    BY <2>2, <1>2 DEF windowOf
  <2> QED
    BY <2>1, <2>2
<1>4. [windowOf(k) EXCEPT !.count = @ + 1] \in Entry
  BY <1>3 DEF Entry
<1>5. \A j \in Swept(k) : store[j] \in Entry
  BY <1>1 DEF TypeOK
<1> QED
  BY <1>1, <1>4, <1>5 DEF Counted

(* The bookkeeping of the log keeps its type. *)
LEMMA LogType ==
    ASSUME TypeOK, NEW raised, Log(raised)
    PROVE  /\ perEvent' \in [Events -> [nextAt : Nat, suppressed : Nat]]
           /\ occurred' \in [Events -> Nat] /\ reported' \in [Events -> Nat]
<1>1. time \in Nat /\ LogInterval \in Nat
  BY LimitsAssumption DEF TypeOK
<1>2. \A e \in Events : claim(e) \in [nextAt : Nat, suppressed : Nat]
  <2> SUFFICES ASSUME NEW e \in Events
               PROVE  claim(e) \in [nextAt : Nat, suppressed : Nat]
    OBVIOUS
  <2>1. perEvent[e] \in [nextAt : Nat, suppressed : Nat]
    BY DEF TypeOK
  <2>2. [perEvent[e] EXCEPT !.suppressed = @ + 1] \in [nextAt : Nat, suppressed : Nat]
    BY <2>1
  <2> QED
    BY <1>1, <2>2 DEF claim
<1>3. perEvent' \in [Events -> [nextAt : Nat, suppressed : Nat]]
  BY <1>2 DEF Log, TypeOK
<1>4. occurred' \in [Events -> Nat]
  BY DEF Log, TypeOK
<1>5. \A e \in Events : reported[e] \in Nat /\ perEvent[e].suppressed \in Nat
  BY DEF TypeOK
<1>6. reported' \in [Events -> Nat]
  BY <1>5 DEF Log
<1> QED
  BY <1>3, <1>4, <1>6

(* Every variable of the limiter keeps its type. *)
THEOREM TypeCorrect == Spec => []TypeOK
<1>1. Init => TypeOK
  BY BoundsAssumption DEF Init, TypeOK, Entry
<1>2. ASSUME TypeOK, [Next]_vars PROVE TypeOK'
  <2>1. ASSUME NEW k \in Keys, Serve(k) PROVE TypeOK'
    <3>1. served' \in [Keys -> Seq(0..MaxTime)]
      <4>1. served[k] \in Seq(0..MaxTime) /\ time \in 0..MaxTime
        BY <1>2 DEF TypeOK
      <4>2. Append(served[k], time) \in Seq(0..MaxTime)
        BY <4>1
      <4> QED
        BY <1>2, <2>1, <4>2 DEF TypeOK, Serve
    <3>2. store' = Counted(k) /\ time' = time /\ Log(Raised(k, {}))
      BY <2>1 DEF Serve
    <3> QED
      BY <1>2, <3>1, <3>2, CountedType, LogType DEF TypeOK
  <2>2. ASSUME NEW k \in Keys, RejectQuota(k) PROVE TypeOK'
    BY <1>2, <2>2, CountedType, LogType DEF RejectQuota, TypeOK
  <2>3. ASSUME NEW k \in Keys, RejectCapacity(k) PROVE TypeOK'
    <3>1. DOMAIN store' \subseteq Keys /\ store' \in [DOMAIN store' -> Entry]
      BY <1>2, <2>3, SweptKeys DEF RejectCapacity, TypeOK
    <3> QED
      BY <1>2, <2>3, <3>1, LogType DEF RejectCapacity, TypeOK
  <2>4. CASE Pass
    <3>1. time' \in 0..MaxTime
      BY <1>2, <2>4, BoundsAssumption DEF Pass, TypeOK
    <3> QED
      BY <1>2, <2>4, <3>1 DEF Pass, TypeOK
  <2>5. CASE UNCHANGED vars
    BY <1>2, <2>5 DEF vars, TypeOK
  <2> QED
    BY <1>2, <2>1, <2>2, <2>3, <2>4, <2>5 DEF Next
<1> QED
  BY <1>1, <1>2, PTL DEF Spec

(* A request that has room leaves at most MaxEntries windows. *)
LEMMA CountedFits ==
    ASSUME TypeOK, Bounded, NEW k \in Keys, ~NoRoom(k)
    PROVE  IsFiniteSet(DOMAIN Counted(k)) /\ Cardinality(DOMAIN Counted(k)) <= MaxEntries
<1>1. DOMAIN Counted(k) = Swept(k) \cup {k}
  BY DEF Counted
<1>2. IsFiniteSet(Swept(k)) /\ Cardinality(Swept(k)) <= Cardinality(DOMAIN store)
  BY SweptKeys, FS_Subset DEF Bounded
<1>3. Cardinality(Swept(k)) \in Nat /\ Cardinality(DOMAIN store) \in Nat /\ MaxEntries \in Nat
  BY <1>2, FS_CardinalityType, LimitsAssumption DEF Bounded
<1>4. CASE k \in DOMAIN store
  <2>1. Swept(k) \cup {k} = DOMAIN store
    BY <1>4, SweptKeys
  <2> QED
    BY <1>1, <2>1 DEF Bounded
<1>5. CASE k \notin DOMAIN store
  <2>1. ~Full(Swept(k))
    BY <1>5 DEF NoRoom, Swept
  <2>2. Cardinality(Swept(k)) < MaxEntries
    BY <2>1, <1>3 DEF Full
  <2>3. k \notin Swept(k)
    BY <1>5, SweptKeys
  <2>4. /\ IsFiniteSet(Swept(k) \cup {k})
        /\ Cardinality(Swept(k) \cup {k}) = Cardinality(Swept(k)) + 1
    BY <1>2, <2>3, FS_AddElement
  <2> QED
    BY <1>1, <1>3, <2>2, <2>4
<1> QED
  BY <1>4, <1>5

(* The memory the limiter takes is bounded: the store never holds more     *)
(* than MaxEntries windows, whatever clients there are.                    *)
THEOREM StoreIsBounded == Spec => []Bounded
<1>1. Init => Bounded
  BY FS_EmptySet, LimitsAssumption DEF Init, Bounded
<1>2. ASSUME TypeOK, Bounded, [Next]_vars PROVE Bounded'
  <2>1. ASSUME NEW k \in Keys, Serve(k) PROVE Bounded'
    BY <1>2, <2>1, CountedFits DEF Serve, Bounded
  <2>2. ASSUME NEW k \in Keys, RejectQuota(k) PROVE Bounded'
    BY <1>2, <2>2, CountedFits DEF RejectQuota, Bounded
  <2>3. ASSUME NEW k \in Keys, RejectCapacity(k) PROVE Bounded'
    <3>1. DOMAIN store' = Swept(k)
      BY <2>3 DEF RejectCapacity
    <3>2. IsFiniteSet(Swept(k)) /\ Cardinality(Swept(k)) <= Cardinality(DOMAIN store)
      BY <1>2, SweptKeys, FS_Subset DEF Bounded
    <3>3. Cardinality(Swept(k)) \in Nat /\ Cardinality(DOMAIN store) \in Nat /\ MaxEntries \in Nat
      BY <1>2, <3>2, FS_CardinalityType, LimitsAssumption DEF Bounded
    <3> QED
      BY <1>2, <3>1, <3>2, <3>3 DEF Bounded
  <2>4. CASE Pass \/ UNCHANGED vars
    BY <1>2, <2>4 DEF Pass, vars, Bounded
  <2> QED
    BY <1>2, <2>1, <2>2, <2>3, <2>4 DEF Next
<1> QED
  BY <1>1, <1>2, TypeCorrect, PTL DEF Spec

(* A counted store keeps every live window, its end and what it counted. *)
LEMMA CountedKeeps ==
    ASSUME TypeOK, NEW k \in Keys, NEW j \in DOMAIN store, store[j].resetAt > time
    PROVE  /\ j \in DOMAIN Counted(k)
           /\ Counted(k)[j].resetAt = store[j].resetAt
           /\ Counted(k)[j].count >= store[j].count
<1>1. Live(j) /\ j \in Swept(k)
  BY SweptKeys DEF Live
<1>2. store[j] \in Entry
  BY DEF TypeOK
<1>3. CASE j = k
  <2>1. windowOf(k) = store[k]
    BY <1>1, <1>3 DEF windowOf
  <2>2. Counted(k)[k] = [store[k] EXCEPT !.count = @ + 1]
    BY <2>1 DEF Counted
  <2> QED
    BY <1>1, <1>2, <1>3, <2>2 DEF Counted, Entry
<1>4. CASE j # k
  BY <1>1, <1>2, <1>4 DEF Counted, Entry
<1> QED
  BY <1>3, <1>4

(* No request of anyone ends, prolongs or resets a live window: neither    *)
(* the sweep of a full store nor a client's own retries.                   *)
THEOREM LiveWindowsAreKept == Spec => WindowKept
<1>1. ASSUME TypeOK, [Next]_vars
      PROVE  \A k \in DOMAIN store : store[k].resetAt > time' =>
               /\ k \in DOMAIN store'
               /\ store'[k].resetAt = store[k].resetAt
               /\ store'[k].count >= store[k].count
  <2> SUFFICES ASSUME NEW j \in DOMAIN store, store[j].resetAt > time'
               PROVE  /\ j \in DOMAIN store'
                      /\ store'[j].resetAt = store[j].resetAt
                      /\ store'[j].count >= store[j].count
    OBVIOUS
  <2>1. store[j] \in Entry
    BY <1>1 DEF TypeOK
  <2>2. ASSUME NEW k \in Keys, Serve(k) \/ RejectQuota(k)
        PROVE  /\ j \in DOMAIN store'
               /\ store'[j].resetAt = store[j].resetAt
               /\ store'[j].count >= store[j].count
    <3>1. store' = Counted(k) /\ time' = time
      BY <2>2 DEF Serve, RejectQuota
    <3> QED
      BY <1>1, <3>1, CountedKeeps
  <2>3. ASSUME NEW k \in Keys, RejectCapacity(k)
        PROVE  /\ j \in DOMAIN store'
               /\ store'[j].resetAt = store[j].resetAt
               /\ store'[j].count >= store[j].count
    <3>1. time' = time /\ store' = [i \in Swept(k) |-> store[i]]
      BY <2>3 DEF RejectCapacity
    <3>2. j \in Swept(k)
      BY <1>1, <3>1, SweptKeys DEF Live
    <3> QED
      BY <2>1, <3>1, <3>2 DEF Entry
  <2>4. CASE Pass \/ UNCHANGED vars
    BY <2>1, <2>4 DEF Pass, vars, Entry
  <2> QED
    BY <1>1, <2>2, <2>3, <2>4 DEF Next
<1> QED
  BY <1>1, TypeCorrect, PTL DEF Spec, WindowKept

(* One logged request keeps the account of every event. *)
LEMMA LogKeepsAccount ==
    ASSUME TypeOK, LogAccounts, NEW raised, Log(raised)
    PROVE  LogAccounts'
<1> SUFFICES ASSUME NEW e \in Events
             PROVE  reported'[e] + perEvent'[e].suppressed = occurred'[e]
  BY DEF LogAccounts
<1>1. /\ reported[e] \in Nat /\ occurred[e] \in Nat
      /\ perEvent[e] \in [nextAt : Nat, suppressed : Nat]
      /\ reported[e] + perEvent[e].suppressed = occurred[e]
  BY DEF TypeOK, LogAccounts
<1>2. CASE e \in raised /\ Granted(e)
  BY <1>1, <1>2 DEF Log, claim
<1>3. CASE e \in raised /\ ~Granted(e)
  BY <1>1, <1>3 DEF Log, claim
<1>4. CASE e \notin raised
  BY <1>1, <1>4 DEF Log
<1> QED
  BY <1>2, <1>3, <1>4

(* No occurrence of a logged event is lost: the written lines and the      *)
(* count held back account for all of them.                                *)
THEOREM LogIsTruthful == Spec => []LogAccounts
<1>1. Init => LogAccounts
  BY DEF Init, LogAccounts
<1>2. ASSUME TypeOK, LogAccounts, [Next]_vars PROVE LogAccounts'
  <2>1. ASSUME NEW k \in Keys, Serve(k) \/ RejectQuota(k) \/ RejectCapacity(k)
        PROVE  LogAccounts'
    <3>1. PICK raised : Log(raised)
      BY <2>1 DEF Serve, RejectQuota, RejectCapacity
    <3> QED
      BY <1>2, <3>1, LogKeepsAccount
  <2>2. CASE Pass \/ UNCHANGED vars
    BY <1>2, <2>2 DEF Pass, vars, LogAccounts
  <2> QED
    BY <1>2, <2>1, <2>2 DEF Next
<1> QED
  BY <1>1, <1>2, TypeCorrect, PTL DEF Spec

-----------------------------------------------------------------------------
(* The quota.  Among the requests a client got through, in order, the last *)
(* quota began a window ago unless its window is live; those of the live   *)
(* window begin with the one that opened it, and the quota before that one *)
(* began a window before it.  So the request that starts 2 * MaxRequests   *)
(* requests is always a window behind the one that ends them.              *)

(* A sequence of times is one of integers.                                 *)
LEMMA SeqFacts ==
    ASSUME NEW m \in Nat, NEW q \in Seq(0..m)
    PROVE  /\ q \in Seq(Int) /\ Len(q) \in Nat /\ DOMAIN q = 1..Len(q)
           /\ \A i \in 1..Len(q) : q[i] \in Int
<1>1. Len(q) \in Nat /\ DOMAIN q = 1..Len(q) /\ \A i \in 1..Len(q) : q[i] \in 0..m
  OBVIOUS
<1>2. \A i \in 1..Len(q) : q[i] \in Int
  BY <1>1
<1> QED
  BY <1>1, <1>2

(* So are the times at which requests of a key were passed on.             *)
LEMMA ServedFacts ==
    ASSUME TypeOK, NEW k \in Keys
    PROVE  /\ served[k] \in Seq(Int) /\ Len(served[k]) \in Nat
           /\ DOMAIN served[k] = 1..Len(served[k])
           /\ \A i \in 1..Len(served[k]) : served[k][i] \in Int
           /\ time \in Nat /\ Window \in Nat \ {0} /\ MaxRequests \in Nat \ {0}
<1>1. served[k] \in Seq(0..MaxTime) /\ time \in 0..MaxTime
  BY DEF TypeOK
<1>2. MaxTime \in Nat
  BY BoundsAssumption
<1>3. /\ served[k] \in Seq(Int) /\ Len(served[k]) \in Nat
      /\ DOMAIN served[k] = 1..Len(served[k])
      /\ \A i \in 1..Len(served[k]) : served[k][i] \in Int
  BY <1>1, <1>2, SeqFacts
<1>6. Window \in Nat \ {0} /\ MaxRequests \in Nat \ {0}
  BY LimitsAssumption
<1> QED
  BY <1>1, <1>2, <1>3, <1>6

(* What a request that a window lets through adds: a full window has       *)
(* nothing to add.                                                         *)
LEMMA ServeKeepsQuota ==
    ASSUME TypeOK, QuotaInv, QuotaHolds, NEW k \in Keys, Serve(k)
    PROVE  /\ InOrder(k)' /\ Live(k)' /\ WindowFits(k)'
           /\ \A i, j \in DOMAIN served'[k] :
                 j - i = 2 * MaxRequests - 1 => served'[k][j] - served'[k][i] >= Window
<1>0. PICK q, n, w, start :
        q = served[k] /\ n = Len(q) /\ w = windowOf(k) /\ start = w.resetAt - Window
  OBVIOUS
<1>1. /\ q \in Seq(Int) /\ n \in Nat /\ DOMAIN q = 1..n
      /\ \A i \in 1..n : q[i] \in Int
      /\ time \in Nat /\ Window \in Nat \ {0} /\ MaxRequests \in Nat \ {0}
  BY <1>0, ServedFacts
<1>2. /\ served'[k] = Append(q, time) /\ time' = time
  BY <1>0 DEF Serve, TypeOK
<1>3. /\ DOMAIN served'[k] = 1..(n + 1) /\ Len(served'[k]) = n + 1
      /\ \A i \in 1..n : served'[k][i] = q[i]
      /\ served'[k][n + 1] = time
  BY <1>0, <1>1, <1>2
<1>4. /\ \A i, j \in 1..n : i <= j => q[i] <= q[j]
      /\ \A i \in 1..n : q[i] <= time
  BY <1>0, <1>1 DEF QuotaInv, InOrder
<1>5. InOrder(k)'
  BY <1>1, <1>2, <1>3, <1>4 DEF InOrder
<1>6. /\ w.count \in Nat /\ w.count + 1 <= MaxRequests
      /\ w.resetAt \in Nat /\ w.resetAt > time /\ start <= time /\ start \in Int
      /\ w.count <= n
      /\ served'[k][n - w.count + 1] = start
      /\ \A i \in 1..n : i = n - w.count + 1 - MaxRequests => q[i] <= start - Window
  <2>1. CASE Live(k)
    <3>1. w = store[k] /\ store[k] \in Entry /\ store[k].resetAt > time
      BY <1>0, <2>1 DEF windowOf, Live, TypeOK
    <3>2. w.count \in Nat /\ w.resetAt \in Nat
      BY <3>1 DEF Entry
    <3>3. ~ (w.count + 1 > MaxRequests)
      BY <1>0 DEF Serve, OverQuota
    <3>4. w.count + 1 <= MaxRequests /\ w.count >= 1
      BY <1>1, <3>1, <3>2, <3>3 DEF Entry
    <3>5. Passed(store[k]) = w.count
      BY <1>1, <3>1, <3>2, <3>4 DEF Passed
    <3>6. /\ n - w.count >= 0 /\ q[n - w.count + 1] = start
          /\ LastQuotaBy(k, n - w.count, start)
      BY <1>0, <2>1, <3>1, <3>5 DEF QuotaInv, WindowFits
    <3>7. n - w.count + 1 \in 1..n
      BY <1>1, <3>2, <3>4, <3>6
    <3>8. q[n - w.count + 1] <= time
      BY <1>4, <3>7
    <3>9. \A i \in 1..n : i = n - w.count + 1 - MaxRequests => q[i] <= start - Window
      BY <1>0, <1>1, <3>6 DEF LastQuotaBy
    <3>10. start <= time
      BY <3>6, <3>8
    <3>13. start \in Int /\ w.resetAt > time
      BY <1>0, <1>1, <3>1, <3>2
    <3>11. served'[k][n - w.count + 1] = start
      BY <1>3, <3>6, <3>7
    <3>12. w.count <= n
      BY <1>1, <3>2, <3>6
    <3> QED
      BY <3>2, <3>4, <3>9, <3>10, <3>11, <3>12, <3>13
  <2>2. CASE ~Live(k)
    <3>1. w = [count |-> 0, resetAt |-> time + Window]
      BY <1>0, <2>2 DEF windowOf
    <3>2. w.count = 0 /\ w.resetAt = time + Window
      BY <3>1
    <3>3. LastQuotaBy(k, n, time)
      BY <1>0, <2>2 DEF QuotaInv
    <3>4. \A i \in 1..n : i = n + 1 - MaxRequests => q[i] <= time - Window
      BY <1>0, <1>1, <3>3 DEF LastQuotaBy
    <3> QED
      BY <1>0, <1>1, <1>3, <3>2, <3>4
  <2> QED
    BY <2>1, <2>2
<1>7. /\ k \in DOMAIN store' /\ store'[k].count = w.count + 1
      /\ store'[k].resetAt = w.resetAt
  <2>1. store'[k] = [w EXCEPT !.count = @ + 1] /\ k \in DOMAIN store'
    BY <1>0 DEF Serve, Counted
  <2>2. w \in [count : Nat, resetAt : Nat]
    <3>1. CASE Live(k)
      BY <1>0, <3>1 DEF windowOf, Live, TypeOK, Entry
    <3>2. CASE ~Live(k)
      BY <1>0, <1>1, <3>2 DEF windowOf
    <3> QED
      BY <3>1, <3>2
  <2> QED
    BY <2>1, <2>2
<1>8. Live(k)'
  BY <1>2, <1>6, <1>7 DEF Live
<1>9. Passed(store'[k]) = w.count + 1
  <2> QED
    BY <1>1, <1>6, <1>7 DEF Passed
<1>10. WindowFits(k)'
  <2>1. LastQuotaBy(k, n - w.count, start)'
    <3> SUFFICES ASSUME NEW i \in 1..(n + 1), i = n - w.count + 1 - MaxRequests
                 PROVE  served'[k][i] <= start - Window
      BY <1>3 DEF LastQuotaBy
    <3>1. i \in 1..n
      BY <1>1, <1>6
    <3> QED
      BY <1>3, <1>6, <3>1
  <2>2. Len(served'[k]) - Passed(store'[k]) = n - w.count
    BY <1>1, <1>3, <1>6, <1>9
  <2>3. /\ n - w.count >= 0 /\ served'[k][n - w.count + 1] = start
        /\ start = store'[k].resetAt - Window
    BY <1>0, <1>1, <1>6, <1>7
  <2> QED
    BY <2>1, <2>2, <2>3 DEF WindowFits
<1>11. ASSUME NEW i \in 1..(n + 1), NEW j \in 1..(n + 1), j - i = 2 * MaxRequests - 1
       PROVE  served'[k][j] - served'[k][i] >= Window
  <2>0. MaxRequests \in Int /\ MaxRequests >= 1 /\ n \in Int /\ w.count \in Int
    BY <1>1, <1>6
  <2>1. i < j
    BY <1>11, <2>0
  <2>2. CASE j <= n
    <3>1. i \in 1..n /\ j \in 1..n
      BY <1>1, <2>1, <2>2
    <3>2. q[j] - q[i] >= Window
      BY <1>0, <1>1, <1>11, <3>1 DEF QuotaHolds
    <3> QED
      BY <1>3, <3>1, <3>2
  <2>3. CASE j = n + 1
    <3>1. PICK e \in Int : e = n - w.count + 1 - MaxRequests
      BY <2>0
    <3>2. i = n + 2 - 2 * MaxRequests
      BY <1>11, <2>0, <2>3
    <3>3. i <= e
      BY <1>6, <2>0, <3>1, <3>2
    <3>4. e <= n /\ i \in 1..n /\ e \in 1..n
      <4>1. w.count >= 0 /\ i \in Int /\ i >= 1
        BY <1>1, <1>6
      <4>2. e <= n
        BY <2>0, <3>1, <4>1
      <4> QED
        BY <2>0, <3>1, <3>3, <4>1, <4>2
    <3>5. q[i] <= q[e] /\ q[e] <= start - Window
      BY <1>4, <1>6, <3>1, <3>3, <3>4
    <3>6. q[i] \in Int /\ q[e] \in Int
      BY <1>1, <3>4
    <3>7. served'[k][j] = time /\ served'[k][i] = q[i]
      BY <1>3, <2>3, <3>4
    <3> QED
      <4>1. start <= time /\ start \in Int /\ time \in Int /\ Window \in Int
        BY <1>1, <1>6
      <4>2. q[i] <= start - Window
        BY <3>5, <3>6, <4>1
      <4>3. time - q[i] >= Window
        BY <3>6, <4>1, <4>2
      <4> QED
        BY <3>7, <4>3
  <2> QED
    BY <1>1, <2>2, <2>3
<1> QED
  BY <1>3, <1>5, <1>8, <1>10, <1>11

(* The part of the invariant about one key, *)
KeyInv(k) ==
    /\ InOrder(k)
    /\ IF Live(k) THEN WindowFits(k) ELSE LastQuotaBy(k, Len(served[k]), time)

(* and what keeps it at an instant: the key has passed nothing on and its  *)
(* window, if live, lets through what it let through.                      *)
LEMMA UnservedKeepsKey ==
    ASSUME QuotaInv, NEW j \in Keys, time' = time, served'[j] = served[j],
           Live(j)' = Live(j),
           Live(j) => /\ store'[j].resetAt = store[j].resetAt
                      /\ Passed(store'[j]) = Passed(store[j])
    PROVE  KeyInv(j)'
<1>1. KeyInv(j)
  BY DEF QuotaInv, KeyInv
<1>2. InOrder(j)'
  BY <1>1 DEF KeyInv, InOrder
<1>3. CASE Live(j)
  <2>1. WindowFits(j)
    BY <1>1, <1>3 DEF KeyInv
  <2>2. PICK earlier, start : /\ earlier = Len(served[j]) - Passed(store[j])
                              /\ start = store[j].resetAt - Window
    OBVIOUS
  <2>3. LastQuotaBy(j, earlier, start)
    BY <2>1, <2>2 DEF WindowFits
  <2>4. LastQuotaBy(j, earlier, start)'
    BY <2>3 DEF LastQuotaBy
  <2>5. WindowFits(j)'
    BY <1>3, <2>1, <2>2, <2>4 DEF WindowFits
  <2> QED
    BY <1>2, <1>3, <2>5 DEF KeyInv
<1>4. CASE ~Live(j)
  <2>1. LastQuotaBy(j, Len(served[j]), time)
    BY <1>1, <1>4 DEF KeyInv
  <2>2. LastQuotaBy(j, Len(served[j]), time)'
    BY <2>1 DEF LastQuotaBy
  <2> QED
    BY <1>2, <1>4, <2>2 DEF KeyInv
<1> QED
  BY <1>3, <1>4

(* A sweep, or a request of another client, is such an instant. *)
LEMMA OthersKept ==
    ASSUME TypeOK, QuotaInv, NEW k \in Keys, NEW j \in Keys, time' = time,
           served'[j] = served[j],
           \/ store' = Counted(k) /\ j # k
           \/ store' = [i \in Swept(k) |-> store[i]]
    PROVE  KeyInv(j)'
<1>1. /\ Swept(k) \subseteq DOMAIN store
      /\ Live(j) => j \in Swept(k)
  BY SweptKeys DEF Live
<1>2. /\ j \in DOMAIN store' <=> j \in Swept(k)
      /\ j \in Swept(k) => store'[j] = store[j]
  BY DEF Counted
<1>3. Live(j)' = Live(j)
  BY <1>1, <1>2 DEF Live
<1>4. Live(j) => store'[j] = store[j]
  BY <1>1, <1>2
<1> QED
  BY <1>3, <1>4, UnservedKeepsKey

(* A request over the quota counts in a window that is full. *)
LEMMA OverQuotaKeeps ==
    ASSUME TypeOK, QuotaInv, NEW k \in Keys, RejectQuota(k)
    PROVE  KeyInv(k)'
<1>1. time' = time /\ served' = served /\ store' = Counted(k) /\ OverQuota(k)
  BY DEF RejectQuota
<1>2. Window \in Nat /\ MaxRequests \in Nat \ {0} /\ time \in Nat
  BY ServedFacts
<1>3. Live(k)
  <2> SUFFICES ASSUME ~Live(k) PROVE FALSE
    OBVIOUS
  <2>1. windowOf(k).count = 0
    BY DEF windowOf
  <2> QED
    BY <1>1, <1>2, <2>1 DEF OverQuota
<1>4. store[k] \in Entry /\ windowOf(k) = store[k] /\ store[k].resetAt > time
  BY <1>3 DEF Live, TypeOK, windowOf
<1>5. store'[k] = [store[k] EXCEPT !.count = @ + 1] /\ k \in DOMAIN store'
  BY <1>1, <1>4 DEF Counted
<1>6. store'[k].resetAt = store[k].resetAt /\ store'[k].count = store[k].count + 1
  BY <1>4, <1>5 DEF Entry
<1>7. Live(k)'
  BY <1>1, <1>4, <1>5, <1>6 DEF Live
<1>8. store[k].count + 1 > MaxRequests /\ store[k].count \in Nat
  BY <1>1, <1>4 DEF OverQuota, Entry
<1>9. Passed(store'[k]) = Passed(store[k])
  BY <1>2, <1>6, <1>8 DEF Passed
<1> QED
  BY <1>1, <1>3, <1>6, <1>7, <1>9, UnservedKeepsKey

(* When a window ends the quota it let through began a window ago. *)
LEMMA PassKeeps ==
    ASSUME TypeOK, QuotaInv, Pass, NEW k \in Keys
    PROVE  KeyInv(k)'
<1>0. PICK q, n : q = served[k] /\ n = Len(q)
  OBVIOUS
<1>1. /\ n \in Nat /\ DOMAIN q = 1..n /\ \A i \in 1..n : q[i] \in Int
      /\ time \in Nat /\ Window \in Nat \ {0} /\ MaxRequests \in Nat \ {0}
  BY <1>0, ServedFacts
<1>2. time' = time + 1 /\ store' = store /\ served'[k] = q
  BY <1>0 DEF Pass
<1>3. /\ \A i, j \in 1..n : i <= j => q[i] <= q[j]
      /\ \A i \in 1..n : q[i] <= time
  BY <1>0, <1>1 DEF QuotaInv, InOrder
<1>4. InOrder(k)'
  BY <1>1, <1>2, <1>3 DEF InOrder
<1>5. CASE Live(k)'
  <2>1. store[k] \in Entry /\ store[k].resetAt > time + 1 /\ k \in DOMAIN store
    BY <1>2, <1>5 DEF Live, TypeOK
  <2>2. Live(k)
    BY <1>1, <2>1 DEF Live, Entry
  <2>3. WindowFits(k)
    BY <2>2 DEF QuotaInv
  <2>4. WindowFits(k)'
    BY <1>0, <1>2, <2>3 DEF WindowFits, LastQuotaBy, Passed
  <2> QED
    BY <1>4, <1>5, <2>4 DEF KeyInv
<1>6. CASE ~Live(k)'
  <2> SUFFICES ASSUME NEW i \in 1..n, i = n + 1 - MaxRequests
               PROVE  q[i] <= time + 1 - Window
    <3>1. (\A i \in 1..n : i = n + 1 - MaxRequests => q[i] <= time + 1 - Window)
            => LastQuotaBy(k, Len(served[k]), time)'
      BY <1>0, <1>1, <1>2 DEF LastQuotaBy
    <3> QED
      BY <1>4, <1>6, <3>1 DEF KeyInv
  <2>1. q[i] \in Int
    BY <1>1
  <2>2. CASE Live(k)
    <3>1. store[k] \in Entry /\ store[k].resetAt > time /\ ~ (store[k].resetAt > time + 1)
      BY <1>2, <1>6, <2>2 DEF Live, TypeOK
    <3>2. store[k].count \in Nat \ {0} /\ store[k].resetAt \in Nat
      BY <3>1 DEF Entry
    <3>3. store[k].resetAt = time + 1
      BY <1>1, <3>1, <3>2
    <3>4. PICK c \in Nat \ {0} : c = Passed(store[k]) /\ c <= MaxRequests
      BY <1>1, <3>2 DEF Passed
    <3>5. WindowFits(k)
      BY <2>2 DEF QuotaInv
    <3>6. n - c >= 0 /\ q[n - c + 1] = time + 1 - Window
      BY <1>0, <1>1, <3>3, <3>4, <3>5 DEF WindowFits
    <3>7. n - c + 1 \in 1..n /\ i <= n - c + 1
      BY <1>1, <3>4, <3>6
    <3> QED
      BY <1>3, <3>6, <3>7
  <2>3. CASE ~Live(k)
    <3>1. LastQuotaBy(k, n, time)
      BY <1>0, <2>3 DEF QuotaInv
    <3>2. q[i] <= time - Window
      BY <1>0, <1>1, <3>1 DEF LastQuotaBy
    <3> QED
      BY <1>1, <2>1, <3>2
  <2> QED
    BY <2>2, <2>3
<1> QED
  BY <1>5, <1>6

(* No client gets more than two quotas less one through in a stretch of    *)
(* time as long as a window, whatever it and others send and whatever the  *)
(* sweep drops.                                                            *)
THEOREM QuotaIsKept == Spec => []QuotaHolds
<1>1. Init => QuotaInv /\ QuotaHolds
  <2> SUFFICES ASSUME Init PROVE QuotaInv /\ QuotaHolds
    OBVIOUS
  <2>1. \A k \in Keys : served[k] = <<>> /\ ~Live(k)
    BY DEF Init, Live
  <2>2. \A k \in Keys : DOMAIN served[k] = {}
    BY <2>1
  <2>3. \A k \in Keys : InOrder(k) /\ ~Live(k) /\ LastQuotaBy(k, Len(served[k]), time)
    BY <2>1, <2>2 DEF InOrder, LastQuotaBy
  <2>4. QuotaHolds
    BY <2>2 DEF QuotaHolds
  <2> QED
    BY <2>3, <2>4 DEF QuotaInv
<1>2. ASSUME TypeOK, QuotaInv, QuotaHolds, [Next]_vars
      PROVE  QuotaInv' /\ QuotaHolds'
  <2>1. ASSUME NEW k \in Keys, Serve(k)
        PROVE  QuotaInv' /\ QuotaHolds'
    <3>1. time' = time /\ store' = Counted(k) /\ \A j \in Keys \ {k} : served'[j] = served[j]
      BY <1>2, <2>1 DEF Serve, TypeOK
    <3>2. /\ InOrder(k)' /\ Live(k)' /\ WindowFits(k)'
          /\ \A i, j \in DOMAIN served'[k] :
                j - i = 2 * MaxRequests - 1 => served'[k][j] - served'[k][i] >= Window
      BY <1>2, <2>1, ServeKeepsQuota
    <3>3. KeyInv(k)'
      BY <3>2 DEF KeyInv
    <3>4. \A j \in Keys \ {k} : KeyInv(j)'
      BY <1>2, <3>1, OthersKept
    <3>5. QuotaInv'
      <4>1. \A j \in Keys : KeyInv(j)'
        BY <3>3, <3>4
      <4> QED
        BY <4>1, Zenon DEF QuotaInv, KeyInv
    <3>6. QuotaHolds'
      BY <1>2, <3>1, <3>2 DEF QuotaHolds
    <3> QED
      BY <3>5, <3>6
  <2>2. ASSUME NEW k \in Keys, RejectQuota(k) \/ RejectCapacity(k)
        PROVE  QuotaInv' /\ QuotaHolds'
    <3>1. time' = time /\ served' = served
      BY <2>2 DEF RejectQuota, RejectCapacity
    <3>2. ASSUME NEW j \in Keys PROVE KeyInv(j)'
      <4>1. CASE RejectQuota(k) /\ j = k
        BY <1>2, <4>1, OverQuotaKeeps
      <4>2. CASE ~ (RejectQuota(k) /\ j = k)
        BY <1>2, <2>2, <3>1, <4>2, OthersKept DEF RejectQuota, RejectCapacity
      <4> QED
        BY <4>1, <4>2
    <3> QED
      BY <1>2, <3>1, <3>2 DEF QuotaInv, KeyInv, QuotaHolds
  <2>3. CASE Pass
    <3>1. served' = served
      BY <2>3 DEF Pass
    <3>2. \A k \in Keys : KeyInv(k)'
      BY <1>2, <2>3, PassKeeps
    <3> QED
      BY <1>2, <3>1, <3>2 DEF QuotaInv, KeyInv, QuotaHolds
  <2>4. CASE UNCHANGED vars
    BY <1>2, <2>4 DEF vars, QuotaInv, QuotaHolds, InOrder, Live, WindowFits, Passed, LastQuotaBy
  <2> QED
    BY <1>2, <2>1, <2>2, <2>3, <2>4 DEF Next
<1> QED
  BY <1>1, <1>2, TypeCorrect, PTL DEF Spec

-----------------------------------------------------------------------------
(* The relay: the conversion of a conversation. *)

(* A finite set is listed without repetition and without a gap. *)
LEMMA Listed ==
    ASSUME NEW S, IsFiniteSet(S)
    PROVE  LET order == SetToSeq(S)
           IN /\ order \in [1..Cardinality(S) -> S] /\ order \in Seq(S)
              /\ Cardinality(S) \in Nat
              /\ \A c \in S : \E i \in DOMAIN order : order[i] = c
              /\ \A i, j \in DOMAIN order : order[i] = order[j] => i = j
<1> DEFINE n == Cardinality(S)
           order == SetToSeq(S)
<1>1. n \in Nat /\ ExistsBijection(1..n, S)
  BY FS_CardinalityType
<1>2. \E f \in [1..n -> S] : IsInjective(f)
  BY <1>1 DEF ExistsBijection, Bijection, Injection
<1>3. order \in [1..n -> S] /\ IsInjective(order)
  BY <1>2 DEF SetToSeq
<1>4. order \in Injection(1..n, S)
  BY <1>3 DEF Injection
<1>5. Cardinality(1..n) = n
  <2>1. 1 \in Int /\ n \in Int
    BY <1>1
  <2>2. Cardinality(1..n) = IF 1 > n THEN 0 ELSE n - 1 + 1
    BY <2>1, FS_Interval
  <2> QED
    BY <1>1, <2>2
<1>6. order \in Surjection(1..n, S)
  BY <1>4, <1>5, FS_Injection
<1>7. \A c \in S : \E i \in DOMAIN order : order[i] = c
  BY <1>3, <1>6 DEF Surjection
<1>8. order \in Seq(S)
  BY <1>1, <1>3
<1> QED
  BY <1>1, <1>3, <1>7, <1>8 DEF IsInjective

(* The results of some calls are messages of a tool, one for each call.    *)
LEMMA Results ==
    ASSUME NEW calls \in SUBSET Calls
    PROVE  /\ results(calls) \in Seq(Messages)
           /\ \A i \in 1..Len(results(calls)) :
                 results(calls)[i].role = "tool" /\ results(calls)[i].calls \subseteq calls
           /\ \A c \in calls : \E i \in 1..Len(results(calls)) : c \in results(calls)[i].calls
           /\ calls = {} => Len(results(calls)) = 0
<1> DEFINE order == SetToSeq(calls)
<1>1. IsFiniteSet(calls)
  BY CallsAssumption, FS_Subset
<1>2. /\ order \in [1..Cardinality(calls) -> calls] /\ Cardinality(calls) \in Nat
      /\ \A c \in calls : \E i \in DOMAIN order : order[i] = c
  BY <1>1, Listed
<1> DEFINE n == Cardinality(calls)
<1> HIDE DEF order
<1>3. results(calls) = [i \in 1..n |-> Message("tool", TRUE, {order[i]})]
  BY <1>2 DEF results, order
<1>4. \A i \in 1..n : /\ Message("tool", TRUE, {order[i]}) \in Messages
                      /\ Message("tool", TRUE, {order[i]}).role = "tool"
                      /\ Message("tool", TRUE, {order[i]}).calls = {order[i]}
                      /\ order[i] \in calls
  BY <1>2 DEF Message, Messages
<1>5. results(calls) \in [1..n -> Messages]
  BY <1>3, <1>4
<1>6. results(calls) \in Seq(Messages) /\ Len(results(calls)) = n
  BY <1>2, <1>5
<1>7. \A i \in 1..n : results(calls)[i] = Message("tool", TRUE, {order[i]})
  BY <1>3
<1>8. \A c \in calls : \E i \in 1..n : order[i] = c
  BY <1>2
<1>12. calls = {} => n = 0
  BY <1>1, FS_EmptySet
<1> HIDE DEF n
<1>9. \A i \in 1..n : results(calls)[i].role = "tool" /\ results(calls)[i].calls = {order[i]}
  BY <1>4, <1>7
<1>10. \A i \in 1..n : results(calls)[i].calls \subseteq calls
  BY <1>4, <1>9
<1>11. \A c \in calls : \E i \in 1..n : c \in results(calls)[i].calls
  BY <1>8, <1>9
<1> QED
  BY <1>6, <1>9, <1>10, <1>11, <1>12

(* The text of a user is one message of the user, or none.                 *)
LEMMA Spoken ==
    ASSUME NEW text \in BOOLEAN
    PROVE  /\ spoken(text) \in Seq(Messages)
           /\ Len(spoken(text)) = IF text THEN 1 ELSE 0
           /\ \A i \in 1..Len(spoken(text)) : spoken(text)[i].role = "user"
<1> DEFINE m == Message("user", TRUE, {})
<1>1. m \in Messages /\ m.role = "user"
  BY DEF Message, Messages
<1>2. spoken(text) = IF text THEN <<m>> ELSE <<>>
  BY DEF spoken
<1> HIDE DEF m
<1>3. <<m>> \in Seq(Messages) /\ Len(<<m>>) = 1 /\ <<m>>[1] = m
  BY <1>1
<1>4. CASE text
  <2>1. spoken(text) = <<m>>
    BY <1>2, <1>4
  <2>2. \A i \in 1..Len(<<m>>) : i = 1
    BY <1>3
  <2> QED
    BY <1>1, <1>3, <1>4, <2>1, <2>2
<1>5. CASE ~text
  BY <1>2, <1>5
<1> QED
  BY <1>4, <1>5

(* A result stays where it is when the messages are extended. *)
LEMMA Extended ==
    ASSUME NEW b \in Seq(Messages), NEW d \in Seq(Messages)
    PROVE  /\ b \o d \in Seq(Messages) /\ Len(b \o d) = Len(b) + Len(d)
           /\ DOMAIN b = 1..Len(b) /\ DOMAIN d = 1..Len(d) /\ DOMAIN (b \o d) = 1..(Len(b) + Len(d))
           /\ Len(b) \in Nat /\ Len(d) \in Nat
           /\ \A i \in 1..Len(b) : (b \o d)[i] = b[i]
           /\ \A i \in 1..Len(d) : (b \o d)[Len(b) + i] = d[i]
<1>1. Len(b) \in Nat /\ Len(d) \in Nat
  BY LenProperties
<1> QED
  BY <1>1, ConcatProperties, LenProperties

(* What is added behind leaves results where they are.                     *)
LEMMA OldResults ==
    ASSUME NEW b \in Seq(Messages), NEW d \in Seq(Messages)
    PROVE  /\ \A k \in 1..Len(b) : \A i \in 1..Len(b) :
                 resultOf(b, i, k) => resultOf(b \o d, i, k)
           /\ \A k \in 1..Len(b) : answered(b, k) => answered(b \o d, k)
<1>1. /\ DOMAIN b = 1..Len(b) /\ DOMAIN (b \o d) = 1..(Len(b) + Len(d))
      /\ Len(b) \in Nat /\ Len(d) \in Nat
      /\ \A i \in 1..Len(b) : (b \o d)[i] = b[i]
  BY Extended
<1>2. ASSUME NEW k \in 1..Len(b), NEW i \in 1..Len(b), resultOf(b, i, k)
      PROVE  resultOf(b \o d, i, k)
  <2>1. \A j \in (k + 1)..i : j \in 1..Len(b)
    BY <1>1
  <2> QED
    BY <1>1, <1>2, <2>1 DEF resultOf
<1>3. ASSUME NEW k \in 1..Len(b), answered(b, k) PROVE answered(b \o d, k)
  <2>1. ASSUME NEW c \in (b \o d)[k].calls
        PROVE  \E i \in DOMAIN (b \o d) : resultOf(b \o d, i, k) /\ c \in (b \o d)[i].calls
    <3>1. PICK i \in DOMAIN b : resultOf(b, i, k) /\ c \in b[i].calls
      BY <1>1, <1>3, <2>1 DEF answered
    <3>2. i \in 1..Len(b) /\ i \in DOMAIN (b \o d) /\ (b \o d)[i] = b[i]
      BY <1>1
    <3> QED
      BY <1>2, <3>1, <3>2
  <2> QED
    BY <2>1 DEF answered
<1> QED
  BY <1>2, <1>3

(* What is put behind results in place is in place too if it holds no      *)
(* result, or only results of the message that stood last.                 *)
LEMMA StillInPlace ==
    ASSUME NEW b \in Seq(Messages), NEW d \in Seq(Messages), resultsInPlace(b),
           NEW n \in 0..Len(d),
           \A i \in 1..n : d[i].role = "tool",
           \A i \in (n + 1)..Len(d) : d[i].role # "tool",
           n # 0 => /\ b # <<>> /\ b[Len(b)].role = "assistant"
                    /\ \A i \in 1..n : d[i].calls \subseteq b[Len(b)].calls
    PROVE  /\ resultsInPlace(b \o d)
           /\ \A i \in 1..n : resultOf(b \o d, Len(b) + i, Len(b))
<1> DEFINE e == b \o d
<1>1. /\ DOMAIN b = 1..Len(b) /\ DOMAIN e = 1..(Len(b) + Len(d))
      /\ Len(b) \in Nat /\ Len(d) \in Nat
      /\ \A i \in 1..Len(b) : e[i] = b[i]
      /\ \A i \in 1..Len(d) : e[Len(b) + i] = d[i]
  BY Extended
<1>2. \A k \in 1..Len(b) : \A i \in 1..Len(b) : resultOf(b, i, k) => resultOf(e, i, k)
  BY OldResults
<1> HIDE DEF e
<1>3. ASSUME NEW i \in 1..n PROVE resultOf(e, Len(b) + i, Len(b))
  <2>1. ASSUME NEW j \in (Len(b) + 1)..(Len(b) + i) PROVE e[j].role = "tool"
    <3>1. j - Len(b) \in 1..n /\ j - Len(b) \in 1..Len(d) /\ j = Len(b) + (j - Len(b))
      BY <1>1
    <3> QED
      BY <1>1, <3>1
  <2> QED
    BY <1>1, <2>1 DEF resultOf
<1>4. ASSUME NEW i \in DOMAIN e, e[i].role = "tool"
      PROVE  \E k \in DOMAIN e : /\ resultOf(e, i, k) /\ e[k].role = "assistant"
                                 /\ e[i].calls \subseteq e[k].calls
  <2>1. CASE i \in 1..Len(b)
    <3>1. PICK k \in DOMAIN b : /\ resultOf(b, i, k) /\ b[k].role = "assistant"
                                /\ b[i].calls \subseteq b[k].calls
      BY <1>1, <1>4, <2>1 DEF resultsInPlace
    <3> QED
      BY <1>1, <1>2, <2>1, <3>1
  <2>2. CASE i \notin 1..Len(b)
    <3> DEFINE x == i - Len(b)
    <3>1. x \in 1..Len(d) /\ i = Len(b) + x /\ e[i] = d[x]
      BY <1>1, <2>2
    <3>2. x \in 1..n
      BY <1>1, <1>4, <3>1
    <3>3. b # <<>> /\ Len(b) \in 1..Len(b)
      BY <1>1, <3>2, EmptySeq
    <3>4. Len(b) \in DOMAIN e /\ e[Len(b)] = b[Len(b)]
      BY <1>1, <3>3
    <3>5. resultOf(e, i, Len(b))
      BY <1>3, <3>1, <3>2
    <3>6. b[Len(b)].role = "assistant" /\ d[x].calls \subseteq b[Len(b)].calls
      BY <3>2
    <3> QED
      BY <3>1, <3>4, <3>5, <3>6
  <2> QED
    BY <2>1, <2>2
<1>5. resultsInPlace(e)
  BY <1>4 DEF resultsInPlace
<1> QED
  BY <1>3, <1>5 DEF e

(* Whose turn was the last, one message further on.                        *)
LEMMA Turns ==
    ASSUME NEW messages \in Seq(Messages), NEW i \in 1..Len(messages)
    PROVE  /\ messages[i].role # "system" => \A k \in 1..i : turnBefore(messages, i + 1, k) <=> k = i
           /\ messages[i].role = "system" =>
                 \A k \in 1..i : turnBefore(messages, i + 1, k) <=> k < i /\ turnBefore(messages, i, k)
<1>1. Len(messages) \in Nat
  BY LenProperties
<1>2. ASSUME messages[i].role # "system", NEW k \in 1..i
      PROVE  turnBefore(messages, i + 1, k) <=> k = i
  <2>1. CASE k = i
    BY <1>1, <1>2, <2>1 DEF turnBefore
  <2>2. CASE k < i
    <3>1. i \in (k + 1)..(i + 1 - 1)
      BY <1>1, <2>2
    <3> QED
      BY <1>2, <2>2, <3>1 DEF turnBefore
  <2> QED
    BY <1>1, <2>1, <2>2
<1>3. ASSUME messages[i].role = "system", NEW k \in 1..i
      PROVE  turnBefore(messages, i + 1, k) <=> k < i /\ turnBefore(messages, i, k)
  <2>1. CASE k = i
    BY <1>1, <1>3, <2>1 DEF turnBefore
  <2>2. CASE k < i
    <3>1. \A j \in (k + 1)..(i + 1 - 1) : j = i \/ j \in (k + 1)..(i - 1)
      BY <1>1
    <3>2. \A j \in (k + 1)..(i - 1) : j \in (k + 1)..(i + 1 - 1)
      BY <1>1
    <3> QED
      BY <1>1, <1>3, <2>2, <3>1, <3>2 DEF turnBefore
  <2> QED
    BY <1>1, <2>1, <2>2
<1> QED
  BY <1>2, <1>3

(* The next message of the conversation, by what it is. *)
LEMMA NextMessage ==
    ASSUME RelayTypeOK, RequestInv, position < Len(conversation)
    PROVE  LET m == conversation[position + 1]
           IN /\ position + 1 \in 1..Len(conversation) /\ position \in Nat
              /\ m \in Messages /\ mayStand(m, conversation, position + 1)
              /\ m.role \in {"system", "user", "assistant"}
<1>1. /\ Len(conversation) \in Nat /\ DOMAIN conversation = 1..Len(conversation)
      /\ position \in 0..Len(conversation)
      /\ \A i \in 1..Len(conversation) : conversation[i] \in Messages
  BY LenProperties DEF RelayTypeOK
<1>2. position + 1 \in 1..Len(conversation) /\ position \in Nat
  BY <1>1
<1>3. mayStand(conversation[position + 1], conversation, position + 1)
  BY <1>1, <1>2 DEF RequestInv
<1> QED
  BY <1>1, <1>2, <1>3 DEF mayStand

(* A system message adds nothing. *)
LEMMA ConvertSystem ==
    ASSUME RelayTypeOK, RequestInv, phase = "converting", to_openai,
           conversation[position + 1].role = "system"
    PROVE  body' \in Seq(Messages) /\ ConvertedInv'
<1> DEFINE m == conversation[position + 1]
<1>1. /\ position + 1 \in 1..Len(conversation) /\ position \in Nat
      /\ conversation \in Seq(Messages) /\ body \in Seq(Messages)
  BY NextMessage DEF to_openai, RelayTypeOK
<1>2. body' = body /\ position' = position + 1 /\ conversation' = conversation
  <2>1. converted(m) = <<>>
    BY DEF converted
  <2> QED
    BY <1>1, <2>1, ConcatEmptySeq DEF to_openai
<1>3. ConvertedInv
  BY DEF RequestInv
<1>4. \A k \in 1..(position + 1) : turnBefore(conversation, position + 2, k) =>
          k \in 1..position /\ turnBefore(conversation, position + 1, k)
  <2>1. \A k \in 1..(position + 1) :
          turnBefore(conversation, position + 1 + 1, k) <=>
             k < position + 1 /\ turnBefore(conversation, position + 1, k)
    BY <1>1, Turns
  <2> QED
    BY <1>1, <2>1
<1>5. \A k \in 1..position : k \in 1..(position + 1)
  BY <1>1
<1> QED
  BY <1>1, <1>2, <1>3, <1>4, <1>5 DEF ConvertedInv

(* A message of the assistant comes after one of the user, so no call is   *)
(* left without its result.                                                *)
LEMMA ConvertAssistant ==
    ASSUME RelayTypeOK, RequestInv, phase = "converting", to_openai,
           conversation[position + 1].role = "assistant"
    PROVE  body' \in Seq(Messages) /\ ConvertedInv'
<1> DEFINE m == conversation[position + 1]
<1>1. /\ position + 1 \in 1..Len(conversation) /\ position \in Nat
      /\ conversation \in Seq(Messages) /\ body \in Seq(Messages)
      /\ m \in Messages /\ mayStand(m, conversation, position + 1)
  BY NextMessage DEF to_openai, RelayTypeOK
<1>2. body' = body \o <<m>> /\ position' = position + 1 /\ conversation' = conversation
  BY DEF to_openai, converted
<1>3. ConvertedInv
  BY DEF RequestInv
<1>4. <<m>> \in Seq(Messages) /\ Len(<<m>>) = 1 /\ <<m>>[1] = m
  BY <1>1
<1>5. /\ body' \in Seq(Messages) /\ Len(body') = Len(body) + 1 /\ Len(body) \in Nat
      /\ DOMAIN body = 1..Len(body) /\ DOMAIN body' = 1..(Len(body) + 1)
      /\ \A i \in 1..Len(body) : body'[i] = body[i]
      /\ body'[Len(body) + 1] = m
  BY <1>1, <1>2, <1>4, Extended
<1>6. body # <<>> /\ body[Len(body)].role # "assistant"
  <2>1. PICK k \in 1..position : turnBefore(conversation, position + 1, k) /\ conversation[k].role = "user"
    BY <1>1 DEF mayStand
  <2> QED
    BY <1>3, <2>1 DEF ConvertedInv
<1>7. \A i \in DOMAIN body' : body'[i].role # "system"
  BY <1>3, <1>5 DEF ConvertedInv
<1>8. resultsInPlace(body')
  <2> DEFINE d == <<m>>
  <2>1. resultsInPlace(body)
    BY <1>3 DEF ConvertedInv
  <2>2. d \in Seq(Messages) /\ Len(d) = 1 /\ d[1].role # "tool"
    BY <1>4
  <2> HIDE DEF d
  <2>3. 0 \in 0..Len(d) /\ \A i \in (0 + 1)..Len(d) : d[i].role # "tool"
    BY <2>2
  <2>4. \A i \in 1..0 : d[i].role = "tool"
    OBVIOUS
  <2>5. resultsInPlace(body \o d)
    BY <1>1, <2>1, <2>2, <2>3, <2>4, StillInPlace
  <2> QED
    BY <1>2, <2>5 DEF d
<1>9. ASSUME NEW k \in DOMAIN body', body'[k].role = "assistant", k # Len(body')
      PROVE  answered(body', k)
  <2>1. k \in 1..Len(body) /\ body[k].role = "assistant" /\ k # Len(body)
    BY <1>5, <1>6, <1>9
  <2>2. answered(body, k)
    BY <1>3, <1>5, <2>1 DEF ConvertedInv
  <2> QED
    BY <1>1, <1>2, <1>4, <2>1, <2>2, OldResults
<1>10. ASSUME NEW k \in 1..(position + 1), turnBefore(conversation, position + 2, k)
       PROVE  k = position + 1
  <2>1. \A j \in 1..(position + 1) : turnBefore(conversation, position + 1 + 1, j) <=> j = position + 1
    BY <1>1, Turns
  <2>2. position + 1 + 1 = position + 2
    BY <1>1
  <2> QED
    BY <1>10, <2>1, <2>2
<1>11. body' # <<>> /\ body'[Len(body')] = m /\ conversation[position + 1].role # "user"
  BY <1>5, EmptySeq
<1>12. \E k \in 1..(position + 1) : conversation[k].role # "system"
  BY <1>1
<1>13. position' + 1 = position + 2
  BY <1>1, <1>2
<1>14. \A k \in 1..position' : turnBefore(conversation', position' + 1, k) =>
          /\ body' # <<>>
          /\ conversation'[k].role = "assistant" => body'[Len(body')] = conversation'[k]
          /\ conversation'[k].role = "user" => body'[Len(body')].role # "assistant"
  BY <1>2, <1>10, <1>11, <1>13
<1> QED
  BY <1>2, <1>5, <1>7, <1>8, <1>9, <1>12, <1>14 DEF ConvertedInv

(* What a message of a user becomes: the results, then its text.           *)
LEMMA ConvertedUser ==
    ASSUME NEW m \in Messages, m.role = "user", m.text \/ m.calls # {}
    PROVE  LET d == converted(m)
               n == Len(results(m.calls))
           IN /\ d \in Seq(Messages) /\ Len(d) \in Nat /\ Len(d) >= 1 /\ n \in 0..Len(d)
              /\ \A i \in 1..n : d[i].role = "tool" /\ d[i].calls \subseteq m.calls
              /\ \A i \in (n + 1)..Len(d) : d[i].role = "user"
              /\ \A c \in m.calls : \E i \in 1..n : c \in d[i].calls
              /\ m.calls = {} => n = 0
<1> DEFINE r == results(m.calls)
           t == spoken(m.text)
<1>1. m.calls \in SUBSET Calls /\ m.text \in BOOLEAN
  BY DEF Messages
<1>2. converted(m) = r \o t
  BY DEF converted
<1>3. /\ r \in Seq(Messages)
      /\ \A i \in 1..Len(r) : r[i].role = "tool" /\ r[i].calls \subseteq m.calls
      /\ \A c \in m.calls : \E i \in 1..Len(r) : c \in r[i].calls
      /\ m.calls = {} => Len(r) = 0
  BY <1>1, Results
<1>4. /\ t \in Seq(Messages) /\ Len(t) = IF m.text THEN 1 ELSE 0
      /\ \A i \in 1..Len(t) : t[i].role = "user"
  BY <1>1, Spoken
<1> HIDE DEF r, t
<1> DEFINE d == r \o t
<1>5. /\ d \in Seq(Messages) /\ Len(d) = Len(r) + Len(t) /\ Len(r) \in Nat /\ Len(t) \in Nat
      /\ \A i \in 1..Len(r) : d[i] = r[i]
      /\ \A i \in 1..Len(t) : d[Len(r) + i] = t[i]
  BY <1>3, <1>4, Extended
<1> HIDE DEF d
<1>6. Len(d) >= 1
  <2>1. CASE m.text
    BY <1>4, <1>5, <2>1
  <2>2. CASE m.calls # {}
    <3>1. PICK i \in 1..Len(r) : TRUE
      BY <1>3, <2>2
    <3> QED
      BY <1>5, <3>1
  <2> QED
    BY <2>1, <2>2
<1>7. ASSUME NEW i \in (Len(r) + 1)..Len(d) PROVE d[i].role = "user"
  <2>1. i - Len(r) \in 1..Len(t) /\ i = Len(r) + (i - Len(r))
    BY <1>5
  <2> QED
    BY <1>4, <1>5, <2>1
<1>8. \A i \in 1..Len(r) : d[i].role = "tool" /\ d[i].calls \subseteq m.calls
  BY <1>3, <1>5
<1>9. \A c \in m.calls : \E i \in 1..Len(r) : c \in d[i].calls
  BY <1>3, <1>5
<1>10. Len(r) \in 0..Len(d) /\ Len(d) \in Nat
  BY <1>5
<1> QED
  BY <1>2, <1>3, <1>5, <1>6, <1>7, <1>8, <1>9, <1>10 DEF r, d

(* A message of a user answers the calls of the message that stood last.   *)
LEMMA ConvertUser ==
    ASSUME RelayTypeOK, RequestInv, phase = "converting", to_openai,
           conversation[position + 1].role = "user"
    PROVE  body' \in Seq(Messages) /\ ConvertedInv'
<1> DEFINE m == conversation[position + 1]
           d == converted(m)
           n == Len(results(m.calls))
<1>1. /\ position + 1 \in 1..Len(conversation) /\ position \in Nat
      /\ conversation \in Seq(Messages) /\ body \in Seq(Messages)
      /\ m \in Messages /\ mayStand(m, conversation, position + 1)
  BY NextMessage DEF to_openai, RelayTypeOK
<1>2. body' = body \o d /\ position' = position + 1 /\ conversation' = conversation
  BY DEF to_openai
<1>3. ConvertedInv
  BY DEF RequestInv
<1>4. /\ d \in Seq(Messages) /\ Len(d) \in Nat /\ Len(d) >= 1 /\ n \in 0..Len(d)
      /\ \A i \in 1..n : d[i].role = "tool" /\ d[i].calls \subseteq m.calls
      /\ \A i \in (n + 1)..Len(d) : d[i].role = "user"
      /\ \A c \in m.calls : \E i \in 1..n : c \in d[i].calls
      /\ m.calls = {} => n = 0
  BY <1>1, ConvertedUser DEF mayStand
<1>5. \/ body = <<>> /\ m.calls = {}
      \/ body # <<>> /\ body[Len(body)].role = "assistant" /\ m.calls = body[Len(body)].calls
  <2>1. CASE \A k \in 1..position : conversation[k].role = "system"
    <3>1. m.calls = {}
      BY <1>1, <2>1 DEF mayStand
    <3>2. body = <<>>
      BY <1>3, <2>1 DEF ConvertedInv
    <3> QED
      BY <3>1, <3>2
  <2>2. CASE ~ \A k \in 1..position : conversation[k].role = "system"
    <3>1. PICK k \in 1..position : /\ turnBefore(conversation, position + 1, k)
                                   /\ conversation[k].role = "assistant"
                                   /\ m.calls = conversation[k].calls
      BY <1>1, <2>2 DEF mayStand
    <3>2. body # <<>> /\ body[Len(body)] = conversation[k]
      BY <1>3, <3>1 DEF ConvertedInv
    <3> QED
      BY <3>1, <3>2
  <2> QED
    BY <2>1, <2>2
<1> HIDE DEF d, n
<1>6. /\ body' \in Seq(Messages) /\ Len(body') = Len(body) + Len(d) /\ Len(body) \in Nat
      /\ DOMAIN body = 1..Len(body) /\ DOMAIN body' = 1..(Len(body) + Len(d))
      /\ \A i \in 1..Len(body) : body'[i] = body[i]
      /\ \A i \in 1..Len(d) : body'[Len(body) + i] = d[i]
  BY <1>1, <1>2, <1>4, Extended
<1>7. \A i \in 1..Len(d) : d[i].role \in {"tool", "user"}
  <2>1. \A i \in 1..Len(d) : i \in 1..n \/ i \in (n + 1)..Len(d)
    BY <1>4
  <2> QED
    BY <1>4, <2>1
<1>8. \A i \in DOMAIN body' : \/ i \in 1..Len(body)
                              \/ i - Len(body) \in 1..Len(d) /\ i = Len(body) + (i - Len(body))
  BY <1>4, <1>6
<1>9. ASSUME NEW i \in DOMAIN body' PROVE body'[i].role # "system"
  <2>1. CASE i \in 1..Len(body)
    BY <1>3, <1>6, <2>1 DEF ConvertedInv
  <2>2. CASE i - Len(body) \in 1..Len(d) /\ i = Len(body) + (i - Len(body))
    BY <1>6, <1>7, <2>2
  <2> QED
    BY <1>8, <2>1, <2>2
<1>10. resultsInPlace(body') /\ \A i \in 1..n : resultOf(body', Len(body) + i, Len(body))
  <2>1. resultsInPlace(body)
    BY <1>3 DEF ConvertedInv
  <2>2. \A i \in (n + 1)..Len(d) : d[i].role # "tool"
    BY <1>4
  <2>3. n # 0 => /\ body # <<>> /\ body[Len(body)].role = "assistant"
                 /\ \A i \in 1..n : d[i].calls \subseteq body[Len(body)].calls
    BY <1>4, <1>5
  <2> QED
    BY <1>1, <1>2, <1>4, <2>1, <2>2, <2>3, StillInPlace
<1>11. ASSUME NEW k \in DOMAIN body', body'[k].role = "assistant", k # Len(body')
       PROVE  answered(body', k)
  <2>1. k \in 1..Len(body) /\ body[k].role = "assistant"
    BY <1>6, <1>7, <1>8, <1>11
  <2>2. CASE k # Len(body)
    <3>1. answered(body, k)
      BY <1>3, <1>6, <2>1, <2>2 DEF ConvertedInv
    <3> QED
      BY <1>1, <1>2, <1>4, <2>1, <3>1, OldResults
  <2>3. CASE k = Len(body)
    <3>1. body # <<>> /\ m.calls = body'[k].calls
      BY <1>5, <1>6, <2>1, <2>3, EmptySeq
    <3>2. ASSUME NEW c \in m.calls
          PROVE  \E i \in DOMAIN body' : resultOf(body', i, k) /\ c \in body'[i].calls
      <4>1. PICK i \in 1..n : c \in d[i].calls
        BY <1>4
      <4>2. i \in 1..Len(d) /\ Len(body) + i \in DOMAIN body' /\ body'[Len(body) + i] = d[i]
        BY <1>4, <1>6
      <4> QED
        BY <1>10, <2>3, <4>1, <4>2
    <3> QED
      BY <3>1, <3>2 DEF answered
  <2> QED
    BY <2>2, <2>3
<1>12. ASSUME NEW k \in 1..(position + 1), turnBefore(conversation, position + 2, k)
       PROVE  k = position + 1
  <2>1. \A j \in 1..(position + 1) : turnBefore(conversation, position + 1 + 1, j) <=> j = position + 1
    BY <1>1, Turns
  <2>2. position + 1 + 1 = position + 2
    BY <1>1
  <2> QED
    BY <1>12, <2>1, <2>2
<1>13. /\ body' # <<>> /\ body'[Len(body')].role # "assistant"
       /\ conversation[position + 1].role # "assistant"
  <2>1. Len(body') \in DOMAIN body' /\ Len(d) \in 1..Len(d) /\ Len(body') = Len(body) + Len(d)
    BY <1>4, <1>6
  <2> QED
    BY <1>6, <1>7, <2>1, EmptySeq
<1>14. \E k \in 1..(position + 1) : conversation[k].role # "system"
  BY <1>1
<1>15. position' + 1 = position + 2
  BY <1>1, <1>2
<1>16. \A k \in 1..position' : turnBefore(conversation', position' + 1, k) =>
          /\ body' # <<>>
          /\ conversation'[k].role = "assistant" => body'[Len(body')] = conversation'[k]
          /\ conversation'[k].role = "user" => body'[Len(body')].role # "assistant"
  BY <1>2, <1>12, <1>13, <1>15
<1> QED
  BY <1>2, <1>6, <1>9, <1>10, <1>11, <1>14, <1>16 DEF ConvertedInv

(* Every round of the loop keeps its invariant.                            *)
LEMMA ConvertStep ==
    ASSUME RelayTypeOK, RequestInv, to_openai
    PROVE  body' \in Seq(Messages) /\ ConvertedInv'
<1>1. phase = "converting" /\ position < Len(conversation)
  BY DEF to_openai
<1>2. conversation[position + 1].role \in {"system", "user", "assistant"}
  BY <1>1, NextMessage
<1> QED
  BY <1>1, <1>2, ConvertSystem, ConvertAssistant, ConvertUser

(* Everything is converted, the user spoke last, and a leading message     *)
(* moves all results and their calls alike.                                *)
LEMMA UpstreamStep ==
    ASSUME RelayTypeOK, RequestInv, upstream
    PROVE  body' \in Seq(Messages) /\ ServerAccepts'
<1> DEFINE l == leading(conversation)
<1>1. /\ conversation \in Seq(Messages) /\ body \in Seq(Messages)
      /\ phase = "converting" /\ position = Len(conversation) /\ phase' = "upstream"
      /\ body' = l \o body /\ Len(conversation) \in Nat /\ DOMAIN conversation = 1..Len(conversation)
  BY LenProperties DEF upstream, RelayTypeOK
<1>2. ConvertedInv
  BY <1>1 DEF RequestInv
<1>3. /\ l \in Seq(Messages) /\ Len(l) \in {0, 1}
      /\ \A i \in 1..Len(l) : l[i].role = "system"
  <2> DEFINE m == Message("system", TRUE, {})
  <2>1. m \in Messages /\ m.role = "system"
    BY DEF Message, Messages
  <2>2. l = <<m>> \/ l = <<>>
    BY DEF leading
  <2> HIDE DEF m, l
  <2>3. <<m>> \in Seq(Messages) /\ Len(<<m>>) = 1 /\ <<m>>[1] = m
    BY <2>1
  <2>4. CASE l = <<m>>
    <3>1. \A i \in 1..Len(<<m>>) : i = 1
      BY <2>3
    <3> QED
      BY <2>1, <2>3, <2>4, <3>1
  <2>5. CASE l = <<>>
    BY <2>5
  <2> QED
    BY <2>2, <2>4, <2>5
<1> HIDE DEF l
<1>4. /\ body' \in Seq(Messages) /\ Len(l) \in Nat /\ Len(body) \in Nat
      /\ DOMAIN body = 1..Len(body) /\ DOMAIN body' = 1..(Len(l) + Len(body))
      /\ \A i \in 1..Len(l) : body'[i] = l[i]
      /\ \A i \in 1..Len(body) : body'[Len(l) + i] = body[i]
  BY <1>1, <1>3, Extended
<1> DEFINE n == Len(l)
<1> HIDE DEF n
<1>5. /\ n \in {0, 1}
      /\ \A i \in DOMAIN body' : \/ i = 1 /\ body'[i].role = "system"
                                 \/ i - n \in DOMAIN body /\ body'[i] = body[i - n]
      /\ \A i \in DOMAIN body : n + i \in DOMAIN body' /\ body'[n + i] = body[i] /\ i \in Nat
  <2>1. ASSUME NEW i \in DOMAIN body', i \notin 1..n
        PROVE  i - n \in 1..Len(body) /\ i = n + (i - n)
    BY <1>4, <2>1 DEF n
  <2>2. \A i \in 1..n : i = 1 /\ body'[i].role = "system"
    BY <1>3, <1>4 DEF n
  <2>3. ASSUME NEW i \in DOMAIN body', i \notin 1..n
        PROVE  i - n \in DOMAIN body /\ body'[i] = body[i - n]
    BY <1>4, <2>1, <2>3 DEF n
  <2>4. \A i \in DOMAIN body : n + i \in DOMAIN body' /\ body'[n + i] = body[i] /\ i \in Nat
    BY <1>4 DEF n
  <2> QED
    BY <1>3, <2>2, <2>3, <2>4 DEF n
<1>6. ASSUME NEW k \in DOMAIN body, NEW i \in DOMAIN body, resultOf(body, i, k)
      PROVE  resultOf(body', n + i, n + k)
  <2>1. ASSUME NEW j \in (n + k + 1)..(n + i) PROVE body'[j].role = "tool"
    <3>0. n \in Nat /\ k \in Nat /\ i \in Nat /\ k >= 1 /\ i <= Len(body) /\ Len(body) \in Nat
      BY <1>4, <1>5
    <3>1. j - n \in (k + 1)..i /\ j - n \in 1..Len(body) /\ j = n + (j - n)
      BY <3>0
    <3>2. body'[j] = body[j - n]
      BY <1>4, <1>5, <3>1
    <3> QED
      BY <1>6, <3>1, <3>2 DEF resultOf
  <2> QED
    BY <1>4, <1>5, <1>6, <2>1 DEF resultOf
<1>7. \A i \in DOMAIN body' : body'[i].role = "system" => i = 1
  BY <1>2, <1>5 DEF ConvertedInv
<1>8. resultsInPlace(body')
  <2>1. ASSUME NEW i \in DOMAIN body', body'[i].role = "tool"
        PROVE  \E k \in DOMAIN body' : /\ resultOf(body', i, k) /\ body'[k].role = "assistant"
                                      /\ body'[i].calls \subseteq body'[k].calls
    <3>1. i - n \in DOMAIN body /\ body'[i] = body[i - n] /\ i = n + (i - n)
      BY <1>4, <1>5, <2>1
    <3>2. PICK k \in DOMAIN body : /\ resultOf(body, i - n, k) /\ body[k].role = "assistant"
                                  /\ body[i - n].calls \subseteq body[k].calls
      BY <1>2, <2>1, <3>1 DEF ConvertedInv, resultsInPlace
    <3>3. n + k \in DOMAIN body' /\ body'[n + k] = body[k] /\ resultOf(body', n + (i - n), n + k)
      BY <1>5, <1>6, <3>1, <3>2
    <3> QED
      BY <3>1, <3>2, <3>3
  <2> QED
    BY <2>1 DEF resultsInPlace
<1>9. body # <<>> => body[Len(body)].role # "assistant"
  <2>1. PICK k \in DOMAIN conversation :
          turnBefore(conversation, Len(conversation) + 1, k) /\ conversation[k].role = "user"
    BY <1>1 DEF RequestInv
  <2>2. k \in 1..position /\ turnBefore(conversation, position + 1, k)
    BY <1>1, <2>1
  <2> QED
    BY <1>2, <2>1, <2>2 DEF ConvertedInv
<1>10. ASSUME NEW x \in DOMAIN body', body'[x].role = "assistant"
       PROVE  answered(body', x)
  <2> DEFINE k == x - n
  <2>1. k \in DOMAIN body /\ body'[x] = body[k] /\ x = n + k
    BY <1>4, <1>5, <1>10
  <2> HIDE DEF k
  <2>2. answered(body, k)
    <3>1. k # Len(body)
      BY <1>4, <1>9, <1>10, <2>1, EmptySeq
    <3> QED
      BY <1>2, <1>10, <2>1, <3>1 DEF ConvertedInv
  <2>3. ASSUME NEW c \in body'[x].calls
        PROVE  \E i \in DOMAIN body' : resultOf(body', i, x) /\ c \in body'[i].calls
    <3>1. PICK i \in DOMAIN body : resultOf(body, i, k) /\ c \in body[i].calls
      BY <2>1, <2>2, <2>3 DEF answered
    <3> QED
      BY <1>5, <1>6, <2>1, <3>1
  <2> QED
    BY <2>3 DEF answered
<1> QED
  BY <1>4, <1>7, <1>8, <1>10 DEF ServerAccepts

-----------------------------------------------------------------------------
(* The translation of a stream and the client's blocks. *)

(* The relay and the client agree on which block is open. *)
Agree(s, c) ==
    /\ ~ c.confused
    /\ Len(c.blocks) = s.index + 1
    /\ \A k \in 1..Len(c.blocks) : c.blocks[k].open <=> k = Len(c.blocks) /\ s.open_kind # None
    /\ s.open_kind # None => c.blocks # <<>>

(* The blocks of a client, as a sequence.                                  *)
LEMMA BlockFacts ==
    ASSUME NEW blocks \in Seq(Blocks)
    PROVE  /\ Len(blocks) \in Nat /\ DOMAIN blocks = 1..Len(blocks)
           /\ \A k \in 1..Len(blocks) : blocks[k] \in Blocks
           /\ blocks # <<>> => Len(blocks) \in 1..Len(blocks)
<1>1. Len(blocks) \in Nat /\ DOMAIN blocks = 1..Len(blocks) /\ blocks \in [1..Len(blocks) -> Blocks]
  BY LenProperties
<1>2. blocks # <<>> => Len(blocks) # 0
  BY <1>1, EmptySeq
<1> QED
  BY <1>1, <1>2

(* Changing a block for another keeps the sequence and all other blocks. *)
LEMMA BlockChange ==
    ASSUME NEW blocks \in Seq(Blocks), NEW k \in 1..Len(blocks), NEW b \in Blocks
    PROVE  LET new == [blocks EXCEPT ![k] = b]
           IN /\ new \in Seq(Blocks) /\ Len(new) = Len(blocks)
              /\ new[k] = b /\ \A j \in 1..Len(blocks) : j # k => new[j] = blocks[j]
<1>1. Len(blocks) \in Nat /\ blocks \in [1..Len(blocks) -> Blocks]
  BY LenProperties
<1> DEFINE new == [blocks EXCEPT ![k] = b]
<1>2. new \in [1..Len(blocks) -> Blocks]
  BY <1>1
<1>3. new \in Seq(Blocks) /\ Len(new) = Len(blocks)
  BY <1>1, <1>2
<1> QED
  BY <1>1, <1>3

(* Closing what is open changes no slot and no part, and leaves all closed. *)
LEMMA CloseBlock ==
    ASSUME NEW T, NEW s \in Streams(T), NEW c \in Clients, Agree(s, c)
    PROVE  LET r == close_block([s |-> s, c |-> c])
           IN /\ r = [s |-> r.s, c |-> r.c]
              /\ r.s \in Streams(T) /\ r.s.index = s.index /\ r.s.open_kind = None
              /\ r.s.tool_slot = s.tool_slot /\ r.s.finish = s.finish
              /\ r.c \in Clients /\ ~ r.c.confused /\ r.c.ended = c.ended /\ r.c.waiting = c.waiting
              /\ Len(r.c.blocks) = Len(c.blocks)
              /\ \A k \in 1..Len(c.blocks) : /\ r.c.blocks[k].slot = c.blocks[k].slot
                                             /\ r.c.blocks[k].parts = c.blocks[k].parts
                                             /\ ~ r.c.blocks[k].open
<1> DEFINE sc == [s |-> s, c |-> c]
           r == close_block(sc)
<1>1. /\ c.blocks \in Seq(Blocks) /\ Len(c.blocks) \in Nat
      /\ \A k \in 1..Len(c.blocks) : c.blocks[k] \in Blocks
  BY BlockFacts DEF Clients
<1>2. CASE s.open_kind = None
  <2>1. r = sc
    BY <1>2 DEF close_block
  <2> QED
    BY <1>1, <1>2, <2>1 DEF Agree
<1>3. CASE s.open_kind # None
  <2> DEFINE i == s.index
             b == [c.blocks[i + 1] EXCEPT !.open = FALSE]
             new == [c.blocks EXCEPT ![i + 1] = b]
             c1 == [c EXCEPT !.blocks = new]
             s1 == [s EXCEPT !.open_kind = None]
  <2>1. i \in 0..(Len(c.blocks) - 1) /\ i + 1 = Len(c.blocks) /\ i + 1 \in 1..Len(c.blocks)
    BY <1>1, <1>3, BlockFacts DEF Agree, Streams
  <2>2. c.blocks[i + 1].open
    BY <1>3, <2>1 DEF Agree
  <2>3. blockStop(c, i) = c1
    BY <2>1, <2>2 DEF blockStop
  <2>4. r = [s |-> s1, c |-> c1]
    BY <1>3, <2>3 DEF close_block
  <2>5. /\ b \in Blocks /\ b.slot = c.blocks[i + 1].slot /\ b.parts = c.blocks[i + 1].parts /\ ~ b.open
    BY <1>1, <2>1 DEF Blocks
  <2>6. /\ new \in Seq(Blocks) /\ Len(new) = Len(c.blocks)
        /\ new[i + 1] = b /\ \A j \in 1..Len(c.blocks) : j # i + 1 => new[j] = c.blocks[j]
    BY <1>1, <2>1, <2>5, BlockChange
  <2>7. s1 \in Streams(T) /\ s1.index = s.index /\ s1.open_kind = None /\ s1.tool_slot = s.tool_slot /\ s1.finish = s.finish
    BY DEF Streams
  <2> HIDE DEF new, b
  <2>8. c1 \in Clients /\ c1.blocks = new /\ c1.confused = c.confused /\ c1.ended = c.ended /\ c1.waiting = c.waiting
    BY <2>6 DEF Clients
  <2> HIDE DEF c1, s1, i
  <2>9. \A k \in 1..Len(c.blocks) : new[k].slot = c.blocks[k].slot /\ new[k].parts = c.blocks[k].parts /\ ~ new[k].open
    BY <1>1, <2>1, <2>5, <2>6 DEF Agree
  <2>10. r.s = s1 /\ r.c = c1
    BY <2>4
  <2>11. r = [s |-> r.s, c |-> r.c]
    BY <2>4
  <2>12. ~ c.confused
    BY DEF Agree
  <2> QED
    BY <2>6, <2>7, <2>8, <2>9, <2>10, <2>11, <2>12
<1> QED
  BY <1>2, <1>3

(* r is s and c with a new block of the given kind open. *)
Opened(r, T, s, c, kind, slot) ==
    /\ r = [s |-> r.s, c |-> r.c]
    /\ r.s \in Streams(T) /\ r.s.index = s.index + 1 /\ r.s.open_kind = kind
    /\ r.s.tool_slot = s.tool_slot /\ r.s.finish = s.finish
    /\ r.c \in Clients /\ r.c.ended = c.ended /\ r.c.waiting = c.waiting
    /\ Agree(r.s, r.c)
    /\ Len(r.c.blocks) = Len(c.blocks) + 1
    /\ \A k \in 1..Len(c.blocks) : /\ r.c.blocks[k].slot = c.blocks[k].slot
                                   /\ r.c.blocks[k].parts = c.blocks[k].parts
    /\ r.c.blocks[Len(c.blocks) + 1].slot = slot
    /\ r.c.blocks[Len(c.blocks) + 1].parts = <<>>

(* Opening a block closes the one before it and adds an empty one.         *)
LEMMA OpenBlock ==
    ASSUME NEW T, NEW s \in Streams(T), NEW c \in Clients, Agree(s, c),
           NEW kind \in {"text", "tool"}, NEW slot \in Slots \cup {None}
    PROVE  Opened(open_block([s |-> s, c |-> c], kind, slot), T, s, c, kind, slot)
<1> DEFINE q == close_block([s |-> s, c |-> c])
           b == Block(slot, <<>>, TRUE)
           new == Append(q.c.blocks, b)
           i == s.index + 1
           s1 == [q.s EXCEPT !.index = i, !.open_kind = kind]
           c1 == [q.c EXCEPT !.blocks = new, !.confused = FALSE]
           r == open_block([s |-> s, c |-> c], kind, slot)
<1>1. /\ q = [s |-> q.s, c |-> q.c]
      /\ q.s \in Streams(T) /\ q.s.index = s.index /\ q.s.open_kind = None
      /\ q.s.tool_slot = s.tool_slot /\ q.s.finish = s.finish
      /\ q.c \in Clients /\ ~ q.c.confused /\ q.c.ended = c.ended /\ q.c.waiting = c.waiting
      /\ Len(q.c.blocks) = Len(c.blocks)
      /\ \A k \in 1..Len(c.blocks) : /\ q.c.blocks[k].slot = c.blocks[k].slot
                                     /\ q.c.blocks[k].parts = c.blocks[k].parts
                                     /\ ~ q.c.blocks[k].open
  BY CloseBlock
<1>2. r = [q EXCEPT !.s.index = q.s.index + 1, !.s.open_kind = kind,
                    !.c = blockStart(q.c, q.s.index + 1, slot)]
  BY <1>1 DEF open_block
<1> HIDE DEF q
<1>3. /\ q.c.blocks \in Seq(Blocks) /\ Len(c.blocks) \in Nat /\ DOMAIN q.c.blocks = 1..Len(c.blocks)
      /\ Len(c.blocks) = s.index + 1
  BY <1>1, BlockFacts DEF Clients, Agree
<1>4. b \in Blocks /\ b.slot = slot /\ b.parts = <<>> /\ b.open
  BY DEF Block, Blocks
<1>5. /\ new \in Seq(Blocks) /\ Len(new) = Len(c.blocks) + 1
      /\ new[Len(c.blocks) + 1] = b
      /\ \A k \in 1..Len(c.blocks) : new[k] = q.c.blocks[k]
  <2> HIDE DEF b
  <2> DEFINE old == q.c.blocks
  <2>1. old \in Seq(Blocks) /\ Len(old) = Len(c.blocks) /\ b \in Blocks
    BY <1>1, <1>3, <1>4
  <2> HIDE DEF old
  <2>2. /\ Append(old, b) \in Seq(Blocks) /\ Len(Append(old, b)) = Len(old) + 1
        /\ Append(old, b)[Len(old) + 1] = b
        /\ \A k \in 1..Len(old) : Append(old, b)[k] = old[k]
    BY <2>1, AppendProperties
  <2> QED
    BY <2>1, <2>2 DEF old
<1>6. blockStart(q.c, i, slot) = c1
  <2>1. (q.c.confused \/ i # Len(q.c.blocks) \/ \E k \in DOMAIN q.c.blocks : q.c.blocks[k].open) = FALSE
    BY <1>1, <1>3
  <2>2. blockStart(q.c, i, slot) =
          [q.c EXCEPT !.blocks = new,
             !.confused = q.c.confused \/ i # Len(q.c.blocks) \/ \E k \in DOMAIN q.c.blocks : q.c.blocks[k].open]
    BY DEF blockStart
  <2> QED
    BY <2>1, <2>2
<1>7. r = [s |-> s1, c |-> c1]
  BY <1>1, <1>2, <1>6
<1>8. i \in Nat
  BY <1>3
<1>9. /\ s1 \in Streams(T) /\ s1.index = i /\ s1.open_kind = kind
      /\ s1.tool_slot = s.tool_slot /\ s1.finish = s.finish
  BY <1>1, <1>8 DEF Streams
<1> HIDE DEF new
<1>10. /\ c1 \in Clients /\ c1.blocks = new /\ c1.confused = FALSE /\ c1.ended = c.ended
       /\ c1.waiting = c.waiting
  BY <1>1, <1>5 DEF Clients
<1>11. kind # None
  BY NoneAssumption
<1> HIDE DEF s1, c1, b
<1>12. Agree(s1, c1)
  <2>1. ASSUME NEW k \in 1..Len(new) PROVE new[k].open <=> k = Len(new)
    BY <1>1, <1>3, <1>4, <1>5
  <2>2. new # <<>> /\ Len(new) = i + 1
    BY <1>3, <1>5
  <2> QED
    BY <1>9, <1>10, <1>11, <2>1, <2>2 DEF Agree
<1>13. r.s = s1 /\ r.c = c1 /\ r = [s |-> r.s, c |-> r.c]
  BY <1>7
<1>14. \A k \in 1..Len(c.blocks) : new[k].slot = c.blocks[k].slot /\ new[k].parts = c.blocks[k].parts
  BY <1>1, <1>5
<1> HIDE DEF r
<1> QED
  BY <1>4, <1>5, <1>9, <1>10, <1>12, <1>13, <1>14 DEF Opened, r

(* A part goes to the block it names and to no other. *)
LEMMA BlockDelta ==
    ASSUME NEW s, NEW c \in Clients, Agree(s, c), NEW k \in 1..Len(c.blocks), NEW part \in Nat
    PROVE  LET r == blockDelta(c, k - 1, part)
           IN /\ r \in Clients /\ r.ended = c.ended /\ r.waiting = c.waiting
              /\ Agree(s, r)
              /\ Len(r.blocks) = Len(c.blocks)
              /\ \A j \in 1..Len(c.blocks) : /\ r.blocks[j].slot = c.blocks[j].slot
                                             /\ j # k => r.blocks[j].parts = c.blocks[j].parts
              /\ r.blocks[k].parts = Append(c.blocks[k].parts, part)
<1> DEFINE b == [c.blocks[k] EXCEPT !.parts = Append(c.blocks[k].parts, part)]
           new == [c.blocks EXCEPT ![k] = b]
           c1 == [c EXCEPT !.blocks = new]
<1>1. /\ c.blocks \in Seq(Blocks) /\ Len(c.blocks) \in Nat
      /\ \A j \in 1..Len(c.blocks) : c.blocks[j] \in Blocks
  BY BlockFacts DEF Clients
<1>2. k - 1 \in 0..(Len(c.blocks) - 1) /\ k - 1 + 1 = k
  BY <1>1
<1>3. blockDelta(c, k - 1, part) = c1
  BY <1>2 DEF blockDelta
<1>4. c.blocks[k].parts \in Seq(Nat)
  BY <1>1 DEF Blocks
<1>5. Append(c.blocks[k].parts, part) \in Seq(Nat)
  BY <1>4, AppendProperties
<1>6. /\ b \in Blocks /\ b.slot = c.blocks[k].slot /\ b.open = c.blocks[k].open
      /\ b.parts = Append(c.blocks[k].parts, part)
  BY <1>1, <1>5 DEF Blocks
<1> HIDE DEF b
<1>7. /\ new \in Seq(Blocks) /\ Len(new) = Len(c.blocks)
      /\ new[k] = b /\ \A j \in 1..Len(c.blocks) : j # k => new[j] = c.blocks[j]
  BY <1>1, <1>6, BlockChange
<1> HIDE DEF new
<1>8. /\ c1 \in Clients /\ c1.blocks = new /\ c1.confused = c.confused /\ c1.ended = c.ended
      /\ c1.waiting = c.waiting
  BY <1>7 DEF Clients
<1> HIDE DEF c1
<1>9. Agree(s, c1)
  <2>1. \A j \in 1..Len(new) : new[j].open <=> c.blocks[j].open
    BY <1>6, <1>7
  <2>2. new # <<>> 
    BY <1>1, <1>7, EmptySeq
  <2> QED
    BY <1>7, <1>8, <2>1, <2>2 DEF Agree
<1> QED
  BY <1>3, <1>6, <1>7, <1>8, <1>9

(* r is s and c with a piece of text at the end of a block of text, the    *)
(* last, which may be a new one.                                           *)
TextForwarded(r, T, s, c, part) ==
    LET k == Len(r.c.blocks)
    IN /\ r.s \in Streams(T) /\ r.s.open_kind = "text"
       /\ r.s.tool_slot = s.tool_slot /\ r.s.finish = s.finish
       /\ r.c \in Clients /\ r.c.ended = c.ended /\ r.c.waiting = c.waiting
       /\ Agree(r.s, r.c)
       /\ k \in {Len(c.blocks), Len(c.blocks) + 1} /\ k # 0
       /\ \A j \in 1..Len(c.blocks) : /\ r.c.blocks[j].slot = c.blocks[j].slot
                                      /\ j # k => r.c.blocks[j].parts = c.blocks[j].parts
       /\ r.c.blocks[k].slot = None
       /\ r.c.blocks[k].parts = Append(IF k = Len(c.blocks) THEN c.blocks[k].parts ELSE <<>>, part)

(* Text goes to the open block of text, or to a new one.                   *)
LEMMA ForwardText ==
    ASSUME NEW T, NEW s \in Streams(T), NEW c \in Clients, Agree(s, c), NEW part \in Nat,
           s.open_kind = "text" => c.blocks[Len(c.blocks)].slot = None
    PROVE  TextForwarded(forwardText([s |-> s, c |-> c], part), T, s, c, part)
<1> DEFINE sc == [s |-> s, c |-> c]
           q == IF s.open_kind = "text" THEN sc ELSE open_block(sc, "text", None)
           n == Len(q.c.blocks)
           c1 == blockDelta(q.c, n - 1, part)
           r == forwardText(sc, part)
<1>1. Len(c.blocks) \in Nat /\ (c.blocks # <<>> => Len(c.blocks) \in 1..Len(c.blocks))
  BY BlockFacts DEF Clients
<1>2. /\ q = [s |-> q.s, c |-> q.c]
      /\ q.s \in Streams(T) /\ q.s.open_kind = "text"
      /\ q.s.tool_slot = s.tool_slot /\ q.s.finish = s.finish
      /\ q.c \in Clients /\ q.c.ended = c.ended /\ q.c.waiting = c.waiting
      /\ Agree(q.s, q.c)
      /\ n \in {Len(c.blocks), Len(c.blocks) + 1} /\ n # 0
      /\ \A j \in 1..Len(c.blocks) : /\ q.c.blocks[j].slot = c.blocks[j].slot
                                     /\ q.c.blocks[j].parts = c.blocks[j].parts
      /\ q.c.blocks[n].slot = None
      /\ q.c.blocks[n].parts = IF n = Len(c.blocks) THEN c.blocks[n].parts ELSE <<>>
  <2>1. CASE s.open_kind = "text"
    <3>1. q = sc /\ s.open_kind # None
      BY <2>1, NoneAssumption
    <3>2. c.blocks # <<>> /\ Len(c.blocks) # 0
      BY <1>1, <3>1 DEF Agree
    <3> QED
      BY <2>1, <3>1, <3>2
  <2>2. CASE s.open_kind # "text"
    <3> DEFINE o == open_block(sc, "text", None)
    <3>1. q = o
      BY <2>2
    <3>2. "text" \in {"text", "tool"} /\ None \in Slots \cup {None}
      OBVIOUS
    <3>3. Opened(o, T, s, c, "text", None)
      BY <3>2, OpenBlock
    <3> HIDE DEF o, q
    <3> QED
      BY <1>1, <3>1, <3>3 DEF Opened
  <2> QED
    BY <2>1, <2>2
<1>3. r = [q EXCEPT !.c = blockDelta(q.c, q.s.index, part)]
  BY DEF forwardText
<1> HIDE DEF q
<1>4. n \in 1..n /\ q.s.index = n - 1 /\ n \in Nat
  BY <1>1, <1>2 DEF Agree, Streams
<1>5. r = [s |-> q.s, c |-> c1]
  BY <1>2, <1>3, <1>4
<1>6. /\ c1 \in Clients /\ c1.ended = q.c.ended /\ c1.waiting = q.c.waiting
      /\ Agree(q.s, c1)
      /\ Len(c1.blocks) = n
      /\ \A j \in 1..n : /\ c1.blocks[j].slot = q.c.blocks[j].slot
                         /\ j # n => c1.blocks[j].parts = q.c.blocks[j].parts
      /\ c1.blocks[n].parts = Append(q.c.blocks[n].parts, part)
  BY <1>2, <1>4, BlockDelta
<1> HIDE DEF c1
<1>7. r.s = q.s /\ r.c = c1
  BY <1>5
<1> HIDE DEF r
<1>8. /\ Len(r.c.blocks) = n
      /\ \A j \in 1..Len(c.blocks) : /\ r.c.blocks[j].slot = c.blocks[j].slot
                                     /\ j # n => r.c.blocks[j].parts = c.blocks[j].parts
      /\ r.c.blocks[n].slot = None
      /\ r.c.blocks[n].parts = Append(IF n = Len(c.blocks) THEN c.blocks[n].parts ELSE <<>>, part)
  <2>1. \A j \in 1..Len(c.blocks) : j \in 1..n
    BY <1>1, <1>2
  <2> QED
    BY <1>2, <1>4, <1>6, <1>7, <2>1
<1>9. TextForwarded(r, T, s, c, part)
  BY <1>2, <1>6, <1>7, <1>8 DEF TextForwarded
<1> QED
  BY <1>9 DEF r

(* r is s and c with a piece of a call in the block of its slot, which is  *)
(* a new one if the slot is.                                               *)
CallForwarded(r, s, c, slot, arguments, part) ==
    LET k == r.s.tool_slot[slot] + 1
        new == slot \notin DOMAIN s.tool_slot
        old == IF new THEN <<>> ELSE c.blocks[k].parts
    IN /\ r.s.index \in Nat \cup {-1} /\ r.s.open_kind \in {None, "text", "tool"}
       /\ r.s \in [index : {r.s.index}, open_kind : {r.s.open_kind}, finish : {s.finish},
                   tool_slot : {r.s.tool_slot}]
       /\ r.s.tool_slot = [t \in DOMAIN s.tool_slot \cup {slot} |->
                             IF t \in DOMAIN s.tool_slot THEN s.tool_slot[t] ELSE Len(c.blocks)]
       /\ r.c \in Clients /\ r.c.ended = c.ended /\ r.c.waiting = c.waiting
       /\ Agree(r.s, r.c)
       /\ IF new THEN Len(r.c.blocks) = Len(c.blocks) + 1 /\ k = Len(c.blocks) + 1 /\ r.s.open_kind = "tool"
          ELSE Len(r.c.blocks) = Len(c.blocks) /\ k \in 1..Len(c.blocks) /\ r.s.open_kind = s.open_kind
       /\ \A j \in 1..Len(c.blocks) : /\ r.c.blocks[j].slot = c.blocks[j].slot
                                      /\ j # k => r.c.blocks[j].parts = c.blocks[j].parts
       /\ new => r.c.blocks[k].slot = slot
       /\ r.c.blocks[k].parts = IF arguments THEN Append(old, part) ELSE old

(* A piece of a call goes to the block of its slot, wherever that is.      *)
LEMMA ForwardCall ==
    ASSUME NEW T, NEW s \in Streams(T), NEW c \in Clients, Agree(s, c), NEW part \in Nat,
           NEW slot \in Slots, NEW arguments \in BOOLEAN,
           slot \in DOMAIN s.tool_slot => s.tool_slot[slot] \in 0..(Len(c.blocks) - 1)
    PROVE  CallForwarded(forwardCall([s |-> s, c |-> c], slot, arguments, part), s, c, slot, arguments, part)
<1> DEFINE sc == [s |-> s, c |-> c]
           new == slot \notin DOMAIN s.tool_slot
           q == IF slot \in DOMAIN s.tool_slot THEN sc ELSE open_block(sc, "tool", slot)
           slots == [t \in DOMAIN s.tool_slot \cup {slot} |->
                        IF t \in DOMAIN s.tool_slot THEN s.tool_slot[t] ELSE Len(c.blocks)]
           s1 == [q.s EXCEPT !.tool_slot = slots]
           k == slots[slot] + 1
           c1 == blockDelta(q.c, k - 1, part)
           r == forwardCall(sc, slot, arguments, part)
<1>1. Len(c.blocks) \in Nat /\ Len(c.blocks) = s.index + 1 /\ s.index \in Nat \cup {-1}
  BY BlockFacts DEF Clients, Agree, Streams
<1>2. /\ q = [s |-> q.s, c |-> q.c]
      /\ q.s \in Streams(T) /\ q.s.tool_slot = s.tool_slot /\ q.s.finish = s.finish
      /\ q.c \in Clients /\ q.c.ended = c.ended /\ q.c.waiting = c.waiting
      /\ Agree(q.s, q.c)
      /\ IF new THEN /\ Len(q.c.blocks) = Len(c.blocks) + 1 /\ q.s.index = Len(c.blocks)
                     /\ q.s.open_kind = "tool"
                     /\ q.c.blocks[Len(c.blocks) + 1].slot = slot
                     /\ q.c.blocks[Len(c.blocks) + 1].parts = <<>>
         ELSE Len(q.c.blocks) = Len(c.blocks) /\ q.s.open_kind = s.open_kind
      /\ \A j \in 1..Len(c.blocks) : /\ q.c.blocks[j].slot = c.blocks[j].slot
                                     /\ q.c.blocks[j].parts = c.blocks[j].parts
  <2>1. CASE slot \in DOMAIN s.tool_slot
    <3>1. q = sc
      BY <2>1
    <3> QED
      BY <2>1, <3>1
  <2>2. CASE slot \notin DOMAIN s.tool_slot
    <3> DEFINE o == open_block(sc, "tool", slot)
    <3>1. q = o
      BY <2>2
    <3>2. "tool" \in {"text", "tool"} /\ slot \in Slots \cup {None}
      OBVIOUS
    <3>3. Opened(o, T, s, c, "tool", slot)
      BY <3>2, OpenBlock
    <3> HIDE DEF o, q
    <3> QED
      BY <1>1, <2>2, <3>1, <3>3 DEF Opened
  <2> QED
    BY <2>1, <2>2
<1>3. slots = [t \in DOMAIN q.s.tool_slot \cup {slot} |->
                  IF t \in DOMAIN q.s.tool_slot THEN q.s.tool_slot[t] ELSE q.s.index]
  <2>1. CASE new
    BY <1>2, <2>1
  <2>2. CASE ~new
    BY <1>2, <2>2
  <2> QED
    BY <2>1, <2>2
<1>4. r = IF arguments THEN [[q EXCEPT !.s = s1] EXCEPT !.c = blockDelta(q.c, blockOf(s1, slot), part)]
          ELSE [q EXCEPT !.s = s1]
  <2>1. [q EXCEPT !.s.tool_slot = slots] = [q EXCEPT !.s = s1]
    BY <1>2
  <2> QED
    BY <1>2, <1>3, <2>1 DEF forwardCall
<1>5. s1.tool_slot = slots /\ s1.index = q.s.index /\ s1.open_kind = q.s.open_kind
      /\ s1 \in [index : {q.s.index}, open_kind : {q.s.open_kind}, finish : {s.finish}, tool_slot : {slots}]
      /\ q.s.index \in Nat \cup {-1} /\ q.s.open_kind \in {None, "text", "tool"}
  BY <1>2 DEF Streams
<1>6. /\ slots[slot] = IF new THEN Len(c.blocks) ELSE s.tool_slot[slot]
      /\ k \in 1..Len(q.c.blocks) /\ k - 1 = slots[slot]
      /\ new => k = Len(c.blocks) + 1
      /\ ~new => k \in 1..Len(c.blocks)
  BY <1>1, <1>2
<1>7. blockOf(s1, slot) = k - 1
  BY <1>5, <1>6 DEF blockOf
<1> HIDE DEF q, slots, s1, k
<1>8. r = [s |-> s1, c |-> IF arguments THEN c1 ELSE q.c]
  BY <1>2, <1>4, <1>7
<1>9. /\ c1 \in Clients /\ c1.ended = q.c.ended /\ c1.waiting = q.c.waiting
      /\ Agree(q.s, c1)
      /\ Len(c1.blocks) = Len(q.c.blocks)
      /\ \A j \in 1..Len(q.c.blocks) : /\ c1.blocks[j].slot = q.c.blocks[j].slot
                                       /\ j # k => c1.blocks[j].parts = q.c.blocks[j].parts
      /\ c1.blocks[k].parts = Append(q.c.blocks[k].parts, part)
  BY <1>2, <1>6, BlockDelta
<1> DEFINE cr == IF arguments THEN c1 ELSE q.c
<1> HIDE DEF c1
<1>10. /\ cr \in Clients /\ cr.ended = c.ended /\ cr.waiting = c.waiting
       /\ Agree(s1, cr)
       /\ Len(cr.blocks) = Len(q.c.blocks)
       /\ \A j \in 1..Len(q.c.blocks) : /\ cr.blocks[j].slot = q.c.blocks[j].slot
                                        /\ j # k => cr.blocks[j].parts = q.c.blocks[j].parts
       /\ cr.blocks[k].parts = IF arguments THEN Append(q.c.blocks[k].parts, part) ELSE q.c.blocks[k].parts
  <2>1. Agree(s1, c1) /\ Agree(s1, q.c)
    BY <1>2, <1>5, <1>9 DEF Agree
  <2> QED
    BY <1>2, <1>9, <2>1
<1>11. r.s = s1 /\ r.c = cr
  BY <1>8
<1> HIDE DEF cr, r
<1>12. q.c.blocks[k].parts = IF new THEN <<>> ELSE c.blocks[k].parts
  BY <1>2, <1>6
<1>13. new => cr.blocks[k].slot = slot
  BY <1>2, <1>6, <1>10
<1>14. ASSUME NEW j \in 1..Len(c.blocks)
       PROVE  /\ cr.blocks[j].slot = c.blocks[j].slot
              /\ j # k => cr.blocks[j].parts = c.blocks[j].parts
  <2>1. j \in 1..Len(q.c.blocks)
    BY <1>1, <1>2
  <2> QED
    BY <1>2, <1>10, <2>1
<1>15. IF new THEN Len(cr.blocks) = Len(c.blocks) + 1 /\ k = Len(c.blocks) + 1 /\ s1.open_kind = "tool"
       ELSE Len(cr.blocks) = Len(c.blocks) /\ k \in 1..Len(c.blocks) /\ s1.open_kind = s.open_kind
  BY <1>2, <1>5, <1>6, <1>10
<1>16. slots = [t \in DOMAIN s.tool_slot \cup {slot} |->
                  IF t \in DOMAIN s.tool_slot THEN s.tool_slot[t] ELSE Len(c.blocks)]
  BY DEF slots
<1>17. /\ r.s.tool_slot = slots /\ r.s.tool_slot[slot] + 1 = k
       /\ r.s.index = s1.index /\ r.s.open_kind = s1.open_kind
  BY <1>5, <1>11 DEF k
<1>18. r.s \in [index : {r.s.index}, open_kind : {r.s.open_kind}, finish : {s.finish}, tool_slot : {r.s.tool_slot}]
  BY <1>5, <1>11, <1>17
<1>19. r.s.index \in Nat \cup {-1} /\ r.s.open_kind \in {None, "text", "tool"}
  BY <1>5, <1>17
<1>20. r.c.blocks[k].parts = IF arguments THEN Append(IF new THEN <<>> ELSE c.blocks[k].parts, part)
                             ELSE IF new THEN <<>> ELSE c.blocks[k].parts
  BY <1>10, <1>11, <1>12
<1>21. r.c \in Clients /\ r.c.ended = c.ended /\ r.c.waiting = c.waiting /\ Agree(r.s, r.c)
  BY <1>10, <1>11
<1>22. r.s.tool_slot = [t \in DOMAIN s.tool_slot \cup {slot} |->
                           IF t \in DOMAIN s.tool_slot THEN s.tool_slot[t] ELSE Len(c.blocks)]
  BY <1>16, <1>17
<1>23. new => r.c.blocks[k].slot = slot
  BY <1>11, <1>13
<1>24. \A j \in 1..Len(c.blocks) : /\ r.c.blocks[j].slot = c.blocks[j].slot
                                   /\ j # k => r.c.blocks[j].parts = c.blocks[j].parts
  BY <1>11, <1>14
<1>25. IF new THEN Len(r.c.blocks) = Len(c.blocks) + 1 /\ k = Len(c.blocks) + 1 /\ r.s.open_kind = "tool"
       ELSE Len(r.c.blocks) = Len(c.blocks) /\ k \in 1..Len(c.blocks) /\ r.s.open_kind = s.open_kind
  BY <1>11, <1>15
<1>26. CallForwarded(r, s, c, slot, arguments, part)
  BY <1>17, <1>18, <1>19, <1>20, <1>21, <1>22, <1>23, <1>24, <1>25 DEF CallForwarded
<1> QED
  BY <1>26 DEF r


(* The pieces of text in their places. *)
LEMMA Places ==
    ASSUME NEW blocks \in Seq(Blocks)
    PROVE  /\ \A p \in textPlaces(blocks) :
                 /\ p = <<p[1], p[2]>> /\ p[1] \in 1..Len(blocks) /\ blocks[p[1]].slot = None
                 /\ p[2] \in 1..Len(blocks[p[1]].parts) /\ read(blocks, p) \in Nat
           /\ \A k \in 1..Len(blocks) : blocks[k].slot = None =>
                 \A l \in 1..Len(blocks[k].parts) :
                    /\ <<k, l>> \in textPlaces(blocks) /\ <<k, l>>[1] = k /\ <<k, l>>[2] = l
                    /\ read(blocks, <<k, l>>) = blocks[k].parts[l]
<1>1. /\ DOMAIN blocks = 1..Len(blocks) /\ \A k \in 1..Len(blocks) : blocks[k] \in Blocks
  BY BlockFacts
<1>2. \A k \in 1..Len(blocks) : /\ blocks[k].parts \in Seq(Nat)
                                /\ DOMAIN blocks[k].parts = 1..Len(blocks[k].parts)
                                /\ \A l \in 1..Len(blocks[k].parts) : blocks[k].parts[l] \in Nat
  BY <1>1, LenProperties, ElementOfSeq DEF Blocks
<1>3. ASSUME NEW p \in textPlaces(blocks)
      PROVE  /\ p = <<p[1], p[2]>> /\ p[1] \in 1..Len(blocks) /\ blocks[p[1]].slot = None
             /\ p[2] \in 1..Len(blocks[p[1]].parts) /\ read(blocks, p) \in Nat
  <2>1. PICK k \in DOMAIN blocks : blocks[k].slot = None /\ p \in {k} \X DOMAIN blocks[k].parts
    BY DEF textPlaces
  <2>2. p = <<p[1], p[2]>> /\ p[1] = k /\ p[2] \in DOMAIN blocks[k].parts
    BY <2>1
  <2> QED
    BY <1>1, <1>2, <2>1, <2>2 DEF read
<1>4. ASSUME NEW k \in 1..Len(blocks), blocks[k].slot = None, NEW l \in 1..Len(blocks[k].parts)
      PROVE  /\ <<k, l>> \in textPlaces(blocks) /\ <<k, l>>[1] = k /\ <<k, l>>[2] = l
             /\ read(blocks, <<k, l>>) = blocks[k].parts[l]
  <2>1. <<k, l>> \in {k} \X DOMAIN blocks[k].parts
    BY <1>2
  <2>2. k \in {j \in DOMAIN blocks : blocks[j].slot = None}
    BY <1>1, <1>4
  <2> QED
    BY <2>1, <2>2 DEF textPlaces, read
<1> QED
  BY <1>3, <1>4

(* A change that leaves the blocks of text alone leaves the text whole. *)
LEMMA TextKept ==
    ASSUME NEW old \in Seq(Blocks), NEW new \in Seq(Blocks), NEW text, textIsWhole(old, text),
           Len(old) <= Len(new),
           \A k \in 1..Len(old) : /\ new[k].slot = old[k].slot
                                  /\ old[k].slot = None => new[k].parts = old[k].parts,
           \A k \in 1..Len(new) : k > Len(old) => new[k].slot # None
    PROVE  textIsWhole(new, text)
<1>1. Len(old) \in Nat /\ Len(new) \in Nat
  BY BlockFacts
<1>2. ASSUME NEW p \in textPlaces(new)
      PROVE  p \in textPlaces(old) /\ read(new, p) = read(old, p)
  <2>1. /\ p = <<p[1], p[2]>> /\ p[1] \in 1..Len(new) /\ new[p[1]].slot = None
        /\ p[2] \in 1..Len(new[p[1]].parts)
    BY Places
  <2>2. p[1] \in 1..Len(old)
    BY <1>1, <2>1
  <2>3. old[p[1]].slot = None /\ new[p[1]].parts = old[p[1]].parts
    BY <2>1, <2>2
  <2>4. <<p[1], p[2]>> \in textPlaces(old)
    BY <2>1, <2>2, <2>3, Places
  <2> QED
    BY <2>1, <2>3, <2>4 DEF read
<1>3. ASSUME NEW p \in textPlaces(old)
      PROVE  p \in textPlaces(new)
  <2>1. /\ p = <<p[1], p[2]>> /\ p[1] \in 1..Len(old) /\ old[p[1]].slot = None
        /\ p[2] \in 1..Len(old[p[1]].parts)
    BY Places
  <2>2. p[1] \in 1..Len(new)
    BY <1>1, <2>1
  <2>3. new[p[1]].slot = None /\ new[p[1]].parts = old[p[1]].parts
    BY <2>1
  <2>4. <<p[1], p[2]>> \in textPlaces(new)
    BY <2>1, <2>2, <2>3, Places
  <2> QED
    BY <2>1, <2>4
<1>4. textPlaces(new) = textPlaces(old)
  BY <1>2, <1>3
<1>5. \A p \in textPlaces(old) : read(new, p) = read(old, p)
  BY <1>2, <1>4
<1> QED
  BY <1>4, <1>5 DEF textIsWhole

(* A new piece at the end of the last block keeps the text whole. *)
LEMMA TextGrows ==
    ASSUME NEW old \in Seq(Blocks), NEW new \in Seq(Blocks), NEW text \in SUBSET Nat,
           textIsWhole(old, text), NEW n \in Nat, \A m \in text : m < n,
           Len(new) \in {Len(old), Len(old) + 1}, Len(new) # 0,
           \A k \in 1..Len(old) : /\ new[k].slot = old[k].slot
                                  /\ k # Len(new) => new[k].parts = old[k].parts,
           new[Len(new)].slot = None,
           new[Len(new)].parts =
              Append(IF Len(new) = Len(old) THEN old[Len(new)].parts ELSE <<>>, n)
    PROVE  textIsWhole(new, text \cup {n})
<1> DEFINE k == Len(new)
           before == IF k = Len(old) THEN old[k].parts ELSE <<>>
           l == Len(before) + 1
<1>1. /\ Len(old) \in Nat /\ k \in 1..k /\ k \in Nat
      /\ \A j \in 1..Len(old) : old[j] \in Blocks
  BY BlockFacts
<1>2. before \in Seq(Nat)
  <2>1. CASE k = Len(old)
    BY <1>1, <2>1 DEF Blocks
  <2>2. CASE k # Len(old)
    BY <2>2
  <2> QED
    BY <2>1, <2>2
<1>3. /\ Len(before) \in Nat /\ new[k].parts = Append(before, n) /\ Len(new[k].parts) = l
      /\ new[k].parts[l] = n
      /\ \A i \in 1..Len(before) : new[k].parts[i] = before[i]
  <2> HIDE DEF before
  <2>1. /\ Len(before) \in Nat /\ Len(Append(before, n)) = Len(before) + 1
        /\ Append(before, n)[Len(before) + 1] = n
        /\ \A i \in 1..Len(before) : Append(before, n)[i] = before[i]
    BY <1>2, AppendProperties, LenProperties
  <2>2. new[k].parts = Append(before, n)
    BY DEF before
  <2> QED
    BY <2>1, <2>2
<1>4. k = Len(old) => before = old[k].parts /\ old[k].slot = None /\ k \in 1..Len(old)
  BY <1>1
<1> HIDE DEF k, before
<1>5. l \in 1..Len(new[k].parts) /\ l \in Nat
  BY <1>3
<1> HIDE DEF l
<1>6. <<k, l>> \in textPlaces(new) /\ read(new, <<k, l>>) = n /\ <<k, l>>[1] = k /\ <<k, l>>[2] = l
  BY <1>1, <1>3, <1>5, Places DEF k
<1>7. ASSUME NEW p \in textPlaces(new), p # <<k, l>>
      PROVE  p \in textPlaces(old) /\ read(new, p) = read(old, p) /\ readsBefore(p, <<k, l>>)
  <2>1. /\ p = <<p[1], p[2]>> /\ p[1] \in 1..k /\ new[p[1]].slot = None
        /\ p[2] \in 1..Len(new[p[1]].parts)
    BY Places DEF k
  <2>2. CASE p[1] = k
    <3>1. p[2] # l /\ p[2] \in 1..l
      BY <1>3, <1>7, <2>1, <2>2
    <3>2. p[2] \in 1..Len(before) /\ p[2] < l
      BY <1>3, <3>1 DEF l
    <3>3. before # <<>>
      BY <1>3, <3>2
    <3>4. k = Len(old)
      BY <3>3 DEF before
    <3>5. <<p[1], p[2]>> \in textPlaces(old)
      BY <1>4, <2>2, <3>2, <3>4, Places
    <3>6. new[k].parts[p[2]] = old[k].parts[p[2]]
      BY <1>3, <1>4, <3>2, <3>4
    <3> QED
      BY <1>6, <2>1, <2>2, <3>2, <3>5, <3>6 DEF read, readsBefore
  <2>3. CASE p[1] # k
    <3>1. p[1] < k /\ p[1] \in 1..Len(old)
      BY <1>1, <2>1, <2>3 DEF k
    <3>2. new[p[1]].parts = old[p[1]].parts /\ old[p[1]].slot = None
      BY <2>1, <2>3, <3>1 DEF k
    <3>3. <<p[1], p[2]>> \in textPlaces(old)
      BY <2>1, <3>1, <3>2, Places
    <3> QED
      BY <1>6, <2>1, <3>1, <3>2, <3>3 DEF read, readsBefore
  <2> QED
    BY <2>2, <2>3
<1>8. ASSUME NEW p \in textPlaces(old)
      PROVE  p \in textPlaces(new)
  <2>1. /\ p = <<p[1], p[2]>> /\ p[1] \in 1..Len(old) /\ old[p[1]].slot = None
        /\ p[2] \in 1..Len(old[p[1]].parts)
    BY Places
  <2>2. p[1] \in 1..k /\ new[p[1]].slot = None
    BY <1>1, <2>1 DEF k
  <2>3. p[2] \in 1..Len(new[p[1]].parts)
    <3>1. CASE p[1] = k
      <4>1. k = Len(old)
        BY <1>1, <2>1, <3>1 DEF k
      <4>2. Len(before) = Len(old[p[1]].parts) /\ Len(new[p[1]].parts) = Len(before) + 1
        BY <1>3, <1>4, <3>1, <4>1 DEF l
      <4> QED
        BY <1>3, <2>1, <4>2
    <3>2. CASE p[1] # k
      BY <2>1, <3>2 DEF k
    <3> QED
      BY <3>1, <3>2
  <2>4. <<p[1], p[2]>> \in textPlaces(new)
    BY <2>2, <2>3, Places DEF k
  <2> QED
    BY <2>1, <2>4
<1>9. <<k, l>> \notin textPlaces(old)
  <2> SUFFICES ASSUME <<k, l>> \in textPlaces(old) PROVE FALSE
    OBVIOUS
  <2>1. k \in 1..Len(old) /\ l \in 1..Len(old[k].parts)
    BY <1>6, Places
  <2>2. k = Len(old)
    BY <1>1, <2>1 DEF k
  <2> QED
    BY <1>3, <1>4, <2>1, <2>2 DEF l
<1>10. {read(new, p) : p \in textPlaces(new)} = text \cup {n}
  <2>1. {read(old, p) : p \in textPlaces(old)} = text
    BY DEF textIsWhole
  <2>2. ASSUME NEW p \in textPlaces(new) PROVE read(new, p) \in text \cup {n}
    BY <1>6, <1>7, <2>1
  <2>3. ASSUME NEW m \in text PROVE \E p \in textPlaces(new) : read(new, p) = m
    <3>1. PICK p \in textPlaces(old) : read(old, p) = m
      BY <2>1
    <3> QED
      BY <1>7, <1>8, <1>9, <3>1
  <2> QED
    BY <1>6, <2>2, <2>3
<1>11. ASSUME NEW p \in textPlaces(new), NEW q \in textPlaces(new), readsBefore(p, q)
       PROVE  read(new, p) < read(new, q)
  <2>1. p[1] \in Int /\ p[2] \in Int /\ q[1] \in Int /\ q[2] \in Int
    BY Places
  <2>2. CASE p # <<k, l>> /\ q # <<k, l>>
    BY <1>7, <1>11, <2>2 DEF textIsWhole
  <2>3. CASE p # <<k, l>> /\ q = <<k, l>>
    <3>1. read(old, p) \in text
      BY <1>7, <2>3 DEF textIsWhole
    <3> QED
      BY <1>6, <1>7, <2>3, <3>1
  <2>4. CASE p = <<k, l>> /\ q # <<k, l>>
    <3>1. readsBefore(q, p)
      BY <1>7, <2>4
    <3> QED
      BY <1>11, <2>1, <3>1 DEF readsBefore
  <2>5. CASE p = <<k, l>> /\ q = <<k, l>>
    BY <1>11, <2>1, <2>5 DEF readsBefore
  <2> QED
    BY <2>2, <2>3, <2>4, <2>5
<1> QED
  BY <1>10, <1>11 DEF textIsWhole

(* What the invariant of the stream says of its blocks, in parts. *)
LEMMA StreamFacts ==
    ASSUME RelayTypeOK, StreamInv
    PROVE  /\ client \in Clients /\ client.blocks \in Seq(Blocks) /\ Len(client.blocks) \in Nat
           /\ DOMAIN client.blocks = 1..Len(client.blocks)
           /\ stream \in Streams({stream.tool_slot}) /\ Agree(stream, client) /\ ~ client.ended
           /\ stream.finish \in FinishReasons
           /\ stream.open_kind = "text" => client.blocks[Len(client.blocks)].slot = None
           /\ DOMAIN stream.tool_slot = heard.called /\ heard.called \in SUBSET Slots
           /\ \A t \in heard.called :
                 /\ stream.tool_slot[t] + 1 \in 1..Len(client.blocks)
                 /\ stream.tool_slot[t] \in 0..(Len(client.blocks) - 1)
                 /\ client.blocks[stream.tool_slot[t] + 1].slot = t
                 /\ client.blocks[stream.tool_slot[t] + 1].parts = heard.arguments[t]
           /\ \A t \in Slots : t \notin heard.called => heard.arguments[t] = <<>>
           /\ \A k \in 1..Len(client.blocks) : client.blocks[k].slot # None =>
                 client.blocks[k].slot \in heard.called /\ stream.tool_slot[client.blocks[k].slot] = k - 1
<1>1. /\ client \in Clients /\ client.blocks \in Seq(Blocks) /\ Len(client.blocks) \in Nat
      /\ DOMAIN client.blocks = 1..Len(client.blocks)
  BY BlockFacts DEF RelayTypeOK, Clients
<1>2. stream \in Streams({stream.tool_slot}) /\ stream.finish \in FinishReasons
  BY DEF RelayTypeOK, Streams
<1>3. Agree(stream, client) /\ ~ client.ended
  BY <1>1 DEF StreamInv, BlocksInv, Agree
<1>4. stream.open_kind = "text" => client.blocks[Len(client.blocks)].slot = None
  <2>1. "text" # None
    BY NoneAssumption
  <2>2. stream.open_kind = "text" => Len(client.blocks) \in 1..Len(client.blocks)
    BY <1>1, <2>1, BlockFacts DEF StreamInv, BlocksInv
  <2> QED
    BY <1>1, <2>2 DEF StreamInv, BlocksInv
<1>5. DOMAIN stream.tool_slot = heard.called /\ heard.called \in SUBSET Slots
  BY DEF StreamInv, BlocksInv, RelayTypeOK, SlotsUpTo, Streams
<1>6. \A t \in heard.called : /\ stream.tool_slot[t] + 1 \in 1..Len(client.blocks)
                              /\ stream.tool_slot[t] \in 0..(Len(client.blocks) - 1)
  <2>1. PICK S \in SUBSET Slots : stream.tool_slot \in [S -> 0..stream.index]
    BY DEF RelayTypeOK, SlotsUpTo, Streams
  <2>2. Len(client.blocks) = stream.index + 1 /\ stream.index \in Nat \cup {-1}
    BY DEF StreamInv, BlocksInv, RelayTypeOK, Streams
  <2> QED
    BY <1>5, <2>1, <2>2
<1>7. /\ \A t \in heard.called : /\ client.blocks[stream.tool_slot[t] + 1].slot = t
                                 /\ client.blocks[stream.tool_slot[t] + 1].parts = heard.arguments[t]
      /\ \A t \in Slots : t \notin heard.called => heard.arguments[t] = <<>>
  BY <1>5 DEF StreamInv, BlocksInv
<1>8. \A k \in 1..Len(client.blocks) : client.blocks[k].slot # None =>
         client.blocks[k].slot \in heard.called /\ stream.tool_slot[client.blocks[k].slot] = k - 1
  BY <1>1 DEF StreamInv, BlocksInv
<1> QED
  BY <1>1, <1>2, <1>3, <1>4, <1>5, <1>6, <1>7, <1>8



(* A piece of text keeps the invariant of the stream.                      *)
LEMMA TextStep ==
    ASSUME RelayTypeOK, StreamInv, TextPiece
    PROVE  /\ stream' \in Streams(SlotsUpTo(stream'.index))
           /\ client' \in Clients
           /\ heard' \in Heard
           /\ StreamInv'
<1> DEFINE n == heard.pieces + 1
           r == forwardText([s |-> stream, c |-> client], n)
           k == Len(client'.blocks)
<1>1. /\ client \in Clients /\ client.blocks \in Seq(Blocks) /\ Len(client.blocks) \in Nat
      /\ DOMAIN client.blocks = 1..Len(client.blocks)
      /\ stream \in Streams({stream.tool_slot}) /\ Agree(stream, client) /\ ~ client.ended
      /\ stream.finish \in FinishReasons
      /\ stream.open_kind = "text" => client.blocks[Len(client.blocks)].slot = None
      /\ DOMAIN stream.tool_slot = heard.called /\ heard.called \in SUBSET Slots
      /\ \A t \in heard.called :
            /\ stream.tool_slot[t] + 1 \in 1..Len(client.blocks)
            /\ stream.tool_slot[t] \in 0..(Len(client.blocks) - 1)
            /\ client.blocks[stream.tool_slot[t] + 1].slot = t
            /\ client.blocks[stream.tool_slot[t] + 1].parts = heard.arguments[t]
      /\ \A t \in Slots : t \notin heard.called => heard.arguments[t] = <<>>
      /\ \A j \in 1..Len(client.blocks) : client.blocks[j].slot # None =>
            client.blocks[j].slot \in heard.called /\ stream.tool_slot[client.blocks[j].slot] = j - 1
  BY StreamFacts
<1>2. /\ n \in Nat /\ \A m \in heard.text : m < n /\ m <= n
      /\ heard.text \in SUBSET Nat /\ textIsWhole(client.blocks, heard.text)
      /\ stream.finish = IF heard.finish = None THEN "stop" ELSE heard.finish
  BY DEF RelayTypeOK, StreamInv, Heard
<1>3. stream' = r.s /\ client' = r.c /\ heard' = [heard EXCEPT !.pieces = n, !.text = @ \cup {n}]
  BY DEF TextPiece, Forward
<1> HIDE DEF n
<1>4. /\ r.s \in Streams({stream.tool_slot}) /\ r.s.open_kind = "text"
      /\ r.s.tool_slot = stream.tool_slot /\ r.s.finish = stream.finish
      /\ r.c \in Clients /\ r.c.ended = client.ended /\ r.c.waiting = client.waiting
      /\ Agree(r.s, r.c)
      /\ Len(r.c.blocks) \in {Len(client.blocks), Len(client.blocks) + 1} /\ Len(r.c.blocks) # 0
      /\ \A j \in 1..Len(client.blocks) :
            /\ r.c.blocks[j].slot = client.blocks[j].slot
            /\ j # Len(r.c.blocks) => r.c.blocks[j].parts = client.blocks[j].parts
      /\ r.c.blocks[Len(r.c.blocks)].slot = None
      /\ r.c.blocks[Len(r.c.blocks)].parts =
           Append(IF Len(r.c.blocks) = Len(client.blocks) THEN client.blocks[Len(r.c.blocks)].parts ELSE <<>>, n)
  <2> DEFINE T == {stream.tool_slot}
  <2>1. /\ stream \in Streams(T) /\ client \in Clients /\ Agree(stream, client) /\ n \in Nat
        /\ stream.open_kind = "text" => client.blocks[Len(client.blocks)].slot = None
    BY <1>1, <1>2
  <2> HIDE DEF T
  <2>2. TextForwarded(r, T, stream, client, n)
    BY <2>1, ForwardText
  <2> HIDE DEF r
  <2> QED
    BY <2>2 DEF TextForwarded, T
<1> HIDE DEF r
<1>5. /\ stream' \in Streams({stream.tool_slot}) /\ stream'.open_kind = "text"
      /\ stream'.tool_slot = stream.tool_slot /\ stream'.finish = stream.finish
      /\ client' \in Clients /\ client'.ended = client.ended /\ client'.waiting = client.waiting
      /\ Agree(stream', client')
      /\ k \in {Len(client.blocks), Len(client.blocks) + 1} /\ k # 0
      /\ \A j \in 1..Len(client.blocks) : /\ client'.blocks[j].slot = client.blocks[j].slot
                                          /\ j # k => client'.blocks[j].parts = client.blocks[j].parts
      /\ client'.blocks[k].slot = None
      /\ client'.blocks[k].parts =
           Append(IF k = Len(client.blocks) THEN client.blocks[k].parts ELSE <<>>, n)
  BY <1>3, <1>4
<1>6. /\ heard'.text = heard.text \cup {n} /\ heard'.pieces = n /\ heard'.finish = heard.finish
      /\ heard'.called = heard.called /\ heard'.arguments = heard.arguments
      /\ heard' \in Heard
  BY <1>2, <1>3 DEF RelayTypeOK, Heard
<1>7. client'.blocks \in Seq(Blocks)
  BY <1>5 DEF Clients
<1>8. textIsWhole(client'.blocks, heard'.text)
  <2>1. \A m \in heard.text : m < n
    BY <1>2
  <2>2. /\ client.blocks \in Seq(Blocks) /\ client'.blocks \in Seq(Blocks) /\ heard.text \in SUBSET Nat
        /\ textIsWhole(client.blocks, heard.text) /\ n \in Nat
    BY <1>1, <1>2, <1>7
  <2>3. textIsWhole(client'.blocks, heard.text \cup {n})
    BY <1>5, <2>1, <2>2, TextGrows
  <2> QED
    BY <1>6, <2>3
<1>9. \A j \in 1..k : client'.blocks[j].slot # None =>
          j \in 1..Len(client.blocks) /\ j # k /\ client.blocks[j].slot = client'.blocks[j].slot
  BY <1>1, <1>5
<1>10. \A t \in heard.called : stream.tool_slot[t] + 1 # k /\ t # None
  <2> SUFFICES ASSUME NEW t \in heard.called PROVE stream.tool_slot[t] + 1 # k /\ t # None
    OBVIOUS
  <2>1. t # None
    BY <1>1, NoneAssumption
  <2>2. client'.blocks[stream.tool_slot[t] + 1].slot = t
    BY <1>1, <1>5
  <2> QED
    BY <1>5, <2>1, <2>2
<1>11. \A t \in heard.called : /\ client'.blocks[stream.tool_slot[t] + 1].slot = t
                               /\ client'.blocks[stream.tool_slot[t] + 1].parts = heard.arguments[t]
  BY <1>1, <1>5, <1>10
<1>12. BlocksInv'
  <2>1. /\ DOMAIN stream'.tool_slot = heard'.called
        /\ \A t \in heard'.called :
              /\ client'.blocks[stream'.tool_slot[t] + 1].slot = t
              /\ client'.blocks[stream'.tool_slot[t] + 1].parts = heard'.arguments[t]
        /\ \A t \in Slots : t \notin heard'.called => heard'.arguments[t] = <<>>
        /\ stream'.open_kind = "text" => client'.blocks[Len(client'.blocks)].slot = None
    BY <1>1, <1>5, <1>6, <1>11
  <2>2. \A j \in 1..k : client'.blocks[j].slot # None =>
            client'.blocks[j].slot \in heard'.called /\ stream'.tool_slot[client'.blocks[j].slot] = j - 1
    <3> SUFFICES ASSUME NEW j \in 1..k, client'.blocks[j].slot # None
                 PROVE  client'.blocks[j].slot \in heard'.called /\ stream'.tool_slot[client'.blocks[j].slot] = j - 1
      OBVIOUS
    <3>1. j \in 1..Len(client.blocks) /\ client.blocks[j].slot = client'.blocks[j].slot
      BY <1>9
    <3>2. client.blocks[j].slot \in heard.called /\ stream.tool_slot[client.blocks[j].slot] = j - 1
      BY <1>1, <3>1
    <3> QED
      BY <1>5, <1>6, <3>1, <3>2
  <2>3. /\ ~ client'.confused /\ ~ client'.ended /\ Len(client'.blocks) = stream'.index + 1
        /\ \A j \in 1..k : client'.blocks[j].open <=> j = k /\ stream'.open_kind # None
        /\ stream'.open_kind # None => client'.blocks # <<>>
    BY <1>1, <1>5 DEF Agree
  <2>4. DOMAIN client'.blocks = 1..k
    BY <1>7, LenProperties
  <2> HIDE DEF k
  <2>5. /\ \A j \in 1..k : j = Len(client'.blocks) /\ stream'.open_kind = "text" => client'.blocks[j].slot = None
        /\ k = Len(client'.blocks)
    BY <2>1 DEF k
  <2> QED
    BY <2>1, <2>2, <2>3, <2>4, <2>5 DEF BlocksInv
<1>13. StreamInv'
  <2>1. \A m \in heard'.text : m <= heard'.pieces
    BY <1>2, <1>6
  <2>2. stream'.finish = IF heard'.finish = None THEN "stop" ELSE heard'.finish
    BY <1>2, <1>5, <1>6
  <2> QED
    BY <1>8, <1>12, <2>1, <2>2 DEF StreamInv
<1>14. stream' \in Streams(SlotsUpTo(stream'.index))
  <2>1. PICK S \in SUBSET Slots : stream.tool_slot \in [S -> 0..stream.index]
    BY DEF RelayTypeOK, SlotsUpTo, Streams
  <2>2. stream.index <= stream'.index /\ stream.index \in Int /\ stream'.index \in Int
    BY <1>1, <1>5 DEF Agree, Streams
  <2>3. stream'.tool_slot \in [S -> 0..stream'.index]
    BY <1>5, <2>1, <2>2
  <2>4. stream'.tool_slot \in SlotsUpTo(stream'.index)
    BY <2>3 DEF SlotsUpTo
  <2> QED
    BY <1>5, <2>4 DEF Streams
<1> QED
  BY <1>5, <1>6, <1>13, <1>14

(* And so does a piece of a call.                                          *)
LEMMA CallStep ==
    ASSUME RelayTypeOK, StreamInv, CallPiece
    PROVE  /\ stream' \in Streams(SlotsUpTo(stream'.index))
           /\ client' \in Clients
           /\ heard' \in Heard
           /\ StreamInv'
<1> DEFINE n == heard.pieces + 1
<1>1. /\ client \in Clients /\ client.blocks \in Seq(Blocks) /\ Len(client.blocks) \in Nat
      /\ DOMAIN client.blocks = 1..Len(client.blocks)
      /\ stream \in Streams({stream.tool_slot}) /\ Agree(stream, client) /\ ~ client.ended
      /\ stream.finish \in FinishReasons
      /\ stream.open_kind = "text" => client.blocks[Len(client.blocks)].slot = None
      /\ DOMAIN stream.tool_slot = heard.called /\ heard.called \in SUBSET Slots
      /\ \A t \in heard.called :
            /\ stream.tool_slot[t] + 1 \in 1..Len(client.blocks)
            /\ stream.tool_slot[t] \in 0..(Len(client.blocks) - 1)
            /\ client.blocks[stream.tool_slot[t] + 1].slot = t
            /\ client.blocks[stream.tool_slot[t] + 1].parts = heard.arguments[t]
      /\ \A t \in Slots : t \notin heard.called => heard.arguments[t] = <<>>
      /\ \A j \in 1..Len(client.blocks) : client.blocks[j].slot # None =>
            client.blocks[j].slot \in heard.called /\ stream.tool_slot[client.blocks[j].slot] = j - 1
  BY StreamFacts
<1>2. /\ n \in Nat /\ \A m \in heard.text : m <= n
      /\ heard.text \in SUBSET Nat /\ textIsWhole(client.blocks, heard.text)
      /\ stream.finish = IF heard.finish = None THEN "stop" ELSE heard.finish
  BY DEF RelayTypeOK, StreamInv, Heard
<1>3. PICK slot \in Slots, arguments \in BOOLEAN :
         /\ Forward(forwardCall([s |-> stream, c |-> client], slot, arguments, n))
         /\ heard' = [heard EXCEPT !.pieces = n, !.called = @ \cup {slot},
                                   !.arguments[slot] = IF arguments THEN Append(@, n) ELSE @]
  BY DEF CallPiece
<1> HIDE DEF n
<1> DEFINE r == forwardCall([s |-> stream, c |-> client], slot, arguments, n)
           k == stream'.tool_slot[slot] + 1
           new == slot \notin heard.called
           old == IF new THEN <<>> ELSE client.blocks[k].parts
<1>4. stream' = r.s /\ client' = r.c
  BY <1>3 DEF Forward
<1>5. CallForwarded(r, stream, client, slot, arguments, n)
  <2> DEFINE T == {stream.tool_slot}
  <2>1. /\ stream \in Streams(T) /\ client \in Clients /\ Agree(stream, client) /\ n \in Nat
        /\ slot \in DOMAIN stream.tool_slot => stream.tool_slot[slot] \in 0..(Len(client.blocks) - 1)
    BY <1>1, <1>2
  <2> HIDE DEF T
  <2> QED
    BY <2>1, ForwardCall
<1> HIDE DEF r
<1>6. /\ stream'.index \in Nat \cup {-1} /\ stream'.open_kind \in {None, "text", "tool"}
      /\ stream' \in [index : {stream'.index}, open_kind : {stream'.open_kind}, finish : {stream.finish},
                      tool_slot : {stream'.tool_slot}]
      /\ stream'.tool_slot = [t \in heard.called \cup {slot} |->
                                IF t \in heard.called THEN stream.tool_slot[t] ELSE Len(client.blocks)]
      /\ client' \in Clients /\ client'.ended = client.ended /\ client'.waiting = client.waiting
      /\ Agree(stream', client')
      /\ IF new THEN /\ Len(client'.blocks) = Len(client.blocks) + 1 /\ k = Len(client.blocks) + 1
                     /\ stream'.open_kind = "tool"
         ELSE /\ Len(client'.blocks) = Len(client.blocks) /\ k \in 1..Len(client.blocks)
              /\ stream'.open_kind = stream.open_kind
      /\ \A j \in 1..Len(client.blocks) : /\ client'.blocks[j].slot = client.blocks[j].slot
                                          /\ j # k => client'.blocks[j].parts = client.blocks[j].parts
      /\ new => client'.blocks[k].slot = slot
      /\ client'.blocks[k].parts = IF arguments THEN Append(old, n) ELSE old
  BY <1>1, <1>4, <1>5 DEF CallForwarded
<1>7. /\ heard'.text = heard.text /\ heard'.pieces = n /\ heard'.finish = heard.finish
      /\ heard'.called = heard.called \cup {slot}
      /\ heard'.arguments = [heard.arguments EXCEPT ![slot] =
                               IF arguments THEN Append(heard.arguments[slot], n) ELSE heard.arguments[slot]]
      /\ heard.arguments \in [Slots -> Seq(Nat)]
  BY <1>3 DEF RelayTypeOK, Heard
<1>8. heard' \in Heard
  <2>1. Append(heard.arguments[slot], n) \in Seq(Nat)
    BY <1>2, <1>7, AppendProperties
  <2>2. heard'.arguments \in [Slots -> Seq(Nat)]
    BY <1>7, <2>1
  <2>3. heard' \in [text : {heard.text}, arguments : {heard'.arguments}, called : {heard'.called},
                    finish : {heard.finish}, pieces : {n}]
    BY <1>3, <1>7 DEF RelayTypeOK, Heard
  <2>4. heard.finish \in FinishReasons \cup {None}
    BY DEF RelayTypeOK, Heard
  <2> QED
    BY <1>1, <1>2, <1>7, <2>2, <2>3, <2>4 DEF Heard
<1>9. client'.blocks \in Seq(Blocks) /\ slot # None
  BY <1>6, NoneAssumption DEF Clients
<1>10. /\ ~new => client.blocks[k].slot = slot /\ client.blocks[k].parts = heard.arguments[slot]
       /\ k \in 1..Len(client'.blocks) /\ client'.blocks[k].slot = slot
       /\ old = heard.arguments[slot]
       /\ client'.blocks[k].parts = heard'.arguments[slot]
  <2>1. ~new => k = stream.tool_slot[slot] + 1
    BY <1>6
  <2>2. ~new => client.blocks[k].slot = slot /\ client.blocks[k].parts = heard.arguments[slot]
    BY <1>1, <2>1
  <2>3. old = heard.arguments[slot]
    BY <1>1, <2>2
  <2> HIDE DEF old
  <2> QED
    BY <1>1, <1>6, <1>7, <2>2, <2>3
<1>11. textIsWhole(client'.blocks, heard'.text)
  <2>1. \A j \in 1..Len(client.blocks) :
           /\ client'.blocks[j].slot = client.blocks[j].slot
           /\ client.blocks[j].slot = None => client'.blocks[j].parts = client.blocks[j].parts
    BY <1>1, <1>6, <1>9, <1>10
  <2>2. Len(client.blocks) <= Len(client'.blocks)
    BY <1>1, <1>6
  <2>3. \A j \in 1..Len(client'.blocks) : j > Len(client.blocks) => client'.blocks[j].slot # None
    BY <1>1, <1>6, <1>9, <1>10
  <2>4. textIsWhole(client'.blocks, heard.text)
    BY <1>1, <1>2, <1>9, <2>1, <2>2, <2>3, TextKept
  <2> QED
    BY <1>7, <2>4
<1>12. \A t \in heard.called : t # slot =>
          /\ stream'.tool_slot[t] = stream.tool_slot[t]
          /\ stream.tool_slot[t] + 1 \in 1..Len(client.blocks) /\ stream.tool_slot[t] + 1 # k
          /\ client'.blocks[stream.tool_slot[t] + 1].slot = t
          /\ client'.blocks[stream.tool_slot[t] + 1].parts = heard.arguments[t]
  <2> SUFFICES ASSUME NEW t \in heard.called, t # slot
               PROVE  /\ stream'.tool_slot[t] = stream.tool_slot[t]
                      /\ stream.tool_slot[t] + 1 \in 1..Len(client.blocks) /\ stream.tool_slot[t] + 1 # k
                      /\ client'.blocks[stream.tool_slot[t] + 1].slot = t
                      /\ client'.blocks[stream.tool_slot[t] + 1].parts = heard.arguments[t]
    OBVIOUS
  <2>1. stream'.tool_slot[t] = stream.tool_slot[t]
    BY <1>6
  <2>2. /\ stream.tool_slot[t] + 1 \in 1..Len(client.blocks)
        /\ client.blocks[stream.tool_slot[t] + 1].slot = t
        /\ client.blocks[stream.tool_slot[t] + 1].parts = heard.arguments[t]
    BY <1>1
  <2>3. client'.blocks[stream.tool_slot[t] + 1].slot = t
    BY <1>6, <2>2
  <2>4. stream.tool_slot[t] + 1 # k
    BY <1>10, <2>3
  <2> QED
    BY <1>6, <2>1, <2>2, <2>3, <2>4
<1>13. DOMAIN stream'.tool_slot = heard'.called
  BY <1>6, <1>7
<1>14. ASSUME NEW t \in heard'.called
       PROVE  /\ client'.blocks[stream'.tool_slot[t] + 1].slot = t
              /\ client'.blocks[stream'.tool_slot[t] + 1].parts = heard'.arguments[t]
              /\ stream'.tool_slot[t] \in 0..stream'.index
  <2>1. Len(client'.blocks) = stream'.index + 1 /\ Len(client'.blocks) \in Nat
    BY <1>9, BlockFacts, <1>6 DEF Agree
  <2>2. CASE t = slot
    <3>1. k \in 1..Len(client'.blocks) /\ k - 1 = stream'.tool_slot[t]
      <4>1. stream'.tool_slot[slot] \in Int
        BY <1>1, <1>6
      <4> QED
        BY <1>10, <2>2, <4>1
    <3> QED
      BY <1>10, <2>1, <2>2, <3>1, <1>6
  <2>3. CASE t # slot
    <3>1. t \in heard.called /\ t \in Slots
      BY <1>1, <1>7, <2>3
    <3>2. heard'.arguments[t] = heard.arguments[t]
      BY <1>7, <2>3, <3>1
    <3>3. stream.tool_slot[t] \in 0..(Len(client.blocks) - 1) /\ Len(client.blocks) <= Len(client'.blocks)
      BY <1>1, <1>6, <3>1
    <3>4. stream.tool_slot[t] \in 0..stream'.index
      <4>1. stream'.index \in Int
        BY <1>6
      <4> QED
        BY <1>1, <2>1, <3>3, <4>1
    <3>5. /\ stream'.tool_slot[t] = stream.tool_slot[t]
          /\ client'.blocks[stream.tool_slot[t] + 1].slot = t
          /\ client'.blocks[stream.tool_slot[t] + 1].parts = heard.arguments[t]
      BY <1>12, <2>3, <3>1
    <3> QED
      BY <3>2, <3>4, <3>5
  <2> QED
    BY <2>2, <2>3
<1>15. ASSUME NEW t \in Slots, t \notin heard'.called
       PROVE  heard'.arguments[t] = <<>>
  BY <1>1, <1>7, <1>15
<1>16. ASSUME NEW j \in 1..Len(client'.blocks), client'.blocks[j].slot # None
       PROVE  /\ client'.blocks[j].slot \in heard'.called
              /\ stream'.tool_slot[client'.blocks[j].slot] = j - 1
  <2>1. CASE j \in 1..Len(client.blocks)
    <3>1. client'.blocks[j].slot = client.blocks[j].slot
      BY <1>6, <2>1
    <3>2. client.blocks[j].slot \in heard.called /\ stream.tool_slot[client.blocks[j].slot] = j - 1
      BY <1>1, <1>16, <2>1, <3>1
    <3>3. stream'.tool_slot[client.blocks[j].slot] = stream.tool_slot[client.blocks[j].slot]
      BY <1>6, <3>2
    <3> QED
      BY <1>7, <3>1, <3>2, <3>3
  <2>2. CASE j \notin 1..Len(client.blocks)
    <3>1. new /\ j = k /\ k = Len(client.blocks) + 1
      BY <1>1, <1>6, <2>2
    <3>2. stream'.tool_slot[slot] = Len(client.blocks)
      BY <1>6, <3>1
    <3> QED
      BY <1>1, <1>7, <1>10, <3>1, <3>2
  <2> QED
    BY <2>1, <2>2
<1>17. stream'.open_kind = "text" => client'.blocks[Len(client'.blocks)].slot = None
  <2>1. CASE new
    BY <1>6, <2>1
  <2>2. CASE ~new
    <3>1. stream'.open_kind = "text" => Len(client.blocks) \in 1..Len(client.blocks)
      <4>1. stream'.open_kind = "text" => client.blocks # <<>>
        BY <1>1, <1>6, <2>2, NoneAssumption DEF Agree
      <4> QED
        BY <1>1, <4>1, BlockFacts
    <3> QED
      BY <1>1, <1>6, <2>2, <3>1
  <2> QED
    BY <2>1, <2>2
<1>18. BlocksInv'
  <2>1. /\ ~ client'.confused /\ ~ client'.ended /\ Len(client'.blocks) = stream'.index + 1
        /\ \A j \in 1..Len(client'.blocks) :
              client'.blocks[j].open <=> j = Len(client'.blocks) /\ stream'.open_kind # None
        /\ stream'.open_kind # None => client'.blocks # <<>>
    BY <1>1, <1>6 DEF Agree
  <2>2. DOMAIN client'.blocks = 1..Len(client'.blocks)
    BY <1>9, LenProperties
  <2> QED
    BY <1>13, <1>14, <1>15, <1>16, <1>17, <2>1, <2>2 DEF BlocksInv
<1>19. StreamInv'
  <2>1. \A m \in heard'.text : m <= heard'.pieces
    BY <1>2, <1>7
  <2>2. stream'.finish = IF heard'.finish = None THEN "stop" ELSE heard'.finish
    BY <1>2, <1>6, <1>7
  <2> QED
    BY <1>11, <1>18, <2>1, <2>2 DEF StreamInv
<1>20. stream' \in Streams(SlotsUpTo(stream'.index))
  <2>1. stream'.tool_slot \in [heard'.called -> 0..stream'.index]
    <3>1. stream'.tool_slot = [t \in heard'.called |-> stream'.tool_slot[t]]
      BY <1>6, <1>7
    <3> QED
      BY <1>14, <3>1
  <2>2. heard'.called \in SUBSET Slots
    BY <1>1, <1>7
  <2>3. stream'.tool_slot \in SlotsUpTo(stream'.index)
    BY <2>1, <2>2 DEF SlotsUpTo
  <2> QED
    BY <1>1, <1>6, <2>3 DEF Streams
<1> QED
  BY <1>6, <1>8, <1>19, <1>20

(* No blocks hold no text, and no calls. *)
LEMMA NothingHeard ==
    textIsWhole(<<>>, {}) /\ \A arguments : callsAreWhole(<<>>, {}, arguments)
<1>1. textPlaces(<<>>) = {}
  BY DEF textPlaces
<1> QED
  BY <1>1 DEF textIsWhole, callsAreWhole

(* While the stream goes on each call has its one block. *)
LEMMA CallsInBlocks ==
    ASSUME RelayTypeOK, StreamInv
    PROVE  callsAreWhole(client.blocks, heard.called, heard.arguments)
<1>1. /\ DOMAIN client.blocks = 1..Len(client.blocks)
      /\ \A t \in heard.called :
            /\ stream.tool_slot[t] + 1 \in 1..Len(client.blocks)
            /\ client.blocks[stream.tool_slot[t] + 1].slot = t
            /\ client.blocks[stream.tool_slot[t] + 1].parts = heard.arguments[t]
      /\ \A k \in 1..Len(client.blocks) : client.blocks[k].slot # None =>
            client.blocks[k].slot \in heard.called /\ stream.tool_slot[client.blocks[k].slot] = k - 1
  BY StreamFacts
<1>2. ASSUME NEW k \in 1..Len(client.blocks), client.blocks[k].slot # None,
             NEW j \in 1..Len(client.blocks), client.blocks[j].slot = client.blocks[k].slot
      PROVE  j = k
  <2>1. stream.tool_slot[client.blocks[k].slot] = k - 1 /\ stream.tool_slot[client.blocks[k].slot] = j - 1
    BY <1>1, <1>2
  <2> QED
    BY <2>1
<1> QED
  BY <1>1, <1>2 DEF callsAreWhole

(* Blocks that differ only in being open say the same. *)
LEMMA SameSaid ==
    ASSUME NEW old \in Seq(Blocks), NEW new \in Seq(Blocks), NEW text, NEW called, NEW arguments,
           textIsWhole(old, text), callsAreWhole(old, called, arguments), Len(new) = Len(old),
           \A k \in 1..Len(old) : new[k].slot = old[k].slot /\ new[k].parts = old[k].parts
    PROVE  textIsWhole(new, text) /\ callsAreWhole(new, called, arguments)
<1>1. DOMAIN old = 1..Len(old) /\ DOMAIN new = 1..Len(old) /\ Len(old) \in Nat
  BY BlockFacts
<1>2. textIsWhole(new, text)
  <2>1. \A k \in 1..Len(new) : ~ (k > Len(old))
    BY <1>1
  <2>2. Len(old) <= Len(new)
    BY <1>1
  <2> QED
    BY <2>1, <2>2, TextKept
<1>3. callsAreWhole(new, called, arguments)
  BY <1>1 DEF callsAreWhole
<1> QED
  BY <1>2, <1>3

(* The end of the stream closes the last block, and the reason given for   *)
(* it is the one the server gave.                                          *)
LEMMA EndStep ==
    ASSUME RelayTypeOK, StreamInv, StreamEnds
    PROVE  /\ stream' \in Streams(SlotsUpTo(stream'.index))
           /\ client' \in Clients /\ ClientHearsAll'
<1> DEFINE q == close_block([s |-> stream, c |-> client])
           reason == stop_reason_for(stream.finish, heard.called # {})
           c1 == [q.c EXCEPT !.ended = TRUE, !.stop = reason, !.confused = FALSE]
<1>1. /\ client \in Clients /\ client.blocks \in Seq(Blocks) /\ Len(client.blocks) \in Nat
      /\ stream \in Streams({stream.tool_slot}) /\ Agree(stream, client)
      /\ stream.finish \in FinishReasons /\ DOMAIN stream.tool_slot = heard.called
  BY StreamFacts
<1>2. /\ q = [s |-> q.s, c |-> q.c]
      /\ q.s \in Streams({stream.tool_slot}) /\ q.s.index = stream.index
      /\ q.s.tool_slot = stream.tool_slot /\ q.s.finish = stream.finish
      /\ q.c \in Clients /\ ~ q.c.confused
      /\ Len(q.c.blocks) = Len(client.blocks)
      /\ \A k \in 1..Len(client.blocks) : /\ q.c.blocks[k].slot = client.blocks[k].slot
                                          /\ q.c.blocks[k].parts = client.blocks[k].parts
                                          /\ ~ q.c.blocks[k].open
  BY <1>1, CloseBlock
<1>3. stream' = q.s /\ client' = Hangup(messageStop(q.c, reason)) /\ phase' = "done" /\ heard' = heard
  <2>1. ended([s |-> stream, c |-> client]) =
           [q EXCEPT !.c = messageStop(q.c, stop_reason_for(q.s.finish, DOMAIN q.s.tool_slot # {}))]
    BY DEF ended
  <2> HIDE DEF q
  <2>2. stop_reason_for(q.s.finish, DOMAIN q.s.tool_slot # {}) = reason
    BY <1>1, <1>2
  <2>3. ended([s |-> stream, c |-> client]) = [s |-> q.s, c |-> messageStop(q.c, reason)]
    BY <1>2, <2>1, <2>2
  <2> QED
    BY <2>3 DEF StreamEnds
<1> HIDE DEF q
<1>4. reason \in {"max_tokens", "tool_use", "end_turn"}
  BY DEF stop_reason_for
<1>5. /\ stream.finish = "length" => reason = "max_tokens"
      /\ stream.finish = "content_filter" => reason = "end_turn"
      /\ stream.finish \in {"stop", "tool_calls"} /\ heard.called # {} => reason = "tool_use"
  BY DEF stop_reason_for
<1> HIDE DEF reason
<1>6. q.c.blocks \in Seq(Blocks) /\ DOMAIN q.c.blocks = 1..Len(client.blocks)
  BY <1>2, BlockFacts DEF Clients
<1>7. messageStop(q.c, reason) = c1
  <2>1. (q.c.confused \/ \E k \in DOMAIN q.c.blocks : q.c.blocks[k].open) = FALSE
    BY <1>2, <1>6
  <2>2. messageStop(q.c, reason) =
           [q.c EXCEPT !.ended = TRUE, !.stop = reason,
                       !.confused = q.c.confused \/ \E k \in DOMAIN q.c.blocks : q.c.blocks[k].open]
    BY DEF messageStop
  <2> QED
    BY <2>1, <2>2
<1>8. c1 \in Clients /\ c1.blocks = q.c.blocks /\ ~ c1.confused /\ c1.ended /\ c1.stop = reason
  BY <1>2, <1>4 DEF Clients
<1> HIDE DEF c1
<1>9. /\ client' \in Clients /\ client'.blocks = q.c.blocks /\ ~ client'.confused
      /\ client'.stop = reason /\ ~ client'.waiting
  BY <1>3, <1>7, <1>8 DEF Hangup, closes_connection, Clients
<1>10. /\ textIsWhole(client'.blocks, heard'.text)
       /\ callsAreWhole(client'.blocks, heard'.called, heard'.arguments)
  <2>1. textIsWhole(client.blocks, heard.text)
    BY DEF StreamInv
  <2>2. callsAreWhole(client.blocks, heard.called, heard.arguments)
    BY CallsInBlocks
  <2>3. textIsWhole(q.c.blocks, heard.text) /\ callsAreWhole(q.c.blocks, heard.called, heard.arguments)
    BY <1>1, <1>2, <1>6, <2>1, <2>2, SameSaid
  <2> QED
    BY <1>3, <1>9, <2>3
<1>11. /\ heard'.finish = "length" => client'.stop = "max_tokens"
       /\ heard'.finish = "content_filter" => client'.stop = "end_turn"
       /\ heard'.finish \in {"stop", "tool_calls"} /\ heard'.called # {} => client'.stop = "tool_use"
  <2>1. stream.finish = IF heard.finish = None THEN "stop" ELSE heard.finish
    BY DEF StreamInv
  <2>2. None \notin FinishReasons
    BY NoneAssumption
  <2> QED
    BY <1>3, <1>5, <1>9, <2>1, <2>2 DEF FinishReasons
<1>12. stream' \in Streams(SlotsUpTo(stream'.index))
  <2>1. stream.tool_slot \in SlotsUpTo(stream.index)
    BY DEF RelayTypeOK, Streams
  <2> QED
    BY <1>2, <1>3, <2>1 DEF Streams
<1> QED
  BY <1>9, <1>10, <1>11, <1>12 DEF ClientHearsAll

(* An answer at once has the same blocks as a stream would. *)
LEMMA OnceStep ==
    ASSUME RelayTypeOK, RequestInv, _once
    PROVE  /\ client' \in Clients /\ ClientHearsAll'
           /\ heard' \in Heard
<1>1. PICK text \in BOOLEAN, calls \in SUBSET Slots, finish \in FinishReasons :
        \E readable \in SUBSET calls :
          LET order == SetToSeq(calls)
              said(t) == IF t \in readable THEN <<1>> ELSE <<>>
              blocks == (IF text THEN <<Block(None, <<1>>, FALSE)>> ELSE <<>>)
                          \o [i \in DOMAIN order |-> Block(order[i], said(order[i]), FALSE)]
          IN /\ Answered([client EXCEPT !.blocks = blocks, !.ended = TRUE,
                                        !.stop = stop_reason_for(finish, calls # {})])
             /\ heard' = [text |-> IF text THEN {1} ELSE {},
                          arguments |-> [t \in Slots |-> said(t)],
                          called |-> calls, finish |-> finish, pieces |-> 1]
  BY DEF _once
<1>2. PICK readable \in SUBSET calls :
          LET order == SetToSeq(calls)
              said(t) == IF t \in readable THEN <<1>> ELSE <<>>
              blocks == (IF text THEN <<Block(None, <<1>>, FALSE)>> ELSE <<>>)
                          \o [i \in DOMAIN order |-> Block(order[i], said(order[i]), FALSE)]
          IN /\ Answered([client EXCEPT !.blocks = blocks, !.ended = TRUE,
                                        !.stop = stop_reason_for(finish, calls # {})])
             /\ heard' = [text |-> IF text THEN {1} ELSE {},
                          arguments |-> [t \in Slots |-> said(t)],
                          called |-> calls, finish |-> finish, pieces |-> 1]
  BY <1>1
<1> DEFINE order == SetToSeq(calls)
           said(t) == IF t \in readable THEN <<1>> ELSE <<>>
           first == IF text THEN <<Block(None, <<1>>, FALSE)>> ELSE <<>>
           others == [i \in DOMAIN order |-> Block(order[i], said(order[i]), FALSE)]
           blocks == first \o others
           reason == stop_reason_for(finish, calls # {})
           f == Len(first)
           n == Cardinality(calls)
<1>3. /\ client' = [[client EXCEPT !.blocks = blocks, !.ended = TRUE, !.stop = reason] EXCEPT !.waiting = FALSE]
      /\ heard' = [text |-> IF text THEN {1} ELSE {}, arguments |-> [t \in Slots |-> said(t)],
                   called |-> calls, finish |-> finish, pieces |-> 1]
  BY <1>2 DEF Answered
<1>4. /\ order \in [1..n -> calls] /\ n \in Nat
      /\ \A c \in calls : \E i \in 1..n : order[i] = c
      /\ \A i, j \in 1..n : order[i] = order[j] => i = j
  <2>1. IsFiniteSet(calls)
    BY CallsAssumption, FS_Subset
  <2>2. /\ order \in [1..n -> calls] /\ n \in Nat
        /\ \A c \in calls : \E i \in DOMAIN order : order[i] = c
        /\ \A i, j \in DOMAIN order : order[i] = order[j] => i = j
    BY <2>1, Listed
  <2> QED
    BY <2>2
<1> HIDE DEF order, n
<1>5. \A t : said(t) \in Seq(Nat)
  OBVIOUS
<1>6. /\ others \in Seq(Blocks) /\ Len(others) = n
      /\ \A i \in 1..n : others[i].slot = order[i] /\ others[i].parts = said(order[i]) /\ order[i] \in calls
  <2>1. \A i \in 1..n : /\ Block(order[i], said(order[i]), FALSE) \in Blocks /\ order[i] \in calls
                        /\ Block(order[i], said(order[i]), FALSE).slot = order[i]
                        /\ Block(order[i], said(order[i]), FALSE).parts = said(order[i])
    BY <1>4, <1>5 DEF Block, Blocks
  <2>2. others = [i \in 1..n |-> Block(order[i], said(order[i]), FALSE)]
    BY <1>4
  <2>3. others \in [1..n -> Blocks]
    BY <2>1, <2>2
  <2>4. \A i \in 1..n : others[i] = Block(order[i], said(order[i]), FALSE)
    BY <2>2
  <2> HIDE DEF others
  <2>5. others \in Seq(Blocks) /\ Len(others) = n
    BY <1>4, <2>3
  <2> QED
    BY <2>1, <2>4, <2>5
<1>7. /\ first \in Seq(Blocks) /\ f = IF text THEN 1 ELSE 0
      /\ text => first[1].slot = None /\ first[1].parts = <<1>>
  <2> DEFINE b == Block(None, <<1>>, FALSE)
  <2>1. b \in Blocks /\ b.slot = None /\ b.parts = <<1>>
    BY DEF Block, Blocks
  <2> HIDE DEF b
  <2>2. first = IF text THEN <<b>> ELSE <<>>
    BY DEF b
  <2> HIDE DEF first
  <2>3. CASE text
    BY <2>1, <2>2, <2>3
  <2>4. CASE ~text
    BY <2>2, <2>4
  <2> QED
    BY <2>3, <2>4
<1> HIDE DEF first, others, f
<1>8. /\ blocks \in Seq(Blocks) /\ Len(blocks) = f + n
      /\ f = 1 => blocks[1].slot = None /\ blocks[1].parts = <<1>>
      /\ \A i \in 1..n : /\ blocks[f + i].slot = order[i] /\ blocks[f + i].parts = said(order[i])
                         /\ order[i] \in calls
  <2>1. /\ first \o others \in Seq(Blocks) /\ Len(first \o others) = Len(first) + Len(others)
        /\ \A i \in 1..(Len(first) + Len(others)) :
              (first \o others)[i] = IF i <= Len(first) THEN first[i] ELSE others[i - Len(first)]
    BY <1>6, <1>7, ConcatProperties
  <2>2. Len(first) = f /\ Len(others) = n /\ f \in {0, 1}
    BY <1>6, <1>7 DEF f
  <2>3. f = 1 => (first \o others)[1] = first[1]
    BY <1>4, <2>1, <2>2
  <2>4. ASSUME NEW i \in 1..n
        PROVE  (first \o others)[f + i] = others[i]
    <3>1. f + i \in 1..(f + n) /\ ~ (f + i <= f) /\ f + i - f = i
      BY <1>4, <2>2
    <3> QED
      BY <2>1, <2>2, <3>1
  <2> QED
    BY <1>6, <1>7, <2>1, <2>2, <2>3, <2>4
<1> HIDE DEF blocks
<1>9. f \in {0, 1} /\ (f = 1 <=> text)
  BY <1>7
<1>10. ASSUME NEW k \in 1..Len(blocks), k # 1 \/ f # 1
       PROVE  k - f \in 1..n /\ k = f + (k - f)
  BY <1>4, <1>8, <1>9, <1>10
<1>11. None \notin calls
  BY NoneAssumption
<1>12. ASSUME NEW k \in 1..Len(blocks)
       PROVE  /\ k = 1 /\ f = 1 => blocks[k].slot = None
              /\ k # 1 \/ f # 1 => blocks[k].slot = order[k - f] /\ blocks[k].slot # None
  BY <1>8, <1>10, <1>11, <1>12
<1>13. textIsWhole(blocks, IF text THEN {1} ELSE {})
  <2>1. ASSUME NEW p \in textPlaces(blocks)
        PROVE  text /\ p = <<1, 1>> /\ read(blocks, p) = 1
    <3>1. /\ p = <<p[1], p[2]>> /\ p[1] \in 1..Len(blocks) /\ blocks[p[1]].slot = None
          /\ p[2] \in 1..Len(blocks[p[1]].parts)
      BY <1>8, Places
    <3>2. p[1] = 1 /\ f = 1
      BY <1>12, <3>1
    <3>3. blocks[p[1]].parts = <<1>>
      BY <1>8, <3>2
    <3>4. Len(<<1>>) = 1 /\ <<1>>[1] = 1
      OBVIOUS
    <3>5. p[2] \in 1..1
      BY <3>1, <3>3, <3>4
    <3>6. p[2] = 1
      BY <3>5
    <3> QED
      BY <1>9, <3>1, <3>2, <3>3, <3>4, <3>6 DEF read
  <2>2. text => <<1, 1>> \in textPlaces(blocks) /\ read(blocks, <<1, 1>>) = 1
    <3> HAVE text
    <3>1. f = 1 /\ 1 \in 1..Len(blocks) /\ blocks[1].slot = None /\ blocks[1].parts = <<1>>
      BY <1>4, <1>8, <1>9
    <3>2. 1 \in 1..Len(blocks[1].parts) /\ blocks[1].parts[1] = 1
      BY <3>1
    <3>3. /\ <<1, 1>> \in textPlaces(blocks)
          /\ read(blocks, <<1, 1>>) = blocks[1].parts[1]
      <4>1. \A l \in 1..Len(blocks[1].parts) : /\ <<1, l>> \in textPlaces(blocks)
                                               /\ read(blocks, <<1, l>>) = blocks[1].parts[l]
        BY <1>8, <3>1, Places
      <4> QED
        BY <3>2, <4>1
    <3> QED
      BY <3>2, <3>3
  <2>3. {read(blocks, p) : p \in textPlaces(blocks)} = IF text THEN {1} ELSE {}
    BY <2>1, <2>2
  <2>4. \A p, q \in textPlaces(blocks) : ~ readsBefore(p, q)
    <3> SUFFICES ASSUME NEW p \in textPlaces(blocks), NEW q \in textPlaces(blocks)
                 PROVE  ~ readsBefore(p, q)
      OBVIOUS
    <3>1. p = <<1, 1>> /\ q = <<1, 1>>
      BY <2>1
    <3> QED
      BY <3>1 DEF readsBefore
  <2> QED
    BY <2>3, <2>4 DEF textIsWhole
<1>14. callsAreWhole(blocks, calls, [t \in Slots |-> said(t)])
  <2>1. DOMAIN blocks = 1..Len(blocks)
    BY <1>8, BlockFacts
  <2>2. ASSUME NEW t \in calls
        PROVE  \E k \in 1..Len(blocks) : blocks[k].slot = t /\ blocks[k].parts = said(t)
    <3>1. PICK i \in 1..n : order[i] = t
      BY <1>4
    <3>2. f + i \in 1..Len(blocks)
      BY <1>4, <1>8, <1>9
    <3> QED
      BY <1>8, <3>1, <3>2
  <2>3. ASSUME NEW k \in 1..Len(blocks), blocks[k].slot # None
        PROVE  k - f \in 1..n /\ k = f + (k - f) /\ blocks[k].slot = order[k - f] /\ blocks[k].slot \in calls
    <3>1. k # 1 \/ f # 1
      BY <1>12, <2>3
    <3>2. k - f \in 1..n /\ k = f + (k - f)
      BY <1>10, <3>1
    <3> QED
      BY <1>8, <3>2
  <2>4. ASSUME NEW k \in 1..Len(blocks), blocks[k].slot # None,
               NEW j \in 1..Len(blocks), blocks[j].slot = blocks[k].slot
        PROVE  j = k
    <3>1. /\ k - f \in 1..n /\ k = f + (k - f) /\ blocks[k].slot = order[k - f]
          /\ j - f \in 1..n /\ j = f + (j - f) /\ blocks[j].slot = order[j - f]
      BY <2>3, <2>4
    <3>2. k - f = j - f
      BY <1>4, <2>4, <3>1
    <3> QED
      BY <1>9, <3>1, <3>2
  <2>5. \A t \in calls : [s \in Slots |-> said(s)][t] = said(t)
    OBVIOUS
  <2> HIDE DEF said
  <2> QED
    BY <2>1, <2>2, <2>3, <2>4, <2>5 DEF callsAreWhole
<1>15. reason \in {"max_tokens", "tool_use", "end_turn"}
  BY DEF stop_reason_for
<1>16. /\ finish = "length" => reason = "max_tokens"
       /\ finish = "content_filter" => reason = "end_turn"
       /\ finish \in {"stop", "tool_calls"} /\ calls # {} => reason = "tool_use"
  BY DEF stop_reason_for
<1> HIDE DEF reason
<1>17. ~ client.confused /\ client \in Clients /\ phase' = "done"
  BY <1>2 DEF RequestInv, RelayTypeOK, _once, Answered
<1>18. /\ client' \in Clients /\ client'.blocks = blocks /\ client'.stop = reason
       /\ ~ client'.confused /\ ~ client'.waiting
  BY <1>3, <1>8, <1>15, <1>17 DEF Clients
<1>19. /\ heard'.text = (IF text THEN {1} ELSE {}) /\ heard'.called = calls /\ heard'.finish = finish
       /\ heard'.arguments = [t \in Slots |-> said(t)]
  BY <1>3
<1>20. heard' \in Heard
  <2>1. [t \in Slots |-> said(t)] \in [Slots -> Seq(Nat)]
    BY <1>5
  <2> HIDE DEF said
  <2> QED
    BY <1>3, <2>1 DEF Heard
<1> HIDE DEF said
<1> QED
  BY <1>13, <1>14, <1>16, <1>17, <1>18, <1>19, <1>20 DEF ClientHearsAll

(* What may stand at a place looks only at the messages before it. *)
LEMMA StandsOn ==
    ASSUME NEW messages \in Seq(Messages), NEW x \in Messages, NEW m,
           NEW i \in 1..(Len(messages) + 1), mayStand(m, messages, i)
    PROVE  mayStand(m, Append(messages, x), i)
<1> DEFINE new == Append(messages, x)
<1>1. Len(messages) \in Nat /\ \A k \in 1..(i - 1) : k \in 1..Len(messages) /\ new[k] = messages[k]
  <2>1. Len(messages) \in Nat /\ \A k \in 1..Len(messages) : new[k] = messages[k]
    BY AppendProperties, LenProperties
  <2> QED
    BY <2>1
<1> HIDE DEF new
<1>2. \A k \in 1..(i - 1) : turnBefore(messages, i, k) => turnBefore(new, i, k)
  <2> SUFFICES ASSUME NEW k \in 1..(i - 1), turnBefore(messages, i, k)
               PROVE  turnBefore(new, i, k)
    OBVIOUS
  <2>1. ASSUME NEW j \in (k + 1)..(i - 1) PROVE new[j].role = "system"
    <3>1. j \in 1..(i - 1)
      BY <1>1
    <3> QED
      BY <1>1, <3>1 DEF turnBefore
  <2> QED
    BY <1>1, <2>1 DEF turnBefore
<1>3. m.text \/ m.calls # {}
  BY DEF mayStand
<1>4. CASE m.role = "system"
  BY <1>3, <1>4 DEF mayStand, new
<1>5. CASE m.role = "assistant"
  <2>1. PICK k \in 1..(i - 1) : turnBefore(messages, i, k) /\ messages[k].role = "user"
    BY <1>5 DEF mayStand
  <2>2. turnBefore(new, i, k) /\ new[k].role = "user"
    BY <1>1, <1>2, <2>1
  <2>3. \A j \in 1..(i - 1) : m.calls \cap new[j].calls = {}
    BY <1>1, <1>5 DEF mayStand
  <2> QED
    BY <1>3, <1>5, <2>2, <2>3 DEF mayStand, new
<1>6. CASE m.role = "user"
  <2>1. CASE \A k \in 1..(i - 1) : messages[k].role = "system"
    <3>1. m.calls = {}
      BY <1>6, <2>1 DEF mayStand
    <3>2. \A k \in 1..(i - 1) : new[k].role = "system"
      BY <1>1, <2>1
    <3> QED
      BY <1>3, <1>6, <3>1, <3>2 DEF mayStand, new
  <2>2. CASE ~ \A k \in 1..(i - 1) : messages[k].role = "system"
    <3>1. PICK k \in 1..(i - 1) : /\ turnBefore(messages, i, k) /\ messages[k].role = "assistant"
                                  /\ m.calls = messages[k].calls
      BY <1>6, <2>2 DEF mayStand
    <3>2. turnBefore(new, i, k) /\ new[k].role = "assistant" /\ m.calls = new[k].calls
      BY <1>1, <1>2, <3>1
    <3>3. ~ \A j \in 1..(i - 1) : new[j].role = "system"
      BY <1>1, <2>2
    <3> QED
      BY <1>3, <1>6, <3>2, <3>3 DEF mayStand, new
  <2> QED
    BY <2>1, <2>2
<1> QED
  BY <1>4, <1>5, <1>6 DEF mayStand

(* The relay starts in the invariant.                                      *)
LEMMA RelayInitial ==
    ASSUME RelayInit PROVE RelayTypeOK /\ RelayInv
<1>1. Nothing \in Heard
  BY DEF Nothing, Heard
<1>2. stream \in Streams(SlotsUpTo(stream.index))
  <2>1. stream.tool_slot \in [{} -> 0..stream.index] /\ {} \in SUBSET Slots
    BY DEF RelayInit
  <2>2. stream.tool_slot \in SlotsUpTo(stream.index)
    BY <2>1 DEF SlotsUpTo
  <2>3. stream = [index |-> -1, open_kind |-> None, tool_slot |-> stream.tool_slot, finish |-> "stop"]
    BY DEF RelayInit
  <2> QED
    BY <2>2, <2>3 DEF FinishReasons, Streams
<1>3. RelayTypeOK
  <2>1. client \in Clients
    BY DEF RelayInit, Clients
  <2>2. conversation \in Seq(Messages) /\ position \in 0..Len(conversation) /\ body \in Seq(Messages)
    BY DEF RelayInit
  <2>3. heard = Nothing /\ phase = "composing"
    BY DEF RelayInit
  <2> QED
    BY <1>1, <1>2, <2>1, <2>2, <2>3 DEF RelayTypeOK
<1>4. RequestInv
  BY DEF RelayInit, RequestInv
<1> QED
  BY <1>3, <1>4 DEF RelayInit, RelayInv

(* A turn is added to the conversation. *)
LEMMA SayStep ==
    ASSUME RelayTypeOK, RelayInv, Say
    PROVE  RelayTypeOK' /\ RelayInv'
<1>1. PICK role \in {"system", "user", "assistant"}, text \in BOOLEAN, calls \in SUBSET Calls :
          /\ mayStand(Message(role, text, calls), conversation, Len(conversation) + 1)
          /\ conversation' = Append(conversation, Message(role, text, calls))
  BY DEF Say
<1> DEFINE m == Message(role, text, calls)
<1>2. m \in Messages
  BY DEF Message, Messages
<1> HIDE DEF m
<1>3. /\ mayStand(m, conversation, Len(conversation) + 1) /\ conversation' = Append(conversation, m)
      /\ conversation \in Seq(Messages) /\ phase = "composing" /\ phase' = "composing"
      /\ UNCHANGED <<position, body, stream, client, heard>>
  BY <1>1 DEF m, Say, RelayTypeOK
<1>4. /\ conversation' \in Seq(Messages) /\ Len(conversation) \in Nat
      /\ Len(conversation') = Len(conversation) + 1
      /\ conversation'[Len(conversation) + 1] = m
      /\ \A i \in 1..Len(conversation) : conversation'[i] = conversation[i]
  BY <1>2, <1>3, AppendProperties, LenProperties
<1>5. DOMAIN conversation' = 1..(Len(conversation) + 1) /\ DOMAIN conversation = 1..Len(conversation)
  BY <1>3, <1>4, LenProperties
<1>6. ASSUME NEW i \in DOMAIN conversation'
      PROVE  mayStand(conversation'[i], conversation', i)
  <2>1. mayStand(conversation'[i], conversation, i)
    <3>1. CASE i = Len(conversation) + 1
      BY <1>3, <1>4, <3>1
    <3>2. CASE i # Len(conversation) + 1
      <4>1. i \in 1..Len(conversation)
        BY <1>4, <1>5, <3>2
      <4> QED
        BY <1>4, <1>5, <4>1 DEF RelayInv, RequestInv
    <3> QED
      BY <3>1, <3>2
  <2> QED
    BY <1>2, <1>3, <1>5, <2>1, StandsOn
<1>7. RequestInv'
  BY <1>3, <1>6 DEF RelayInv, RequestInv
<1>8. RelayTypeOK'
  <2>1. position' \in 0..Len(conversation')
    BY <1>3, <1>4 DEF RelayTypeOK
  <2> QED
    BY <1>3, <1>4, <2>1 DEF RelayTypeOK
<1> QED
  BY <1>3, <1>7, <1>8 DEF RelayInv

(* Before the first message is converted nothing is waiting for a result. *)
LEMMA PostStep ==
    ASSUME RelayTypeOK, RelayInv, do_POST
    PROVE  RelayTypeOK' /\ RelayInv'
<1>1. /\ phase = "composing" /\ phase' = "converting" /\ client' = [client EXCEPT !.waiting = TRUE]
      /\ UNCHANGED <<conversation, position, body, stream, heard>>
      /\ \E k \in DOMAIN conversation :
            turnBefore(conversation, Len(conversation) + 1, k) /\ conversation[k].role = "user"
  BY DEF do_POST
<1>2. RequestInv /\ position = 0 /\ body = <<>>
  BY <1>1 DEF RelayInv, RequestInv
<1>3. ConvertedInv'
  BY <1>1, <1>2 DEF ConvertedInv, resultsInPlace
<1>4. /\ client' \in Clients /\ client'.blocks = client.blocks /\ client'.ended = client.ended
      /\ client'.confused = client.confused
  BY <1>1 DEF RelayTypeOK, Clients
<1>5. RelayTypeOK'
  BY <1>1, <1>4 DEF RelayTypeOK
<1>6. RequestInv'
  BY <1>1, <1>2, <1>3, <1>4 DEF RequestInv
<1> QED
  BY <1>1, <1>5, <1>6 DEF RelayInv

(* A request that is over, or whose answer comes, leaves no conversation. *)
LEMMA Forgotten ==
    ASSUME RelayTypeOK, RequestInv, phase' \in {"streaming", "done"},
           Forget \/ (phase = "streaming" /\ UNCHANGED <<conversation, position, body>>)
    PROVE  /\ RequestInv'
           /\ conversation' \in Seq(Messages) /\ position' \in 0..Len(conversation') /\ body' \in Seq(Messages)
<1>1. CASE Forget
  BY <1>1 DEF Forget, RequestInv
<1>2. CASE phase = "streaming" /\ UNCHANGED <<conversation, position, body>>
  BY <1>2 DEF RequestInv, RelayTypeOK
<1> QED
  BY <1>1, <1>2

(* An answer that says nothing holds nothing. *)
LEMMA ErrStep ==
    ASSUME RelayTypeOK, RelayInv, _err
    PROVE  RelayTypeOK' /\ RelayInv'
<1>1. /\ phase \in {"upstream", "converting"} /\ phase' = "done" /\ Forget
      /\ client' = [client EXCEPT !.waiting = FALSE] /\ UNCHANGED <<stream, heard>>
  BY DEF _err, Answered
<1>2. RequestInv
  BY DEF RelayInv
<1>3. client.blocks = <<>> /\ ~ client.ended /\ ~ client.confused /\ heard = Nothing
  BY <1>1, <1>2 DEF RequestInv
<1>4. /\ client' \in Clients /\ client'.blocks = <<>> /\ ~ client'.ended /\ ~ client'.confused
      /\ ~ client'.waiting
  BY <1>1, <1>3 DEF RelayTypeOK, Clients
<1>5. ClientHearsAll'
  <2>1. heard'.text = {} /\ heard'.called = {}
    BY <1>1, <1>3 DEF Nothing
  <2>2. textIsWhole(client'.blocks, heard'.text) /\ callsAreWhole(client'.blocks, heard'.called, heard'.arguments)
    BY <1>4, <2>1, NothingHeard
  <2> QED
    BY <1>4, <2>2 DEF ClientHearsAll
<1>6. /\ RequestInv' /\ conversation' \in Seq(Messages) /\ position' \in 0..Len(conversation')
      /\ body' \in Seq(Messages)
  BY <1>1, <1>2, Forgotten
<1>7. RelayTypeOK'
  BY <1>1, <1>4, <1>6 DEF RelayTypeOK
<1> QED
  BY <1>1, <1>5, <1>6, <1>7 DEF RelayInv

(* A stream starts with nothing heard and no block. *)
LEMMA StartStep ==
    ASSUME RelayTypeOK, RelayInv, _stream
    PROVE  RelayTypeOK' /\ RelayInv'
<1>1. phase = "upstream" /\ phase' = "streaming" /\ Forget /\ UNCHANGED <<stream, client, heard>>
  BY DEF _stream
<1>2. RequestInv
  BY DEF RelayInv
<1>3. /\ stream.index = -1 /\ stream.open_kind = None /\ stream.tool_slot = [t \in {} |-> 0]
      /\ stream.finish = "stop"
      /\ client.blocks = <<>> /\ ~ client.ended /\ ~ client.confused /\ heard = Nothing
  BY <1>1, <1>2 DEF RequestInv
<1>4. /\ heard.text = {} /\ heard.called = {} /\ heard.finish = None
      /\ \A t \in Slots : heard.arguments[t] = <<>>
  BY <1>3 DEF Nothing
<1>5. BlocksInv
  BY <1>3, <1>4 DEF BlocksInv
<1>6. StreamInv
  <2>1. textIsWhole(client.blocks, heard.text)
    BY <1>3, <1>4, NothingHeard
  <2> QED
    BY <1>3, <1>4, <1>5, <2>1 DEF StreamInv
<1>7. StreamInv'
  BY <1>1, <1>6 DEF StreamInv, BlocksInv
<1>8. /\ RequestInv' /\ conversation' \in Seq(Messages) /\ position' \in 0..Len(conversation')
      /\ body' \in Seq(Messages)
  BY <1>1, <1>2, Forgotten
<1>9. RelayTypeOK'
  BY <1>1, <1>8 DEF RelayTypeOK
<1> QED
  BY <1>1, <1>7, <1>8, <1>9 DEF RelayInv

(* A reason changes nothing but the reason. *)
LEMMA FinishStep ==
    ASSUME RelayTypeOK, StreamInv, FinishReason
    PROVE  /\ stream' \in Streams(SlotsUpTo(stream'.index))
           /\ client' \in Clients
           /\ heard' \in Heard
           /\ StreamInv'
<1>1. PICK finish \in FinishReasons : /\ stream' = [stream EXCEPT !.finish = finish]
                                      /\ heard' = [heard EXCEPT !.finish = finish]
  BY DEF FinishReason
<1>2. /\ stream'.index = stream.index /\ stream'.open_kind = stream.open_kind
      /\ stream'.tool_slot = stream.tool_slot /\ stream'.finish = finish
      /\ heard'.text = heard.text /\ heard'.pieces = heard.pieces /\ heard'.called = heard.called
      /\ heard'.arguments = heard.arguments /\ heard'.finish = finish /\ client' = client
  BY <1>1 DEF RelayTypeOK, FinishReason, Streams
<1>3. finish # None
  BY NoneAssumption
<1>4. BlocksInv'
  BY <1>2 DEF StreamInv, BlocksInv
<1>5. StreamInv'
  BY <1>2, <1>3, <1>4 DEF StreamInv
<1>6. /\ client' \in Clients
      /\ heard' \in Heard
  BY <1>1, <1>2 DEF RelayTypeOK, Heard
<1>7. stream' \in Streams(SlotsUpTo(stream'.index))
  <2>1. stream.tool_slot \in SlotsUpTo(stream.index)
    BY DEF RelayTypeOK, Streams
  <2>2. stream' \in Streams({stream.tool_slot})
    BY <1>1 DEF RelayTypeOK, Streams
  <2> QED
    BY <1>2, <2>1, <2>2 DEF Streams
<1> QED
  BY <1>5, <1>6, <1>7

(* A stream that breaks off leaves what it has brought. *)
LEMMA AbortStep ==
    ASSUME RelayTypeOK, StreamInv, StreamAborts
    PROVE  client' \in Clients /\ ClientHearsAll'
<1>1. /\ client' = [client EXCEPT !.waiting = FALSE] /\ phase' = "done" /\ UNCHANGED <<stream, heard>>
  BY DEF StreamAborts, Hangup, closes_connection
<1>2. /\ client' \in Clients /\ client'.blocks = client.blocks /\ ~ client'.ended /\ ~ client'.confused
      /\ ~ client'.waiting
  BY <1>1 DEF RelayTypeOK, Clients, StreamInv, BlocksInv
<1>3. textIsWhole(client.blocks, heard.text) /\ callsAreWhole(client.blocks, heard.called, heard.arguments)
  BY CallsInBlocks DEF StreamInv
<1>4. heard' = heard
  BY <1>1
<1> QED
  BY <1>2, <1>3, <1>4 DEF ClientHearsAll

(* One round of the loop, and its end, with what they leave alone. *)
LEMMA LoopStep ==
    ASSUME RelayTypeOK, RelayInv, to_openai
    PROVE  RelayTypeOK' /\ RelayInv'
<1>1. /\ phase = "converting" /\ position < Len(conversation) /\ position' = position + 1
      /\ UNCHANGED <<conversation, phase, stream, client, heard>>
  BY DEF to_openai
<1>2. RequestInv
  BY DEF RelayInv
<1>3. body' \in Seq(Messages) /\ ConvertedInv'
  BY <1>2, ConvertStep
<1>4. RequestInv'
  BY <1>1, <1>2, <1>3 DEF RequestInv
<1>5. RelayTypeOK'
  <2>1. position' \in 0..Len(conversation') /\ conversation' \in Seq(Messages)
    BY <1>1, LenProperties DEF RelayTypeOK
  <2> QED
    BY <1>1, <1>3, <2>1 DEF RelayTypeOK
<1> QED
  BY <1>1, <1>4, <1>5 DEF RelayInv

(* The end of the loop puts the system message in front.                   *)
LEMMA SendStep ==
    ASSUME RelayTypeOK, RelayInv, upstream
    PROVE  RelayTypeOK' /\ RelayInv'
<1>1. /\ phase = "converting" /\ phase' = "upstream"
      /\ UNCHANGED <<conversation, position, stream, client, heard>>
  BY DEF upstream
<1>2. RequestInv
  BY DEF RelayInv
<1>3. body' \in Seq(Messages) /\ ServerAccepts'
  BY <1>2, UpstreamStep
<1>4. RequestInv'
  BY <1>1, <1>2 DEF RequestInv
<1>5. RelayTypeOK'
  BY <1>1, <1>3 DEF RelayTypeOK
<1> QED
  BY <1>1, <1>3, <1>4, <1>5 DEF RelayInv

(* The invariant says what is promised to the server and to the client. *)
LEMMA RelayPromises ==
    ASSUME RelayTypeOK, RelayInv
    PROVE  ServerAccepts /\ ClientHearsAll
<1>1. ServerAccepts
  <2>1. CASE phase \in {"composing", "streaming", "done"}
    <3>1. body = <<>>
      BY <2>1 DEF RelayInv, RequestInv
    <3> QED
      BY <2>1, <3>1 DEF ServerAccepts, resultsInPlace
  <2>2. CASE phase = "converting"
    <3>1. ConvertedInv
      BY <2>2 DEF RelayInv, RequestInv
    <3> QED
      BY <2>2, <3>1 DEF ServerAccepts, ConvertedInv
  <2>3. CASE phase = "upstream"
    BY <2>3 DEF RelayInv
  <2> QED
    BY <2>1, <2>2, <2>3 DEF RelayTypeOK
<1>2. ClientHearsAll
  <2>1. CASE phase \in {"composing", "converting", "upstream"}
    <3>1. client.blocks = <<>> /\ ~ client.ended /\ ~ client.confused /\ heard = Nothing
      BY <2>1 DEF RelayInv, RequestInv
    <3>2. heard.text = {} /\ heard.called = {}
      BY <3>1 DEF Nothing
    <3>3. textIsWhole(client.blocks, heard.text) /\ callsAreWhole(client.blocks, heard.called, heard.arguments)
      BY <3>1, <3>2, NothingHeard
    <3> QED
      BY <2>1, <3>1, <3>3 DEF ClientHearsAll
  <2>2. CASE phase = "streaming"
    <3>1. StreamInv
      BY <2>2 DEF RelayInv
    <3>2. callsAreWhole(client.blocks, heard.called, heard.arguments)
      BY <3>1, CallsInBlocks
    <3> QED
      BY <2>2, <3>1, <3>2 DEF ClientHearsAll, StreamInv, BlocksInv
  <2>3. CASE phase = "done"
    BY <2>3 DEF RelayInv
  <2> QED
    BY <2>1, <2>2, <2>3 DEF RelayTypeOK
<1> QED
  BY <1>1, <1>2

(* Every step of the relay, of the server and of the client keeps the      *)
(* types and the reasons why conversations are accepted and answers are    *)
(* whole (nebius-relay.py).                                                *)
THEOREM RelayInvariance == RelaySpec => [](RelayTypeOK /\ RelayInv)
<1>1. RelayInit => RelayTypeOK /\ RelayInv
  BY RelayInitial
<1>2. RelayTypeOK /\ RelayInv /\ [RelayNext]_relayVars => RelayTypeOK' /\ RelayInv'
  <2> SUFFICES ASSUME RelayTypeOK, RelayInv, [RelayNext]_relayVars
               PROVE  RelayTypeOK' /\ RelayInv'
    OBVIOUS
  <2>0. RequestInv
    BY DEF RelayInv
  <2>1. CASE Say
    BY <2>1, SayStep
  <2>2. CASE do_POST
    BY <2>2, PostStep
  <2>3. CASE to_openai
    BY <2>3, LoopStep
  <2>4. CASE upstream
    BY <2>4, SendStep
  <2>5. CASE _err
    BY <2>5, ErrStep
  <2>6. CASE _once
    <3>1. phase' = "done" /\ Forget /\ UNCHANGED stream
      BY <2>6 DEF _once, Answered
    <3>2. /\ client' \in Clients /\ ClientHearsAll'
          /\ heard' \in Heard
      BY <2>0, <2>6, OnceStep
    <3>3. /\ RequestInv' /\ conversation' \in Seq(Messages) /\ position' \in 0..Len(conversation')
          /\ body' \in Seq(Messages)
      BY <2>0, <3>1, Forgotten
    <3>4. RelayTypeOK'
      BY <3>1, <3>2, <3>3 DEF RelayTypeOK
    <3> QED
      BY <3>1, <3>2, <3>3, <3>4 DEF RelayInv
  <2>7. CASE _stream
    BY <2>7, StartStep
  <2>8. CASE TextPiece \/ CallPiece \/ FinishReason
    <3>1. phase = "streaming" /\ UNCHANGED <<conversation, phase, position, body>>
      BY <2>8 DEF TextPiece, CallPiece, FinishReason
    <3>2. StreamInv
      BY <3>1 DEF RelayInv
    <3>3. /\ stream' \in Streams(SlotsUpTo(stream'.index))
          /\ client' \in Clients
          /\ heard' \in Heard
          /\ StreamInv'
      BY <2>8, <3>2, TextStep, CallStep, FinishStep
    <3>4. /\ RequestInv' /\ conversation' \in Seq(Messages) /\ position' \in 0..Len(conversation')
          /\ body' \in Seq(Messages)
      BY <2>0, <3>1, Forgotten
    <3>5. RelayTypeOK'
      BY <3>1, <3>3, <3>4 DEF RelayTypeOK
    <3> QED
      BY <3>1, <3>3, <3>4, <3>5 DEF RelayInv
  <2>9. CASE StreamEnds \/ StreamAborts
    <3>1. /\ phase = "streaming" /\ phase' = "done"
          /\ UNCHANGED <<conversation, position, body, heard>>
      BY <2>9 DEF StreamEnds, StreamAborts
    <3>2. StreamInv
      BY <3>1 DEF RelayInv
    <3>3. /\ stream' \in Streams(SlotsUpTo(stream'.index))
          /\ client' \in Clients /\ ClientHearsAll'
      <4>1. CASE StreamEnds
        BY <3>2, <4>1, EndStep
      <4>2. CASE StreamAborts
        <5>1. stream' = stream
          BY <4>2 DEF StreamAborts
        <5> QED
          BY <3>2, <4>2, <5>1, AbortStep DEF RelayTypeOK
      <4> QED
        BY <2>9, <4>1, <4>2
    <3>4. /\ RequestInv' /\ conversation' \in Seq(Messages) /\ position' \in 0..Len(conversation')
          /\ body' \in Seq(Messages)
      BY <2>0, <3>1, Forgotten
    <3>5. RelayTypeOK'
      BY <3>1, <3>3, <3>4 DEF RelayTypeOK
    <3> QED
      BY <3>1, <3>3, <3>4, <3>5 DEF RelayInv
  <2>10. CASE UNCHANGED relayVars
    BY <2>10 DEF relayVars, RelayTypeOK, RelayInv, RequestInv, ConvertedInv, ServerAccepts, StreamInv,
                 BlocksInv, ClientHearsAll
  <2> QED
    BY <2>1, <2>2, <2>3, <2>4, <2>5, <2>6, <2>7, <2>8, <2>9, <2>10 DEF RelayNext
<1> QED
  BY <1>1, <1>2, PTL DEF RelaySpec

(* The variables of the relay keep their types: the block of every slot is *)
(* one that has been opened.                                               *)
THEOREM RelayTypeCorrect == RelaySpec => []RelayTypeOK
BY RelayInvariance, PTL

(* Whatever a client says in turns, what the relay sends leads with the    *)
(* system message and answers every call right behind it (to_openai).      *)
THEOREM ServersAccept == RelaySpec => []ServerAccepts
<1>1. RelayTypeOK /\ RelayInv => ServerAccepts
  BY RelayPromises
<1> QED
  BY <1>1, RelayInvariance, PTL

(* Whatever the server streams, and wherever it ends or breaks off, a      *)
(* client that takes arguments for a closed block has the text whole and   *)
(* in order and each call in one block with its arguments; and if the      *)
(* server gave a reason for the end, a cut or filtered answer is not       *)
(* passed off as another (_stream, _once).  Of an end without a reason     *)
(* nothing is claimed.                                                     *)
THEOREM ClientsHearAll == RelaySpec => []ClientHearsAll
<1>1. RelayTypeOK /\ RelayInv => ClientHearsAll
  BY RelayPromises
<1> QED
  BY <1>1, RelayInvariance, PTL

=============================================================================
