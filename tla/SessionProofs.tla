---------------------------- MODULE SessionProofs ----------------------------
(***************************************************************************)
(* What holds of a practice pass and of a mock exam, for all questions,    *)
(* scopes, exam sizes and time limits.                                     *)
(***************************************************************************)
EXTENDS PracticeSession, MockExam, FiniteSetTheorems, SequenceTheorems, WellFoundedInduction,
        TLAPS

-----------------------------------------------------------------------------
(* Sets of numbers and their enumerations. *)

LEMMA LeastMember ==
  ASSUME NEW T, T \subseteq Nat, T # {}
  PROVE  \E n \in T : \A m \in T : n <= m
<1>1. IsWellFoundedOn(OpToRel(<, Nat), Nat)
  BY NatLessThanWellFounded
<1>2. PICK n \in T : \A m \in T : <<m, n>> \notin OpToRel(<, Nat)
  BY <1>1, WFMin
<1>3. ASSUME NEW m \in T, m < n PROVE FALSE
  BY <1>2, <1>3 DEF OpToRel
<1> QED
  BY <1>3

(* A finite set of numbers that is not empty has a greatest.               *)
LEMMA GreatestMember ==
  ASSUME NEW n \in Nat, NEW I \in SUBSET (1..n), I # {}
  PROVE  \E m \in I : \A i \in I : i <= m
<1> DEFINE Gaps == {n - i : i \in I}
<1>1. Gaps \subseteq Nat /\ Gaps # {}
  <2>1. \A i \in I : i \in 1..n /\ n - i \in Nat
    OBVIOUS
  <2> QED
    BY <2>1
<1>2. PICK g \in Gaps : \A h \in Gaps : g <= h
  BY <1>1, LeastMember
<1>3. PICK m \in I : g = n - m
  BY <1>2
<1>4. \A i \in I : n - m <= n - i
  BY <1>2, <1>3
<1> QED
  BY <1>4

Increases(f) == \A j, k \in DOMAIN f : j < k => f[j] < f[k]

(* The members of a set of numbers can be listed in their order.           *)
LEMMA Listed ==
  ASSUME NEW n \in Nat, NEW I \in SUBSET (1..n)
  PROVE  /\ IsFiniteSet(I) /\ Cardinality(I) \in Nat
         /\ \E f \in [1..Cardinality(I) -> I] : Increases(f)
<1>1. ASSUME NEW J \in SUBSET (1..n) PROVE IsFiniteSet(J) /\ Cardinality(J) \in Nat
  <2>1. 1 \in Int /\ n \in Int
    OBVIOUS
  <2>2. IsFiniteSet(1..n)
    BY <2>1, FS_Interval
  <2>3. IsFiniteSet(J)
    BY <2>2, FS_Subset
  <2> QED
    BY <2>3, FS_CardinalityType
<1> DEFINE Good(J) == \E f \in [1..Cardinality(J) -> J] : Increases(f)
           Bad == {c \in Nat : \E J \in SUBSET (1..n) : Cardinality(J) = c /\ ~ Good(J)}
<1>2. ASSUME NEW c \in Bad, \A d \in Bad : c <= d PROVE FALSE
  <2>1. PICK J \in SUBSET (1..n) : Cardinality(J) = c /\ ~ Good(J)
    BY <1>2
  <2>2. CASE J = {}
    <3>1. c = 0
      BY <2>1, <2>2, FS_EmptySet
    <3>2. PICK f : f = [j \in 1..0 |-> 0]
      OBVIOUS
    <3>3. f \in [1..c -> J] /\ Increases(f)
      BY <3>1, <3>2 DEF Increases
    <3> QED
      BY <2>1, <3>3
  <2>3. CASE J # {}
    <3>1. PICK m \in J : \A i \in J : i <= m
      BY <2>3, GreatestMember
    <3>2. PICK r : r = J \ {m}
      OBVIOUS
    <3>3. r \in SUBSET (1..n) /\ Cardinality(r) = c - 1 /\ Cardinality(r) \in Nat
      <4>1. IsFiniteSet(J) /\ r \in SUBSET (1..n)
        BY <1>1, <3>2
      <4>2. Cardinality(r) = c - 1
        BY <2>1, <3>1, <3>2, <4>1, FS_RemoveElement
      <4> QED
        BY <1>1, <4>1, <4>2
    <3>4. Good(r)
      <4>1. c - 1 \in Nat /\ ~ (c <= c - 1)
        BY <1>2, <3>3
      <4>2. c - 1 \notin Bad
        BY <1>2, <4>1
      <4> QED
        BY <3>3, <4>1, <4>2
    <3>5. PICK f \in [1..(c - 1) -> r] : Increases(f)
      BY <3>3, <3>4
    <3> DEFINE g == [j \in 1..c |-> IF j = c THEN m ELSE f[j]]
    <3>6. g \in [1..c -> J]
      BY <3>1, <3>2, <3>3, <3>5
    <3>7. ASSUME NEW j \in 1..c, NEW k \in 1..c, j < k PROVE g[j] < g[k]
      <4>1. j \in 1..(c - 1) /\ f[j] \in r /\ f[j] < m
        <5>1. c \in Nat /\ j \in 1..(c - 1)
          BY <1>2, <3>7
        <5>2. f[j] \in r
          BY <3>5, <5>1
        <5>3. f[j] \in J /\ f[j] # m
          BY <3>2, <5>2
        <5>4. \A i \in J : i \in Nat
          OBVIOUS
        <5>5. f[j] \in Nat /\ m \in Nat
          BY <3>1, <5>3, <5>4
        <5>6. f[j] <= m
          BY <3>1, <5>3
        <5> QED
          BY <5>1, <5>2, <5>3, <5>5, <5>6
      <4>2. CASE k = c
        BY <4>1, <4>2, <3>7
      <4>3. CASE k # c
        BY <3>5, <3>7, <4>1, <4>3 DEF Increases
      <4> QED
        BY <4>2, <4>3
    <3>8. Increases(g)
      BY <3>7 DEF Increases
    <3> QED
      BY <2>1, <3>6, <3>8
  <2> QED
    BY <2>2, <2>3
<1>3. Bad = {}
  BY <1>2, LeastMember
<1> QED
  BY <1>1, <1>3

(* A list of a finite set without repetitions has all its members.         *)
LEMMA ListsAll ==
  ASSUME NEW S, IsFiniteSet(S), NEW f \in [1..Cardinality(S) -> S],
         \A i, j \in 1..Cardinality(S) : i # j => f[i] # f[j]
  PROVE  \A x \in S : \E i \in 1..Cardinality(S) : f[i] = x
<1>1. Cardinality(S) \in Nat /\ f \in Injection(1..Cardinality(S), S)
  BY FS_CardinalityType DEF Injection, IsInjective
<1>2. Cardinality(1..Cardinality(S)) = Cardinality(S)
  BY <1>1, FS_Interval
<1>3. f \in Surjection(1..Cardinality(S), S)
  BY <1>1, <1>2, FS_Injection
<1> QED
  BY <1>3 DEF Surjection

-----------------------------------------------------------------------------
(* Queues. *)

Distinct(es) == \A i, j \in 1..Len(es) : es[i].id = es[j].id => i = j

(* An entry whose options were looked at has an outcome. *)
Sound(e) == (e.revealed # {}) = (e.first # "none")

LEMMA IdsOfQueue ==
  ASSUME NEW es \in Seq(QueueEntry)
  PROVE  /\ Len(es) \in Nat /\ DOMAIN es = 1..Len(es)
         /\ ToSet(es) = {es[i] : i \in 1..Len(es)}
         /\ ids(es) = {es[i].id : i \in 1..Len(es)}
         /\ ids(es) \subseteq Questions
         /\ ToSet(es) \subseteq QueueEntry
<1>1. DOMAIN es = 1..Len(es) /\ Len(es) \in Nat /\ \A i \in 1..Len(es) : es[i] \in QueueEntry
  OBVIOUS
<1>2. ToSet(es) = {es[i] : i \in 1..Len(es)}
  BY <1>1 DEF ToSet
<1>3. ids(es) = {es[i].id : i \in 1..Len(es)}
  BY <1>2 DEF ids
<1> QED
  BY <1>1, <1>2, <1>3 DEF QueueEntry

(* Two queues of different questions, one behind the other. *)
LEMMA Joined ==
  ASSUME NEW s \in Seq(QueueEntry), NEW t \in Seq(QueueEntry),
         Distinct(s), Distinct(t), ids(s) \cap ids(t) = {}
  PROVE  /\ s \o t \in Seq(QueueEntry) /\ Distinct(s \o t)
         /\ Len(s \o t) = Len(s) + Len(t)
         /\ \A i \in 1..Len(s) : (s \o t)[i] = s[i]
         /\ \A i \in 1..Len(t) : (s \o t)[Len(s) + i] = t[i]
         /\ ToSet(s \o t) = ToSet(s) \cup ToSet(t)
         /\ ids(s \o t) = ids(s) \cup ids(t)
<1>1. PICK m \in Nat, n \in Nat : m = Len(s) /\ n = Len(t)
  BY LenProperties
<1>2. PICK u \in Seq(QueueEntry) : u = s \o t
  BY ConcatProperties
<1>3. /\ Len(u) = m + n
      /\ \A i \in 1..m : u[i] = s[i]
      /\ \A i \in 1..n : u[m + i] = t[i]
      /\ \A i \in 1..(m + n) : i \in 1..m \/ \E j \in 1..n : i = m + j
  <2>1. /\ Len(u) = m + n
        /\ \A i \in 1..(m + n) : u[i] = IF i <= m THEN s[i] ELSE t[i - m]
    BY <1>1, <1>2, ConcatProperties
  <2>2. ASSUME NEW i \in 1..n PROVE u[m + i] = t[i]
    <3>1. m + i \in 1..(m + n) /\ ~ (m + i <= m) /\ (m + i) - m = i
      BY <1>1
    <3> QED
      BY <2>1, <3>1
  <2>3. ASSUME NEW i \in 1..(m + n), i \notin 1..m PROVE i - m \in 1..n /\ i = m + (i - m)
    BY <2>3
  <2> QED
    BY <2>1, <2>2, <2>3
<1>4. ToSet(u) = ToSet(s) \cup ToSet(t)
  <2>1. \A i \in 1..m : i \in 1..Len(u)
    BY <1>1, <1>3
  <2>2. \A i \in 1..n : m + i \in 1..Len(u)
    BY <1>1, <1>3
  <2>3. \A i \in 1..(m + n) : u[i] \in ToSet(s) \cup ToSet(t)
    BY <1>1, <1>3, IdsOfQueue
  <2>4. ToSet(u) = {u[i] : i \in 1..(m + n)}
    BY <1>3, IdsOfQueue
  <2>5. \A i \in 1..m : s[i] \in ToSet(u)
    BY <1>1, <1>3, <2>1, <2>4
  <2>6. \A i \in 1..n : t[i] \in ToSet(u)
    BY <1>1, <1>3, <2>2, <2>4
  <2>7. ToSet(s) = {s[i] : i \in 1..m} /\ ToSet(t) = {t[i] : i \in 1..n}
    BY <1>1, IdsOfQueue
  <2>8. \A x \in ToSet(s) : x \in ToSet(u)
    BY <2>5, <2>7
  <2>9. \A x \in ToSet(t) : x \in ToSet(u)
    BY <2>6, <2>7
  <2> QED
    BY <2>3, <2>4, <2>8, <2>9
<1>5. ids(u) = ids(s) \cup ids(t)
  BY <1>4 DEF ids
<1>6. \A i \in 1..m : s[i].id \in ids(s)
  BY <1>1, IdsOfQueue
<1>7. \A i \in 1..n : t[i].id \in ids(t)
  BY <1>1, IdsOfQueue
<1>8. ASSUME NEW i \in 1..(m + n), NEW j \in 1..(m + n), u[i].id = u[j].id
      PROVE  i = j
  <2>1. CASE i \in 1..m /\ j \in 1..m
    BY <1>1, <1>3, <1>8, <2>1 DEF Distinct
  <2>2. CASE i \in 1..m /\ j \notin 1..m
    BY <1>3, <1>6, <1>7, <1>8, <2>2
  <2>3. CASE i \notin 1..m /\ j \in 1..m
    BY <1>3, <1>6, <1>7, <1>8, <2>3
  <2>4. CASE i \notin 1..m /\ j \notin 1..m
    <3>1. PICK k \in 1..n, l \in 1..n : i = m + k /\ j = m + l
      BY <1>3, <2>4
    <3>2. k = l
      BY <1>1, <1>3, <1>8, <3>1 DEF Distinct
    <3> QED
      BY <3>1, <3>2
  <2> QED
    BY <2>1, <2>2, <2>3, <2>4
<1>9. Distinct(u)
  BY <1>3, <1>8 DEF Distinct
<1> QED
  BY <1>1, <1>2, <1>3, <1>4, <1>5, <1>9

(* What is left of a queue of the questions Q. *)
LEMMA Only ==
  ASSUME NEW es \in Seq(QueueEntry), NEW Q, Distinct(es)
  PROVE  /\ only(es, Q) \in Seq(QueueEntry) /\ Distinct(only(es, Q))
         /\ ToSet(only(es, Q)) \subseteq ToSet(es)
         /\ ids(only(es, Q)) = ids(es) \cap Q
<1>1. PICK n \in Nat : n = Len(es) /\ DOMAIN es = 1..n
  OBVIOUS
<1>2. PICK I \in SUBSET (1..n) : I = {j \in DOMAIN es : es[j].id \in Q}
  BY <1>1
<1>3. PICK c \in Nat : c = Cardinality(I)
  BY Listed
<1>4. IsFiniteSet(I) /\ \E f \in [1..c -> I] : Increases(f)
  BY <1>3, Listed
<1>5. PICK p \in [1..c -> I] :
         p = CHOOSE f \in [1..c -> I] : \A j, k \in DOMAIN f : j < k => f[j] < f[k]
  BY <1>4 DEF Increases
<1>6. only(es, Q) = [j \in 1..c |-> es[p[j]]]
  BY <1>2, <1>3, <1>5 DEF only
<1>7. \A j \in 1..c : p[j] \in I /\ p[j] \in 1..n /\ es[p[j]] \in QueueEntry /\ es[p[j]].id \in Q
  <2>1. \A i \in I : i \in 1..n /\ es[i] \in QueueEntry /\ es[i].id \in Q
    BY <1>1, <1>2
  <2>2. \A j \in 1..c : p[j] \in I
    OBVIOUS
  <2> QED
    BY <2>1, <2>2
<1>8. PICK o \in Seq(QueueEntry) : o = only(es, Q) /\ Len(o) = c /\ \A j \in 1..c : o[j] = es[p[j]]
  <2>1. PICK o : o = [j \in 1..c |-> es[p[j]]]
    OBVIOUS
  <2>2. \A j \in 1..c : o[j] = es[p[j]] /\ o[j] \in QueueEntry
    BY <1>7, <2>1
  <2>3. o \in Seq(QueueEntry) /\ Len(o) = c
    BY <2>1, <2>2
  <2> QED
    BY <1>6, <2>1, <2>2, <2>3
<1>9. ASSUME NEW j \in 1..c, NEW k \in 1..c, j # k PROVE p[j] # p[k]
  <2>1. \A g, h \in 1..c : g < h => p[g] < p[h]
    BY <1>4, <1>5 DEF Increases
  <2>2. p[j] \in Nat /\ p[k] \in Nat /\ (j < k \/ k < j)
    BY <1>7, <1>9
  <2> QED
    BY <2>1, <2>2
<1>10. Distinct(o)
  BY <1>1, <1>7, <1>8, <1>9 DEF Distinct
<1>11. \A i \in I : \E j \in 1..c : p[j] = i
  BY <1>3, <1>4, <1>9, ListsAll
<1>12. ToSet(o) \subseteq ToSet(es)
  BY <1>1, <1>7, <1>8, IdsOfQueue
<1>13. ids(o) = ids(es) \cap Q
  <2>1. ids(o) = {o[j].id : j \in 1..c} /\ ids(es) = {es[i].id : i \in 1..n}
    BY <1>1, <1>8, IdsOfQueue
  <2>2. ids(o) \subseteq ids(es) \cap Q
    BY <1>7, <1>8, <2>1
  <2>3. ASSUME NEW i \in 1..n, es[i].id \in Q PROVE es[i].id \in ids(o)
    <3>1. PICK j \in 1..c : p[j] = i
      BY <1>1, <1>2, <1>11, <2>3
    <3> QED
      BY <1>8, <2>1, <3>1
  <2> QED
    BY <2>1, <2>2, <2>3
<1> QED
  BY <1>8, <1>10, <1>12, <1>13

(* Among the entries of the questions Q those are all of them. *)
LEMMA OnlyOf ==
  ASSUME NEW es \in Seq(QueueEntry), NEW Q, Distinct(es),
         NEW j \in 1..Len(only(es, Q))
  PROVE  only(es, Q)[j].id \in Q
<1>1. only(es, Q)[j].id \in ids(only(es, Q))
  BY Only, IdsOfQueue
<1> QED
  BY <1>1, Only

LEMMA Published ==
  ASSUME bundle \in [Questions -> 0..MaxVersion]
  PROVE  /\ \A q \in published : newEntry(q) \in QueueEntry /\ Sound(newEntry(q))
                                /\ newEntry(q).id = q /\ newEntry(q).first = "none"
         /\ \A e \in QueueEntry : e.id \in published =>
               /\ refresh(e) \in QueueEntry /\ refresh(e).id = e.id
               /\ Sound(e) => Sound(refresh(e))
               /\ refresh(e).first # "none" => refresh(e) = e
         /\ published \subseteq Questions /\ eligibleQuestions \subseteq published
<1>1. ASSUME NEW q \in published
      PROVE  /\ newEntry(q) \in QueueEntry /\ Sound(newEntry(q))
             /\ newEntry(q).id = q /\ newEntry(q).first = "none"
  <2>1. q \in Questions /\ bundle[q] \in 0..MaxVersion /\ bundle[q] # 0
    BY DEF published
  <2>2. bundle[q] \in 1..MaxVersion
    BY <2>1, BoundsAssumption
  <2> QED
    BY <2>1, <2>2 DEF newEntry, QueueEntry, Sound, Outcome
<1>2. ASSUME NEW e \in QueueEntry, e.id \in published
      PROVE  /\ refresh(e) \in QueueEntry /\ refresh(e).id = e.id
             /\ Sound(e) => Sound(refresh(e))
             /\ refresh(e).first # "none" => refresh(e) = e
  BY <1>1, <1>2 DEF refresh
<1> QED
  BY <1>1, <1>2 DEF published, eligibleQuestions

(* A shuffle of the questions Q. *)
Shuffled(s, Q) ==
    /\ s \in Seq(QueueEntry) /\ Distinct(s) /\ ids(s) = Q
    /\ \A e \in ToSet(s) : Sound(e) /\ e.first = "none"

LEMMA Shuffles ==
  ASSUME bundle \in [Questions -> 0..MaxVersion], NEW Q \in SUBSET published,
         NEW s \in shuffles(Q)
  PROVE  Shuffled(s, Q)
<1>1. PICK E : E = {newEntry(q) : q \in Q}
  OBVIOUS
<1>2. /\ \A e \in E : /\ e \in QueueEntry /\ Sound(e) /\ e.first = "none"
                      /\ e.id \in Q /\ e = newEntry(e.id)
      /\ \A q \in Q : newEntry(q) \in E /\ newEntry(q).id = q
  BY <1>1, Published
<1>3. IsFiniteSet(E)
  <2>1. IsFiniteSet(Q)
    BY Published, QuestionsAssumption, FS_Subset
  <2>2. [q \in Q |-> newEntry(q)] \in Surjection(Q, E)
    BY <1>1, <1>2 DEF Surjection
  <2> QED
    BY <2>1, <2>2, FS_Surjection
<1>4. PICK c \in Nat : c = Cardinality(E)
  BY <1>3, FS_CardinalityType
<1>5. s \in [1..c -> E] /\ \A i, j \in 1..c : i # j => s[i] # s[j]
  BY <1>1, <1>4 DEF shuffles, SetToSeqs
<1>6. \A e \in E : \E i \in 1..c : s[i] = e
  BY <1>3, <1>4, <1>5, ListsAll
<1>7. s \in Seq(QueueEntry) /\ Len(s) = c
  BY <1>2, <1>5
<1>8. ToSet(s) = {s[i] : i \in 1..c} /\ ids(s) = {s[i].id : i \in 1..c}
  BY <1>7, IdsOfQueue
<1>9. Distinct(s)
  <2> SUFFICES ASSUME NEW i \in 1..c, NEW j \in 1..c, s[i].id = s[j].id PROVE i = j
    BY <1>7 DEF Distinct
  <2>1. s[i] \in E /\ s[j] \in E
    BY <1>5
  <2>2. s[i] = s[j]
    BY <1>2, <2>1
  <2> QED
    BY <1>5, <2>2
<1>10. ids(s) = Q
  <2>1. \A x \in ids(s) : x \in Q
    BY <1>2, <1>5, <1>8
  <2>2. ASSUME NEW q \in Q PROVE q \in ids(s)
    <3>1. PICK i \in 1..c : s[i] = newEntry(q)
      BY <1>2, <1>6
    <3> QED
      BY <1>2, <1>8, <3>1
  <2> QED
    BY <2>1, <2>2
<1>11. \A e \in ToSet(s) : e \in E
  BY <1>5, <1>8
<1> QED
  BY <1>2, <1>7, <1>9, <1>10, <1>11 DEF Shuffled

LEMMA MadeEntries ==
  ASSUME bundle \in [Questions -> 0..MaxVersion], NEW Q \in SUBSET published,
         NEW a \in makeEntries(Q)
  PROVE  Shuffled(a, Q)
<1>0. PICK v \in SUBSET published, w \in SUBSET published : v = Q \ seen /\ w = Q \cap seen
  OBVIOUS
<1>a. PICK p \in shuffles(Q \ seen) \X shuffles(Q \cap seen) : a = p[1] \o p[2]
  BY DEF makeEntries
<1>b. PICK u \in shuffles(Q \ seen), s \in shuffles(Q \cap seen) : a = u \o s
  BY <1>a
<1>1. a = u \o s
  BY <1>b
<1>2. Shuffled(u, v) /\ Shuffled(s, w)
  <2>1. Shuffled(u, Q \ seen)
    BY <1>0, <1>b, Shuffles
  <2>2. Shuffled(s, Q \cap seen)
    BY <1>0, <1>b, Shuffles
  <2> QED
    BY <1>0, <2>1, <2>2
<1>3. /\ u \in Seq(QueueEntry) /\ s \in Seq(QueueEntry) /\ Distinct(u) /\ Distinct(s)
      /\ ids(u) \cap ids(s) = {}
  BY <1>0, <1>2 DEF Shuffled
<1>4. a \in Seq(QueueEntry) /\ Distinct(a) /\ ToSet(a) = ToSet(u) \cup ToSet(s)
      /\ ids(a) = ids(u) \cup ids(s)
  BY <1>1, <1>3, Joined
<1>5. ids(a) = Q
  BY <1>0, <1>2, <1>4 DEF Shuffled
<1>6. \A e \in ToSet(a) : Sound(e) /\ e.first = "none"
  BY <1>2, <1>4 DEF Shuffled
<1> QED
  BY <1>4, <1>5, <1>6 DEF Shuffled

-----------------------------------------------------------------------------
(* What reconcile makes of a queue. *)

(* A queue that can be continued. *)
Whole(es) == es \in Seq(QueueEntry) /\ Distinct(es) /\ \A e \in ToSet(es) : Sound(e)

(* A part of a queue: nothing it says was answered is new to it. *)
Part(s, es) ==
    Whole(s) /\ \A e \in ToSet(s) : e.first # "none" => e \in ToSet(es)

LEMMA Slice ==
  ASSUME NEW es, Whole(es), NEW m \in Nat \ {0}, NEW n \in 0..Len(es)
  PROVE  /\ Whole(SubSeq(es, m, n))
         /\ Len(SubSeq(es, m, n)) = IF m <= n THEN n - m + 1 ELSE 0
         /\ \A i \in 1..Len(SubSeq(es, m, n)) : SubSeq(es, m, n)[i] = es[m + i - 1]
         /\ ToSet(SubSeq(es, m, n)) = {es[i] : i \in m..n}
         /\ ids(SubSeq(es, m, n)) = {es[i].id : i \in m..n}
         /\ m..n \subseteq 1..Len(es)
<1>1. PICK l \in Nat : l = Len(es) /\ \A i \in 1..l : es[i] \in QueueEntry /\ es[i] \in ToSet(es)
  BY IdsOfQueue DEF Whole
<1>2. m \in Int /\ n \in Int /\ m..n \subseteq 1..l
  BY <1>1
<1>3. PICK s : s = SubSeq(es, m, n)
  OBVIOUS
<1>4. /\ s \in Seq(QueueEntry) /\ Len(s) = IF m <= n THEN n - m + 1 ELSE 0
      /\ \A i \in 1..(n - m + 1) : s[i] = es[m + i - 1]
  <2>1. \A i \in m..n : es[i] \in QueueEntry
    BY <1>1, <1>2
  <2>2. /\ SubSeq(es, m, n) \in Seq(QueueEntry)
        /\ Len(SubSeq(es, m, n)) = IF m <= n THEN n - m + 1 ELSE 0
        /\ \A i \in 1..(n - m + 1) : SubSeq(es, m, n)[i] = es[m + i - 1]
    <3>1. m \in Int /\ n \in Int
      BY <1>2
    <3> QED
      BY <2>1, <3>1, SubSeqProperties
  <2> QED
    BY <1>3, <2>2
<1>5. PICK k \in Nat : k = Len(s)
  BY <1>4, LenProperties
<1>6. \A i \in 1..k : m + i - 1 \in m..n /\ s[i] = es[m + i - 1]
  BY <1>2, <1>4, <1>5
<1>7. \A j \in m..n : j - m + 1 \in 1..k /\ s[j - m + 1] = es[j]
  <2> SUFFICES ASSUME NEW j \in m..n PROVE j - m + 1 \in 1..k /\ s[j - m + 1] = es[j]
    OBVIOUS
  <2>1. j - m + 1 \in 1..(n - m + 1) /\ k = n - m + 1 /\ m + (j - m + 1) - 1 = j
    BY <1>2, <1>4, <1>5
  <2> QED
    BY <1>4, <2>1
<1>8. ToSet(s) = {es[i] : i \in m..n}
  <2>1. ToSet(s) = {s[i] : i \in 1..k}
    BY <1>4, <1>5, IdsOfQueue
  <2>2. \A x \in ToSet(s) : x \in {es[i] : i \in m..n}
    BY <1>6, <2>1
  <2>3. \A j \in m..n : es[j] \in ToSet(s)
    BY <1>7, <2>1
  <2> QED
    BY <2>2, <2>3
<1>9. ids(s) = {es[i].id : i \in m..n}
  BY <1>8 DEF ids
<1>10. Distinct(s)
  <2> SUFFICES ASSUME NEW i \in 1..k, NEW j \in 1..k, s[i].id = s[j].id PROVE i = j
    BY <1>5 DEF Distinct
  <2>1. m + i - 1 = m + j - 1
    BY <1>1, <1>2, <1>6 DEF Whole, Distinct
  <2> QED
    BY <2>1
<1>11. \A e \in ToSet(s) : e \in ToSet(es)
  BY <1>1, <1>2, <1>8
<1> QED
  BY <1>1, <1>2, <1>3, <1>4, <1>5, <1>6, <1>8, <1>9, <1>10, <1>11 DEF Whole

(* Two queues that share no question, one behind the other. *)
LEMMA JoinedWhole ==
  ASSUME NEW s, NEW t, Whole(s), Whole(t), ids(s) \cap ids(t) = {}
  PROVE  /\ Whole(s \o t)
         /\ Len(s \o t) = Len(s) + Len(t)
         /\ \A i \in 1..Len(s) : (s \o t)[i] = s[i]
         /\ \A i \in 1..Len(t) : (s \o t)[Len(s) + i] = t[i]
         /\ ToSet(s \o t) = ToSet(s) \cup ToSet(t)
         /\ ids(s \o t) = ids(s) \cup ids(t)
<1>1. s \in Seq(QueueEntry) /\ t \in Seq(QueueEntry) /\ Distinct(s) /\ Distinct(t)
  BY DEF Whole
<1>2. \A e \in ToSet(s) \cup ToSet(t) : Sound(e)
  BY DEF Whole
<1>3. /\ s \o t \in Seq(QueueEntry) /\ Distinct(s \o t)
      /\ ToSet(s \o t) = ToSet(s) \cup ToSet(t)
  BY <1>1, Joined
<1>4. Whole(s \o t)
  BY <1>2, <1>3 DEF Whole
<1> QED
  BY <1>1, <1>4, Joined

(* A queue whose questions are shown afresh where their text changed. *)
LEMMA Refreshed ==
  ASSUME bundle \in [Questions -> 0..MaxVersion], NEW kept, Whole(kept), ids(kept) \subseteq published,
         NEW f, f = [j \in 1..Len(kept) |-> refresh(kept[j])]
  PROVE  /\ Whole(f) /\ ids(f) = ids(kept)
         /\ \A e \in ToSet(f) : e.first # "none" => e \in ToSet(kept)
<1>1. PICK n \in Nat : n = Len(kept)
  BY LenProperties DEF Whole
<1>2. /\ ToSet(kept) = {kept[j] : j \in 1..n} /\ ids(kept) = {kept[j].id : j \in 1..n}
      /\ \A j \in 1..n : kept[j] \in QueueEntry
  BY <1>1, IdsOfQueue DEF Whole
<1>3. \A j \in 1..n : kept[j] \in ToSet(kept) /\ kept[j].id \in published /\ Sound(kept[j])
  BY <1>2 DEF Whole
<1>4. \A j \in 1..n : /\ f[j] \in QueueEntry /\ f[j].id = kept[j].id /\ Sound(f[j])
                      /\ f[j].first # "none" => f[j] = kept[j]
  <2> SUFFICES ASSUME NEW j \in 1..n
               PROVE  /\ f[j] \in QueueEntry /\ f[j].id = kept[j].id /\ Sound(f[j])
                      /\ f[j].first # "none" => f[j] = kept[j]
    OBVIOUS
  <2>1. f[j] = refresh(kept[j])
    BY <1>1
  <2> QED
    BY <1>2, <1>3, <2>1, Published
<1>5. f \in Seq(QueueEntry) /\ Len(f) = n
  BY <1>1, <1>4
<1>6. ToSet(f) = {f[j] : j \in 1..n} /\ ids(f) = {f[j].id : j \in 1..n}
  BY <1>5, IdsOfQueue
<1>7. ids(f) = ids(kept)
  <2>1. \A x \in ids(f) : x \in ids(kept)
    BY <1>2, <1>4, <1>6
  <2>2. \A x \in ids(kept) : x \in ids(f)
    BY <1>2, <1>4, <1>6
  <2> QED
    BY <2>1, <2>2
<1>8. Distinct(f)
  BY <1>1, <1>4, <1>5 DEF Distinct, Whole
<1>9. \A e \in ToSet(f) : Sound(e) /\ (e.first # "none" => e \in ToSet(kept))
  <2>1. \A e \in ToSet(f) : \E j \in 1..n : e = f[j]
    BY <1>6
  <2>2. \A j \in 1..n : Sound(f[j]) /\ (f[j].first # "none" => f[j] \in ToSet(kept))
    BY <1>3, <1>4
  <2> QED
    BY <2>1, <2>2
<1> QED
  BY <1>5, <1>7, <1>8, <1>9 DEF Whole

(* The unseen questions of a queue go first, and no question is lost. *)
LEMMA UnseenFirst ==
  ASSUME NEW t, Whole(t)
  PROVE  /\ Whole(unseenFirst(t)) /\ ids(unseenFirst(t)) = ids(t)
         /\ ToSet(unseenFirst(t)) \subseteq ToSet(t)
         /\ \A i, j \in 1..Len(unseenFirst(t)) :
               i < j /\ unseenFirst(t)[i].id \in seen => unseenFirst(t)[j].id \in seen
<1>1. PICK u, s : u = only(t, Questions \ seen) /\ s = only(t, seen)
  OBVIOUS
<1>2. /\ u \in Seq(QueueEntry) /\ Distinct(u) /\ ToSet(u) \subseteq ToSet(t)
      /\ ids(u) = ids(t) \cap (Questions \ seen)
  BY <1>1, Only DEF Whole
<1>3. /\ s \in Seq(QueueEntry) /\ Distinct(s) /\ ToSet(s) \subseteq ToSet(t)
      /\ ids(s) = ids(t) \cap seen
  BY <1>1, Only DEF Whole
<1>4. Whole(u) /\ Whole(s) /\ ids(u) \cap ids(s) = {}
  BY <1>2, <1>3 DEF Whole
<1>5. ids(t) \subseteq Questions
  BY IdsOfQueue DEF Whole
<1>6. PICK r : r = u \o s /\ r = unseenFirst(t)
  BY <1>1 DEF unseenFirst
<1>7. /\ Whole(r) /\ Len(r) = Len(u) + Len(s)
      /\ \A i \in 1..Len(u) : r[i] = u[i]
      /\ \A i \in 1..Len(s) : r[Len(u) + i] = s[i]
      /\ ToSet(r) = ToSet(u) \cup ToSet(s) /\ ids(r) = ids(u) \cup ids(s)
  <2>1. /\ Whole(u \o s) /\ Len(u \o s) = Len(u) + Len(s)
        /\ \A i \in 1..Len(u) : (u \o s)[i] = u[i]
        /\ \A i \in 1..Len(s) : (u \o s)[Len(u) + i] = s[i]
        /\ ToSet(u \o s) = ToSet(u) \cup ToSet(s) /\ ids(u \o s) = ids(u) \cup ids(s)
    BY <1>4, JoinedWhole
  <2> QED
    BY <1>6, <2>1
<1>8. Len(u) \in Nat /\ Len(s) \in Nat
  BY <1>2, <1>3, LenProperties
<1>9. \A i \in 1..Len(u) : r[i].id \notin seen
  BY <1>2, <1>7, IdsOfQueue
<1>10. \A i \in 1..Len(s) : r[Len(u) + i].id \in seen
  BY <1>3, <1>7, IdsOfQueue
<1>11. ASSUME NEW i \in 1..Len(r), NEW j \in 1..Len(r), i < j, r[i].id \in seen
       PROVE  r[j].id \in seen
  <2>1. i \notin 1..Len(u)
    BY <1>9, <1>11
  <2>2. j - Len(u) \in 1..Len(s) /\ Len(u) + (j - Len(u)) = j
    BY <1>7, <1>8, <1>11, <2>1
  <2> QED
    BY <1>10, <2>2
<1> QED
  BY <1>2, <1>3, <1>5, <1>6, <1>7, <1>11

LEMMA NoQuestions == Whole(<<>>) /\ ids(<<>>) = {} /\ ToSet(<<>>) = {} /\ Len(<<>>) = 0
<1>1. <<>> \in Seq(QueueEntry) /\ Len(<<>>) = 0
  BY EmptySeq
<1>2. ToSet(<<>>) = {}
  <2>1. PICK s \in Seq(QueueEntry) : s = <<>> /\ Len(s) = 0
    BY <1>1
  <2>2. ToSet(s) = {s[k] : k \in 1..Len(s)}
    BY IdsOfQueue
  <2>3. \A x \in ToSet(s) : FALSE
    BY <2>1, <2>2
  <2> QED
    BY <2>1, <2>3
<1> QED
  BY <1>1, <1>2 DEF Whole, Distinct, ids

LEMMA OneQuestion ==
  ASSUME NEW e \in QueueEntry, Sound(e)
  PROVE  /\ Whole(<<e>>) /\ ids(<<e>>) = {e.id} /\ ToSet(<<e>>) = {e}
         /\ Len(<<e>>) = 1 /\ <<e>>[1] = e
<1>1. PICK s : s = <<e>>
  OBVIOUS
<1>2. s \in Seq(QueueEntry) /\ Len(s) = 1 /\ s[1] = e
  BY <1>1
<1>3. ToSet(s) = {e}
  BY <1>2, IdsOfQueue
<1>4. ids(s) = {e.id}
  BY <1>3 DEF ids
<1>5. Distinct(s)
  BY <1>2 DEF Distinct
<1> QED
  BY <1>1, <1>2, <1>3, <1>4, <1>5 DEF Whole

(* The parts reconcile puts together: what is completed, the showing left  *)
(* in place, and the future with what has become eligible.                 *)
LEMMA Pinned ==
  ASSUME bundle \in [Questions -> 0..MaxVersion], NEW es, Whole(es), NEW i \in 0..Len(es), NEW pc \in BOOLEAN
  PROVE  /\ Whole(pinnedOf(es, i, pc))
         /\ \A e \in ToSet(pinnedOf(es, i, pc)) : e.first # "none" => e \in ToSet(es)
         /\ \A q \in ids(pinnedOf(es, i, pc)) : pc /\ i < Len(es) /\ q = es[i + 1].id
         /\ pc /\ i < Len(es) /\ es[i + 1].id \in published =>
               Len(pinnedOf(es, i, pc)) = 1 /\ pinnedOf(es, i, pc)[1] = refresh(es[i + 1])
         /\ ~pc => pinnedOf(es, i, pc) = <<>>
<1>1. CASE pc /\ i < Len(es) /\ es[i + 1].id \in published
  <2>1. i + 1 \in 1..Len(es)
    BY <1>1, LenProperties DEF Whole
  <2>2. es[i + 1] \in QueueEntry /\ es[i + 1] \in ToSet(es)
    BY <2>1, IdsOfQueue DEF Whole
  <2>3. PICK e : e = refresh(es[i + 1])
    OBVIOUS
  <2>4. /\ e \in QueueEntry /\ Sound(e) /\ e.id = es[i + 1].id
        /\ e.first # "none" => e = es[i + 1]
    BY <1>1, <2>2, <2>3, Published DEF Whole
  <2>5. pinnedOf(es, i, pc) = <<e>>
    BY <1>1, <2>3 DEF pinnedOf
  <2>6. /\ Whole(<<e>>) /\ ids(<<e>>) = {e.id} /\ ToSet(<<e>>) = {e}
        /\ Len(<<e>>) = 1 /\ <<e>>[1] = e
    BY <2>4, OneQuestion
  <2> QED
    BY <1>1, <2>2, <2>3, <2>4, <2>5, <2>6
<1>2. CASE ~ (pc /\ i < Len(es) /\ es[i + 1].id \in published)
  <2>1. pinnedOf(es, i, pc) = <<>>
    BY <1>2 DEF pinnedOf
  <2> QED
    BY <1>2, <2>1, NoQuestions
<1> QED
  BY <1>1, <1>2

(* res continues es, of which i entries are completed: those stay and, if  *)
(* the current showing is left in place, it stays too unless its text      *)
(* changed; otherwise what is left is what is eligible.                    *)
Continues(res, es, i, preserveCurrent, left) ==
    /\ Part(res, es) /\ i <= Len(res)
    /\ \A k \in 1..i : res[k] = es[k]
    /\ preserveCurrent /\ i < Len(es) /\ es[i + 1].id \in published =>
          i < Len(res) /\ res[i + 1] = refresh(es[i + 1])
    /\ ~preserveCurrent =>
          /\ left \in Seq(QueueEntry) /\ Len(res) = i + Len(left)
          /\ \A k \in 1..Len(left) : res[i + k] = left[k]
          /\ ids(left) = eligibleQuestions \ ids(SubSeq(es, 1, i))
          /\ \A j, k \in 1..Len(left) :
                j < k /\ left[j].id \in seen => left[k].id \in seen

LEMMA Reconciled ==
  ASSUME bundle \in [Questions -> 0..MaxVersion], NEW es, Whole(es), NEW i \in 0..Len(es),
         NEW pc \in BOOLEAN, NEW res \in reconcile(es, i, pc)
  PROVE  \E left : Continues(res, es, i, pc, left)
<1>1. PICK n \in Nat : n = Len(es)
  BY LenProperties DEF Whole
<1>2. PICK m \in Nat \ {0} : m = IF pc THEN i + 2 ELSE i + 1
  BY <1>1
<1>3. PICK head, rest, pinned :
         /\ head = SubSeq(es, 1, i) /\ rest = SubSeq(es, m, n)
         /\ pinned = pinnedOf(es, i, pc)
  OBVIOUS
<1>4. /\ Whole(head) /\ Len(head) = i /\ \A k \in 1..i : head[k] = es[k]
      /\ ToSet(head) \subseteq ToSet(es) /\ ids(head) = {es[k].id : k \in 1..i}
  <2>1. i \in 0..n /\ 1 \in Nat \ {0}
    BY <1>1
  <2>2. /\ Whole(head) /\ Len(head) = IF 1 <= i THEN i - 1 + 1 ELSE 0
        /\ \A k \in 1..Len(head) : head[k] = es[1 + k - 1]
        /\ ToSet(head) = {es[k] : k \in 1..i} /\ ids(head) = {es[k].id : k \in 1..i}
        /\ 1..i \subseteq 1..n
    BY <1>1, <1>3, <2>1, Slice
  <2>3. Len(head) = i
    BY <2>1, <2>2
  <2>4. \A k \in 1..i : head[k] = es[k] /\ es[k] \in ToSet(es)
    BY <1>1, <2>1, <2>2, <2>3, IdsOfQueue DEF Whole
  <2> QED
    BY <2>2, <2>3, <2>4
<1>5. /\ Whole(rest) /\ ToSet(rest) \subseteq ToSet(es)
      /\ ids(rest) = {es[k].id : k \in m..n}
  <2>1. n \in 0..Len(es)
    BY <1>1
  <2>a. /\ Whole(SubSeq(es, m, n)) /\ ToSet(SubSeq(es, m, n)) = {es[k] : k \in m..n}
        /\ ids(SubSeq(es, m, n)) = {es[k].id : k \in m..n} /\ m..n \subseteq 1..Len(es)
    BY <2>1, Slice
  <2>2. /\ Whole(rest) /\ ToSet(rest) = {es[k] : k \in m..n}
        /\ ids(rest) = {es[k].id : k \in m..n} /\ m..n \subseteq 1..n
    BY <1>1, <1>3, <2>a
  <2>3. \A k \in m..n : es[k] \in ToSet(es)
    BY <1>1, <2>2, IdsOfQueue DEF Whole
  <2> QED
    BY <2>2, <2>3
<1>6. /\ Whole(pinned) /\ \A e \in ToSet(pinned) : e.first # "none" => e \in ToSet(es)
      /\ \A q \in ids(pinned) : pc /\ i < n /\ q = es[i + 1].id
      /\ pc /\ i < n /\ es[i + 1].id \in published =>
            Len(pinned) = 1 /\ pinned[1] = refresh(es[i + 1])
      /\ ~pc => pinned = <<>>
  BY <1>1, <1>3, Pinned
<1>7. /\ ids(head) \cap ids(rest) = {} /\ ids(head) \cap ids(pinned) = {}
      /\ ids(pinned) \cap ids(rest) = {}
  <2>1. \A j, k \in 1..n : es[j].id = es[k].id => j = k
    BY <1>1 DEF Whole, Distinct
  <2>2. \A j \in 1..i : \A k \in m..n : es[j].id # es[k].id
    <3> SUFFICES ASSUME NEW j \in 1..i, NEW k \in m..n PROVE j \in 1..n /\ k \in 1..n /\ j # k
      BY <2>1
    <3> QED
      BY <1>1, <1>2
  <2>3. \A j \in 1..i : i < n => es[j].id # es[i + 1].id
    <3> SUFFICES ASSUME NEW j \in 1..i, i < n PROVE j \in 1..n /\ i + 1 \in 1..n /\ j # i + 1
      BY <2>1
    <3> QED
      BY <1>1
  <2>4. ASSUME pc, i < n PROVE \A k \in m..n : es[i + 1].id # es[k].id
    <3> SUFFICES ASSUME NEW k \in m..n PROVE k \in 1..n /\ i + 1 \in 1..n /\ k # i + 1
      BY <2>1
    <3> QED
      BY <1>1, <1>2, <2>4
  <2>5. ids(head) \cap ids(rest) = {}
    BY <1>4, <1>5, <2>2
  <2>6. ids(head) \cap ids(pinned) = {}
    BY <1>4, <1>6, <2>3
  <2>7. ids(pinned) \cap ids(rest) = {}
    BY <1>5, <1>6, <2>4
  <2> QED
    BY <2>5, <2>6, <2>7
<1>8. PICK kept : kept = only(rest, eligibleQuestions)
  OBVIOUS
<1>9. /\ Whole(kept) /\ ToSet(kept) \subseteq ToSet(rest)
      /\ ids(kept) = ids(rest) \cap eligibleQuestions
  <2>1. /\ kept \in Seq(QueueEntry) /\ Distinct(kept) /\ ToSet(kept) \subseteq ToSet(rest)
        /\ ids(kept) = ids(rest) \cap eligibleQuestions
    BY <1>5, <1>8, Only DEF Whole
  <2>2. \A e \in ToSet(kept) : Sound(e)
    BY <1>5, <2>1 DEF Whole
  <2> QED
    BY <2>1, <2>2 DEF Whole
<1>10. PICK future : future = [j \in 1..Len(kept) |-> refresh(kept[j])]
  OBVIOUS
<1>11. /\ Whole(future) /\ ids(future) = ids(kept)
       /\ \A e \in ToSet(future) : e.first # "none" => e \in ToSet(kept)
  <2>1. ids(kept) \subseteq published
    BY <1>9, Published
  <2> QED
    BY <1>9, <1>10, <2>1, Refreshed
<1>12. PICK added : added = eligibleQuestions \ (ids(head) \cup ids(pinned \o future))
  OBVIOUS
<1>13. added = (eligibleQuestions \ ids(head)) \ (ids(pinned) \cup ids(future))
  <2>1. ids(pinned) \cap ids(future) = {}
    BY <1>7, <1>9, <1>11
  <2>2. ids(pinned \o future) = ids(pinned) \cup ids(future)
    BY <1>6, <1>11, <2>1, JoinedWhole
  <2> QED
    BY <1>12, <2>2
<1>14. PICK a \in makeEntries(added) : res = head \o pinned \o unseenFirst(future \o a)
  <2>1. reconcile(es, i, pc) =
          {head \o pinned \o unseenFirst(t) : t \in {future \o a : a \in makeEntries(added)}}
    BY <1>1, <1>2, <1>3, <1>8, <1>10, <1>12 DEF reconcile, knownOf
  <2>2. res \in {head \o pinned \o unseenFirst(t) : t \in {future \o a : a \in makeEntries(added)}}
    BY <2>1
  <2>3. PICK t \in {future \o a : a \in makeEntries(added)} :
           res = head \o pinned \o unseenFirst(t)
    BY <2>2
  <2> QED
    BY <2>3
<1>15. /\ Whole(a) /\ ids(a) = added /\ \A e \in ToSet(a) : e.first = "none"
  <2>1. added \in SUBSET published
    BY <1>13, Published
  <2>2. Shuffled(a, added)
    BY <2>1, MadeEntries
  <2> QED
    BY <2>2 DEF Shuffled, Whole
<1>16. PICK u : u = unseenFirst(future \o a)
  OBVIOUS
<1>17. /\ Whole(u) /\ ids(u) = ids(future) \cup added
       /\ \A e \in ToSet(u) : e.first # "none" => e \in ToSet(es)
       /\ \A j, k \in 1..Len(u) : j < k /\ u[j].id \in seen => u[k].id \in seen
  <2>1. ids(future) \cap ids(a) = {}
    BY <1>13, <1>15
  <2>2. PICK t : t = future \o a
    OBVIOUS
  <2>3. Whole(t) /\ ToSet(t) = ToSet(future) \cup ToSet(a) /\ ids(t) = ids(future) \cup added
    <3>1. /\ Whole(future \o a) /\ ToSet(future \o a) = ToSet(future) \cup ToSet(a)
          /\ ids(future \o a) = ids(future) \cup ids(a)
      BY <1>11, <1>15, <2>1, JoinedWhole
    <3> QED
      BY <1>15, <2>2, <3>1
  <2>4. /\ Whole(u) /\ ids(u) = ids(t) /\ ToSet(u) \subseteq ToSet(t)
        /\ \A j, k \in 1..Len(u) : j < k /\ u[j].id \in seen => u[k].id \in seen
    BY <1>16, <2>2, <2>3, UnseenFirst
  <2>5. \A e \in ToSet(t) : e.first # "none" => e \in ToSet(es)
    BY <1>5, <1>9, <1>11, <1>15, <2>3
  <2> QED
    BY <2>3, <2>4, <2>5
<1>18. PICK front : front = head \o pinned
  OBVIOUS
<1>19. /\ Whole(front) /\ Len(front) = i + Len(pinned)
       /\ \A k \in 1..i : front[k] = es[k]
       /\ \A k \in 1..Len(pinned) : front[i + k] = pinned[k]
       /\ ToSet(front) = ToSet(head) \cup ToSet(pinned)
       /\ ids(front) = ids(head) \cup ids(pinned)
  <2>1. /\ Whole(head \o pinned) /\ Len(head \o pinned) = Len(head) + Len(pinned)
        /\ \A k \in 1..Len(head) : (head \o pinned)[k] = head[k]
        /\ \A k \in 1..Len(pinned) : (head \o pinned)[Len(head) + k] = pinned[k]
        /\ ToSet(head \o pinned) = ToSet(head) \cup ToSet(pinned)
        /\ ids(head \o pinned) = ids(head) \cup ids(pinned)
    <3>1. Whole(head) /\ Whole(pinned) /\ ids(head) \cap ids(pinned) = {}
      BY <1>4, <1>6, <1>7
    <3> QED
      BY <3>1, JoinedWhole
  <2> QED
    BY <1>4, <1>18, <2>1
<1>20. ids(front) \cap ids(u) = {}
  BY <1>7, <1>9, <1>11, <1>13, <1>17, <1>19
<1>21. /\ Whole(res) /\ Len(res) = Len(front) + Len(u)
       /\ \A k \in 1..Len(front) : res[k] = front[k]
       /\ \A k \in 1..Len(u) : res[Len(front) + k] = u[k]
       /\ ToSet(res) = ToSet(front) \cup ToSet(u)
  <2>1. /\ Whole(front \o u) /\ Len(front \o u) = Len(front) + Len(u)
        /\ \A k \in 1..Len(front) : (front \o u)[k] = front[k]
        /\ \A k \in 1..Len(u) : (front \o u)[Len(front) + k] = u[k]
        /\ ToSet(front \o u) = ToSet(front) \cup ToSet(u)
    BY <1>17, <1>19, <1>20, JoinedWhole
  <2>2. res = front \o u
    BY <1>14, <1>16, <1>18
  <2> QED
    BY <2>1, <2>2
<1>22. Len(pinned) \in Nat /\ Len(u) \in Nat /\ u \in Seq(QueueEntry) /\ i \in Nat
  BY <1>1, <1>6, <1>17, LenProperties DEF Whole
<1>23. Part(res, es)
  <2>1. \A e \in ToSet(res) : e.first # "none" => e \in ToSet(es)
    BY <1>4, <1>6, <1>17, <1>19, <1>21
  <2> QED
    BY <1>21, <2>1 DEF Part
<1>24. i <= Len(res) /\ \A k \in 1..i : res[k] = es[k]
  BY <1>19, <1>21, <1>22
<1>25. ASSUME pc, i < n, es[i + 1].id \in published
       PROVE  i < Len(res) /\ res[i + 1] = refresh(es[i + 1])
  <2>1. Len(pinned) = 1 /\ pinned[1] = refresh(es[i + 1]) /\ Len(front) = i + 1
    BY <1>6, <1>19, <1>25
  <2>2. front[i + 1] = refresh(es[i + 1]) /\ i + 1 \in 1..Len(front)
    BY <1>19, <1>22, <2>1
  <2> QED
    BY <1>21, <1>22, <2>1, <2>2
<1>26. ASSUME ~pc
       PROVE  /\ Len(res) = i + Len(u)
              /\ \A k \in 1..Len(u) : res[i + k] = u[k]
              /\ ids(u) = eligibleQuestions \ ids(head)
  <2>1. pinned = <<>> /\ Len(pinned) = 0 /\ ids(pinned) = {} /\ Len(front) = i
    BY <1>6, <1>19, <1>22, <1>26, NoQuestions
  <2>2. ids(u) = eligibleQuestions \ ids(head)
    BY <1>7, <1>9, <1>11, <1>13, <1>17, <2>1
  <2> QED
    BY <1>21, <2>1, <2>2
<1> QED
  BY <1>1, <1>3, <1>17, <1>22, <1>23, <1>24, <1>25, <1>26 DEF Continues

-----------------------------------------------------------------------------
(* The pass. *)

(* Whatever is eligible, a new pass of it has none of it answered. *)
LEMMA NewPass ==
  bundle \in [Questions -> 0..MaxVersion] =>
    \A a \in makeEntries(eligibleQuestions) : Shuffled(a, eligibleQuestions)
<1> SUFFICES ASSUME bundle \in [Questions -> 0..MaxVersion],
                    NEW a \in makeEntries(eligibleQuestions)
             PROVE  Shuffled(a, eligibleQuestions)
  OBVIOUS
<1>1. eligibleQuestions \in SUBSET published
  BY DEF eligibleQuestions
<1> QED
  BY <1>1, MadeEntries

(* What restore accepts is a queue that can be continued. *)
LEMMA WellFormed ==
  ASSUME NEW s \in SavedSession
  PROVE  wellFormed(s) <=> Whole(s.entries) /\ s.index \in 0..Len(s.entries)
<1>1. PICK es \in Seq(QueueEntry) : es = s.entries
  BY DEF SavedSession
<1>2. PICK f : f = [i \in 1..Len(es) |-> es[i].id]
  OBVIOUS
<1>3. DOMAIN f = 1..Len(es) /\ \A i \in 1..Len(es) : f[i] = es[i].id
  BY <1>2
<1>4. IsInjective(f) <=> Distinct(es)
  BY <1>3 DEF IsInjective, Distinct
<1>5. wellFormed(s) <=> /\ s.index \in 0..Len(es) /\ IsInjective(f)
                        /\ \A e \in ToSet(es) : (e.revealed # {}) = (e.first # "none")
  BY <1>1, <1>2 DEF wellFormed
<1> QED
  BY <1>1, <1>4, <1>5 DEF Whole, Sound

(* A step that saves a pass whose totals are truthful. *)
LEMMA SaveStep ==
  ASSUME save, Whole(entries'), index' \in 0..Len(entries'), epoch' \in 0..MaxEpoch,
         \A e \in ToSet(entries') : e.first # "none" => counted'[e.id] = e.first
  PROVE  /\ saved' \in SavedSession /\ entries' \in Seq(QueueEntry) /\ index' \in Nat
         /\ PassInv'
<1>1. entries' \in Seq(QueueEntry) /\ index' \in Nat /\ epoch' \in Nat
  BY LenProperties, BoundsAssumption DEF Whole
<1>2. saved' = [epoch |-> epoch', index |-> index', entries |-> entries']
  BY DEF save
<1>3. saved' \in SavedSession
  BY <1>1, <1>2 DEF SavedSession
<1>4. saved'.epoch = epoch' /\ saved'.index = index' /\ saved'.entries = entries'
  BY <1>2
<1>5. wellFormed(saved')
  BY <1>3, <1>4, WellFormed
<1> QED
  BY <1>1, <1>2, <1>3, <1>4, <1>5 DEF PassInv, SavedIsRestorable, truthful, wellFormed

(* The pass on screen can be continued and its totals are truthful. *)
LEMMA OnScreen ==
  ASSUME TypeOK, PassInv, mounted
  PROVE  /\ saved # None /\ Whole(entries) /\ index \in 0..Len(entries)
         /\ \A e \in ToSet(entries) : e.first # "none" => counted[e.id] = e.first
<1>1. /\ saved = [epoch |-> epoch, index |-> index, entries |-> entries]
      /\ saved.epoch = epoch /\ saved.index = index /\ saved.entries = entries
  BY DEF PassInv
<1>2. saved \in SavedSession
  BY <1>1 DEF TypeOK, SavedSession
<1>3. saved # None
  BY <1>2, NoneAssumption
<1>4. Whole(entries) /\ index \in 0..Len(entries)
  BY <1>1, <1>2, <1>3, WellFormed DEF PassInv, SavedIsRestorable
<1> QED
  BY <1>1, <1>3, <1>4 DEF PassInv, truthful

(* What was saved before the last clear, or after it. *)
LEMMA Restorable ==
  ASSUME TypeOK, PassInv, saved # None, saved.epoch = epoch
  PROVE  /\ restorable(saved) /\ Whole(saved.entries) /\ saved.index \in 0..Len(saved.entries)
         /\ \A e \in ToSet(saved.entries) : e.first # "none" => counted[e.id] = e.first
<1>1. saved \in SavedSession /\ wellFormed(saved)
  BY DEF TypeOK, PassInv, SavedIsRestorable
<1>2. Whole(saved.entries) /\ saved.index \in 0..Len(saved.entries)
  BY <1>1, WellFormed
<1> QED
  BY <1>1, <1>2 DEF restorable, PassInv, truthful

LEMMA Restarted ==
  ASSUME TypeOK, bundle' = bundle, restart, epoch' \in 0..MaxEpoch
  PROVE  /\ saved' \in SavedSession /\ entries' \in Seq(QueueEntry) /\ index' = 0 /\ index' \in Nat
         /\ counted' \in [Questions -> Outcome] /\ PassInv'
<1>1. (bundle \in [Questions -> 0..MaxVersion] =>
        \A a \in makeEntries(eligibleQuestions) : Shuffled(a, eligibleQuestions))'
  BY NewPass, PTL
<1>2. Shuffled(entries', eligibleQuestions')
  BY <1>1 DEF TypeOK, restart
<1>3. Whole(entries') /\ \A e \in ToSet(entries') : e.first = "none"
  BY <1>2 DEF Shuffled, Whole
<1>4. index' = 0 /\ save /\ counted' = [q \in Questions |-> "none"]
  BY DEF restart
<1>5. index' \in 0..Len(entries')
  BY <1>3, <1>4, LenProperties DEF Whole
<1>6. saved' \in SavedSession /\ entries' \in Seq(QueueEntry) /\ index' \in Nat /\ PassInv'
  BY <1>3, <1>4, <1>5, SaveStep
<1> QED
  BY <1>4, <1>6 DEF Outcome

(* One queue is continued by another that reconcile makes of it. *)
LEMMA ContinueStep ==
  ASSUME TypeOK, NEW es, Whole(es), NEW i \in 0..Len(es), NEW pc \in BOOLEAN,
         \A e \in ToSet(es) : e.first # "none" => counted[e.id] = e.first,
         entries' \in reconcile(es, i, pc), index' = i, save,
         epoch' = epoch, counted' = counted
  PROVE  saved' \in SavedSession /\ entries' \in Seq(QueueEntry) /\ index' \in Nat /\ PassInv'
<1>1. Part(entries', es) /\ i <= Len(entries')
  BY Reconciled DEF TypeOK, Continues
<1>2. i \in 0..Len(entries')
  BY <1>1, LenProperties DEF Part, Whole
<1>3. \A e \in ToSet(entries') : e.first # "none" => counted'[e.id] = e.first
  BY <1>1 DEF Part
<1>4. Whole(entries') /\ epoch' \in 0..MaxEpoch
  BY <1>1 DEF Part, TypeOK
<1> QED
  BY <1>2, <1>3, <1>4, SaveStep

(* An option was looked at: the entry on screen keeps its question, and    *)
(* its outcome once it has one.                                            *)
LEMMA Revealed ==
  ASSUME TypeOK, PassInv, NEW o \in Options, selectOption(o)
  PROVE  /\ Whole(entries') /\ Len(entries') = Len(entries) /\ index + 1 \in 1..Len(entries)
         /\ \A j \in 1..Len(entries) : j # index + 1 => entries'[j] = entries[j]
         /\ \A e \in ToSet(entries') : e.first # "none" => counted'[e.id] = e.first
<1>1. mounted /\ index < Len(entries) /\ o \notin entries[index + 1].revealed
  BY DEF selectOption, HasCurrent, current
<1>2. /\ Whole(entries) /\ index \in 0..Len(entries) /\ entries \in Seq(QueueEntry)
      /\ \A e \in ToSet(entries) : e.first # "none" => counted[e.id] = e.first
  BY <1>1, OnScreen DEF Whole
<1>3. PICK n \in Nat, i \in Nat : n = Len(entries) /\ i = index + 1 /\ i \in 1..n /\ DOMAIN entries = 1..n
  BY <1>1, <1>2
<1>4. PICK e \in QueueEntry : e = entries[i] /\ e \in ToSet(entries) /\ Sound(e)
  BY <1>2, <1>3, IdsOfQueue DEF Whole
<1>5. PICK r, f : r = e.revealed \cup {o} /\ f = IF e.first = "none" THEN outcome(o) ELSE e.first
  OBVIOUS
<1>6. r \in SUBSET Options /\ r # {} /\ f \in Outcome \ {"none"}
  <2>1. outcome(o) \in {"right", "wrong"}
    BY DEF outcome
  <2>2. e.first \in Outcome /\ e.revealed \in SUBSET Options
    BY DEF QueueEntry
  <2> QED
    BY <1>5, <2>1, <2>2 DEF Outcome
<1>7. PICK d \in QueueEntry : /\ d = [e EXCEPT !.revealed = r, !.first = f]
                              /\ d.id = e.id /\ d.first = f /\ d.revealed = r
  <2>1. f \in Outcome
    BY <1>6
  <2>2. PICK m : m = [e EXCEPT !.revealed = r]
    OBVIOUS
  <2>3. m \in QueueEntry /\ m.id = e.id /\ m.revealed = r
    BY <1>6, <2>2 DEF QueueEntry
  <2>4. PICK d : d = [m EXCEPT !.first = f]
    OBVIOUS
  <2>5. d \in QueueEntry /\ d.id = m.id /\ d.revealed = m.revealed /\ d.first = f
    BY <2>1, <2>3, <2>4 DEF QueueEntry
  <2>6. d = [e EXCEPT !.revealed = r, !.first = f]
    BY <2>2, <2>4
  <2> QED
    BY <2>3, <2>5, <2>6
<1>8. entries' = [entries EXCEPT ![i] = d] /\ Sound(d) /\ d.first # "none"
  <2>1. entries' = [entries EXCEPT ![i].revealed = @ \cup {o},
                                   ![i].first = IF @ = "none" THEN outcome(o) ELSE @]
    BY <1>3 DEF selectOption
  <2>2. entries' = [entries EXCEPT ![i] = [e EXCEPT !.revealed = e.revealed \cup {o},
                        !.first = IF e.first = "none" THEN outcome(o) ELSE e.first]]
    BY <1>3, <1>4, <2>1 DEF QueueEntry
  <2>3. entries' = [entries EXCEPT ![i] = d]
    BY <1>5, <1>7, <2>2
  <2> QED
    BY <1>6, <1>7, <2>3 DEF Sound
<1>9. /\ entries' \in Seq(QueueEntry) /\ Len(entries') = n
      /\ entries'[i] = d /\ \A j \in 1..n : j # i => entries'[j] = entries[j]
  BY <1>2, <1>3, <1>8
<1>10. \A j \in 1..n : entries'[j].id = entries[j].id
  BY <1>4, <1>7, <1>9
<1>11. Distinct(entries')
  BY <1>2, <1>3, <1>9, <1>10 DEF Distinct, Whole
<1>12. \A x \in ToSet(entries') : \E j \in 1..n : x = entries'[j]
  BY <1>9, IdsOfQueue
<1>13. \A j \in 1..n : entries[j] \in ToSet(entries) /\ Sound(entries[j])
  BY <1>2, <1>3, IdsOfQueue DEF Whole
<1>14. \A j \in 1..n : Sound(entries'[j])
  BY <1>8, <1>9, <1>13
<1>15. Whole(entries')
  BY <1>9, <1>11, <1>12, <1>14 DEF Whole
<1>16. counted'[e.id] = d.first /\ \A q \in Questions : q # e.id => counted'[q] = counted[q]
  <2>1. e.id \in Questions /\ counted \in [Questions -> Outcome] /\ current = e
    BY <1>3, <1>4 DEF TypeOK, QueueEntry, current
  <2>2. CASE e.first = "none"
    <3>1. counted' = [counted EXCEPT ![e.id] = outcome(o)] /\ d.first = outcome(o)
      BY <1>5, <1>7, <2>1, <2>2 DEF selectOption, isFirst
    <3> QED
      BY <2>1, <3>1
  <2>3. CASE e.first # "none"
    <3>1. counted' = counted /\ d.first = e.first
      BY <1>5, <1>7, <2>1, <2>3 DEF selectOption, isFirst
    <3> QED
      BY <1>2, <1>4, <2>3, <3>1
  <2> QED
    BY <2>2, <2>3
<1>17. ASSUME NEW j \in 1..n, entries'[j].first # "none"
       PROVE  counted'[entries'[j].id] = entries'[j].first
  <2>1. CASE j = i
    BY <1>7, <1>9, <1>16, <2>1
  <2>2. CASE j # i
    <3>1. entries[j].id # e.id
      BY <1>2, <1>3, <1>4, <2>2 DEF Whole, Distinct
    <3>2. entries'[j] = entries[j] /\ entries[j].id \in Questions
      <4>1. entries[j] \in QueueEntry
        BY <1>2, <1>3
      <4> QED
        BY <1>9, <2>2, <4>1 DEF QueueEntry
    <3> QED
      BY <1>2, <1>13, <1>16, <1>17, <3>1, <3>2
  <2> QED
    BY <2>1, <2>2
<1> QED
  BY <1>3, <1>9, <1>12, <1>15, <1>17

LEMMA RevealStep ==
  ASSUME TypeOK, PassInv, NEW o \in Options, selectOption(o)
  PROVE  TypeOK' /\ PassInv'
<1>1. /\ Whole(entries') /\ Len(entries') = Len(entries)
      /\ \A e \in ToSet(entries') : e.first # "none" => counted'[e.id] = e.first
  BY Revealed
<1>2. /\ index' = index /\ epoch' = epoch /\ save /\ mounted
      /\ UNCHANGED <<mode, bundle, mounted, events>>
  BY DEF selectOption, HasCurrent
<1>3. index' \in 0..Len(entries') /\ epoch' \in 0..MaxEpoch
  BY <1>1, <1>2, OnScreen DEF TypeOK
<1>4. saved' \in SavedSession /\ entries' \in Seq(QueueEntry) /\ index' \in Nat /\ PassInv'
  BY <1>1, <1>2, <1>3, SaveStep
<1>5. latest' \in [Questions -> Outcome] /\ counted' \in [Questions -> Outcome]
  <2>1. outcome(o) \in Outcome
    BY DEF outcome, Outcome
  <2>2. CASE isFirst(current)
    <3>1. /\ recordAttempt(current.id, outcome(o))
          /\ counted' = [counted EXCEPT ![current.id] = outcome(o)]
      BY <2>2 DEF selectOption
    <3>2. PICK r \in {outcome(o)} \cup ({latest[current.id]} \ {"none"}) :
             latest' = [latest EXCEPT ![current.id] = r]
      BY <3>1 DEF recordAttempt
    <3> QED
      BY <2>1, <3>1, <3>2 DEF TypeOK
  <2>3. CASE ~ isFirst(current)
    BY <2>3 DEF selectOption, TypeOK
  <2> QED
    BY <2>2, <2>3
<1> QED
  BY <1>2, <1>3, <1>4, <1>5 DEF TypeOK

LEMMA NextStep ==
  ASSUME TypeOK, PassInv, next
  PROVE  /\ TypeOK' /\ PassInv'
         /\ index + 1 \in 0..Len(entries) /\ Whole(entries) /\ Whole(entries')
         /\ index' = index + 1 /\ entries' \in reconcile(entries, index + 1, FALSE)
<1>1. /\ mounted /\ index < Len(entries) /\ index' = index + 1
      /\ entries' \in reconcile(entries, index + 1, FALSE)
      /\ UNCHANGED <<mode, bundle, latest, epoch, mounted, counted, events>> /\ save
  BY DEF next, HasCurrent, boundary
<1>2. /\ Whole(entries) /\ index \in 0..Len(entries) /\ Len(entries) \in Nat
      /\ \A e \in ToSet(entries) : e.first # "none" => counted[e.id] = e.first
  BY <1>1, OnScreen, LenProperties DEF Whole
<1>3. index + 1 \in 0..Len(entries)
  BY <1>1, <1>2
<1>4. saved' \in SavedSession /\ entries' \in Seq(QueueEntry) /\ index' \in Nat /\ PassInv'
  BY <1>1, <1>2, <1>3, ContinueStep
<1>5. Whole(entries')
  BY <1>1, <1>2, <1>3, Reconciled DEF Part, TypeOK, Continues
<1> QED
  BY <1>1, <1>2, <1>3, <1>4, <1>5 DEF TypeOK

LEMMA MountStep ==
  ASSUME TypeOK, PassInv, Mount
  PROVE  TypeOK' /\ PassInv'
<1>1. UNCHANGED <<mode, bundle, latest, epoch, events>> /\ mounted' = TRUE
  BY DEF Mount
<1>2. CASE restorable(saved)
  <2>1. /\ index' = saved.index /\ entries' \in reconcile(saved.entries, saved.index, TRUE)
        /\ save /\ counted' = counted
    BY <1>2 DEF Mount
  <2>2. saved # None /\ saved.epoch = epoch
    BY <1>2 DEF restorable
  <2>3. /\ Whole(saved.entries) /\ saved.index \in 0..Len(saved.entries)
        /\ \A e \in ToSet(saved.entries) : e.first # "none" => counted[e.id] = e.first
    BY <2>2, Restorable
  <2>4. saved' \in SavedSession /\ entries' \in Seq(QueueEntry) /\ index' \in Nat /\ PassInv'
    BY <1>1, <2>1, <2>3, ContinueStep
  <2> QED
    BY <1>1, <2>1, <2>4 DEF TypeOK
<1>3. CASE ~ restorable(saved)
  <2>1. restart
    BY <1>3 DEF Mount
  <2>2. epoch' \in 0..MaxEpoch
    BY <1>1 DEF TypeOK
  <2>3. /\ saved' \in SavedSession /\ entries' \in Seq(QueueEntry) /\ index' \in Nat
        /\ counted' \in [Questions -> Outcome] /\ PassInv'
    BY <1>1, <2>1, <2>2, Restarted
  <2> QED
    BY <1>1, <2>3 DEF TypeOK
<1> QED
  BY <1>2, <1>3

LEMMA ClearStep ==
  ASSUME TypeOK, PassInv, Clear
  PROVE  TypeOK' /\ PassInv'
<1>1. /\ UNCHANGED <<mode, bundle, mounted, events>> /\ epoch' = epoch + 1
      /\ latest' = [q \in Questions |-> "none"] /\ epoch < MaxEpoch
  BY DEF Clear
<1>2. epoch' \in 0..MaxEpoch /\ latest' \in [Questions -> Outcome] /\ ~ (epoch' <= epoch)
  BY <1>1, BoundsAssumption DEF TypeOK, Outcome
<1>3. CASE mounted
  <2>1. restart
    BY <1>3 DEF Clear
  <2>2. /\ saved' \in SavedSession /\ entries' \in Seq(QueueEntry) /\ index' \in Nat
        /\ counted' \in [Questions -> Outcome] /\ PassInv'
    BY <1>1, <1>2, <2>1, Restarted
  <2> QED
    BY <1>1, <1>2, <2>2 DEF TypeOK
<1>4. CASE ~ mounted
  <2>1. UNCHANGED pass /\ counted' = [q \in Questions |-> "none"]
    BY <1>4 DEF Clear
  <2>2. TypeOK'
    BY <1>1, <1>2, <2>1 DEF TypeOK, pass, Outcome
  <2>3. saved' # None => saved'.epoch <= epoch' /\ saved'.epoch # epoch'
    <3> SUFFICES ASSUME saved # None PROVE saved.epoch <= epoch + 1 /\ saved.epoch # epoch + 1
      BY <1>1, <2>1 DEF pass
    <3>1. saved.epoch \in Nat /\ epoch \in Nat /\ saved.epoch <= epoch
      BY DEF PassInv, TypeOK, SavedSession
    <3> QED
      BY <3>1
  <2> QED
    BY <1>1, <1>4, <2>1, <2>2, <2>3 DEF PassInv, SavedIsRestorable, wellFormed, pass
<1> QED
  BY <1>3, <1>4

(* A pass that is saved can be restored, and while the progress is not     *)
(* cleared its totals are those of the attempts that were recorded.        *)
THEOREM PassInvariance == Spec => [](TypeOK /\ PassInv)
<1>1. Init => TypeOK /\ PassInv
  <2> SUFFICES ASSUME Init PROVE TypeOK /\ PassInv
    OBVIOUS
  <2>1. 0 \in 0..MaxEpoch /\ 0 \in 0..MaxEvents
    BY BoundsAssumption
  <2>2. bundle \in [Questions -> 0..MaxVersion]
    BY BoundsAssumption DEF Init
  <2>3. entries \in Seq(QueueEntry) /\ index \in Nat
    BY EmptySeq DEF Init
  <2> QED
    BY <2>1, <2>2, <2>3
    DEF Init, TypeOK, Outcome, PassInv, SavedIsRestorable
<1>2. ASSUME TypeOK, PassInv, [Next]_vars PROVE TypeOK' /\ PassInv'
  <2>1. CASE Mount
    BY <1>2, <2>1, MountStep
  <2>2. CASE Leave
    <3>1. entries' \in Seq(QueueEntry) /\ index' \in Nat
      BY <2>2, EmptySeq DEF Leave
    <3>2. TypeOK'
      BY <1>2, <2>2, <3>1 DEF TypeOK, Leave
    <3> QED
      BY <1>2, <2>2, <3>2 DEF Leave, PassInv, SavedIsRestorable, truthful, wellFormed
  <2>3. CASE next
    BY <1>2, <2>3, NextStep
  <2>4. CASE StartAgain
    <3>1. UNCHANGED <<mode, bundle, latest, epoch, mounted, events>> /\ restart
      BY <2>4 DEF StartAgain
    <3>2. epoch' \in 0..MaxEpoch
      BY <1>2, <3>1 DEF TypeOK
    <3>3. /\ saved' \in SavedSession /\ entries' \in Seq(QueueEntry) /\ index' \in Nat
          /\ counted' \in [Questions -> Outcome] /\ PassInv'
      BY <1>2, <3>1, <3>2, Restarted
    <3> QED
      BY <1>2, <3>1, <3>3 DEF TypeOK
  <2>5. CASE Clear
    BY <1>2, <2>5, ClearStep
  <2>6. ASSUME NEW o \in Options, selectOption(o) PROVE TypeOK' /\ PassInv'
    BY <1>2, <2>6, RevealStep
  <2>7. ASSUME NEW key \in Options \cup {"n", "s"}, handleShortcut(key) PROVE TypeOK' /\ PassInv'
    BY <2>3, <2>6, <2>7 DEF handleShortcut
  <2>8. ASSUME NEW q \in Questions, NEW o \in {"right", "wrong"}, OutsideAttempt(q, o)
        PROVE  TypeOK' /\ PassInv'
    <3>1. TypeOK'
      BY <1>2, <2>8, BoundsAssumption DEF TypeOK, OutsideAttempt, pass, Outcome
    <3> QED
      BY <1>2, <2>8, <3>1
      DEF OutsideAttempt, pass, PassInv, SavedIsRestorable, truthful, wellFormed
  <2>9. ASSUME NEW q \in Questions, NEW v \in 0..MaxVersion, Publish(q, v)
        PROVE  TypeOK' /\ PassInv'
    <3>1. TypeOK'
      BY <1>2, <2>9, BoundsAssumption DEF TypeOK, Publish, pass
    <3> QED
      BY <1>2, <2>9, <3>1
      DEF Publish, pass, PassInv, SavedIsRestorable, truthful, wellFormed
  <2>10. CASE UNCHANGED vars
    <3>1. TypeOK'
      BY <1>2, <2>10 DEF TypeOK, vars, pass
    <3> QED
      BY <1>2, <2>10, <3>1 DEF vars, pass, PassInv, SavedIsRestorable, truthful, wellFormed
  <2> QED
    BY <1>2, <2>1, <2>2, <2>3, <2>4, <2>5, <2>6, <2>7, <2>8, <2>9, <2>10 DEF Next
<1> QED
  BY <1>1, <1>2, PTL DEF Spec

(* Every variable of the practice pass keeps its type.                     *)
THEOREM PassTypeCorrect == Spec => []TypeOK
  BY PassInvariance, PTL

(* Restore never finds a saved pass malformed.                             *)
THEOREM SavedPassesRestore == Spec => []SavedIsRestorable
<1>1. PassInv => SavedIsRestorable
  BY DEF PassInv
<1> QED
  BY <1>1, PassInvariance, PTL

(* What a pass shows as right or wrong is what was recorded.               *)
THEOREM TotalsStayTruthful == Spec => []TotalsAreTruthful
<1>1. TypeOK /\ PassInv => TotalsAreTruthful
  BY OnScreen DEF TotalsAreTruthful
<1> QED
  BY <1>1, PassInvariance, PTL

-----------------------------------------------------------------------------
(* What a step may not do. *)

LEMMA SamePrefix ==
  ASSUME NEW s \in Seq(QueueEntry), NEW t \in Seq(QueueEntry), NEW i \in Nat,
         i <= Len(s), i <= Len(t), \A k \in 1..i : s[k] = t[k]
  PROVE  SubSeq(s, 1, i) = SubSeq(t, 1, i)
<1>1. \A k \in 1..i : s[k] \in QueueEntry /\ t[k] \in QueueEntry
  <2>1. Len(s) \in Nat /\ Len(t) \in Nat
    BY LenProperties
  <2> QED
    BY <2>1
<1>2. 1 \in Int /\ i \in Int /\ i - 1 + 1 = i
  OBVIOUS
<1>3. /\ SubSeq(s, 1, i) \in Seq(QueueEntry)
      /\ Len(SubSeq(s, 1, i)) = IF 1 <= i THEN i - 1 + 1 ELSE 0
      /\ \A k \in 1..(i - 1 + 1) : SubSeq(s, 1, i)[k] = s[1 + k - 1]
  BY <1>1, <1>2, SubSeqProperties
<1>4. /\ SubSeq(t, 1, i) \in Seq(QueueEntry)
      /\ Len(SubSeq(t, 1, i)) = IF 1 <= i THEN i - 1 + 1 ELSE 0
      /\ \A k \in 1..(i - 1 + 1) : SubSeq(t, 1, i)[k] = t[1 + k - 1]
  BY <1>1, <1>2, SubSeqProperties
<1>5. Len(SubSeq(s, 1, i)) = i /\ Len(SubSeq(t, 1, i)) = i
  BY <1>3, <1>4
<1>6. \A k \in 1..i : SubSeq(s, 1, i)[k] = SubSeq(t, 1, i)[k]
  BY <1>3, <1>4
<1> QED
  BY <1>3, <1>4, <1>5, <1>6, SeqEqual

LEMMA CompletedStep ==
  ASSUME TypeOK, PassInv, [Next]_vars
  PROVE  completedIsKept
<1> SUFFICES ASSUME mounted, mounted', index' # 0
             PROVE  index' >= index /\ SubSeq(entries', 1, index) = SubSeq(entries, 1, index)
  BY DEF completedIsKept
<1>1. /\ Whole(entries) /\ index \in 0..Len(entries) /\ entries \in Seq(QueueEntry)
      /\ Len(entries) \in Nat
  BY OnScreen, LenProperties DEF Whole
<1>2. CASE next
  <2>1. /\ Whole(entries') /\ index' = index + 1 /\ index + 1 \in 0..Len(entries)
        /\ entries' \in reconcile(entries, index + 1, FALSE)
    BY <1>2, NextStep
  <2>2. index + 1 <= Len(entries') /\ \A k \in 1..(index + 1) : entries'[k] = entries[k]
    BY <1>1, <2>1, Reconciled DEF TypeOK, Continues
  <2>3. entries' \in Seq(QueueEntry) /\ Len(entries') \in Nat /\ index \in Nat
    BY <1>1, <2>1, LenProperties DEF Whole
  <2>4. index <= Len(entries') /\ \A k \in 1..index : entries'[k] = entries[k]
    BY <2>2, <2>3
  <2>5. SubSeq(entries', 1, index) = SubSeq(entries, 1, index)
    BY <1>1, <2>3, <2>4, SamePrefix
  <2> QED
    BY <1>1, <2>1, <2>5
<1>3. ASSUME NEW o \in Options, selectOption(o)
      PROVE  index' >= index /\ SubSeq(entries', 1, index) = SubSeq(entries, 1, index)
  <2>1. /\ Whole(entries') /\ Len(entries') = Len(entries) /\ index + 1 \in 1..Len(entries)
        /\ \A j \in 1..Len(entries) : j # index + 1 => entries'[j] = entries[j]
    BY <1>3, Revealed
  <2>2. \A k \in 1..index : entries'[k] = entries[k]
    BY <1>1, <2>1
  <2>3. entries' \in Seq(QueueEntry) /\ index \in Nat /\ index <= Len(entries')
    BY <1>1, <2>1 DEF Whole
  <2>4. SubSeq(entries', 1, index) = SubSeq(entries, 1, index)
    BY <1>1, <2>2, <2>3, SamePrefix
  <2> QED
    BY <1>1, <1>3, <2>4 DEF selectOption
<1>4. CASE \E key \in Options \cup {"n", "s"} : handleShortcut(key)
  BY <1>2, <1>3, <1>4 DEF handleShortcut
<1>5. CASE index' = index /\ entries' = entries
  BY <1>1, <1>5
<1>6. CASE Mount \/ Leave \/ StartAgain \/ Clear
  BY <1>6 DEF Mount, Leave, StartAgain, Clear, restart
<1>7. CASE \/ \E q \in Questions : \E o \in {"right", "wrong"} : OutsideAttempt(q, o)
           \/ \E q \in Questions : \E v \in 0..MaxVersion : Publish(q, v)
           \/ UNCHANGED vars
  BY <1>5, <1>7 DEF OutsideAttempt, Publish, vars, pass
<1> QED
  BY <1>2, <1>3, <1>4, <1>6, <1>7 DEF Next

LEMMA CurrentStep ==
  ASSUME TypeOK, PassInv, [Next]_vars
  PROVE  currentIsKept
<1> DEFINE i == saved.index + 1
<1> SUFFICES ASSUME ~mounted, mounted', saved # None, saved.epoch = epoch,
                    i <= Len(saved.entries),
                    bundle[saved.entries[i].id] = saved.entries[i].signature
             PROVE  i <= Len(entries') /\ index' + 1 = i /\ entries'[i] = saved.entries[i]
  BY DEF currentIsKept
<1>1. Mount
  BY DEF Next, Leave, next, HasCurrent, StartAgain, Clear, selectOption, handleShortcut,
         OutsideAttempt, Publish, vars
<1>2. /\ restorable(saved) /\ Whole(saved.entries) /\ saved.index \in 0..Len(saved.entries)
  BY Restorable
<1>3. PICK es, k : es = saved.entries /\ k = saved.index
  OBVIOUS
<1>4. index' = k /\ entries' \in reconcile(es, k, TRUE)
  BY <1>1, <1>2, <1>3 DEF Mount
<1>5. es \in Seq(QueueEntry) /\ Whole(es) /\ k \in 0..Len(es) /\ Len(es) \in Nat
  BY <1>2, <1>3, LenProperties DEF Whole
<1>6. k < Len(es) /\ es[k + 1] \in QueueEntry /\ bundle[es[k + 1].id] = es[k + 1].signature
  BY <1>3, <1>5
<1>7. es[k + 1].id \in published /\ refresh(es[k + 1]) = es[k + 1]
  <2>1. es[k + 1].id \in Questions /\ es[k + 1].signature # 0
    BY <1>6 DEF QueueEntry
  <2> QED
    BY <1>6, <2>1 DEF published, refresh
<1>8. k < Len(entries') /\ entries'[k + 1] = es[k + 1] /\ Whole(entries')
  <2>1. TRUE \in BOOLEAN /\ bundle \in [Questions -> 0..MaxVersion]
    BY DEF TypeOK
  <2>2. /\ Part(entries', es)
        /\ k < Len(es) /\ es[k + 1].id \in published =>
              k < Len(entries') /\ entries'[k + 1] = refresh(es[k + 1])
    <3>1. PICK left : Continues(entries', es, k, TRUE, left)
      BY <1>4, <1>5, <2>1, Reconciled
    <3> QED
      BY <3>1 DEF Continues
  <2> QED
    BY <1>6, <1>7, <2>2 DEF Part
<1>9. Len(entries') \in Nat
  BY <1>8, LenProperties DEF Whole
<1> QED
  BY <1>3, <1>4, <1>5, <1>8, <1>9

(* A pass is kept: what was completed stays, and a learner who comes back  *)
(* finds the question that was left.                                       *)
THEOREM PassesAreKept == Spec => PassIsKept
<1>1. TypeOK /\ PassInv /\ [Next]_vars => completedIsKept /\ currentIsKept
  BY CompletedStep, CurrentStep
<1> QED
  BY <1>1, PassInvariance, PTL DEF Spec, PassIsKept

LEMMA CurrentQueueStep ==
  ASSUME TypeOK, PassInv, [Next]_vars, mounted, mounted', index' > index
  PROVE  LET left == SubSeq(entries', index' + 1, Len(entries'))
             done == ids(SubSeq(entries', 1, index'))
         IN  /\ ids(left) = eligibleQuestions \ done
             /\ \A i, j \in 1..Len(left) :
                   i < j /\ left[i].id \in seen => left[j].id \in seen
<1>1. next
  <2>1. index \in Nat /\ index' # 0 /\ index' # index
    BY DEF TypeOK
  <2> QED
    BY <2>1 DEF Next, Mount, Leave, StartAgain, Clear, restart, selectOption, handleShortcut,
         OutsideAttempt, Publish, vars, pass
<1>2. PICK i \in Nat : i = index'
  BY <1>1 DEF next, TypeOK
<1>3. /\ Whole(entries) /\ Whole(entries') /\ i \in 0..Len(entries)
      /\ entries' \in reconcile(entries, i, FALSE)
  BY <1>1, <1>2, NextStep
<1>4. entries \in Seq(QueueEntry) /\ entries' \in Seq(QueueEntry) /\ Len(entries') \in Nat
  BY <1>3, LenProperties DEF Whole
<1>5. PICK rest \in Seq(QueueEntry) :
        /\ i <= Len(entries') /\ \A k \in 1..i : entries'[k] = entries[k]
        /\ Len(entries') = i + Len(rest)
        /\ \A k \in 1..Len(rest) : entries'[i + k] = rest[k]
        /\ ids(rest) = eligibleQuestions \ ids(SubSeq(entries, 1, i))
        /\ \A j, k \in 1..Len(rest) : j < k /\ rest[j].id \in seen => rest[k].id \in seen
  <2>1. FALSE \in BOOLEAN /\ bundle \in [Questions -> 0..MaxVersion]
    BY DEF TypeOK
  <2>2. \E rest :
        /\ i <= Len(entries') /\ \A k \in 1..i : entries'[k] = entries[k]
        /\ rest \in Seq(QueueEntry) /\ Len(entries') = i + Len(rest)
        /\ \A k \in 1..Len(rest) : entries'[i + k] = rest[k]
        /\ ids(rest) = eligibleQuestions \ ids(SubSeq(entries, 1, i))
        /\ \A j, k \in 1..Len(rest) : j < k /\ rest[j].id \in seen => rest[k].id \in seen
    <3>1. PICK rest : Continues(entries', entries, i, FALSE, rest)
      BY <1>3, <2>1, Reconciled
    <3> QED
      BY <3>1 DEF Continues
  <2> QED
    BY <2>2
<1>6. SubSeq(entries', 1, i) = SubSeq(entries, 1, i)
  BY <1>3, <1>4, <1>5, SamePrefix
<1>7. PICK n \in Nat, r \in Nat : n = Len(entries') /\ r = Len(rest) /\ n = i + r
  BY <1>4, <1>5, LenProperties
<1>8. SubSeq(entries', i + 1, n) = rest
  <2>1. \A k \in (i + 1)..n : entries'[k] \in QueueEntry
    <3>1. \A k \in (i + 1)..n : k \in 1..n
      BY <1>7
    <3>2. \A k \in 1..n : entries'[k] \in QueueEntry
      BY <1>4, <1>7, LenProperties
    <3> QED
      BY <3>1, <3>2
  <2>2. i + 1 \in Int /\ n \in Int /\ n - (i + 1) + 1 = r
    BY <1>7
  <2>3. /\ SubSeq(entries', i + 1, n) \in Seq(QueueEntry)
        /\ Len(SubSeq(entries', i + 1, n)) = IF i + 1 <= n THEN n - (i + 1) + 1 ELSE 0
        /\ \A k \in 1..(n - (i + 1) + 1) : SubSeq(entries', i + 1, n)[k] = entries'[(i + 1) + k - 1]
    BY <2>1, <2>2, SubSeqProperties
  <2>4. Len(SubSeq(entries', i + 1, n)) = r
    BY <1>7, <2>3
  <2>5. \A k \in 1..r : SubSeq(entries', i + 1, n)[k] = rest[k]
    <3> SUFFICES ASSUME NEW k \in 1..r PROVE SubSeq(entries', i + 1, n)[k] = rest[k]
      OBVIOUS
    <3>1. (i + 1) + k - 1 = i + k
      OBVIOUS
    <3> QED
      BY <1>5, <1>7, <2>2, <2>3, <3>1
  <2> QED
    BY <1>7, <2>3, <2>4, <2>5, SeqEqual
<1> QED
  BY <1>2, <1>5, <1>6, <1>7, <1>8

(* After each question what is left of the pass is what needs practice.    *)
THEOREM QueueStaysCurrent == Spec => QueueIsCurrent
<1>1. TypeOK /\ PassInv /\ [Next]_vars =>
        (mounted /\ mounted' /\ index' > index =>
          LET left == SubSeq(entries', index' + 1, Len(entries'))
              done == ids(SubSeq(entries', 1, index'))
          IN  /\ ids(left) = eligibleQuestions \ done
              /\ \A i, j \in 1..Len(left) :
                    i < j /\ left[i].id \in seen => left[j].id \in seen)
  BY CurrentQueueStep
<1> QED
  BY <1>1, PassInvariance, PTL DEF Spec, QueueIsCurrent

-----------------------------------------------------------------------------
(* The mock exam. *)

(* An exam has a first question, and the clock starts within its bound. *)
LEMMA FirstQuestion == 1 \in ExamQuestions /\ 0 \in 0..MaxTime /\ 0 \in 0..MaxExams
<1>1. NumQuestions \in Nat \ {0} /\ MaxTime \in Nat /\ MaxExams \in Nat
  BY NumbersAssumption, ExamBoundsAssumption
<1> QED
  BY <1>1 DEF ExamQuestions

(* A started session is a session, at its first question. *)
LEMMA StartType ==
    ASSUME ExamTypeOK, exams < MaxExams
    PROVE  startSession \in ExamSession
<1>1. exams + 1 \in Exams /\ 1 \in ExamQuestions /\ time + TimeLimit \in Nat
  BY NumbersAssumption, ExamBoundsAssumption DEF ExamTypeOK, Exams, ExamQuestions
<1>2. [q \in ExamQuestions |-> "none"] \in [ExamQuestions -> Answer]
  BY DEF Answer
<1> QED
  BY <1>1, <1>2 DEF ExamTypeOK, startSession, ExamSession

(* Answering, moving and submitting keep a session a session. *)
LEMMA SessionType ==
    ASSUME NEW s \in ExamSession
    PROVE  /\ submitSession(s) \in ExamSession
           /\ \A q \in ExamQuestions : [s EXCEPT !.currentIndex = q] \in ExamSession
           /\ \A q \in ExamQuestions : \A a \in {"right", "wrong"} :
                answerQuestion(s, q, a) \in ExamSession
<1>1. submitSession(s) \in ExamSession
  BY DEF submitSession, ExamSession
<1>2. \A q \in ExamQuestions : [s EXCEPT !.currentIndex = q] \in ExamSession
  BY DEF ExamSession
<1>3. ASSUME NEW q \in ExamQuestions, NEW a \in {"right", "wrong"}
      PROVE  answerQuestion(s, q, a) \in ExamSession
  <2>1. [s.answers EXCEPT ![q] = a] \in [ExamQuestions -> Answer]
    BY DEF ExamSession, Answer
  <2>2. [s EXCEPT !.answers[q] = a] = [s EXCEPT !.answers = [s.answers EXCEPT ![q] = a]]
    BY DEF ExamSession
  <2>3. [s EXCEPT !.answers[q] = a] \in ExamSession
    BY <2>1, <2>2 DEF ExamSession
  <2> QED
    BY <2>3 DEF answerQuestion
<1> QED
  BY <1>1, <1>2, <1>3

(* What is recorded of a submitted session. *)
LEMMA SubmitType ==
    ASSUME ExamTypeOK, handleSubmit, InProgress, now' \in 0..MaxTime
    PROVE  ExamTypeOK'
<1>1. session \in ExamSession /\ session.id \in Exams
  BY DEF ExamTypeOK, InProgress, ExamSession
<1>2. scoreSession(session) \in [ExamQuestions -> BOOLEAN]
  BY DEF scoreSession
<1>3. recorded' \in [Exams -> SUBSET (Scopes \X [ExamQuestions -> BOOLEAN])]
  BY <1>1, <1>2 DEF handleSubmit, ExamTypeOK
<1>4. session' \in ExamSession
  BY <1>1, SessionType DEF handleSubmit
<1> QED
  BY <1>3, <1>4 DEF handleSubmit, saveSubmitted, saveSession, storageKey, ExamTypeOK

(* Every variable of the mock exam keeps its type. *)
THEOREM ExamTypeCorrect == ExamSpec => []ExamTypeOK
<1>1. ExamInit => ExamTypeOK
  BY FirstQuestion DEF ExamInit, ExamTypeOK
<1>2. ASSUME ExamTypeOK, [ExamNext]_examVars PROVE ExamTypeOK'
  <2>1. ASSUME NEW u \in Scopes, MountFlow(u) PROVE ExamTypeOK'
    <3>1. session' \in ExamSession \cup {NoExam}
      BY <1>2, <2>1 DEF MountFlow, storageKey, ExamTypeOK
    <3>2. currentIndex' \in ExamQuestions
      BY <2>1, <3>1, FirstQuestion
      DEF MountFlow, Mounted, resumeAt, ExamSession
    <3> QED
      BY <1>2, <2>1, <3>1, <3>2 DEF MountFlow, Mounted, ExamTypeOK
  <2>2. ASSUME NEW a \in {"right", "wrong"}, handleAnswer(a) PROVE ExamTypeOK'
    <3>1. session' \in ExamSession
      BY <1>2, <2>2, SessionType DEF handleAnswer, InProgress, ExamTypeOK
    <3> QED
      BY <1>2, <2>2, <3>1 DEF handleAnswer, saveSession, storageKey, screen, ExamTypeOK
  <2>3. ASSUME NEW q \in ExamQuestions, handleNavigate(q) PROVE ExamTypeOK'
    <3>1. session' \in ExamSession
      BY <1>2, <2>3, SessionType DEF handleNavigate, goTo, InProgress, ExamTypeOK
    <3> QED
      BY <1>2, <2>3, <3>1
      DEF handleNavigate, goTo, savePosition, saveSession, storageKey, ExamTypeOK
  <2>4. CASE handleStart
    <3>1. session' \in ExamSession
      BY <1>2, <2>4, StartType DEF handleStart
    <3>2. currentIndex' \in ExamQuestions
      BY <2>4, <3>1, FirstQuestion DEF handleStart, Mounted, resumeAt, ExamSession
    <3>3. exams' \in 0..MaxExams
      BY <1>2, <2>4, ExamBoundsAssumption DEF handleStart, ExamTypeOK
    <3> QED
      BY <1>2, <2>4, <3>1, <3>2, <3>3
      DEF handleStart, Mounted, saveSession, storageKey, ExamTypeOK
  <2>5. CASE Submit
    BY <1>2, <2>5, SubmitType DEF Submit, ExamTypeOK
  <2>6. CASE AskToConfirm \/ KeepGoing
    BY <1>2, <2>6 DEF AskToConfirm, KeepGoing, ExamTypeOK
  <2>7. CASE returnToFirstUnanswered
    <3>1. PICK q \in ExamQuestions : goTo(q)
      BY <2>7 DEF returnToFirstUnanswered, unanswered
    <3>2. session' \in ExamSession
      BY <1>2, <2>7, <3>1, SessionType DEF returnToFirstUnanswered, goTo, InProgress, ExamTypeOK
    <3> QED
      BY <1>2, <2>7, <3>1, <3>2
      DEF returnToFirstUnanswered, goTo, savePosition, saveSession, storageKey, ExamTypeOK
  <2>8. CASE Interval
    <3>1. now' \in 0..MaxTime
      BY <1>2, <2>8 DEF Interval, ExamTypeOK
    <3>2. CASE timeExpires
      BY <1>2, <2>8, <3>1, <3>2, SubmitType DEF Interval
    <3>3. CASE ~timeExpires
      BY <1>2, <2>8, <3>1, <3>3 DEF Interval, ExamTypeOK
    <3> QED
      BY <3>2, <3>3
  <2>9. CASE handleStartOver
    BY <1>2, <2>9 DEF handleStartOver, saveSession, storageKey, screen, ExamTypeOK
  <2>10. CASE Pass
    BY <1>2, <2>10, ExamBoundsAssumption DEF Pass, screen, ExamTypeOK
  <2>11. CASE UNCHANGED examVars
    BY <1>2, <2>11 DEF examVars, screen, ExamTypeOK
  <2> QED
    BY <1>2, <2>1, <2>2, <2>3, <2>4, <2>5, <2>6, <2>7, <2>8, <2>9, <2>10, <2>11 DEF ExamNext
<1> QED
  BY <1>1, <1>2, PTL DEF ExamSpec

(* An exam in progress that is answered or moved on in stays the one exam  *)
(* its scope has stored.                                                   *)
LEMMA KeepStep ==
    ASSUME ExamTypeOK, ExamTypeOK', ExamInv, InProgress,
           scope' = scope, exams' = exams, recorded' = recorded, saveSession(session'),
           session' # NoExam, session'.id = session.id, session'.home = session.home,
           session'.status = "in_progress", currentIndex' = session'.currentIndex
    PROVE  ExamInv'
<1>1. /\ session = stored[scope] /\ scope \in Scopes /\ session # NoExam
      /\ session.status = "in_progress" /\ recorded[session.id] = {}
  BY DEF ExamInv, ReloadResumes, StoredOnce, resultsOf, storageKey, InProgress, ExamTypeOK
<1>2. /\ stored'[scope] = session'
      /\ \A u \in Scopes : u # scope => stored'[u] = stored[u]
  BY <1>1 DEF saveSession, storageKey, ExamTypeOK
<1>3. StoredInv'
  BY <1>1, <1>2 DEF ExamInv, StoredInv
<1>4. StoredOnce'
  <2>1. ASSUME NEW u \in Scopes, stored'[u] # NoExam
        PROVE  recorded'[stored'[u].id] = resultsOf(stored'[u])
    <3>1. CASE u = scope
      BY <1>1, <1>2, <3>1 DEF resultsOf
    <3>2. CASE u # scope
      BY <1>2, <2>1, <3>2 DEF ExamInv, StoredOnce
    <3> QED
      BY <3>1, <3>2
  <2> QED
    BY <2>1 DEF StoredOnce, resultsOf, scoreSession
<1>5. ReloadResumes'
  BY <1>2 DEF ReloadResumes, storageKey
<1> QED
  BY <1>3, <1>4, <1>5 DEF ExamInv

(* A submitted exam is recorded then and only then. *)
LEMMA SubmitStep ==
    ASSUME ExamTypeOK, ExamTypeOK', ExamInv, InProgress, handleSubmit
    PROVE  ExamInv'
<1>1. /\ session = stored[scope] /\ scope \in Scopes /\ session # NoExam
      /\ session \in ExamSession /\ session.id \in Exams /\ session.home = scope
      /\ session.id <= exams /\ recorded[session.id] = {}
  BY DEF ExamInv, StoredInv, ReloadResumes, StoredOnce, resultsOf, storageKey, InProgress, ExamTypeOK, ExamSession
<1>2. /\ session' \in ExamSession /\ session'.id = session.id
      /\ session'.home = session.home /\ session'.status = "submitted"
      /\ scoreSession(session') = scoreSession(session)
  BY <1>1, SessionType DEF handleSubmit, submitSession, scoreSession, ExamSession
<1>3. /\ stored'[scope] = session' /\ scope' = scope /\ exams' = exams
      /\ \A u \in Scopes : u # scope => stored'[u] = stored[u]
      /\ recorded'[session.id] = {<<scope, scoreSession(session)>>}
      /\ \A e \in Exams : e # session.id => recorded'[e] = recorded[e]
  BY <1>1 DEF handleSubmit, saveSubmitted, saveSession, storageKey, ExamTypeOK
<1>4. session' # NoExam
  BY <1>2, NoExamAssumption
<1>5. StoredInv'
  <2>1. ASSUME NEW u \in Scopes, stored'[u] # NoExam
        PROVE  stored'[u].home = u /\ stored'[u].id <= exams'
    BY <1>1, <1>2, <1>3, <2>1 DEF ExamInv, StoredInv
  <2>2. ASSUME NEW u \in Scopes, NEW v \in Scopes, u # v, stored'[u] # NoExam, stored'[v] # NoExam
        PROVE  stored'[u].id # stored'[v].id
    BY <1>1, <1>2, <1>3, <2>2 DEF ExamInv, StoredInv
  <2>3. ASSUME NEW e \in Exams, e > exams' PROVE recorded'[e] = {}
    BY <1>1, <1>3, <2>3 DEF ExamInv, StoredInv, ExamTypeOK, Exams
  <2> QED
    BY <2>1, <2>2, <2>3 DEF StoredInv
<1>6. StoredOnce'
  <2>1. ASSUME NEW u \in Scopes, stored'[u] # NoExam
        PROVE  recorded'[stored'[u].id] = resultsOf(stored'[u])
    <3>1. CASE u = scope
      BY <1>1, <1>2, <1>3, <3>1 DEF resultsOf
    <3>2. CASE u # scope
      <4>1. stored'[u] = stored[u] /\ stored[u] \in ExamSession
        BY <1>3, <2>1, <3>2 DEF ExamTypeOK
      <4>2. stored[u].id # session.id /\ stored[u].id \in Exams
        BY <1>1, <2>1, <3>2, <4>1 DEF ExamInv, StoredInv, ExamSession
      <4> QED
        BY <1>3, <2>1, <4>1, <4>2 DEF ExamInv, StoredOnce
    <3> QED
      BY <3>1, <3>2
  <2> QED
    BY <2>1 DEF StoredOnce, resultsOf, scoreSession
<1>7. ReloadResumes'
  BY <1>2, <1>3 DEF ReloadResumes, storageKey, InProgress
<1> QED
  BY <1>5, <1>6, <1>7 DEF ExamInv

(* A new exam has a number no stored session has. *)
LEMMA StartStep ==
    ASSUME ExamTypeOK, ExamTypeOK', ExamInv, handleStart
    PROVE  ExamInv'
<1>1. session' = startSession /\ session' \in ExamSession /\ session' # NoExam
  BY StartType, NoExamAssumption DEF handleStart
<1>2. /\ exams' = exams + 1 /\ exams \in Nat /\ exams' \in Exams
      /\ scope' = scope /\ recorded' = recorded /\ scope \in Scopes
  BY ExamBoundsAssumption DEF handleStart, ExamTypeOK, Exams
<1>3. /\ session'.id = exams' /\ session'.home = scope /\ session'.status = "in_progress"
      /\ session'.currentIndex = 1
  BY <1>1, <1>2 DEF startSession
<1>4. /\ stored'[scope] = session' /\ currentIndex' = 1
      /\ \A u \in Scopes : u # scope => stored'[u] = stored[u]
  BY <1>1, <1>2, <1>3 DEF handleStart, saveSession, storageKey, Mounted, resumeAt, ExamTypeOK
<1>5. recorded'[exams'] = {}
  BY <1>2 DEF ExamInv, StoredInv
<1>6. \A u \in Scopes : u # scope /\ stored[u] # NoExam =>
        stored[u].home = u /\ stored[u].id \in Exams /\ stored[u].id <= exams
  BY DEF ExamInv, StoredInv, ExamTypeOK, ExamSession
<1>7. StoredInv'
  <2>1. ASSUME NEW u \in Scopes, stored'[u] # NoExam
        PROVE  stored'[u].home = u /\ stored'[u].id <= exams'
    BY <1>2, <1>3, <1>4, <1>6, <2>1 DEF Exams
  <2>2. ASSUME NEW u \in Scopes, NEW v \in Scopes, u # v, stored'[u] # NoExam, stored'[v] # NoExam
        PROVE  stored'[u].id # stored'[v].id
    <3>1. CASE u = scope \/ v = scope
      BY <1>2, <1>3, <1>4, <1>6, <2>2, <3>1 DEF Exams
    <3>2. CASE u # scope /\ v # scope
      BY <1>4, <2>2, <3>2 DEF ExamInv, StoredInv
    <3> QED
      BY <3>1, <3>2
  <2>3. ASSUME NEW e \in Exams, e > exams' PROVE recorded'[e] = {}
    BY <1>2, <2>3 DEF ExamInv, StoredInv, Exams
  <2> QED
    BY <2>1, <2>2, <2>3 DEF StoredInv
<1>8. StoredOnce'
  <2>1. ASSUME NEW u \in Scopes, stored'[u] # NoExam
        PROVE  recorded'[stored'[u].id] = resultsOf(stored'[u])
    <3>1. CASE u = scope
      BY <1>2, <1>3, <1>4, <1>5, <3>1 DEF resultsOf
    <3>2. CASE u # scope
      BY <1>2, <1>4, <2>1, <3>2 DEF ExamInv, StoredOnce
    <3> QED
      BY <3>1, <3>2
  <2> QED
    BY <2>1 DEF StoredOnce, resultsOf, scoreSession
<1>9. ReloadResumes'
  BY <1>2, <1>3, <1>4 DEF ReloadResumes, storageKey
<1> QED
  BY <1>7, <1>8, <1>9 DEF ExamInv

(* What a scope has stored and what is recorded fit together at all times. *)
THEOREM ExamInvariance == ExamSpec => [](ExamTypeOK /\ ExamInv)
<1>1. ExamInit => ExamInv
  BY DEF ExamInit, ExamInv, StoredInv, StoredOnce, ReloadResumes, InProgress, storageKey
<1>2. ASSUME ExamTypeOK, ExamTypeOK', ExamInv, [ExamNext]_examVars PROVE ExamInv'
  <2>1. ASSUME NEW u \in Scopes, MountFlow(u) PROVE ExamInv'
    <3>1. session' = stored[u] /\ scope' = u /\ UNCHANGED <<stored, recorded, exams>>
      BY <2>1 DEF MountFlow, storageKey
    <3>2. session' # NoExam => currentIndex' = session'.currentIndex
      BY <2>1 DEF MountFlow, Mounted, resumeAt
    <3>3. StoredInv' /\ StoredOnce'
      BY <1>2, <3>1 DEF ExamInv, StoredInv, StoredOnce, resultsOf, scoreSession
    <3>4. ReloadResumes'
      BY <3>1, <3>2 DEF ReloadResumes, InProgress, storageKey
    <3> QED
      BY <3>3, <3>4 DEF ExamInv
  <2>2. ASSUME NEW a \in {"right", "wrong"}, handleAnswer(a) PROVE ExamInv'
    <3>1. session \in ExamSession /\ session.status = "in_progress"
      BY <1>2, <2>2 DEF handleAnswer, InProgress, ExamTypeOK
    <3>2. session' = [session EXCEPT !.answers[currentIndex] = a]
      BY <2>2, <3>1 DEF handleAnswer, answerQuestion
    <3>3. session' # NoExam
      BY <1>2, <2>2, <3>1, SessionType, NoExamAssumption DEF handleAnswer, ExamTypeOK
    <3>4. currentIndex' = currentIndex /\ currentIndex = session.currentIndex
      BY <1>2, <2>2 DEF handleAnswer, screen, ExamInv, ReloadResumes
    <3>5. /\ session'.id = session.id /\ session'.home = session.home
          /\ session'.status = "in_progress" /\ session'.currentIndex = session.currentIndex
      BY <3>1, <3>2 DEF ExamSession
    <3> QED
      BY <1>2, <2>2, <3>3, <3>4, <3>5, KeepStep DEF handleAnswer
  <2>3. ASSUME NEW q \in ExamQuestions, goTo(q), InProgress, UNCHANGED <<scope, exams, recorded>>
        PROVE  ExamInv'
    <3>1. session \in ExamSession /\ session.status = "in_progress"
      BY <1>2, <2>3 DEF InProgress, ExamTypeOK
    <3>2. session' = [session EXCEPT !.currentIndex = q] /\ saveSession(session') /\ currentIndex' = q
      BY <2>3 DEF goTo, savePosition
    <3>3. session' # NoExam
      BY <3>1, <3>2, SessionType, NoExamAssumption
    <3>4. /\ session'.id = session.id /\ session'.home = session.home
          /\ session'.status = "in_progress" /\ session'.currentIndex = q
      BY <3>1, <3>2 DEF ExamSession
    <3> QED
      BY <1>2, <2>3, <3>2, <3>3, <3>4, KeepStep
  <2>4. ASSUME NEW q \in ExamQuestions, handleNavigate(q) PROVE ExamInv'
    BY <2>3, <2>4 DEF handleNavigate
  <2>5. CASE returnToFirstUnanswered
    BY <2>3, <2>5 DEF returnToFirstUnanswered, unanswered
  <2>6. CASE handleStart
    BY <1>2, <2>6, StartStep
  <2>7. CASE Submit \/ (Interval /\ timeExpires)
    BY <1>2, <2>7, SubmitStep DEF Submit, Interval
  <2>8. CASE \/ AskToConfirm \/ KeepGoing \/ (Interval /\ ~timeExpires) \/ Pass
             \/ UNCHANGED examVars
    <3>1. UNCHANGED <<scope, stored, session, currentIndex, recorded, exams>>
      BY <2>8 DEF AskToConfirm, KeepGoing, Interval, Pass, examVars, screen
    <3> QED
      BY <1>2, <3>1
      DEF ExamInv, StoredInv, StoredOnce, resultsOf, ReloadResumes, InProgress, storageKey, scoreSession
  <2>9. CASE handleStartOver
    <3>1. /\ session' = NoExam /\ stored' = [stored EXCEPT ![scope] = NoExam]
          /\ UNCHANGED <<scope, recorded, exams>>
      BY <2>9 DEF handleStartOver, saveSession, storageKey
    <3>2. scope \in Scopes /\ stored'[scope] = NoExam
      BY <1>2, <3>1 DEF ExamTypeOK
    <3>3. \A u \in Scopes : stored'[u] = NoExam \/ stored'[u] = stored[u]
      BY <1>2, <3>1 DEF ExamTypeOK
    <3>4. StoredInv'
      BY <1>2, <3>1, <3>3 DEF ExamInv, StoredInv
    <3>5. StoredOnce'
      <4>1. ASSUME NEW u \in Scopes, stored'[u] # NoExam
            PROVE  recorded'[stored'[u].id] = resultsOf(stored'[u])
        BY <1>2, <3>1, <3>3, <4>1 DEF ExamInv, StoredOnce
      <4> QED
        BY <4>1 DEF StoredOnce, resultsOf, scoreSession
    <3>6. ReloadResumes'
      BY <3>1, <3>2 DEF ReloadResumes, InProgress, storageKey
    <3> QED
      BY <3>4, <3>5, <3>6 DEF ExamInv
  <2> QED
    BY <1>2, <2>1, <2>2, <2>4, <2>5, <2>6, <2>7, <2>8, <2>9 DEF ExamNext, Interval
<1> QED
  BY <1>1, <1>2, ExamTypeCorrect, PTL DEF ExamSpec

(* No exam counts twice: what a submitted exam shows is what it recorded,  *)
(* once and under its own scope, whatever reloads and submissions happen.  *)
THEOREM ExamsCountOnce == ExamSpec => []RecordedOnce
<1>1. ASSUME ExamTypeOK, ExamInv PROVE RecordedOnce
  <2>1. scope \in Scopes /\ session = stored[scope]
    BY <1>1 DEF ExamTypeOK, ExamInv, ReloadResumes, storageKey
  <2>2. ASSUME NEW s \in {session} \cup {stored[u] : u \in Scopes}, s # NoExam
        PROVE  recorded[s.id] = resultsOf(s)
    <3>1. PICK u \in Scopes : s = stored[u]
      BY <2>1, <2>2
    <3> QED
      BY <1>1, <2>2, <3>1 DEF ExamInv, StoredOnce
  <2> QED
    BY <2>2 DEF RecordedOnce
<1> QED
  BY <1>1, ExamInvariance, PTL

(* A reload at any moment resumes the same exam at the same question. *)
THEOREM ReloadsResume == ExamSpec => []ReloadResumes
<1>1. ExamInv => ReloadResumes
  BY DEF ExamInv
<1> QED
  BY <1>1, ExamInvariance, PTL

(* The exam on screen was started by this owner and in this course. *)
THEOREM ExamsStayInScope == ExamSpec => []ScopeIsolation
<1>1. ExamTypeOK /\ ExamInv => ScopeIsolation
  BY DEF ExamInv, StoredInv, ReloadResumes, ScopeIsolation, storageKey, ExamTypeOK
<1> QED
  BY <1>1, ExamInvariance, PTL

=============================================================================
