---------------------------- MODULE ScreensProofs ----------------------------
(* Proofs about Screens: what one rendering keeps, then every action as a  *)
(* rendering, or as a step that renders nothing.                           *)
EXTENDS Screens, FiniteSetTheorems, WellFoundedInduction, TLAPS

(* A set of numbers that is not empty has its minimum.                     *)
LEMMA MinIsMember ==
  ASSUME NEW T, T \subseteq Nat, T # {}
  PROVE  Min(T) \in T
<1>1. IsWellFoundedOn(OpToRel(<, Nat), Nat)
  BY NatLessThanWellFounded
<1>2. PICK m \in T : \A n \in T : <<n, m>> \notin OpToRel(<, Nat)
  BY <1>1, WFMin
<1>3. ASSUME NEW n \in T, n < m PROVE FALSE
  BY <1>2, <1>3 DEF OpToRel
<1>4. \A n \in T : m =< n
  BY <1>3
<1> QED
  BY <1>4 DEF Min

(* The course a page starts with has questions, if any course has.         *)
LEMMA ResolvedCourse ==
  ASSUME NEW b \in SUBSET Questions, NEW s \in Courses \cup {None}
  PROVE  LET c == resolveInitialCourseId(b, s)
         IN IF c = None THEN \A d \in Courses : ~ isCourseAvailable(b, d)
            ELSE c \in Courses /\ isCourseAvailable(b, c)
<1> DEFINE available == {c \in Courses : isCourseAvailable(b, c)}
<1>1. CASE s # None /\ isCourseAvailable(b, s)
  BY <1>1 DEF resolveInitialCourseId
<1>2. CASE available = {} /\ ~(s # None /\ isCourseAvailable(b, s))
  BY <1>2 DEF resolveInitialCourseId, firstAvailableCourseId
<1>3. CASE available # {} /\ ~(s # None /\ isCourseAvailable(b, s))
  <2>1. Min(available) \in available
    BY <1>3, MinIsMember, CatalogAssumption
  <2>2. Min(available) # None
    BY <2>1, NoneAssumption
  <2> QED
    BY <1>3, <2>1, <2>2 DEF resolveInitialCourseId, firstAvailableCourseId
<1> QED
  BY <1>1, <1>2, <1>3

(* What is counted is a number. *)
LEMMA Counts ==
  ASSUME NEW answers, NEW qs \in SUBSET Questions, NEW b \in SUBSET Questions, NEW c
  PROVE  /\ calculateProgressStats(answers, qs) \in Stats
         /\ courseMistakeCount(answers, b, c) \in Nat
<1>1. ASSUME NEW T \in SUBSET Questions, NEW result
      PROVE  Cardinality(answered(answers, T, result)) \in Nat
  <2>1. answered(answers, T, result) \subseteq Questions
    BY DEF answered
  <2> QED
    BY <2>1, FS_Subset, FS_CardinalityType, CatalogAssumption
<1>2. questionsForCourse(b, c) \in SUBSET Questions
  BY DEF questionsForCourse
<1> QED
  BY <1>1, <1>2 DEF calculateProgressStats, courseMistakeCount, Stats

-----------------------------------------------------------------------------
(* What a task leaves to the rendering at its end. *)

(* The variables the task itself has set keep their types. *)
TaskTypes ==
    /\ bank \subseteq Questions
    /\ {stored, currentCourseId} \subseteq Courses \cup {None}
    /\ log \in [Owners -> [Questions -> Answers \cup {None}]]
    /\ progressOwner \in Owners
    /\ session \in [isPending : BOOLEAN, user : Users \cup {None}] /\ authSettled \in BOOLEAN
    /\ route \in Route /\ writes \in 0 .. MaxWrites

Answered == log[progressOwner]

(* What it may change without saying so to the rendering. *)
Announced(bumped, navigated, loaded, overtaken) ==
    /\ loaded => navigated
    /\ ~ loaded => bank' = bank
    /\ ~ navigated => route' = route
    /\ bumped \/ loaded \/ Answered' = Answered \/ {"badge", "stats"} \subseteq overtaken

(* The parts of a rendering. *)
Stat(c) == calculateProgressStats(Answered', questionsForCourse(bank', c))
Mounts == waitsForSession(route') => authSettled'
Key == remountKey(route', currentCourseId', session'.user)
Keeps(loaded) == ~ loaded /\ view # None /\ Mounts /\ view.key = Key
Found(loaded) == IF loaded THEN [title |-> "index", meta |-> None, schema |-> None] ELSE head
Titled(navigated, loaded) ==
    IF navigated /\ route'.name # "course"
    THEN [Found(loaded) EXCEPT !.title = route'.name] ELSE Found(loaded)
Left(navigated, loaded) ==
    IF ~ loaded /\ view # None /\ view.name = "course" /\ ~ Keeps(loaded)
    THEN restoreOriginalMeta(Titled(navigated, loaded), view.original) ELSE Titled(navigated, loaded)
Fresh(original) ==
    [key |-> Key, name |-> route'.name, course |-> currentCourseId', user |-> session'.user,
     stats |-> IF showsStats(route'.name) THEN Stat(currentCourseId') ELSE None,
     original |-> original, selection |-> None, exam |-> None]

LEMMA RenderParts ==
  ASSUME NEW bumped, NEW navigated, NEW loaded, NEW overtaken,
         Render(bumped, navigated, loaded, overtaken)
  PROVE  /\ mistakeCount' = IF loaded \/ refreshes(bumped, navigated)
                            THEN courseMistakeCount(Answered', bank', currentCourseId')
                            ELSE mistakeCount
         /\ ~ Mounts => view' = None
         /\ Mounts /\ ~ Keeps(loaded) => view' = Fresh(Left(navigated, loaded).meta)
         /\ Keeps(loaded) => view' = IF bumped /\ showsStats(view.name)
                                     THEN [view EXCEPT !.stats = Stat(view.course)] ELSE view
         /\ head' = IF Mounts /\ ~ Keeps(loaded) /\ route'.name = "course"
                    THEN updateMeta(Left(navigated, loaded), bank', route'.course)
                    ELSE Left(navigated, loaded)
         /\ stale' = {d \in stale \cup overtaken :
                         IF d = "badge" THEN ~ (loaded \/ refreshes(bumped, navigated))
                                        ELSE Keeps(loaded) /\ ~ bumped}
BY DEF Render, Stat, Answered, Mounts, Key, Keeps, Found, Titled, Left, Fresh

IsHead(h) == h \in [title : {h.title}, meta : Courses \cup {None}, schema : Courses \cup {None}]

LEMMA Retitled ==
  ASSUME NEW h, IsHead(h), NEW t
  PROVE  LET r == [h EXCEPT !.title = t]
         IN IsHead(r) /\ r.title = t /\ r.meta = h.meta /\ r.schema = h.schema
BY DEF IsHead

LEMMA Restored ==
  ASSUME NEW h, IsHead(h), NEW m \in Courses \cup {None}
  PROVE  LET r == restoreOriginalMeta(h, m)
         IN IsHead(r) /\ r.title = h.title /\ r.meta = m /\ r.schema = None
BY DEF IsHead, restoreOriginalMeta

(* A course page has been left when the next screen is mounted.            *)
LEMMA LeftHead ==
  ASSUME TypeOK, ViewInv, HeadFits, NEW navigated \in BOOLEAN, NEW loaded \in BOOLEAN,
         loaded => navigated, ~ navigated => route' = route
  PROVE  LET l == Left(navigated, loaded)
         IN /\ IsHead(l)
            /\ l.title = IF navigated /\ route'.name # "course" THEN route'.name
                         ELSE Found(loaded).title
            /\ ~ Keeps(loaded) => l.meta = None /\ l.schema = None
            /\ Keeps(loaded) => l.meta = head.meta /\ l.schema = head.schema
<1> DEFINE l == Left(navigated, loaded)
           t == Titled(navigated, loaded)
           f == Found(loaded)
<1>1. IsHead(f)
  BY DEF Found, IsHead, TypeOK
<1>2. IsHead(t) /\ t.meta = f.meta /\ t.schema = f.schema
      /\ t.title = IF navigated /\ route'.name # "course" THEN route'.name ELSE f.title
  BY <1>1, Retitled DEF Titled
<1>3. ASSUME ~ loaded, view # None, view.name = "course", ~ Keeps(loaded)
      PROVE  IsHead(l) /\ l.title = t.title /\ l.meta = None /\ l.schema = None
  <2>1. view.original = None
    BY <1>3 DEF ViewInv
  <2>2. l = restoreOriginalMeta(t, None)
    BY <1>3, <2>1 DEF Left
  <2> HIDE DEF l, t
  <2> QED
    BY <1>2, <2>2, Restored
<1>4. ASSUME ~(~ loaded /\ view # None /\ view.name = "course" /\ ~ Keeps(loaded))
      PROVE  l = t
  BY <1>4 DEF Left
<1>5. Keeps(loaded) => f = head
  BY DEF Keeps, Found
<1>6. ASSUME ~ Keeps(loaded), ~ loaded, ~(view # None /\ view.name = "course")
      PROVE  f.meta = None /\ f.schema = None
  <2>1. route.name # "course"
    BY <1>6 DEF ViewInv
  <2> QED
    BY <1>6, <2>1, BoundAssumption DEF HeadFits, Found, TypeOK, Route
<1>7. loaded => f.meta = None /\ f.schema = None
  BY DEF Found
<1> HIDE DEF l, t, f
<1>8. IsHead(l) /\ l.title = t.title /\ (~ Keeps(loaded) => l.meta = None /\ l.schema = None)
      /\ (Keeps(loaded) => l.meta = head.meta /\ l.schema = head.schema)
  BY <1>2, <1>3, <1>4, <1>5, <1>6, <1>7
<1> QED
  BY <1>2, <1>8 DEF l, t, f

(* The screen after a rendering is the one that was there, or a new one    *)
(* for the course, the account and the route the task has set.             *)
LEMMA RenderedView ==
  ASSUME TypeOK, ViewInv, HeadFits, TaskTypes', CourseInv',
         NEW bumped \in BOOLEAN, NEW navigated \in BOOLEAN, NEW loaded \in BOOLEAN,
         NEW overtaken \in SUBSET {"badge", "stats"},
         Announced(bumped, navigated, loaded, overtaken),
         Render(bumped, navigated, loaded, overtaken)
  PROVE  view' \in Screen \cup {None} /\ ViewInv'
<1>1. route' \in Route /\ currentCourseId' \in Courses \cup {None}
      /\ session'.user \in Users \cup {None} /\ route'.name \in Names \cup {"course"}
  BY DEF TaskTypes, Route
<1>2. \A d : Stat(d) \in Stats
  <2>1. \A d : questionsForCourse(bank', d) \in SUBSET Questions
    BY DEF questionsForCourse, TaskTypes
  <2> QED
    BY <2>1, Counts DEF Stat
<1>3. CASE ~ Mounts
  <2>1. view' = None /\ route'.name # "course"
    BY <1>3, RenderParts DEF Mounts, waitsForSession
  <2> QED
    BY <2>1 DEF ViewInv
<1>4. CASE Mounts /\ ~ Keeps(loaded)
  <2>1. Left(navigated, loaded).meta = None
    BY <1>4, LeftHead DEF Announced
  <2>2. view' = Fresh(None)
    BY <1>4, <2>1, RenderParts
  <2>3. Fresh(None) \in Screen
    BY <1>1, <1>2 DEF Screen, Fresh, Key, remountKey
  <2>4. Fresh(None) # None
    BY <2>3, NoneAssumption
  <2> QED
    BY <2>2, <2>3, <2>4 DEF ViewInv, Fresh, Key
<1>5. CASE Keeps(loaded)
  <2>1. view \in Screen /\ remountKey(route, currentCourseId, session.user) = Key /\ ~ loaded
    BY <1>5 DEF TypeOK, ViewInv, Keeps
  <2>2. route = route' /\ currentCourseId = currentCourseId' /\ session.user = session'.user
        /\ bank' = bank
    BY <2>1 DEF remountKey, Announced, Key
  <2>3. view' = IF bumped /\ showsStats(view.name)
                THEN [view EXCEPT !.stats = Stat(view.course)] ELSE view
    BY <1>5, RenderParts
  <2>4. view' \in Screen /\ view' # None /\ view'.key = view.key /\ view'.name = view.name
        /\ view'.course = view.course /\ view'.user = view.user /\ view'.original = view.original
        /\ view'.selection = view.selection /\ view'.exam = view.exam
    BY <1>2, <2>1, <2>3, NoneAssumption DEF Screen
  <2>5. view # None
    BY <1>5 DEF Keeps
  <2> QED
    BY <2>2, <2>4, <2>5 DEF ViewInv
<1> QED
  BY <1>3, <1>4, <1>5

(* The head is of the course page exactly when one is shown.               *)
LEMMA RenderedHead ==
  ASSUME TypeOK, ViewInv, HeadFits, TaskTypes', CourseInv',
         NEW bumped \in BOOLEAN, NEW navigated \in BOOLEAN, NEW loaded \in BOOLEAN,
         NEW overtaken \in SUBSET {"badge", "stats"},
         Announced(bumped, navigated, loaded, overtaken),
         Render(bumped, navigated, loaded, overtaken)
  PROVE  IsHead(head)' /\ HeadFits'
<1> DEFINE l == Left(navigated, loaded)
           c == route'.course
<1>1. /\ IsHead(l)
      /\ l.title = IF navigated /\ route'.name # "course" THEN route'.name ELSE Found(loaded).title
      /\ ~ Keeps(loaded) => l.meta = None /\ l.schema = None
      /\ Keeps(loaded) => l.meta = head.meta /\ l.schema = head.schema
  BY LeftHead DEF Announced
<1>2. route' \in Route
  BY DEF TaskTypes
<1>3. head' = IF Mounts /\ ~ Keeps(loaded) /\ route'.name = "course"
              THEN updateMeta(l, bank', c) ELSE l
  BY RenderParts
<1>4. CASE route'.name = "course" /\ ~ Keeps(loaded)
  <2>1. Mounts
    BY <1>4 DEF Mounts, waitsForSession
  <2>2. head' = updateMeta(l, bank', c) /\ l.meta = None
    BY <1>1, <1>3, <1>4, <2>1
  <2>3. c \in Courses \cup {None}
    BY <1>2, BoundAssumption DEF Route
  <2>4. CASE shown(bank', c) = "course"
    <3>1. c \in Courses /\ head' = [title |-> c, meta |-> c, schema |-> c]
      BY <2>2, <2>3, <2>4 DEF updateMeta, shown
    <3> QED
      BY <1>4, <2>4, <3>1 DEF HeadFits, IsHead
  <2>5. CASE shown(bank', c) # "course"
    <3> DEFINE t == [l EXCEPT !.title = shown(bank', c)]
    <3>1. IsHead(t) /\ t.title = shown(bank', c) /\ t.meta = None
      BY <1>1, <2>2, Retitled
    <3>2. head' = restoreOriginalMeta(t, None)
      BY <2>2, <2>5 DEF updateMeta
    <3> HIDE DEF t
    <3>3. IsHead(head)' /\ head'.title = shown(bank', c) /\ head'.meta = None /\ head'.schema = None
      BY <3>1, <3>2, Restored DEF IsHead
    <3> QED
      BY <1>4, <2>5, <3>3 DEF HeadFits
  <2> QED
    BY <2>4, <2>5
<1>5. CASE Keeps(loaded)
  <2>1. ~ loaded /\ view # None /\ Found(loaded) = head /\ head' = l
    BY <1>3, <1>5 DEF Keeps, Found
  <2>2. route' = route /\ bank' = bank
    BY <1>5, <2>1 DEF Keeps, Key, ViewInv, remountKey, Announced
  <2>3. head'.title = head.title
    <3>1. CASE navigated /\ route'.name # "course"
      BY <1>1, <2>1, <2>2, <3>1 DEF HeadFits
    <3> QED
      BY <1>1, <2>1, <3>1
  <2> QED
    BY <1>1, <1>5, <2>1, <2>2, <2>3 DEF HeadFits, IsHead
<1>6. CASE route'.name # "course" /\ ~ Keeps(loaded)
  <2>1. head' = l /\ l.meta = None /\ l.schema = None
    BY <1>1, <1>3, <1>6
  <2>2. l.title = route'.name
    <3>1. CASE ~ navigated
      <4>1. Found(loaded) = head /\ route' = route
        BY <3>1 DEF Announced, Found
      <4> QED
        BY <1>1, <1>6, <3>1, <4>1 DEF HeadFits
    <3> QED
      BY <1>1, <1>6, <3>1
  <2> QED
    BY <1>1, <1>6, <2>1, <2>2 DEF HeadFits, IsHead
<1> QED
  BY <1>4, <1>5, <1>6

(* The badge and the statistics are renewed, unchanged, or overtaken.      *)
LEMMA RenderedBadge ==
  ASSUME TypeOK, ViewInv, BadgeAgrees, TaskTypes', CourseInv',
         NEW bumped \in BOOLEAN, NEW navigated \in BOOLEAN, NEW loaded \in BOOLEAN,
         NEW overtaken \in SUBSET {"badge", "stats"},
         Announced(bumped, navigated, loaded, overtaken),
         Render(bumped, navigated, loaded, overtaken)
  PROVE  mistakeCount' \in Nat /\ stale' \subseteq {"badge", "stats"} /\ BadgeAgrees'
<1> DEFINE c == currentCourseId'
<1>1. bank' \in SUBSET Questions
  BY DEF TaskTypes
<1>2. courseMistakeCount(Answered', bank', c) \in Nat
  BY <1>1, Counts
<1>3. /\ mistakeCount' = IF loaded \/ refreshes(bumped, navigated)
                         THEN courseMistakeCount(Answered', bank', c) ELSE mistakeCount
      /\ stale' = {d \in stale \cup overtaken :
                      IF d = "badge" THEN ~ (loaded \/ refreshes(bumped, navigated))
                                     ELSE Keeps(loaded) /\ ~ bumped}
  BY RenderParts
<1>4. mistakeCount' \in Nat /\ stale' \subseteq {"badge", "stats"}
  BY <1>2, <1>3 DEF TypeOK
<1>5. ASSUME "badge" \notin stale'
      PROVE  mistakeCount' = courseMistakeCount(Answered', bank', c)
  <2>1. CASE loaded \/ refreshes(bumped, navigated)
    BY <1>3, <2>1
  <2>2. CASE ~(loaded \/ refreshes(bumped, navigated))
    <3>1. mistakeCount' = mistakeCount /\ "badge" \notin stale \cup overtaken
      BY <1>3, <1>5, <2>2
    <3>2. bank' = bank /\ c = currentCourseId /\ Answered' = Answered
      BY <2>2, <3>1 DEF refreshes, Announced
    <3> QED
      BY <3>1, <3>2 DEF BadgeAgrees, courseMistakeCount, Answered
  <2> QED
    BY <2>1, <2>2
<1>6. ASSUME view' # None, showsStats(view'.name), "stats" \notin stale'
      PROVE  view'.stats = Stat(c)
  <2>1. CASE ~ Keeps(loaded)
    <3>1. view' = Fresh(Left(navigated, loaded).meta)
      BY <1>6, <2>1, RenderParts
    <3> QED
      BY <1>6, <3>1 DEF Fresh
  <2>2. CASE Keeps(loaded)
    <3>1. view \in Screen /\ view # None /\ ~ loaded /\ c = view.course /\ c = currentCourseId
      BY <2>2 DEF Keeps, TypeOK, ViewInv, Key, remountKey
    <3>2. view' = IF bumped /\ showsStats(view.name)
                  THEN [view EXCEPT !.stats = Stat(view.course)] ELSE view
      BY <2>2, RenderParts
    <3>3. view'.name = view.name
      BY <3>1, <3>2 DEF Screen
    <3>4. CASE bumped
      BY <1>6, <3>1, <3>2, <3>3, <3>4 DEF Screen
    <3>5. CASE ~ bumped
      <4>1. view' = view /\ "stats" \notin stale \cup overtaken
        BY <1>3, <1>6, <2>2, <3>2, <3>5
      <4>2. bank' = bank /\ Answered' = Answered
        BY <3>1, <3>5, <4>1 DEF Announced
      <4> QED
        BY <1>6, <3>1, <4>1, <4>2 DEF BadgeAgrees, Stat, Answered
    <3> QED
      BY <3>4, <3>5
  <2> QED
    BY <2>1, <2>2
<1> QED
  BY <1>4, <1>5, <1>6 DEF BadgeAgrees, courseMistakeCount, Stat, Answered

-----------------------------------------------------------------------------
(* The inductive invariant, action by action. *)

ScreensInv == TypeOK /\ CourseInv /\ ViewInv /\ HeadFits /\ BadgeAgrees

LEMMA RenderKeeps ==
  ASSUME ScreensInv, TaskTypes', CourseInv',
         NEW bumped \in BOOLEAN, NEW navigated \in BOOLEAN, NEW loaded \in BOOLEAN,
         NEW overtaken \in SUBSET {"badge", "stats"},
         Announced(bumped, navigated, loaded, overtaken),
         Render(bumped, navigated, loaded, overtaken)
  PROVE  ScreensInv'
<1>1. view' \in Screen \cup {None} /\ ViewInv'
  BY RenderedView DEF ScreensInv
<1>2. IsHead(head)' /\ HeadFits'
  BY RenderedHead DEF ScreensInv
<1>3. mistakeCount' \in Nat /\ stale' \subseteq {"badge", "stats"} /\ BadgeAgrees'
  BY RenderedBadge DEF ScreensInv
<1> QED
  BY <1>1, <1>2, <1>3 DEF ScreensInv, TypeOK, TaskTypes, IsHead

LEMMA Selected ==
  ASSUME TypeOK, CourseInv, NEW b \in SUBSET Questions, NEW c \in Courses \cup {None}
  PROVE  selects(b, c) => c \in Courses /\ c # None /\ isCourseAvailable(b, c)
BY DEF selects

LEMMA InitInv == Init => ScreensInv
<1> SUFFICES ASSUME Init PROVE ScreensInv
  OBVIOUS
<1>1. CourseInv /\ currentCourseId \in Courses \cup {None}
  <2>1. currentCourseId = resolveInitialCourseId(bank, stored)
        /\ bank \in SUBSET Questions /\ stored \in Courses \cup {None}
    BY DEF Init
  <2> QED
    BY <2>1, ResolvedCourse, NoneAssumption DEF CourseInv
<1>2. TypeOK
  <2>1. [name |-> "practice", course |-> None] \in Route
    BY BoundAssumption DEF Route
  <2>2. bank \subseteq Questions /\ {stored, currentCourseId} \subseteq Courses \cup {None}
    BY <1>1 DEF Init
  <2>3. log \in [Owners -> [Questions -> Answers \cup {None}]] /\ progressOwner \in Owners
    BY DEF Init, Owners
  <2>4. session \in [isPending : BOOLEAN, user : Users \cup {None}] /\ authSettled \in BOOLEAN
    BY DEF Init
  <2>5. view \in Screen \cup {None} /\ route \in Route /\ mistakeCount \in Nat
    BY <2>1 DEF Init
  <2>6. head \in [title : {head.title}, meta : Courses \cup {None}, schema : Courses \cup {None}]
    BY DEF Init
  <2>7. stale \subseteq {"badge", "stats"} /\ writes \in 0 .. MaxWrites
    BY BoundAssumption DEF Init
  <2> QED
    BY <2>2, <2>3, <2>4, <2>5, <2>6, <2>7 DEF TypeOK
<1>3. ViewInv /\ HeadFits
  BY DEF Init, ViewInv, HeadFits
<1>4. BadgeAgrees
  <2> DEFINE qs == questionsForCourse(bank, currentCourseId)
  <2>1. answered(log[progressOwner], qs, "wrong") = {}
    BY NoneAssumption DEF Init, answered, Owners, questionsForCourse, Answers
  <2>2. Cardinality(answered(log[progressOwner], qs, "wrong")) = 0
    BY <2>1, FS_EmptySet
  <2> QED
    BY <2>2 DEF Init, BadgeAgrees
<1> QED
  BY <1>1, <1>2, <1>3, <1>4 DEF ScreensInv

LEMMA LoadStep ==
  ASSUME ScreensInv, NEW b \in SUBSET Questions, NEW r \in Route,
         NEW query \in Courses \cup {None}, Load(b, r, query)
  PROVE  ScreensInv'
<1>1. bank' = b /\ route' = r /\ progressOwner' = Guest /\ log' = log /\ writes' = writes
      /\ session' = [isPending |-> TRUE, user |-> None] /\ authSettled' = FALSE
      /\ stored' = currentCourseId'
      /\ Render(TRUE, TRUE, TRUE, {})
  BY DEF Load, setCourse
<1>2. CourseInv' /\ currentCourseId' \in Courses \cup {None}
  <2>1. stored \in Courses \cup {None}
    BY DEF ScreensInv, TypeOK
  <2>2. CASE selects(b, query)
    <3>1. currentCourseId' = query
      BY <2>2 DEF Load, setCourse
    <3> QED
      BY <1>1, <2>2, <3>1 DEF CourseInv, selects
  <2>3. CASE ~ selects(b, query)
    <3>1. currentCourseId' = resolveInitialCourseId(b, stored)
      BY <2>3 DEF Load, setCourse
    <3> QED
      BY <1>1, <2>1, <3>1, ResolvedCourse, NoneAssumption DEF CourseInv
  <2> QED
    BY <2>2, <2>3
<1>3. TaskTypes'
  BY <1>1, <1>2 DEF TaskTypes, ScreensInv, TypeOK, Owners
<1>4. Announced(TRUE, TRUE, TRUE, {})
  BY DEF Announced
<1> QED
  BY <1>1, <1>2, <1>3, <1>4, RenderKeeps

LEMMA NavigateStep ==
  ASSUME ScreensInv, NEW r \in Route, NEW query \in Courses \cup {None}, navigate(r, query)
  PROVE  ScreensInv'
<1>1. bank' = bank /\ route' = r /\ progressOwner' = progressOwner /\ log' = log /\ writes' = writes
      /\ session' = session /\ authSettled' = authSettled
      /\ Render(FALSE, TRUE, FALSE, {})
  BY DEF navigate
<1>2. \/ selects(bank, query) /\ currentCourseId' = query /\ stored' = query
      \/ currentCourseId' = currentCourseId /\ stored' = stored
  BY DEF navigate, setCourse
<1>3. CourseInv' /\ {stored, currentCourseId}' \subseteq Courses \cup {None}
  BY <1>1, <1>2 DEF CourseInv, ScreensInv, TypeOK, selects
<1>4. TaskTypes'
  BY <1>1, <1>3 DEF TaskTypes, ScreensInv, TypeOK
<1>5. Announced(FALSE, TRUE, FALSE, {})
  BY <1>1 DEF Announced, Answered
<1> QED
  BY <1>1, <1>3, <1>4, <1>5, RenderKeeps

LEMMA CourseChangeStep ==
  ASSUME ScreensInv, NEW c \in Courses, onCourseChange(c)
  PROVE  ScreensInv'
<1>1. UNCHANGED <<log, bank, progressOwner, session, authSettled, route, writes>>
      /\ selects(bank, c) /\ currentCourseId' = c /\ stored' = c
      /\ Render(FALSE, FALSE, FALSE, {})
  BY DEF onCourseChange, setCourse
<1>2. CourseInv'
  BY <1>1 DEF CourseInv, selects
<1>3. TaskTypes'
  BY <1>1 DEF TaskTypes, ScreensInv, TypeOK
<1>4. Announced(FALSE, FALSE, FALSE, {})
  BY <1>1 DEF Announced, Answered
<1> QED
  BY <1>1, <1>2, <1>3, <1>4, RenderKeeps

LEMMA StartStep ==
  ASSUME ScreensInv, NEW name \in {"practice", "mock"}, startFromCourse(name)
  PROVE  ScreensInv'
<1>1. UNCHANGED <<log, bank, progressOwner, session, authSettled, writes>>
      /\ shown(bank, route.course) = "course"
      /\ currentCourseId' = route.course /\ stored' = route.course
      /\ route' = [name |-> name, course |-> None]
      /\ Render(FALSE, TRUE, FALSE, {})
  BY DEF startFromCourse, setCourse
<1>2. route.course \in Courses /\ isCourseAvailable(bank, route.course) /\ route.course # None
  BY <1>1 DEF shown, ScreensInv, TypeOK, Route
<1>3. CourseInv'
  BY <1>1, <1>2 DEF CourseInv
<1>4. TaskTypes'
  <2>1. route' \in Route
    BY <1>1, BoundAssumption DEF Route
  <2> QED
    BY <1>1, <1>2, <2>1 DEF TaskTypes, ScreensInv, TypeOK
<1>5. Announced(FALSE, TRUE, FALSE, {})
  BY <1>1 DEF Announced, Answered
<1> QED
  BY <1>1, <1>3, <1>4, <1>5, RenderKeeps

LEMMA SessionStep ==
  ASSUME ScreensInv, NEW isPending \in BOOLEAN, NEW user \in Users \cup {None},
         SessionChanges(isPending, user)
  PROVE  ScreensInv'
<1> DEFINE overtaken == IF log' # log THEN {"badge", "stats"} ELSE {}
           owner == IF user = None THEN Guest ELSE user
<1>1. UNCHANGED <<stored, bank, currentCourseId, route, writes>>
      /\ session' = [isPending |-> isPending, user |-> user]
      /\ authSettled' = (authSettled \/ ~ isPending)
  BY DEF SessionChanges
<1>2. PICK bumped \in BOOLEAN : bumped <=> progressOwner' # progressOwner
  OBVIOUS
<1>3. Render(progressOwner' # progressOwner, FALSE, FALSE, overtaken)
  BY DEF SessionChanges
<1>4. Render(bumped, FALSE, FALSE, overtaken)
  BY <1>2, <1>3, Zenon
<1>5. \/ UNCHANGED <<progressOwner, log>>
      \/ setProgressOwner(owner)
  BY DEF SessionChanges
<1>6. progressOwner' \in Owners /\ log' \in [Owners -> [Questions -> Answers \cup {None}]]
  <2>1. owner \in Owners
    BY DEF Owners
  <2> QED
    BY <1>5, <2>1 DEF setProgressOwner, ScreensInv, TypeOK, Owners
<1>7. TaskTypes'
  BY <1>1, <1>6 DEF TaskTypes, ScreensInv, TypeOK
<1>8. CourseInv'
  BY <1>1 DEF CourseInv, ScreensInv
<1>9. Announced(bumped, FALSE, FALSE, overtaken)
  BY <1>1, <1>2 DEF Announced, Answered
<1> HIDE DEF overtaken
<1>10. overtaken \in SUBSET {"badge", "stats"}
  BY DEF overtaken
<1> QED
  BY <1>4, <1>7, <1>8, <1>9, <1>10, RenderKeeps

LEMMA SettleTimerStep ==
  ASSUME ScreensInv, SettleTimer
  PROVE  ScreensInv'
<1>1. UNCHANGED <<stored, log, bank, currentCourseId, progressOwner, session, route, writes>>
      /\ authSettled' = TRUE /\ Render(FALSE, FALSE, FALSE, {})
  BY DEF SettleTimer
<1>2. CourseInv' /\ TaskTypes'
  BY <1>1 DEF CourseInv, TaskTypes, ScreensInv, TypeOK
<1>3. Announced(FALSE, FALSE, FALSE, {})
  BY <1>1 DEF Announced, Answered
<1> QED
  BY <1>1, <1>2, <1>3, RenderKeeps

LEMMA WritesStep ==
  ASSUME ScreensInv, NEW answers \in [Questions -> Answers \cup {None}],
         Writes(answers), writes' \in 0 .. MaxWrites
  PROVE  ScreensInv'
<1>1. UNCHANGED <<stored, bank, currentCourseId, progressOwner, session, authSettled, route>>
      /\ log' = [log EXCEPT ![progressOwner] = answers] /\ Render(TRUE, FALSE, FALSE, {})
  BY DEF Writes
<1>2. CourseInv' /\ TaskTypes'
  BY <1>1 DEF CourseInv, TaskTypes, ScreensInv, TypeOK
<1>3. Announced(TRUE, FALSE, FALSE, {})
  BY <1>1 DEF Announced
<1> QED
  BY <1>1, <1>2, <1>3, RenderKeeps

LEMMA AnswerStep ==
  ASSUME ScreensInv, NEW q \in Questions, NEW result \in Answers,
         recordAttempt(q, result) \/ syncFromServer(q, result)
  PROVE  ScreensInv'
<1>1. Writes([log[progressOwner] EXCEPT ![q] = result]) /\ Spend
  BY DEF recordAttempt, syncFromServer
<1>2. log[progressOwner] \in [Questions -> Answers \cup {None}] /\ writes \in 0 .. MaxWrites
  BY DEF ScreensInv, TypeOK
<1>3. writes' \in 0 .. MaxWrites
  BY <1>1, <1>2, BoundAssumption DEF Spend
<1>4. [log[progressOwner] EXCEPT ![q] = result] \in [Questions -> Answers \cup {None}]
  BY <1>2
<1> QED
  BY <1>1, <1>3, <1>4, WritesStep

LEMMA ClearStep ==
  ASSUME ScreensInv, handleClearHistory
  PROVE  ScreensInv'
<1>1. Writes([x \in Questions |-> None]) /\ writes' \in 0 .. MaxWrites
  BY DEF handleClearHistory, ScreensInv, TypeOK
<1>2. [x \in Questions |-> None] \in [Questions -> Answers \cup {None}]
  OBVIOUS
<1> QED
  BY <1>1, <1>2, WritesStep

(* The steps that render nothing. *)
LEMMA QuietStep ==
  ASSUME ScreensInv, load \/ handleStart \/ OtherTab \/ UNCHANGED vars
  PROVE  ScreensInv'
<1>1. CASE load \/ handleStart
  <2>1. UNCHANGED <<stored, log, bank, currentCourseId, progressOwner, session, authSettled,
                    route, mistakeCount, head, stale, writes>>
    BY <1>1 DEF load, handleStart
  <2>2. view # None /\ view \in Screen
    BY <1>1 DEF load, handleStart, startable, ScreensInv, TypeOK
  <2>3. CASE load
    <3>1. PICK s \in SUBSET questionsForCourse(bank, currentCourseId) :
             view' = [view EXCEPT !.selection = s]
      BY <2>3 DEF load, selectMockQuestions
    <3>2. s \in SUBSET Questions
      BY <3>1 DEF questionsForCourse, ScreensInv, TypeOK
    <3>3. view' \in Screen /\ view'.selection = s /\ view'.exam = view.exam /\ view'.key = view.key
          /\ view'.name = view.name /\ view'.course = view.course /\ view'.user = view.user
          /\ view'.original = view.original /\ view'.stats = view.stats
      BY <2>2, <3>1, <3>2 DEF Screen
    <3> QED
      BY <2>1, <2>2, <3>1, <3>3, NoneAssumption
         DEF ScreensInv, TypeOK, CourseInv, ViewInv, HeadFits, BadgeAgrees
  <2>4. CASE handleStart
    <3>1. view' \in Screen /\ view'.selection = view.selection /\ view'.exam = view.selection
          /\ view'.key = view.key /\ view'.name = view.name /\ view'.course = view.course
          /\ view'.user = view.user /\ view'.original = view.original /\ view'.stats = view.stats
      BY <2>2, <2>4 DEF Screen, handleStart
    <3> QED
      BY <2>1, <2>2, <3>1, NoneAssumption
         DEF ScreensInv, TypeOK, CourseInv, ViewInv, HeadFits, BadgeAgrees
  <2> QED
    BY <1>1, <2>3, <2>4
<1>2. CASE OtherTab
  <2>1. UNCHANGED page /\ writes' \in 0 .. MaxWrites
    BY <1>2, BoundAssumption DEF OtherTab, Spend, ScreensInv, TypeOK
  <2>2. \/ stored' \in Courses /\ UNCHANGED <<log, stale>>
        \/ /\ log' \in [Owners -> [Questions -> Answers \cup {None}]]
           /\ stale' = {"badge", "stats"} /\ UNCHANGED stored
    BY <1>2 DEF OtherTab, ScreensInv, TypeOK
  <2>3. TypeOK' /\ CourseInv' /\ ViewInv' /\ HeadFits'
    BY <2>1, <2>2 DEF ScreensInv, TypeOK, CourseInv, ViewInv, HeadFits, page
  <2>4. BadgeAgrees'
    BY <2>1, <2>2 DEF ScreensInv, BadgeAgrees, page
  <2> QED
    BY <2>3, <2>4 DEF ScreensInv
<1>3. CASE UNCHANGED vars
  BY <1>3 DEF vars, page, ScreensInv, TypeOK, CourseInv, ViewInv, HeadFits, BadgeAgrees
<1> QED
  BY <1>1, <1>2, <1>3

LEMMA NextStep ==
  ASSUME ScreensInv, [Next]_vars
  PROVE  ScreensInv'
<1>1. CASE \E r \in Route, query \in Courses \cup {None} :
              navigate(r, query) \/ \E b \in SUBSET Questions : Load(b, r, query)
  BY <1>1, LoadStep, NavigateStep
<1>2. CASE \E c \in Courses : onCourseChange(c)
  BY <1>2, CourseChangeStep
<1>3. CASE \E name \in {"practice", "mock"} : startFromCourse(name)
  BY <1>3, StartStep
<1>4. CASE \E isPending \in BOOLEAN, user \in Users \cup {None} : SessionChanges(isPending, user)
  BY <1>4, SessionStep
<1>5. CASE \E q \in Questions, result \in Answers :
              recordAttempt(q, result) \/ syncFromServer(q, result)
  BY <1>5, AnswerStep
<1>6. CASE handleClearHistory
  BY <1>6, ClearStep
<1>7. CASE SettleTimer \/ load \/ handleStart \/ OtherTab \/ UNCHANGED vars
  BY <1>7, SettleTimerStep, QuietStep
<1> QED
  BY <1>1, <1>2, <1>3, <1>4, <1>5, <1>6, <1>7 DEF Next

(* The inductive invariant of the page: types, the selected course, the    *)
(* mounted screen, the head and the displays.                              *)
THEOREM Invariance == Spec => []ScreensInv
BY InitInv, NextStep, PTL DEF Spec

(* What is on screen is of the selected course and of the learner who is   *)
(* signed in, for every catalog, deployment and account.                   *)
THEOREM ScopeHolds == Spec => []ScopeIsCurrent
<1>1. ScreensInv => ScopeIsCurrent
  BY NoneAssumption DEF ScreensInv, TypeOK, CourseInv, ViewInv, ScopeIsCurrent, remountKey
<1> QED
  BY <1>1, Invariance, PTL

(* The badge and the statistics say what the log of the current owner says *)
(* of the current course, until another tab writes to it.                  *)
THEOREM BadgeHolds == Spec => []BadgeAgrees
<1>1. ScreensInv => BadgeAgrees
  BY DEF ScreensInv
<1> QED
  BY <1>1, Invariance, PTL

(* The head of the document speaks of a course exactly as long as its page *)
(* is shown.                                                               *)
THEOREM HeadHolds == Spec => []HeadFits
<1>1. ScreensInv => HeadFits
  BY DEF ScreensInv
<1> QED
  BY <1>1, Invariance, PTL

=============================================================================
