------------------------------- MODULE Screens -------------------------------
(***************************************************************************)
(* One page of the client: which course, which account and which screen it *)
(* shows (client/src/App.vue, services/courseStore.ts, router/index.ts,    *)
(* components/AppNav.vue and the routed views).  Vue renders at the end of *)
(* a task: screens whose key has changed are mounted anew, others keep     *)
(* what they read when they were mounted, and what is not a computed value *)
(* is renewed only by its watchers.                                        *)
(*                                                                         *)
(* Storage is shared with other tabs, which this page does not listen to,  *)
(* and every load may find a new deployment, with other questions.         *)
(***************************************************************************)
EXTENDS Integers, FiniteSets, FiniteSetsExt

CONSTANTS
    Courses,       \* the catalog, in its order
    Questions, CourseOf, DomainOf,
    Quota,         \* Quota[c][d]: questions of domain d in a mock exam of c
    Users, Guest,
    None,          \* no course, no user, no screen, no answer
    Names,         \* bound: the screens visited besides the course pages
    MaxWrites      \* bound: answers, merges, clears and what other tabs write

Domains == {DomainOf[q] : q \in Questions}

ASSUME CatalogAssumption ==
    /\ Courses \subseteq Nat /\ CourseOf \in [Questions -> Courses]
    /\ Quota \in [Courses -> [Domains -> Nat]] /\ IsFiniteSet(Questions)
ASSUME BoundAssumption ==
    /\ MaxWrites \in Nat
    /\ {"practice", "mock"} \subseteq Names
    /\ Names \subseteq {"home", "practice", "mistakes", "mock", "dashboard"}

VARIABLES
    bank,          \* the published questions this page was built with
    stored,        \* mctl_academy_course_id
    log,           \* owner -> question -> latest answer
    currentCourseId,
    progressOwner,
    session,       \* [isPending, user]: what authClient.useSession() says
    authSettled,
    route,
    view,          \* the screen that is mounted
    mistakeCount,  \* the badge of AppNav
    head,          \* title, metadata and structured data of the document
    \* bookkeeping
    stale,         \* displays that another tab may have overtaken
    writes

page == <<bank, currentCourseId, progressOwner, session, authSettled, route, view, mistakeCount, head>>
vars == <<stored, log, page, stale, writes>>

Owners == Users \cup {Guest}
Answers == {"right", "wrong"}

(* A course page for a course of the catalog, or for another id. *)
Route == [name : Names, course : {None}]
           \cup [name : {"course"}, course : Courses \cup {None}]

(* What a mounted screen keeps: the key it was mounted with, the course    *)
(* and the account it read then, the statistics it shows, the metadata it  *)
(* found and the mock exam it has drawn and started.                       *)
Stats == [correct : Nat, mistakes : Nat, unseen : Nat]
Screen == [key : Route \X (Courses \cup {None}) \X (Users \cup {None}), name : Names \cup {"course"},
           course : Courses \cup {None}, user : Users \cup {None}, stats : Stats \cup {None},
           original : Courses \cup {None}, selection : (SUBSET Questions) \cup {None},
           exam : (SUBSET Questions) \cup {None}]

ASSUME NoneAssumption ==
    /\ None \notin Courses \cup Users \cup {Guest} /\ None \notin Answers /\ None \notin Screen
    /\ Guest \notin Users

Spend == writes < MaxWrites /\ writes' = writes + 1

-----------------------------------------------------------------------------
(* services/contentBundle.ts, courseCatalog.ts and courseStore.ts, for the *)
(* questions b of a build.                                                 *)

questionsForCourse(b, c) == {q \in b : CourseOf[q] = c}

isCourseAvailable(b, c) == questionsForCourse(b, c) # {}

firstAvailableCourseId(b) ==
    LET available == {c \in Courses : isCourseAvailable(b, c)}
    IN IF available = {} THEN None ELSE Min(available)

resolveInitialCourseId(b, s) ==
    IF s # None /\ isCourseAvailable(b, s) THEN s ELSE firstAvailableCourseId(b)

-----------------------------------------------------------------------------
(* services/progressStore.ts: what is derived from the log. *)

answered(answers, qs, result) == {q \in qs : answers[q] = result}

courseMistakeCount(answers, b, c) == Cardinality(answered(answers, questionsForCourse(b, c), "wrong"))

calculateProgressStats(answers, qs) ==
    [correct |-> Cardinality(answered(answers, qs, "right")),
     mistakes |-> Cardinality(answered(answers, qs, "wrong")),
     unseen |-> Cardinality(answered(answers, qs, None))]

(* Of two answers to one question the later counts. *)
Merged(mine, others, result) ==
    \A q \in Questions : result[q] \in
        IF others[q] = None THEN {mine[q]} ELSE IF mine[q] = None THEN {others[q]}
        ELSE {mine[q], others[q]}

-----------------------------------------------------------------------------
(* exam/selectMockQuestions.ts: every selection of the questions qs that   *)
(* fills each domain's quota, none if a domain falls short; without a      *)
(* course there are no domains to fill (EMPTY_MOCK).                       *)

selectMockQuestions(qs, c) ==
    {s \in SUBSET qs : c # None => \A d \in Domains :
        Cardinality({q \in s : DomainOf[q] = d}) = Quota[c][d]}

-----------------------------------------------------------------------------
(* views/CourseView.vue: what a course page shows, and the head of the     *)
(* document.                                                               *)

shown(b, c) ==
    IF c = None THEN "not found" ELSE IF isCourseAvailable(b, c) THEN "course" ELSE "coming soon"

(* Mistake: the structured data of the course stays. *)
restoreOriginalMeta_KeepsSchema(h, original) == [h EXCEPT !.meta = original]

restoreOriginalMeta(h, original) == [h EXCEPT !.meta = original, !.schema = None]

(* The head for the course page of c, given the metadata it found. *)
updateMeta(h, b, c) ==
    IF shown(b, c) = "course" THEN [title |-> c, meta |-> c, schema |-> c]
    ELSE restoreOriginalMeta([h EXCEPT !.title = shown(b, c)], h.meta)

-----------------------------------------------------------------------------
(* App.vue: rendering at the end of a task. *)

waitsForSession(r) == r.name \in {"practice", "mistakes", "mock"}

(* Mistake: a screen survives a change of course. *)
remountKey_NoCourse(r, c, u) == <<r, u>>

remountKey(r, c, u) == <<r, c, u>>

showsStats(name) == name \in {"home", "dashboard"}

(* Mistake: the badge is not renewed when the course changes. *)
refreshes_NotOnCourse(bumped, navigated) == bumped \/ navigated

refreshes(bumped, navigated) == bumped \/ navigated \/ currentCourseId' # currentCourseId

(* A task has set the primed variables but those of the display.  bumped:  *)
(* progressVersion or syncVersion has changed; navigated: the router has   *)
(* confirmed a route; loaded: nothing was rendered before; overtaken: the  *)
(* log has changed without a bump.                                         *)
Render(bumped, navigated, loaded, overtaken) ==
    LET c == currentCourseId'
        answers == log'[progressOwner']
        statsFor(d) == calculateProgressStats(answers, questionsForCourse(bank', d))
        mounts == waitsForSession(route') => authSettled'
        key == remountKey(route', c, session'.user)
        keeps == ~ loaded /\ view # None /\ mounts /\ view.key = key
        found == IF loaded THEN [title |-> "index", meta |-> None, schema |-> None] ELSE head
        titled == IF navigated /\ route'.name # "course"
                  THEN [found EXCEPT !.title = route'.name] ELSE found
        left == IF ~ loaded /\ view # None /\ view.name = "course" /\ ~ keeps
                THEN restoreOriginalMeta(titled, view.original) ELSE titled
        old == stale \cup overtaken
    IN /\ mistakeCount' = IF loaded \/ refreshes(bumped, navigated)
                          THEN courseMistakeCount(answers, bank', c) ELSE mistakeCount
       /\ view' =
            IF ~ mounts THEN None
            ELSE IF ~ keeps
            THEN [key |-> key, name |-> route'.name, course |-> c, user |-> session'.user,
                  stats |-> IF showsStats(route'.name) THEN statsFor(c) ELSE None,
                  original |-> left.meta, selection |-> None, exam |-> None]
            ELSE IF bumped /\ showsStats(view.name)
            THEN [view EXCEPT !.stats = statsFor(view.course)]
            ELSE view
       /\ head' = IF mounts /\ ~ keeps /\ route'.name = "course"
                  THEN updateMeta(left, bank', route'.course) ELSE left
       /\ stale' = {d \in old : IF d = "badge" THEN ~ (loaded \/ refreshes(bumped, navigated))
                                                ELSE keeps /\ ~ bumped}

-----------------------------------------------------------------------------
(* Loading the page, and finding one's way. *)

setCourse(c) == currentCourseId' = c /\ stored' = c

selects(b, c) == c # None /\ isCourseAvailable(b, c)

(* A load of the build with the questions b, with a course in the query of *)
(* its address or none.                                                    *)
Load(b, r, query) ==
    /\ bank' = b
    /\ setCourse(IF selects(b, query) THEN query ELSE resolveInitialCourseId(b, stored))
    /\ progressOwner' = Guest
    /\ session' = [isPending |-> TRUE, user |-> None] /\ authSettled' = FALSE
    /\ route' = r
    /\ UNCHANGED <<log, writes>>
    /\ Render(TRUE, TRUE, TRUE, {})

(* A link, an address or a button; the query is taken off the address. *)
navigate(r, query) ==
    /\ IF selects(bank, query) THEN setCourse(query) ELSE UNCHANGED <<currentCourseId, stored>>
    /\ route' = r
    /\ UNCHANGED <<log, bank, progressOwner, session, authSettled, writes>>
    /\ Render(FALSE, TRUE, FALSE, {})

(* The list in AppNav. *)
onCourseChange(c) ==
    /\ selects(bank, c) /\ setCourse(c)
    /\ UNCHANGED <<log, bank, progressOwner, session, authSettled, route, writes>>
    /\ Render(FALSE, FALSE, FALSE, {})

(* The buttons of a course that is available: startPractice(), startMock().*)
startFromCourse(name) ==
    /\ view # None /\ view.name = "course" /\ shown(bank, route.course) = "course"
    /\ setCourse(route.course)
    /\ route' = [name |-> name, course |-> None]
    /\ UNCHANGED <<log, bank, progressOwner, session, authSettled, writes>>
    /\ Render(FALSE, TRUE, FALSE, {})

-----------------------------------------------------------------------------
(* The session. *)

(* A guest's answers become those of the account signed in to. *)
setProgressOwner(owner) ==
    /\ progressOwner' = owner
    /\ IF owner = Guest THEN log' = log
       ELSE \E mine \in [Questions -> Answers \cup {None}] :
              /\ Merged(log[owner], log[Guest], mine)
              /\ log' = [log EXCEPT ![owner] = mine, ![Guest] = [q \in Questions |-> None]]

(* A lookup starts or ends, a sign-in, a sign-out, another account. *)
SessionChanges(isPending, user) ==
    /\ session' = [isPending |-> isPending, user |-> user] /\ session' # session
    /\ authSettled' = (authSettled \/ ~ isPending)
    /\ IF isPending THEN UNCHANGED <<progressOwner, log>>
       ELSE setProgressOwner(IF user = None THEN Guest ELSE user)
    /\ UNCHANGED <<stored, bank, currentCourseId, route, writes>>
    /\ Render(progressOwner' # progressOwner, FALSE, FALSE,
              IF log' # log THEN {"badge", "stats"} ELSE {})

(* AUTH_SETTLE_FALLBACK_MS have passed. *)
SettleTimer ==
    /\ session.isPending /\ ~ authSettled
    /\ authSettled' = TRUE
    /\ UNCHANGED <<stored, log, bank, currentCourseId, progressOwner, session, route, writes>>
    /\ Render(FALSE, FALSE, FALSE, {})

-----------------------------------------------------------------------------
(* Answers. *)

Writes(answers) ==
    /\ log' = [log EXCEPT ![progressOwner] = answers]
    /\ UNCHANGED <<stored, bank, currentCourseId, progressOwner, session, authSettled, route>>
    /\ Render(TRUE, FALSE, FALSE, {})

(* In a practice session, or as a mock exam is submitted. *)
recordAttempt(q, result) ==
    /\ view # None /\ Spend
    /\ \/ view.name \in {"practice", "mistakes"} /\ q \in questionsForCourse(bank, currentCourseId)
       \/ view.exam # None /\ q \in view.exam
    /\ Writes([log[progressOwner] EXCEPT ![q] = result])

(* A sync brings an answer of another device. *)
syncFromServer(q, result) ==
    /\ progressOwner # Guest /\ Spend
    /\ Writes([log[progressOwner] EXCEPT ![q] = result])

handleClearHistory ==
    /\ view # None /\ view.name = "dashboard"
    /\ Writes([q \in Questions |-> None])
    /\ UNCHANGED writes

(* MockStartScreen: the questions are drawn as it is mounted; the button   *)
(* that starts the exam is there if every domain could be filled.          *)
startable == view # None /\ view.selection # None

load ==
    /\ view # None /\ view.name = "mock" /\ view.selection = None
    /\ \E s \in selectMockQuestions(questionsForCourse(bank, currentCourseId), currentCourseId) :
          view' = [view EXCEPT !.selection = s]
    /\ UNCHANGED <<stored, log, bank, currentCourseId, progressOwner, session, authSettled,
                   route, mistakeCount, head, stale, writes>>

handleStart ==
    /\ startable
    /\ view' = [view EXCEPT !.exam = view.selection]
    /\ UNCHANGED <<stored, log, bank, currentCourseId, progressOwner, session, authSettled,
                   route, mistakeCount, head, stale, writes>>

-----------------------------------------------------------------------------
(* The world outside the page. *)

OtherTab ==
    /\ Spend
    /\ \/ \E c \in Courses : stored' = c /\ UNCHANGED <<log, stale>>
       \/ \E o \in Owners, q \in Questions, result \in Answers \cup {None} :
             /\ log' = [log EXCEPT ![o][q] = result] /\ log' # log
             /\ stale' = {"badge", "stats"}
             /\ UNCHANGED stored
    /\ UNCHANGED <<page>>

-----------------------------------------------------------------------------

Init ==
    /\ bank \in SUBSET Questions
    /\ stored \in Courses \cup {None}
    /\ log = [o \in Owners |-> [q \in Questions |-> None]]
    /\ currentCourseId = resolveInitialCourseId(bank, stored)
    /\ progressOwner = Guest
    /\ session = [isPending |-> TRUE, user |-> None] /\ authSettled = FALSE
    /\ route = [name |-> "practice", course |-> None] /\ view = None
    /\ mistakeCount = 0
    /\ head = [title |-> "practice", meta |-> None, schema |-> None]
    /\ stale = {} /\ writes = 0

Next ==
    \/ \E r \in Route, query \in Courses \cup {None} :
          navigate(r, query) \/ \E b \in SUBSET Questions : Load(b, r, query)
    \/ \E c \in Courses : onCourseChange(c)
    \/ \E name \in {"practice", "mock"} : startFromCourse(name)
    \/ \E isPending \in BOOLEAN, user \in Users \cup {None} : SessionChanges(isPending, user)
    \/ SettleTimer
    \/ \E q \in Questions, result \in Answers : recordAttempt(q, result) \/ syncFromServer(q, result)
    \/ handleClearHistory \/ load \/ handleStart
    \/ OtherTab

Spec == Init /\ [][Next]_vars

-----------------------------------------------------------------------------
(* Properties. *)

(* Every variable keeps its type. *)
TypeOK ==
    /\ bank \subseteq Questions
    /\ {stored, currentCourseId} \subseteq Courses \cup {None}
    /\ log \in [Owners -> [Questions -> Answers \cup {None}]]
    /\ progressOwner \in Owners
    /\ session \in [isPending : BOOLEAN, user : Users \cup {None}] /\ authSettled \in BOOLEAN
    /\ route \in Route /\ view \in Screen \cup {None} /\ mistakeCount \in Nat
    /\ head \in [title : {head.title}, meta : Courses \cup {None}, schema : Courses \cup {None}]
    /\ stale \subseteq {"badge", "stats"} /\ writes \in 0 .. MaxWrites

(* What is on screen is of the selected course and of the learner who is   *)
(* signed in: whatever was switched, loaded, deployed or remembered, no    *)
(* screen that keeps what it read survives the change, a course without    *)
(* questions is never selected, and a mock exam draws on no other course   *)
(* (the key of App.vue, resolveInitialCourseId).                           *)
ScopeIsCurrent ==
    /\ currentCourseId = None => \A c \in Courses : ~ isCourseAvailable(bank, c)
    /\ currentCourseId # None => isCourseAvailable(bank, currentCourseId)
    /\ view # None =>
          /\ view.course = currentCourseId /\ view.user = session.user /\ view.key[1] = route
          /\ \A s \in {view.selection, view.exam} \ {None} :
                s \subseteq questionsForCourse(bank, currentCourseId)

(* "The badge and the page behind it must never disagree" (AppNav.vue):    *)
(* both say what the log of the current owner says of the current course,  *)
(* until another tab writes to it.                                         *)
BadgeAgrees ==
    LET answers == log[progressOwner]
        qs == questionsForCourse(bank, currentCourseId)
    IN /\ "badge" \notin stale => mistakeCount = Cardinality(answered(answers, qs, "wrong"))
       /\ view # None /\ showsStats(view.name) /\ "stats" \notin stale =>
             view.stats = calculateProgressStats(answers, qs)

(* The head of the document speaks of a course exactly as long as its page *)
(* is shown, through every remount of that page and however it is left     *)
(* (CourseView's hooks and the title set by the router).                   *)
HeadFits ==
    LET surface == IF route.name = "course" THEN shown(bank, route.course) ELSE route.name
        c == IF surface = "course" THEN route.course ELSE None
    IN /\ head.meta = c /\ head.schema = c
       /\ head.title = IF surface = "course" THEN c ELSE surface

-----------------------------------------------------------------------------
(* Why they hold. *)

(* The selected course has questions, and there is one if any course has. *)
CourseInv ==
    IF currentCourseId = None THEN \A c \in Courses : ~ isCourseAvailable(bank, c)
    ELSE currentCourseId \in Courses /\ isCourseAvailable(bank, currentCourseId)

(* The mounted screen is that of the current key, and when it was mounted  *)
(* the metadata of the document were its own; a course page waits for      *)
(* nobody.                                                                 *)
ViewInv ==
    /\ view # None =>
          /\ view.key = remountKey(route, currentCourseId, session.user)
          /\ view.name = route.name /\ view.course = currentCourseId /\ view.user = session.user
          /\ view.original = None
          /\ \A s \in {view.selection, view.exam} \ {None} :
                s \subseteq questionsForCourse(bank, currentCourseId)
    /\ route.name = "course" => view # None

=============================================================================
