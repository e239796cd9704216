------------------------------ MODULE MockExam ------------------------------
(***************************************************************************)
(* The mock exam: a timed session that survives reloads, keeps to the      *)
(* owner and course it was started in and is recorded once when it is      *)
(* submitted (client/src/exam/session.ts, persistence.ts, MockFlow.vue,    *)
(* MockExamScreen.vue).                                                    *)
(*                                                                         *)
(* One browser tab.  A scope is an owner together with a course; the tab   *)
(* shows one scope at a time, and any change of it mounts a new flow.      *)
(***************************************************************************)
EXTENDS Integers

CONSTANTS
    Scopes,
    NumQuestions,  \* the questions of an exam, in navigation order
    TimeLimit,
    NoExam,
    MaxTime,       \* bound: the clock
    MaxExams       \* bound: exams started

ASSUME NumbersAssumption == {NumQuestions, TimeLimit} \subseteq Nat \ {0}
ASSUME ExamBoundsAssumption == {MaxTime, MaxExams} \subseteq Nat

ExamQuestions == 1..NumQuestions
Exams == 1..MaxExams

VARIABLES
    time,
    scope,         \* the owner and course on screen
    stored,        \* sessionStorage: scope -> its session, or NoExam
    session,       \* MockFlow's session, or NoExam
    \* MockExamScreen, while an exam is in progress
    currentIndex,
    now,           \* the time its interval last saw
    openedAt,      \* the time it was mounted
    confirmingSubmit,
    \* the progress log: exam -> its answers, each time they are recorded
    recorded,
    exams          \* exams started so far

screen == <<currentIndex, now, openedAt, confirmingSubmit>>
examVars == <<time, scope, stored, session, screen, recorded, exams>>

-----------------------------------------------------------------------------
(* session.ts *)

Answer == {"none", "right", "wrong"}
ExamSession == [id : Exams, home : Scopes, status : {"in_progress", "submitted"},
                answers : [ExamQuestions -> Answer], expiresAt : Nat,
                currentIndex : ExamQuestions]

startSession ==
    [id |-> exams + 1, home |-> scope, status |-> "in_progress",
     answers |-> [q \in ExamQuestions |-> "none"], expiresAt |-> time + TimeLimit,
     currentIndex |-> 1]

answerQuestion(s, q, a) ==
    IF s.status = "in_progress" THEN [s EXCEPT !.answers[q] = a] ELSE s

remainingMs(s, at) == IF s.expiresAt > at THEN s.expiresAt - at ELSE 0

submitSession(s) == [s EXCEPT !.status = "submitted"]

unanswered(s) == {q \in ExamQuestions : s.answers[q] = "none"}

(* Each question is right or not; an unanswered one counts as wrong. *)
scoreSession(s) == [q \in ExamQuestions |-> s.answers[q] = "right"]

ASSUME NoExamAssumption == NoExam \notin ExamSession

InProgress == session # NoExam /\ session.status = "in_progress"

-----------------------------------------------------------------------------
(* persistence.ts *)

storageKey(s) == s

saveSession(s) == stored' = [stored EXCEPT ![storageKey(scope)] = s]

(* Mistakes: the position is not saved; the end of the exam is not saved. *)
savePosition_Never(s) == stored' = stored
saveSubmitted_Never(s) == stored' = stored

savePosition(s) == saveSession(s)
saveSubmitted(s) == saveSession(s)

-----------------------------------------------------------------------------
(* MockFlow.vue and MockExamScreen.vue *)

resumeAt(s) == s.currentIndex

(* What the screen starts from when it is mounted for session s. *)
Mounted(s) ==
    /\ currentIndex' = IF s = NoExam THEN 1 ELSE resumeAt(s)
    /\ now' = time
    /\ openedAt' = time
    /\ confirmingSubmit' = FALSE

(* A page load, or another course or account: the flow of u is mounted and *)
(* restores u's session.                                                   *)
MountFlow(u) ==
    /\ scope' = u
    /\ session' = stored[storageKey(u)]
    /\ Mounted(session')
    /\ UNCHANGED <<time, stored, recorded, exams>>

handleStart ==
    /\ session = NoExam
    /\ exams < MaxExams /\ time + TimeLimit <= MaxTime
    /\ exams' = exams + 1
    /\ saveSession(startSession)
    /\ session' = startSession
    /\ Mounted(session')
    /\ UNCHANGED <<time, scope, recorded>>

(* The dialog that asks for confirmation is modal. *)
handleAnswer(a) ==
    /\ InProgress /\ ~confirmingSubmit
    /\ session' = answerQuestion(session, currentIndex, a)
    /\ saveSession(session')
    /\ UNCHANGED <<time, scope, screen, recorded, exams>>

goTo(q) ==
    /\ currentIndex' = q
    /\ session' = [session EXCEPT !.currentIndex = q]
    /\ savePosition(session')

handleNavigate(q) ==
    /\ InProgress /\ ~confirmingSubmit
    /\ goTo(q)
    /\ UNCHANGED <<time, scope, now, openedAt, confirmingSubmit, recorded, exams>>

(* The exam is over: lock it, save it and record an attempt per question. *)
handleSubmit ==
    /\ session' = submitSession(session)
    /\ saveSubmitted(session')
    /\ recorded' = [recorded EXCEPT ![session.id] = @ \cup {<<scope, scoreSession(session)>>}]
    /\ confirmingSubmit' = FALSE
    /\ UNCHANGED <<time, scope, currentIndex, openedAt, exams>>

Submit ==
    /\ InProgress
    /\ unanswered(session) = {} \/ confirmingSubmit
    /\ handleSubmit
    /\ now' = now

AskToConfirm ==
    /\ InProgress /\ ~confirmingSubmit
    /\ unanswered(session) # {}
    /\ confirmingSubmit' = TRUE
    /\ UNCHANGED <<time, scope, stored, session, currentIndex, now, openedAt,
                   recorded, exams>>

KeepGoing ==
    /\ InProgress /\ confirmingSubmit
    /\ confirmingSubmit' = FALSE
    /\ UNCHANGED <<time, scope, stored, session, currentIndex, now, openedAt,
                   recorded, exams>>

returnToFirstUnanswered ==
    /\ InProgress /\ confirmingSubmit
    /\ confirmingSubmit' = FALSE
    /\ \E q \in unanswered(session) :
         /\ \A p \in unanswered(session) : q <= p
         /\ goTo(q)
    /\ UNCHANGED <<time, scope, now, openedAt, recorded, exams>>

(* Mistake: the watch looks at the time but never ends the exam. *)
timeExpires_Never == FALSE

(* The watch on the remaining time only runs when that time changes. *)
timeExpires ==
    /\ remainingMs(session, time) # remainingMs(session, now)
    /\ remainingMs(session, time) = 0

(* The interval of the exam screen. *)
Interval ==
    /\ InProgress /\ now # time
    /\ now' = time
    /\ IF timeExpires THEN handleSubmit
       ELSE UNCHANGED <<time, scope, stored, session, currentIndex, openedAt,
                        confirmingSubmit, recorded, exams>>

handleStartOver ==
    /\ session # NoExam /\ ~InProgress
    /\ saveSession(NoExam)
    /\ session' = NoExam
    /\ UNCHANGED <<time, scope, screen, recorded, exams>>

Pass ==
    /\ time < MaxTime
    /\ time' = time + 1
    /\ UNCHANGED <<scope, stored, session, screen, recorded, exams>>

ExamInit ==
    /\ time = 0
    /\ scope \in Scopes
    /\ stored = [u \in Scopes |-> NoExam]
    /\ session = NoExam
    /\ currentIndex = 1
    /\ now = 0
    /\ openedAt = 0
    /\ confirmingSubmit = FALSE
    /\ recorded = [e \in Exams |-> {}]
    /\ exams = 0

ExamNext ==
    \/ \E u \in Scopes : MountFlow(u)
    \/ \E a \in {"right", "wrong"} : handleAnswer(a)
    \/ \E q \in ExamQuestions : handleNavigate(q)
    \/ handleStart \/ Submit \/ AskToConfirm \/ KeepGoing
    \/ returnToFirstUnanswered \/ Interval \/ handleStartOver \/ Pass

ExamSpec == ExamInit /\ [][ExamNext]_examVars

(* Time goes on and the browser runs the interval. *)
ExamLiveSpec == ExamSpec /\ WF_examVars(Pass) /\ WF_examVars(Interval)

-----------------------------------------------------------------------------
(* Properties. *)

(* Every variable keeps its type. *)
ExamTypeOK ==
    /\ time \in 0..MaxTime /\ now \in 0..MaxTime /\ openedAt \in 0..MaxTime
    /\ scope \in Scopes
    /\ stored \in [Scopes -> ExamSession \cup {NoExam}]
    /\ session \in ExamSession \cup {NoExam}
    /\ currentIndex \in ExamQuestions
    /\ confirmingSubmit \in BOOLEAN
    /\ recorded \in [Exams -> SUBSET (Scopes \X [ExamQuestions -> BOOLEAN])]
    /\ exams \in 0..MaxExams

resultsOf(s) ==
    IF s.status = "submitted" THEN {<<s.home, scoreSession(s)>>} ELSE {}

(* The results on screen, of an exam restored from any reload too, are the *)
(* attempts the exam recorded, under the scope it was taken in; and an     *)
(* exam in progress has recorded nothing yet.  So no exam counts twice.    *)
RecordedOnce ==
    \A s \in {session} \cup {stored[u] : u \in Scopes} :
        s # NoExam => recorded[s.id] = resultsOf(s)

(* A reload at any moment resumes the same exam: its answers, its position *)
(* and the time it ends.                                                   *)
ReloadResumes ==
    /\ session = stored[storageKey(scope)]
    /\ InProgress => currentIndex = session.currentIndex

(* #403: an exam left running never resurfaces for another owner or course.*)
ScopeIsolation == session # NoExam => session.home = scope

(* An exam that was opened in time is submitted once its time is up, with  *)
(* no action of the learner, unless the flow is left and mounted too late. *)
TimeUpSubmits ==
    (InProgress /\ openedAt < session.expiresAt)
        ~> ~(InProgress /\ openedAt < session.expiresAt)

-----------------------------------------------------------------------------
(* Why they hold. *)

(* A stored session was started in its own scope, no two scopes share an   *)
(* exam, each exam is recorded as its stored session says, and nothing is  *)
(* recorded of an exam that has not started.                               *)
StoredInv ==
    /\ \A u \in Scopes : stored[u] # NoExam => stored[u].home = u /\ stored[u].id <= exams
    /\ \A u, v \in Scopes : u # v /\ stored[u] # NoExam /\ stored[v] # NoExam =>
          stored[u].id # stored[v].id
    /\ \A e \in Exams : e > exams => recorded[e] = {}

StoredOnce ==
    \A u \in Scopes : stored[u] # NoExam => recorded[stored[u].id] = resultsOf(stored[u])

ExamInv == StoredInv /\ StoredOnce /\ ReloadResumes

-----------------------------------------------------------------------------
(* What the code's comment says and the model refutes. *)

(* "auto-submits once remainingMs reaches zero, with no learner action     *)
(* required": no expired exam stays in progress.                           *)
ExpiredIsSubmitted ==
    (InProgress /\ remainingMs(session, time) = 0) ~> ~InProgress

=============================================================================
