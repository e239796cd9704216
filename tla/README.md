# MCTL Academy in TLA+

A verification development for the MCTL Academy: a Vue single page client that
lets a learner practise, take mock exams and vote on questions, a small Hono
server with a Postgres database, and a set of scripts and workflows that turn
pages of documentation into reviewed, published questions. The modules here are
translated from the source, model-checked with TLC on small instances and,
where it says so, proved with TLAPS for every value of the constants.

| Module | Kind | What it models |
|---|---|---|
| `AnswerHistory` | abstract specification | what a learner is promised about an answer |
| `ProgressSync` | specification | the answer logs of a browser, the rows of the server and the protocol between them |
| `ProgressSyncProofs` | proofs | its types, owners, locks, rows and status; that it implements `AnswerHistory` |
| `RateLimit` | specification | the submission rate limiter |
| `Relay` | specification | the translation between two language-model protocols |
| `RequestProofs` | proofs | what holds of the limiter and of the relay |
| `MockExam` | specification | the timed exam and its reloads |
| `PracticeSession` | specification | the saved queue of a practice pass |
| `SessionProofs` | proofs | what holds of a practice pass and of a mock exam |
| `Screens`, `ScreensProofs` | specification, proofs | course choice, routing, what the screens read and when they are renewed |
| `Votes`, `VotesProofs` | specification, proofs | the vote widget, its requests, the votes API and table |
| `Accounts`, `AccountsProofs` | specification, proofs | sign-in, linking, roles, deletion |
| `Publication` | abstract specification | what a learner is promised about the question bank |
| `ContentLifecycle`, `ContentProofs` | specification, proofs | captures, citations, reviews, receipts, drift and the bundle |
| `Replenishment`, `ReplenishmentProofs` | specification, proofs | the weekly run that discovers, prepares, gates, reviews and merges |
| `MC...` | for TLC | symmetry sets and the values of constants that are functions |

To check a run: `tlc -config MCSyncLive.cfg MCProgressSync.tla`; to check a
proof: `tlapm ProgressSyncProofs.tla`. `PROJECT.json` lists the runs, the
mutants that each property must reject, the source lines every definition
stands for (with the comment that documents them in the code), and the hazards.

Conventions. An operator keeps the name of the function it translates. One
named `<operator>_<Word>`, under a comment that begins with "Mistake", is a
plausible bug in it: no specification uses it, but put in the operator's place
it must break a property. Constants that begin with `Max` are bounds of the
model and stand only in guards; everything else that is finite is finite in
the code, or a set the constants give. `history` variables record what the
properties speak of and never guard a step.

## The system

### Client

**Progress store** (`client/src/services/progressStore.ts`). State: one attempt
log per owner (guest or account) in local storage; in memory the current owner,
the sync switch, status and epoch, the counter and locks of clears, the writes
in flight and those held back. Operations: `setProgressOwner` (adopts the
guest's rows), `setSyncEnabled`, `recordAttempt`, `syncFromServer`,
`clearProgress`. Hard: every operation but the first suspends on requests, so
sign-in, sign-out, clears, syncs and answers interleave; requests fail, or
succeed and lose their answer; a page load forgets everything in memory.
Correct when answers never reach another account, none is lost or comes back
after a clear, and the status tells the truth in the end.

**Mock exam** (`client/src/exam/`). State: a session per owner and course in
session storage, the one on screen, the position, the time its interval last
saw, the confirmation dialog. Hard: a reload or a change of owner or course
between any two steps, and time passing while the page is closed. Correct when
an exam is recorded exactly once, resumes where it was, stays in its scope and
ends.

**Practice session** (`client/src/practice/usePracticeSession.ts`). State: a
queue of entries, an index, and their copy in local storage, keyed by owner,
course, mode and domain. Hard: a saved pass meets another bundle and another
progress log than it was made for. Correct when it can always be restored, its
totals are truthful and what remains needs practice.

**Course choice, routing and screens** (`services/courseStore.ts`,
`services/courseCatalog.ts`, `router/`, `App.vue`, `components/AppNav.vue`,
`dashboard/`, `views/`). State: the course remembered, the one selected, the
route and its query, the session as far as it is known, what each screen read
when it was mounted, the badge of the navigation, the head of the document.
Hard: a screen reads once and is replaced only when its key changes; the badge
and the statistics are renewed by watchers and hooks, not computed; the hooks
of two course pages overlap; a remembered course may have left the build.
Correct when what is on screen is of the selected course and of the learner.

**Vote widget** (`practice/PracticeContent.vue`, `services/questionVotes.ts`).
State: score, own vote, request token. Hard: answers out of order, roll-backs
of optimistic values. Correct when the vote shown is the one in the table once
nothing is in flight.

**Storage wrapper** (`services/storage.ts`). Local storage with a fallback to
memory when it is missing or full.

### Server

**Attempts** (`server/routes/attempts.mjs`, `server/db.mjs`): an append-only
table per account; POST inserts with the server's time, GET returns the latest
row per question, DELETE erases the account's rows.

**Votes** (`server/routes/votes.mjs`): an upsert or delete per account and
question, then a read of the sum by a second query.

**Rate limiter** (`server/middleware/rate-limit.mjs`): a bounded store of fixed
windows per client address and a throttle per kind of log line. Correct when it
is bounded, never resets a live window and accounts for what it did not log.

**Accounts** (`server/auth.mjs`, `server/zitadel.mjs`,
`server/routes/account.mjs`, `server/allowlist.mjs`): sign-in through three
kinds of provider, linking of accounts by address with a refused cross-link, a
stash of GitHub logins in the memory of a pod, roles by list, deletion of an
account with its rows. Hard: a sign-in is several requests and queries, between
which others run on the same or another pod. Correct when a deleted account
leaves nothing, identities of the wrong providers are never linked, and a role
belongs to a listed identity.

**Reports, boot and guards** (`server/questions.mjs`, `server/app.mjs`,
`server/db.mjs`, `scripts/migrate.mjs`, `server/middleware/`): one INSERT per
report; migrations under a lock of the library, a fallback to memory outside
production, the readiness probe; predicates of one request.

### Content pipeline

**Content model and bundle** (`scripts/lib/content-model.mjs`,
`scripts/lib/question-review.mjs`, `scripts/build-content-bundle.mjs`).
Questions are files with a status; evidence names snapshots of sources by hash;
a review names the fingerprint of what was read. `checkBundleEligibility` is
the one rule of what may ship.

**Receipts and approval** (`scripts/review-receipt.mjs`,
`scripts/approve-pr-questions.mjs`): the decisions of each agent reviewer, in
one file per run; promotion of what they approve.

**Snapshots, drift, quarantine, revalidation** (`scripts/capture-source.mjs`,
`scripts/lib/snapshot-store.mjs`, `scripts/verify-evidence.mjs`,
`scripts/quarantine-drifted-questions.mjs`, `scripts/revalidate-content.mjs`).

**Replenishment** (`scripts/discover-docs.mjs`,
`scripts/replenish-prepare.mjs`, `.github/workflows/content-replenish.yml`) and
the **model relay** its agents speak through (`scripts/nebius-relay.py`).

Hard: every script reads many files and writes them one by one, is run by
workflows that may overlap or die, and each later step trusts hashes an earlier
one wrote; people edit and merge beside them; what an agent hands in is not to
be trusted. Correct when only questions that were approved as they stand now,
and whose sources stand, are published.

### How the parts interact

`App.vue` learns the session and tells the progress store; the store calls the
attempts API with the session's cookie. Practice and mock exams call
`recordAttempt`; a clear raises the progress epoch, which a practice session
watches; owner and course key the stored exams and passes, and are part of the
key that remounts a screen. The bundle the content pipeline builds is compiled
into the client, so a page load may meet a new one. The rate limiter stands
before the routes that submit something. The replenishment runs the scripts of
the content pipeline on a branch and merges it into a main that the same
scripts, run by other workflows and people, have moved.

## The runs

| Run | Instance | Properties |
|---|---|---|
| `sync_live` | an account, a clock running two ahead, two clears | `SyncedRowsAreStored`, `NoRepost`, `SyncingSettles`, `ClearEnds` |
| `sync_switch` | two accounts switched at once, two syncs, a clear | `NoCrossAccountPost`, `NoResurrection`, `ImplementsHistory` |
| `sync_lag` | two accounts, the cookie changes behind the page | `LocksHold`, `StatusMatchesSession`, `NoSilentLoss` |
| `rate_limit` | two addresses and the shared bucket for two slots | `QuotaHolds`, `LogAccounts` |
| `mock_exam` | two scopes, two exams of two questions | `RecordedOnce`, `ReloadResumes`, `TimeUpSubmits` |
| `practice_session` | three questions, two versions of a text, a clear | `SavedIsRestorable`, `TotalsAreTruthful`, `PassIsKept`, `QueueIsCurrent` |
| `screens` | two courses of a question, a guest and a user | `ScopeIsCurrent`, `BadgeAgrees`, `HeadFits` |
| `votes` | two pages, two learners, three requests at once | `WidgetAgrees`, `OwnVoteCountedOnce` |
| `accounts` | three sign-ins of four identities, two pods, one rename | `ErasureIsComplete`, `NoCrossLink`, `RolesAreListed` |
| `content` | two sources, questions, agents and receipt files, a person | `EvidenceStands`, `DriftWithdraws`, `ImplementsPublication`, `RejectionStands`, `ToolsNeverPoison`, `PublishedKeepsReceipt` |
| `content_supply` | a weekly run against a main that moves | `PublishedWasRead`, `RecordsAreCaptured`, `PublishedUntouched`, `WorkKept`, `FirstSeenKept` |
| `relay` | six messages, two calls, six pieces of an answer | `ServerAccepts`, `ClientHearsAll` |

Every run passes, and for each of its properties a plausible bug in one
operator of the model makes TLC refute it. Deadlock is checked in `sync_*`,
`mock_exam`, `screens` and `content`, and off elsewhere because there the
bounds bring the system to an end.

## ProgressSync

One page of one browser, its server and other devices. The variables carry the
names of the code's. A suspended `syncFromServer()` or `clearProgress()` is a
record in a slot whose `stage` says what it waits for; an attempt POST is a
record in `pendingWrites` or, held back, in `queuedWrites`. A request has three
steps: the page sends it (part of the action that calls `fetch`), the server
carries it out or it fails, and the page takes the outcome. A request the
server carried out may still come back as failed: its answer was lost.

* *Scheduling.* JavaScript runs a task to completion and then the continuations
  whose promises have resolved. `NextTask` is the guard of everything that
  starts a new task: no suspended clear or sync is ready to continue.
* *Rows.* A log is a set of rows known by the number of the answer. A row a
  device recorded and the same answer as the server returns it differ in their
  time stamps only. Client stamps are even and server stamps odd, so the two
  clocks never agree to the millisecond; `Skew` sets one ahead of the other.
* *Sessions.* `Reload` is a page load: the sign-in redirect, sign-out, or the
  learner. `SessionChanges` and `CookieChanges` are changes without one: at
  once, or behind the page's back when another tab changes the cookie.
* *Requests nobody waits for.* A page load abandons the requests in flight, and
  one that was taken for failed may be on its way. A POST of that kind is a
  record in `strays` (`MaxStrays` at a time), which `StrayStored` carries out at
  any later time, also after the DELETE of a later clear. A DELETE of that kind
  is a step of `ClearedElsewhere`.
* *Other devices* of an account answer (`OtherDevice`) and clear the history
  (`ClearedElsewhere`). Nothing tells this page of it, so its rows stay marked
  synced though the server lost them. `lost` remembers the account and the
  question until a row of it is stored again.
* *Left out.* Two tabs of a browser writing one log; failing local storage; the
  counters `progressVersion` and `progressEpoch` (the latter is in
  `PracticeSession`, what the former renews is in `Screens`).

`AnswerHistory` is what all this promises: an answer is given by an owner, may
be adopted from the guest by an account, may be forgotten, and is otherwise
never anyone else's. `ImplementsHistory` maps each owner to the answers kept for
them in the log, on the server, in an upload held back or on its way, or in
what a sync that is not overtaken has read. `NoResurrection` says when the last
copy is gone: a DELETE that its clear asked for has erased it, and no POST of it
was on its way with nobody waiting.

Bounds. Two accounts are needed for one to receive what is the other's. Two
answers are one before and one after a clear, a switch or a sync; with one
question they compete for being the latest. Two sync slots are a stale read and
the one that replaced it. `MaxEpoch` 3 is A, then B, then A again. `MaxClock`
bounds the stamps: two answers and their two uploads. A clear is allowed once,
twice where repeated clears are the question.

Fairness (`LiveSpec`): a request is answered or fails in the end (browsers time
out), the page handles what has arrived, and the session request of a page load
completes. Nothing is assumed of the learner, who need not press Retry, nor of
the other device, nor of a POST nobody waits for.

`sync_live` allows one clear to be suspended at a time, which is what the
Dashboard's button enforces while it is on screen; leaving the screen and
returning to it undoes that (see the divergences below).

*Proved* (`ProgressSyncProofs`), in layers; each stands on the ones before it
and on no more of the conditions below than it needs.

| Layer | Says | Gives | Needs |
|---|---|---|---|
| `TypeOK` | types | `TypeCorrect` | |
| `StatusInv` | what may still set the status under the current epoch started while sync was on | `StatusMatchesSession` | |
| | a step that is not a clear only adds to a log, or moves the guest's rows | `NoSilentLoss` | |
| `OwnInv` | the page acts for the session's account; a held write or suspended sync of the current epoch is the current owner's; nobody answers as a guest meanwhile | `NoCrossAccountPost` | `NoLag` |
| `KeepOutInv` | a suspended clear holds both locks and sends its DELETE when nothing is in flight; no sync that could still merge overlaps it | `LocksHold` | `OneClear` |
| | without a new answer nothing is kept of an owner that was not (`NothingNew`) | `ImplementsHistory`, `AccountIsolation` | `NoLag`, `OneClear` |
| `RowsInv`, `HoldInv` | a settled row that has an unsettled copy is the later one; what is held back was never sent | `NoRepost` | `OneClear` |
| `WipedInv` | what is erased is kept nowhere; what a clear has wiped is nowhere but on its account's way to the server, where the DELETE will find it | `NoResurrection` | `NoLag`, `OneClear` |
| `StoredInv` | until its DELETE has resolved a clear leaves nothing settled in the log; what was acknowledged, and what a sync may still merge, is stored or was erased by somebody else | `SyncedRowsAreStored` | all three |

`SyncKeepsHistory` maps a step that gives an answer to `Give` of
`AnswerHistory`, a sign-in with a guest's answers to `Adopt` and any other to
`Forget`; `AnswersStayWithOwner` follows from it and from `Isolation`, a
theorem about `AnswerHistory` alone. `ErasedForGood` uses that isolation again: a wiped answer has no copy with
another owner.

The conditions are hypotheses of the theorems about the constants, never
invariants: `NoLag`, that the page sees a change of the session at once;
`OneClear`, that one clear is suspended at a time; `NoSwitch`, that another
account signs in through a page load. The code provides each in its usual
course (the page follows the session it fetched; the Dashboard disables its
button during a clear; signing in is a redirect) and enforces none everywhere.
Each is needed: with `lag` or `switch` among the `Switches`, or with two clear
slots, TLC refutes the invariants the table says need the condition (some are
among the divergences below). The exception is `NoRepost`, which TLC finds kept
with two overlapping clears on a small instance; its proof uses the locks.

## RateLimit

A request is one step, since the middleware awaits nothing before it decides.
`store` maps keys to windows; `Serve`, `RejectQuota` and `RejectCapacity` are
its three outcomes, each with the log lines it claims. `served` (the times of the
requests of a key that were passed on), `occurred` and `reported` only record.
`Pass` is the clock.

The run lets two addresses and the shared bucket of requests without an address
compete for two slots (so that the store fills and is swept) with a quota of
two, and a clock of two windows. `QuotaHolds` is the honest bound of a fixed
window: in any stretch as long as a window a client gets through at most two
quotas less one, since the request that opens the second window falls into it.

*Proved* for every number of clients and every limit (`RequestProofs`):
`TypeOK`, `Bounded` (the proof keeps the store finite), `WindowKept` (an action
property), `LogAccounts` and `QuotaHolds`. The last needs `QuotaInv`, since a
window that has expired leaves the store and with it the count: while no window
of a key is live, the last quota of its requests began at least a window ago;
while one is live, the requests it counts are the last ones, the first of them
opened it, and the quota before them began a window earlier. Two quotas less
one in a stretch then reach back across the opening of at most one window.

## MockExam

A scope is an owner together with a course. `MountFlow` is any page load or change
of scope; it restores what the scope has stored. `Interval` is the timer of the
screen, with the watch on the remaining time that runs only when that changes.
An answer is right, wrong or missing: options are not told apart further.
`recorded` keeps, per exam, the results recorded and under which scope.

Two scopes and two exams let one be finished and one left running in the same
or another scope; the limit ends within the clock. Fairness: time goes on, and
the browser runs the interval of a screen that is open. `TimeUpSubmits`
therefore speaks of exams whose screen was opened in time.

*Proved* (`SessionProofs`): `ExamTypeOK`, `RecordedOnce`, `ReloadResumes` and
that exams stay in their scope, from `ExamInv`: a stored session belongs to its scope and its
number is taken, no two scopes store the same exam, an exam not started has
recorded nothing, and what is on screen is what is stored. The last is why a
reload changes nothing.

## PracticeSession

One storage key. The queue is a sequence of entries, `reconcile` the set of
queues the shuffles can produce, `restorable` the checks of `restore()`,
`handleShortcut` the keyboard. The order of options within a question is drawn
once and never looked at, so it is left out. `Publish` changes the bundle
between two page loads; `OutsideAttempt` is an attempt from another mode, a
mock exam or another device. When the clock of another device is ahead, an
attempt of this one does not become the latest. `counted` is the attempt this
pass recorded for a question.

The run has three questions (one done, one current, one to come), two options,
every mode, two versions of a text, one clear and two outside events.

*Proved* for every finite set of questions, every bundle and any number of
clears and outside events (`SessionProofs`): `TypeOK` and all four properties of
the run. `PassInv` says that the pass on screen is the one saved, that whatever
is saved passes the checks of `restore()`, and that its totals are truthful
unless the progress was cleared since. Below it are lemmas about the queue: an
enumeration of a set of questions has each once; the pool lists unseen questions
before mistakes; and `reconcile` keeps what was completed, keeps the current
question where it must, and adds every other eligible question once. From the
lemmas about `reconcile` follow the two action properties, step by step. The
induction over a queue (that what it keeps has no question twice) is again by
the least counterexample. `NoneAssumption` says that nothing saved is no saved
pass.

## Screens

One page of the client. A step is a task of the page with the rendering at its
end: the router, the course store, the session watch and the watchers of the
navigation run, screens whose key changed are mounted anew, and the others keep
what they read. `stored` and `log` are local storage, which other tabs write
without this page noticing: what they may have overtaken is in `stale`, and
the properties speak of the rest. `bank` is the set of questions the page was
built with; each load may find another. A mock exam is drawn by domain quota,
its results are recorded together, and resuming one is the business of
`MockExam`.

`ScopeIsCurrent`: a screen that is mounted is of the selected course and of the
session's owner. `BadgeAgrees`: the badge and the statistics, which are copies,
agree with the log although only watchers renew them. `HeadFits`: title and
structured data speak of a course exactly as long as its page is on screen,
with the hooks of two course pages overlapping.

*Proved* for every catalog, bank and account (`ScreensProofs`): the three, with
`TypeOK`, from two more parts: `CourseInv`, the course selected has questions if
any has, and `ViewInv`, the screen that is mounted is the one its key asks for,
and the description a course page puts back when it is left is that of no
course. `HeadFits` and
`BadgeAgrees` are inductive beside these. Since every task ends in a rendering,
the proof has one lemma about the rendering (`RenderKeeps`), whose hypothesis,
what the task announces to it, each action is then shown to meet.

Two courses and one question each are what a change of course needs, with a
build in which one of them has none; a guest and a user are what a sign-in
needs; two writes are one of this page and one of another tab.

## Votes

The widget of `PracticeContent.vue` on several pages, its requests, and the API.
The server takes a request in three steps, the session check, the write, and
the read of the summary, so that requests interleave; an answer may come late,
out of order, or fail after the write. A page may change its question or its
learner meanwhile. `reported` is the last summary a page was shown;
`disturbed` are pages another request of the same learner got between.

`WidgetAgrees`: once a page awaits nothing, nothing of it failed and no other
request of the learner disturbed it, it shows the vote in the table.
`OwnVoteCountedOnce`: an optimistic score counts the learner's vote once. Two
pages with three and two tokens hold a load and two clicks racing a load and a
click; three requests in flight are two clicks and a stranger.

*Proved* for any pages, learners, questions and number of requests
(`VotesProofs`): `WidgetAgrees`. It is not inductive: the invariant adds that a
token names one request of its page and none is ahead of the page (`Tokens`);
that the latest request is about what the page shows and, given up, is
reported as failed (`LatestFits`); that only its own latest request can change
the vote an undisturbed page shows (`OnlyOwn`); and that a summary read for
such a request stays true until it arrives (`Fresh`).

`OwnVoteCountedOnce` is proved for every finite set of learners
(`NoVoteCountsTwice`). The score is a sum over the learners, a function defined
by recursion on their subsets; that it exists and stays within their number is
shown by the least subset for which it does not (`TallyFits`), without an
induction principle. The invariant is that every score shown, remembered for a
roll-back or on its way differs from the vote beside it by at most the number of
the other learners (`Balanced`, `ScoreInv`).

## Accounts

A sign-in is a record that moves through the profile, the look-up of the
account, the look-up by address, the refused links, the insertions and the
update of the GitHub login; each is a step, on some pod. The steps of the
authentication library are external and modelled from how `auth.mjs` and
`zitadel.mjs` hook into it: it finds an account by identity, then a user by
address, and otherwise creates both in one transaction. Sessions, attempts,
votes and accounts refer to users as the migrations say; the database checks
references and cascades. A pod may crash and forget its stash. A submission is
past its session check while the account is deleted. A GitHub account may be
renamed (`login` is what it is called now), another may take the name it had,
and a user may unlink an identity, which the library serves beside the sign-in:
any but the last, checked and removed in one step. Were the last one to go (two
requests at once, or a library told to allow it), `NoCrossLink` would not hold:
a user without an identity passes the check of two sign-ins at once.

`ErasureIsComplete`: nothing of a deleted account remains or comes back.
`NoCrossLink`: no user has a ZITADEL identity beside another. `RolesAreListed`:
whoever an allowlist lets read the reports or the statistics has a ZITADEL
identity on it now, or a login on it that belongs to the user by the history
kept beside the state: a GitHub account that was linked to this user (`linked`),
and a profile of it that gave this login (`named`). It does not say that the
account is still linked or still has the name. Neither holds: the column changes
only when a session is created (`auth.mjs:115-134`), so that a role outlives a
rename and an unlink until a GitHub sign-in of the user stores another login,
and the new holder of the name and the old one may both have the role. Nor does
each sign-in make it newer: a login that a sign-in cut short left in a pod's map
is taken by the next sign-in of any kind of that user there, over one stored
since by another pod.

Three sign-ins are two that race and one that adds to what they
left; the identities are of all three kinds and share an address, but for a
second GitHub account with its own, without which no login could go astray. One
rename lets a login be stale in a pod, a sign-in and a row; one submission is
enough to be late for a deletion.

*Proved* for every set of pods, identities and users, by an invariant of five
parts: rows and sessions have users (`RowsHaveUsers`), users have an identity
and a sign-in about to link has passed the check against what the user has
(`LinksChecked`), `NoCrossLink`,
logins on their way are ones that a profile of the account named
(`LoginsMatch`), and the login in a user's row is owned in the sense above
(`LoginIsOwn`).

## ContentLifecycle and Publication

The files of the repository are the state: records of sources, questions and
receipts, beside the pages upstream, the store of snapshots and the bundle.
Every action is one run of a script or one change merged by hand. A hash names
its content, so a fingerprint is the material itself; `HeldBy` says in which
contents of a page the excerpts of a wording are found. A script that writes
several files may stop after any of them: `capture` between snapshot and
record, `reviewReceipt` between the superseded receipts and the new one,
`promoteQuestions` and `quarantineDriftedQuestions` after any part. Edits,
reviews written by hand with any claim (`HandReview`), and receipts that come
in from another branch (`MergeReceipt`) are not restricted to what the tools
would allow, except that a merge passes the evidence gate. The date of writing
is whatever the file says, on new items and edited ones (`newMaterial`).

`granted` records who approved which material; `loud` the sources captured over
a change nobody had marked as drift; `merged` the receipts from branches. None
guards a step.

`Publication` is the promise: what is shipped was approved, word for word and
citation for citation, by another than its author, and cites nothing suspect.
`ImplementsPublication` maps to `shipped` every item of the bundle whose review
carries a fingerprint. What remains ships under the rule of before fingerprints,
a person's review without a hash of a file that says it is as old, and stays
outside the promise: that such a file is new or was edited since cannot be seen
from it (see `NoneSlipsUnder` among the divergences).

Two texts, one of whose excerpts a change of the page removes; two agents so
that a reviewer is not the author, and a person; two receipt files for
duplicates and superseding; two pieces of work by people or the world, while
scripts run freely. Fairness (`LiveSpec`): the weekly drift check reaches each
page in the end, and a merge builds the bundle. It is what `DriftWithdraws`
needs, a changed page is captured again or no longer cited by what ships, and no
more: nobody need re-validate anything.

*Proved* for every instance (`ContentProofs`): types, `ImplementsPublication`,
`RejectionStands`, `ToolsNeverPoison`, `EvidenceStands` and
`PublishedKeepsReceipt`. The invariant adds three parts to the properties:
every approval in a receipt was granted for that revision (`ReceiptsGranted`),
so was every fingerprint in a person's review block (`ReviewsGranted`), and
merged receipts are there (`MergedAreHere`). The refinement then is one lemma:
an item that passes `checkBundleEligibility` under a review with a fingerprint
has its own material in it, by another than its author, and the receipt or the
block that carries it was granted. `PublishedKeepsReceipt` rests on the refusal
of decisions about questions that are not `review_ready`. Assumed are only the
assumptions on the constants: agents are no humans, `None` is no value, and
some content of a page holds the first texts.

## Replenishment

The three jobs of the weekly workflow and the pull request they open. A tree
has records, manifest, dates of first sight, questions and verdicts; `main` is
one, and a run keeps the tree it started from, the tree it works on and the one
main had when it last looked. `authorWrites` and `authorStrays` let the agent
write any question or record; `gate` is what `guardChanges` and the checks
after it let through; `review` any verdicts. Meanwhile people, the drift check
and upstream change main, indices fail, and the run dies anywhere.

`merge` is git's: a file that one side made or deleted is merged whole, any
other hunk by hunk. Status, citation, hash and review block of a question are a
hunk each, and of a wording both sides changed the merge makes any wording. A
clean merge may therefore publish a revision that neither side has and nobody
read: a person rewords a question on main, the branch publishes it. What keeps
it from the learners is not the merge but `isEligibleForBundle`, whose review
block must name the very revision it stands in; main then has a published
question that the lint reports and the bundle leaves out. `PublishedWasRead`
and `PublishedUntouched` speak of what main ships in this sense.

Two pages in two indices, so that one index can fail; two questions, so that
one is published and one is the agent's; one of each kind of change from
outside. With two wordings no wording is changed on both sides; the run passes
with three too, in more time. No fairness: each week is a run that may die.

Left out: a second run in flight (the workflow's `force` input starts one while
a pull request is open, and the guard, lines 147 to 163, misses one that was
closed and reopened or lost its label; the jobs themselves never overlap);
edits of `content/discovery-state.yaml` by hand, which the copy at line 1563
would overwrite on the branch; reviews without a hash, older than the rule that
requires it (in `ContentLifecycle`; every published question of the bank has
one); and a review block the author writes itself: its prompts (lines 1929 and
1948) forbid it, nothing checks it.

*Proved* for every number of pages, records, questions, wordings and runs
(`ReplenishmentProofs`): `TypeOK`, `PublishedWasRead`, `RecordsAreCaptured`, and
the action properties `PublishedUntouched`, `WorkKept` and `FirstSeenKept`. The
invariant (`BankInv`) says what every tree of a run owes, phase by phase: every
review block in it names an approved revision (`Approved`); main
has lost nothing of the tree the run started from (`Keeps`); what the
preparation made publishes and reviews nothing new and has all its snapshots
(`Prepared`); the branch lost only what the author dropped (`DroppedKnown`);
after the gates no published question of the base is changed (`Gated`). Hunks
may then combine as they like: a merged review block is one of the sides'
(`MergedQuestion`), so it names an approved revision, and a question ships only
if that revision is what the merge made of it. A question the run found
published is the root's on the branch, so the merge leaves it to main; that
people never take a record or a question away is what keeps every merged record
with its snapshot (`MergedRecord`).

## Relay

The conversation of a request and the answer of a server, piece by piece. Each
request has its own thread and connection, so one is modelled. The loop of
`to_openai()` converts one message per step (`to_openai`) and ends by putting
the system message in front and sending the request (`upstream`). A chunk of the
stream is forwarded piece by piece (`TextPiece`, `CallPiece`, `FinishReason`),
since the code remembers nothing of a chunk and may stop within one. `stream` is
the translation under way, with the block that is open; `client` is what a
client of the protocol puts together from the events; `heard` is what the server
has sent.

`ServerAccepts`: no system message but the first, each result right behind the
message that made the call, before the text it came with, and no call without
its result. `ClientHearsAll`: at every moment the text, read block by block, is
exactly what was sent, in order; each call has one block with its own
arguments; the client is never left waiting; and an answer the server said was
cut or filtered is not passed off as another. It holds for a client that takes
arguments for a block already closed, which the protocol does not ask of it, and
says nothing of the reason told when the stream ends without one (see the
divergences below). Otherwise only the client's manners are assumed: it speaks in
turns and answers the calls of a turn in the next (`mayStand`). Six messages hold two rounds of calls with system messages
between; six pieces hold a return to each of two calls after text.

*Proved* for every finite set of calls and slots, conversations and streams of
any length (`RequestProofs`): `RelayTypeOK` and both properties. For the server
the invariant (`ConvertedInv`) is that of the loop: only the last converted
message may still wait for results, and it is what was said last; the results of
the next turn then go right behind it, and the text of the user, who spoke last,
behind all. For the client (`BlocksInv`, `StreamInv`): only the last block may be
open and is exactly while the relay has it open, the block of a slot is where
`tool_slot` looks for it and holds what was said for it, and the number of a
piece of text is above all before it. A new piece then grows the text at its
end (`TextGrows`), and a piece of a call leaves the text alone (`TextKept`).

## What is proved and what is not

Proved for every value of the constants: all that the sections above list. The
theorems are in the `...Proofs` modules, from the named assumptions on the
constants and nothing else, except `NoLag`, `OneClear` and `NoSwitch` where the
table under ProgressSync names them.

Every invariant the runs check, every action property and both refinements are
among them. Model-checked only are the liveness properties (`SyncingSettles`,
`ClearEnds`, `TimeUpSubmits`, `DriftWithdraws`), since the prover knows neither
fairness nor ENABLED.

Where an induction was needed it was on sets of numbers or of learners and is
replaced by the least counterexample, from the well-foundedness of `<`.

The invariants the proofs add in `ProgressSync`, `Screens`, `Replenishment`,
`RateLimit`, `Votes`, `PracticeSession` and `Relay` hold in TLC too, on the
instances of the runs that meet the conditions.

## Where the code and its comments part

Each of these was met while modelling. A property that says what the comment
says is in the module; put it alone in the run named, changed as given, to see
the behaviour.

* `DeleteHitsOwnAccount` in `MCSyncSwitch.cfg`: a DELETE may run on the
  session of another account when the session changes while a clear waits for
  the writes in flight.
* `SyncingSettles` in `MCSyncLive.cfg` with two accounts and
  `Switches = {"switch"}`: the sync a switch asks for during a clear is skipped
  and leaves the status on "syncing" until something else syncs.
* `SyncedIsTrue` in `MCSyncLive.cfg` with two questions: the status becomes
  "synced" when a later write succeeds although an earlier one failed.
* `NoStrandedAnswer` in `MCSyncSwitch.cfg`: the comment of `syncFromServer()`
  (376 to 385) says that no answer is stranded on this device. A row marked
  synced stays so when the DELETE of a clear erases it under another account's
  session, and is not uploaded again.
* `SyncedRowsAreStored` in `MCSyncLive.cfg` with two clear slots: two
  overlapping clears release each other's locks.
* `DeleteIsLast` in `MCSyncSwitch.cfg` with one sync slot: the comment at the
  DELETE route (`routes/attempts.mjs`, 74 to 77) says that it is what makes the
  deletion permanent. A POST of a page that was left, or one taken for failed,
  may still be carried out after it, and the row is back on every device that
  syncs.
* `ExpiredIsSubmitted` in `MCMockExam.cfg`: the comment of `tick()` says the
  exam is submitted when time is up; one whose time was up before its screen
  was mounted never is, because the watch sees no change.
* `RollsBackToKnownGood` in `MCVotes.cfg`: the comments in `PracticeContent.vue`
  (58 to 62, 106 to 112) say that a failed request restores the last summary of
  the server; after two failing clicks it restores the first one's guess.
* `NoneSlipsUnder` in `MCContentLifecycle.cfg`: the comment in `reviewProblems`
  (`lib/question-review.mjs`, 44 to 46) says that without the comparison of
  dates a newly written file could carry a backdated review past the
  fingerprints. It can with it, if its `authored.at` is as old, and so can an
  edit that leaves that date alone: the lint only refuses dates in the future.
* `ReviewsOwnWork` in `MCReplenishment.cfg`: the ids for review are a diff
  against an `origin/main` that moved, and may name questions of others.
* In `guardChanges` the comment (466 to 471) bounds the author to new or revised
  items; a `draft` and a deletion pass. The model lets them pass.
* In the relay a stream that ends cleanly without a finish reason is reported
  as complete, and a delta for a call whose block is closed is sent to the
  closed block. The model does both; `ClientHearsAll` claims no reason for the
  first and, for the second, assumes a client that takes such a delta.
* `initDb` (`server/db.mjs`, 20 to 30) says that a failed connection throws
  "in every environment"; a failed migration outside production falls back to
  memory (99 to 103).
* `setProgressOwner` adopts the guest's rows without raising
  `progressVersion`; screens that stay mounted are renewed by other watchers.

## Not modelled, and why

* Storage wrapper: every module assumes storage that works. Its fallback to
  memory would double every stored variable.
* Two tabs writing one log (they lose each other's answers): `Screens` has the
  other tab as a writer, `ProgressSync` does not.
* Boot and readiness, request guards, reports: one sequence of calls, or
  predicates of one request.
* In accounts: signature checks and the rotation of a provider's keys, expiry
  and storage of sessions, which the library does.
* In the content pipeline: the schemas and checks of shape in the lint, issues
  opened for people, the ranking of gaps, prompts, and the signing, redirects
  and pinned commits of captures.
* In the client: streak, percentages and the recommended domain, the order of
  options, the result screen, menus, the theme, focus, layout.

## What the plan has left

1. `NoRepost` without `OneClear`.
2. A specification of the storage wrapper against a plain map, and of the boot
   of several pods.
3. Two tabs in `ProgressSync`.
