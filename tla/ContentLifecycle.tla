--------------------------- MODULE ContentLifecycle ---------------------------
(***************************************************************************)
(* The life of the question bank: pages of the documentation are captured  *)
(* as snapshots, questions cite them, agents write and review, receipts    *)
(* record the decisions, drift withdraws, and the bundle build decides     *)
(* what learners get (scripts/*.mjs and scripts/lib).                      *)
(*                                                                         *)
(* The repository's files are the shared state.  Every action is one run   *)
(* of a script or one edit merged by hand; a script that writes several    *)
(* files may die between two of them.                                      *)
(***************************************************************************)
EXTENDS Integers, FiniteSets

CONSTANTS
    Sources,      \* the recorded pages
    Questions,
    Agents,       \* agent:<name>, who write and review
    Humans,       \* GitHub handles
    Files,        \* names of receipt files
    Versions,     \* contents a page may have; a hash names one
    Texts,        \* wordings a question may have, excerpts included
    HeldBy,       \* HeldBy[t]: the contents where the excerpts of t are found
    None,
    MaxWork       \* bound: edits, decisions, merges and changes of pages

ASSUME HeldByAssumption == HeldBy \in [Texts -> SUBSET Versions]
ASSUME PeopleAssumption == Agents \cap Humans = {}
ASSUME MaxWorkAssumption == MaxWork \in Nat

VARIABLES
    page,         \* upstream: source -> its content now
    store,        \* the snapshot bucket: <<source, content>> captured
    source,       \* content/sources
    question,     \* content/questions
    receipt,      \* docs/content/*-review.json
    bundle,       \* the client's question bundle: <<question, material>>, and
                  \* whether the review it shipped under carried a hash
    \* what happened, for the properties
    granted,      \* <<question, material, reviewer>> approved
    loud,         \* sources re-captured although no drift was recorded
    merged,       \* receipt files that came in from another branch
    work

files == <<source, question, receipt>>
history == <<granted, loud, merged>>
vars == <<page, store, files, bundle, history, work>>

Reviewers == Agents \cup Humans
Time == {"early", "late"}   \* before and from FINGERPRINT_REQUIRED_FROM
before(a, b) == a = "early" /\ b = "late"

Citation == [source : Sources, source_sha256 : Versions]

(* All of a question but its status and its review. *)
Material == [text : Texts, by : Agents, at : Time, evidence : SUBSET Citation]
Review == [by : Reviewers, at : Time, content_sha256 : Material \cup {None}]
Status == {"review_ready", "published", "needs_review"}
Question == [status : Status, material : Material, reviewed : Review \cup {None}]
Source == [sha256 : Versions, status : {"current", "drifted", "deprecated"},
           versions : SUBSET Versions]
Entry == [approved : BOOLEAN, content_sha256 : Material]
Receipt == [reviewer : Agents, questions : [Questions -> Entry \cup {None}]]

ASSUME NoneAssumption == None \notin Versions \cup Source \cup Receipt

(* A budget for what people and the world do; scripts are free. *)
Spend == work < MaxWork /\ work' = work + 1

-----------------------------------------------------------------------------
(* lib/question-review.mjs *)

(* Mistake: what was hashed is not compared with the question. *)
staleReview_Never(m, r) == FALSE

(* The fingerprint covers author and evidence, but no status or review. *)
questionFingerprint(m) == m

staleReview(m, r) ==
    r.content_sha256 # None /\ r.content_sha256 # questionFingerprint(m)

predates(m, r) == before(r.at, m.at)

(* Why the review r does not carry the publication of material m. *)
reviewProblems(m, r) ==
    \/ r = None
    \/ predates(m, r)
    \/ r.by \in Agents /\ (r.by = m.by \/ r.content_sha256 = None)
    \/ r.by \notin Agents /\ r.content_sha256 = None /\ r.at = "late"
    \/ staleReview(m, r)

-----------------------------------------------------------------------------
(* lib/content-model.mjs *)

Has(f, r, q) ==
    receipt[f] # None /\ receipt[f].reviewer = r /\ receipt[f].questions[q] # None

(* The entries of reviewer r for q, in any file. *)
holders(r, q) == {f \in Files : Has(f, r, q)}

(* Mistake: one of several entries is taken instead of none. *)
loadReviewReceipts_Any(r, q) ==
    IF holders(r, q) = {} THEN None
    ELSE LET ok == {f \in holders(r, q) : receipt[f].questions[q].approved}
             f == CHOOSE g \in (IF ok # {} THEN ok ELSE holders(r, q)) : TRUE
         IN  receipt[f].questions[q]

(* An entry that appears more than once counts for nothing. *)
loadReviewReceipts(r, q) ==
    IF \E f \in Files : holders(r, q) = {f}
    THEN receipt[CHOOSE f \in Files : holders(r, q) = {f}].questions[q]
    ELSE None

(* An agent's approval needs the committed receipt of that very revision. *)
receiptProblems(q, r) ==
    /\ r.by \in Agents
    /\ LET e == loadReviewReceipts(r.by, q)
       IN  e = None \/ ~e.approved \/ e.content_sha256 # r.content_sha256

unusable == {s \in Sources : source[s] # None /\ source[s].status \in {"drifted", "deprecated"}}
cited(m) == {ev.source : ev \in m.evidence}

(* checkBundleEligibility: the single rule of what may ship. *)
isEligibleForBundle(q) ==
    /\ question[q] # None
    /\ question[q].status = "published"
    /\ ~reviewProblems(question[q].material, question[q].reviewed)
    /\ ~receiptProblems(q, question[q].reviewed)
    /\ question[q].material.evidence # {}
    /\ \A s \in cited(question[q].material) : source[s] # None /\ s \notin unusable

-----------------------------------------------------------------------------
(* lib/snapshot-store.mjs: a snapshot is kept under the hash of its bytes, *)
(* for good; what does not hash to its key is no answer.                   *)

put(s, text) == store' = store \cup {<<s, text>>}
get(s, hash) == IF <<s, hash>> \in store THEN hash ELSE None

(* Every excerpt of the wording t is found in the text. *)
holds(text, t) == text # None /\ text \in HeldBy[t]

-----------------------------------------------------------------------------
(* verify-evidence.mjs *)

validHashes(s) == {source[s].sha256} \cup source[s].versions

(* Every excerpt is found in a snapshot of its source that is in the store.*)
verifyEvidence(m) ==
    \A ev \in m.evidence :
        /\ source[ev.source] # None
        /\ ev.source_sha256 \in validHashes(ev.source)
        /\ holds(get(ev.source, ev.source_sha256), m.text)

-----------------------------------------------------------------------------
(* capture-source.mjs *)

PageChanges(s) ==
    /\ Spend
    /\ \E v \in Versions \ {page[s]} : page' = [page EXCEPT ![s] = v]
    /\ UNCHANGED <<store, files, bundle, history>>

(* The text of the page, if it is reached in time, on an allowed host. *)
fetchSource(s, reached) == IF s \in reached THEN page[s] ELSE None

(* Mistake: a new capture forgets the hashes registered before. *)
mergeVersions_Fresh(previous, hash) ==
    IF previous # None /\ previous.status = "drifted"
    THEN {previous.sha256} \ {hash} ELSE {}

mergeVersions(previous, hash) ==
    IF previous = None THEN {}
    ELSE (IF previous.status = "drifted"
          THEN previous.versions \cup {previous.sha256}
          ELSE previous.versions) \ {hash}

buildSourceRecord(previous, hash) ==
    [sha256 |-> hash, status |-> "current", versions |-> mergeVersions(previous, hash)]

(* The snapshot is stored first; the record may never be written. *)
capture(s) ==
    LET text == fetchSource(s, {s}) IN
    /\ put(s, text)
    /\ \/ source' = [source EXCEPT ![s] = buildSourceRecord(source[s], text)]
       \/ source' = source
    /\ loud' = IF /\ source'[s] # source[s] /\ source[s] # None
                  /\ source[s].status # "drifted" /\ source[s].sha256 # text
               THEN loud \cup {s} ELSE loud
    /\ UNCHANGED <<page, question, receipt, bundle, granted, merged, work>>

(* Mistake: a page that went back to an older content is taken for current.*)
drifts_AnyVersion(s, reached) ==
    /\ source[s] # None /\ fetchSource(s, reached) # None
    /\ fetchSource(s, reached) \notin validHashes(s)

drifts(s, reached) ==
    /\ source[s] # None /\ fetchSource(s, reached) # None
    /\ fetchSource(s, reached) # source[s].sha256

(* check --mark-drifted: every recorded page that is reached is compared. *)
check(reached) ==
    /\ source' = [s \in Sources |-> IF drifts(s, reached)
                                    THEN [source[s] EXCEPT !.status = "drifted"]
                                    ELSE source[s]]
    /\ UNCHANGED <<page, store, question, receipt, bundle, history, work>>

(* A maintainer marks a source by hand. *)
Deprecate(s) ==
    /\ source[s] # None
    /\ Spend
    /\ source' = [source EXCEPT ![s].status = "deprecated"]
    /\ UNCHANGED <<page, store, question, receipt, bundle, history>>

-----------------------------------------------------------------------------
(* Writing questions.  What an agent writes quotes the snapshots captured  *)
(* last, and merges only through the evidence gate.                        *)

(* The date of writing is what the file says: an agent has no clock, and   *)
(* an edit may leave it as it was.                                         *)
newMaterial(a, t, at, S) ==
    [text |-> t, by |-> a, at |-> at,
     evidence |-> {[source |-> s, source_sha256 |-> source[s].sha256] : s \in S}]

Author(q, m) ==
    /\ question[q] = None
    /\ verifyEvidence(m)
    /\ Spend
    /\ question' = [question EXCEPT ![q] =
          [status |-> "review_ready", material |-> m, reviewed |-> None]]
    /\ UNCHANGED <<page, store, source, receipt, bundle, history>>

(* An edit of a file in whatever status it is; the review block stays. *)
Edit(q, m) ==
    /\ question[q] # None /\ question[q].material # m
    /\ verifyEvidence(m)
    /\ Spend
    /\ question' = [question EXCEPT ![q].material = m]
    /\ UNCHANGED <<page, store, source, receipt, bundle, history>>

(* A review block written by hand, with no script: a person may approve so,*)
(* and a pull request may claim anything, an approval of long ago too.     *)
(* (Claims of an agent without a hash are left out: both rules refuse them.)*)
HandReview(q, r, at, hashed) ==
    /\ question[q] # None
    /\ hashed => at = "late"
    /\ r \in Agents => hashed
    /\ Spend
    /\ LET m == question[q].material
       IN  /\ question' = [question EXCEPT ![q].status = "published", ![q].reviewed =
                 [by |-> r, at |-> at, content_sha256 |-> IF hashed THEN m ELSE None]]
           /\ granted' = IF r \in Humans /\ hashed THEN granted \cup {<<q, m, r>>} ELSE granted
    /\ UNCHANGED <<page, store, source, receipt, bundle, loud, merged>>

-----------------------------------------------------------------------------
(* review-receipt.mjs.  A reviewer r hands in the decisions D, a set of    *)
(* questions and those of them approved, for the receipt f.                *)

(* Mistake: another file's entry is not looked for. *)
elsewhere_Ignored(f, r, q) == FALSE

selfReview(r, q) == question[q].material.by = r
elsewhere(f, r, q) == \E g \in Files \ {f} : Has(g, r, q)

buildReceipt_Refused(f, r, ids, supersede) ==
    \/ receipt[f] # None /\ receipt[f].reviewer # r
    \/ \E q \in ids :
         \/ question[q] = None
         \/ question[q].status # "review_ready"
         \/ selfReview(r, q)
         \/ ~supersede /\ elsewhere(f, r, q)

(* Decisions replace those of the same file by id, and keep the others. *)
buildReceipt(f, r, ids, approved) ==
    [reviewer |-> r,
     questions |-> [q \in Questions |->
        IF q \in ids
        THEN [approved |-> q \in approved,
              content_sha256 |-> questionFingerprint(question[q].material)]
        ELSE IF receipt[f] = None THEN None ELSE receipt[f].questions[q]]]

(* The other files without r's entries for ids. *)
supersedeElsewhere(f, r, ids) ==
    [g \in Files |->
        IF g # f /\ receipt[g] # None /\ receipt[g].reviewer = r
        THEN [receipt[g] EXCEPT !.questions =
                 [q \in Questions |-> IF q \in ids THEN None ELSE @[q]]]
        ELSE receipt[g]]

(* Mistake: the older entries are removed before the new are validated.    *)
refusedReceipt_Stripped(f, r, ids, supersede) ==
    receipt' = IF supersede THEN supersedeElsewhere(f, r, ids) ELSE receipt

(* A refused run leaves every receipt as it was. *)
refusedReceipt(f, r, ids, supersede) == receipt' = receipt

(* Accepted, the older entries are removed first: it may die right then. *)
reviewReceipt(f, r, ids, approved, supersede) ==
    LET rest == IF supersede THEN supersedeElsewhere(f, r, ids) ELSE receipt
    IN  /\ Spend
        /\ IF buildReceipt_Refused(f, r, ids, supersede)
           THEN refusedReceipt(f, r, ids, supersede) /\ granted' = granted
           ELSE \/ receipt' = rest /\ granted' = granted
                \/ /\ receipt' = [rest EXCEPT ![f] = buildReceipt(f, r, ids, approved)]
                   /\ granted' = granted \cup
                        {<<q, question[q].material, r>> : q \in approved}
        /\ UNCHANGED <<page, store, source, question, bundle, loud, merged>>

(* A receipt of another branch is merged: its reviewer has read revisions  *)
(* that branch had, and the files here were not looked at.                 *)
MergeReceipt(f, r, q, approved) ==
    /\ receipt[f] = None
    /\ question[q] # None /\ question[q].material.by # r
    /\ Spend
    /\ receipt' = [receipt EXCEPT ![f] =
          [reviewer |-> r,
           questions |-> [p \in Questions |->
              IF p = q THEN [approved |-> approved,
                             content_sha256 |-> question[q].material]
              ELSE None]]]
    /\ granted' = IF approved THEN granted \cup {<<q, question[q].material, r>>} ELSE granted
    /\ merged' = merged \cup {f}
    /\ UNCHANGED <<page, store, source, question, bundle, loud>>

-----------------------------------------------------------------------------
(* approve-pr-questions.mjs *)

notApproved(f, r, q) ==
    \/ ~Has(f, r, q)
    \/ ~receipt[f].questions[q].approved
    \/ receipt[f].questions[q].content_sha256 # questionFingerprint(question[q].material)

stamp(r, q) ==
    [by |-> r, at |-> "late",
     content_sha256 |-> questionFingerprint(question[q].material)]

(* Every file is validated before any is written; then one after another,  *)
(* and the run may die after any of them.  f is an agent's review file.    *)
promoteQuestions(r, ids, f) ==
    /\ \A q \in ids :
         /\ question[q] # None /\ question[q].status = "review_ready"
         /\ r \in Agents => ~notApproved(f, r, q)
         /\ ~reviewProblems(question[q].material, stamp(r, q))
    /\ \E done \in SUBSET ids :
         /\ question' = [q \in Questions |->
               IF q \in done
               THEN [question[q] EXCEPT !.status = "published", !.reviewed = stamp(r, q)]
               ELSE question[q]]
         /\ granted' = IF r \in Agents THEN granted
                       ELSE granted \cup {<<q, question[q].material, r>> : q \in done}
    /\ UNCHANGED <<page, store, source, receipt, bundle, loud, merged, work>>

(* replenish-prepare.mjs demote: items the reviewer rejected. *)
demote(ids) ==
    /\ ids # {} /\ \A q \in ids : question[q] # None /\ question[q].status = "review_ready"
    /\ question' = [q \in Questions |->
          IF q \in ids
          THEN [question[q] EXCEPT !.status = "needs_review", !.reviewed = None]
          ELSE question[q]]
    /\ UNCHANGED <<page, store, source, receipt, bundle, history, work>>

-----------------------------------------------------------------------------
(* quarantine-drifted-questions.mjs and revalidate-content.mjs *)

dependents == {q \in Questions : /\ question[q] # None /\ question[q].status = "published"
                                 /\ cited(question[q].material) \cap unusable # {}}

(* File after file; the review stays as history. *)
quarantineDriftedQuestions ==
    /\ \E done \in SUBSET dependents :
         question' = [q \in Questions |->
            IF q \in done THEN [question[q] EXCEPT !.status = "needs_review"] ELSE question[q]]
    /\ UNCHANGED <<page, store, source, receipt, bundle, history, work>>

repinned(m) ==
    [m EXCEPT !.evidence =
        {[source |-> s, source_sha256 |-> source[s].sha256] : s \in cited(m)}]

allExcerptsMatched(m) ==
    /\ m.evidence # {}
    /\ \A s \in cited(m) :
         /\ source[s] # None /\ s \notin unusable
         /\ holds(get(s, source[s].sha256), m.text)

(* All the citations of an item are moved to the latest snapshots, or none;*)
(* its old review goes.  The store may fail to answer for some items.      *)
revalidateContent(ids) ==
    /\ ids # {} /\ \A q \in ids : question[q] # None /\ question[q].status = "needs_review"
    /\ \E answered \in SUBSET ids :
         question' = [q \in Questions |->
            IF q \in answered /\ allExcerptsMatched(question[q].material)
            THEN [status |-> "review_ready", material |-> repinned(question[q].material),
                  reviewed |-> None]
            ELSE question[q]]
    /\ UNCHANGED <<page, store, source, receipt, bundle, history, work>>

-----------------------------------------------------------------------------
(* build-content-bundle.mjs *)

Build ==
    /\ bundle' = {<<q, question[q].material, question[q].reviewed.content_sha256 # None>> :
                     q \in {p \in Questions : isEligibleForBundle(p)}}
    /\ UNCHANGED <<page, store, files, history, work>>

-----------------------------------------------------------------------------
(* The bank starts with questions approved by people before fingerprints,  *)
(* questions waiting for review, or none.                                  *)
firstContent == CHOOSE v \in Versions : \A t \in Texts : v \in HeldBy[t]

firstMaterial(at) ==
    [text |-> CHOOSE t \in Texts : TRUE, by |-> CHOOSE a \in Agents : TRUE, at |-> at,
     evidence |-> {[source |-> s, source_sha256 |-> firstContent] : s \in Sources}]

Legacy ==
    [status |-> "published", material |-> firstMaterial("early"),
     reviewed |-> [by |-> CHOOSE h \in Humans : TRUE, at |-> "early", content_sha256 |-> None]]

Ready == [status |-> "review_ready", material |-> firstMaterial("late"), reviewed |-> None]

ASSUME FirstContentAssumption ==
    /\ Agents # {} /\ Humans # {} /\ Texts # {}
    /\ \E v \in Versions : \A t \in Texts : v \in HeldBy[t]

Init ==
    /\ page = [s \in Sources |-> firstContent]
    /\ store = {<<s, firstContent>> : s \in Sources}
    /\ source = [s \in Sources |->
          [sha256 |-> firstContent, status |-> "current", versions |-> {}]]
    /\ question \in [Questions -> {Legacy, Ready, None}]
    /\ receipt = [f \in Files |-> None]
    /\ bundle = {}
    /\ granted = {}
    /\ loud = {}
    /\ merged = {}
    /\ work = 0

Next ==
    \/ \E s \in Sources : PageChanges(s) \/ capture(s) \/ Deprecate(s)
    \/ \E reached \in SUBSET Sources : check(reached)
    \/ \E q \in Questions, a \in Agents, t \in Texts, at \in Time,
          S \in (SUBSET {s \in Sources : source[s] # None}) \ {{}} :
          Author(q, newMaterial(a, t, at, S)) \/ Edit(q, newMaterial(a, t, at, S))
    \/ \E q \in Questions, by \in Reviewers, at \in Time, hashed \in BOOLEAN :
          HandReview(q, by, at, hashed)
    \/ \E f \in Files, r \in Agents, ids \in (SUBSET Questions) \ {{}}, s \in BOOLEAN :
          \E approved \in SUBSET ids : reviewReceipt(f, r, ids, approved, s)
    \/ \E f \in Files, r \in Agents, q \in Questions, a \in BOOLEAN : MergeReceipt(f, r, q, a)
    \/ \E r \in Reviewers, ids \in (SUBSET Questions) \ {{}}, f \in Files :
          promoteQuestions(r, ids, f)
    \/ \E ids \in SUBSET Questions : demote(ids) \/ revalidateContent(ids)
    \/ quarantineDriftedQuestions
    \/ Build

Spec == Init /\ [][Next]_vars

(* The drift job runs every week and reaches the pages in the end; a merge *)
(* builds and deploys the client.                                          *)
LiveSpec ==
    /\ Spec
    /\ \A s \in Sources :
         WF_vars(\E reached \in SUBSET Sources : s \in reached /\ check(reached))
    /\ WF_vars(Build)

-----------------------------------------------------------------------------
(* Properties. *)

(* Every variable keeps its type. *)
TypeOK ==
    /\ page \in [Sources -> Versions]
    /\ store \subseteq Sources \X Versions
    /\ source \in [Sources -> Source \cup {None}]
    /\ question \in [Questions -> Question \cup {None}]
    /\ receipt \in [Files -> Receipt \cup {None}]
    /\ bundle \subseteq Questions \X Material \X BOOLEAN
    /\ granted \subseteq Questions \X Material \X Reviewers
    /\ loud \subseteq Sources /\ merged \subseteq Files
    /\ work \in 0..MaxWork

(* A question ships only as someone other than its author has approved it, *)
(* word for word and citation for citation, and with no source suspect:    *)
(* whatever a pull request claims, whenever the file says it was written,  *)
(* and whatever was edited, superseded or lost since.  Outside the promise *)
(* is only what ships under the rule of before fingerprints: a person's    *)
(* review without a hash, of a file that says it is as old.                *)
fingerprinted == {<<item[1], item[2]>> : item \in {b \in bundle : b[3]}}

Promise == INSTANCE Publication WITH
    Items <- Questions \X Material, People <- Reviewers, Sources <- Sources,
    approvals <- granted, suspect <- unusable, shipped <- fingerprinted

ImplementsPublication == Promise!Spec

(* What the comment in reviewProblems says of the order of the two dates,  *)
(* that no newly written file slips under the fingerprints with a review   *)
(* dated back.  It does if its own date is as old.                         *)
NoneSlipsUnder ==
    \A item \in bundle : item[3] \/ item[2] = firstMaterial("early")

(* A rejection on record is not outvoted by an approval of the same        *)
(* reviewer in another file: such a question does not ship.                *)
RejectionStands ==
    \A q \in Questions : isEligibleForBundle(q) =>
        \A f \in Files : Has(f, question[q].reviewed.by, q) => receipt[f].questions[q].approved

(* The review tools never leave one reviewer with two entries for one      *)
(* question, which would revoke both: only a merge of branches does.       *)
ToolsNeverPoison ==
    \A r \in Agents, q \in Questions : \A f, g \in holders(r, q) :
        f = g \/ f \in merged \/ g \in merged

(* #evidence: once merged, a question can be checked against the snapshots *)
(* it quotes for good, through drifts, re-captures and re-validations; the *)
(* exception is a capture over a page that changed with no drift recorded. *)
EvidenceStands ==
    \A q \in Questions : question[q] # None =>
        verifyEvidence(question[q].material) \/ cited(question[q].material) \cap loud # {}

standing(r, q) ==
    loadReviewReceipts(r, q) # None /\ loadReviewReceipts(r, q).approved

(* No run of the review tools, refused or killed half-way, takes away the  *)
(* receipt a published question stands on.                                 *)
PublishedKeepsReceipt ==
    [][\A r \in Agents, q \in Questions :
         /\ question[q] # None /\ question[q].status = "published"
         /\ standing(r, q)
         /\ merged' = merged
         => standing(r, q)']_vars

(* A page that has changed is either captured again or no longer cited by  *)
(* what learners get.                                                      *)
DriftWithdraws ==
    \A s \in Sources :
        source[s] # None /\ page[s] # source[s].sha256
            ~> \/ page[s] = source[s].sha256
               \/ \A item \in bundle : s \notin cited(item[2])

=============================================================================
