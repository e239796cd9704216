---------------------------- MODULE Replenishment ----------------------------
(***************************************************************************)
(* The weekly replenishment of the question bank: discover-docs.mjs finds  *)
(* what is missing, replenish-prepare.mjs prepares a branch, bounds what   *)
(* the authoring agent wrote on it and what the reviewing agent decided,   *)
(* and people merge the branch into a main that has moved meanwhile.       *)
(*                                                                         *)
(* The three jobs of content-replenish.yml run one after the other and die *)
(* at any step; the authoring agent may write anything but a review of its *)
(* own.  What it reads, its author id and the wording of its items are     *)
(* left out.                                                               *)
(***************************************************************************)
EXTENDS Integers, FiniteSets

CONSTANTS
    Pages,         \* upstream pages
    Index,         \* Index[p]: the llms.txt that lists p
    Sources,       \* ids of source records
    Questions,
    Versions,      \* contents of a page; a hash names one
    Texts,
    HeldBy,        \* HeldBy[t]: the contents where the excerpt of t is found
    None,
    MaxNew,        \* pages offered to a run
    MaxQuestions,  \* question files an author may change
    MaxEdits,      \* bound: question files an author touches
    MaxWeeks,      \* bound: runs
    MaxWork        \* bound: changes by people and upstream

ASSUME ReplenishAssumption ==
    /\ Index \in [Pages -> Nat]
    /\ Texts # {}
    /\ HeldBy \in [Texts -> SUBSET Versions]
    /\ {MaxNew, MaxQuestions, MaxEdits, MaxWeeks, MaxWork} \subseteq Nat

VARIABLES
    live,          \* page -> content now
    listed,        \* pages the indices list
    store,         \* captured snapshots <<source, content>>
    main,          \* the tree of the main branch
    run,           \* the run in flight, or its open pull request
    week,
    approved,      \* revisions <<question, fingerprint>> someone approved
    work

vars == <<live, listed, store, main, run, week, approved, work>>

Status == {"draft", "review_ready", "needs_review", "published"}

(* A tree: records, the capture manifest, first-seen dates of pages nothing*)
(* cites, questions of one citation each, and the receipts' entries.       *)
(* reviewed: the revision the review block of a question names.            *)
Record == [url : Pages, sha256 : Versions, status : {"current", "drifted"}]
fingerprint(i) == [text |-> i.text, cites |-> i.cites, sha256 |-> i.sha256]
Revision == [text : Texts, cites : Sources, sha256 : Versions]
Item == [status : Status, text : Texts, cites : Sources, sha256 : Versions,
         reviewed : Revision \cup {None}]
Tree == [source : [Sources -> Record \cup {None}],
         manifest : SUBSET (Sources \X Pages),
         seen : [Pages -> (0..MaxWeeks) \cup {None}],
         question : [Questions -> Item \cup {None}],
         verdict : SUBSET (Questions \X Revision \X BOOLEAN)]

(* None is no content of a tree. *)
ASSUME NoneAssumption ==
    None \notin Status /\ None \notin Item /\ None \notin Record /\ None \notin Revision

recorded(tree) == {s \in Sources : tree.source[s] # None}
statusOf(tree, q) == IF tree.question[q] = None THEN None ELSE tree.question[q].status
reviewedOf(tree, q) == IF tree.question[q] = None THEN None ELSE tree.question[q].reviewed

(* Mistake: the hash of the review block is not compared.                  *)
isEligibleForBundle_NoHash(tree, q) ==
    /\ statusOf(tree, q) = "published"
    /\ reviewedOf(tree, q) # None
    /\ LET i == tree.question[q]
       IN tree.source[i.cites] # None /\ tree.source[i.cites].status = "current"

(* What the bundle takes of a tree: published, under a review of this very *)
(* revision, on a source that has not drifted.  (Receipts, and reviews     *)
(* older than the hashes, are in ContentLifecycle.)                        *)
isEligibleForBundle(tree, q) ==
    /\ statusOf(tree, q) = "published"
    /\ reviewedOf(tree, q) = fingerprint(tree.question[q])
    /\ LET i == tree.question[q]
       IN tree.source[i.cites] # None /\ tree.source[i.cites].status = "current"
within(phase) == run # None /\ run.phase = phase
Spend == work < MaxWork /\ work' = work + 1

-----------------------------------------------------------------------------
(* discover-docs.mjs *)

knownUrls(tree) ==
    {tree.source[s].url : s \in recorded(tree)} \cup {row[2] : row \in tree.manifest}

newPages(pages, tree) == pages \ knownUrls(tree)

(* Mistake: the watermark is pruned to the indices that answered. *)
nextState_Pruned(pages, down) ==
    [p \in Pages |->
        IF p \in newPages(pages, main)
        THEN IF main.seen[p] # None THEN main.seen[p] ELSE week
        ELSE None]

(* Dates of first sight; when an index failed no entry is pruned. *)
nextState(pages, down) ==
    [p \in Pages |->
        IF p \in newPages(pages, main)
        THEN IF main.seen[p] # None THEN main.seen[p] ELSE week
        ELSE IF main.seen[p] # None /\ p \notin knownUrls(main) /\ down # {}
        THEN main.seen[p] ELSE None]

(* A record marked drifted is drifted, reached or not; a current one only  *)
(* if the page was reached and differs.                                    *)
drifted(reached) ==
    {s \in recorded(main) :
        \/ main.source[s].status = "drifted"
        \/ s \in reached /\ live[main.source[s].url] # main.source[s].sha256}

(* One run at a time, and none while a pull request is open: a second one  *)
(* (dispatched with force, or after the first lost its label) is left out, *)
(* and so are edits of the dates of first sight by hand.  The ranking by   *)
(* gaps may offer any of the new pages.  down: indices that fail.          *)
discover(down, reached, offered) ==
    /\ run = None /\ week < MaxWeeks
    /\ down # {Index[p] : p \in Pages}
    /\ LET pages == {p \in listed : Index[p] \notin down}
           fresh == newPages(pages, main)
       IN  /\ offered \subseteq fresh
           /\ Cardinality(offered) = IF Cardinality(fresh) < MaxNew
                                     THEN Cardinality(fresh) ELSE MaxNew
           /\ run' = [phase |-> "discovered", offered |-> offered,
                      drifted |-> drifted(reached), seen |-> nextState(pages, down),
                      root |-> None, base |-> None, tree |-> None, upstream |-> None,
                      rows |-> {}, ids |-> {}, dropped |-> {}]
    /\ week' = week + 1
    /\ UNCHANGED <<live, listed, store, main, approved, work>>

-----------------------------------------------------------------------------
(* The deterministic preparation: a fresh checkout, drift and quarantine,  *)
(* then the captures.                                                      *)

(* Rows the report offered, under ids no record and no other row has.  (Of *)
(* two rows that collide the code keeps the first: both are dropped here.) *)
validateSelection(select, offered, tree) ==
    {row \in select :
        /\ row[1] \notin recorded(tree) \cup {r[1] : r \in tree.manifest}
        /\ row[2] \in offered
        /\ \A other \in select : other # row => other[1] # row[1] /\ other[2] # row[2]}

markDrifted(source) ==
    [s \in Sources |->
        IF source[s] # None /\ live[source[s].url] # source[s].sha256
        THEN [source[s] EXCEPT !.status = "drifted"] ELSE source[s]]

quarantine(question, source) ==
    [q \in Questions |->
        IF /\ question[q] # None /\ question[q].status = "published"
           /\ source[question[q].cites] # None
           /\ source[question[q].cites].status = "drifted"
        THEN [question[q] EXCEPT !.status = "needs_review"] ELSE question[q]]

checkout(select) ==
    /\ within("discovered")
    /\ LET source == markDrifted(main.source)
           tree == [main EXCEPT !.source = source, !.seen = run.seen,
                                !.question = quarantine(main.question, source)]
       IN  run' = [run EXCEPT !.phase = "checked", !.root = main, !.tree = tree, !.offered = {},
                              !.rows = validateSelection(select, run.offered, main)]
    /\ UNCHANGED <<live, listed, store, main, week, approved, work>>

(* Mistake: every selected page gets a row, captured or not. *)
appendManifestRows_All(rows, captured) == rows

appendManifestRows(rows, captured) == {row \in rows : row[1] \in captured}

(* An agent's item judged and rejected in exactly these bytes, never       *)
(* approved, is not sent back.                                             *)
rejectedUnchanged(q, item, verdict) ==
    /\ <<q, fingerprint(item), FALSE>> \in verdict
    /\ <<q, fingerprint(item), TRUE>> \notin verdict

revalidationIds(tree, captured) ==
    {q \in Questions :
        /\ tree.question[q] # None /\ tree.question[q].status = "needs_review"
        /\ tree.question[q].cites \in captured
        /\ ~rejectedUnchanged(q, tree.question[q], tree.verdict)}

(* revalidate-content.mjs: pinned anew where the excerpt is still found,  *)
(* and to be reviewed again.                                               *)
revalidate(question, source, ids) ==
    [q \in Questions |->
        IF q \in ids /\ source[question[q].cites].sha256 \in HeldBy[question[q].text]
        THEN [question[q] EXCEPT !.status = "review_ready", !.reviewed = None,
                                 !.sha256 = source[question[q].cites].sha256]
        ELSE question[q]]

(* Some captures fail, and the run goes on without them. *)
capture(captured) ==
    /\ within("checked")
    /\ LET again == run.drifted \cap recorded(run.tree)
           url == [s \in Sources |->
                      IF \E row \in run.rows : row[1] = s
                      THEN (CHOOSE row \in run.rows : row[1] = s)[2]
                      ELSE IF s \in again THEN run.tree.source[s].url ELSE None]
           source == [s \in Sources |->
                         IF s \in captured
                         THEN [url |-> url[s], sha256 |-> live[url[s]], status |-> "current"]
                         ELSE run.tree.source[s]]
           tree == [run.tree EXCEPT
                      !.source = source,
                      !.manifest = @ \cup appendManifestRows(run.rows, captured),
                      !.question = revalidate(@, source, revalidationIds(run.tree, captured))]
       IN  /\ \A s \in captured : url[s] # None
           /\ store' = store \cup {<<s, live[url[s]]>> : s \in captured}
           /\ run' = [run EXCEPT !.phase = "author", !.tree = tree, !.base = tree,
                                  !.rows = {}, !.drifted = {}]
    /\ UNCHANGED <<live, listed, main, week, approved, work>>

-----------------------------------------------------------------------------
(* The authoring agent, who may write any file, and the gates after it. *)

changedQuestionFiles(base, tree) == {q \in Questions : tree.question[q] # base.question[q]}

(* What it may quote.  (A hash the record does not name fails every gate   *)
(* that a wording the page does not hold fails.)  It leaves the review     *)
(* block as it was or, as it is told, deletes it.                          *)
quotations(q) ==
    {[status |-> status, text |-> t, cites |-> s,
      sha256 |-> run.tree.source[s].sha256, reviewed |-> reviewed] :
        status \in Status, t \in Texts, s \in recorded(run.tree),
        reviewed \in {None, reviewedOf(run.base, q)}}

authorWrites(q, item) ==
    /\ within("author")
    /\ Cardinality(changedQuestionFiles(run.base, run.tree) \cup {q}) <= MaxEdits
    /\ item # run.tree.question[q]
    /\ run' = [run EXCEPT !.tree.question[q] = item,
                          !.dropped = IF item = None THEN @ \cup {q} ELSE @ \ {q}]
    /\ UNCHANGED <<live, listed, store, main, week, approved, work>>

(* It pins a record by itself: outside the area it may write. *)
authorStrays(s, v) ==
    /\ within("author") /\ run.tree.source[s] # None
    /\ run.tree.source = run.base.source
    /\ run' = [run EXCEPT !.tree.source[s] = [@ EXCEPT !.sha256 = v, !.status = "current"]]
    /\ UNCHANGED <<live, listed, store, main, week, approved, work>>

boundaryProblems(base, tree) == tree.source # base.source \/ tree.manifest # base.manifest

(* Mistake: the status before is not looked at. *)
guardChanges_OnlyNow(base, tree, max, author) ==
    LET changed == changedQuestionFiles(base, tree)
    IN  author => /\ Cardinality(changed) <= max
                  /\ \A q \in changed : statusOf(tree, q) # "published"

(* Nothing published at the base changes; the author's own changes are     *)
(* capped and publish nothing.                                             *)
guardChanges(base, tree, max, author) ==
    LET changed == changedQuestionFiles(base, tree)
    IN  /\ author => /\ Cardinality(changed) <= max
                     /\ \A q \in changed : statusOf(tree, q) # "published"
        /\ \A q \in changed : statusOf(base, q) # "published"

verified(tree, q) ==
    tree.question[q] # None /\ tree.question[q].status # "draft" =>
        LET i == tree.question[q]
        IN  /\ tree.source[i.cites] # None
            /\ <<i.cites, i.sha256>> \in store
            /\ i.sha256 \in HeldBy[i.text]

(* Mistake: whatever does not verify is deleted. *)
unverifiedNewItems_Any(base, tree) == {q \in Questions : ~verified(tree, q)}

(* Only an item this run created may be set aside. *)
unverifiedNewItems(base, tree) ==
    {q \in Questions : ~verified(tree, q) /\ base.question[q] = None}

setAside(tree, ids) ==
    [tree EXCEPT !.question = [q \in Questions |-> IF q \in ids THEN None ELSE @[q]]]

reviewIds(base, tree) ==
    {q \in changedQuestionFiles(base, tree) : statusOf(tree, q) = "review_ready"}

(* A refused branch is not pushed, nor one with nothing to review. *)
gate ==
    /\ within("author")
    /\ ~boundaryProblems(run.base, run.tree)
    /\ guardChanges(run.base, run.tree, MaxQuestions, TRUE)
    /\ LET tree == setAside(run.tree, unverifiedNewItems(run.base, run.tree))
       IN  /\ \A q \in Questions : verified(tree, q)
           /\ run' = IF reviewIds(run.root, tree) = {} THEN None
                     ELSE [run EXCEPT !.phase = "pushed", !.tree = tree]
    /\ UNCHANGED <<live, listed, store, main, week, approved, work>>

-----------------------------------------------------------------------------
(* The review job, on a checkout of the branch with main as it is then. *)

listItems ==
    /\ within("pushed")
    /\ reviewIds(main, run.tree) # {}
    /\ run' = [run EXCEPT !.phase = "review", !.upstream = main,
                          !.ids = reviewIds(main, run.tree)]
    /\ UNCHANGED <<live, listed, store, main, week, approved, work>>

(* Exactly the items under review are decided, recomputed from the diff. *)
reconcileDecisions(ids, decided) ==
    decided = ids /\ reviewIds(run.upstream, run.tree) = ids

demote(item) == [item EXCEPT !.status = "needs_review", !.reviewed = None]
promote(item) == [item EXCEPT !.status = "published", !.reviewed = fingerprint(item)]

(* Approved items are promoted; of the rejected, those main has go back to *)
(* needs_review and the others are removed.                                *)
settle(tree, ids, yes) ==
    [tree EXCEPT
        !.question = [q \in Questions |->
            IF q \in yes THEN promote(@[q])
            ELSE IF q \in ids
            THEN IF run.upstream.question[q] # None THEN demote(@[q]) ELSE None
            ELSE @[q]],
        !.verdict = @ \cup {<<q, fingerprint(tree.question[q]), q \in yes>> : q \in ids}]

review(decided, yes) ==
    /\ within("review")
    /\ yes \subseteq decided
    /\ \A q \in decided : statusOf(run.tree, q) = "review_ready"
    /\ reconcileDecisions(run.ids, decided)
    /\ LET tree == settle(run.tree, decided, yes)
       IN  /\ guardChanges(run.base, tree, MaxQuestions, FALSE)
           /\ \A q \in Questions : verified(tree, q)
           /\ run' = [run EXCEPT !.phase = "pr", !.tree = tree]
    /\ approved' = approved \cup {<<q, fingerprint(run.tree.question[q])>> : q \in yes}
    /\ UNCHANGED <<live, listed, store, main, week, work>>

(* A job fails, times out or loses its token; a pull request is closed. *)
dies ==
    /\ run # None
    /\ run' = None
    /\ UNCHANGED <<live, listed, store, main, week, approved, work>>

-----------------------------------------------------------------------------
(* git, people and upstream. *)

(* Three-way: what only one side changed is taken; what both changed, and  *)
(* differently, is a conflict.  A file that one side made or deleted is    *)
(* merged whole, any other hunk by hunk: the two sides' changes of one     *)
(* question can be combined into a revision that neither has.              *)
clash(root, ours, theirs) == ours # root /\ theirs # root /\ ours # theirs
pick(root, ours, theirs) == IF theirs # root THEN theirs ELSE ours

conflicts(root, ours, theirs) ==
    IF None \in {root, ours, theirs} THEN clash(root, ours, theirs)
    ELSE \E f \in DOMAIN ours \ {"text"} : clash(root[f], ours[f], theirs[f])

(* A wording has many lines: of one changed on both sides the merge makes  *)
(* any wording.                                                            *)
merged(root, ours, theirs, wording) ==
    IF None \in {root, ours, theirs} THEN pick(root, ours, theirs)
    ELSE [f \in DOMAIN ours |->
             IF f = "text" /\ clash(root[f], ours[f], theirs[f]) THEN wording
             ELSE pick(root[f], ours[f], theirs[f])]

merge(wording) ==
    /\ within("pr")
    /\ LET r == run.root t == run.tree
       IN  /\ \A s \in Sources : ~conflicts(r.source[s], main.source[s], t.source[s])
           /\ \A q \in Questions : ~conflicts(r.question[q], main.question[q], t.question[q])
           /\ \A p \in Pages : ~clash(r.seen[p], main.seen[p], t.seen[p])
           /\ main' = [source |-> [s \in Sources |->
                           merged(r.source[s], main.source[s], t.source[s], None)],
                       manifest |-> main.manifest \cup t.manifest,
                       seen |-> [p \in Pages |-> pick(r.seen[p], main.seen[p], t.seen[p])],
                       question |-> [q \in Questions |->
                           merged(r.question[q], main.question[q], t.question[q], wording[q])],
                       verdict |-> main.verdict \cup t.verdict]
    /\ run' = None
    /\ UNCHANGED <<live, listed, store, week, approved, work>>

(* Another pull request: a question is written, edited or published by     *)
(* hand.  The lint takes a published one only under a review of what it    *)
(* says; of any other the block is as it was, or gone.                     *)
byHand(q, status, m, reviewed) ==
    LET item == [status |-> status, text |-> m.text, cites |-> m.cites, sha256 |-> m.sha256,
                 reviewed |-> IF status = "published" THEN m ELSE reviewed]
        tree == [main EXCEPT !.question[q] = item]
    IN  /\ Spend
        /\ status # "draft" /\ reviewed \in {None, reviewedOf(main, q)}
        /\ main.question[q] # item
        /\ verified(tree, q)
        /\ status = "published" => isEligibleForBundle(tree, q)
        /\ main' = tree
        /\ approved' = IF status = "published" THEN approved \cup {<<q, m>>} ELSE approved
        /\ UNCHANGED <<live, listed, store, run, week>>

(* Another page is recorded by hand. *)
captureByHand(s, p) ==
    /\ Spend
    /\ main.source[s] = None /\ s \notin {r[1] : r \in main.manifest}
    /\ store' = store \cup {<<s, live[p]>>}
    /\ main' = [main EXCEPT !.manifest = @ \cup {<<s, p>>},
                  !.source[s] = [url |-> p, sha256 |-> live[p], status |-> "current"]]
    /\ UNCHANGED <<live, listed, run, week, approved>>

(* The Source drift workflow: its own pull request, merged. *)
driftMerged ==
    /\ main' = [main EXCEPT !.source = markDrifted(@),
                            !.question = quarantine(@, markDrifted(main.source))]
    /\ main' # main
    /\ UNCHANGED <<live, listed, store, run, week, approved, work>>

pageChanges(p, v) ==
    /\ Spend
    /\ live[p] # v
    /\ live' = [live EXCEPT ![p] = v]
    /\ UNCHANGED <<listed, store, main, run, week, approved>>

(* Only a discovery reads the indices: they change between runs. *)
indexChanges(p) ==
    /\ run = None
    /\ Spend
    /\ listed' = IF p \in listed THEN listed \ {p} ELSE listed \cup {p}
    /\ UNCHANGED <<live, store, main, run, week, approved>>

-----------------------------------------------------------------------------
(* One page is recorded and cited, and may have changed since it was       *)
(* captured; the others have been seen before.  Of the questions some are  *)
(* published, some wait for review, and some came back from it rejected.   *)
firstVersion == CHOOSE v \in Versions : \A t \in Texts : v \in HeldBy[t]
ASSUME FirstVersionAssumption == \E v \in Versions : \A t \in Texts : v \in HeldBy[t]

firstItem(s, status) ==
    LET m == [text |-> CHOOSE t \in Texts : TRUE, cites |-> s, sha256 |-> firstVersion]
    IN  [status |-> status, text |-> m.text, cites |-> s, sha256 |-> firstVersion,
         reviewed |-> IF status = "published" THEN m ELSE None]

firstTree(s, p, question) ==
    [source |-> [r \in Sources |->
        IF r = s THEN [url |-> p, sha256 |-> firstVersion, status |-> "current"] ELSE None],
     manifest |-> {<<s, p>>},
     seen |-> [x \in Pages |-> IF x = p THEN None ELSE 0],
     question |-> question,
     verdict |-> {<<q, fingerprint(question[q]), FALSE>> :
        q \in {r \in Questions : question[r] # None /\ question[r].status = "needs_review"}}]

Init ==
    /\ listed = Pages
    /\ \E s \in Sources, p \in Pages :
         /\ \E v \in Versions : live = [x \in Pages |-> IF x = p THEN v ELSE firstVersion]
         /\ store = {<<s, firstVersion>>}
         /\ \E question \in [Questions -> {None} \cup {firstItem(s, status) : status \in Status \ {"draft"}}] :
              main = firstTree(s, p, question)
    /\ run = None
    /\ week = 0
    /\ approved = {<<q, fingerprint(main.question[q])>> :
                     q \in {r \in Questions : statusOf(main, r) = "published"}}
    /\ work = 0

Next ==
    \/ \E down \in SUBSET {Index[p] : p \in Pages}, reached \in SUBSET Sources,
          offered \in SUBSET Pages : discover(down, reached, offered)
    \/ \E select \in SUBSET (Sources \X Pages) : checkout(select)
    \/ \E captured \in SUBSET Sources : capture(captured)
    \/ \E q \in Questions : authorWrites(q, None) \/ (within("author") /\ \E item \in quotations(q) : authorWrites(q, item))
    \/ \E s \in Sources, v \in Versions : authorStrays(s, v)
    \/ gate
    \/ listItems
    \/ \E decided \in SUBSET Questions : \E yes \in SUBSET decided : review(decided, yes)
    \/ dies
    \/ \E wording \in [Questions -> Texts] : merge(wording)
    \/ \E q \in Questions, status \in Status, m \in Revision, reviewed \in Revision \cup {None} :
         byHand(q, status, m, reviewed)
    \/ \E s \in Sources, p \in Pages : captureByHand(s, p)
    \/ driftMerged
    \/ \E p \in Pages, v \in Versions : pageChanges(p, v)
    \/ \E p \in Pages : indexChanges(p)

Spec == Init /\ [][Next]_vars

-----------------------------------------------------------------------------
(* Properties. *)

Phase == {"discovered", "checked", "author", "pushed", "review", "pr"}
Run == [phase : Phase, offered : SUBSET Pages, drifted : SUBSET Sources,
        seen : [Pages -> (0..MaxWeeks) \cup {None}],
        root : Tree \cup {None}, base : Tree \cup {None},
        tree : Tree \cup {None}, upstream : Tree \cup {None},
        rows : SUBSET (Sources \X Pages), ids : SUBSET Questions, dropped : SUBSET Questions]

(* The trees a run has at each phase. *)
TreesOf(r) ==
    /\ r.phase # "discovered" => {r.root, r.tree} \subseteq Tree
    /\ r.phase \in {"author", "pushed", "review", "pr"} => r.base \in Tree
    /\ r.phase = "review" => r.upstream \in Tree

TypeOK ==
    /\ live \in [Pages -> Versions]
    /\ listed \subseteq Pages
    /\ store \subseteq Sources \X Versions
    /\ main \in Tree
    /\ run # None => run \in Run /\ TreesOf(run)
    /\ week \in 0..MaxWeeks /\ work \in 0..MaxWork
    /\ approved \subseteq Questions \X Revision

(* What main ships was approved by the reviewer or by a person in that     *)
(* very revision, whatever the authoring agent wrote on the branch,        *)
(* whatever main did meanwhile and however git combined the two.           *)
PublishedWasRead ==
    \A q \in Questions : isEligibleForBundle(main, q) =>
        <<q, fingerprint(main.question[q])>> \in approved

(* Every record of main pins a snapshot that is in the store, and every    *)
(* row of the manifest has its record: a row without one would hide its    *)
(* page from discovery for good.                                           *)
RecordsAreCaptured ==
    /\ \A s \in recorded(main) : <<s, main.source[s].sha256>> \in store
    /\ \A row \in main.manifest : main.source[row[1]] # None

merging == within("pr") /\ run' = None /\ main' # main

(* A replenishment leaves alone what learners have.  The merge changes a   *)
(* question main ships only when the run had found it withdrawn, and it    *)
(* ships on only if the approval it was shipped under is the one the run   *)
(* began with: one given on main meanwhile is never replaced.              *)
PublishedUntouched ==
    [][merging => \A q \in Questions :
         isEligibleForBundle(main, q) /\ main'.question[q] # main.question[q] =>
            /\ statusOf(run.base, q) # "published"
            /\ isEligibleForBundle(main', q) => reviewedOf(run.root, q) = reviewedOf(main, q)]_vars

(* No gate deletes earlier work: a question main has disappears in a merge *)
(* only if the authoring agent itself removed it.                          *)
WorkKept ==
    [][merging => \A q \in Questions :
         main.question[q] # None /\ main'.question[q] = None => q \in run.dropped]_vars

(* Index outages do not make a page look new: while nothing cites it and   *)
(* its index lists it, its date of first sight does not move.              *)
FirstSeenKept ==
    [][\A p \in Pages :
         main.seen[p] # None /\ p \in listed /\ p \notin knownUrls(main) =>
            main'.seen[p] = main.seen[p] \/ p \in knownUrls(main')]_vars

(* The review job hands the reviewer exactly what this run put up.         *)
ReviewsOwnWork ==
    within("review") => run.ids \subseteq changedQuestionFiles(run.root, run.tree)

-----------------------------------------------------------------------------
(* Why they hold: what every tree of a run owes to the main it started     *)
(* from, and what main may have become meanwhile.                          *)

(* Every review block names a revision that was approved. *)
Approved(tree) ==
    \A q \in Questions : reviewedOf(tree, q) # None =>
        <<q, reviewedOf(tree, q)>> \in approved

Captured(tree) ==
    /\ \A s \in recorded(tree) : <<s, tree.source[s].sha256>> \in store
    /\ \A row \in tree.manifest : tree.source[row[1]] # None

(* No record and no question of one tree is missing from the other. *)
Keeps(tree, other) ==
    /\ recorded(tree) \subseteq recorded(other)
    /\ \A q \in Questions : tree.question[q] # None => other.question[q] # None

(* What the preparation made of main: nothing newly published or reviewed, *)
(* nothing lost, every record captured.                                    *)
Prepared(tree) ==
    /\ Captured(tree) /\ Keeps(run.root, tree) /\ tree.seen = run.seen
    /\ \A q \in Questions :
          /\ statusOf(tree, q) = "published" => tree.question[q] = run.root.question[q]
          /\ reviewedOf(tree, q) \in {None, reviewedOf(run.root, q)}

(* The branch may lose what the author dropped.                            *)
DroppedKnown ==
    \A q \in Questions : run.root.question[q] # None /\ run.tree.question[q] = None => q \in run.dropped

(* What the gates let through.                                             *)
Gated ==
    /\ ~boundaryProblems(run.base, run.tree)
    /\ \A q \in Questions : statusOf(run.base, q) = "published" =>
          run.tree.question[q] = run.base.question[q]

RunInv ==
    run # None =>
        /\ \A p \in listed : main.seen[p] # None /\ p \notin knownUrls(main) => run.seen[p] = main.seen[p]
        /\ run.phase # "discovered" =>
               Approved(run.root) /\ Approved(run.tree) /\ Keeps(run.root, main) /\ run.tree.seen = run.seen
        /\ run.phase = "checked" => Prepared(run.tree)
        /\ run.phase \in {"author", "pushed", "review", "pr"} => Prepared(run.base) /\ DroppedKnown
        /\ run.phase \in {"pushed", "review", "pr"} => Gated
        /\ run.phase = "review" => Keeps(run.root, run.upstream)

=============================================================================
