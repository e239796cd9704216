------------------------- MODULE ReplenishmentProofs -------------------------
(* Proofs about Replenishment: what each operator does to a tree, then     *)
(* every action, then what main may become.                                *)
EXTENDS Replenishment, TLAPS

-----------------------------------------------------------------------------
(* Operators. *)

Records == [Sources -> Record \cup {None}]
Items == [Questions -> Item \cup {None}]

LEMMA Fingerprints ==
  ASSUME NEW i \in Item
  PROVE  fingerprint(i) \in Revision
BY DEF fingerprint, Revision, Item

(* Only the status of a record changes, and none is lost. *)
LEMMA MarkedDrifted ==
  ASSUME NEW source \in Records, live \in [Pages -> Versions]
  PROVE  /\ markDrifted(source) \in Records
         /\ \A s \in Sources :
              /\ source[s] = None <=> markDrifted(source)[s] = None
              /\ source[s] # None =>
                    /\ markDrifted(source)[s].sha256 = source[s].sha256
                    /\ markDrifted(source)[s].url = source[s].url
<1>1. ASSUME NEW s \in Sources
      PROVE  /\ markDrifted(source)[s] \in Record \cup {None}
             /\ source[s] = None <=> markDrifted(source)[s] = None
             /\ source[s] # None =>
                    /\ markDrifted(source)[s].sha256 = source[s].sha256
                    /\ markDrifted(source)[s].url = source[s].url
  <2>1. CASE source[s] = None
    BY <2>1 DEF markDrifted
  <2>2. CASE source[s] # None
    <3> DEFINE d == [source[s] EXCEPT !.status = "drifted"]
    <3>1. source[s] \in Record
      BY <2>2 DEF Records
    <3>2. d \in Record /\ d.sha256 = source[s].sha256 /\ d.url = source[s].url
      BY <3>1 DEF Record
    <3>3. markDrifted(source)[s] \in {d, source[s]}
      BY DEF markDrifted
    <3> HIDE DEF d
    <3> QED
      BY <2>2, <3>1, <3>2, <3>3, NoneAssumption
  <2> QED
    BY <2>1, <2>2
<1>2. markDrifted(source) = [s \in Sources |-> markDrifted(source)[s]]
  BY DEF markDrifted
<1>3. markDrifted(source) \in Records
  BY <1>1, <1>2 DEF Records
<1> QED
  BY <1>1, <1>3

(* A question is as it was, or has lost its publication. *)
LEMMA Quarantined ==
  ASSUME NEW question \in Items, NEW source
  PROVE  /\ quarantine(question, source) \in Items
         /\ \A q \in Questions :
              LET i == quarantine(question, source)[q]
              IN  \/ i = question[q]
                  \/ question[q] # None /\ i \in Item /\ i.status = "needs_review"
                     /\ i.reviewed = question[q].reviewed
<1>1. ASSUME NEW q \in Questions
      PROVE  LET i == quarantine(question, source)[q]
             IN  \/ i = question[q]
                 \/ question[q] # None /\ i \in Item /\ i.status = "needs_review"
                    /\ i.reviewed = question[q].reviewed
  <2> DEFINE n == [question[q] EXCEPT !.status = "needs_review"]
  <2>1. question[q] # None => n \in Item /\ n.status = "needs_review" /\ n.reviewed = question[q].reviewed
    BY DEF Items, Item, Status
  <2>2. \/ quarantine(question, source)[q] = question[q]
        \/ question[q] # None /\ quarantine(question, source)[q] = n
    BY DEF quarantine
  <2> HIDE DEF n
  <2> QED
    BY <2>1, <2>2
<1>2. quarantine(question, source) = [q \in Questions |-> quarantine(question, source)[q]]
  BY DEF quarantine
<1>3. quarantine(question, source) \in Items
  BY <1>1, <1>2 DEF Items
<1> QED
  BY <1>1, <1>3

(* Revalidation touches only the questions ids, which go back to review    *)
(* without their review block.                                             *)
LEMMA Revalidated ==
  ASSUME NEW question \in Items, NEW source, NEW ids,
         \A q \in ids : question[q] \in Item /\ source[question[q].cites] \in Record
  PROVE  /\ revalidate(question, source, ids) \in Items
         /\ \A q \in Questions :
              LET i == revalidate(question, source, ids)[q]
              IN  \/ i = question[q]
                  \/ question[q] # None /\ i \in Item /\ i.status = "review_ready" /\ i.reviewed = None
<1>1. ASSUME NEW q \in Questions
      PROVE  LET i == revalidate(question, source, ids)[q]
             IN  \/ i = question[q]
                 \/ question[q] # None /\ i \in Item /\ i.status = "review_ready" /\ i.reviewed = None
  <2> DEFINE v == source[question[q].cites].sha256
             n == [question[q] EXCEPT !.status = "review_ready", !.reviewed = None, !.sha256 = v]
  <2>1. ASSUME q \in ids
        PROVE  n \in Item /\ n.status = "review_ready" /\ n.reviewed = None /\ question[q] # None
    <3>1. question[q] \in Item /\ v \in Versions
      BY <2>1 DEF Record
    <3> HIDE DEF v
    <3> QED
      BY <3>1, NoneAssumption DEF Item, Status
  <2>2. \/ revalidate(question, source, ids)[q] = question[q]
        \/ q \in ids /\ revalidate(question, source, ids)[q] = n
    BY DEF revalidate
  <2> HIDE DEF n
  <2> QED
    BY <2>1, <2>2
<1>2. revalidate(question, source, ids) = [q \in Questions |-> revalidate(question, source, ids)[q]]
  BY DEF revalidate
<1>3. revalidate(question, source, ids) \in Items
  BY <1>1, <1>2 DEF Items
<1> QED
  BY <1>1, <1>3

(* The trees that differ from a tree in one part. *)
LEMMA TreeParts ==
  ASSUME NEW tree \in Tree
  PROVE  /\ tree.source \in Records /\ tree.question \in Items
         /\ tree.manifest \in SUBSET (Sources \X Pages)
         /\ tree.seen \in [Pages -> (0..MaxWeeks) \cup {None}]
         /\ tree.verdict \in SUBSET (Questions \X Revision \X BOOLEAN)
BY DEF Tree, Records, Items

-----------------------------------------------------------------------------
(* The inductive invariant. *)

BankInv == TypeOK /\ Approved(main) /\ Captured(main) /\ RunInv

(* A step that leaves the run alone, whatever becomes of main. *)
LEMMA MainMoves ==
  ASSUME BankInv, run' = run, TypeOK', Approved(main)', Captured(main)',
         store \subseteq store', approved \subseteq approved',
         Keeps(main, main'), main'.seen = main.seen, knownUrls(main) \subseteq knownUrls(main'),
         run # None => listed' = listed
  PROVE  BankInv'
<1> SUFFICES ASSUME run # None PROVE RunInv'
  BY DEF BankInv, RunInv
<1>1. RunInv
  BY DEF BankInv
<1>2. \A p \in listed' : main'.seen[p] # None /\ p \notin knownUrls(main') =>
                          run'.seen[p] = main'.seen[p]
  BY <1>1 DEF RunInv
<1>3. run.phase # "discovered" =>
         Approved(run.root)' /\ Approved(run.tree)' /\ Keeps(run.root, main') /\ run.tree.seen = run.seen
  BY <1>1 DEF RunInv, Approved, Keeps
<1>4. ASSUME NEW t PROVE Prepared(t) => Prepared(t)'
  BY DEF Prepared, Captured
<1>5. (run.phase = "checked" => Prepared(run.tree)')
      /\ (run.phase \in {"author", "pushed", "review", "pr"} => Prepared(run.base)' /\ DroppedKnown')
  BY <1>1, <1>4 DEF RunInv, DroppedKnown
<1>6. run.phase \in {"pushed", "review", "pr"} => Gated'
  BY <1>1 DEF RunInv, Gated
<1>7. run.phase = "review" => Keeps(run.root, run.upstream)
  BY <1>1 DEF RunInv
<1> QED
  BY <1>2, <1>3, <1>5, <1>6, <1>7 DEF RunInv

LEMMA DiscoverStep ==
  ASSUME BankInv, NEW down \in SUBSET {Index[p] : p \in Pages}, NEW reached \in SUBSET Sources,
         NEW offered \in SUBSET Pages, discover(down, reached, offered)
  PROVE  BankInv'
<1> DEFINE pages == {p \in listed : Index[p] \notin down}
<1>1. UNCHANGED <<live, listed, store, main, approved, work>> /\ week' \in 0 .. MaxWeeks
      /\ week \in 0 .. MaxWeeks
  BY ReplenishAssumption DEF discover, BankInv, TypeOK
<1>2. run' = [phase |-> "discovered", offered |-> offered,
              drifted |-> drifted(reached), seen |-> nextState(pages, down),
              root |-> None, base |-> None, tree |-> None, upstream |-> None,
              rows |-> {}, ids |-> {}, dropped |-> {}]
  BY DEF discover
<1>3. main.seen \in [Pages -> (0..MaxWeeks) \cup {None}]
  BY TreeParts DEF BankInv, TypeOK
<1>4. nextState(pages, down) \in [Pages -> (0..MaxWeeks) \cup {None}]
  BY <1>1, <1>3 DEF nextState
<1>5. drifted(reached) \subseteq Sources
  BY DEF drifted, recorded
<1>6. run' \in Run /\ TreesOf(run')
  BY <1>2, <1>4, <1>5 DEF Run, Phase, TreesOf
<1>7. ASSUME NEW p \in listed, main.seen[p] # None, p \notin knownUrls(main)
      PROVE  nextState(pages, down)[p] = main.seen[p]
  BY <1>7 DEF nextState, newPages, BankInv, TypeOK
<1>8. TypeOK'
  BY <1>1, <1>6 DEF BankInv, TypeOK
<1>9. RunInv'
  BY <1>1, <1>2, <1>7 DEF RunInv
<1> QED
  BY <1>1, <1>8, <1>9 DEF BankInv, Approved, Captured

(* What a step of the run on the trees has to show. *)
LEMMA RunMoves ==
  ASSUME BankInv, run # None, run'.phase # "discovered",
         UNCHANGED <<live, listed, main, week, work>>,
         store \subseteq store', store' \subseteq Sources \X Versions,
         approved \subseteq approved', approved' \subseteq Questions \X Revision,
         run' \in Run, TreesOf(run'), run'.seen = run.seen, run'.tree.seen = run.seen,
         Approved(run.tree)',
         \/ run'.root = run.root /\ run.phase # "discovered"
         \/ run'.root = main,
         run'.phase = "checked" => Prepared(run.tree)',
         run'.phase \in {"author", "pushed", "review", "pr"} => Prepared(run.base)' /\ DroppedKnown',
         run'.phase \in {"pushed", "review", "pr"} => Gated',
         run'.phase = "review" => Keeps(run.root, run.upstream)'
  PROVE  BankInv'
<1>1. TypeOK'
  BY DEF BankInv, TypeOK
<1>2. Approved(main)' /\ Captured(main)'
  BY DEF BankInv, Approved, Captured
<1>3. Keeps(main, main)
  BY DEF Keeps
<1>4. Approved(run.root)'
  BY DEF BankInv, RunInv, Approved
<1>5. Keeps(run.root, main)'
  BY <1>3 DEF BankInv, RunInv
<1>6. \A p \in listed' : main'.seen[p] # None /\ p \notin knownUrls(main') =>
                          run'.seen[p] = main'.seen[p]
  BY DEF BankInv, RunInv
<1>7. RunInv'
  BY <1>4, <1>5, <1>6 DEF RunInv
<1> QED
  BY <1>1, <1>2, <1>7 DEF BankInv

LEMMA CheckoutStep ==
  ASSUME BankInv, NEW select \in SUBSET (Sources \X Pages), checkout(select)
  PROVE  BankInv'
<1> DEFINE source == markDrifted(main.source)
           question == quarantine(main.question, source)
           tree == [main EXCEPT !.source = source, !.seen = run.seen, !.question = question]
<1>1. main \in Tree /\ run \in Run /\ run # None /\ live \in [Pages -> Versions]
      /\ store \subseteq Sources \X Versions /\ approved \subseteq Questions \X Revision
  BY DEF checkout, within, BankInv, TypeOK
<1>2. source \in Records
      /\ \A s \in Sources : /\ main.source[s] = None <=> source[s] = None
                            /\ main.source[s] # None => source[s].sha256 = main.source[s].sha256
  BY <1>1, MarkedDrifted, TreeParts
<1>3. question \in Items
      /\ \A q \in Questions : \/ question[q] = main.question[q]
                              \/ main.question[q] # None /\ question[q] \in Item
                                 /\ question[q].status = "needs_review"
                                 /\ question[q].reviewed = main.question[q].reviewed
  BY <1>1, Quarantined, TreeParts
<1>4. run' = [run EXCEPT !.phase = "checked", !.root = main, !.tree = tree, !.offered = {},
                         !.rows = validateSelection(select, run.offered, main)]
      /\ UNCHANGED <<live, listed, store, main, week, approved, work>>
  BY DEF checkout
<1> HIDE DEF source, question
<1>5. tree \in Tree /\ tree.source = source /\ tree.question = question /\ tree.seen = run.seen
      /\ tree.manifest = main.manifest
  BY <1>1, <1>2, <1>3 DEF Tree, Records, Items, Run
<1> HIDE DEF tree
<1>6. validateSelection(select, run.offered, main) \subseteq Sources \X Pages
  BY DEF validateSelection
<1>7. run' \in Run /\ TreesOf(run') /\ run'.phase = "checked" /\ run'.root = main /\ run'.tree = tree
      /\ run'.seen = run.seen
  BY <1>1, <1>4, <1>5, <1>6 DEF Run, Phase, TreesOf
<1>8. Captured(tree)
  BY <1>2, <1>5, TreeParts, <1>1 DEF BankInv, Captured, recorded
<1>9. Keeps(main, tree)
  BY <1>2, <1>3, <1>5, NoneAssumption DEF Keeps, recorded
<1>10. \A q \in Questions :
          /\ statusOf(tree, q) = "published" => tree.question[q] = main.question[q]
          /\ reviewedOf(tree, q) = reviewedOf(main, q)
  BY <1>3, <1>5, NoneAssumption DEF statusOf, reviewedOf
<1>11. Prepared(run.tree)'
  BY <1>4, <1>5, <1>7, <1>8, <1>9, <1>10 DEF Prepared, Captured
<1>12. Approved(run.tree)'
  BY <1>4, <1>7, <1>10 DEF Approved, BankInv
<1> QED
  BY <1>1, <1>4, <1>5, <1>7, <1>11, <1>12, RunMoves

LEMMA CaptureStep ==
  ASSUME BankInv, NEW captured \in SUBSET Sources, capture(captured)
  PROVE  BankInv'
<1> DEFINE again == run.drifted \cap recorded(run.tree)
           url == [s \in Sources |->
                      IF \E row \in run.rows : row[1] = s
                      THEN (CHOOSE row \in run.rows : row[1] = s)[2]
                      ELSE IF s \in again THEN run.tree.source[s].url ELSE None]
           source == [s \in Sources |->
                         IF s \in captured
                         THEN [url |-> url[s], sha256 |-> live[url[s]], status |-> "current"]
                         ELSE run.tree.source[s]]
           ids == revalidationIds(run.tree, captured)
           question == revalidate(run.tree.question, source, ids)
           manifest == run.tree.manifest \cup appendManifestRows(run.rows, captured)
           tree == [run.tree EXCEPT !.source = source, !.manifest = manifest, !.question = question]
           pinned == {<<s, live[url[s]]>> : s \in captured}
<1>1. /\ run # None /\ run \in Run /\ run.phase = "checked" /\ run.tree \in Tree /\ run.root \in Tree
      /\ live \in [Pages -> Versions] /\ Prepared(run.tree) /\ Approved(run.tree)
      /\ store \subseteq Sources \X Versions /\ approved \subseteq Questions \X Revision
  BY DEF capture, within, BankInv, TypeOK, TreesOf, RunInv
<1>2. /\ \A s \in captured : url[s] # None
      /\ store' = store \cup pinned
      /\ run' = [run EXCEPT !.phase = "author", !.tree = tree, !.base = tree,
                             !.rows = {}, !.drifted = {}]
      /\ UNCHANGED <<live, listed, main, week, approved, work>>
  BY DEF capture
<1>3. ASSUME NEW s \in captured PROVE url[s] \in Pages /\ live[url[s]] \in Versions
  <2>1. CASE \E row \in run.rows : row[1] = s
    <3>1. (CHOOSE row \in run.rows : row[1] = s) \in run.rows
      BY <2>1
    <3>2. url[s] \in Pages
      BY <1>1, <2>1, <3>1 DEF Run
    <3> QED
      BY <1>1, <3>2
  <2>2. CASE ~ \E row \in run.rows : row[1] = s
    <3>1. url[s] = run.tree.source[s].url /\ s \in recorded(run.tree)
      BY <1>2, <2>2
    <3>2. run.tree.source[s] \in Record
      BY <1>1, <3>1, TreeParts DEF recorded, Records
    <3> QED
      BY <1>1, <3>1, <3>2 DEF Record
  <2> QED
    BY <2>1, <2>2
<1> HIDE DEF url
<1>4. /\ source \in Records
      /\ \A s \in captured : source[s] \in Record /\ source[s] # None /\ <<s, source[s].sha256>> \in pinned
      /\ \A s \in Sources \ captured : source[s] = run.tree.source[s]
  <2>1. ASSUME NEW s \in captured PROVE source[s] \in Record /\ <<s, source[s].sha256>> \in pinned
    BY <1>3, <2>1 DEF Record
  <2>2. ASSUME NEW s \in Sources PROVE source[s] \in Record \cup {None}
    BY <1>1, <2>1, TreeParts DEF Records
  <2>3. \A s \in Sources \ captured : source[s] = run.tree.source[s]
    OBVIOUS
  <2>4. source = [s \in Sources |-> source[s]]
    OBVIOUS
  <2> HIDE DEF source, pinned
  <2> QED
    BY <2>1, <2>2, <2>3, <2>4, NoneAssumption DEF Records
<1>5. pinned \subseteq Sources \X Versions
  BY <1>3
<1> HIDE DEF source, pinned
<1>6. question \in Items
      /\ \A q \in Questions : \/ question[q] = run.tree.question[q]
                              \/ run.tree.question[q] # None /\ question[q] \in Item
                                 /\ question[q].status = "review_ready" /\ question[q].reviewed = None
  <2>1. \A q \in ids : run.tree.question[q] \in Item /\ source[run.tree.question[q].cites] \in Record
    BY <1>1, <1>4, TreeParts DEF revalidationIds, Items
  <2>2. run.tree.question \in Items
    BY <1>1, TreeParts
  <2> HIDE DEF ids
  <2> QED
    BY <2>1, <2>2, Revalidated
<1>7. manifest \subseteq Sources \X Pages
      /\ \A row \in manifest : row \in run.tree.manifest \/ row[1] \in captured
  BY <1>1, TreeParts DEF appendManifestRows, Run
<1> HIDE DEF question, manifest
<1>8. tree \in Tree /\ tree.source = source /\ tree.question = question
      /\ tree.manifest = manifest /\ tree.seen = run.tree.seen
  BY <1>1, <1>4, <1>6, <1>7 DEF Tree, Records, Items
<1> HIDE DEF tree
<1>9. run' \in Run /\ TreesOf(run') /\ run'.phase = "author" /\ run'.root = run.root /\ run'.tree = tree
      /\ run'.base = tree /\ run'.seen = run.seen
  BY <1>1, <1>2, <1>8 DEF Run, Phase, TreesOf
<1>10. PICK t : t = tree
  OBVIOUS
<1>11. Captured(t)'
  <2>1. ASSUME NEW s \in recorded(tree) PROVE <<s, tree.source[s].sha256>> \in store'
    <3>1. CASE s \in captured
      BY <1>2, <1>4, <1>8, <3>1
    <3>2. CASE s \notin captured
      BY <1>1, <1>2, <1>4, <1>8, <3>2 DEF recorded, Prepared, Captured
    <3> QED
      BY <3>1, <3>2
  <2>2. ASSUME NEW row \in tree.manifest PROVE tree.source[row[1]] # None
    <3>1. row[1] \in Sources
      BY <1>7, <1>8
    <3> QED
      BY <1>1, <1>4, <1>7, <1>8, <3>1 DEF Prepared, Captured
  <2> QED
    BY <1>10, <2>1, <2>2 DEF Captured
<1>12. Keeps(run.root, tree)
  <2>1. recorded(run.tree) \subseteq recorded(tree)
    BY <1>4, <1>8 DEF recorded
  <2>2. \A q \in Questions : run.tree.question[q] # None => tree.question[q] # None
    BY <1>6, <1>8, NoneAssumption
  <2> QED
    BY <1>1, <2>1, <2>2 DEF Prepared, Keeps
<1>17. \A q \in Questions : reviewedOf(tree, q) \in {None, reviewedOf(run.tree, q)}
  BY <1>6, <1>8 DEF reviewedOf
<1>13. \A q \in Questions :
          /\ statusOf(tree, q) = "published" => tree.question[q] = run.root.question[q]
          /\ reviewedOf(tree, q) \in {None, reviewedOf(run.root, q)}
  <2>1. ASSUME NEW q \in Questions, statusOf(tree, q) = "published"
        PROVE  tree.question[q] = run.tree.question[q] /\ statusOf(run.tree, q) = "published"
    BY <1>6, <1>8, <2>1, NoneAssumption DEF statusOf
  <2> QED
    BY <1>1, <1>17, <2>1 DEF Prepared
<1>14. Prepared(run.base)'
  BY <1>1, <1>8, <1>9, <1>10, <1>11, <1>12, <1>13 DEF Prepared
<1>15. DroppedKnown'
  BY <1>9, <1>12 DEF DroppedKnown, Keeps
<1>16. run'.tree.seen = run.seen
  BY <1>1, <1>8, <1>9 DEF Prepared
<1>18. Approved(run.tree)'
  BY <1>1, <1>2, <1>9, <1>17 DEF Approved
<1> QED
  BY <1>1, <1>2, <1>5, <1>9, <1>14, <1>15, <1>16, <1>18, RunMoves

(* What the author's phase keeps, if the step touches the tree alone.      *)
LEMMA AuthorMoves ==
  ASSUME BankInv, within("author"), NEW tree \in Tree, NEW dropped \in SUBSET Questions,
         run' = [run EXCEPT !.tree = tree, !.dropped = dropped],
         UNCHANGED <<live, listed, store, main, week, approved, work>>,
         tree.seen = run.tree.seen, Approved(tree),
         \A q \in Questions : run.root.question[q] # None /\ tree.question[q] = None => q \in dropped
  PROVE  BankInv'
<1>1. /\ run # None /\ run \in Run /\ run.phase = "author" /\ run.root \in Tree /\ run.base \in Tree
      /\ Prepared(run.base) /\ run.tree.seen = run.seen
      /\ store \subseteq Sources \X Versions /\ approved \subseteq Questions \X Revision
  BY DEF within, BankInv, TypeOK, TreesOf, RunInv
<1>2. run' \in Run /\ TreesOf(run') /\ run'.phase = "author" /\ run'.root = run.root /\ run'.tree = tree
      /\ run'.base = run.base /\ run'.seen = run.seen /\ run'.dropped = dropped
  BY <1>1 DEF Run, Phase, TreesOf
<1>3. Prepared(run.base)'
  BY <1>1, <1>2 DEF Prepared, Captured
<1>4. DroppedKnown'
  BY <1>2 DEF DroppedKnown
<1>5. Approved(run.tree)'
  BY <1>2 DEF Approved
<1> QED
  BY <1>1, <1>2, <1>3, <1>4, <1>5, RunMoves

LEMMA AuthorWritesStep ==
  ASSUME BankInv, NEW q \in Questions, NEW item, authorWrites(q, item),
         item = None \/ (item \in Item /\ item.reviewed \in {None, reviewedOf(run.base, q)})
  PROVE  BankInv'
<1> DEFINE tree == [run.tree EXCEPT !.question[q] = item]
           dropped == IF item = None THEN run.dropped \cup {q} ELSE run.dropped \ {q}
<1>1. run.tree \in Tree /\ run \in Run /\ within("author") /\ DroppedKnown
      /\ Approved(run.tree) /\ Approved(run.root) /\ Prepared(run.base)
  BY DEF authorWrites, within, BankInv, TypeOK, TreesOf, RunInv
<1>2. run' = [run EXCEPT !.tree = tree, !.dropped = dropped]
      /\ UNCHANGED <<live, listed, store, main, week, approved, work>>
  BY <1>1 DEF authorWrites, Run
<1>3. tree \in Tree /\ tree.seen = run.tree.seen
      /\ tree.question = [run.tree.question EXCEPT ![q] = item]
  BY <1>1 DEF Tree
<1>4. dropped \in SUBSET Questions
  BY <1>1 DEF Run
<1>5. ASSUME NEW x \in Questions, run.root.question[x] # None, tree.question[x] = None
      PROVE  x \in dropped
  BY <1>1, <1>3, <1>5, TreeParts DEF DroppedKnown, Items
<1> HIDE DEF tree, dropped
<1>6. Approved(tree)
  <2>1. ASSUME NEW x \in Questions, reviewedOf(tree, x) # None
        PROVE  <<x, reviewedOf(tree, x)>> \in approved
    <3>1. CASE x = q
      <4>1. tree.question[q] = item
        BY <1>1, <1>3, TreeParts DEF Items
      <4>2. reviewedOf(tree, q) \in {None, reviewedOf(run.base, q)}
        BY <4>1 DEF reviewedOf
      <4> QED
        BY <1>1, <2>1, <3>1, <4>2 DEF Prepared, Approved
    <3>2. CASE x # q
      <4>1. tree.question[x] = run.tree.question[x]
        BY <1>1, <1>3, <3>2, TreeParts DEF Items
      <4> QED
        BY <1>1, <2>1, <4>1 DEF Approved, reviewedOf
    <3> QED
      BY <3>1, <3>2
  <2> QED
    BY <2>1 DEF Approved
<1> QED
  BY <1>1, <1>2, <1>3, <1>4, <1>5, <1>6, AuthorMoves

LEMMA AuthorStraysStep ==
  ASSUME BankInv, NEW s \in Sources, NEW v \in Versions, authorStrays(s, v)
  PROVE  BankInv'
<1> DEFINE record == [run.tree.source[s] EXCEPT !.sha256 = v, !.status = "current"]
           tree == [run.tree EXCEPT !.source[s] = record]
<1>1. run.tree \in Tree /\ run \in Run /\ within("author") /\ DroppedKnown /\ run.tree.source[s] # None
      /\ Approved(run.tree)
  BY DEF authorStrays, within, BankInv, TypeOK, TreesOf, RunInv
<1>2. run' = [run EXCEPT !.tree = tree, !.dropped = run.dropped]
      /\ UNCHANGED <<live, listed, store, main, week, approved, work>>
  BY <1>1 DEF authorStrays, Run
<1>3. tree \in Tree /\ tree.seen = run.tree.seen /\ tree.question = run.tree.question
  <2>1. run.tree.source[s] \in Record /\ run.tree.source \in Records
    BY <1>1, TreeParts DEF Records
  <2>2. record \in Record
    BY <2>1 DEF Record
  <2> HIDE DEF record
  <2>3. [run.tree.source EXCEPT ![s] = record] \in Records
    BY <2>1, <2>2 DEF Records
  <2> QED
    BY <1>1, <2>3 DEF Tree, Records
<1>4. run.dropped \in SUBSET Questions
  BY <1>1 DEF Run
<1>5. ASSUME NEW x \in Questions, run.root.question[x] # None, tree.question[x] = None
      PROVE  x \in run.dropped
  BY <1>1, <1>3, <1>5 DEF DroppedKnown
<1> HIDE DEF tree
<1>6. Approved(tree)
  BY <1>1, <1>3 DEF Approved, reviewedOf
<1> QED
  BY <1>1, <1>2, <1>3, <1>4, <1>5, <1>6, AuthorMoves

(* The gate lets through what the author did not publish and may change.   *)
LEMMA GateStep ==
  ASSUME BankInv, gate
  PROVE  BankInv'
<1> DEFINE ids == unverifiedNewItems(run.base, run.tree)
           question == [q \in Questions |-> IF q \in ids THEN None ELSE run.tree.question[q]]
           tree == setAside(run.tree, ids)
<1>1. /\ run # None /\ run \in Run /\ run.phase = "author" /\ run.tree \in Tree /\ run.root \in Tree
      /\ run.base \in Tree /\ Prepared(run.base) /\ DroppedKnown /\ Approved(run.tree)
      /\ run.tree.seen = run.seen
      /\ store \subseteq Sources \X Versions /\ approved \subseteq Questions \X Revision
  BY DEF gate, within, BankInv, TypeOK, TreesOf, RunInv
<1>2. /\ ~boundaryProblems(run.base, run.tree)
      /\ guardChanges(run.base, run.tree, MaxQuestions, TRUE)
      /\ UNCHANGED <<live, listed, store, main, week, approved, work>>
      /\ \/ run' = None
         \/ run' = [run EXCEPT !.phase = "pushed", !.tree = tree]
  BY DEF gate
<1>3. ASSUME run' = None PROVE BankInv'
  BY <1>2, <1>3 DEF BankInv, TypeOK, Approved, Captured, RunInv
<1>4. /\ question \in Items
      /\ \A q \in Questions : question[q] \in {run.tree.question[q], None}
      /\ \A q \in Questions : run.base.question[q] # None => question[q] = run.tree.question[q]
  BY <1>1, TreeParts DEF Items, unverifiedNewItems
<1>5. tree = [run.tree EXCEPT !.question = question]
  BY DEF setAside
<1> HIDE DEF question, tree, ids
<1>6. tree \in Tree /\ tree.question = question /\ tree.source = run.tree.source
      /\ tree.manifest = run.tree.manifest /\ tree.seen = run.tree.seen
  BY <1>1, <1>4, <1>5 DEF Tree, Items
<1>7. ASSUME NEW q \in Questions, statusOf(run.base, q) = "published"
      PROVE  question[q] = run.base.question[q]
  <2>1. run.tree.question[q] = run.base.question[q]
    BY <1>2, <1>7 DEF guardChanges, changedQuestionFiles
  <2>2. run.base.question[q] # None
    BY <1>7, NoneAssumption DEF statusOf, Status
  <2> QED
    BY <1>4, <2>1, <2>2
<1>8. ASSUME run' = [run EXCEPT !.phase = "pushed", !.tree = tree]
      PROVE  BankInv'
  <2>1. run' \in Run /\ TreesOf(run') /\ run'.phase = "pushed" /\ run'.root = run.root /\ run'.tree = tree
        /\ run'.base = run.base /\ run'.seen = run.seen /\ run'.dropped = run.dropped
    BY <1>1, <1>6, <1>8 DEF Run, Phase, TreesOf
  <2>2. Prepared(run.base)'
    BY <1>1, <1>2, <2>1 DEF Prepared, Captured
  <2>3. DroppedKnown'
    BY <1>1, <1>4, <1>6, <2>1 DEF DroppedKnown, Prepared, Keeps
  <2>4. Approved(run.tree)'
    BY <1>1, <1>2, <1>4, <1>6, <2>1 DEF Approved, reviewedOf
  <2>5. Gated'
    BY <1>2, <1>6, <1>7, <2>1 DEF Gated, boundaryProblems
  <2> QED
    BY <1>1, <1>2, <1>6, <2>1, <2>2, <2>3, <2>4, <2>5, RunMoves
<1> QED
  BY <1>2, <1>3, <1>8

LEMMA ListItemsStep ==
  ASSUME BankInv, listItems
  PROVE  BankInv'
<1>1. /\ run # None /\ run \in Run /\ run.phase = "pushed" /\ {run.tree, run.root, run.base, main} \subseteq Tree
      /\ Prepared(run.base) /\ DroppedKnown /\ Gated /\ Keeps(run.root, main) /\ Approved(run.tree)
      /\ run.tree.seen = run.seen
      /\ store \subseteq Sources \X Versions /\ approved \subseteq Questions \X Revision
  BY DEF listItems, within, BankInv, TypeOK, TreesOf, RunInv
<1>2. run' = [run EXCEPT !.phase = "review", !.upstream = main, !.ids = reviewIds(main, run.tree)]
      /\ UNCHANGED <<live, listed, store, main, week, approved, work>>
  BY DEF listItems
<1>3. reviewIds(main, run.tree) \subseteq Questions
  BY DEF reviewIds, changedQuestionFiles
<1>4. run' \in Run /\ TreesOf(run') /\ run'.phase = "review" /\ run'.root = run.root /\ run'.tree = run.tree
      /\ run'.base = run.base /\ run'.seen = run.seen /\ run'.dropped = run.dropped /\ run'.upstream = main
  BY <1>1, <1>2, <1>3 DEF Run, Phase, TreesOf
<1>5. Prepared(run.base)' /\ DroppedKnown' /\ Gated' /\ Approved(run.tree)'
  BY <1>1, <1>2, <1>4 DEF Prepared, Captured, DroppedKnown, Gated, Approved
<1>6. Keeps(run.root, run.upstream)'
  BY <1>1, <1>4
<1> QED
  BY <1>1, <1>2, <1>4, <1>5, <1>6, RunMoves

(* What the decisions make of the items under review. *)
LEMMA Settled ==
  ASSUME NEW tree \in Tree, NEW ids \in SUBSET Questions, NEW yes \in SUBSET ids,
         \A q \in ids : statusOf(tree, q) = "review_ready"
  PROVE  LET t == settle(tree, ids, yes)
         IN  /\ t \in Tree /\ t.source = tree.source /\ t.manifest = tree.manifest /\ t.seen = tree.seen
             /\ \A q \in yes : /\ t.question[q] # None
                               /\ t.question[q].reviewed = fingerprint(tree.question[q])
             /\ \A q \in Questions \ yes :
                   \/ t.question[q] = tree.question[q]
                   \/ t.question[q] = None /\ run.upstream.question[q] = None
                   \/ t.question[q] # None /\ t.question[q].reviewed = None
<1> DEFINE question == [q \in Questions |->
                          IF q \in yes THEN promote(tree.question[q])
                          ELSE IF q \in ids
                          THEN IF run.upstream.question[q] # None THEN demote(tree.question[q]) ELSE None
                          ELSE tree.question[q]]
           verdict == tree.verdict \cup {<<q, fingerprint(tree.question[q]), q \in yes>> : q \in ids}
           t == settle(tree, ids, yes)
<1>1. ASSUME NEW q \in ids PROVE tree.question[q] \in Item
  BY TreeParts, NoneAssumption DEF statusOf, Items, Status
<1>2. verdict \in SUBSET (Questions \X Revision \X BOOLEAN)
  <2>1. ASSUME NEW q \in ids PROVE fingerprint(tree.question[q]) \in Revision
    BY <1>1, Fingerprints
  <2>2. ASSUME NEW q \in ids, NEW b \in BOOLEAN
        PROVE  <<q, fingerprint(tree.question[q]), b>> \in Questions \X Revision \X BOOLEAN
    BY <2>1
  <2>3. ASSUME NEW q \in ids PROVE (q \in yes) \in BOOLEAN
    OBVIOUS
  <2>4. ASSUME NEW q \in ids
        PROVE  <<q, fingerprint(tree.question[q]), q \in yes>> \in Questions \X Revision \X BOOLEAN
    BY <2>2, <2>3, Zenon
  <2>5. {<<q, fingerprint(tree.question[q]), q \in yes>> : q \in ids}
          \subseteq Questions \X Revision \X BOOLEAN
    BY <2>4, Zenon
  <2> QED
    BY <2>5, TreeParts, Zenon
<1>3. ASSUME NEW q \in yes
      PROVE  question[q] \in Item /\ question[q] # None
             /\ question[q].reviewed = fingerprint(tree.question[q])
  <2>1. tree.question[q] \in Item /\ fingerprint(tree.question[q]) \in Revision
    BY <1>1, Fingerprints
  <2>2. question[q] = [tree.question[q] EXCEPT !.status = "published",
                                               !.reviewed = fingerprint(tree.question[q])]
    BY <2>1 DEF promote
  <2> HIDE DEF question
  <2> QED
    BY <2>1, <2>2, NoneAssumption DEF Item, Status
<1>4. ASSUME NEW q \in Questions, q \notin yes
      PROVE  /\ question[q] \in Item \cup {None}
             /\ \/ question[q] = tree.question[q]
                \/ question[q] = None /\ run.upstream.question[q] = None
                \/ question[q] # None /\ question[q].reviewed = None
  <2>1. CASE q \notin ids
    BY <1>4, <2>1, TreeParts DEF Items
  <2>2. CASE q \in ids /\ run.upstream.question[q] # None
    <3>1. question[q] = [tree.question[q] EXCEPT !.status = "needs_review", !.reviewed = None]
      BY <1>4, <2>2 DEF demote
    <3>2. tree.question[q] \in Item
      BY <1>1, <2>2
    <3> HIDE DEF question
    <3> QED
      BY <3>1, <3>2, NoneAssumption DEF Item, Status
  <2>3. CASE q \in ids /\ run.upstream.question[q] = None
    BY <1>4, <2>3
  <2> QED
    BY <2>1, <2>2, <2>3
<1>5. question \in Items
  <2>1. question = [q \in Questions |-> question[q]]
    OBVIOUS
  <2> HIDE DEF question
  <2> QED
    BY <1>3, <1>4, <2>1 DEF Items
<1>6. t = [tree EXCEPT !.question = question, !.verdict = verdict]
  BY DEF settle
<1> HIDE DEF question, verdict, t
<1>7. t \in Tree /\ t.source = tree.source /\ t.manifest = tree.manifest /\ t.seen = tree.seen
      /\ t.question = question
  BY <1>2, <1>5, <1>6 DEF Tree, Items
<1> QED
  BY <1>3, <1>4, <1>7 DEF t

LEMMA ReviewStep ==
  ASSUME BankInv, NEW decided \in SUBSET Questions, NEW yes \in SUBSET decided, review(decided, yes)
  PROVE  BankInv'
<1> DEFINE tree == settle(run.tree, decided, yes)
           revisions == {<<q, fingerprint(run.tree.question[q])>> : q \in yes}
<1>1. /\ run # None /\ run \in Run /\ run.phase = "review"
      /\ {run.tree, run.root, run.base, run.upstream} \subseteq Tree
      /\ Prepared(run.base) /\ DroppedKnown /\ Gated /\ Keeps(run.root, run.upstream)
      /\ Approved(run.tree)
      /\ run.tree.seen = run.seen
      /\ store \subseteq Sources \X Versions /\ approved \subseteq Questions \X Revision
  BY DEF review, within, BankInv, TypeOK, TreesOf, RunInv
<1>2. /\ \A q \in decided : statusOf(run.tree, q) = "review_ready"
      /\ guardChanges(run.base, tree, MaxQuestions, FALSE)
      /\ run' = [run EXCEPT !.phase = "pr", !.tree = tree]
      /\ approved' = approved \cup revisions
      /\ UNCHANGED <<live, listed, store, main, week, work>>
  BY DEF review
<1>3. ASSUME NEW q \in yes PROVE fingerprint(run.tree.question[q]) \in Revision
  <2>1. run.tree.question[q] \in Item
    BY <1>1, <1>2, TreeParts, NoneAssumption DEF statusOf, Items, Status
  <2> QED
    BY <2>1, Fingerprints
<1>4. approved' \subseteq Questions \X Revision
  BY <1>1, <1>2, <1>3
<1>5. /\ tree \in Tree /\ tree.source = run.tree.source /\ tree.manifest = run.tree.manifest
      /\ tree.seen = run.tree.seen
      /\ \A q \in yes : /\ tree.question[q] # None
                        /\ tree.question[q].reviewed = fingerprint(run.tree.question[q])
      /\ \A q \in Questions \ yes :
            \/ tree.question[q] = run.tree.question[q]
            \/ tree.question[q] = None /\ run.upstream.question[q] = None
            \/ tree.question[q] # None /\ tree.question[q].reviewed = None
  <2>1. run.tree \in Tree /\ \A q \in decided : statusOf(run.tree, q) = "review_ready"
    BY <1>1, <1>2
  <2> QED
    BY <2>1, Settled
<1>6. ASSUME NEW q \in Questions, reviewedOf(tree, q) # None
      PROVE  <<q, reviewedOf(tree, q)>> \in approved'
  <2>1. CASE q \in yes
    <3>1. reviewedOf(tree, q) = fingerprint(run.tree.question[q])
      BY <1>5, <2>1 DEF reviewedOf
    <3> QED
      BY <1>2, <2>1, <3>1
  <2>2. CASE q \notin yes
    <3>1. tree.question[q] = run.tree.question[q]
      BY <1>5, <1>6, <2>2 DEF reviewedOf
    <3> QED
      BY <1>1, <1>2, <1>6, <3>1 DEF Approved, reviewedOf
  <2> QED
    BY <2>1, <2>2
<1>7. ASSUME NEW q \in Questions, statusOf(run.base, q) = "published"
      PROVE  tree.question[q] = run.base.question[q]
  BY <1>2, <1>7 DEF guardChanges, changedQuestionFiles
<1>8. ASSUME NEW q \in Questions, run.root.question[q] # None, tree.question[q] = None
      PROVE  q \in run.dropped
  BY <1>1, <1>5, <1>8 DEF Keeps, DroppedKnown
<1> HIDE DEF tree, revisions
<1>9. run' \in Run /\ TreesOf(run') /\ run'.phase = "pr" /\ run'.root = run.root /\ run'.tree = tree
      /\ run'.base = run.base /\ run'.seen = run.seen /\ run'.dropped = run.dropped
  BY <1>1, <1>2, <1>5 DEF Run, Phase, TreesOf
<1>10. Prepared(run.base)' /\ DroppedKnown'
  BY <1>1, <1>2, <1>8, <1>9 DEF Prepared, Captured, DroppedKnown
<1>11. Gated'
  BY <1>1, <1>5, <1>7, <1>9 DEF Gated, boundaryProblems
<1>12. Approved(run.tree)'
  BY <1>6, <1>9 DEF Approved
<1> QED
  BY <1>1, <1>2, <1>4, <1>5, <1>9, <1>10, <1>11, <1>12, RunMoves

LEMMA DiesStep ==
  ASSUME BankInv, dies
  PROVE  BankInv'
BY DEF dies, BankInv, TypeOK, Approved, Captured, RunInv

-----------------------------------------------------------------------------
(* What main may become. *)

(* A merged record: none of one side is lost, and what it pins one of the  *)
(* sides had pinned.                                                       *)
LEMMA MergedRecord ==
  ASSUME NEW r \in Record \cup {None}, NEW m \in Record \cup {None}, NEW t \in Record \cup {None},
         ~conflicts(r, m, t), r # None => m # None /\ t # None
  PROVE  LET x == merged(r, m, t, None)
         IN  /\ x \in Record \cup {None}
             /\ m # None \/ t # None => x # None
             /\ x # None => \/ m # None /\ x.sha256 = m.sha256
                            \/ t # None /\ x.sha256 = t.sha256
<1>0. PICK x : x = merged(r, m, t, None)
  OBVIOUS
<1>1. CASE None \in {r, m, t}
  <2>1. x = pick(r, m, t) /\ ~clash(r, m, t)
    BY <1>0, <1>1 DEF merged, conflicts
  <2> QED
    BY <1>0, <1>1, <2>1 DEF pick, clash
<1>2. CASE None \notin {r, m, t}
  <2>1. r \in Record /\ m \in Record /\ t \in Record
    BY <1>2
  <2>2. x = [f \in DOMAIN m |-> pick(r[f], m[f], t[f])]
    BY <1>0, <1>2, <2>1 DEF merged, Record
  <2>3. x = [url |-> pick(r.url, m.url, t.url), sha256 |-> pick(r.sha256, m.sha256, t.sha256),
             status |-> pick(r.status, m.status, t.status)]
    BY <2>1, <2>2 DEF Record
  <2>4. x \in Record /\ x.sha256 \in {m.sha256, t.sha256}
    BY <2>1, <2>3 DEF Record, pick
  <2> QED
    BY <1>0, <1>2, <2>4, NoneAssumption
<1> QED
  BY <1>1, <1>2

(* A merged question: its review block is one of the sides', and main's    *)
(* one is replaced only if it was the root's.                              *)
LEMMA MergedQuestion ==
  ASSUME NEW r \in Item \cup {None}, NEW m \in Item \cup {None}, NEW t \in Item \cup {None},
         NEW wording \in Texts, ~conflicts(r, m, t)
  PROVE  LET x == merged(r, m, t, wording)
         IN  /\ x \in Item \cup {None}
             /\ t = r => x = m
             /\ m # None /\ x = None => m = r /\ t = None
             /\ x # None => \/ m # None /\ x.reviewed = m.reviewed
                            \/ t # None /\ x.reviewed = t.reviewed
             /\ x # None /\ m # None /\ x.reviewed # m.reviewed => r # None /\ r.reviewed = m.reviewed
<1>0. PICK x : x = merged(r, m, t, wording)
  OBVIOUS
<1>1. CASE None \in {r, m, t}
  <2>1. x = pick(r, m, t) /\ ~clash(r, m, t)
    BY <1>0, <1>1 DEF merged, conflicts
  <2> QED
    BY <1>0, <1>1, <2>1 DEF pick, clash
<1>2. CASE None \notin {r, m, t}
  <2> DEFINE text == IF clash(r.text, m.text, t.text) THEN wording ELSE pick(r.text, m.text, t.text)
  <2>1. r \in Item /\ m \in Item /\ t \in Item
    BY <1>2
  <2>2. x = [f \in DOMAIN m |-> IF f = "text" /\ clash(r[f], m[f], t[f]) THEN wording
                                ELSE pick(r[f], m[f], t[f])]
    BY <1>0, <1>2 DEF merged
  <2>3. x = [status |-> pick(r.status, m.status, t.status), text |-> text,
             cites |-> pick(r.cites, m.cites, t.cites), sha256 |-> pick(r.sha256, m.sha256, t.sha256),
             reviewed |-> pick(r.reviewed, m.reviewed, t.reviewed)]
    BY <2>1, <2>2 DEF Item
  <2>4. ~clash(r.reviewed, m.reviewed, t.reviewed)
    BY <1>2, <2>1 DEF conflicts, Item
  <2>5. text \in Texts
    BY <2>1 DEF pick, Item
  <2>6. t = r => text = m.text
    BY DEF pick, clash
  <2> HIDE DEF text
  <2>7. x \in Item /\ x.reviewed = pick(r.reviewed, m.reviewed, t.reviewed)
    BY <2>1, <2>3, <2>5 DEF Item, pick
  <2>8. ASSUME t = r PROVE x = m
    <3>1. m = [status |-> m.status, text |-> m.text, cites |-> m.cites, sha256 |-> m.sha256,
               reviewed |-> m.reviewed]
      BY <2>1 DEF Item
    <3>2. x = [status |-> m.status, text |-> m.text, cites |-> m.cites, sha256 |-> m.sha256,
               reviewed |-> m.reviewed]
      BY <2>3, <2>6, <2>8 DEF pick
    <3> QED
      BY <3>1, <3>2
  <2> QED
    BY <1>0, <1>2, <2>4, <2>7, <2>8, NoneAssumption DEF pick, clash
<1> QED
  BY <1>1, <1>2

LEMMA MergeFacts ==
  ASSUME BankInv, NEW wording \in [Questions -> Texts], merge(wording)
  PROVE  /\ main' \in Tree
         /\ \A s \in Sources :
               /\ main.source[s] # None \/ run.base.source[s] # None => main'.source[s] # None
               /\ main'.source[s] # None =>
                    \/ main.source[s] # None /\ main'.source[s].sha256 = main.source[s].sha256
                    \/ run.base.source[s] # None /\ main'.source[s].sha256 = run.base.source[s].sha256
         /\ main'.manifest = main.manifest \cup run.base.manifest
         /\ \A q \in Questions :
               LET r == run.root.question[q] m == main.question[q] t == run.tree.question[q]
                   x == main'.question[q]
               IN  /\ t = r => x = m
                   /\ m # None /\ x = None => m = r /\ t = None
                   /\ x # None => \/ m # None /\ x.reviewed = m.reviewed
                                  \/ t # None /\ x.reviewed = t.reviewed
                   /\ x # None /\ m # None /\ x.reviewed # m.reviewed => r # None /\ r.reviewed = m.reviewed
         /\ \A p \in Pages : main'.seen[p] \in {main.seen[p], run.tree.seen[p]}
<1> DEFINE r == run.root
           t == run.tree
           source == [s \in Sources |-> merged(r.source[s], main.source[s], t.source[s], None)]
           question == [q \in Questions |->
                          merged(r.question[q], main.question[q], t.question[q], wording[q])]
           manifest == main.manifest \cup t.manifest
           seen == [p \in Pages |-> pick(r.seen[p], main.seen[p], t.seen[p])]
           verdict == main.verdict \cup t.verdict
<1>1. /\ run # None /\ run \in Run /\ run.phase = "pr" /\ {run.tree, run.root, run.base, main} \subseteq Tree
      /\ t.source = run.base.source /\ t.manifest = run.base.manifest
      /\ Keeps(run.root, main) /\ Prepared(run.base)
  BY DEF merge, within, BankInv, TypeOK, TreesOf, RunInv, Gated, boundaryProblems
<1>2. /\ \A s \in Sources : ~conflicts(r.source[s], main.source[s], t.source[s])
      /\ \A q \in Questions : ~conflicts(r.question[q], main.question[q], t.question[q])
      /\ main' = [source |-> source, manifest |-> manifest, seen |-> seen,
                  question |-> question, verdict |-> verdict]
  BY DEF merge
<1>3. ASSUME NEW s \in Sources
      PROVE  /\ source[s] \in Record \cup {None}
             /\ main.source[s] # None \/ t.source[s] # None => source[s] # None
             /\ source[s] # None =>
                  \/ main.source[s] # None /\ source[s].sha256 = main.source[s].sha256
                  \/ t.source[s] # None /\ source[s].sha256 = t.source[s].sha256
  <2>1. {r.source[s], main.source[s], t.source[s]} \subseteq Record \cup {None}
    BY <1>1, TreeParts DEF Records
  <2>2. r.source[s] # None => main.source[s] # None /\ t.source[s] # None
    BY <1>1 DEF Keeps, Prepared, recorded
  <2>3. source[s] = merged(r.source[s], main.source[s], t.source[s], None)
    OBVIOUS
  <2>4. PICK a, b, c : a = r.source[s] /\ b = main.source[s] /\ c = t.source[s]
    OBVIOUS
  <2>5. ~conflicts(a, b, c)
    BY <1>2, <2>4
  <2> HIDE DEF source, r, t
  <2>6. a \in Record \cup {None} /\ b \in Record \cup {None} /\ c \in Record \cup {None}
    BY <2>1, <2>4
  <2>7. a # None => b # None /\ c # None
    BY <2>2, <2>4
  <2>8. source[s] = merged(a, b, c, None)
    BY <2>3, <2>4
  <2>9. LET x == merged(a, b, c, None)
        IN  /\ x \in Record \cup {None}
            /\ b # None \/ c # None => x # None
            /\ x # None => \/ b # None /\ x.sha256 = b.sha256
                           \/ c # None /\ x.sha256 = c.sha256
    BY <2>5, <2>6, <2>7, MergedRecord
  <2> QED
    BY <2>4, <2>8, <2>9
<1>4. ASSUME NEW q \in Questions
      PROVE  /\ question[q] \in Item \cup {None}
             /\ t.question[q] = r.question[q] => question[q] = main.question[q]
             /\ main.question[q] # None /\ question[q] = None =>
                  main.question[q] = r.question[q] /\ t.question[q] = None
             /\ question[q] # None =>
                  \/ main.question[q] # None /\ question[q].reviewed = main.question[q].reviewed
                  \/ t.question[q] # None /\ question[q].reviewed = t.question[q].reviewed
             /\ question[q] # None /\ main.question[q] # None
                /\ question[q].reviewed # main.question[q].reviewed =>
                  r.question[q] # None /\ r.question[q].reviewed = main.question[q].reviewed
  <2>1. {r.question[q], main.question[q], t.question[q]} \subseteq Item \cup {None} /\ wording[q] \in Texts
    BY <1>1, TreeParts DEF Items
  <2>2. question[q] = merged(r.question[q], main.question[q], t.question[q], wording[q])
    OBVIOUS
  <2>4. PICK a, b, c : a = r.question[q] /\ b = main.question[q] /\ c = t.question[q]
    OBVIOUS
  <2>5. ~conflicts(a, b, c)
    BY <1>2, <2>4
  <2> HIDE DEF question, r, t
  <2>6. a \in Item \cup {None} /\ b \in Item \cup {None} /\ c \in Item \cup {None}
    BY <2>1, <2>4
  <2>8. question[q] = merged(a, b, c, wording[q])
    BY <2>2, <2>4
  <2>9. LET x == merged(a, b, c, wording[q])
        IN  /\ x \in Item \cup {None}
            /\ c = a => x = b
            /\ b # None /\ x = None => b = a /\ c = None
            /\ x # None => \/ b # None /\ x.reviewed = b.reviewed
                           \/ c # None /\ x.reviewed = c.reviewed
            /\ x # None /\ b # None /\ x.reviewed # b.reviewed => a # None /\ a.reviewed = b.reviewed
    BY <2>1, <2>5, <2>6, MergedQuestion
  <2> QED
    BY <2>4, <2>8, <2>9
<1>5. source \in Records /\ question \in Items
  BY <1>3, <1>4 DEF Records, Items
<1>6. /\ manifest \subseteq Sources \X Pages
      /\ \A p \in Pages : seen[p] \in {main.seen[p], t.seen[p]}
      /\ seen \in [Pages -> (0..MaxWeeks) \cup {None}]
      /\ verdict \subseteq Questions \X Revision \X BOOLEAN
  <2>1. \A p \in Pages : seen[p] \in {main.seen[p], t.seen[p]}
    BY DEF pick
  <2>2. main \in Tree /\ t \in Tree
    BY <1>1
  <2>3. seen = [p \in Pages |-> seen[p]]
    OBVIOUS
  <2> HIDE DEF seen, t
  <2> QED
    BY <2>1, <2>2, <2>3, TreeParts
<1> HIDE DEF source, question, manifest, seen, verdict
<1>7. main' \in Tree /\ main'.source = source /\ main'.question = question /\ main'.manifest = manifest
      /\ main'.seen = seen
  BY <1>2, <1>5, <1>6 DEF Tree, Records, Items
<1>8. manifest = main.manifest \cup run.base.manifest
  BY <1>1 DEF manifest
<1> QED
  BY <1>1, <1>3, <1>4, <1>6, <1>7, <1>8

LEMMA MergeStep ==
  ASSUME BankInv, NEW wording \in [Questions -> Texts], merge(wording)
  PROVE  BankInv'
<1>1. /\ run # None /\ run.phase = "pr" /\ Approved(run.tree) /\ Prepared(run.base)
      /\ {run.base, run.root, main} \subseteq Tree
  BY DEF merge, within, BankInv, RunInv, TypeOK, TreesOf
<1>2. run' = None /\ UNCHANGED <<live, listed, store, week, approved, work>>
  BY DEF merge
<1>3. TypeOK' /\ RunInv'
  BY <1>2, MergeFacts DEF BankInv, TypeOK, RunInv
<1>4. Approved(main)'
  <2>1. ASSUME NEW q \in Questions, reviewedOf(main', q) # None
        PROVE  <<q, reviewedOf(main', q)>> \in approved
    <3>1. main'.question[q] # None /\ reviewedOf(main', q) = main'.question[q].reviewed
      BY <2>1 DEF reviewedOf
    <3>2. reviewedOf(main', q) \in {reviewedOf(main, q), reviewedOf(run.tree, q)}
      BY <3>1, MergeFacts DEF reviewedOf
    <3> QED
      BY <1>1, <2>1, <3>2 DEF BankInv, Approved
  <2> QED
    BY <1>2, <2>1 DEF Approved
<1>6. Captured(main)'
  <2>1. ASSUME NEW s \in recorded(main') PROVE <<s, main'.source[s].sha256>> \in store
    <3>1. s \in Sources /\ main'.source[s] # None
      BY DEF recorded
    <3>2. \/ s \in recorded(main) /\ main'.source[s].sha256 = main.source[s].sha256
          \/ s \in recorded(run.base) /\ main'.source[s].sha256 = run.base.source[s].sha256
      BY <3>1, MergeFacts DEF recorded
    <3> QED
      BY <1>1, <3>2 DEF BankInv, Prepared, Captured
  <2>2. ASSUME NEW row \in main'.manifest PROVE main'.source[row[1]] # None
    <3>1. row \in main.manifest \/ row \in run.base.manifest
      BY MergeFacts
    <3>2. row[1] \in Sources
      BY <1>1, <3>1, TreeParts
    <3>3. main.source[row[1]] # None \/ run.base.source[row[1]] # None
      BY <1>1, <3>1 DEF BankInv, Prepared, Captured
    <3> QED
      BY <3>2, <3>3, MergeFacts
  <2> QED
    BY <1>2, <2>1, <2>2 DEF Captured
<1> QED
  BY <1>3, <1>4, <1>6 DEF BankInv

LEMMA ByHandStep ==
  ASSUME BankInv, NEW q \in Questions, NEW status \in Status, NEW m \in Revision,
         NEW reviewed \in Revision \cup {None}, byHand(q, status, m, reviewed)
  PROVE  BankInv'
<1> DEFINE block == IF status = "published" THEN m ELSE reviewed
           item == [status |-> status, text |-> m.text, cites |-> m.cites, sha256 |-> m.sha256,
                    reviewed |-> block]
<1>1. main \in Tree /\ work' \in 0 .. MaxWork /\ approved \subseteq Questions \X Revision
  BY ReplenishAssumption DEF byHand, Spend, BankInv, TypeOK
<1>2. main' = [main EXCEPT !.question[q] = item] /\ UNCHANGED <<live, listed, store, run, week>>
      /\ reviewed \in {None, reviewedOf(main, q)}
      /\ approved' = IF status = "published" THEN approved \cup {<<q, m>>} ELSE approved
  BY DEF byHand
<1>3. item \in Item /\ item.reviewed = block
  BY DEF Item, Revision
<1>4. block = IF status = "published" THEN m ELSE reviewed
  OBVIOUS
<1> HIDE DEF item, block
<1>5. main' \in Tree /\ main'.source = main.source /\ main'.manifest = main.manifest
      /\ main'.seen = main.seen /\ main'.question = [main.question EXCEPT ![q] = item]
  BY <1>1, <1>2, <1>3 DEF Tree
<1>6. TypeOK'
  BY <1>1, <1>2, <1>5 DEF BankInv, TypeOK
<1>7. main.question \in Items /\ item # None
  BY <1>1, <1>3, TreeParts, NoneAssumption
<1>8. Approved(main)'
  <2>1. ASSUME NEW x \in Questions, reviewedOf(main', x) # None
        PROVE  <<x, reviewedOf(main', x)>> \in approved'
    <3>1. CASE x = q
      <4>1. reviewedOf(main', q) = block
        BY <1>3, <1>5, <1>7 DEF reviewedOf, Items
      <4> QED
        BY <1>2, <1>4, <2>1, <3>1, <4>1 DEF BankInv, Approved
    <3>2. CASE x # q
      <4>1. main'.question[x] = main.question[x]
        BY <1>5, <1>7, <3>2 DEF Items
      <4> QED
        BY <1>2, <2>1, <4>1 DEF BankInv, Approved, reviewedOf
    <3> QED
      BY <3>1, <3>2
  <2> QED
    BY <2>1 DEF Approved
<1>9. Captured(main)'
  BY <1>2, <1>5 DEF BankInv, Captured, recorded
<1>10. Keeps(main, main') /\ knownUrls(main) \subseteq knownUrls(main')
  BY <1>5, <1>7 DEF Keeps, knownUrls, recorded, Items
<1> QED
  BY <1>2, <1>5, <1>6, <1>8, <1>9, <1>10, MainMoves

LEMMA CaptureByHandStep ==
  ASSUME BankInv, NEW s \in Sources, NEW p \in Pages, captureByHand(s, p)
  PROVE  BankInv'
<1> DEFINE record == [url |-> p, sha256 |-> live[p], status |-> "current"]
           manifest == main.manifest \cup {<<s, p>>}
<1>1. main \in Tree /\ work' \in 0 .. MaxWork /\ live \in [Pages -> Versions] /\ main.source[s] = None
  BY ReplenishAssumption DEF captureByHand, Spend, BankInv, TypeOK
<1>2. main' = [main EXCEPT !.manifest = manifest, !.source[s] = record]
      /\ store' = store \cup {<<s, live[p]>>} /\ UNCHANGED <<live, listed, run, week, approved>>
  BY <1>1 DEF captureByHand, Tree
<1>3. record \in Record /\ record.sha256 = live[p] /\ record # None
  BY <1>1, NoneAssumption DEF Record
<1>4. manifest \subseteq Sources \X Pages
  BY <1>1, TreeParts
<1> HIDE DEF record
<1>5. [main.source EXCEPT ![s] = record] \in Records
  BY <1>1, <1>3, TreeParts DEF Records
<1>6. main' \in Tree /\ main'.source = [main.source EXCEPT ![s] = record] /\ main'.manifest = manifest
      /\ main'.seen = main.seen /\ main'.question = main.question
  BY <1>1, <1>2, <1>4, <1>5 DEF Tree, Records
<1>7. TypeOK'
  BY <1>1, <1>2, <1>6 DEF BankInv, TypeOK
<1>8. Approved(main)'
  BY <1>2, <1>6 DEF BankInv, Approved, reviewedOf
<1>9. ASSUME NEW x \in Sources
      PROVE  main'.source[x] = IF x = s THEN record ELSE main.source[x]
  BY <1>1, <1>6, TreeParts DEF Records
<1>10. Captured(main)'
  <2>1. ASSUME NEW x \in recorded(main') PROVE <<x, main'.source[x].sha256>> \in store'
    BY <1>2, <1>3, <1>9 DEF recorded, BankInv, Captured
  <2>2. ASSUME NEW row \in main'.manifest PROVE main'.source[row[1]] # None
    <3>1. row[1] \in Sources /\ (row \in main.manifest \/ row[1] = s)
      BY <1>4, <1>6
    <3> QED
      BY <1>3, <1>9, <3>1 DEF BankInv, Captured
  <2> QED
    BY <2>1, <2>2 DEF Captured
<1>11. Keeps(main, main')
  BY <1>1, <1>3, <1>6, <1>9 DEF Keeps, recorded
<1>12. knownUrls(main) \subseteq knownUrls(main')
  BY <1>1, <1>6, <1>9 DEF knownUrls, recorded
<1> QED
  BY <1>2, <1>6, <1>7, <1>8, <1>10, <1>11, <1>12, MainMoves

LEMMA DriftMergedStep ==
  ASSUME BankInv, driftMerged
  PROVE  BankInv'
<1> DEFINE source == markDrifted(main.source)
           question == quarantine(main.question, source)
<1>1. main \in Tree /\ live \in [Pages -> Versions]
  BY DEF BankInv, TypeOK
<1>2. main' = [main EXCEPT !.source = source, !.question = question]
      /\ UNCHANGED <<live, listed, store, run, week, approved, work>>
  BY <1>1 DEF driftMerged, Tree
<1>3. source \in Records
      /\ \A s \in Sources : /\ main.source[s] = None <=> source[s] = None
                            /\ main.source[s] # None =>
                                 source[s].sha256 = main.source[s].sha256 /\ source[s].url = main.source[s].url
  BY <1>1, MarkedDrifted, TreeParts
<1>4. question \in Items
      /\ \A q \in Questions : \/ question[q] = main.question[q]
                              \/ main.question[q] # None /\ question[q] \in Item
                                 /\ question[q].status = "needs_review"
                                 /\ question[q].reviewed = main.question[q].reviewed
  BY <1>1, Quarantined, TreeParts
<1> HIDE DEF source, question
<1>5. main' \in Tree /\ main'.source = source /\ main'.question = question
      /\ main'.manifest = main.manifest /\ main'.seen = main.seen
  BY <1>1, <1>2, <1>3, <1>4 DEF Tree, Records, Items
<1>6. TypeOK'
  BY <1>2, <1>5 DEF BankInv, TypeOK
<1>7. Approved(main)'
  <2>1. ASSUME NEW q \in Questions
        PROVE  reviewedOf(main', q) = reviewedOf(main, q)
    BY <1>4, <1>5, NoneAssumption DEF reviewedOf
  <2> QED
    BY <1>2, <2>1 DEF BankInv, Approved
<1>8. Captured(main)'
  BY <1>1, <1>2, <1>3, <1>5, TreeParts DEF BankInv, Captured, recorded
<1>9. Keeps(main, main')
  BY <1>3, <1>4, <1>5, NoneAssumption DEF Keeps, recorded
<1>10. knownUrls(main) \subseteq knownUrls(main')
  BY <1>3, <1>5 DEF knownUrls, recorded
<1> QED
  BY <1>2, <1>5, <1>6, <1>7, <1>8, <1>9, <1>10, MainMoves

LEMMA WorldMoves ==
  ASSUME BankInv, UNCHANGED <<store, main, run, week, approved>>, run # None => listed' = listed,
         live' \in [Pages -> Versions], listed' \subseteq Pages, work' \in 0 .. MaxWork
  PROVE  BankInv'
<1>1. TypeOK'
  BY DEF BankInv, TypeOK
<1>2. Approved(main)' /\ Captured(main)'
  BY DEF BankInv, Approved, Captured
<1>3. Keeps(main, main)
  BY DEF Keeps
<1> QED
  BY <1>1, <1>2, <1>3, MainMoves

LEMMA PageChangesStep ==
  ASSUME BankInv, NEW p \in Pages, NEW v \in Versions, pageChanges(p, v)
  PROVE  BankInv'
<1>1. live' \in [Pages -> Versions] /\ listed' \subseteq Pages /\ work' \in 0 .. MaxWork
  BY ReplenishAssumption DEF pageChanges, Spend, BankInv, TypeOK
<1> QED
  BY <1>1, WorldMoves DEF pageChanges

LEMMA IndexChangesStep ==
  ASSUME BankInv, NEW p \in Pages, indexChanges(p)
  PROVE  BankInv'
<1>1. live' \in [Pages -> Versions] /\ listed' \subseteq Pages /\ work' \in 0 .. MaxWork
  BY ReplenishAssumption DEF indexChanges, Spend, BankInv, TypeOK
<1> QED
  BY <1>1, WorldMoves DEF indexChanges

LEMMA StutterStep ==
  ASSUME BankInv, UNCHANGED vars
  PROVE  BankInv'
<1>1. live' \in [Pages -> Versions] /\ listed' \subseteq Pages /\ work' \in 0 .. MaxWork
  BY DEF vars, BankInv, TypeOK
<1> QED
  BY <1>1, WorldMoves DEF vars

-----------------------------------------------------------------------------
(* The theorems. *)

LEMMA InitInv == Init => BankInv
<1> SUFFICES ASSUME Init PROVE BankInv
  OBVIOUS
<1>1. firstVersion \in Versions
  BY FirstVersionAssumption DEF firstVersion
<1>2. PICK s \in Sources, p \in Pages :
         /\ \E v \in Versions : live = [x \in Pages |-> IF x = p THEN v ELSE firstVersion]
         /\ store = {<<s, firstVersion>>}
         /\ \E question \in [Questions -> {None} \cup {firstItem(s, status) : status \in Status \ {"draft"}}] :
              main = firstTree(s, p, question)
  BY DEF Init
<1>3. PICK question \in [Questions -> {None} \cup {firstItem(s, status) : status \in Status \ {"draft"}}] :
         main = firstTree(s, p, question)
  BY <1>2
<1>4. ASSUME NEW status \in Status
      PROVE  /\ firstItem(s, status) \in Item
             /\ firstItem(s, status).status = status
             /\ firstItem(s, status).reviewed =
                   IF status = "published" THEN fingerprint(firstItem(s, status)) ELSE None
  <2> DEFINE text == CHOOSE t \in Texts : TRUE
             m == [text |-> text, cites |-> s, sha256 |-> firstVersion]
             block == IF status = "published" THEN m ELSE None
  <2>1. text \in Texts
    BY ReplenishAssumption
  <2>2. m \in Revision
    BY <1>1, <2>1 DEF Revision
  <2>3. firstItem(s, status) = [status |-> status, text |-> text, cites |-> s, sha256 |-> firstVersion,
                                reviewed |-> block]
    BY DEF firstItem
  <2>4. block \in Revision \cup {None}
    BY <2>2
  <2>5. fingerprint(firstItem(s, status)) = m
    BY <2>3 DEF fingerprint
  <2> HIDE DEF text, block, m
  <2>6. /\ firstItem(s, status) \in Item /\ firstItem(s, status).status = status
        /\ firstItem(s, status).reviewed = block
    BY <1>1, <2>1, <2>3, <2>4 DEF Item
  <2> QED
    BY <2>5, <2>6 DEF block
<1>5. question \in Items
  BY <1>4 DEF Items
<1> DEFINE record == [url |-> p, sha256 |-> firstVersion, status |-> "current"]
           source == [r \in Sources |-> IF r = s THEN record ELSE None]
           verdict == {<<q, fingerprint(question[q]), FALSE>> :
                         q \in {r \in Questions : question[r] # None /\ question[r].status = "needs_review"}}
<1>6. record \in Record /\ record # None
  BY <1>1, NoneAssumption DEF Record
<1>7. source \in Records
  BY <1>6 DEF Records
<1>8. ASSUME NEW q \in Questions, question[q] # None
      PROVE  fingerprint(question[q]) \in Revision
  BY <1>5, <1>8, Fingerprints DEF Items
<1>9. verdict \subseteq Questions \X Revision \X BOOLEAN
  <2>1. ASSUME NEW q \in Questions, question[q] # None
        PROVE  <<q, fingerprint(question[q]), FALSE>> \in Questions \X Revision \X BOOLEAN
    BY <1>8, <2>1
  <2> QED
    BY <2>1, Zenon
<1>10. [x \in Pages |-> IF x = p THEN None ELSE 0] \in [Pages -> (0..MaxWeeks) \cup {None}]
  BY ReplenishAssumption
<1>11. main = [source |-> source, manifest |-> {<<s, p>>},
               seen |-> [x \in Pages |-> IF x = p THEN None ELSE 0],
               question |-> question, verdict |-> verdict]
  BY <1>3 DEF firstTree
<1> HIDE DEF source, verdict
<1>12. main \in Tree /\ main.source = source /\ main.manifest = {<<s, p>>} /\ main.question = question
  BY <1>5, <1>7, <1>9, <1>10, <1>11 DEF Tree, Items, Records
<1>13. approved = {<<q, fingerprint(question[q])>> : q \in {r \in Questions : statusOf(main, r) = "published"}}
  BY <1>12 DEF Init
<1>14. TypeOK
  <2>1. approved \subseteq Questions \X Revision
    <3>1. ASSUME NEW q \in Questions, statusOf(main, q) = "published" PROVE question[q] # None
      BY <1>12, <3>1, NoneAssumption DEF statusOf, Status
    <3> QED
      BY <1>8, <1>13, <3>1
  <2>2. live \in [Pages -> Versions] /\ store \subseteq Sources \X Versions
    BY <1>1, <1>2
  <2>3. listed \subseteq Pages /\ run = None /\ week \in 0 .. MaxWeeks /\ work \in 0 .. MaxWork
    BY ReplenishAssumption DEF Init
  <2> QED
    BY <1>12, <2>1, <2>2, <2>3 DEF TypeOK
<1>15. Approved(main)
  <2>1. ASSUME NEW q \in Questions, reviewedOf(main, q) # None
        PROVE  statusOf(main, q) = "published" /\ reviewedOf(main, q) = fingerprint(question[q])
    <3>1. question[q] # None /\ reviewedOf(main, q) = question[q].reviewed
          /\ statusOf(main, q) = question[q].status
      BY <1>12, <2>1 DEF reviewedOf, statusOf
    <3>2. PICK status \in Status : question[q] = firstItem(s, status)
      BY <1>3, <3>1
    <3> QED
      BY <1>4, <2>1, <3>1, <3>2
  <2> QED
    BY <1>13, <2>1 DEF Approved
<1>16. Captured(main)
  <2>1. ASSUME NEW x \in recorded(main) PROVE x = s /\ main.source[x].sha256 = firstVersion
    BY <1>12, <2>1 DEF recorded, source
  <2>2. main.source[s] # None
    BY <1>6, <1>12 DEF source
  <2> QED
    BY <1>2, <1>12, <2>1, <2>2 DEF Captured
<1>17. RunInv
  BY DEF Init, RunInv
<1> QED
  BY <1>14, <1>15, <1>16, <1>17 DEF BankInv

LEMMA NextStep ==
  ASSUME BankInv, [Next]_vars
  PROVE  BankInv'
<1>1. CASE \E down \in SUBSET {Index[p] : p \in Pages}, reached \in SUBSET Sources,
             offered \in SUBSET Pages : discover(down, reached, offered)
  BY <1>1, DiscoverStep
<1>2. CASE \E select \in SUBSET (Sources \X Pages) : checkout(select)
  BY <1>2, CheckoutStep
<1>3. CASE \E captured \in SUBSET Sources : capture(captured)
  BY <1>3, CaptureStep
<1>4. CASE \E q \in Questions :
             authorWrites(q, None) \/ (within("author") /\ \E item \in quotations(q) : authorWrites(q, item))
  <2>1. ASSUME within("author"), NEW q \in Questions, NEW item \in quotations(q)
        PROVE  item \in Item /\ item.reviewed \in {None, reviewedOf(run.base, q)}
    <3>1. run.tree \in Tree /\ run.base \in Tree
      BY <2>1 DEF within, BankInv, TypeOK, TreesOf
    <3>2. ASSUME NEW s \in recorded(run.tree) PROVE s \in Sources /\ run.tree.source[s].sha256 \in Versions
      BY <3>1, TreeParts DEF recorded, Records, Record
    <3>3. reviewedOf(run.base, q) \in Revision \cup {None}
      BY <3>1, TreeParts DEF reviewedOf, Items, Item
    <3> QED
      BY <2>1, <3>2, <3>3 DEF quotations, Item
  <2> QED
    BY <1>4, <2>1, AuthorWritesStep
<1>5. CASE \E s \in Sources, v \in Versions : authorStrays(s, v)
  BY <1>5, AuthorStraysStep
<1>6. CASE gate \/ listItems \/ dies \/ \E wording \in [Questions -> Texts] : merge(wording)
  BY <1>6, GateStep, ListItemsStep, DiesStep, MergeStep
<1>7. CASE \E decided \in SUBSET Questions : \E yes \in SUBSET decided : review(decided, yes)
  BY <1>7, ReviewStep
<1>8. CASE \E q \in Questions, status \in Status, m \in Revision, reviewed \in Revision \cup {None} :
             byHand(q, status, m, reviewed)
  BY <1>8, ByHandStep
<1>9. CASE \E s \in Sources, p \in Pages : captureByHand(s, p)
  BY <1>9, CaptureByHandStep
<1>10. CASE driftMerged
  BY <1>10, DriftMergedStep
<1>11. CASE \/ \E p \in Pages, v \in Versions : pageChanges(p, v)
            \/ \E p \in Pages : indexChanges(p)
  BY <1>11, PageChangesStep, IndexChangesStep
<1>12. CASE UNCHANGED vars
  BY <1>12, StutterStep
<1> QED
  BY <1>1, <1>2, <1>3, <1>4, <1>5, <1>6, <1>7, <1>8, <1>9, <1>10, <1>11, <1>12 DEF Next

(* The inductive invariant of the bank: types, what main publishes and     *)
(* records, and what every tree of a run owes to main.                     *)
THEOREM Invariance == Spec => []BankInv
BY InitInv, NextStep, PTL DEF Spec

(* What main ships was approved in that very revision, however git         *)
(* combined a branch with what people did, for every number of pages,      *)
(* questions, runs and changes.                                            *)
THEOREM PublishedWasApproved == Spec => []PublishedWasRead
<1>1. ASSUME BankInv, NEW q \in Questions, isEligibleForBundle(main, q)
      PROVE  <<q, fingerprint(main.question[q])>> \in approved
  <2>1. main.question[q] \in Item
    BY <1>1, TreeParts, NoneAssumption DEF isEligibleForBundle, statusOf, BankInv, TypeOK, Items, Status
  <2>2. reviewedOf(main, q) = fingerprint(main.question[q]) /\ fingerprint(main.question[q]) \in Revision
    BY <1>1, <2>1, Fingerprints DEF isEligibleForBundle
  <2> QED
    BY <1>1, <2>2, NoneAssumption DEF BankInv, Approved
<1>2. BankInv => PublishedWasRead
  BY <1>1 DEF PublishedWasRead
<1> QED
  BY <1>2, Invariance, PTL

(* Every record of main pins a snapshot that is in the store, and every    *)
(* row of the manifest has its record, through every merge.                *)
THEOREM RecordsStayCaptured == Spec => []RecordsAreCaptured
<1>1. BankInv => RecordsAreCaptured
  BY DEF BankInv, Captured, RecordsAreCaptured
<1> QED
  BY <1>1, Invariance, PTL

(* Only the merge of a run ends it with another main. *)
LEMMA OnlyMerge ==
  ASSUME merging, [Next]_vars
  PROVE  \E wording \in [Questions -> Texts] : merge(wording)
<1>1. run # None /\ run' = None /\ main' # main
  BY DEF merging, within
<1>2. ASSUME NEW down, NEW reached, NEW offered, discover(down, reached, offered) PROVE FALSE
  BY <1>1, <1>2 DEF discover
<1>3. ASSUME NEW select, checkout(select) PROVE FALSE
  BY <1>1, <1>3 DEF checkout
<1>4. ASSUME NEW captured, capture(captured) PROVE FALSE
  <2>1. UNCHANGED <<live, listed, main, week, approved, work>>
    BY <1>4, Zenon DEF capture
  <2> QED
    BY <1>1, <2>1
<1>5. ASSUME NEW q, NEW item, authorWrites(q, item) PROVE FALSE
  BY <1>1, <1>5 DEF authorWrites
<1>6. ASSUME NEW s, NEW v, authorStrays(s, v) PROVE FALSE
  BY <1>1, <1>6 DEF authorStrays
<1>7. ASSUME NEW decided, NEW yes, review(decided, yes) PROVE FALSE
  BY <1>1, <1>7 DEF review
<1>8. ~ gate /\ ~ listItems /\ ~ dies
  BY <1>1 DEF gate, listItems, dies
<1>9. ASSUME NEW q, NEW status, NEW m, NEW reviewed, byHand(q, status, m, reviewed) PROVE FALSE
  BY <1>1, <1>9 DEF byHand
<1>10. ASSUME NEW s, NEW p, captureByHand(s, p) PROVE FALSE
  BY <1>1, <1>10 DEF captureByHand
<1>11. ~ driftMerged
  BY <1>1 DEF driftMerged
<1>12. ASSUME NEW p, NEW v, pageChanges(p, v) PROVE FALSE
  BY <1>1, <1>12 DEF pageChanges
<1>13. ASSUME NEW p, indexChanges(p) PROVE FALSE
  BY <1>1, <1>13 DEF indexChanges
<1>14. Next
  BY <1>1 DEF vars
<1> QED
  BY <1>2, <1>3, <1>4, <1>5, <1>6, <1>7, <1>8, <1>9, <1>10, <1>11, <1>12, <1>13, <1>14 DEF Next

(* A merge changes a question main ships only when the run had found it    *)
(* withdrawn, and never replaces an approval given on main meanwhile.      *)
THEOREM PublishedStays == Spec => PublishedUntouched
<1>1. ASSUME BankInv, [Next]_vars, merging, NEW q \in Questions,
             isEligibleForBundle(main, q), main'.question[q] # main.question[q]
      PROVE  /\ statusOf(run.base, q) # "published"
             /\ isEligibleForBundle(main', q) => reviewedOf(run.root, q) = reviewedOf(main, q)
  <2>1. PICK wording \in [Questions -> Texts] : merge(wording)
    BY <1>1, OnlyMerge
  <2>2. Gated /\ Prepared(run.base) /\ main \in Tree /\ main' \in Tree
    BY <1>1, <2>1, MergeFacts DEF merge, within, BankInv, RunInv, TypeOK
  <2>3. statusOf(run.base, q) = "published" => run.tree.question[q] = run.root.question[q]
    BY <2>2 DEF Gated, Prepared
  <2>4. statusOf(run.base, q) # "published"
    BY <1>1, <2>1, <2>3, MergeFacts
  <2>5. ASSUME isEligibleForBundle(main', q) PROVE reviewedOf(run.root, q) = reviewedOf(main, q)
    <3> DEFINE m == main.question[q]
               x == main'.question[q]
    <3>1. m # None /\ x # None /\ m.status = x.status /\ m.reviewed = fingerprint(m)
          /\ x.reviewed = fingerprint(x) /\ x # m
      BY <1>1, <2>5, NoneAssumption DEF isEligibleForBundle, statusOf, reviewedOf, Status
    <3>2. m \in Item /\ x \in Item
      BY <2>2, <3>1, TreeParts DEF Items
    <3>3. m.reviewed # x.reviewed
      <4>1. SUFFICES ASSUME fingerprint(m) = fingerprint(x) PROVE m = x
        BY <3>1
      <4>2. m.text = x.text /\ m.cites = x.cites /\ m.sha256 = x.sha256 /\ m.reviewed = x.reviewed
        BY <3>1, <4>1 DEF fingerprint
      <4> QED
        BY <3>1, <3>2, <4>2 DEF Item
    <3>4. run.root.question[q] # None /\ run.root.question[q].reviewed = m.reviewed
      BY <1>1, <2>1, <3>1, <3>3, MergeFacts
    <3> QED
      BY <3>1, <3>4 DEF reviewedOf
  <2> QED
    BY <2>4, <2>5
<1>2. BankInv /\ [Next]_vars =>
        [merging => \A q \in Questions :
           isEligibleForBundle(main, q) /\ main'.question[q] # main.question[q] =>
              /\ statusOf(run.base, q) # "published"
              /\ isEligibleForBundle(main', q) => reviewedOf(run.root, q) = reviewedOf(main, q)]_vars
  BY <1>1
<1> QED
  BY <1>2, Invariance, PTL DEF Spec, PublishedUntouched

(* A question main has disappears in a merge only if the authoring agent   *)
(* itself removed it.                                                      *)
THEOREM EarlierWorkStays == Spec => WorkKept
<1>1. ASSUME BankInv, [Next]_vars, merging, NEW q \in Questions,
             main.question[q] # None, main'.question[q] = None
      PROVE  q \in run.dropped
  <2>1. PICK wording \in [Questions -> Texts] : merge(wording)
    BY <1>1, OnlyMerge
  <2>2. main.question[q] = run.root.question[q] /\ run.tree.question[q] = None
    BY <1>1, <2>1, MergeFacts
  <2>3. DroppedKnown
    BY <1>1, <2>1 DEF merge, within, BankInv, RunInv
  <2> QED
    BY <1>1, <2>2, <2>3 DEF DroppedKnown
<1>2. BankInv /\ [Next]_vars =>
        [merging => \A q \in Questions :
           main.question[q] # None /\ main'.question[q] = None => q \in run.dropped]_vars
  BY <1>1
<1> QED
  BY <1>2, Invariance, PTL DEF Spec, WorkKept

(* While nothing cites a page and its index lists it, its date of first    *)
(* sight does not move, whichever indices were out of reach.               *)
THEOREM FirstSightStays == Spec => FirstSeenKept
<1>1. ASSUME BankInv, [Next]_vars, NEW p \in Pages,
             main.seen[p] # None, p \in listed, p \notin knownUrls(main)
      PROVE  main'.seen[p] = main.seen[p]
  <2> DEFINE merging_ == \E wording \in [Questions -> Texts] : merge(wording)
  <2>1. CASE merging_
    <3>1. main'.seen[p] \in {main.seen[p], run.tree.seen[p]}
      BY <1>1, <2>1, MergeFacts
    <3>2. run.tree.seen = run.seen /\ run.seen[p] = main.seen[p]
      BY <1>1, <2>1 DEF merge, within, BankInv, RunInv
    <3> QED
      BY <3>1, <3>2
  <2>2. main \in Tree
    BY <1>1 DEF BankInv, TypeOK
  <2>3. ASSUME NEW x \in Questions, NEW status, NEW m, NEW reviewed, byHand(x, status, m, reviewed)
        PROVE  main'.seen = main.seen
    BY <2>2, <2>3 DEF byHand, Tree
  <2>4. ASSUME \/ driftMerged \/ \E s \in Sources, x \in Pages : captureByHand(s, x)
        PROVE  main'.seen = main.seen
    BY <2>2, <2>4 DEF driftMerged, captureByHand, Tree
  <2> HIDE DEF merging_
  <2>5. CASE main' = main
    BY <2>5
  <2>6. CASE main' # main
    <3>1. \/ merging_ \/ driftMerged \/ \E s \in Sources, x \in Pages : captureByHand(s, x)
          \/ \E x \in Questions, status \in Status, m \in Revision, reviewed \in Revision \cup {None} :
               byHand(x, status, m, reviewed)
      BY <1>1, <2>6 DEF merging_, Next, discover, checkout, capture, authorWrites, authorStrays, gate,
         listItems, review, dies, pageChanges, indexChanges, vars
    <3> QED
      BY <2>1, <2>3, <2>4, <3>1
  <2> QED
    BY <2>5, <2>6
<1>2. BankInv /\ [Next]_vars =>
        [\A p \in Pages :
           main.seen[p] # None /\ p \in listed /\ p \notin knownUrls(main) =>
              main'.seen[p] = main.seen[p] \/ p \in knownUrls(main')]_vars
  BY <1>1
<1> QED
  BY <1>2, Invariance, PTL DEF Spec, FirstSeenKept

=============================================================================
