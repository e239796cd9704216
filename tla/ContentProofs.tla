---------------------------- MODULE ContentProofs ----------------------------
(***************************************************************************)
(* Proofs about ContentLifecycle, for every set of sources, questions,     *)
(* people and files: it implements Publication, a rejection on record      *)
(* stands, the review tools leave no receipt ambiguous, and what is merged *)
(* can be checked against its snapshots.                                   *)
(***************************************************************************)
EXTENDS ContentLifecycle, TLAPS

(* An approval in a receipt, or a person's with a fingerprint, was given   *)
(* for exactly that revision.                                              *)
ReceiptsGranted ==
    \A f \in Files, q \in Questions :
        /\ receipt[f] # None /\ receipt[f].questions[q] # None
        /\ receipt[f].questions[q].approved
        => <<q, receipt[f].questions[q].content_sha256, receipt[f].reviewer>> \in granted
ReviewsGranted ==
    \A q \in Questions :
        /\ question[q] # None /\ question[q].reviewed # None
        /\ question[q].reviewed.by \in Humans /\ question[q].reviewed.content_sha256 # None
        => <<q, question[q].reviewed.content_sha256, question[q].reviewed.by>> \in granted

(* A receipt file that came in from a branch is there. *)
MergedAreHere == \A f \in merged : receipt[f] # None

IInv ==
    /\ TypeOK /\ ReceiptsGranted /\ ReviewsGranted /\ MergedAreHere
    /\ ToolsNeverPoison /\ EvidenceStands

USE DEF vars, files, history

-----------------------------------------------------------------------------
(* What keeps a part of the invariant. *)

LEMMA ReceiptsStay ==
  ASSUME ReceiptsGranted, ToolsNeverPoison, MergedAreHere, receipt' = receipt,
         granted \subseteq granted', merged' = merged
  PROVE  ReceiptsGranted' /\ ToolsNeverPoison' /\ MergedAreHere'
  BY DEF ReceiptsGranted, ToolsNeverPoison, MergedAreHere, holders, Has

LEMMA ReviewsStay ==
  ASSUME ReviewsGranted, granted \subseteq granted',
         \A q \in Questions :
            \/ question'[q] = question[q]
            \/ question'[q].reviewed \in {question[q].reviewed, None} /\ question[q] # None
  PROVE  ReviewsGranted'
  BY DEF ReviewsGranted

(* Items keep their material or get one whose evidence is verified. *)
LEMMA EvidenceByItem ==
  ASSUME EvidenceStands, source' = source, store' = store, loud' = loud,
         \A q \in Questions :
            \/ question'[q] = question[q]
            \/ question[q] # None /\ question'[q].material = question[q].material
            \/ verifyEvidence(question'[q].material)
  PROVE  EvidenceStands'
  BY DEF EvidenceStands, verifyEvidence, validHashes, get, holds, cited

LEMMA EvidenceStays ==
  ASSUME EvidenceStands, question' = question, source' = source, store \subseteq store', loud \subseteq loud',
         TypeOK
  PROVE  EvidenceStands'
  BY NoneAssumption DEF EvidenceStands, verifyEvidence, validHashes, get, holds, cited

LEMMA SpendTyped == ASSUME work \in 0..MaxWork, Spend PROVE work' \in 0..MaxWork
  BY MaxWorkAssumption DEF Spend

-----------------------------------------------------------------------------
(* The initial states, and every step. *)

LEMMA FirstMaterials ==
  /\ firstContent \in Versions /\ \A t \in Texts : firstContent \in HeldBy[t]
  /\ firstMaterial("early") \in Material /\ firstMaterial("late") \in Material
  /\ Legacy \in Question /\ Ready \in Question
  <1>1. firstContent \in Versions /\ \A t \in Texts : firstContent \in HeldBy[t]
    BY FirstContentAssumption DEF firstContent
  <1>2. /\ (CHOOSE t \in Texts : TRUE) \in Texts
        /\ (CHOOSE a \in Agents : TRUE) \in Agents
        /\ (CHOOSE h \in Humans : TRUE) \in Humans
    BY FirstContentAssumption
  <1>3. \A at \in Time : firstMaterial(at) \in Material
    BY <1>1, <1>2 DEF firstMaterial, Material, Citation
  <1>4. QED
    BY <1>1, <1>2, <1>3 DEF Legacy, Ready, Question, Status, Review, Reviewers, Time

LEMMA InitHolds == Init => IInv
  <1> SUFFICES ASSUME Init PROVE IInv
    OBVIOUS
  <1>1. TypeOK
    BY FirstMaterials, MaxWorkAssumption DEF Init, TypeOK, Source
  <1>2. ReceiptsGranted /\ ToolsNeverPoison /\ MergedAreHere
    BY DEF Init, MergedAreHere, ReceiptsGranted, ToolsNeverPoison, holders, Has
  <1>3. ReviewsGranted
    BY DEF Init, ReviewsGranted, Legacy, Ready
  <1>4. EvidenceStands
    <2> SUFFICES ASSUME NEW q \in Questions, question[q] # None, NEW ev \in question[q].material.evidence
                 PROVE  /\ source[ev.source] # None
                        /\ ev.source_sha256 \in validHashes(ev.source)
                        /\ holds(get(ev.source, ev.source_sha256), question[q].material.text)
      BY DEF EvidenceStands, verifyEvidence
    <2>1. question[q].material \in {firstMaterial("early"), firstMaterial("late")}
      BY DEF Init, Legacy, Ready
    <2>2. PICK s \in Sources : ev = [source |-> s, source_sha256 |-> firstContent]
      BY <2>1 DEF firstMaterial
    <2>3. question[q].material.text \in Texts
      BY <2>1, FirstMaterials DEF Material
    <2>4. /\ source[s] = [sha256 |-> firstContent, status |-> "current", versions |-> {}]
          /\ <<s, firstContent>> \in store
      BY DEF Init
    <2>5. firstContent # None /\ source[s] # None
      BY <2>4, FirstMaterials, NoneAssumption DEF Source
    <2>6. QED
      BY <2>2, <2>3, <2>4, <2>5, FirstMaterials DEF validHashes, get, holds
  <1>5. QED
    BY <1>1, <1>2, <1>3, <1>4 DEF IInv

LEMMA PageChangesKeeps == ASSUME IInv, NEW s \in Sources, PageChanges(s) PROVE IInv'
  <1>1. TypeOK'
    BY SpendTyped DEF IInv, TypeOK, PageChanges
  <1>2. QED
    BY <1>1, ReceiptsStay, ReviewsStay, EvidenceStays DEF IInv, PageChanges

LEMMA CaptureKeeps == ASSUME IInv, NEW s \in Sources, capture(s) PROVE IInv'
  <1>0. /\ page[s] \in Versions /\ store' = store \cup {<<s, page[s]>>}
        /\ source' \in {source, [source EXCEPT ![s] = buildSourceRecord(source[s], page[s])]}
        /\ loud' = IF /\ source'[s] # source[s] /\ source[s] # None
                      /\ source[s].status # "drifted" /\ source[s].sha256 # page[s]
                   THEN loud \cup {s} ELSE loud
    BY DEF IInv, TypeOK, capture, fetchSource, put
  <1>1. buildSourceRecord(source[s], page[s]) \in Source
    BY <1>0 DEF IInv, TypeOK, buildSourceRecord, mergeVersions, Source
  <1>2. TypeOK'
    BY <1>0, <1>1 DEF IInv, TypeOK, capture
  <1>3. EvidenceStands'
    <2> SUFFICES ASSUME NEW q \in Questions, question[q] # None,
                        cited(question[q].material) \cap loud' = {}
                 PROVE  verifyEvidence(question[q].material)'
      BY DEF EvidenceStands, capture, verifyEvidence, validHashes, get, holds, cited
    <2> DEFINE m == question[q].material
    <2>1. verifyEvidence(m)
      BY <1>0 DEF IInv, EvidenceStands
    <2> SUFFICES ASSUME NEW ev \in m.evidence
                 PROVE  /\ source'[ev.source] # None
                        /\ ev.source_sha256 \in validHashes(ev.source)'
                        /\ holds(get(ev.source, ev.source_sha256), m.text)'
      BY DEF verifyEvidence, capture
    <2>0. ev.source \in Sources
      BY DEF IInv, TypeOK, Question, Material, Citation
    <2>2. /\ source[ev.source] # None
          /\ ev.source_sha256 \in validHashes(ev.source)
          /\ holds(get(ev.source, ev.source_sha256), m.text)
      BY <2>1 DEF verifyEvidence
    <2>3. holds(get(ev.source, ev.source_sha256), m.text)'
      BY <1>0, <2>2 DEF holds, get, capture
    <2>4. CASE source' = source \/ ev.source # s
      BY <1>0, <2>0, <2>2, <2>3, <2>4 DEF validHashes, IInv, TypeOK
    <2>5. CASE ev.source = s /\ source' # source
      <3>1. source'[s] = buildSourceRecord(source[s], page[s]) /\ source'[s] # source[s]
        BY <1>0, <2>5 DEF IInv, TypeOK
      <3>2. s \notin loud'
        BY <2>5 DEF cited
      <3>3. source[s].status = "drifted" \/ source[s].sha256 = page[s]
        BY <1>0, <2>2, <2>5, <3>1, <3>2
      <3>4. QED
        BY <1>1, <2>2, <2>3, <2>5, <3>1, <3>3, NoneAssumption DEF validHashes, buildSourceRecord, mergeVersions
    <2>6. QED
      BY <2>4, <2>5
  <1>4. QED
    BY <1>2, <1>3, ReceiptsStay, ReviewsStay DEF IInv, capture

LEMMA RecordsKeep ==
  ASSUME IInv, (\E reached \in SUBSET Sources : check(reached)) \/ (\E s \in Sources : Deprecate(s))
  PROVE  IInv'
  <1>0. /\ UNCHANGED <<page, store, question, receipt, bundle, history>>
        /\ work' \in 0..MaxWork
        /\ source' \in [Sources -> Source \cup {None}]
        /\ \A s \in Sources : /\ source[s] # None => source'[s] # None
                              /\ source[s] # None => /\ source'[s].sha256 = source[s].sha256
                                                     /\ source'[s].versions = source[s].versions
    <2>1. \A s \in Sources, st \in {"drifted", "deprecated"} :
            source[s] # None => /\ [source[s] EXCEPT !.status = st] \in Source
                                /\ [source[s] EXCEPT !.status = st].sha256 = source[s].sha256
                                /\ [source[s] EXCEPT !.status = st].versions = source[s].versions
      BY DEF IInv, TypeOK, Source
    <2>2. ASSUME NEW reached \in SUBSET Sources, check(reached)  PROVE <1>0!:
      BY <2>1, <2>2, NoneAssumption DEF check, drifts, IInv, TypeOK
    <2>3. ASSUME NEW s \in Sources, Deprecate(s)  PROVE <1>0!:
      <3>1. /\ UNCHANGED <<page, store, question, receipt, bundle, history>>
            /\ work' \in 0..MaxWork
            /\ source[s] # None
            /\ source' = [source EXCEPT ![s] = [source[s] EXCEPT !.status = "deprecated"]]
        BY <2>3, SpendTyped DEF Deprecate, IInv, TypeOK
      <3>2. QED
        BY <2>1, <3>1, NoneAssumption DEF IInv, TypeOK
    <2>4. QED
      BY <2>2, <2>3
  <1>1. TypeOK'
    BY <1>0 DEF IInv, TypeOK
  <1>2. \A s \in Sources : source[s] # None => validHashes(s)' = validHashes(s)
    BY <1>0 DEF validHashes
  <1>3. EvidenceStands'
    BY <1>0, <1>2 DEF IInv, TypeOK, Question, Material, Citation, EvidenceStands, verifyEvidence, get, holds, cited
  <1>4. QED
    BY <1>0, <1>1, <1>3, ReceiptsStay, ReviewsStay DEF IInv

-----------------------------------------------------------------------------
(* Steps that change questions. *)

(* The review block r of q, if a person gave it, was given. *)
Given(q, r) ==
    r # None /\ r.by \in Humans /\ r.content_sha256 # None =>
        <<q, r.content_sha256, r.by>> \in granted'

(* An item stays, or keeps its material or has it verified, and its review *)
(* block is the old one or was given.                                      *)
Sound(q) ==
    \/ question'[q] = question[q]
    \/ /\ question'[q] \in Question
       /\ \/ question[q] # None /\ question'[q].material = question[q].material
          \/ verifyEvidence(question'[q].material)
       /\ \/ question[q] # None /\ question'[q].reviewed = question[q].reviewed
          \/ Given(q, question'[q].reviewed)

LEMMA ItemsKeep ==
  ASSUME IInv, UNCHANGED <<page, store, source, receipt, bundle, loud, merged>>,
         granted \subseteq granted', granted' \subseteq Questions \X Material \X Reviewers,
         work' \in 0..MaxWork, DOMAIN question' = Questions, question' = [q \in Questions |-> question'[q]],
         \A q \in Questions : Sound(q)
  PROVE  IInv'
  <1>1. TypeOK'
    BY DEF IInv, TypeOK, Sound
  <1>2. ReviewsGranted'
    BY DEF IInv, ReviewsGranted, Sound, Given
  <1>3. EvidenceStands'
    BY EvidenceByItem DEF IInv, Sound
  <1>4. QED
    BY <1>1, <1>2, <1>3, ReceiptsStay DEF IInv

LEMMA NewMaterials ==
  ASSUME IInv, NEW a \in Agents, NEW t \in Texts, NEW at \in Time,
         NEW S \in SUBSET {s \in Sources : source[s] # None}
  PROVE  newMaterial(a, t, at, S) \in Material
  BY DEF IInv, TypeOK, newMaterial, Material, Citation, Source, Time

LEMMA AuthorKeeps ==
  ASSUME IInv, NEW q \in Questions, NEW m \in Material, Author(q, m)
  PROVE  IInv'
  <1> DEFINE item == [status |-> "review_ready", material |-> m, reviewed |-> None]
  <1>1. item \in Question
    BY DEF Question, Status
  <1>2. \A p \in Questions : Sound(p)
    BY <1>1 DEF Author, Sound, Given, IInv, TypeOK
  <1>3. QED
    BY <1>2, ItemsKeep, SpendTyped DEF Author, IInv, TypeOK

LEMMA EditKeeps ==
  ASSUME IInv, NEW q \in Questions, NEW m \in Material, Edit(q, m)
  PROVE  IInv'
  <1> DEFINE item == [question[q] EXCEPT !.material = m]
  <1>1. /\ question[q] # None /\ question' = [question EXCEPT ![q] = item]
        /\ verifyEvidence(m) /\ UNCHANGED <<page, store, source, receipt, bundle, history>>
        /\ work' \in 0..MaxWork
    BY SpendTyped DEF Edit, IInv, TypeOK
  <1>2. item \in Question /\ item.material = m /\ item.reviewed = question[q].reviewed
    BY <1>1 DEF Question, IInv, TypeOK
  <1>3. \A p \in Questions : Sound(p)
    BY <1>1, <1>2 DEF Sound, IInv, TypeOK
  <1>4. QED
    BY <1>1, <1>3, ItemsKeep DEF IInv, TypeOK

LEMMA HandReviewKeeps ==
  ASSUME IInv, NEW q \in Questions, NEW r \in Reviewers, NEW at \in Time, NEW hashed \in BOOLEAN,
         HandReview(q, r, at, hashed)
  PROVE  IInv'
  <1> DEFINE m == question[q].material
             rev == [by |-> r, at |-> at, content_sha256 |-> IF hashed THEN m ELSE None]
             item == [question[q] EXCEPT !.status = "published", !.reviewed = rev]
  <1>1. /\ question[q] # None /\ question' = [question EXCEPT ![q] = item]
        /\ granted' = IF r \in Humans /\ hashed THEN granted \cup {<<q, m, r>>} ELSE granted
        /\ UNCHANGED <<page, store, source, receipt, bundle, loud, merged>>
        /\ work' \in 0..MaxWork
    BY SpendTyped DEF HandReview, IInv, TypeOK
  <1>2. question[q] \in Question /\ m \in Material
    BY <1>1 DEF Question, IInv, TypeOK
  <1>3. rev \in Review
    BY <1>2 DEF Review
  <1>4. item \in Question /\ item.material = m /\ item.reviewed = rev
    BY <1>2, <1>3 DEF Question, Status
  <1>5. Given(q, rev)
    BY <1>1 DEF Given
  <1>6. \A p \in Questions : Sound(p)
    BY <1>1, <1>4, <1>5 DEF Sound, IInv, TypeOK
  <1>7. granted \subseteq granted' /\ granted' \subseteq Questions \X Material \X Reviewers
    BY <1>1, <1>2 DEF IInv, TypeOK
  <1>8. QED
    BY <1>1, <1>6, <1>7, ItemsKeep DEF IInv, TypeOK

LEMMA PromoteKeeps ==
  ASSUME IInv, NEW r \in Reviewers, NEW ids \in SUBSET Questions, NEW f \in Files, promoteQuestions(r, ids, f)
  PROVE  IInv'
  <1>1. PICK done \in SUBSET ids :
          /\ question' = [q \in Questions |->
                IF q \in done
                THEN [question[q] EXCEPT !.status = "published", !.reviewed = stamp(r, q)]
                ELSE question[q]]
          /\ granted' = IF r \in Agents THEN granted
                        ELSE granted \cup {<<q, question[q].material, r>> : q \in done}
    BY DEF promoteQuestions
  <1>2. /\ UNCHANGED <<page, store, source, receipt, bundle, loud, merged, work>>
        /\ \A q \in done : question[q] # None
    BY DEF promoteQuestions
  <1>3. \A q \in done : question[q] \in Question /\ question[q].material \in Material
    BY <1>2 DEF Question, IInv, TypeOK
  <1>4. \A q \in Questions : Sound(q)
    <2> SUFFICES ASSUME NEW q \in done PROVE Sound(q)
      BY <1>1 DEF Sound
    <2> DEFINE item == [question[q] EXCEPT !.status = "published", !.reviewed = stamp(r, q)]
    <2>1. stamp(r, q) \in Review
      BY <1>3 DEF stamp, Review, questionFingerprint, Time
    <2>2. item \in Question /\ item.material = question[q].material /\ item.reviewed = stamp(r, q)
      BY <1>3, <2>1 DEF Question, Status
    <2>3. Given(q, stamp(r, q))
      BY <1>1, PeopleAssumption DEF Given, stamp, questionFingerprint
    <2>4. QED
      BY <1>1, <1>2, <2>2, <2>3 DEF Sound
  <1>5. granted \subseteq granted' /\ granted' \subseteq Questions \X Material \X Reviewers
    <2>1. \A q \in done : <<q, question[q].material, r>> \in Questions \X Material \X Reviewers
      BY <1>3
    <2>2. granted \subseteq Questions \X Material \X Reviewers
      BY DEF IInv, TypeOK
    <2>3. CASE r \in Agents
      BY <1>1, <2>2, <2>3
    <2>4. CASE r \notin Agents
      <3>1. granted' = granted \cup {<<q, question[q].material, r>> : q \in done}
        BY <1>1, <2>4
      <3>2. \A g \in granted' : g \in granted \/ \E q \in done : g = <<q, question[q].material, r>>
        BY <3>1
      <3>3. QED
        BY <2>1, <2>2, <3>1, <3>2
    <2>5. QED
      BY <2>3, <2>4
  <1>6. QED
    BY <1>1, <1>2, <1>4, <1>5, ItemsKeep DEF IInv, TypeOK

LEMMA DemoteKeeps ==
  ASSUME IInv, NEW ids \in SUBSET Questions, demote(ids)
  PROVE  IInv'
  <1>1. \A q \in Questions : Sound(q)
    <2> SUFFICES ASSUME NEW q \in ids PROVE Sound(q)
      BY DEF Sound, demote
    <2> DEFINE item == [question[q] EXCEPT !.status = "needs_review", !.reviewed = None]
    <2>1. question[q] # None /\ question[q] \in Question /\ question'[q] = item
      BY DEF demote, IInv, TypeOK
    <2>2. item \in Question /\ item.material = question[q].material /\ item.reviewed = None
      BY <2>1 DEF Question, Status
    <2>3. QED
      BY <2>1, <2>2 DEF Sound, Given
  <1>2. QED
    BY <1>1, ItemsKeep DEF demote, IInv, TypeOK

LEMMA QuarantineKeeps == ASSUME IInv, quarantineDriftedQuestions PROVE IInv'
  <1>1. PICK done \in SUBSET dependents :
          question' = [q \in Questions |->
            IF q \in done THEN [question[q] EXCEPT !.status = "needs_review"] ELSE question[q]]
    BY DEF quarantineDriftedQuestions
  <1>2. \A q \in Questions : Sound(q)
    <2> SUFFICES ASSUME NEW q \in done PROVE Sound(q)
      BY <1>1 DEF Sound
    <2> DEFINE item == [question[q] EXCEPT !.status = "needs_review"]
    <2>1. q \in Questions /\ question[q] # None /\ question[q] \in Question /\ question'[q] = item
      BY <1>1 DEF dependents, IInv, TypeOK
    <2>2. item \in Question /\ item.material = question[q].material /\ item.reviewed = question[q].reviewed
      BY <2>1 DEF Question, Status
    <2>3. QED
      BY <2>1, <2>2 DEF Sound
  <1>3. QED
    BY <1>1, <1>2, ItemsKeep DEF quarantineDriftedQuestions, IInv, TypeOK

LEMMA RevalidateKeeps ==
  ASSUME IInv, NEW ids \in SUBSET Questions, revalidateContent(ids)
  PROVE  IInv'
  <1>1. PICK answered \in SUBSET ids :
          question' = [q \in Questions |->
            IF q \in answered /\ allExcerptsMatched(question[q].material)
            THEN [status |-> "review_ready", material |-> repinned(question[q].material),
                  reviewed |-> None]
            ELSE question[q]]
    BY DEF revalidateContent
  <1>2. \A q \in Questions : Sound(q)
    <2> SUFFICES ASSUME NEW q \in answered, allExcerptsMatched(question[q].material) PROVE Sound(q)
      BY <1>1 DEF Sound
    <2> DEFINE m == question[q].material
    <2>1. m \in Material /\ cited(m) \subseteq Sources
      BY DEF revalidateContent, IInv, TypeOK, Question, Material, Citation, cited
    <2>2. \A s \in cited(m) : /\ source[s] # None /\ source[s].sha256 \in Versions
                             /\ holds(get(s, source[s].sha256), m.text)
      BY <2>1 DEF allExcerptsMatched, IInv, TypeOK, Source
    <2>3. /\ repinned(m).evidence = {[source |-> s, source_sha256 |-> source[s].sha256] : s \in cited(m)}
          /\ repinned(m).text = m.text
      BY <2>1 DEF repinned, Material
    <2>4. repinned(m) \in Material
      <3>1. {[source |-> s, source_sha256 |-> source[s].sha256] : s \in cited(m)} \in SUBSET Citation
        BY <2>1, <2>2 DEF Citation
      <3>2. QED
        BY <2>1, <3>1 DEF repinned, Material
    <2>5. verifyEvidence(repinned(m))
      BY <2>2, <2>3 DEF verifyEvidence, validHashes
    <2>6. question'[q] = [status |-> "review_ready", material |-> repinned(m), reviewed |-> None]
      BY <1>1
    <2>7. question'[q] \in Question
      BY <2>4, <2>6 DEF Question, Status
    <2>8. QED
      BY <2>5, <2>6, <2>7 DEF Sound, Given
  <1>3. QED
    BY <1>1, <1>2, ItemsKeep DEF revalidateContent, IInv, TypeOK

-----------------------------------------------------------------------------
(* Steps that change receipts. *)

(* What the removal of r's older entries for ids leaves of receipt g. *)
Remains(old, new, r, ids, other) ==
    /\ old # None => new # None
    /\ new # None =>
       /\ old # None /\ new.reviewer = old.reviewer
       /\ \A q \in Questions :
             /\ new.questions[q] \in {old.questions[q], None}
             /\ q \notin ids => new.questions[q] = old.questions[q]
             /\ (q \in ids /\ other /\ new.reviewer = r) => new.questions[q] = None

LEMMA Superseding ==
  ASSUME TypeOK, NEW f \in Files, NEW r \in Agents, NEW ids \in SUBSET Questions
  PROVE  /\ supersedeElsewhere(f, r, ids) \in [Files -> Receipt \cup {None}]
         /\ supersedeElsewhere(f, r, ids)[f] = receipt[f]
         /\ \A g \in Files : Remains(receipt[g], supersedeElsewhere(f, r, ids)[g], r, ids, g # f)
  <1> DEFINE rest == supersedeElsewhere(f, r, ids)
             new(g) == [receipt[g] EXCEPT !.questions =
                          [q \in Questions |-> IF q \in ids THEN None ELSE receipt[g].questions[q]]]
  <1>1. \A g \in Files :
           rest[g] = IF g # f /\ receipt[g] # None /\ receipt[g].reviewer = r THEN new(g) ELSE receipt[g]
    BY DEF supersedeElsewhere
  <1>2. ASSUME NEW g \in Files, receipt[g] # None
        PROVE  /\ receipt[g] \in Receipt /\ new(g) \in Receipt /\ new(g).reviewer = receipt[g].reviewer
               /\ \A q \in Questions :
                     new(g).questions[q] = IF q \in ids THEN None ELSE receipt[g].questions[q]
    <2>1. receipt[g] \in Receipt
      BY <1>2 DEF TypeOK
    <2>2. [q \in Questions |-> IF q \in ids THEN None ELSE receipt[g].questions[q]]
            \in [Questions -> Entry \cup {None}]
      BY <2>1 DEF Receipt
    <2>3. QED
      BY <2>1, <2>2 DEF Receipt
  <1>3. rest = [g \in Files |-> rest[g]]
    BY DEF supersedeElsewhere
  <1> HIDE DEF rest, new
  <1>4. rest \in [Files -> Receipt \cup {None}]
    BY <1>1, <1>2, <1>3 DEF TypeOK
  <1>5. ASSUME NEW g \in Files PROVE Remains(receipt[g], rest[g], r, ids, g # f)
    <2>1. CASE g # f /\ receipt[g] # None /\ receipt[g].reviewer = r
      BY <1>1, <1>2, <2>1, NoneAssumption DEF Remains
    <2>2. CASE ~ (g # f /\ receipt[g] # None /\ receipt[g].reviewer = r)
      BY <1>1, <2>2 DEF Remains
    <2>3. QED
      BY <2>1, <2>2
  <1>6. QED
    BY <1>1, <1>4, <1>5 DEF rest

(* What an accepted run writes is a receipt. *)
LEMMA BuiltIsReceipt ==
  ASSUME TypeOK, NEW f \in Files, NEW r \in Agents, NEW ids \in SUBSET Questions,
         NEW approved \in SUBSET ids, \A q \in ids : question[q] # None
  PROVE  buildReceipt(f, r, ids, approved) \in Receipt
  <1> DEFINE built == buildReceipt(f, r, ids, approved)
  <1>1. \A q \in ids : question[q].material \in Material
    BY DEF TypeOK, Question
  <1>2. \A q \in Questions :
          built.questions[q] = IF q \in ids
                               THEN [approved |-> q \in approved, content_sha256 |-> question[q].material]
                               ELSE IF receipt[f] = None THEN None ELSE receipt[f].questions[q]
    BY DEF buildReceipt, questionFingerprint
  <1>3. built = [reviewer |-> r, questions |-> [q \in Questions |-> built.questions[q]]]
    BY DEF buildReceipt
  <1> HIDE DEF built
  <1>4. ASSUME NEW q \in Questions PROVE built.questions[q] \in Entry \cup {None}
    <2>1. CASE q \in ids
      <3>1. (q \in approved) \in BOOLEAN
        OBVIOUS
      <3>2. [approved |-> q \in approved, content_sha256 |-> question[q].material] \in Entry
        BY <1>1, <2>1, <3>1, Zenon DEF Entry
      <3>3. QED
        BY <1>2, <2>1, <3>2
    <2>2. CASE q \notin ids
      BY <1>2, <2>2 DEF TypeOK, Receipt
    <2>3. QED
      BY <2>1, <2>2
  <1>5. [q \in Questions |-> built.questions[q]] \in [Questions -> Entry \cup {None}]
    BY <1>4
  <1>6. built \in Receipt
    BY <1>3, <1>5 DEF Receipt
  <1>7. QED
    BY <1>6 DEF built

LEMMA ReviewReceiptKeeps ==
  ASSUME IInv, NEW f \in Files, NEW r \in Agents, NEW ids \in SUBSET Questions,
         NEW approved \in SUBSET ids, NEW s \in BOOLEAN,
         reviewReceipt(f, r, ids, approved, s)
  PROVE  IInv'
  <1> DEFINE rest == IF s THEN supersedeElsewhere(f, r, ids) ELSE receipt
             built == buildReceipt(f, r, ids, approved)
  <1>1. /\ UNCHANGED <<page, store, source, question, bundle, loud, merged>>
        /\ work' \in 0..MaxWork
        /\ \/ receipt' \in {receipt, rest} /\ granted' = granted
           \/ /\ ~ buildReceipt_Refused(f, r, ids, s)
              /\ receipt' = [rest EXCEPT ![f] = built]
              /\ granted' = granted \cup {<<q, question[q].material, r>> : q \in approved}
    BY SpendTyped DEF reviewReceipt, refusedReceipt, IInv, TypeOK
  <1>2. /\ rest \in [Files -> Receipt \cup {None}] /\ rest[f] = receipt[f]
        /\ \A g \in Files : Remains(receipt[g], rest[g], r, ids, g # f /\ s)
    BY Superseding DEF Remains, IInv, TypeOK
  <1> HIDE DEF rest
  <1>3. CASE receipt' \in {receipt, rest} /\ granted' = granted
    <2>1. TypeOK'
      BY <1>1, <1>2, <1>3 DEF IInv, TypeOK
    <2>2. \A g \in Files, q \in Questions :
             receipt'[g] # None /\ receipt'[g].questions[q] # None =>
                /\ receipt[g] # None /\ receipt'[g].reviewer = receipt[g].reviewer
                /\ receipt'[g].questions[q] = receipt[g].questions[q]
      BY <1>2, <1>3 DEF Remains
    <2>3. ReceiptsGranted'
      BY <1>3, <2>2 DEF IInv, ReceiptsGranted
    <2>4. ToolsNeverPoison'
      BY <1>1, <2>2 DEF IInv, ToolsNeverPoison, holders, Has
    <2>5. MergedAreHere'
      BY <1>1, <1>2, <1>3 DEF IInv, TypeOK, MergedAreHere, Remains
    <2>6. QED
      BY <1>1, <1>3, <2>1, <2>3, <2>4, <2>5, ReviewsStay, EvidenceStays DEF IInv
  <1>4. CASE /\ ~ buildReceipt_Refused(f, r, ids, s)
             /\ receipt' = [rest EXCEPT ![f] = built]
             /\ granted' = granted \cup {<<q, question[q].material, r>> : q \in approved}
    <2>1. /\ receipt[f] # None => receipt[f].reviewer = r
          /\ \A q \in ids : /\ question[q] # None
                            /\ s \/ ~ elsewhere(f, r, q)
      BY <1>4 DEF buildReceipt_Refused
    <2>2. \A q \in ids : question[q].material \in Material
      BY <2>1 DEF IInv, TypeOK, Question
    <2>3. /\ built.reviewer = r
          /\ \A q \in Questions :
                built.questions[q] = IF q \in ids
                                     THEN [approved |-> q \in approved, content_sha256 |-> question[q].material]
                                     ELSE IF receipt[f] = None THEN None ELSE receipt[f].questions[q]
      BY DEF buildReceipt, questionFingerprint
    <2>4. built \in Receipt
      BY <2>1, BuiltIsReceipt DEF IInv
    <2> HIDE DEF built
    <2>5. /\ granted \subseteq granted' /\ granted' \subseteq Questions \X Material \X Reviewers
          /\ \A q \in approved : <<q, question[q].material, r>> \in granted'
      <3>1. \A q \in approved : <<q, question[q].material, r>> \in Questions \X Material \X Reviewers
        BY <2>2 DEF Reviewers
      <3>2. \A g \in granted' : g \in granted \/ \E q \in approved : g = <<q, question[q].material, r>>
        BY <1>4
      <3>3. QED
        BY <1>4, <3>1, <3>2 DEF IInv, TypeOK
    <2>6. receipt' \in [Files -> Receipt \cup {None}]
      BY <1>2, <1>4, <2>4
    <2>7. /\ receipt'[f] = built
          /\ \A g \in Files \ {f} : receipt'[g] = rest[g]
      BY <1>2, <1>4
    <2>8. TypeOK'
      BY <1>1, <2>5, <2>6 DEF IInv, TypeOK
    <2>9. ReceiptsGranted'
      <3> SUFFICES ASSUME NEW g \in Files, NEW q \in Questions, receipt'[g] # None,
                          receipt'[g].questions[q] # None, receipt'[g].questions[q].approved
                   PROVE  <<q, receipt'[g].questions[q].content_sha256, receipt'[g].reviewer>> \in granted'
        BY DEF ReceiptsGranted
      <3>1. CASE g = f /\ q \in ids
        <4>1. receipt'[g].questions[q] = [approved |-> q \in approved, content_sha256 |-> question[q].material]
          BY <2>3, <2>7, <3>1
        <4>2. q \in approved
          <5> SUFFICES ASSUME q \notin approved PROVE FALSE
            OBVIOUS
          <5>1. (q \in approved) = FALSE
            OBVIOUS
          <5>2. receipt'[g].questions[q] = [approved |-> FALSE, content_sha256 |-> question[q].material]
            BY <4>1, <5>1, Zenon
          <5>3. QED
            BY <5>2
        <4>4. receipt'[g].questions[q].content_sha256 = question[q].material
          BY <4>1
        <4>3. QED
          BY <2>3, <2>5, <2>7, <3>1, <4>2, <4>4
      <3>2. CASE g = f /\ q \notin ids
        BY <2>1, <2>3, <2>5, <2>7, <3>2 DEF IInv, ReceiptsGranted
      <3>3. CASE g # f
        BY <1>2, <2>5, <2>7, <3>3 DEF IInv, ReceiptsGranted, Remains
      <3>4. QED
        BY <3>1, <3>2, <3>3
    <2>10. ToolsNeverPoison'
      <3>1. ASSUME NEW g \in Files, NEW t \in Agents, NEW q \in Questions, Has(g, t, q)'
            PROVE  \/ Has(g, t, q) /\ ~ (g # f /\ t = r /\ q \in ids)
                   \/ g = f /\ t = r /\ q \in ids
        <4>1. receipt'[g] # None /\ receipt'[g].reviewer = t /\ receipt'[g].questions[q] # None
          BY <3>1 DEF Has
        <4>2. CASE g = f
          BY <2>1, <2>3, <2>7, <4>1, <4>2 DEF Has
        <4>3. CASE g # f
          <5>1. Has(g, t, q) /\ ~ (s /\ t = r /\ q \in ids)
            BY <1>2, <2>7, <4>1, <4>3 DEF Has, Remains
          <5>2. t = r /\ q \in ids => s
            BY <2>1, <4>3, <5>1 DEF elsewhere
          <5>3. QED
            BY <5>1, <5>2
        <4>4. QED
          BY <4>2, <4>3
      <3>2. \A t \in Agents, q \in Questions : \A g, h \in Files :
               Has(g, t, q)' /\ Has(h, t, q)' => g = h \/ g \in merged \/ h \in merged
        BY <3>1 DEF IInv, ToolsNeverPoison, holders
      <3>3. QED
        BY <1>1, <3>2 DEF ToolsNeverPoison, holders
    <2>11. MergedAreHere'
      BY <1>1, <1>2, <2>4, <2>7, NoneAssumption DEF IInv, TypeOK, MergedAreHere, Remains
    <2>12. QED
      BY <1>1, <2>5, <2>8, <2>9, <2>10, <2>11, ReviewsStay, EvidenceStays DEF IInv
  <1>5. QED
    BY <1>1, <1>3, <1>4

LEMMA MergeReceiptKeeps ==
  ASSUME IInv, NEW f \in Files, NEW r \in Agents, NEW q \in Questions, NEW a \in BOOLEAN,
         MergeReceipt(f, r, q, a)
  PROVE  IInv'
  <1> DEFINE m == question[q].material
             entry == [approved |-> a, content_sha256 |-> m]
             new == [reviewer |-> r, questions |-> [p \in Questions |-> IF p = q THEN entry ELSE None]]
  <1>1. /\ receipt[f] = None /\ question[q] # None
        /\ receipt' = [receipt EXCEPT ![f] = new]
        /\ granted' = IF a THEN granted \cup {<<q, m, r>>} ELSE granted
        /\ merged' = merged \cup {f}
        /\ UNCHANGED <<page, store, source, question, bundle, loud>>
        /\ work' \in 0..MaxWork
    BY SpendTyped DEF MergeReceipt, IInv, TypeOK
  <1>2. m \in Material
    BY <1>1 DEF IInv, TypeOK, Question
  <1>3. entry \in Entry
    BY <1>2 DEF Entry
  <1>4. new \in Receipt
    <2>1. [p \in Questions |-> IF p = q THEN entry ELSE None] \in [Questions -> Entry \cup {None}]
      BY <1>3
    <2>2. QED
      BY <2>1 DEF Receipt
  <1>5. granted \subseteq granted' /\ granted' \subseteq Questions \X Material \X Reviewers
    BY <1>1, <1>2 DEF IInv, TypeOK, Reviewers
  <1>6. TypeOK'
    BY <1>1, <1>4, <1>5 DEF IInv, TypeOK
  <1>7. /\ receipt'[f] = new /\ \A g \in Files \ {f} : receipt'[g] = receipt[g]
    BY <1>1 DEF IInv, TypeOK
  <1>8. ReceiptsGranted'
    BY <1>1, <1>5, <1>7 DEF IInv, ReceiptsGranted
  <1>9. ToolsNeverPoison'
    BY <1>1, <1>7 DEF IInv, ToolsNeverPoison, holders, Has
  <1>10. MergedAreHere'
    BY <1>1, <1>4, <1>7, NoneAssumption DEF IInv, TypeOK, MergedAreHere
  <1>11. QED
    BY <1>1, <1>5, <1>6, <1>8, <1>9, <1>10, ReviewsStay, EvidenceStays DEF IInv

-----------------------------------------------------------------------------
(* The build, and the invariant. *)

LEMMA BuildKeeps == ASSUME IInv, Build PROVE IInv'
  <1>1. \A q \in Questions : isEligibleForBundle(q) => question[q].material \in Material
    BY DEF isEligibleForBundle, IInv, TypeOK, Question
  <1>2. bundle' \subseteq Questions \X Material \X BOOLEAN
    <2>1. ASSUME NEW q \in Questions, isEligibleForBundle(q), NEW hashed \in BOOLEAN
          PROVE  <<q, question[q].material, hashed>> \in Questions \X Material \X BOOLEAN
      BY <1>1, <2>1
    <2>2. ASSUME NEW q \in Questions PROVE (question[q].reviewed.content_sha256 # None) \in BOOLEAN
      OBVIOUS
    <2>3. QED
      BY <2>1, <2>2, Zenon DEF Build
  <1>3. TypeOK'
    BY <1>2 DEF Build, IInv, TypeOK
  <1>4. QED
    BY <1>3, ReceiptsStay, ReviewsStay, EvidenceStays DEF IInv, Build

LEMMA StepKeeps == IInv /\ [Next]_vars => IInv'
  <1> SUFFICES ASSUME IInv, [Next]_vars PROVE IInv'
    OBVIOUS
  <1>1. ASSUME NEW s \in Sources, PageChanges(s) \/ capture(s) \/ Deprecate(s)  PROVE IInv'
    BY <1>1, PageChangesKeeps, CaptureKeeps, RecordsKeep
  <1>2. ASSUME NEW reached \in SUBSET Sources, check(reached)  PROVE IInv'
    BY <1>2, RecordsKeep
  <1>3. ASSUME NEW q \in Questions, NEW a \in Agents, NEW t \in Texts, NEW at \in Time,
               NEW S \in (SUBSET {s \in Sources : source[s] # None}) \ {{}},
               Author(q, newMaterial(a, t, at, S)) \/ Edit(q, newMaterial(a, t, at, S))
        PROVE  IInv'
    BY <1>3, NewMaterials, AuthorKeeps, EditKeeps
  <1>4. ASSUME NEW q \in Questions, NEW by \in Reviewers, NEW at \in Time, NEW hashed \in BOOLEAN,
               HandReview(q, by, at, hashed)
        PROVE  IInv'
    BY <1>4, HandReviewKeeps
  <1>5. ASSUME NEW f \in Files, NEW r \in Agents, NEW ids \in (SUBSET Questions) \ {{}}, NEW s \in BOOLEAN,
               NEW approved \in SUBSET ids, reviewReceipt(f, r, ids, approved, s)
        PROVE  IInv'
    BY <1>5, ReviewReceiptKeeps
  <1>6. ASSUME NEW f \in Files, NEW r \in Agents, NEW q \in Questions, NEW a \in BOOLEAN,
               MergeReceipt(f, r, q, a)
        PROVE  IInv'
    BY <1>6, MergeReceiptKeeps
  <1>7. ASSUME NEW r \in Reviewers, NEW ids \in (SUBSET Questions) \ {{}}, NEW f \in Files,
               promoteQuestions(r, ids, f)
        PROVE  IInv'
    BY <1>7, PromoteKeeps
  <1>8. ASSUME NEW ids \in SUBSET Questions, demote(ids) \/ revalidateContent(ids)  PROVE IInv'
    BY <1>8, DemoteKeeps, RevalidateKeeps
  <1>9. CASE quarantineDriftedQuestions \/ Build
    BY <1>9, QuarantineKeeps, BuildKeeps
  <1>10. CASE UNCHANGED vars
    <2>1. TypeOK'
      BY <1>10 DEF IInv, TypeOK
    <2>2. QED
      BY <1>10, <2>1, ReceiptsStay, ReviewsStay, EvidenceStays DEF IInv
  <1>11. QED
    BY <1>1, <1>2, <1>3, <1>4, <1>5, <1>6, <1>7, <1>8, <1>9, <1>10 DEF Next

LEMMA Invariance == Spec => []IInv
  BY InitHolds, StepKeeps, PTL DEF Spec

(* Every variable keeps its type. *)
THEOREM TypeCorrect == Spec => []TypeOK
  <1>1. IInv => TypeOK  BY DEF IInv
  <1>2. QED  BY <1>1, Invariance, PTL

(* review-receipt.mjs never leaves a reviewer with two entries for one     *)
(* question, however runs are refused, repeated or killed half-way.        *)
THEOREM ToolsKeepReceiptsUnique == Spec => []ToolsNeverPoison
  <1>1. IInv => ToolsNeverPoison  BY DEF IInv
  <1>2. QED  BY <1>1, Invariance, PTL

(* What is merged can be checked against the snapshots it quotes, for any  *)
(* number of drifts, re-captures and re-validations.                       *)
THEOREM EvidenceCanBeChecked == Spec => []EvidenceStands
  <1>1. IInv => EvidenceStands  BY DEF IInv
  <1>2. QED  BY <1>1, Invariance, PTL

(* A question its reviewer has a rejection of on record does not ship.     *)
THEOREM RejectionsStand == Spec => []RejectionStands
  <1>1. ASSUME IInv  PROVE RejectionStands
    <2> SUFFICES ASSUME NEW q \in Questions, isEligibleForBundle(q),
                        NEW f \in Files, Has(f, question[q].reviewed.by, q)
                 PROVE  receipt[f].questions[q].approved
      BY DEF RejectionStands
    <2> DEFINE r == question[q].reviewed.by
    <2>1. r \in Agents
      BY <1>1 DEF Has, IInv, TypeOK, Receipt
    <2>2. loadReviewReceipts(r, q) # None /\ loadReviewReceipts(r, q).approved
      BY <2>1 DEF isEligibleForBundle, receiptProblems
    <2>3. PICK g \in Files : holders(r, q) = {g}
      BY <2>2 DEF loadReviewReceipts
    <2>4. (CHOOSE h \in Files : holders(r, q) = {h}) = g
      <3>1. \A h \in Files : holders(r, q) = {h} => h = g
        BY <2>3
      <3>2. QED
        BY <2>3, <3>1
    <2>5. f = g
      BY <2>3 DEF holders
    <2>6. QED
      BY <2>2, <2>3, <2>4, <2>5 DEF loadReviewReceipts
  <1>2. QED
    BY <1>1, Invariance, PTL

-----------------------------------------------------------------------------
(* The pipeline implements Publication. *)

LEMMA PromiseInit == Init => Promise!Init
  <1> SUFFICES ASSUME Init PROVE Promise!Init
    OBVIOUS
  <1>1. unusable = {}
    BY DEF Init, unusable
  <1>2. QED
    BY <1>1 DEF Init, Promise!Init, fingerprinted

(* What an item that ships has: an approval of its very material by one    *)
(* who did not write it, and sources that stand.                           *)
LEMMA EligibleIsApproved ==
  ASSUME IInv, NEW q \in Questions, isEligibleForBundle(q), question[q].reviewed.content_sha256 # None
  PROVE  /\ question[q].material \in Material
         /\ Promise!approved(<<q, question[q].material>>)
         /\ Promise!sound(<<q, question[q].material>>)
  <1> DEFINE m == question[q].material
             r == question[q].reviewed
  <1>1. question[q] \in Question /\ m \in Material /\ r \in Review /\ ~ reviewProblems(m, r)
    BY DEF isEligibleForBundle, reviewProblems, IInv, TypeOK, Question
  <1>2. /\ r # None /\ r.by \in Reviewers /\ r.at \in Time /\ m.by \in Agents /\ cited(m) \subseteq Sources
    BY <1>1 DEF reviewProblems, Review, Material, Citation, cited
  <1>3. r.content_sha256 # None
    OBVIOUS
  <1>4. r.content_sha256 = m
    BY <1>1, <1>2, <1>3 DEF reviewProblems, staleReview, questionFingerprint
  <1>5. r.by # m.by
    BY <1>1, <1>2 DEF reviewProblems
  <1>6. <<q, m, r.by>> \in granted
    <2>1. CASE r.by \in Agents
      <3> DEFINE e == loadReviewReceipts(r.by, q)
      <3>1. e # None /\ e.approved /\ e.content_sha256 = m
        BY <1>4, <2>1 DEF isEligibleForBundle, receiptProblems
      <3>2. PICK f \in Files : holders(r.by, q) = {f} /\ e = receipt[f].questions[q]
        BY <3>1 DEF loadReviewReceipts
      <3>3. Has(f, r.by, q)
        BY <3>2 DEF holders
      <3>4. QED
        BY <3>1, <3>2, <3>3 DEF Has, IInv, ReceiptsGranted
    <2>2. CASE r.by \in Humans
      <3>1. question[q] # None /\ r.content_sha256 # None
        BY <1>1, <1>2, <1>3, <2>2, PeopleAssumption DEF isEligibleForBundle, reviewProblems
      <3>2. QED
        BY <1>2, <1>4, <2>2, <3>1 DEF IInv, ReviewsGranted
    <2>3. QED
      BY <1>2, <2>1, <2>2 DEF Reviewers
  <1>7. Promise!approved(<<q, m>>)
    BY <1>2, <1>5, <1>6 DEF Promise!approved, Promise!author
  <1>8. Promise!sound(<<q, m>>)
    <2>1. cited(m) \cap unusable = {}
      BY <1>2 DEF isEligibleForBundle
    <2>2. QED
      BY <2>1 DEF Promise!sound, Promise!cites, cited
  <1>9. QED
    BY <1>1, <1>7, <1>8

LEMMA BuildShips == ASSUME IInv, Build PROVE Promise!Ship
  <1>1. ASSUME NEW i \in fingerprinted'
        PROVE  i \in Questions \X Material /\ Promise!approved(i) /\ Promise!sound(i)
    <2>1. PICK item \in bundle' : item[3] /\ i = <<item[1], item[2]>>
      BY <1>1 DEF fingerprinted
    <2>2. PICK q \in Questions :
            /\ isEligibleForBundle(q)
            /\ item = <<q, question[q].material, question[q].reviewed.content_sha256 # None>>
      BY <2>1 DEF Build
    <2>3. i = <<q, question[q].material>> /\ question[q].reviewed.content_sha256 # None
      BY <2>1, <2>2
    <2>4. QED
      BY <2>2, <2>3, EligibleIsApproved
  <1>2. UNCHANGED <<granted, unusable>>
    BY DEF Build, unusable
  <1>3. QED
    BY <1>1, <1>2 DEF Promise!Ship

(* A step that leaves sources and bundle alone grants, if anything.        *)
LEMMA OthersGrant ==
  ASSUME TypeOK', source' = source, bundle' = bundle, granted \subseteq granted'
  PROVE  Promise!Approve
  <1>1. UNCHANGED <<unusable, fingerprinted>>
    BY DEF unusable, fingerprinted
  <1>2. \A g \in granted' : <<g[1], g[2]>> \in Questions \X Material /\ g[3] \in Reviewers
    BY DEF TypeOK
  <1>3. QED
    BY <1>1, <1>2 DEF Promise!Approve

LEMMA SourcesReview ==
  ASSUME granted' = granted, bundle' = bundle
  PROVE  Promise!Review
  BY DEF Promise!Review, unusable, fingerprinted

LEMMA StepPromise == IInv /\ IInv' /\ [Next]_vars => [Promise!Next]_(Promise!vars)
  <1> SUFFICES ASSUME IInv, TypeOK', [Next]_vars PROVE Promise!Next
    BY DEF IInv
  <1>1. CASE Build
    BY <1>1, BuildShips DEF Promise!Next
  <1>2. CASE granted' = granted /\ bundle' = bundle
    BY <1>2, SourcesReview DEF Promise!Next
  <1>3. CASE source' = source /\ bundle' = bundle /\ granted \subseteq granted'
    BY <1>3, OthersGrant DEF Promise!Next
  <1>4. ASSUME NEW s \in Sources, PageChanges(s) \/ capture(s) \/ Deprecate(s)
        PROVE  granted' = granted /\ bundle' = bundle
    BY <1>4 DEF PageChanges, capture, Deprecate
  <1>5. ASSUME NEW q \in Questions, NEW m, Author(q, m) \/ Edit(q, m)
        PROVE  granted' = granted /\ bundle' = bundle
    BY <1>5 DEF Author, Edit
  <1>6. ASSUME NEW q, NEW by, NEW at, NEW hashed, HandReview(q, by, at, hashed)
        PROVE  source' = source /\ bundle' = bundle /\ granted \subseteq granted'
    BY <1>6 DEF HandReview
  <1>7. ASSUME NEW f, NEW r, NEW ids, NEW s, NEW approved, reviewReceipt(f, r, ids, approved, s)
        PROVE  source' = source /\ bundle' = bundle /\ granted \subseteq granted'
    BY <1>7 DEF reviewReceipt
  <1>8. ASSUME NEW f, NEW r, NEW q, NEW a, MergeReceipt(f, r, q, a)
        PROVE  source' = source /\ bundle' = bundle /\ granted \subseteq granted'
    BY <1>8 DEF MergeReceipt
  <1>9. ASSUME NEW r, NEW ids, NEW f, promoteQuestions(r, ids, f)
        PROVE  source' = source /\ bundle' = bundle /\ granted \subseteq granted'
    BY <1>9 DEF promoteQuestions
  <1>10. ASSUME (\E reached : check(reached)) \/ (\E ids : demote(ids) \/ revalidateContent(ids))
                 \/ quarantineDriftedQuestions \/ UNCHANGED vars
         PROVE  granted' = granted /\ bundle' = bundle
    BY <1>10 DEF check, demote, revalidateContent, quarantineDriftedQuestions
  <1>11. QED
    BY <1>1, <1>2, <1>3, <1>4, <1>5, <1>6, <1>7, <1>8, <1>9, <1>10 DEF Next

(* Whatever is written, dated, merged, claimed, lost or killed half-way, a *)
(* question ships only as approved by another than its author, with sound  *)
(* sources; all but the files under the rule of before fingerprints.       *)
THEOREM PipelineKeepsPromise == Spec => ImplementsPublication
  BY PromiseInit, StepPromise, Invariance, PTL DEF Spec, ImplementsPublication, Promise!Spec

-----------------------------------------------------------------------------
(* What a published question stands on. *)

LEMMA StandingStays ==
  ASSUME NEW r, NEW q, standing(r, q),
         \A f \in Files : /\ Has(f, r, q)' <=> Has(f, r, q)
                          /\ Has(f, r, q) => receipt'[f].questions[q] = receipt[f].questions[q]
  PROVE  standing(r, q)'
  <1>1. PICK f \in Files : holders(r, q) = {f}
    BY DEF standing, loadReviewReceipts
  <1>2. holders(r, q)' = {f}
    BY <1>1 DEF holders
  <1>3. \A h \in Files : (holders(r, q) = {h} <=> h = f) /\ (holders(r, q)' = {h} <=> h = f)
    BY <1>1, <1>2
  <1>4. /\ (CHOOSE h \in Files : holders(r, q) = {h}) = f
        /\ (CHOOSE h \in Files : holders(r, q)' = {h}) = f
    BY <1>3
  <1>5. loadReviewReceipts(r, q) = receipt[f].questions[q]
    BY <1>1, <1>4 DEF loadReviewReceipts
  <1>6. loadReviewReceipts(r, q)' = receipt'[f].questions[q]
    BY <1>2, <1>4 DEF loadReviewReceipts
  <1>7. receipt'[f].questions[q] = receipt[f].questions[q]
    BY <1>1 DEF holders
  <1>8. QED
    BY <1>5, <1>6, <1>7 DEF standing

(* review-receipt.mjs refuses a run that decides a published question, and *)
(* an accepted run leaves the entries of the others.                       *)
LEMMA ReviewKeepsStanding ==
  ASSUME IInv, NEW f \in Files, NEW r \in Agents, NEW ids \in SUBSET Questions,
         NEW approved \in SUBSET ids, NEW s \in BOOLEAN, reviewReceipt(f, r, ids, approved, s),
         NEW t \in Agents, NEW q \in Questions, question[q] # None, question[q].status = "published",
         standing(t, q)
  PROVE  standing(t, q)'
  <1> DEFINE rest == IF s THEN supersedeElsewhere(f, r, ids) ELSE receipt
             built == buildReceipt(f, r, ids, approved)
  <1>1. CASE receipt' = receipt
    BY <1>1, StandingStays DEF Has
  <1>2. CASE /\ ~ buildReceipt_Refused(f, r, ids, s)
             /\ receipt' = rest \/ receipt' = [rest EXCEPT ![f] = built]
    <2>1. q \notin ids /\ (receipt[f] # None => receipt[f].reviewer = r)
      BY <1>2 DEF buildReceipt_Refused
    <2>2. /\ rest \in [Files -> Receipt \cup {None}] /\ rest[f] = receipt[f]
          /\ \A g \in Files : Remains(receipt[g], rest[g], r, ids, g # f /\ s)
      BY Superseding DEF Remains, IInv, TypeOK
    <2>3. /\ built.reviewer = r /\ built # None
          /\ built.questions[q] = IF receipt[f] = None THEN None ELSE receipt[f].questions[q]
      <3>1. /\ built.reviewer = r
            /\ built.questions[q] = IF receipt[f] = None THEN None ELSE receipt[f].questions[q]
        BY <2>1 DEF buildReceipt
      <3>2. built # None
        BY <1>2, BuiltIsReceipt, NoneAssumption DEF buildReceipt_Refused, IInv
      <3>3. QED
        BY <3>1, <3>2
    <2> HIDE DEF rest, built
    <2>4. ASSUME NEW g \in Files
          PROVE  /\ Has(g, t, q)' <=> Has(g, t, q)
                 /\ Has(g, t, q) => receipt'[g].questions[q] = receipt[g].questions[q]
      <3>1. CASE receipt'[g] = rest[g]
        BY <2>1, <2>2, <3>1 DEF Has, Remains
      <3>2. CASE g = f /\ receipt'[f] = built
        BY <2>1, <2>3, <3>2 DEF Has
      <3>3. QED
        BY <1>2, <2>2, <3>1, <3>2
    <2>5. QED
      BY <2>4, StandingStays
  <1>3. QED
    BY <1>1, <1>2 DEF reviewReceipt, refusedReceipt

(* No run of the tools, refused or killed half-way, takes away the receipt *)
(* a published question stands on: only a merge of branches can.           *)
THEOREM PublishedStandOnReceipts == Spec => PublishedKeepsReceipt
  <1> DEFINE Keeps == \A r \in Agents, q \in Questions :
                        /\ question[q] # None /\ question[q].status = "published"
                        /\ standing(r, q)
                        /\ merged' = merged
                        => standing(r, q)'
  <1>1. ASSUME IInv, [Next]_vars  PROVE Keeps
    <2>1. CASE receipt' = receipt
      BY <2>1, StandingStays DEF Has
    <2>2. ASSUME NEW f \in Files, NEW r \in Agents, NEW ids \in SUBSET Questions, NEW s \in BOOLEAN,
                 NEW approved \in SUBSET ids, reviewReceipt(f, r, ids, approved, s)
          PROVE  Keeps
      BY <1>1, <2>2, ReviewKeepsStanding
    <2>3. ASSUME NEW f \in Files, NEW r, NEW q, NEW a, MergeReceipt(f, r, q, a)  PROVE Keeps
      <3>1. receipt[f] = None /\ merged' = merged \cup {f}
        BY <2>3 DEF MergeReceipt
      <3>2. merged' # merged
        BY <1>1, <3>1 DEF IInv, MergedAreHere
      <3>3. QED
        BY <3>2
    <2>4. ASSUME \/ \E s : PageChanges(s) \/ capture(s) \/ Deprecate(s)
                 \/ \E reached : check(reached)
                 \/ \E q, m : Author(q, m) \/ Edit(q, m)
                 \/ \E q, by, at, hashed : HandReview(q, by, at, hashed)
                 \/ \E r, ids, f : promoteQuestions(r, ids, f)
                 \/ \E ids : demote(ids) \/ revalidateContent(ids)
                 \/ quarantineDriftedQuestions \/ Build \/ UNCHANGED vars
          PROVE  receipt' = receipt
      BY <2>4 DEF PageChanges, capture, Deprecate, check, Author, Edit, HandReview, promoteQuestions,
                  demote, revalidateContent, quarantineDriftedQuestions, Build
    <2>5. QED
      BY <1>1, <2>1, <2>2, <2>3, <2>4 DEF Next
  <1>2. QED
    BY <1>1, Invariance, PTL DEF Spec, PublishedKeepsReceipt

=============================================================================
