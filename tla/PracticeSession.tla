-------------------------- MODULE PracticeSession --------------------------
(***************************************************************************)
(* A practice pass: the queue of questions a learner goes through, saved   *)
(* on the device after every step, restored when the screen is opened      *)
(* again and refreshed against the published questions and the learner's   *)
(* progress (client/src/practice/usePracticeSession.ts).                   *)
(*                                                                         *)
(* One storage key: one owner, course, mode and domain filter.  Meanwhile  *)
(* other passes, mock exams and other devices add to the progress log, the *)
(* log is cleared, and a new bundle of questions is published, which a     *)
(* page that is loaded again shows.                                        *)
(***************************************************************************)
EXTENDS Integers, SequencesExt

CONSTANTS
    Questions,
    Options,       \* of each question
    Correct,       \* the one that is
    Modes,         \* of "all", "remaining" and "mistakes"
    None,
    MaxVersion,    \* bound: the texts a question has had
    MaxEpoch,      \* bound: clears of the progress
    MaxEvents      \* bound: outside answers and publications

ASSUME QuestionsAssumption == IsFiniteSet(Questions)
ASSUME ModesAssumption == Modes \subseteq {"all", "remaining", "mistakes"}
ASSUME CorrectAssumption == Correct \in Options
ASSUME BoundsAssumption == MaxVersion \in Nat \ {0} /\ {MaxEpoch, MaxEvents} \subseteq Nat

VARIABLES
    mode,
    bundle,        \* question -> the version of its text, 0 when unpublished
    latest,        \* question -> how the learner's latest attempt went
    epoch,         \* progressEpoch
    mounted,       \* the practice screen is open
    entries, index,
    saved,         \* the pass in local storage, or None
    counted,       \* question -> the attempt this pass last recorded
    events         \* outside answers and publications so far

pass == <<entries, index, saved>>
vars == <<mode, bundle, latest, epoch, mounted, pass, counted, events>>

-----------------------------------------------------------------------------
(* What there is to practise. *)

Outcome == {"none", "right", "wrong"}

(* The order of the options is fixed with an entry and never looked at.    *)
QueueEntry == [id : Questions, signature : 1..MaxVersion,
               revealed : SUBSET Options, first : Outcome]

published == {q \in Questions : bundle[q] # 0}
seen == {q \in Questions : latest[q] # "none"}

eligibleQuestions ==
    {q \in published : \/ mode = "all"
                       \/ mode = "mistakes" /\ latest[q] = "wrong"
                       \/ mode = "remaining" /\ latest[q] # "right"}

newEntry(q) == [id |-> q, signature |-> bundle[q], revealed |-> {}, first |-> "none"]

shuffles(Q) == SetToSeqs({newEntry(q) : q \in Q})

(* The orders makeEntries can give the questions Q: the unseen ones first. *)
makeEntries(Q) == {p[1] \o p[2] : p \in shuffles(Q \ seen) \X shuffles(Q \cap seen)}

ids(es) == {e.id : e \in ToSet(es)}

(* The entries of es for the questions Q, in their order. *)
only(es, Q) ==
    LET I == {j \in DOMAIN es : es[j].id \in Q}
        place == CHOOSE f \in [1..Cardinality(I) -> I] :
                     \A j, k \in DOMAIN f : j < k => f[j] < f[k]
    IN  [j \in 1..Cardinality(I) |-> es[place[j]]]

-----------------------------------------------------------------------------
(* The pass. *)

SavedSession == [epoch : 0..MaxEpoch, index : Nat, entries : Seq(QueueEntry)]

ASSUME NoneAssumption == None \notin SavedSession

save == saved' = [epoch |-> epoch', index |-> index', entries |-> entries']

(* A new pass, of what is eligible: nothing of it is recorded yet. *)
restart ==
    /\ entries' \in makeEntries(eligibleQuestions)'
    /\ index' = 0
    /\ counted' = [q \in Questions |-> "none"]
    /\ save

(* The shape restore asks of a saved pass before it is continued. *)
wellFormed(s) ==
    /\ s.index \in 0..Len(s.entries)
    /\ IsInjective([i \in 1..Len(s.entries) |-> s.entries[i].id])
    /\ \A e \in ToSet(s.entries) : (e.revealed # {}) = (e.first # "none")

restorable(s) == s # None /\ s.epoch = epoch /\ wellFormed(s)

(* A question whose text changed is shown afresh. *)
refresh(e) == IF e.signature = bundle[e.id] THEN e ELSE newEntry(e.id)

(* Mistakes: the current question has to be eligible too; questions that   *)
(* were completed come back.                                               *)
pinnedOf_Eligible(es, i, preserveCurrent) ==
    IF preserveCurrent /\ i < Len(es) /\ es[i + 1].id \in eligibleQuestions
    THEN <<refresh(es[i + 1])>> ELSE <<>>
knownOf_Future(es, i, future) == ids(future)

(* The showing a refresh leaves in place, if it is still published. *)
pinnedOf(es, i, preserveCurrent) ==
    IF preserveCurrent /\ i < Len(es) /\ es[i + 1].id \in published
    THEN <<refresh(es[i + 1])>> ELSE <<>>

knownOf(es, i, future) == ids(SubSeq(es, 1, i)) \cup ids(future)

(* Mistake: what is added goes last. *)
unseenFirst_Appended(t) == t

unseenFirst(t) == only(t, Questions \ seen) \o only(t, seen)

(* The queues reconcile can make of es, of which i entries are completed:  *)
(* those stay, the future is refreshed, and what is eligible joins it.     *)
reconcile(es, i, preserveCurrent) ==
    LET pinned == pinnedOf(es, i, preserveCurrent)
        rest == SubSeq(es, IF preserveCurrent THEN i + 2 ELSE i + 1, Len(es))
        kept == only(rest, eligibleQuestions)
        future == [j \in 1..Len(kept) |-> refresh(kept[j])]
        added == eligibleQuestions \ knownOf(es, i, pinned \o future)
        tails == {future \o a : a \in makeEntries(added)}
    IN  {SubSeq(es, 1, i) \o pinned \o unseenFirst(t) : t \in tails}

-----------------------------------------------------------------------------
(* The practice screen. *)

Mount ==
    /\ ~mounted
    /\ mounted' = TRUE
    /\ UNCHANGED <<mode, bundle, latest, epoch, events>>
    /\ IF restorable(saved)
       THEN /\ index' = saved.index
            /\ entries' \in reconcile(saved.entries, saved.index, TRUE)
            /\ save
            /\ UNCHANGED counted
       ELSE restart

(* Another screen, another account or the end of the page. *)
Leave ==
    /\ mounted
    /\ mounted' = FALSE
    /\ entries' = <<>> /\ index' = 0
    /\ UNCHANGED <<mode, bundle, latest, epoch, saved, counted, events>>

HasCurrent == mounted /\ index < Len(entries)
current == entries[index + 1]

outcome(o) == IF o = Correct THEN "right" ELSE "wrong"

(* The latest attempt is the new one, unless another device has stamped    *)
(* one later than this device's clock.                                     *)
recordAttempt(q, o) ==
    \E r \in {o} \cup ({latest[q]} \ {"none"}) : latest' = [latest EXCEPT ![q] = r]

(* Mistake: every option looked at counts as an attempt. *)
isFirst_Always(e) == TRUE

isFirst(e) == e.first = "none"

selectOption(o) ==
    /\ HasCurrent
    /\ o \notin current.revealed
    /\ IF isFirst(current)
       THEN /\ recordAttempt(current.id, outcome(o))
            /\ counted' = [counted EXCEPT ![current.id] = outcome(o)]
       ELSE UNCHANGED <<latest, counted>>
    /\ entries' = [entries EXCEPT ![index + 1].revealed = @ \cup {o},
                                  ![index + 1].first = IF @ = "none" THEN outcome(o) ELSE @]
    /\ UNCHANGED <<mode, bundle, epoch, mounted, index, events>>
    /\ save

boundary(i) == i + 1

next ==
    /\ HasCurrent
    /\ index' = index + 1
    /\ entries' \in reconcile(entries, boundary(index), FALSE)
    /\ UNCHANGED <<mode, bundle, latest, epoch, mounted, counted, events>>
    /\ save

(* The keys: an option, "n" once an option was looked at, "s" before that. *)
handleShortcut(key) ==
    \/ key \in Options /\ selectOption(key)
    \/ key = "n" /\ HasCurrent /\ current.revealed # {} /\ next
    \/ key = "s" /\ HasCurrent /\ current.revealed = {} /\ next

(* The button of the summary, while questions remain. *)
StartAgain ==
    /\ mounted /\ ~HasCurrent /\ eligibleQuestions # {}
    /\ UNCHANGED <<mode, bundle, latest, epoch, mounted, events>>
    /\ restart

-----------------------------------------------------------------------------
(* What happens around it. *)

(* clearProgress: an open pass starts over, a saved one is out of date. *)
Clear ==
    /\ epoch < MaxEpoch
    /\ epoch' = epoch + 1
    /\ latest' = [q \in Questions |-> "none"]
    /\ UNCHANGED <<mode, bundle, mounted, events>>
    /\ IF mounted THEN restart
       ELSE UNCHANGED pass /\ counted' = [q \in Questions |-> "none"]

(* An attempt elsewhere: a sync, a mock exam, a pass of another mode. *)
OutsideAttempt(q, o) ==
    /\ events < MaxEvents
    /\ events' = events + 1
    /\ latest' = [latest EXCEPT ![q] = o]
    /\ UNCHANGED <<mode, bundle, epoch, mounted, pass, counted>>

(* The next page load brings another bundle. *)
Publish(q, v) ==
    /\ ~mounted /\ events < MaxEvents
    /\ events' = events + 1
    /\ bundle' = [bundle EXCEPT ![q] = v]
    /\ UNCHANGED <<mode, latest, epoch, mounted, pass, counted>>

Init ==
    /\ mode \in Modes
    /\ bundle \in [Questions -> {0, 1}]
    /\ latest = [q \in Questions |-> "none"]
    /\ epoch = 0
    /\ mounted = FALSE
    /\ entries = <<>> /\ index = 0
    /\ saved = None
    /\ counted = [q \in Questions |-> "none"]
    /\ events = 0

Next ==
    \/ Mount \/ Leave \/ next \/ StartAgain \/ Clear
    \/ \E o \in Options : selectOption(o)
    \/ \E key \in Options \cup {"n", "s"} : handleShortcut(key)
    \/ \E q \in Questions : \E o \in {"right", "wrong"} : OutsideAttempt(q, o)
    \/ \E q \in Questions : \E v \in 0..MaxVersion : Publish(q, v)

Spec == Init /\ [][Next]_vars

-----------------------------------------------------------------------------
(* Properties. *)

(* Every variable keeps its type. *)
TypeOK ==
    /\ mode \in Modes
    /\ bundle \in [Questions -> 0..MaxVersion]
    /\ latest \in [Questions -> Outcome]
    /\ epoch \in 0..MaxEpoch
    /\ mounted \in BOOLEAN
    /\ entries \in Seq(QueueEntry) /\ index \in Nat
    /\ saved \in SavedSession \cup {None}
    /\ counted \in [Questions -> Outcome]
    /\ events \in 0..MaxEvents

(* Whatever was answered, published, withdrawn and synced, a pass that was *)
(* saved passes the checks of restore: it is never dropped as malformed.   *)
SavedIsRestorable == saved # None => wellFormed(saved)

(* The totals of a pass are truthful: an entry shown as right or wrong is  *)
(* so by the one attempt that was recorded for it since the last clear.    *)
TotalsAreTruthful ==
    mounted => \A e \in ToSet(entries) : e.first # "none" => counted[e.id] = e.first

completedIsKept ==
    mounted /\ mounted' =>
        \/ index' = 0
        \/ index' >= index /\ SubSeq(entries', 1, index) = SubSeq(entries, 1, index)

currentIsKept ==
    ~mounted /\ mounted' /\ saved # None =>
        LET i == saved.index + 1
        IN  saved.epoch = epoch /\ i <= Len(saved.entries)
              /\ bundle[saved.entries[i].id] = saved.entries[i].signature
            => i <= Len(entries') /\ index' + 1 = i /\ entries'[i] = saved.entries[i]

(* A pass is kept.  Going on never changes what was completed, and only a  *)
(* new pass goes back; a learner who comes back finds the question that    *)
(* was left, answered or not, whatever another device did meanwhile, as    *)
(* long as it is published as it was and the progress was not cleared.     *)
PassIsKept == [][completedIsKept /\ currentIsKept]_vars

(* After each question what is left of the pass is what still needs        *)
(* practice: no solved or withdrawn question, none that was passed over    *)
(* before, every eligible one once, and unseen ones before mistakes.       *)
QueueIsCurrent ==
    [][mounted /\ mounted' /\ index' > index =>
          LET left == SubSeq(entries', index' + 1, Len(entries'))
              done == ids(SubSeq(entries', 1, index'))
          IN  /\ ids(left) = eligibleQuestions \ done
              /\ \A i, j \in 1..Len(left) :
                    i < j /\ left[i].id \in seen => left[j].id \in seen]_vars

-----------------------------------------------------------------------------
(* Why they hold. *)

truthful(es) == \A e \in ToSet(es) : e.first # "none" => counted[e.id] = e.first

(* The pass on screen is the one saved; what is saved can be restored, and *)
(* unless the progress was cleared since, its totals are truthful.         *)
PassInv ==
    /\ mounted => saved = [epoch |-> epoch, index |-> index, entries |-> entries]
    /\ SavedIsRestorable
    /\ saved # None => saved.epoch <= epoch /\ (saved.epoch = epoch => truthful(saved.entries))

=============================================================================
