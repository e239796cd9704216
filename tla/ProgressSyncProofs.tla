------------------------- MODULE ProgressSyncProofs -------------------------
(* Theorems about ProgressSync, for every value of its constants. *)
EXTENDS ProgressSync, TLAPS, WellFoundedInduction

USE DEF beyond

(* Settling some of a log's rows leaves rows, and the same answers.        *)
LEMMA MarkedRows ==
  ASSUME NEW rows \in SUBSET Row, NEW ids
  PROVE  /\ markSynced(rows, ids) \in SUBSET Row
         /\ IdsOf(markSynced(rows, ids)) = IdsOf(rows)
<1> DEFINE m(r) == [r EXCEPT !.synced = r.synced \/ r.id \in ids]
<1>1. ASSUME NEW r \in Row PROVE m(r) \in Row /\ m(r).id = r.id
  BY DEF Row
<1>2. markSynced(rows, ids) = {m(r) : r \in rows}
  BY DEF markSynced
<1> HIDE DEF m
<1> QED
  BY <1>1, <1>2 DEF IdsOf

(* Every operation keeps the type of every variable: an answer's id and    *)
(* stamp stay in range, and no slot, lock or queue holds anything else.    *)
LEMMA IdleType == IdleSync \in Sync /\ IdleClear \in Clear
BY DEF IdleSync, IdleClear, Sync, Clear, Owners

(* Every variable starts with its type. *)
LEMMA TypeInit == Init => TypeOK
<1> SUFFICES ASSUME Init PROVE TypeOK
  OBVIOUS
<1>1. attempts \in 0..MaxAttempts /\ clock \in 0..MaxClock
  BY BoundsAssumption DEF Init
<1>2. syncs \in [SyncSlots -> Sync] /\ clears \in [ClearSlots -> Clear]
  BY IdleType DEF Init
<1> QED
  BY <1>1, <1>2 DEF Init, TypeOK, Owners

(* What a sync remembers as it starts is well typed. *)
LEMMA StartedSyncType ==
  ASSUME TypeOK, NEW e \in Nat, NEW key \in Owners, NEW as \in Owners
  PROVE  StartedSync(e, key, as) \in Sync
BY IdleType DEF StartedSync, TypeOK, Sync

(* What is stored is a row, and what strays is one of the POSTs in flight.  *)
LEMMA SaveType ==
  ASSUME TypeOK, NEW u \in Accounts, NEW id \in Ids, NEW q \in Questions,
         saveAttempt(u, id, q)
  PROVE  /\ server' \in [Accounts -> SUBSET ServerRow]
         /\ lost' \subseteq Accounts \X Questions
         /\ clock' \in 0..MaxClock
<1>1. [id |-> id, q |-> q, at |-> ServerStamp] \in ServerRow
  BY DEF ServerStamp, ServerRow, TypeOK
<1> QED
  BY <1>1, BoundsAssumption DEF saveAttempt, TypeOK

LEMMA StrayType ==
  ASSUME TypeOK, NEW ws \in SUBSET Write, LoseSightOf(ws)
  PROVE  /\ strays' \subseteq Stray
         /\ \A x \in strays' : \/ x \in strays
                               \/ \E w \in ws : /\ w.stage = "sent" /\ w.as \in Accounts
                                               /\ x.id = w.id /\ x.q = w.q
                                               /\ x.key = w.key /\ x.as = w.as
<1> DEFINE x(w) == [id |-> w.id, q |-> w.q, key |-> w.key, as |-> w.as]
<1>1. PICK some \in SUBSET {w \in ws : w.stage = "sent" /\ w.as \in Accounts} :
         strays' = strays \cup {x(w) : w \in some}
  BY DEF LoseSightOf
<1>2. \A w \in some : /\ w \in ws /\ w.stage = "sent" /\ w.as \in Accounts
                       /\ x(w) \in Stray /\ x(w).id = w.id /\ x(w).q = w.q
                       /\ x(w).key = w.key /\ x(w).as = w.as
  BY DEF Write, Stray
<1> HIDE DEF x
<1> QED
  BY <1>1, <1>2 DEF TypeOK

(* No step of the page, the session, a request or the server breaks a type. *)
LEMMA TypeStep == TypeOK /\ [Next]_vars => TypeOK'
<1> SUFFICES ASSUME TypeOK, [Next]_vars PROVE TypeOK'
  OBVIOUS
<1> USE OwnersAssumption, SlotsAssumption, SkewAssumption, BoundsAssumption
<1>1. ASSUME NEW u \in Owners, SessionSettles(u), session' = u PROVE TypeOK'
  <2>1. log' \in [Owners -> SUBSET Row]
    <3>1. ASSUME NEW r \in log[Guest] PROVE [r EXCEPT !.synced = FALSE] \in Row
      <4>1. r \in Row
        BY DEF TypeOK, Owners
      <4> QED
        BY <4>1 DEF Row
    <3>2. log[u] \cup {[r EXCEPT !.synced = FALSE] : r \in log[Guest]} \in SUBSET Row
      BY <3>1 DEF TypeOK
    <3> QED
      BY <1>1, <3>2 DEF SessionSettles, adoptGuestRows, TypeOK, Owners
  <2>2. syncs' \in [SyncSlots -> Sync]
    <3>1. StartedSync(syncEpoch + 1, u, u) \in Sync
      BY StartedSyncType DEF TypeOK
    <3> QED
      BY <1>1, <3>1 DEF SessionSettles, TypeOK
  <2> QED
    BY <1>1, <2>1, <2>2 DEF SessionSettles, TypeOK, locks
<1>2. CASE SessionSeen
  BY <1>1, <1>2 DEF SessionSeen, TypeOK
<1>3. CASE \E u \in Owners : SessionChanges(u)
  BY <1>1, <1>3 DEF SessionChanges
<1>4. CASE \E u \in Owners : CookieChanges(u)
  BY <1>4 DEF CookieChanges, TypeOK, page, locks
<1>5. CASE \E u \in Owners : Reload(u)
  <2>1. PICK u \in Owners : Reload(u)
    BY <1>5
  <2>2. syncs' \in [SyncSlots -> Sync] /\ clears' \in [ClearSlots -> Clear]
    BY <2>1, IdleType DEF Reload
  <2>3. strays' \subseteq Stray
    BY <2>1, StrayType DEF Reload, TypeOK
  <2> QED
    BY <2>1, <2>2, <2>3 DEF Reload, TypeOK, Owners
<1>6. ASSUME NEW q \in Questions, recordAttempt(q) PROVE TypeOK'
  <2>1. attempts + 1 \in Ids /\ ClientStamp \in Int
    BY <1>6 DEF recordAttempt, TypeOK, Ids, ClientStamp
  <2>2. log' \in [Owners -> SUBSET Row]
    <3>1. [id |-> attempts + 1, q |-> q, at |-> ClientStamp, synced |-> FALSE] \in Row
      BY <2>1 DEF Row
    <3> QED
      BY <1>6, <3>1 DEF recordAttempt, TypeOK
  <2>3. queuedWrites' \subseteq QueuedWrite
    BY <1>6, <2>1 DEF recordAttempt, TypeOK, QueuedWrite
  <2>4. pendingWrites' \subseteq Write
    BY <1>6, <2>1 DEF recordAttempt, NewWrite, TypeOK, Write
  <2> QED
    BY <1>6, <2>2, <2>3, <2>4 DEF recordAttempt, TypeOK, page, locks
<1>7. ASSUME NEW u \in Accounts, NEW q \in Questions, OtherDevice(u, q)
      PROVE TypeOK'
  <2>1. attempts + 1 \in Ids
    BY <1>7 DEF OtherDevice, TypeOK, Ids
  <2> QED
    BY <1>7, <2>1, SaveType DEF OtherDevice, TypeOK, page, locks
<1>8. ASSUME NEW w \in pendingWrites, PostStored(w) PROVE TypeOK'
  <2>1. w \in Write
    BY DEF TypeOK
  <2>2. w.id \in Ids /\ w.q \in Questions
    BY <2>1 DEF Write
  <2>3. pendingWrites' \subseteq Write
    BY <1>8, <2>1 DEF PostStored, TypeOK, Write
  <2> QED
    BY <1>8, <2>2, <2>3, SaveType DEF PostStored, TypeOK, page, locks
<1>9. ASSUME NEW w \in pendingWrites, PostFails(w) PROVE TypeOK'
  <2>1. pendingWrites' \subseteq Write
    BY <1>9 DEF PostFails, TypeOK, Write
  <2>2. strays' \subseteq Stray
    BY <1>9, StrayType DEF PostFails, TypeOK
  <2> QED
    BY <1>9, <2>1, <2>2 DEF PostFails, TypeOK, page, locks
<1>23. ASSUME NEW w \in strays, StrayStored(w) PROVE TypeOK'
  <2>1. w.as \in Accounts /\ w.id \in Ids /\ w.q \in Questions
    BY DEF TypeOK, Stray
  <2> QED
    BY <1>23, <2>1, SaveType DEF StrayStored, TypeOK, page, locks
<1>24. ASSUME NEW u \in Accounts, ClearedElsewhere(u) PROVE TypeOK'
  <2>1. {<<u, t.q>> : t \in server[u]} \subseteq Accounts \X Questions
    BY DEF TypeOK, ServerRow
  <2>2. server' \in [Accounts -> SUBSET ServerRow]
    BY <1>24 DEF ClearedElsewhere, TypeOK
  <2> QED
    BY <1>24, <2>1, <2>2 DEF ClearedElsewhere, TypeOK, page, locks
<1>10. ASSUME NEW w \in pendingWrites, WriteSettles(w) PROVE TypeOK'
  <2>1. w \in Write
    BY DEF TypeOK
  <2>2. log' \in [Owners -> SUBSET Row]
    <3>1. log[w.key] \in SUBSET Row
      BY <2>1 DEF TypeOK, Write
    <3>2. markSynced(log[w.key], {w.id}) \in SUBSET Row
      BY <3>1, MarkedRows
    <3> QED
      BY <1>10, <3>2 DEF WriteSettles, TypeOK
  <2>3. syncs' \in [SyncSlots -> Sync]
    <3>1. ASSUME w.sync # None
          PROVE  w.sync \in SyncSlots /\ [syncs[w.sync] EXCEPT !.ok = FALSE] \in Sync
      <4>1. w.sync \in SyncSlots
        BY <2>1, <3>1 DEF Write
      <4>2. syncs[w.sync] \in Sync
        BY <4>1 DEF TypeOK
      <4> QED
        BY <4>1, <4>2 DEF Sync
    <3> QED
      BY <1>10, <3>1 DEF WriteSettles, TypeOK
  <2> QED
    BY <1>10, <2>2, <2>3 DEF WriteSettles, setSyncStatusFor, TypeOK, locks
<1>11. ASSUME NEW s \in SyncSlots, retrySync(s) PROVE TypeOK'
  <2>1. syncs' \in [SyncSlots -> Sync]
    <3>1. StartedSync(syncEpoch, owner, session) \in Sync
      BY StartedSyncType DEF TypeOK
    <3> QED
      BY <1>11, <3>1 DEF retrySync, TypeOK
  <2> QED
    BY <1>11, <2>1 DEF retrySync, setSyncStatusFor, TypeOK, locks
<1>12. ASSUME NEW s \in SyncSlots, GetAnswered(s) PROVE TypeOK'
  <2>1. syncs' \in [SyncSlots -> Sync]
    <3> DEFINE reply == latestPerQuestion(server[syncs[s].as])
    <3>1. reply \in SUBSET ServerRow
      BY <1>12 DEF GetAnswered, latestPerQuestion, TypeOK
    <3>2. [syncs[s] EXCEPT !.stage = "reply", !.reply = reply] \in Sync
      <4>1. syncs[s] \in Sync
        BY DEF TypeOK
      <4> QED
        BY <3>1, <4>1 DEF Sync
    <3> QED
      BY <1>12, <3>2 DEF GetAnswered, TypeOK
  <2> QED
    BY <1>12, <2>1 DEF GetAnswered, TypeOK, page, locks
<1>13. ASSUME NEW s \in SyncSlots, GetFails(s) PROVE TypeOK'
  <2>1. syncs' \in [SyncSlots -> Sync]
    BY <1>13 DEF GetFails, TypeOK, Sync
  <2> QED
    BY <1>13, <2>1 DEF GetFails, TypeOK, page, locks
<1>15. ASSUME NEW s \in SyncSlots,
              SyncFails(s) \/ SyncDefers(s) \/ SyncSettles(s)
       PROVE TypeOK'
  BY IdleType, <1>15
     DEF SyncFails, SyncDefers, SyncSettles, setSyncStatusFor, TypeOK, page, locks
<1>16. ASSUME NEW s \in SyncSlots, SyncMerges(s) PROVE TypeOK'
  <2>1. syncs[s] \in Sync
    BY DEF TypeOK
  <2>2. log' \in [Owners -> SUBSET Row]
    <3> DEFINE merged == {[id |-> t.id, q |-> t.q, at |-> t.at, synced |-> TRUE] :
                            t \in newFromServer(log[syncs[s].key], syncs[s].reply)}
    <3>1. log[syncs[s].key] \in SUBSET Row /\ syncs[s].reply \in SUBSET ServerRow
      BY <2>1 DEF TypeOK, Sync
    <3>2. merged \in SUBSET Row
      <4>1. ASSUME NEW t \in ServerRow
            PROVE  [id |-> t.id, q |-> t.q, at |-> t.at, synced |-> TRUE] \in Row
        BY DEF ServerRow, Row
      <4> QED
        BY <3>1, <4>1 DEF newFromServer
    <3>3. \A ids : markSynced(log[syncs[s].key], ids) \cup merged \in SUBSET Row
      BY <3>1, <3>2, MarkedRows
    <3> HIDE DEF merged
    <3>4. PICK ids : log' = [log EXCEPT ![syncs[s].key] = markSynced(@, ids) \cup merged]
      BY <1>16 DEF SyncMerges, merged
    <3> QED
      BY <3>3, <3>4 DEF TypeOK
  <2>3. pendingWrites' \subseteq Write
    BY <1>16, <2>1 DEF SyncMerges, unsyncedLatest, latestPerQuestion, NewWrite,
       TypeOK, Row, Sync, Write
  <2>4. syncs' \in [SyncSlots -> Sync]
    <3>1. [syncs[s] EXCEPT !.stage = "backfill", !.reply = {}] \in Sync
      BY <2>1 DEF Sync
    <3> QED
      BY <1>16, <3>1 DEF SyncMerges, TypeOK
  <2> QED
    BY <1>16, <2>2, <2>3, <2>4 DEF SyncMerges, TypeOK, page, locks
<1>17. CASE clearLocally
  <2>1. log' \in [Owners -> SUBSET Row] /\ erased' \subseteq Ids
    BY <1>17 DEF clearLocally, IdsOf, TypeOK, Row
  <2> QED
    BY <1>17, <2>1 DEF clearLocally, TypeOK, page
<1>18. ASSUME NEW c \in ClearSlots, clearProgress(c) PROVE TypeOK'
  <2>1. log' \in [Owners -> SUBSET Row]
    BY <1>18 DEF clearProgress, TypeOK
  <2>2. clears' \in [ClearSlots -> Clear]
    <3> DEFINE wiped == IdsOf(log[owner])
    <3>1. wiped \in SUBSET Ids
      BY DEF IdsOf, TypeOK, Row
    <3>2. [IdleClear EXCEPT !.stage = "wait", !.epoch = syncEpoch,
                            !.owner = owner, !.wiped = wiped] \in Clear
      BY <3>1, IdleType DEF TypeOK, Clear
    <3> QED
      BY <1>18, <3>2 DEF clearProgress, TypeOK
  <2> QED
    BY <1>18, <2>1, <2>2 DEF clearProgress, setSyncStatusFor, TypeOK
<1>19. ASSUME NEW c \in ClearSlots,
              ClearDeletes(c) \/ DeleteDone(c) \/ DeleteFails(c)
       PROVE TypeOK'
  <2>1. clears' \in [ClearSlots -> Clear]
    BY <1>19 DEF ClearDeletes, DeleteDone, DeleteFails, TypeOK, Clear
  <2>2. server' \in [Accounts -> SUBSET ServerRow] /\ erased' \subseteq Ids
    BY <1>19 DEF ClearDeletes, DeleteDone, DeleteFails, TypeOK, Clear
  <2> QED
    BY <1>19, <2>1, <2>2 DEF ClearDeletes, DeleteDone, DeleteFails, TypeOK,
       page, locks
<1>20. ASSUME NEW c \in ClearSlots, releaseQueuedWrites(c)
       PROVE /\ writesHeldBy' \in ClearSlots \cup {None}
             /\ queuedWrites' \subseteq QueuedWrite
             /\ pendingWrites' \subseteq Write
  BY <1>20 DEF releaseQueuedWrites, NewWrite, TypeOK, QueuedWrite, Write
<1>21. ASSUME NEW c \in ClearSlots,
              ClearFails(c) \/ ClearConfirmed(c) \/ ClearSettles(c)
       PROVE TypeOK'
  <2>1. clears' \in [ClearSlots -> Clear]
    BY IdleType, <1>21 DEF ClearFails, ClearConfirmed, ClearSettles, TypeOK, Clear
  <2> QED
    BY <1>20, <1>21, <2>1 DEF ClearFails, ClearConfirmed, ClearSettles,
       unlockSyncs, setSyncStatusFor, TypeOK, page
<1>22. CASE UNCHANGED vars
  BY <1>22 DEF vars, page, locks, TypeOK
<1> QED
  BY <1>2, <1>3, <1>4, <1>5, <1>6, <1>7, <1>8, <1>9, <1>10, <1>11, <1>12,
     <1>13, <1>15, <1>16, <1>17, <1>18, <1>19, <1>21, <1>22, <1>23, <1>24
     DEF Next, SessionNext, AnswerNext, SyncNext, ClearNext

(* Every variable of the sync protocol keeps its type. *)
THEOREM TypeCorrect == Spec => []TypeOK
<1>1. Init => TypeOK
  BY TypeInit
<1>2. TypeOK /\ [Next]_vars => TypeOK'
  BY TypeStep
<1> QED
  BY <1>1, <1>2, PTL DEF Spec

-----------------------------------------------------------------------------
(* What one step of the system can do to each part of the state.           *)

(* A suspended sync goes on, or drops what it read.                        *)
SyncContinues(s) ==
    /\ syncs[s].stage # "idle"
    /\ syncs'[s].key = syncs[s].key /\ syncs'[s].as = syncs[s].as
    /\ syncs'[s].gen = syncs[s].gen /\ syncs'[s].epoch = syncs[s].epoch
    /\ syncs'[s].stage = "get" => syncs[s].stage = "get"
    /\ syncs'[s].stage = "reply" => syncs[s].stage \in {"get", "reply"}
    /\ \/ syncs'[s].reply \subseteq syncs[s].reply
          /\ (syncs'[s].stage = "reply" => syncs[s].stage = "reply")
       \/ /\ syncs[s].as \in Accounts /\ UNCHANGED <<server, lost>>
          /\ syncs'[s].reply \subseteq server[syncs[s].as]

(* A sync starts for the owner the page has from now on.                   *)
SyncStarts(s) ==
    /\ syncEnabled' /\ clearInFlight = None /\ UNCHANGED <<locks, clears>>
    /\ syncs'[s] = StartedSync(syncEpoch', owner', session')

(* The page is loaded afresh, or takes over the session it has just seen.  *)
Reloads == \E u \in Owners : Reload(u)

SessionTaken ==
    /\ \E u \in Owners : SessionSettles(u)
    /\ owner' = session' /\ loaded' /\ (syncEnabled' <=> owner' # Guest)
    /\ syncEpoch' = syncEpoch + 1
    /\ loaded /\ owner = session => \E u \in Owners : SessionChanges(u)

LEMMA ReloadFacts ==
  ASSUME Reloads
  PROVE  /\ owner' = Guest /\ ~loaded' /\ ~syncEnabled'
         /\ writesHeldBy' = None
         /\ queuedWrites' = {} /\ pendingWrites' = {}
         /\ \A s \in SyncSlots : syncs'[s].stage = "idle" /\ syncs'[s].reply = {}
         /\ \A c \in ClearSlots : clears'[c].stage = "idle"
         /\ log' = log /\ server' = server /\ attempts' = attempts /\ erased' = erased
BY DEF Reloads, Reload, IdleSync, IdleClear

(* The session and the page change together, alone, or not at all.         *)
LEMMA SessionAfter ==
  ASSUME TypeOK, [Next]_vars
  PROVE  \/ SessionTaken
         \/ Reloads
         \/ (\E u \in Owners : CookieChanges(u)) /\ UNCHANGED page
         \/ UNCHANGED <<session, loaded, owner, syncEnabled, syncEpoch>>
<1>1. CASE SessionNext
  <2>1. ASSUME NEW u \in Owners, SessionSettles(u), session' = u,
               loaded /\ owner = session => SessionChanges(u)
        PROVE  SessionTaken
    BY <2>1 DEF SessionSettles, SessionTaken
  <2>2. CASE SessionSeen
    BY <2>1, <2>2 DEF SessionSeen, TypeOK
  <2>3. CASE \E u \in Owners : SessionChanges(u)
    BY <2>1, <2>3 DEF SessionChanges
  <2>4. CASE \E u \in Owners : CookieChanges(u)
    BY <2>4 DEF CookieChanges
  <2> QED
    BY <1>1, <2>2, <2>3, <2>4 DEF SessionNext, Reloads
<1>2. CASE AnswerNext
  BY <1>2 DEF AnswerNext, recordAttempt, OtherDevice, StrayStored,
     ClearedElsewhere, PostStored, PostFails, WriteSettles, page
<1>3. CASE SyncNext
  BY <1>3 DEF SyncNext, retrySync, GetAnswered, GetFails, SyncFails, SyncDefers,
     SyncMerges, SyncSettles, page
<1>4. CASE ClearNext
  BY <1>4 DEF ClearNext, clearLocally, clearProgress, ClearDeletes, DeleteDone,
     DeleteFails, ClearFails, ClearConfirmed, ClearSettles, page
<1>5. CASE UNCHANGED vars
  BY <1>5 DEF vars, page
<1> QED
  BY <1>1, <1>2, <1>3, <1>4, <1>5 DEF Next

(* After a step a sync goes on, has started, or is idle.                   *)
LEMMA SlotAfter ==
  ASSUME TypeOK, [Next]_vars, NEW s \in SyncSlots, syncs'[s].stage # "idle"
  PROVE  SyncContinues(s) \/ SyncStarts(s)
<1>1. CASE syncs' = syncs
  BY <1>1 DEF SyncContinues
<1>2. ASSUME NEW u \in Owners, SessionSettles(u), session' = u
      PROVE  SyncContinues(s) \/ SyncStarts(s)
  BY <1>2 DEF SessionSettles, SyncContinues, SyncStarts, syncMayStart, TypeOK
<1>3. CASE \E u \in Owners : Reload(u)
  BY <1>3 DEF Reload, IdleSync
<1>4. ASSUME NEW w \in pendingWrites, WriteSettles(w) PROVE SyncContinues(s)
  BY <1>4 DEF WriteSettles, SyncContinues, TypeOK, Sync
<1>5. ASSUME NEW t \in SyncSlots, retrySync(t)
      PROVE  SyncContinues(s) \/ SyncStarts(s)
  BY <1>5 DEF retrySync, SyncContinues, SyncStarts, syncMayStart, TypeOK
<1>6. ASSUME NEW t \in SyncSlots, GetAnswered(t) PROVE SyncContinues(s)
  <2> DEFINE reply == latestPerQuestion(server[syncs[t].as])
  <2>1. reply \subseteq server[syncs[t].as]
    BY DEF latestPerQuestion
  <2>2. /\ syncs' = [syncs EXCEPT ![t] = [@ EXCEPT !.stage = "reply", !.reply = reply]]
        /\ syncs[t].stage = "get" /\ syncs[t].as \in Accounts /\ UNCHANGED <<server, lost>>
    BY <1>6 DEF GetAnswered
  <2> HIDE DEF reply
  <2>3. syncs[t] \in Sync /\ syncs[s] \in Sync
    BY DEF TypeOK
  <2>4. s # t => syncs'[s] = syncs[s]
    BY <2>2 DEF TypeOK
  <2>5. s = t => syncs'[s] = [syncs[s] EXCEPT !.stage = "reply", !.reply = reply]
    BY <2>2 DEF TypeOK
  <2>6. CASE s # t
    BY <2>4, <2>6 DEF SyncContinues
  <2>7. CASE s = t
    BY <2>1, <2>2, <2>3, <2>5, <2>7 DEF SyncContinues, Sync
  <2> QED
    BY <2>6, <2>7
<1>7. ASSUME NEW t \in SyncSlots, GetFails(t) \/ SyncMerges(t) PROVE SyncContinues(s)
  <2>1. PICK sync \in {[syncs[t] EXCEPT !.stage = "fail"],
                       [syncs[t] EXCEPT !.stage = "backfill", !.reply = {}]} :
          syncs' = [syncs EXCEPT ![t] = sync] /\ syncs[t].stage # "idle"
    BY <1>7 DEF GetFails, SyncMerges
  <2>2. syncs[t] \in Sync
    BY DEF TypeOK
  <2>3. CASE s = t
    BY <2>1, <2>2, <2>3 DEF SyncContinues, TypeOK, Sync
  <2>4. CASE s # t
    BY <2>1, <2>4 DEF SyncContinues, TypeOK
  <2> QED
    BY <2>3, <2>4
<1>8. ASSUME NEW t \in SyncSlots, SyncFails(t) \/ SyncDefers(t) \/ SyncSettles(t)
      PROVE  SyncContinues(s)
  BY <1>8 DEF SyncFails, SyncDefers, SyncSettles, IdleSync, SyncContinues, TypeOK
<1>9. CASE syncs' # syncs
  BY <1>2, <1>3, <1>4, <1>5, <1>6, <1>7, <1>8, <1>9
     DEF Next, SessionNext, AnswerNext, SyncNext, ClearNext, SessionSeen,
     SessionChanges, CookieChanges, recordAttempt, OtherDevice, StrayStored,
     ClearedElsewhere, PostStored, PostFails, clearLocally, clearProgress,
     ClearDeletes, DeleteDone, DeleteFails, ClearFails, ClearConfirmed,
     ClearSettles, vars, TypeOK
<1> QED
  BY <1>1, <1>9

(* An upload goes on, and was acknowledged only if the server stored it.   *)
WriteContinues(w) ==
    \E v \in pendingWrites :
        /\ w.id = v.id /\ w.q = v.q /\ w.key = v.key /\ w.as = v.as
        /\ w.epoch = v.epoch
        /\ w.stage = "sent" => w = v
        /\ w.stage = "ok" => v.stage = "ok" \/ PostStored(v)

(* Where a new upload comes from: an answer, a merge, a held write. *)
WriteRecorded(w) ==
    /\ syncEnabled /\ ~holdsWrites /\ recordAttempt(w.q)
    /\ w.key = owner /\ w.epoch = syncEpoch /\ w.id = attempts + 1

WriteBackfilled(w) ==
    \E s \in SyncSlots :
        /\ SyncMerges(s)
        /\ w.key = syncs[s].key /\ w.epoch = syncs[s].epoch
        /\ \E r \in unsyncedLatest(log[w.key]) : w.id = r.id /\ w.q = r.q

WriteReleased(w) ==
    \E v \in queuedWrites :
        /\ mayRelease(v)
        /\ w.id = v.id /\ w.q = v.q /\ w.key = v.key /\ w.epoch = v.epoch
        /\ \E c \in ClearSlots : ClearFails(c) \/ ClearConfirmed(c)

WriteStarts(w) ==
    /\ w.as = session /\ w.stage = "sent"
    /\ WriteRecorded(w) \/ WriteBackfilled(w) \/ WriteReleased(w)

(* After a step an upload goes on or has started.                          *)
LEMMA WriteAfter ==
  ASSUME TypeOK, [Next]_vars, NEW w \in pendingWrites'
  PROVE  WriteContinues(w) \/ WriteStarts(w)
<1>1. CASE w \in pendingWrites
  BY <1>1 DEF WriteContinues
<1>2. ASSUME NEW v \in pendingWrites, PostStored(v) \/ PostFails(v), w \notin pendingWrites
      PROVE  WriteContinues(w)
  <2>1. v \in Write
    BY DEF TypeOK
  <2>2. PICK st \in {"ok", "fail"} : w = [v EXCEPT !.stage = st] /\ (st = "ok" => PostStored(v))
    BY <1>2 DEF PostStored, PostFails
  <2> QED
    BY <2>1, <2>2 DEF WriteContinues, Write
<1>3. ASSUME NEW q \in Questions, recordAttempt(q), w \notin pendingWrites
      PROVE  WriteStarts(w)
  <2>1. syncEnabled /\ ~holdsWrites /\ w = NewWrite(attempts + 1, q, owner, syncEpoch, None)
    BY <1>3 DEF recordAttempt
  <2> QED
    BY <1>3, <2>1 DEF NewWrite, WriteStarts, WriteRecorded
<1>4. ASSUME NEW s \in SyncSlots, SyncMerges(s), w \notin pendingWrites
      PROVE  WriteStarts(w)
  <2>1. \E r \in unsyncedLatest(log[syncs[s].key]) :
           w = NewWrite(r.id, r.q, syncs[s].key, syncs[s].epoch, s)
    BY <1>4 DEF SyncMerges
  <2> QED
    BY <1>4, <2>1 DEF NewWrite, WriteStarts, WriteBackfilled
<1>5. ASSUME NEW c \in ClearSlots, ClearFails(c) \/ ClearConfirmed(c), w \notin pendingWrites
      PROVE  WriteStarts(w)
  <2>1. \E v \in queuedWrites :
           mayRelease(v) /\ w = NewWrite(v.id, v.q, v.key, v.epoch, None)
    BY <1>5 DEF ClearFails, ClearConfirmed, releaseQueuedWrites
  <2> QED
    BY <1>5, <2>1 DEF NewWrite, WriteStarts, WriteReleased
<1>6. CASE w \notin pendingWrites
  BY <1>2, <1>3, <1>4, <1>5, <1>6
     DEF Next, SessionNext, AnswerNext, SyncNext, ClearNext, SessionSeen,
     SessionChanges, SessionSettles, CookieChanges, Reload, OtherDevice,
     StrayStored, ClearedElsewhere, WriteSettles, retrySync, GetAnswered,
     GetFails, SyncFails, SyncDefers, SyncSettles, clearLocally, clearProgress,
     ClearDeletes, DeleteDone, DeleteFails, ClearSettles, vars
<1> QED
  BY <1>1, <1>6

(* After a step a held write was held before, or an answer was just given. *)
HeldNow(w) ==
    /\ syncEnabled /\ holdsWrites /\ recordAttempt(w.q)
    /\ w.key = owner /\ w.epoch = syncEpoch /\ w.id = attempts + 1

LEMMA QueueAfter ==
  ASSUME [Next]_vars, NEW w \in queuedWrites'
  PROVE  w \in queuedWrites \/ HeldNow(w)
<1>1. ASSUME NEW q \in Questions, recordAttempt(q), w \notin queuedWrites
      PROVE  HeldNow(w)
  <2>1. /\ syncEnabled /\ holdsWrites
        /\ w = [id |-> attempts + 1, q |-> q, key |-> owner, epoch |-> syncEpoch]
    BY <1>1 DEF recordAttempt
  <2> QED
    BY <1>1, <2>1 DEF HeldNow
<1> QED
  BY <1>1 DEF Next, SessionNext, AnswerNext, SyncNext, ClearNext, SessionSeen,
     SessionChanges, SessionSettles, CookieChanges, Reload, OtherDevice,
     StrayStored, ClearedElsewhere, PostStored, PostFails, WriteSettles,
     retrySync, GetAnswered, GetFails, SyncFails, SyncDefers, SyncMerges,
     SyncSettles, clearLocally, clearProgress, ClearDeletes, DeleteDone,
     DeleteFails, ClearFails, ClearConfirmed, releaseQueuedWrites, ClearSettles,
     vars

(* A suspended clear goes on, one stage at a time.                         *)
ClearContinues(c) ==
    /\ clears[c].stage # "idle"
    /\ clears'[c].owner = clears[c].owner /\ clears'[c].wiped = clears[c].wiped
    /\ clears'[c].epoch = clears[c].epoch
    /\ \/ clears'[c] = clears[c]
       \/ /\ clears[c].stage = "wait" /\ clears'[c].stage = "delete"
          /\ clears'[c].as = session /\ pendingWrites = {}
          /\ UNCHANGED <<locks, pendingWrites>>
       \/ clears[c].stage = "delete" /\ clears'[c].stage \in {"ok", "fail"}
          /\ clears'[c].as = clears[c].as
       \/ clears[c].stage = "ok" /\ clears'[c].stage = "after"
          /\ clears'[c].as = clears[c].as

(* After a step a clear goes on, has started, or is idle.                  *)
LEMMA ClearAfter ==
  ASSUME TypeOK, [Next]_vars, NEW c \in ClearSlots, clears'[c].stage # "idle"
  PROVE  ClearContinues(c) \/ clearProgress(c)
<1>1. CASE clears' = clears
  BY <1>1 DEF ClearContinues
<1>2. CASE \E u \in Owners : Reload(u)
  BY <1>2 DEF Reload, IdleClear
<1>3. ASSUME NEW d \in ClearSlots, clearProgress(d)
      PROVE  ClearContinues(c) \/ clearProgress(c)
  BY <1>3 DEF clearProgress, ClearContinues, TypeOK
<1>4. ASSUME NEW d \in ClearSlots, ClearDeletes(d) PROVE ClearContinues(c)
  BY <1>4 DEF ClearDeletes, ClearReady, ClearContinues, TypeOK, Clear
<1>5. ASSUME NEW d \in ClearSlots, DeleteDone(d) \/ DeleteFails(d) PROVE ClearContinues(c)
  BY <1>5 DEF DeleteDone, DeleteFails, ClearContinues, TypeOK, Clear
<1>6. ASSUME NEW d \in ClearSlots, ClearConfirmed(d) PROVE ClearContinues(c)
  BY <1>6 DEF ClearConfirmed, ClearContinues, TypeOK, Clear
<1>7. ASSUME NEW d \in ClearSlots, ClearFails(d) \/ ClearSettles(d) PROVE ClearContinues(c)
  BY <1>7 DEF ClearFails, ClearSettles, IdleClear, ClearContinues, TypeOK
<1>8. CASE clears' # clears
  BY <1>2, <1>3, <1>4, <1>5, <1>6, <1>7, <1>8
     DEF Next, SessionNext, AnswerNext, SyncNext, ClearNext, SessionSeen,
     SessionChanges, SessionSettles, CookieChanges, recordAttempt, OtherDevice,
     StrayStored, ClearedElsewhere, PostStored, PostFails, WriteSettles,
     retrySync, GetAnswered, GetFails, SyncFails, SyncDefers, SyncMerges,
     SyncSettles, clearLocally, vars
<1> QED
  BY <1>1, <1>8

(* Only a clear that starts or ends, and a page load, move the locks.      *)
ClearLockMoves ==
    \E c \in ClearSlots :
        \/ clearProgress(c) /\ clearInFlight' = c
        \/ (ClearFails(c) \/ ClearSettles(c)) /\ clearInFlight' = None

WriteLockMoves ==
    \E c \in ClearSlots :
        \/ clearProgress(c) /\ writesHeldBy' = c
        \/ /\ ClearFails(c) \/ ClearConfirmed(c)
           /\ writesHeldBy = c /\ writesHeldBy' = None /\ queuedWrites' = {}

GenerationMoves ==
    /\ clearGeneration' = clearGeneration + 1
    /\ clearLocally \/ \E c \in ClearSlots : clearProgress(c)

LEMMA LocksAfter ==
  ASSUME [Next]_vars
  PROVE  /\ clearInFlight' = clearInFlight \/ Reloads \/ ClearLockMoves
         /\ writesHeldBy' = writesHeldBy \/ Reloads \/ WriteLockMoves
         /\ clearGeneration' = clearGeneration \/ Reloads \/ GenerationMoves
<1> DEFINE P == clearInFlight' = clearInFlight \/ Reloads \/ ClearLockMoves
           Q == writesHeldBy' = writesHeldBy \/ Reloads \/ WriteLockMoves
           R == clearGeneration' = clearGeneration \/ Reloads \/ GenerationMoves
<1>1. UNCHANGED locks => P /\ Q /\ R
  BY DEF locks
<1>2. ASSUME NEW c \in ClearSlots, clearProgress(c) PROVE P /\ Q /\ R
  <2>1. /\ clearInFlight' = c /\ writesHeldBy' = c
        /\ clearGeneration' = clearGeneration + 1
    BY <1>2 DEF clearProgress
  <2> QED
    BY <1>2, <2>1 DEF ClearLockMoves, WriteLockMoves, GenerationMoves
<1>3. ASSUME NEW c \in ClearSlots, ClearFails(c) \/ ClearConfirmed(c) \/ ClearSettles(c)
      PROVE  P /\ Q /\ R
  <2>1. P
    BY <1>3 DEF ClearFails, ClearConfirmed, ClearSettles, unlockSyncs, ClearLockMoves
  <2>2. Q
    BY <1>3 DEF ClearFails, ClearConfirmed, ClearSettles, releaseQueuedWrites, WriteLockMoves
  <2>3. R
    BY <1>3 DEF ClearFails, ClearConfirmed, ClearSettles
  <2> QED
    BY <2>1, <2>2, <2>3
<1>4. clearLocally => P /\ Q /\ R
  BY DEF clearLocally, GenerationMoves
<1>5. Reloads => P /\ Q /\ R
  OBVIOUS
<1> HIDE DEF P, Q, R
<1>6. P /\ Q /\ R
  BY <1>1, <1>2, <1>3, <1>4, <1>5 DEF Next, SessionNext, AnswerNext, SyncNext,
     ClearNext, SessionSeen, SessionChanges, SessionSettles, CookieChanges,
     Reloads, recordAttempt, OtherDevice, StrayStored, ClearedElsewhere,
     PostStored, PostFails, WriteSettles, retrySync, GetAnswered, GetFails,
     SyncFails, SyncDefers, SyncMerges, SyncSettles, ClearDeletes, DeleteDone,
     DeleteFails, vars
<1> QED
  BY <1>6 DEF P, Q, R

(* What is stored stays so until a DELETE of this page: what somebody else *)
(* erases counts as lost until it is stored again.                         *)
LEMMA SavedIsStored ==
  ASSUME TypeOK, NEW u \in Accounts, NEW id \in Ids, NEW q \in Questions,
         saveAttempt(u, id, q), NEW v \in Accounts, NEW p \in Questions
  PROVE  /\ Stored(v, p) => Stored(v, p)'
         /\ Stored(u, q)'
<1>1. PICK row : row.q = q /\ server' = [server EXCEPT ![u] = @ \cup {row}]
  BY DEF saveAttempt
<1>2. lost' = lost \ {<<u, q>>}
  BY DEF saveAttempt
<1>3. Stored(u, q)'
  BY <1>1 DEF Stored, TypeOK
<1>4. <<v, p>> # <<u, q>> => (Stored(v, p) => Stored(v, p)')
  BY <1>1, <1>2 DEF Stored, TypeOK
<1> QED
  BY <1>3, <1>4

(* So only the end of a DELETE of this page takes a stored answer away.    *)
LEMMA StoredAfter ==
  ASSUME TypeOK, [Next]_vars, NEW u \in Accounts, NEW q \in Questions, Stored(u, q)
  PROVE  Stored(u, q)' \/ \E c \in ClearSlots : DeleteDone(c) /\ clears[c].as = u
<1>1. ASSUME NEW v \in Accounts, NEW p \in Questions, OtherDevice(v, p)
      PROVE  Stored(u, q)'
  <2>1. attempts + 1 \in Ids
    BY <1>1, BoundsAssumption DEF OtherDevice, TypeOK, Ids
  <2> QED
    BY <1>1, <2>1, SavedIsStored DEF OtherDevice
<1>2. ASSUME NEW w \in pendingWrites, PostStored(w) PROVE Stored(u, q)'
  BY <1>2, SavedIsStored DEF PostStored, TypeOK, Write
<1>3. ASSUME NEW w \in strays, StrayStored(w) PROVE Stored(u, q)'
  BY <1>3, SavedIsStored DEF StrayStored, TypeOK, Stray
<1>4. ASSUME NEW v \in Accounts, ClearedElsewhere(v) PROVE Stored(u, q)'
  BY <1>4 DEF ClearedElsewhere, Stored, TypeOK
<1>5. ASSUME NEW c \in ClearSlots, DeleteDone(c), clears[c].as # u PROVE Stored(u, q)'
  BY <1>5 DEF DeleteDone, Stored, TypeOK
<1>6. CASE UNCHANGED <<server, lost>>
  BY <1>6 DEF Stored
<1> QED
  BY <1>1, <1>2, <1>3, <1>4, <1>5, <1>6
     DEF Next, SessionNext, AnswerNext, SyncNext, ClearNext, SessionSeen,
     SessionChanges, SessionSettles, CookieChanges, Reload, recordAttempt,
     PostFails, WriteSettles, retrySync, GetAnswered, GetFails, SyncFails,
     SyncDefers, SyncMerges, SyncSettles, clearLocally, clearProgress,
     ClearDeletes, DeleteFails, ClearFails, ClearConfirmed, ClearSettles, vars

(* A stray was one before, or was in flight with an account's session.     *)
Strayed(x) ==
    \E w \in pendingWrites : /\ x.id = w.id /\ x.q = w.q
                             /\ x.key = w.key /\ x.as = w.as

LEMMA StrayAfter ==
  ASSUME TypeOK, [Next]_vars, NEW x \in strays'
  PROVE  x \in strays \/ Strayed(x)
<1>1. ASSUME NEW u \in Owners, Reload(u) PROVE x \in strays \/ Strayed(x)
  BY <1>1, StrayType DEF Reload, Strayed, TypeOK
<1>2. ASSUME NEW w \in pendingWrites, PostFails(w) PROVE x \in strays \/ Strayed(x)
  <2>1. {w} \in SUBSET Write
    BY DEF TypeOK
  <2> QED
    BY <1>2, <2>1, StrayType DEF PostFails, Strayed
<1>3. CASE strays' \subseteq strays
  BY <1>3
<1> QED
  BY <1>1, <1>2, <1>3
     DEF Next, SessionNext, AnswerNext, SyncNext, ClearNext, SessionSeen,
     SessionChanges, SessionSettles, CookieChanges, recordAttempt, OtherDevice,
     PostStored, StrayStored, ClearedElsewhere, WriteSettles, retrySync,
     GetAnswered, GetFails, SyncFails, SyncDefers, SyncMerges, SyncSettles,
     clearLocally, clearProgress, ClearDeletes, DeleteDone, DeleteFails,
     ClearFails, ClearConfirmed, ClearSettles, vars

-----------------------------------------------------------------------------
(* What one step can do to the rows of a log and of the server. *)

Unsettled(rows) == {[r EXCEPT !.synced = FALSE] : r \in rows}

SettledBy(s) ==
    {r \in unsyncedLatest(log[syncs[s].key]) : serverIsUpToDate(r, syncs[s].reply)}

MergedBy(s) ==
    {[id |-> t.id, q |-> t.q, at |-> t.at, synced |-> TRUE] :
       t \in newFromServer(log[syncs[s].key], syncs[s].reply)}

Adopts(u) ==
    /\ u \in Accounts /\ SessionSettles(u)
    /\ log'[u] = log[u] \cup Unsettled(log[Guest]) /\ log'[Guest] = {}

Records(u) ==
    /\ u = owner
    /\ \E q \in Questions :
          /\ recordAttempt(q)
          /\ log'[u] = log[u] \cup {[id |-> attempts + 1, q |-> q,
                                     at |-> ClientStamp, synced |-> FALSE]}

Settles(u) ==
    \E w \in pendingWrites :
        /\ WriteSettles(w) /\ w.stage = "ok" /\ w.key = u
        /\ log'[u] = markSynced(log[u], {w.id})

Merges(u) ==
    \E s \in SyncSlots :
        /\ SyncMerges(s) /\ syncs[s].key = u
        /\ log'[u] = markSynced(log[u], IdsOf(SettledBy(s))) \cup MergedBy(s)

(* A log loses rows to a clear or an adoption, and gains them one way.     *)
LEMMA LogAfter ==
  ASSUME TypeOK, [Next]_vars, NEW u \in Owners
  PROVE  \/ log'[u] \subseteq log[u]
         \/ Adopts(u) \/ Records(u) \/ Settles(u) \/ Merges(u)
<1> USE OwnersAssumption
<1>1. CASE log' = log
  BY <1>1
<1>2. ASSUME NEW v \in Owners, SessionSettles(v)
      PROVE  log'[u] \subseteq log[u] \/ Adopts(u)
  <2>1. log' = adoptGuestRows(v)
    BY <1>2 DEF SessionSettles
  <2>2. CASE v = Guest \/ u # v
    BY <2>1, <2>2 DEF adoptGuestRows, TypeOK, Owners
  <2>3. CASE v # Guest /\ u = v
    <3>1. log' = [log EXCEPT ![u] = @ \cup Unsettled(log[Guest]), ![Guest] = {}]
      BY <2>1, <2>3 DEF adoptGuestRows, Unsettled
    <3>2. log'[u] = log[u] \cup Unsettled(log[Guest]) /\ log'[Guest] = {}
      BY <2>3, <3>1 DEF TypeOK, Owners
    <3> QED
      BY <1>2, <2>3, <3>2 DEF Adopts, Owners
  <2> QED
    BY <2>2, <2>3
<1>3. ASSUME NEW q \in Questions, recordAttempt(q)
      PROVE  log'[u] \subseteq log[u] \/ Records(u)
  <2> DEFINE row == [id |-> attempts + 1, q |-> q, at |-> ClientStamp, synced |-> FALSE]
  <2>1. log' = [log EXCEPT ![owner] = @ \cup {row}]
    BY <1>3 DEF recordAttempt
  <2>2. u # owner => log'[u] = log[u]
    BY <2>1 DEF TypeOK
  <2>3. u = owner => log'[u] = log[u] \cup {row}
    BY <2>1 DEF TypeOK
  <2> QED
    BY <1>3, <2>2, <2>3 DEF Records
<1>4. ASSUME NEW w \in pendingWrites, WriteSettles(w)
      PROVE  log'[u] \subseteq log[u] \/ Settles(u)
  <2>1. w.stage # "ok" => log' = log
    BY <1>4 DEF WriteSettles
  <2>2. w.stage = "ok" => log' = [log EXCEPT ![w.key] = markSynced(@, {w.id})]
    BY <1>4 DEF WriteSettles
  <2>3. w.stage = "ok" => log'[u] = IF u = w.key THEN markSynced(log[u], {w.id}) ELSE log[u]
    BY <2>2 DEF TypeOK
  <2> QED
    BY <1>4, <2>1, <2>3 DEF Settles
<1>5. ASSUME NEW s \in SyncSlots, SyncMerges(s)
      PROVE  log'[u] \subseteq log[u] \/ Merges(u)
  <2>1. log' = [log EXCEPT ![syncs[s].key] =
                  markSynced(@, IdsOf(SettledBy(s))) \cup MergedBy(s)]
    BY <1>5 DEF SyncMerges, SettledBy, MergedBy
  <2>2. log'[u] = IF u = syncs[s].key
                  THEN markSynced(log[u], IdsOf(SettledBy(s))) \cup MergedBy(s)
                  ELSE log[u]
    BY <2>1 DEF TypeOK
  <2> QED
    BY <1>5, <2>2 DEF Merges
<1>6. CASE clearLocally \/ \E c \in ClearSlots : clearProgress(c)
  BY <1>6 DEF clearLocally, clearProgress, TypeOK
<1>7. CASE log' # log
  BY <1>2, <1>3, <1>4, <1>5, <1>6, <1>7
     DEF Next, SessionNext, AnswerNext, SyncNext, ClearNext, SessionSeen,
     SessionChanges, CookieChanges, Reload, OtherDevice, StrayStored,
     ClearedElsewhere, PostStored, PostFails, retrySync, GetAnswered, GetFails,
     SyncFails, SyncDefers, SyncSettles, ClearDeletes, DeleteDone, DeleteFails,
     ClearFails, ClearConfirmed, ClearSettles, vars, TypeOK
<1> QED
  BY <1>1, <1>7

(* A row after some of a log were settled is one of the log's.             *)
LEMMA MarkedRow ==
  ASSUME NEW rows \in SUBSET Row, NEW ids, NEW r \in markSynced(rows, ids)
  PROVE  \E o \in rows : /\ r.id = o.id /\ r.q = o.q /\ r.at = o.at
                         /\ r.synced <=> o.synced \/ o.id \in ids
<1>1. PICK o \in rows : r = [o EXCEPT !.synced = o.synced \/ o.id \in ids]
  BY DEF markSynced
<1>2. o \in Row
  OBVIOUS
<1> QED
  BY <1>1, <1>2 DEF Row

LEMMA UnsettledRow ==
  ASSUME NEW rows \in SUBSET Row, NEW r \in Unsettled(rows)
  PROVE  /\ ~r.synced
         /\ \E o \in rows : r.id = o.id /\ r.q = o.q /\ r.at = o.at
<1>1. PICK o \in rows : r = [o EXCEPT !.synced = FALSE]
  BY DEF Unsettled
<1>2. o \in Row
  OBVIOUS
<1> QED
  BY <1>1, <1>2 DEF Row

LEMMA MergedRow ==
  ASSUME NEW s, NEW r \in MergedBy(s)
  PROVE  /\ r.synced
         /\ \E t \in newFromServer(log[syncs[s].key], syncs[s].reply) :
               r.id = t.id /\ r.q = t.q /\ r.at = t.at
BY DEF MergedBy

(* The server gains the answer of a POST, awaited or not, or of another    *)
(* device.                                                                 *)
LEMMA SavedRow ==
  ASSUME TypeOK, NEW v \in Accounts, NEW id, NEW q, saveAttempt(v, id, q),
         NEW u \in Accounts, NEW t \in server'[u], t \notin server[u]
  PROVE  u = v /\ t.id = id /\ t.q = q /\ t.at = ServerStamp
<1> DEFINE row == [id |-> id, q |-> q, at |-> ServerStamp]
<1>1. row.id = id /\ row.q = q /\ row.at = ServerStamp
  OBVIOUS
<1>2. server' = [server EXCEPT ![v] = @ \cup {row}]
  BY DEF saveAttempt
<1> HIDE DEF row
<1>3. u = v /\ t = row
  BY <1>2 DEF TypeOK
<1> QED
  BY <1>1, <1>3

(* A step adds no other row to the server.                                 *)
LEMMA ServerRowAfter ==
  ASSUME TypeOK, [Next]_vars, NEW u \in Accounts, NEW t \in server'[u]
  PROVE  \/ t \in server[u]
         \/ \E w \in pendingWrites : /\ PostStored(w) /\ u = w.as
                                     /\ t.id = w.id /\ t.q = w.q /\ t.at = ServerStamp
         \/ \E w \in strays : /\ StrayStored(w) /\ u = w.as
                              /\ t.id = w.id /\ t.q = w.q /\ t.at = ServerStamp
         \/ \E q \in Questions : /\ OtherDevice(u, q)
                                 /\ t.id = attempts + 1 /\ t.q = q /\ t.at = ServerStamp
<1>1. ASSUME NEW w \in pendingWrites, PostStored(w), t \notin server[u]
      PROVE  u = w.as /\ t.id = w.id /\ t.q = w.q /\ t.at = ServerStamp
  BY <1>1, SavedRow DEF PostStored
<1>2. ASSUME NEW w \in strays, StrayStored(w), t \notin server[u]
      PROVE  u = w.as /\ t.id = w.id /\ t.q = w.q /\ t.at = ServerStamp
  <2>1. w.as \in Accounts
    BY DEF TypeOK, Stray
  <2> QED
    BY <1>2, <2>1, SavedRow DEF StrayStored
<1>3. ASSUME NEW v \in Accounts, NEW q \in Questions, OtherDevice(v, q), t \notin server[u]
      PROVE  u = v /\ t.id = attempts + 1 /\ t.q = q /\ t.at = ServerStamp
  BY <1>3, SavedRow DEF OtherDevice
<1>4. ASSUME NEW c \in ClearSlots, DeleteDone(c) PROVE t \in server[u]
  BY <1>4 DEF DeleteDone, TypeOK
<1>5. ASSUME NEW v \in Accounts, ClearedElsewhere(v) PROVE t \in server[u]
  BY <1>5 DEF ClearedElsewhere, TypeOK
<1>6. CASE server' = server
  BY <1>6
<1> QED
  BY <1>1, <1>2, <1>3, <1>4, <1>5, <1>6
     DEF Next, SessionNext, AnswerNext, SyncNext, ClearNext,
     SessionSeen, SessionChanges, SessionSettles, CookieChanges, Reload,
     recordAttempt, PostFails, WriteSettles, retrySync, GetAnswered, GetFails,
     SyncFails, SyncDefers, SyncMerges, SyncSettles, clearLocally,
     clearProgress, ClearDeletes, DeleteFails, ClearFails, ClearConfirmed,
     ClearSettles, vars

(* What a sync holds of the server's rows, it held before or the server    *)
(* holds.                                                                  *)
LEMMA ReplyAfter ==
  ASSUME TypeOK, [Next]_vars, NEW s \in SyncSlots, syncs'[s].stage = "reply",
         NEW t \in syncs'[s].reply
  PROVE  \/ syncs[s].stage = "reply" /\ t \in syncs[s].reply
         \/ \E u \in Accounts : t \in server[u]
BY SlotAfter DEF SyncContinues, SyncStarts, StartedSync, IdleSync

(* At most one answer is given in a step, and it gets the next number.     *)
LEMMA AnswersAfter ==
  ASSUME TypeOK, [Next]_vars
  PROVE  \/ /\ attempts' = attempts
            /\ \A q \in Questions : ~recordAttempt(q)
            /\ \A u \in Accounts, q \in Questions : ~OtherDevice(u, q)
         \/ attempts' = attempts + 1 /\ \E q \in Questions : recordAttempt(q)
         \/ attempts' = attempts + 1 /\ \E u \in Accounts, q \in Questions : OtherDevice(u, q)
<1>1. CASE \E q \in Questions : recordAttempt(q)
  BY <1>1 DEF recordAttempt
<1>2. CASE \E u \in Accounts, q \in Questions : OtherDevice(u, q)
  BY <1>2 DEF OtherDevice
<1>3. CASE attempts' = attempts
  BY <1>3 DEF recordAttempt, OtherDevice, TypeOK
<1> QED
  BY <1>1, <1>2, <1>3 DEF Next, SessionNext, AnswerNext, SyncNext, ClearNext,
     SessionSeen, SessionChanges, SessionSettles, CookieChanges, Reload,
     PostStored, StrayStored, ClearedElsewhere, PostFails, WriteSettles,
     retrySync, GetAnswered, GetFails, SyncFails, SyncDefers, SyncMerges,
     SyncSettles, clearLocally, clearProgress, ClearDeletes, DeleteDone,
     DeleteFails, ClearFails, ClearConfirmed, ClearSettles, vars

-----------------------------------------------------------------------------
(* The invariant behind the other theorems. *)

(* Nothing is suspended, held or in flight when the page is opened. *)
LEMMA SyncInvInit == Init => SyncInv
BY OwnersAssumption DEF Init, SyncInv, OwnInv, KeyInv, PageInv, EpochInv,
   GuestInv, NoCrossAccountPost, KeepOutInv, LockInv, GenerationInv, SyncsKeepOut,
   IdleSync, IdleClear

(* Every step sends and holds an account's rows only. *)
LEMMA KeyStep ==
  ASSUME TypeOK, KeyInv, [Next]_vars
  PROVE  KeyInv'
<1> USE OwnersAssumption
<1>1. syncEnabled' <=> owner' # Guest
  BY SessionAfter, ReloadFacts, TypeStep DEF SessionTaken, KeyInv, TypeOK, page
<1>2. syncEnabled => owner \in Accounts
  BY DEF KeyInv, TypeOK, Owners
<1>3. ASSUME NEW w \in queuedWrites' PROVE w.key \in Accounts
  BY <1>2, <1>3, QueueAfter DEF HeldNow, KeyInv
<1>4. ASSUME NEW w \in pendingWrites' PROVE w.key \in Accounts
  <2>1. ASSUME WriteBackfilled(w) PROVE w.key \in Accounts
    BY <2>1 DEF WriteBackfilled, SyncMerges, KeyInv
  <2> QED
    BY <1>2, <1>4, <2>1, WriteAfter DEF WriteContinues, WriteStarts,
       WriteRecorded, WriteReleased, KeyInv
<1>5. ASSUME NEW s \in SyncSlots, syncs'[s].stage # "idle"
      PROVE  syncs'[s].key \in Accounts
  <2>1. owner' \in Owners
    BY TypeStep DEF TypeOK
  <2> QED
    BY <1>1, <1>5, <2>1, SlotAfter DEF SyncContinues, SyncStarts, StartedSync,
       IdleSync, KeyInv, Owners
<1> QED
  BY <1>1, <1>3, <1>4, <1>5 DEF KeyInv

(* While an account is signed in nobody answers as a guest.                *)
LEMMA GuestStep ==
  ASSUME TypeOK, KeyInv, GuestInv, [Next]_vars
  PROVE  GuestInv'
<1> USE OwnersAssumption
<1>1. Guest \in Owners
  BY DEF Owners
<1>2. CASE SessionTaken
  BY <1>1, <1>2 DEF SessionTaken, SessionSettles, adoptGuestRows, GuestInv, TypeOK
<1>3. CASE Reloads
  BY <1>3, ReloadFacts DEF GuestInv
<1>4. ASSUME owner' = owner, owner # Guest PROVE log'[Guest] = {}
  <2>1. ~Adopts(Guest) /\ ~Settles(Guest) /\ ~Merges(Guest) /\ ~Records(Guest)
    BY <1>4 DEF Adopts, Settles, Merges, Records, SyncMerges, KeyInv
  <2> QED
    BY <1>1, <1>4, <2>1, LogAfter DEF GuestInv
<1> QED
  BY <1>2, <1>3, <1>4, SessionAfter DEF GuestInv, page

(* Seen at once, no session change lets a request go out for another's     *)
(* rows.                                                                   *)
LEMMA OwnStep ==
  ASSUME NoLag, TypeOK, OwnInv, [Next]_vars
  PROVE  OwnInv'
<1> USE OwnersAssumption
<1>1. KeyInv'
  BY KeyStep DEF OwnInv
<1>2. \A u : ~CookieChanges(u)
  BY DEF CookieChanges, NoLag
<1>3. PageInv'
  BY <1>2, SessionAfter, ReloadFacts DEF SessionTaken, OwnInv, PageInv
<1>4. syncEnabled => owner = session
  BY DEF OwnInv, KeyInv, PageInv
<1>5. \/ UNCHANGED <<owner, session, syncEpoch>>
      \/ syncEpoch' = syncEpoch + 1
      \/ queuedWrites' = {} /\ \A s \in SyncSlots : syncs'[s].stage = "idle"
  BY <1>2, SessionAfter, ReloadFacts DEF SessionTaken
<1>6. ASSUME NEW w \in queuedWrites'
      PROVE  w.epoch <= syncEpoch' /\ (w.epoch = syncEpoch' => w.key = owner')
  <2>1. CASE HeldNow(w)
    BY <2>1 DEF HeldNow, recordAttempt, page, TypeOK
  <2>2. CASE w \in queuedWrites
    <3>1. w.epoch \in Nat /\ w.epoch <= syncEpoch /\ syncEpoch \in Nat
      BY <2>2 DEF OwnInv, EpochInv, TypeOK, QueuedWrite
    <3> QED
      BY <1>5, <1>6, <2>2, <3>1 DEF OwnInv, EpochInv
  <2> QED
    BY <1>6, <2>1, <2>2, QueueAfter
<1>7. ASSUME NEW s \in SyncSlots, syncs'[s].stage # "idle"
      PROVE  /\ syncs'[s].as = syncs'[s].key
             /\ syncs'[s].epoch <= syncEpoch'
             /\ syncs'[s].epoch = syncEpoch' => syncs'[s].key = owner'
  <2>1. CASE SyncStarts(s)
    <3>1. owner' = session'
      BY <1>1, <1>3, <2>1 DEF SyncStarts, PageInv, KeyInv
    <3> QED
      BY <2>1, <3>1, TypeStep DEF SyncStarts, StartedSync, IdleSync, TypeOK
  <2>2. CASE SyncContinues(s)
    <3>1. syncs[s].epoch \in Nat /\ syncs[s].epoch <= syncEpoch /\ syncEpoch \in Nat
      BY <2>2 DEF SyncContinues, OwnInv, EpochInv, TypeOK, Sync
    <3> QED
      BY <1>5, <1>7, <2>2, <3>1 DEF SyncContinues, OwnInv, EpochInv
  <2> QED
    BY <1>7, <2>1, <2>2, SlotAfter
<1>8. ASSUME NEW w \in pendingWrites' PROVE w.as = w.key
  <2>1. CASE WriteContinues(w)
    BY <2>1 DEF WriteContinues, OwnInv, NoCrossAccountPost
  <2>2. CASE WriteStarts(w)
    <3>1. ASSUME WriteBackfilled(w) PROVE w.key = owner /\ syncEnabled
      BY <3>1 DEF WriteBackfilled, SyncMerges, switchedSince, OwnInv, EpochInv, KeyInv
    <3>2. ASSUME WriteReleased(w) PROVE w.key = owner /\ syncEnabled
      BY <3>2 DEF WriteReleased, mayRelease, OwnInv, EpochInv
    <3> QED
      BY <1>4, <2>2, <3>1, <3>2 DEF WriteStarts, WriteRecorded
  <2> QED
    BY <1>8, <2>1, <2>2, WriteAfter
<1>9. ASSUME NEW w \in strays' PROVE w.as = w.key
  BY <1>9, StrayAfter DEF Strayed, OwnInv, NoCrossAccountPost
<1>10. GuestInv'
  BY GuestStep DEF OwnInv
<1> QED
  BY <1>1, <1>3, <1>6, <1>7, <1>8, <1>9, <1>10 DEF OwnInv, EpochInv, NoCrossAccountPost

(* No clear is suspended while no clear keeps syncs out. *)
LEMMA UnlockedIdle ==
  ASSUME LockInv, clearInFlight = None
  PROVE  \A c \in ClearSlots : clears[c].stage = "idle"
BY SlotsAssumption DEF LockInv

(* One clear at a time, no step lets it go on without its locks. *)
LEMMA KeepOutStep ==
  ASSUME OneClear, TypeOK, KeepOutInv, [Next]_vars
  PROVE  KeepOutInv'
<1> USE SlotsAssumption
<1>1. ASSUME NEW c \in ClearSlots, clears'[c].stage # "idle"
      PROVE  /\ clearInFlight' = c
             /\ clears'[c].stage \in {"wait", "delete"} => writesHeldBy' = c
             /\ clears'[c].stage = "delete" => pendingWrites' = {}
  <2>1. CASE clearProgress(c)
    BY <2>1 DEF clearProgress, IdleClear, TypeOK
  <2>2. CASE ClearContinues(c)
    <3>1. \A d \in ClearSlots : d = c
      BY DEF OneClear
    <3>2. clearInFlight = c /\ ~Reloads /\ ~clearProgress(c)
      BY <1>1, <2>2 DEF ClearContinues, KeepOutInv, LockInv, Reloads, Reload,
         IdleClear, clearProgress
    <3>3. /\ ClearFails(c) => clears'[c].stage = "idle"
          /\ ClearSettles(c) => clears'[c].stage = "idle"
          /\ ClearConfirmed(c) => clears'[c].stage = "after"
      BY DEF ClearFails, ClearSettles, ClearConfirmed, IdleClear, TypeOK, Clear
    <3>4. clearInFlight' = c
      BY <1>1, <3>1, <3>2, <3>3, LocksAfter DEF ClearLockMoves
    <3>5. ASSUME clears'[c].stage \in {"wait", "delete"} PROVE writesHeldBy' = c
      <4>1. writesHeldBy = c
        BY <2>2, <3>5 DEF ClearContinues, KeepOutInv, LockInv
      <4> QED
        BY <3>1, <3>2, <3>3, <3>5, <4>1, LocksAfter DEF WriteLockMoves
    <3>6. ASSUME clears'[c].stage = "delete", NEW w \in pendingWrites'
          PROVE  FALSE
      <4>1. writesHeldBy = c /\ pendingWrites = {}
        BY <2>2, <3>6 DEF ClearContinues, KeepOutInv, LockInv
      <4>2. ~WriteContinues(w)
        BY <4>1 DEF WriteContinues
      <4>3. ~WriteRecorded(w)
        BY <4>1 DEF WriteRecorded, holdsWrites
      <4>4. ~WriteBackfilled(w)
        BY <1>1, <2>2 DEF WriteBackfilled, SyncMerges, ClearContinues, KeepOutInv,
           SyncsKeepOut
      <4>5. ~WriteReleased(w)
        BY <3>1, <3>3, <3>6 DEF WriteReleased
      <4> QED
        BY <4>2, <4>3, <4>4, <4>5, WriteAfter DEF WriteStarts
    <3> QED
      BY <3>4, <3>5, <3>6
  <2> QED
    BY <1>1, <2>1, <2>2, ClearAfter
<1>2. LockInv'
  BY <1>1 DEF LockInv
<1>3. \/ clearGeneration' \in {clearGeneration, clearGeneration + 1}
      \/ \A s \in SyncSlots : syncs'[s].stage = "idle"
  BY LocksAfter, ReloadFacts DEF GenerationMoves
<1>4. GenerationInv'
  <2>1. ASSUME NEW s \in SyncSlots, syncs'[s].stage # "idle"
        PROVE  syncs'[s].gen <= clearGeneration'
    <3>1. CASE SyncStarts(s)
      BY <3>1 DEF SyncStarts, StartedSync, IdleSync, locks, TypeOK
    <3>2. CASE SyncContinues(s)
      <4>1. syncs[s].gen \in Nat /\ clearGeneration \in Nat
        BY DEF TypeOK, Sync
      <4> QED
        BY <1>3, <2>1, <3>2, <4>1 DEF SyncContinues, KeepOutInv, GenerationInv
    <3> QED
      BY <2>1, <3>1, <3>2, SlotAfter
  <2> QED
    BY <2>1 DEF GenerationInv
<1>5. SyncsKeepOut'
  <2>1. ASSUME NEW c \in ClearSlots, clears'[c].stage # "idle",
               NEW s \in SyncSlots, syncs'[s].stage \in {"get", "reply"}
        PROVE  clearGeneration' # syncs'[s].gen
    <3>1. ~SyncStarts(s)
      BY <1>2, <2>1, UnlockedIdle DEF SyncStarts, KeepOutInv
    <3>2. SyncContinues(s) /\ syncs[s].stage \in {"get", "reply"}
      BY <2>1, <3>1, SlotAfter DEF SyncContinues
    <3>3. syncs[s].gen \in Nat /\ clearGeneration \in Nat /\ syncs[s].gen <= clearGeneration
      BY <3>2 DEF KeepOutInv, GenerationInv, TypeOK, Sync
    <3>4. CASE clearProgress(c)
      BY <3>2, <3>3, <3>4 DEF clearProgress, SyncContinues
    <3>5. CASE ClearContinues(c)
      <4>1. syncs[s].gen # clearGeneration
        BY <3>2, <3>5 DEF ClearContinues, KeepOutInv, SyncsKeepOut, clearedSince
      <4> QED
        BY <1>3, <2>1, <3>2, <3>3, <4>1 DEF SyncContinues
    <3> QED
      BY <2>1, <3>4, <3>5, ClearAfter
  <2> QED
    BY <2>1 DEF SyncsKeepOut, clearedSince
<1> QED
  BY <1>2, <1>4, <1>5 DEF KeepOutInv

(* #403: if the page sees every session change at once, no attempt POST is *)
(* ever sent on the session of an account other than the one whose row it  *)
(* carries.                                                                *)
THEOREM PostsStayInAccount ==
  ASSUME NoLag
  PROVE  Spec => []NoCrossAccountPost
<1>1. Init => TypeOK /\ OwnInv
  BY TypeInit, SyncInvInit DEF SyncInv
<1>2. TypeOK /\ OwnInv /\ [Next]_vars => (TypeOK /\ OwnInv)'
  BY TypeStep, OwnStep
<1>3. OwnInv => NoCrossAccountPost
  BY DEF OwnInv
<1> QED
  BY <1>1, <1>2, <1>3, PTL DEF Spec

(* One clear at a time, its locks are never open while it is suspended. *)
LEMMA KeepOut ==
  ASSUME OneClear
  PROVE  Spec => []KeepOutInv
<1>1. Init => TypeOK /\ KeepOutInv
  BY TypeInit, SyncInvInit DEF SyncInv
<1>2. TypeOK /\ KeepOutInv /\ [Next]_vars => (TypeOK /\ KeepOutInv)'
  BY TypeStep, KeepOutStep
<1> QED
  BY <1>1, <1>2, PTL DEF Spec

(* #397: while a clear is suspended its DELETE never has an attempt POST   *)
(* beside it, and every sync in flight is one whose answer will be thrown  *)
(* away, whatever the page believes about the session.                     *)
THEOREM ClearsHoldLocks ==
  ASSUME OneClear
  PROVE  Spec => []LocksHold
<1>1. KeepOutInv => LocksHold
  BY DEF KeepOutInv, LockInv, DeleteBarrier, LocksHold
<1> QED
  BY <1>1, KeepOut, PTL

(* The protocol invariant: who the page acts for, which requests are whose,
   and what the locks of a clear hold back. *)
THEOREM SyncInvariance ==
  ASSUME NoLag, OneClear
  PROVE  Spec => [](TypeOK /\ SyncInv)
<1>1. Init => TypeOK /\ SyncInv
  BY TypeInit, SyncInvInit
<1>2. TypeOK /\ SyncInv /\ [Next]_vars => (TypeOK /\ SyncInv)'
  BY TypeStep, OwnStep, KeepOutStep DEF SyncInv
<1> QED
  BY <1>1, <1>2, PTL DEF Spec

-----------------------------------------------------------------------------
(* What the learner is told, and what no step may lose. *)

(* A status is "off" exactly while sync is, when the page is opened.       *)
LEMMA StatusInit == Init => StatusInv
BY DEF Init, StatusInv, StatusMatchesSession, IdleSync, IdleClear

(* What settles sets no status but in the session it started in.           *)
LEMMA StatusAfter ==
  ASSUME TypeOK, StatusInv, [Next]_vars,
         UNCHANGED <<session, loaded, owner, syncEnabled, syncEpoch>>
  PROVE  syncStatus' = syncStatus \/ (syncEnabled /\ syncStatus' # "off")
<1>1. ASSUME NEW e, StartedInSync(e),
             \/ setSyncStatusFor(e, "failed") \/ setSyncStatusFor(e, "synced")
             \/ setSyncStatusFor(e, "syncing")
      PROVE  syncStatus' = syncStatus \/ (syncEnabled /\ syncStatus' # "off")
  BY <1>1 DEF setSyncStatusFor, StartedInSync
<1>2. CASE SessionNext
  <2>1. \A u : ~SessionSettles(u)
    BY DEF SessionSettles, TypeOK
  <2>2. CASE \E u \in Owners : CookieChanges(u)
    BY <2>2 DEF CookieChanges, page
  <2>3. CASE \E u \in Owners : Reload(u)
    BY <2>3 DEF Reload, StatusInv, StatusMatchesSession
  <2> QED
    BY <1>2, <2>1, <2>2, <2>3 DEF SessionNext, SessionSeen, SessionChanges
<1>3. ASSUME NEW w \in pendingWrites, WriteSettles(w)
      PROVE  syncStatus' = syncStatus \/ (syncEnabled /\ syncStatus' # "off")
  BY <1>1, <1>3 DEF WriteSettles, StatusInv
<1>4. ASSUME NEW s \in SyncSlots, SyncFails(s) \/ SyncSettles(s) \/ retrySync(s)
      PROVE  syncStatus' = syncStatus \/ (syncEnabled /\ syncStatus' # "off")
  <2>1. StartedInSync(syncEpoch) \/ ~retrySync(s)
    BY DEF retrySync, StartedInSync, TypeOK
  <2>2. syncs[s].stage # "idle" => StartedInSync(syncs[s].epoch)
    BY DEF StatusInv
  <2> QED
    BY <1>1, <1>4, <2>1, <2>2 DEF SyncFails, SyncSettles, SyncReady, retrySync
<1>5. ASSUME NEW c \in ClearSlots, ClearFails(c) \/ ClearSettles(c) \/ clearProgress(c)
      PROVE  syncStatus' = syncStatus \/ (syncEnabled /\ syncStatus' # "off")
  <2>1. StartedInSync(syncEpoch) \/ ~clearProgress(c)
    BY DEF clearProgress, StartedInSync, TypeOK
  <2>2. clears[c].stage # "idle" => StartedInSync(clears[c].epoch)
    BY DEF StatusInv
  <2> QED
    BY <1>1, <1>5, <2>1, <2>2 DEF ClearFails, ClearSettles, clearProgress
<1> QED
  BY <1>2, <1>3, <1>4, <1>5 DEF Next, AnswerNext, SyncNext, ClearNext,
     recordAttempt, OtherDevice, StrayStored, ClearedElsewhere, PostStored,
     PostFails, GetAnswered, GetFails, SyncDefers, SyncMerges, clearLocally,
     ClearDeletes, DeleteDone, DeleteFails, ClearConfirmed, vars, page

(* No step sets a status late, or starts anything while sync is off.       *)
LEMMA StatusStep ==
  ASSUME TypeOK, StatusInv, [Next]_vars
  PROVE  StatusInv'
<1>1. TypeOK'
  BY TypeStep
<1>2. StatusMatchesSession'
  <2>1. CASE SessionTaken
    BY <2>1 DEF SessionTaken, SessionSettles, StatusMatchesSession
  <2>2. CASE Reloads
    BY <2>2 DEF Reloads, Reload, StatusMatchesSession
  <2>3. CASE UNCHANGED page
    BY <2>3 DEF page, StatusInv, StatusMatchesSession
  <2>4. CASE UNCHANGED <<session, loaded, owner, syncEnabled, syncEpoch>>
    BY <2>4, StatusAfter DEF StatusInv, StatusMatchesSession
  <2> QED
    BY <2>1, <2>2, <2>3, <2>4, SessionAfter
<1>3. ASSUME ~Reloads, NEW e \in Nat, StartedInSync(e)
      PROVE  StartedInSync(e)'
  BY <1>1, <1>3, SessionAfter DEF SessionTaken, StartedInSync, page, TypeOK
<1>4. ASSUME NEW w \in queuedWrites' \cup pendingWrites' PROVE StartedInSync(w.epoch)'
  <2>1. ~Reloads
    BY <1>4, ReloadFacts
  <2>2. syncEnabled => StartedInSync(syncEpoch)
    BY DEF StartedInSync, TypeOK
  <2>3. \A v \in queuedWrites \cup pendingWrites : v.epoch \in Nat /\ StartedInSync(v.epoch)
    BY DEF StatusInv, TypeOK, QueuedWrite, Write
  <2>4. \A s \in SyncSlots : SyncMerges(s) =>
           syncs[s].epoch \in Nat /\ StartedInSync(syncs[s].epoch)
    BY DEF StatusInv, TypeOK, Sync, SyncMerges
  <2>5. w.epoch \in Nat /\ StartedInSync(w.epoch)
    <3>1. CASE w \in queuedWrites'
      BY <2>2, <2>3, <3>1, QueueAfter DEF HeldNow, TypeOK
    <3>2. CASE w \in pendingWrites'
      BY <2>2, <2>3, <2>4, <3>2, WriteAfter DEF WriteContinues, WriteStarts,
         WriteRecorded, WriteBackfilled, WriteReleased, TypeOK
    <3> QED
      BY <1>4, <3>1, <3>2
  <2> QED
    BY <1>3, <2>1, <2>5
<1>5. ASSUME NEW s \in SyncSlots, syncs'[s].stage # "idle"
      PROVE  StartedInSync(syncs[s].epoch)'
  <2>1. CASE SyncStarts(s)
    BY <1>1, <2>1 DEF SyncStarts, StartedSync, IdleSync, StartedInSync, TypeOK
  <2>2. CASE SyncContinues(s)
    <3>1. /\ syncs[s].epoch \in Nat /\ StartedInSync(syncs[s].epoch)
          /\ syncs'[s].epoch = syncs[s].epoch
      BY <2>2 DEF SyncContinues, StatusInv, TypeOK, Sync
    <3> QED
      BY <1>3, <1>5, <3>1, ReloadFacts
  <2> QED
    BY <1>5, <2>1, <2>2, SlotAfter
<1>6. ASSUME NEW c \in ClearSlots, clears'[c].stage # "idle"
      PROVE  StartedInSync(clears[c].epoch)'
  <2>1. CASE clearProgress(c)
    BY <2>1 DEF clearProgress, IdleClear, StartedInSync, TypeOK
  <2>2. CASE ClearContinues(c)
    <3>1. /\ clears[c].epoch \in Nat /\ StartedInSync(clears[c].epoch)
          /\ clears'[c].epoch = clears[c].epoch
      BY <2>2 DEF ClearContinues, StatusInv, TypeOK, Clear
    <3> QED
      BY <1>3, <1>6, <3>1, ReloadFacts
  <2> QED
    BY <1>6, <2>1, <2>2, ClearAfter
<1> QED
  BY <1>2, <1>4, <1>5, <1>6 DEF StatusInv

(* Whatever settles late - a POST, a sync or a clear of an earlier session *)
(* - the status is "off" exactly while sync is: setSyncStatusFor() drops   *)
(* the rest, however the session changes and however many clears run.      *)
THEOREM StatusIsCurrent == Spec => []StatusMatchesSession
<1>1. Init => TypeOK /\ StatusInv
  BY TypeInit, StatusInit
<1>2. TypeOK /\ StatusInv /\ [Next]_vars => (TypeOK /\ StatusInv)'
  BY TypeStep, StatusStep
<1>3. StatusInv => StatusMatchesSession
  BY DEF StatusInv
<1> QED
  BY <1>1, <1>2, <1>3, PTL DEF Spec

(* Where a row of a log comes from in a step that is not a clear, ...      *)
LEMMA LogKept ==
  ASSUME TypeOK, [Next]_vars, ~GenerationMoves, NEW u \in Owners, NEW r \in log[u]
  PROVE  \E v \in Owners : r.id \in IdsOf(log'[v])
<1> USE OwnersAssumption
<1>1. r \in Row /\ r.id \in IdsOf(log[u]) /\ Guest \in Owners
  BY DEF TypeOK, IdsOf, Owners
<1>2. CASE log' = log
  BY <1>1, <1>2
<1>3. ASSUME NEW w \in Owners, SessionSettles(w)
      PROVE  \E v \in Owners : r.id \in IdsOf(log'[v])
  <2>1. log' = adoptGuestRows(w)
    BY <1>3 DEF SessionSettles
  <2>2. CASE w # Guest /\ u = Guest
    <3> DEFINE adopted == {[t EXCEPT !.synced = FALSE] : t \in log[Guest]}
    <3>1. [r EXCEPT !.synced = FALSE] \in adopted /\ [r EXCEPT !.synced = FALSE].id = r.id
      BY <1>1, <2>2 DEF Row
    <3>2. log'[w] = log[w] \cup adopted
      BY <1>1, <2>1, <2>2 DEF adoptGuestRows, TypeOK
    <3> HIDE DEF adopted
    <3> QED
      BY <3>1, <3>2 DEF IdsOf
  <2>3. CASE w = Guest \/ u # Guest
    <3>1. r \in log'[u]
      BY <1>1, <2>1, <2>3 DEF adoptGuestRows, TypeOK
    <3> QED
      BY <3>1 DEF IdsOf
  <2> QED
    BY <2>2, <2>3
<1>4. ASSUME NEW q \in Questions, recordAttempt(q)
      PROVE  \E v \in Owners : r.id \in IdsOf(log'[v])
  BY <1>4 DEF recordAttempt, IdsOf, TypeOK
<1>5. ASSUME NEW w \in pendingWrites, WriteSettles(w)
      PROVE  \E v \in Owners : r.id \in IdsOf(log'[v])
  <2>1. IdsOf(markSynced(log[u], {w.id})) = IdsOf(log[u])
    BY MarkedRows DEF TypeOK
  <2> QED
    BY <1>1, <1>5, <2>1 DEF WriteSettles, TypeOK
<1>6. ASSUME NEW s \in SyncSlots, SyncMerges(s)
      PROVE  \E v \in Owners : r.id \in IdsOf(log'[v])
  <2>1. PICK ids, merged :
          log' = [log EXCEPT ![syncs[s].key] = markSynced(@, ids) \cup merged]
    BY <1>6 DEF SyncMerges
  <2>2. IdsOf(markSynced(log[u], ids)) = IdsOf(log[u])
    BY MarkedRows DEF TypeOK
  <2>3. IdsOf(log[u]) \subseteq IdsOf(log'[u])
    BY <2>1, <2>2 DEF IdsOf, TypeOK
  <2> QED
    BY <1>1, <2>3
<1>7. ~clearLocally /\ \A c \in ClearSlots : ~clearProgress(c)
  BY DEF GenerationMoves, clearLocally, clearProgress
<1>8. CASE log' # log
  BY <1>3, <1>4, <1>5, <1>6, <1>7, <1>8
     DEF Next, SessionNext, AnswerNext, SyncNext, ClearNext, SessionSeen,
     SessionChanges, CookieChanges, Reload, OtherDevice, StrayStored,
     ClearedElsewhere, PostStored, PostFails, retrySync, GetAnswered, GetFails,
     SyncFails, SyncDefers, SyncSettles, ClearDeletes, DeleteDone, DeleteFails,
     ClearFails, ClearConfirmed, ClearSettles, vars, TypeOK
<1> QED
  BY <1>2, <1>8

(* A sync, a settled write, a sign-in or a page load loses no answer: only *)
(* a clear takes one out of every log.                                     *)
THEOREM OnlyClearsForget == Spec => NoSilentLoss
<1>1. ASSUME TypeOK, [Next]_vars, clearGeneration' <= clearGeneration
      PROVE  UNION {IdsOf(log[u]) : u \in Owners}
               \subseteq UNION {IdsOf(log'[u]) : u \in Owners}
  <2>1. ~GenerationMoves
    BY <1>1 DEF GenerationMoves, TypeOK
  <2>2. ASSUME NEW u \in Owners, NEW r \in log[u]
        PROVE  \E v \in Owners : r.id \in IdsOf(log'[v])
    BY <1>1, <2>1, LogKept
  <2> QED
    BY <2>2 DEF IdsOf
<1> QED
  BY <1>1, TypeCorrect, PTL DEF Spec, NoSilentLoss

-----------------------------------------------------------------------------
(* Which answers there are, where, and which copies are settled. *)

LEMMA RowsInit == Init => RowsInv
<1> SUFFICES ASSUME Init PROVE RowsInv
  OBVIOUS
<1>1. /\ \A u \in Owners : log[u] = {}
      /\ \A u \in Accounts : log[u] = {} /\ server[u] = {}
      /\ log[Guest] = {} /\ queuedWrites = {} /\ pendingWrites = {} /\ strays = {}
      /\ \A s \in SyncSlots : syncs[s].stage = "idle"
  BY DEF Init, Owners, IdleSync
<1>2. KeyInv
  BY SyncInvInit DEF SyncInv, OwnInv
<1> QED
  BY <1>1, <1>2 DEF RowsInv, AnswerInv, Elsewhere, Guests, StampInv, CopyInv

(* While no answer is given, answers are copied from where they are ...    *)
LEMMA CopiesAfter ==
  ASSUME TypeOK, KeyInv, [Next]_vars, attempts' = attempts,
         NEW i \in Ids, NEW p \in Questions, Elsewhere(i, p)'
  PROVE  Elsewhere(i, p) \/ (Guests(i, p) /\ log'[Guest] = {})
<1> USE OwnersAssumption
<1>1. /\ \A q \in Questions : ~recordAttempt(q)
      /\ \A u \in Accounts, q \in Questions : ~OtherDevice(u, q)
  BY AnswersAfter DEF TypeOK
<1>2. ASSUME NEW u \in Accounts, NEW r \in log'[u], r.id = i, r.q = p
      PROVE  Elsewhere(i, p) \/ (Guests(i, p) /\ log'[Guest] = {})
  <2>1. u \in Owners /\ log[u] \in SUBSET Row /\ log[Guest] \in SUBSET Row
    BY DEF Owners, TypeOK
  <2>2. CASE r \in log[u]
    BY <1>2, <2>2 DEF Elsewhere
  <2>3. CASE Adopts(u)
    BY <1>2, <2>1, <2>2, <2>3, UnsettledRow DEF Adopts, Guests
  <2>4. CASE \E ids : r \in markSynced(log[u], ids)
    BY <1>2, <2>1, <2>4, MarkedRow DEF Elsewhere
  <2>5. ASSUME NEW s \in SyncSlots, SyncMerges(s), r \in MergedBy(s)
        PROVE  Elsewhere(i, p)
    <3>1. syncs[s].stage = "reply" /\ \E t \in syncs[s].reply : t.id = i /\ t.q = p
      BY <1>2, <2>5, MergedRow DEF SyncMerges, newFromServer
    <3> QED
      BY <3>1 DEF Elsewhere
  <2>6. ~Records(u)
    BY <1>1 DEF Records
  <2>7. Settles(u) => \E ids : r \in markSynced(log[u], ids)
    BY <1>2 DEF Settles
  <2>8. Merges(u) => \/ \E ids : r \in markSynced(log[u], ids)
                     \/ \E s \in SyncSlots : SyncMerges(s) /\ r \in MergedBy(s)
    BY <1>2 DEF Merges
  <2> QED
    BY <1>2, <2>1, <2>2, <2>3, <2>4, <2>5, <2>6, <2>7, <2>8, LogAfter
<1>3. ASSUME NEW u \in Accounts, NEW t \in server'[u], t.id = i, t.q = p
      PROVE  Elsewhere(i, p)
  BY <1>1, <1>3, ServerRowAfter DEF Elsewhere
<1>4. ASSUME NEW w \in queuedWrites', w.id = i, w.q = p
      PROVE  Elsewhere(i, p)
  <2>1. w.q \in Questions
    BY <1>4
  <2> QED
    BY <1>1, <1>4, <2>1, QueueAfter DEF HeldNow, Elsewhere
<1>5. ASSUME NEW w \in pendingWrites', w.id = i, w.q = p
      PROVE  Elsewhere(i, p)
  <2>1. ASSUME WriteBackfilled(w) PROVE Elsewhere(i, p)
    <3>1. PICK s \in SyncSlots :
            /\ SyncMerges(s) /\ w.key = syncs[s].key
            /\ \E r \in unsyncedLatest(log[w.key]) : w.id = r.id /\ w.q = r.q
      BY <2>1 DEF WriteBackfilled
    <3>2. w.key \in Accounts
      BY <3>1 DEF SyncMerges, KeyInv
    <3> QED
      BY <1>5, <3>1, <3>2 DEF unsyncedLatest, latestPerQuestion, Elsewhere
  <2>2. w.q \in Questions
    BY <1>5
  <2> QED
    BY <1>1, <1>5, <2>1, <2>2, WriteAfter DEF WriteContinues, WriteStarts,
       WriteRecorded, WriteReleased, Elsewhere
<1>6. ASSUME NEW s \in SyncSlots, syncs'[s].stage = "reply",
             NEW t \in syncs'[s].reply, t.id = i, t.q = p
      PROVE  Elsewhere(i, p)
  BY <1>6, ReplyAfter DEF Elsewhere
<1>7. ASSUME NEW w \in strays', w.id = i, w.q = p
      PROVE  Elsewhere(i, p)
  BY <1>7, StrayAfter DEF Strayed, Elsewhere
<1> QED
  BY <1>2, <1>3, <1>4, <1>5, <1>6, <1>7 DEF Elsewhere

LEMMA GuestsAfter ==
  ASSUME TypeOK, KeyInv, [Next]_vars, attempts' = attempts,
         NEW i \in Ids, NEW p \in Questions, Guests(i, p)'
  PROVE  Guests(i, p)
<1> USE OwnersAssumption
<1>1. Guest \in Owners
  BY DEF Owners
<1>2. ~Adopts(Guest) /\ ~Settles(Guest) /\ ~Merges(Guest)
  BY DEF Adopts, Settles, Merges, SyncMerges, KeyInv
<1>3. ~Records(Guest)
  BY AnswersAfter DEF Records, TypeOK
<1> QED
  BY <1>1, <1>2, <1>3, LogAfter DEF Guests

(* ... and an answer that is given is nowhere before.                      *)
LEMMA RecordedAnswer ==
  ASSUME TypeOK, KeyInv, NEW g \in Questions, recordAttempt(g),
         NEW i \in Ids, NEW p \in Questions
  PROVE  /\ Elsewhere(i, p)' => Elsewhere(i, p) \/ (i = attempts + 1 /\ p = g /\ owner # Guest)
         /\ Guests(i, p)' => Guests(i, p) \/ (i = attempts + 1 /\ p = g /\ owner = Guest)
<1> USE OwnersAssumption
<1> DEFINE row == [id |-> attempts + 1, q |-> g, at |-> ClientStamp, synced |-> FALSE]
           held == [id |-> attempts + 1, q |-> g, key |-> owner, epoch |-> syncEpoch]
           write == NewWrite(attempts + 1, g, owner, syncEpoch, None)
<1>1. /\ log' = [log EXCEPT ![owner] = @ \cup {row}]
      /\ server' = server /\ syncs' = syncs /\ strays' = strays
      /\ queuedWrites' \subseteq queuedWrites \cup {held}
      /\ pendingWrites' \subseteq pendingWrites \cup {write}
      /\ ~syncEnabled => queuedWrites' = queuedWrites /\ pendingWrites' = pendingWrites
  BY DEF recordAttempt
<1>2. row.id = attempts + 1 /\ row.q = g
  OBVIOUS
<1>3. held.id = attempts + 1 /\ held.q = g
  OBVIOUS
<1>4. write.id = attempts + 1 /\ write.q = g
  BY DEF NewWrite
<1>5. syncEnabled <=> owner # Guest
  BY DEF KeyInv
<1> HIDE DEF row, held, write
<1>6. \A u \in Owners : log'[u] = IF u = owner THEN log[u] \cup {row} ELSE log[u]
  BY <1>1 DEF TypeOK
<1>7. ASSUME Elsewhere(i, p)'
      PROVE  Elsewhere(i, p) \/ (i = attempts + 1 /\ p = g /\ owner # Guest)
  <2>1. CASE \E u \in Accounts : \E r \in log'[u] \cup server'[u] : r.id = i /\ r.q = p
    BY <1>1, <1>2, <1>6, <2>1 DEF Elsewhere, Owners
  <2>2. CASE \E w \in pendingWrites' \cup strays' \cup queuedWrites' : w.id = i /\ w.q = p
    BY <1>1, <1>3, <1>4, <1>5, <2>2 DEF Elsewhere
  <2>3. CASE \E s \in SyncSlots : /\ syncs'[s].stage = "reply"
                                  /\ \E t \in syncs'[s].reply : t.id = i /\ t.q = p
    BY <1>1, <2>3 DEF Elsewhere
  <2> QED
    BY <1>7, <2>1, <2>2, <2>3 DEF Elsewhere
<1>8. ASSUME Guests(i, p)'
      PROVE  Guests(i, p) \/ (i = attempts + 1 /\ p = g /\ owner = Guest)
  BY <1>2, <1>6, <1>8 DEF Guests, Owners
<1> QED
  BY <1>7, <1>8

LEMMA DeviceAnswer ==
  ASSUME TypeOK, NEW d \in Accounts, NEW g \in Questions, OtherDevice(d, g),
         NEW i \in Ids, NEW p \in Questions
  PROVE  /\ Elsewhere(i, p)' => Elsewhere(i, p) \/ (i = attempts + 1 /\ p = g)
         /\ Guests(i, p)' => Guests(i, p)
<1> DEFINE row == [id |-> attempts + 1, q |-> g, at |-> ServerStamp]
<1>1. /\ server' = [server EXCEPT ![d] = @ \cup {row}]
      /\ log' = log /\ syncs' = syncs
      /\ queuedWrites' = queuedWrites /\ pendingWrites' = pendingWrites
      /\ strays' = strays
  BY DEF OtherDevice, saveAttempt
<1>2. row.id = attempts + 1 /\ row.q = g
  OBVIOUS
<1> HIDE DEF row
<1>3. \A u \in Accounts : server'[u] \subseteq server[u] \cup {row}
  BY <1>1 DEF TypeOK
<1> QED
  BY <1>1, <1>2, <1>3 DEF Elsewhere, Guests

LEMMA AnswerInvStep ==
  ASSUME TypeOK, KeyInv, AnswerInv, [Next]_vars
  PROVE  AnswerInv'
<1>1. CASE attempts' = attempts
  <2> SUFFICES ASSUME NEW i \in Ids, NEW p \in Questions, NEW q \in Questions
               PROVE  /\ Elsewhere(i, p)' \/ Guests(i, p)' => i <= attempts
                      /\ Elsewhere(i, p)' /\ Elsewhere(i, q)' => p = q
                      /\ Guests(i, p)' /\ Guests(i, q)' => p = q
                      /\ ~ (Elsewhere(i, p)' /\ Guests(i, q)')
    BY <1>1 DEF AnswerInv
  <2>1. \A x \in {p, q} : Elsewhere(i, x)' =>
           Elsewhere(i, x) \/ (Guests(i, x) /\ log'[Guest] = {})
    BY <1>1, CopiesAfter
  <2>2. \A x \in {p, q} : Guests(i, x)' => Guests(i, x) /\ log'[Guest] # {}
    BY <1>1, GuestsAfter DEF Guests
  <2>3. Guests(i, p) /\ Guests(i, q) => p = q
    BY DEF AnswerInv
  <2> QED
    BY <2>1, <2>2, <2>3 DEF AnswerInv
<1>2. ASSUME NEW g \in Questions, recordAttempt(g)
      PROVE  AnswerInv'
  <2> SUFFICES ASSUME NEW i \in Ids, NEW p \in Questions, NEW q \in Questions
               PROVE  /\ Elsewhere(i, p)' \/ Guests(i, p)' => i <= attempts'
                      /\ Elsewhere(i, p)' /\ Elsewhere(i, q)' => p = q
                      /\ Guests(i, p)' /\ Guests(i, q)' => p = q
                      /\ ~ (Elsewhere(i, p)' /\ Guests(i, q)')
    BY DEF AnswerInv
  <2>1. attempts' = attempts + 1 /\ attempts \in Nat /\ i \in Nat
    BY <1>2 DEF recordAttempt, TypeOK, Ids
  <2>2. \A x \in {p, q} :
          /\ Elsewhere(i, x)' => Elsewhere(i, x) \/ (i = attempts + 1 /\ x = g /\ owner # Guest)
          /\ Guests(i, x)' => Guests(i, x) \/ (i = attempts + 1 /\ x = g /\ owner = Guest)
          /\ Elsewhere(i, x) \/ Guests(i, x) => i <= attempts
    BY <1>2, RecordedAnswer DEF AnswerInv
  <2> QED
    BY <2>1, <2>2 DEF AnswerInv
<1>3. ASSUME NEW d \in Accounts, NEW g \in Questions, OtherDevice(d, g)
      PROVE  AnswerInv'
  <2> SUFFICES ASSUME NEW i \in Ids, NEW p \in Questions, NEW q \in Questions
               PROVE  /\ Elsewhere(i, p)' \/ Guests(i, p)' => i <= attempts'
                      /\ Elsewhere(i, p)' /\ Elsewhere(i, q)' => p = q
                      /\ Guests(i, p)' /\ Guests(i, q)' => p = q
                      /\ ~ (Elsewhere(i, p)' /\ Guests(i, q)')
    BY DEF AnswerInv
  <2>1. attempts' = attempts + 1 /\ attempts \in Nat /\ i \in Nat
    BY <1>3 DEF OtherDevice, TypeOK, Ids
  <2>2. \A x \in {p, q} :
          /\ Elsewhere(i, x)' => Elsewhere(i, x) \/ (i = attempts + 1 /\ x = g)
          /\ Guests(i, x)' => Guests(i, x)
          /\ Elsewhere(i, x) \/ Guests(i, x) => i <= attempts
    BY <1>3, DeviceAnswer DEF AnswerInv
  <2> QED
    BY <2>1, <2>2 DEF AnswerInv
<1> QED
  BY <1>1, <1>2, <1>3, AnswersAfter

(* No clock shows a stamp later than its bound.                            *)
LEMMA Stamps ==
  ASSUME TypeOK
  PROVE  /\ LatestStamp \in Int
         /\ ClientStamp \in Int /\ ClientStamp <= LatestStamp
         /\ ServerStamp \in Int /\ ServerStamp <= LatestStamp
BY SkewAssumption, BoundsAssumption DEF TypeOK, LatestStamp, ClientStamp, ServerStamp

LEMMA StampStep ==
  ASSUME TypeOK, StampInv, [Next]_vars
  PROVE  StampInv'
<1>1. ASSUME NEW u \in Owners, NEW r \in log'[u] PROVE r.at <= LatestStamp
  <2>1. log[u] \in SUBSET Row /\ log[Guest] \in SUBSET Row /\ Guest \in Owners
    BY DEF Owners, TypeOK
  <2>2. CASE r \in log[u]
    BY <2>2 DEF StampInv
  <2>3. CASE r \in Unsettled(log[Guest])
    BY <2>1, <2>3, UnsettledRow DEF StampInv
  <2>4. CASE \E ids : r \in markSynced(log[u], ids)
    BY <2>1, <2>4, MarkedRow DEF StampInv
  <2>5. ASSUME NEW s \in SyncSlots, SyncMerges(s), r \in MergedBy(s)
        PROVE  r.at <= LatestStamp
    BY <2>5, MergedRow DEF SyncMerges, newFromServer, StampInv
  <2>6. CASE Records(u)
    BY <1>1, <2>2, <2>6, Stamps DEF Records
  <2>7. Adopts(u) => r \in log[u] \/ r \in Unsettled(log[Guest])
    BY <1>1 DEF Adopts
  <2>8. Settles(u) => \E ids : r \in markSynced(log[u], ids)
    BY <1>1 DEF Settles
  <2>9. Merges(u) => \/ \E ids : r \in markSynced(log[u], ids)
                     \/ \E s \in SyncSlots : SyncMerges(s) /\ r \in MergedBy(s)
    BY <1>1 DEF Merges
  <2> QED
    BY <1>1, <2>2, <2>3, <2>4, <2>5, <2>6, <2>7, <2>8, <2>9, LogAfter
<1>2. ASSUME NEW u \in Accounts, NEW t \in server'[u] PROVE t.at <= LatestStamp
  BY <1>2, ServerRowAfter, Stamps DEF StampInv
<1>3. ASSUME NEW s \in SyncSlots, syncs'[s].stage = "reply", NEW t \in syncs'[s].reply
      PROVE  t.at <= LatestStamp
  BY <1>3, ReplyAfter DEF StampInv
<1>4. LatestStamp' = LatestStamp
  BY DEF LatestStamp
<1> QED
  BY <1>1, <1>2, <1>3, <1>4 DEF StampInv

(* The least number of a set of numbers.                                   *)
LEMMA LeastNumber ==
  ASSUME NEW T, T \subseteq Nat, T # {}
  PROVE  \E m \in T : \A n \in T : m <= n
<1>1. IsWellFoundedOn(OpToRel(<, Nat), Nat)
  BY NatLessThanWellFounded
<1>2. PICK m \in T : \A n \in T : <<n, m>> \notin OpToRel(<, Nat)
  BY <1>1, WFMin
<1>3. ASSUME NEW n \in T, n < m PROVE FALSE
  BY <1>2, <1>3 DEF OpToRel
<1> QED
  BY <1>3

(* Every row of a log has a latest row of its question, as late or later.  *)
LEMMA LatestRow ==
  ASSUME NEW rows \in SUBSET Row, NEW b \in Int, \A r \in rows : r.at <= b,
         NEW r \in rows
  PROVE  \E m \in latestPerQuestion(rows) : m.q = r.q /\ r.at <= m.at
<1> DEFINE mine == {t \in rows : t.q = r.q}
           T == {b - t.at : t \in mine}
<1>1. ASSUME NEW t \in rows PROVE t.at \in Int /\ b - t.at \in Nat
  <2>1. t \in Row
    OBVIOUS
  <2> QED
    BY <2>1 DEF Row
<1>2. T \subseteq Nat /\ T # {}
  BY <1>1
<1>3. PICK m \in T : \A n \in T : m <= n
  <2> HIDE DEF T
  <2> QED
    BY <1>2, LeastNumber
<1>4. PICK t \in mine : m = b - t.at
  BY <1>3
<1>5. ASSUME NEW o \in rows, o.q = r.q PROVE o.at <= t.at
  <2>1. b - o.at \in T
    BY <1>5
  <2>2. m <= b - o.at
    BY <1>3, <2>1
  <2>3. t \in rows /\ b \in Int
    OBVIOUS
  <2> HIDE DEF T, mine
  <2> QED
    BY <1>1, <1>4, <1>5, <2>2, <2>3
<1> QED
  BY <1>4, <1>5 DEF latestPerQuestion

(* A settled copy is the server's, and later than any copy that is not.    *)
LEMMA CopyStep ==
  ASSUME TypeOK, RowsInv, [Next]_vars
  PROVE  CopyInv'
<1> USE OwnersAssumption
<1>1. ASSUME NEW r \in log'[Guest] PROVE ~r.synced
  <2>1. Guest \in Owners /\ ~Adopts(Guest) /\ ~Settles(Guest) /\ ~Merges(Guest)
    BY DEF Owners, Adopts, Settles, Merges, SyncMerges, RowsInv, KeyInv
  <2> QED
    BY <1>1, <2>1, LogAfter DEF Records, RowsInv, CopyInv
<1>2. ASSUME NEW u \in Accounts, NEW r \in log'[u], NEW t \in log'[u],
             r.id = t.id, t.synced, ~r.synced
      PROVE  r.at < t.at
  <2>1. u \in Owners /\ log[u] \in SUBSET Row /\ log[Guest] \in SUBSET Row
    BY DEF Owners, TypeOK
  <2>2. ASSUME NEW o \in log[u]
        PROVE  o.id \in Ids /\ o.q \in Questions /\ Elsewhere(o.id, o.q)
    BY <2>1 DEF Row, Elsewhere
  <2>3. CASE r \in log[u] /\ t \in log[u]
    BY <1>2, <2>3 DEF RowsInv, CopyInv
  <2>4. CASE Adopts(u)
    <3>1. t \in log[u]
      BY <1>2, <2>1, <2>4, UnsettledRow DEF Adopts
    <3>2. CASE r \in Unsettled(log[Guest])
      <4>1. PICK o \in log[Guest] : o.id = r.id
        BY <2>1, <3>2, UnsettledRow
      <4>2. o.id \in Ids /\ o.q \in Questions /\ Guests(o.id, o.q)
        BY <2>1 DEF Row, Guests
      <4> QED
        BY <1>2, <2>2, <3>1, <4>1, <4>2 DEF RowsInv, AnswerInv
    <3> QED
      BY <1>2, <2>3, <2>4, <3>1, <3>2 DEF Adopts
  <2>5. CASE Records(u)
    <3>1. \A o \in log[u] : o.id # attempts + 1
      BY <2>2 DEF RowsInv, AnswerInv, TypeOK, Ids
    <3> QED
      BY <1>2, <2>3, <2>5, <3>1 DEF Records
  <2>6. ASSUME NEW ids, r \in markSynced(log[u], ids), t \in markSynced(log[u], ids)
        PROVE  r.at < t.at
    <3>1. PICK o \in log[u] : /\ r.id = o.id /\ r.at = o.at
                              /\ r.synced <=> o.synced \/ o.id \in ids
      BY <2>1, <2>6, MarkedRow
    <3>2. PICK n \in log[u] : /\ t.id = n.id /\ t.at = n.at
                              /\ t.synced <=> n.synced \/ n.id \in ids
      BY <2>1, <2>6, MarkedRow
    <3> QED
      BY <1>2, <3>1, <3>2 DEF RowsInv, CopyInv
  <2>7. CASE Merges(u)
    <3>1. PICK s \in SyncSlots :
             /\ SyncMerges(s) /\ syncs[s].key = u
             /\ log'[u] = markSynced(log[u], IdsOf(SettledBy(s))) \cup MergedBy(s)
      BY <2>7 DEF Merges
    <3>2. r \in markSynced(log[u], IdsOf(SettledBy(s)))
      BY <1>2, <3>1, MergedRow
    <3>3. CASE t \in MergedBy(s)
      <4>1. PICK o \in log[u] : r.id = o.id /\ r.at = o.at
        BY <2>1, <3>2, MarkedRow
      <4>2. PICK n \in newFromServer(log[u], syncs[s].reply) :
                t.id = n.id /\ t.at = n.at
        BY <3>1, <3>3, MergedRow
      <4>3. n \in syncs[s].reply /\ n \in ServerRow /\ syncs[s].stage = "reply"
        BY <3>1, <4>2 DEF newFromServer, SyncMerges, TypeOK, Sync
      <4>4. n.id \in Ids /\ n.q \in Questions /\ n.at \in Int /\ Elsewhere(n.id, n.q)
        BY <4>3 DEF ServerRow, Elsewhere
      <4>5. o.q = n.q
        BY <1>2, <2>2, <4>1, <4>2, <4>4 DEF RowsInv, AnswerInv
      <4>6. PICK m \in latestPerQuestion(log[u]) : m.q = o.q /\ o.at <= m.at
        BY <2>1, LatestRow, Stamps DEF RowsInv, StampInv
      <4>7. n.at > m.at /\ m \in Row /\ o \in Row
        BY <2>1, <4>2, <4>5, <4>6 DEF newFromServer, latestPerQuestion
      <4> QED
        BY <4>1, <4>2, <4>4, <4>6, <4>7 DEF Row
    <3> QED
      BY <1>2, <2>6, <3>1, <3>2, <3>3
  <2> QED
    BY <1>2, <2>1, <2>3, <2>4, <2>5, <2>6, <2>7, LogAfter DEF Settles
<1> QED
  BY <1>1, <1>2 DEF CopyInv

LEMMA RowsStep ==
  ASSUME TypeOK, RowsInv, [Next]_vars
  PROVE  RowsInv'
BY KeyStep, AnswerInvStep, StampStep, CopyStep DEF RowsInv

-----------------------------------------------------------------------------
(* Held writes. *)

LEMMA HoldInit == Init => HoldInv
BY DEF Init, HoldInv

(* A clear lets go of the writes it holds as it resolves.                  *)
LEMMA ResolvesAfter ==
  ASSUME TypeOK, [Next]_vars, NEW c \in ClearSlots,
         clears[c].stage \notin {"idle", "after"}, clears'[c].stage \in {"idle", "after"}
  PROVE  Reloads \/ ClearFails(c) \/ ClearConfirmed(c)
<1>1. ASSUME NEW d \in ClearSlots,
             clearProgress(d) \/ ClearDeletes(d) \/ DeleteDone(d) \/ DeleteFails(d)
      PROVE  FALSE
  BY <1>1 DEF clearProgress, ClearDeletes, DeleteDone, DeleteFails, IdleClear, TypeOK, Clear
<1>2. ASSUME NEW d \in ClearSlots, ClearFails(d) \/ ClearConfirmed(d) \/ ClearSettles(d)
      PROVE  d = c /\ ~ClearSettles(d)
  BY <1>2 DEF ClearFails, ClearConfirmed, ClearSettles, TypeOK, Clear
<1> QED
  BY <1>1, <1>2 DEF Next, SessionNext, AnswerNext, SyncNext, ClearNext,
     SessionSeen, SessionChanges, SessionSettles, CookieChanges, Reloads,
     recordAttempt, OtherDevice, StrayStored, ClearedElsewhere, PostStored,
     PostFails, WriteSettles, retrySync, GetAnswered, GetFails, SyncFails,
     SyncDefers, SyncMerges, SyncSettles, clearLocally, vars

(* While writes are held no sync merges.                                   *)
LEMMA HeldOut ==
  ASSUME KeepOutInv, HoldInv, TypeOK, writesHeldBy # None, NEW s \in SyncSlots
  PROVE  ~SyncMerges(s)
BY DEF KeepOutInv, SyncsKeepOut, HoldInv, TypeOK, SyncMerges

(* What is held stays unsent and unsettled.                                *)
LEMMA HoldStep ==
  ASSUME OneClear, TypeOK, KeepOutInv, RowsInv, HoldInv, [Next]_vars
  PROVE  HoldInv'
<1> USE SlotsAssumption
<1>1. ASSUME writesHeldBy' # None
      PROVE  clears'[writesHeldBy'].stage \notin {"idle", "after"}
  <2>1. ~Reloads
    BY <1>1, ReloadFacts
  <2>2. CASE WriteLockMoves
    <3>1. PICK c \in ClearSlots : clearProgress(c) /\ writesHeldBy' = c
      BY <1>1, <2>2 DEF WriteLockMoves
    <3>2. clears'[c].stage = "wait"
      BY <3>1 DEF clearProgress, IdleClear, TypeOK
    <3> QED
      BY <3>1, <3>2
  <2>3. CASE writesHeldBy' = writesHeldBy
    <3>1. writesHeldBy \in ClearSlots /\ clears[writesHeldBy].stage \notin {"idle", "after"}
      BY <1>1, <2>3 DEF HoldInv, TypeOK
    <3>2. \A c \in ClearSlots : ClearFails(c) \/ ClearConfirmed(c) =>
             writesHeldBy # c \/ writesHeldBy' = None
      BY DEF ClearFails, ClearConfirmed, releaseQueuedWrites
    <3> QED
      BY <1>1, <2>1, <2>3, <3>1, <3>2, ResolvesAfter
  <2> QED
    BY <2>1, <2>2, <2>3, LocksAfter
<1>2. ASSUME NEW w \in queuedWrites' PROVE writesHeldBy # None /\ writesHeldBy' # None
  <2>1. writesHeldBy # None
    BY <1>2, QueueAfter DEF HeldNow, holdsWrites, HoldInv
  <2> QED
    BY <1>2, <2>1, LocksAfter, ReloadFacts DEF WriteLockMoves
<1>3. ASSUME NEW w \in queuedWrites', NEW v \in pendingWrites'
      PROVE  v.id # w.id
  <2>1. \A x \in queuedWrites \cup pendingWrites : x.id # attempts + 1
    <3>1. \A x \in queuedWrites \cup pendingWrites : x.id \in Ids /\ x.q \in Questions
      BY DEF TypeOK, QueuedWrite, Write
    <3> QED
      BY <3>1 DEF RowsInv, AnswerInv, Elsewhere, TypeOK, Ids
  <2>2. ~WriteRecorded(v)
    BY <1>2 DEF WriteRecorded, holdsWrites
  <2>3. ~WriteBackfilled(v)
    BY <1>2, HeldOut DEF WriteBackfilled
  <2>4. ~WriteReleased(v)
    <3>1. \A c, d \in ClearSlots : c = d
      BY DEF OneClear
    <3>2. writesHeldBy \in ClearSlots
      BY <1>2 DEF TypeOK
    <3>3. \A c \in ClearSlots : ~ClearFails(c) /\ ~ClearConfirmed(c)
      BY <1>2, <3>1, <3>2 DEF ClearFails, ClearConfirmed, releaseQueuedWrites
    <3> QED
      BY <3>3 DEF WriteReleased
  <2>5. WriteContinues(v)
    BY <1>3, <2>2, <2>3, <2>4, WriteAfter DEF WriteStarts
  <2> QED
    BY <1>3, <2>1, <2>5, QueueAfter DEF WriteContinues, HeldNow, HoldInv
<1>4. ASSUME NEW w \in queuedWrites', NEW r \in log'[w.key], r.id = w.id, r.synced
      PROVE  FALSE
  <2>1. w.key \in Accounts /\ w.key \in Owners
    <3>1. KeyInv'
      BY KeyStep DEF RowsInv
    <3> QED
      BY <1>4, <3>1 DEF KeyInv, Owners
  <2>2. log[w.key] \in SUBSET Row /\ log[Guest] \in SUBSET Row
    BY <2>1 DEF TypeOK, Owners
  <2>3. ASSUME r \in log[w.key] PROVE FALSE
    <3>1. CASE w \in queuedWrites
      BY <1>4, <2>3, <3>1 DEF HoldInv
    <3>2. CASE HeldNow(w)
      <4>1. r.id = attempts + 1 /\ r.id \in Ids /\ r.q \in Questions /\ Elsewhere(r.id, r.q)
        BY <1>4, <2>1, <2>2, <2>3, <3>2 DEF HeldNow, Row, Elsewhere
      <4> QED
        BY <4>1 DEF RowsInv, AnswerInv, TypeOK, Ids
    <3> QED
      BY <1>4, <3>1, <3>2, QueueAfter
  <2>4. ~Merges(w.key)
    BY <1>2, <1>4, HeldOut DEF Merges
  <2>5. ~Adopts(w.key)
    BY <1>4, <2>2, <2>3, UnsettledRow DEF Adopts
  <2>6. ~Records(w.key)
    BY <1>4, <2>3 DEF Records
  <2>7. ASSUME Settles(w.key) PROVE FALSE
    <3>1. PICK v \in pendingWrites :
             /\ WriteSettles(v) /\ log'[w.key] = markSynced(log[w.key], {v.id})
      BY <2>7 DEF Settles
    <3>2. w \in queuedWrites
      BY <1>4, <3>1 DEF WriteSettles
    <3>3. v.id # r.id
      BY <1>4, <3>2 DEF HoldInv
    <3>4. PICK o \in log[w.key] : o.id = r.id /\ (r.synced <=> o.synced \/ o.id \in {v.id})
      BY <1>4, <2>2, <3>1, MarkedRow
    <3> QED
      BY <1>4, <3>2, <3>3, <3>4 DEF HoldInv
  <2> QED
    BY <1>4, <2>1, <2>3, <2>4, <2>5, <2>6, <2>7, LogAfter
<1> QED
  BY <1>1, <1>2, <1>3, <1>4 DEF HoldInv

(* A row once marked synced is never sent again: not by a merge, not by a  *)
(* released write, and not when the device's clock runs behind or ahead.   *)
(* One clear is suspended at a time; what the page knows of the session    *)
(* does not matter.                                                        *)
THEOREM SettledForGood ==
  ASSUME OneClear
  PROVE  Spec => NoRepost
<1> USE OwnersAssumption
<1> DEFINE Inv == TypeOK /\ KeepOutInv /\ RowsInv /\ HoldInv
<1>1. Init => Inv
  BY TypeInit, SyncInvInit, RowsInit, HoldInit DEF SyncInv
<1>2. Inv /\ [Next]_vars => Inv'
  BY TypeStep, KeepOutStep, RowsStep, HoldStep
<1>3. ASSUME Inv, [Next]_vars, NEW w \in pendingWrites',
             w.stage = "sent", w \notin pendingWrites,
             NEW r \in log[w.key], r.id = w.id, r.synced
      PROVE  FALSE
  <2>1. ~WriteContinues(w) /\ WriteStarts(w)
    BY <1>3, WriteAfter DEF WriteContinues
  <2>2. w.key \in Accounts /\ w.key \in Owners /\ log[w.key] \in SUBSET Row
    <3>1. KeyInv'
      BY <1>3, KeyStep DEF RowsInv
    <3> QED
      BY <1>3, <3>1 DEF KeyInv, Owners, TypeOK
  <2>3. ASSUME NEW o \in log[w.key]
        PROVE  o.id \in Ids /\ o.q \in Questions /\ o.at \in Int /\ Elsewhere(o.id, o.q)
    BY <2>2 DEF Row, Elsewhere
  <2>4. CASE WriteRecorded(w)
    <3>1. r.id = attempts + 1
      BY <1>3, <2>4 DEF WriteRecorded
    <3> QED
      BY <1>3, <2>3, <3>1 DEF RowsInv, AnswerInv, TypeOK, Ids
  <2>5. CASE WriteBackfilled(w)
    <3>1. PICK o \in unsyncedLatest(log[w.key]) : w.id = o.id
      BY <2>5 DEF WriteBackfilled
    <3>2. o \in latestPerQuestion(log[w.key]) /\ o \in log[w.key] /\ ~o.synced
      BY <3>1 DEF unsyncedLatest, latestPerQuestion
    <3>3. o.at < r.at
      BY <1>3, <2>2, <3>1, <3>2 DEF RowsInv, CopyInv
    <3>4. o.q = r.q
      BY <1>3, <2>3, <3>1, <3>2 DEF RowsInv, AnswerInv
    <3>5. r.at <= o.at
      BY <3>2, <3>4 DEF latestPerQuestion
    <3> QED
      BY <2>3, <3>2, <3>3, <3>5
  <2>6. CASE WriteReleased(w)
    BY <1>3, <2>6 DEF WriteReleased, HoldInv
  <2> QED
    BY <2>1, <2>4, <2>5, <2>6 DEF WriteStarts
<1>4. Inv /\ [Next]_vars =>
        \A w \in pendingWrites' :
          (w.stage = "sent" /\ w \notin pendingWrites) =>
             \A r \in log[w.key] : r.id = w.id => ~r.synced
  BY <1>3
<1> HIDE DEF Inv
<1> QED
  BY <1>1, <1>2, <1>4, PTL DEF Spec, NoRepost

-----------------------------------------------------------------------------
(* ProgressSync implements AnswerHistory: whatever requests are lost or    *)
(* overtake each other, an answer stays with the owner who gave it and,    *)
(* once every copy is gone, never comes back.                              *)

Uploads == pendingWrites \cup strays \cup queuedWrites

Carries(s, u) ==
    /\ syncs[s].stage = "reply" /\ syncs[s].key = u
    /\ ~clearedSince(s) /\ ~switchedSince(s)

(* An answer is kept in a log, on the server, in an upload or in what a    *)
(* sync has read and will merge.                                           *)
LEMMA KeptIn ==
  ASSUME NEW u, NEW x
  PROVE  x \in Kept(u) <=>
           \/ \E r \in log[u] : x = r.id
           \/ u # Guest /\ \E t \in server[u] : x = t.id
           \/ \E w \in Uploads : w.key = u /\ x = w.id
           \/ \E s \in SyncSlots : Carries(s, u) /\ \E t \in syncs[s].reply : x = t.id
<1>1. x \in Arriving(u) <=>
        \E s \in SyncSlots : Carries(s, u) /\ \E t \in syncs[s].reply : x = t.id
  BY DEF Arriving, Carries, IdsOf
<1>2. x \in Holdings(u) <=> \/ \E r \in log[u] : x = r.id
                            \/ u # Guest /\ \E t \in server[u] : x = t.id
  BY DEF Holdings, IdsOf
<1>3. x \in IdsOf({w \in Uploads : w.key = u}) <=> \E w \in Uploads : w.key = u /\ x = w.id
  BY DEF IdsOf
<1> QED
  BY <1>1, <1>2, <1>3 DEF Kept, Uploads

(* The same of what is kept of an answer history after a step. *)
LEMMA KeptInNext ==
  ASSUME NEW u, NEW x
  PROVE  x \in Kept(u)' <=>
           \/ \E r \in log'[u] : x = r.id
           \/ u # Guest /\ \E t \in server'[u] : x = t.id
           \/ \E w \in Uploads' : w.key = u /\ x = w.id
           \/ \E s \in SyncSlots : Carries(s, u)' /\ \E t \in syncs'[s].reply : x = t.id
<1>1. x \in Arriving(u)' <=>
        \E s \in SyncSlots : Carries(s, u)' /\ \E t \in syncs'[s].reply : x = t.id
  BY DEF Arriving, Carries, IdsOf
<1>2. x \in Holdings(u)' <=> \/ \E r \in log'[u] : x = r.id
                             \/ u # Guest /\ \E t \in server'[u] : x = t.id
  BY DEF Holdings, IdsOf
<1>3. x \in IdsOf({w \in Uploads : w.key = u})' <=> \E w \in Uploads' : w.key = u /\ x = w.id
  BY DEF IdsOf
<1> QED
  BY <1>1, <1>2, <1>3 DEF Kept, Uploads

(* What a sync will merge after a step, it would have merged before, or    *)
(* the account's rows on the server have it.                               *)
LEMMA ArrivingAfter ==
  ASSUME TypeOK, SyncInv, [Next]_vars,
         NEW s \in SyncSlots, NEW u, Carries(s, u)', NEW t \in syncs'[s].reply
  PROVE  /\ u \in Accounts
         /\ (Carries(s, u) /\ t \in syncs[s].reply) \/ t \in server[u]
<1>1. syncs'[s].stage = "reply" /\ syncs'[s].key = u
      /\ clearGeneration' = syncs'[s].gen /\ syncEpoch' = syncs'[s].epoch
  BY DEF Carries, clearedSince, switchedSince
<1>2. SyncContinues(s) /\ syncs[s].stage \in {"get", "reply"} /\ ~Reloads
  BY <1>1, SlotAfter, ReloadFacts DEF SyncStarts, StartedSync, IdleSync, SyncContinues
<1>3. /\ syncs[s].gen \in Nat /\ clearGeneration \in Nat /\ syncs[s].gen <= clearGeneration
      /\ syncs[s].epoch \in Nat /\ syncEpoch \in Nat /\ syncs[s].epoch <= syncEpoch
      /\ syncs[s].key \in Accounts /\ syncs[s].as = syncs[s].key
  BY <1>2 DEF SyncInv, OwnInv, KeyInv, EpochInv, KeepOutInv, GenerationInv, TypeOK, Sync
<1>4. syncs[s].gen = clearGeneration
  BY <1>1, <1>2, <1>3, LocksAfter DEF SyncContinues, GenerationMoves
<1>5. syncs[s].epoch = syncEpoch
  BY <1>1, <1>2, <1>3, SessionAfter DEF SyncContinues, SessionTaken, page
<1> QED
  BY <1>1, <1>2, <1>3, <1>4, <1>5 DEF SyncContinues, Carries, clearedSince, switchedSince

(* A step that gives no answer leaves an owner no answer but those kept,   *)
(* or adopted from the guest.                                              *)
LEMMA NothingNew ==
  ASSUME TypeOK, SyncInv, [Next]_vars, attempts' = attempts,
         NEW u \in Owners, NEW x \in Kept(u)'
  PROVE  x \in Kept(u) \/ (Adopts(u) /\ x \in Kept(Guest))
<1> USE OwnersAssumption
<1>1. /\ \A q \in Questions : ~recordAttempt(q)
      /\ \A v \in Accounts, q \in Questions : ~OtherDevice(v, q)
  BY AnswersAfter DEF TypeOK
<1>2. \A w \in Uploads : w.key = u => w.id \in Kept(u)
  BY KeptIn
<1>3. \A r \in log[u] : r.id \in Kept(u)
  BY KeptIn
<1>4. ASSUME NEW r \in log'[u], x = r.id
      PROVE  x \in Kept(u) \/ (Adopts(u) /\ x \in Kept(Guest))
  <2>1. log[u] \in SUBSET Row /\ log[Guest] \in SUBSET Row
    BY DEF TypeOK, Owners
  <2>2. r \in log[u] => x \in Kept(u)
    BY <1>3, <1>4
  <2>3. ASSUME NEW ids, r \in markSynced(log[u], ids) PROVE x \in Kept(u)
    BY <1>3, <1>4, <2>1, <2>3, MarkedRow
  <2>4. Adopts(u) => x \in Kept(u) \/ x \in Kept(Guest)
    <3>1. r \in Unsettled(log[Guest]) => x \in Kept(Guest)
      <4>1. \A o \in log[Guest] : o.id \in Kept(Guest)
        BY KeptIn
      <4> QED
        BY <1>4, <2>1, <4>1, UnsettledRow
    <3> QED
      BY <1>4, <2>2, <3>1 DEF Adopts
  <2>5. ASSUME NEW s \in SyncSlots, SyncMerges(s), syncs[s].key = u, r \in MergedBy(s)
        PROVE  x \in Kept(u)
    <3>1. Carries(s, u)
      BY <2>5 DEF SyncMerges, Carries
    <3>2. \E t \in syncs[s].reply : x = t.id
      BY <1>4, <2>5, MergedRow DEF newFromServer
    <3> QED
      BY <3>1, <3>2, KeptIn
  <2>6. ~Records(u)
    BY <1>1 DEF Records
  <2>7. Settles(u) => x \in Kept(u)
    BY <1>4, <2>3 DEF Settles
  <2>8. Merges(u) => x \in Kept(u)
    BY <1>4, <2>3, <2>5 DEF Merges
  <2> QED
    BY <1>4, <2>2, <2>4, <2>6, <2>7, <2>8, LogAfter
<1>5. ASSUME u # Guest, NEW t \in server'[u], x = t.id PROVE x \in Kept(u)
  <2>1. u \in Accounts
    BY <1>5 DEF Owners
  <2>2. t \in server[u] => x \in Kept(u)
    BY <1>5, KeptIn
  <2>3. \A w \in pendingWrites \cup strays : w.as = w.key /\ w \in Uploads
    BY DEF SyncInv, OwnInv, NoCrossAccountPost, Uploads
  <2> QED
    BY <1>1, <1>2, <1>5, <2>1, <2>2, <2>3, ServerRowAfter
<1>6. ASSUME NEW w \in Uploads', w.key = u, x = w.id PROVE x \in Kept(u)
  <2>1. CASE w \in pendingWrites'
    <3>1. ~WriteRecorded(w)
      <4>1. w.q \in Questions
        BY <2>1, TypeStep DEF TypeOK, Write
      <4> QED
        BY <1>1, <4>1 DEF WriteRecorded
    <3>2. WriteBackfilled(w) => x \in Kept(u)
      BY <1>3, <1>6 DEF WriteBackfilled, unsyncedLatest, latestPerQuestion
    <3>3. WriteReleased(w) => x \in Kept(u)
      BY <1>2, <1>6 DEF WriteReleased, Uploads
    <3>4. WriteContinues(w) => x \in Kept(u)
      BY <1>2, <1>6 DEF WriteContinues, Uploads
    <3> QED
      BY <2>1, <3>1, <3>2, <3>3, <3>4, WriteAfter DEF WriteStarts
  <2>2. CASE w \in strays'
    BY <1>2, <1>6, <2>2, StrayAfter DEF Strayed, Uploads
  <2>3. CASE w \in queuedWrites'
    <3>1. w.q \in Questions
      BY <2>3, TypeStep DEF TypeOK, QueuedWrite
    <3>2. ~HeldNow(w)
      BY <1>1, <3>1 DEF HeldNow
    <3> QED
      BY <1>2, <1>6, <2>3, <3>2, QueueAfter DEF Uploads
  <2> QED
    BY <1>6, <2>1, <2>2, <2>3 DEF Uploads
<1>7. ASSUME NEW s \in SyncSlots, Carries(s, u)', NEW t \in syncs'[s].reply, x = t.id
      PROVE  x \in Kept(u)
  BY <1>7, ArrivingAfter, KeptIn
<1> QED
  BY <1>4, <1>5, <1>6, <1>7, KeptInNext

(* A step that gives no answer and only drops copies forgets.              *)
LEMMA DroppingForgets ==
  ASSUME attempts' = attempts,
         \A u \in Owners : Kept(u)' \subseteq Kept(u)
  PROVE  History!Forget
BY DEF History!Forget, History!Owners, history, Owners

(* The initial states are initial states of the history. *)
LEMMA HistoryInit == Init => History!Init
<1> SUFFICES ASSUME Init PROVE History!Init
  OBVIOUS
<1>1. /\ \A u \in Owners : log[u] = {}
      /\ \A u \in Owners : u # Guest => server[u] = {}
      /\ Uploads = {} /\ \A s \in SyncSlots : syncs[s].stage = "idle"
  BY DEF Init, Owners, Uploads, IdleSync
<1>2. \A u \in Owners : Kept(u) = {}
  BY <1>1, KeptIn DEF Carries
<1> QED
  BY <1>2 DEF Init, History!Init, History!Owners, Owners, history

(* A guest has nothing on the server, in an upload or in a sync.           *)
LEMMA GuestKeeps ==
  ASSUME TypeOK, SyncInv, NEW x \in Kept(Guest)
  PROVE  \E r \in log[Guest] : x = r.id
<1>1. \A w \in Uploads : w.key # Guest
  BY OwnersAssumption DEF SyncInv, OwnInv, KeyInv, NoCrossAccountPost, Uploads,
     TypeOK, Stray
<1>2. \A s \in SyncSlots : ~Carries(s, Guest)
  BY OwnersAssumption DEF SyncInv, OwnInv, KeyInv, Carries
<1> QED
  BY <1>1, <1>2, KeptIn

(* A step that gives no answer adopts the guest's or forgets.              *)
LEMMA DroppingHistory ==
  ASSUME TypeOK, SyncInv, [Next]_vars, attempts' = attempts
  PROVE  History!Next
<1> USE OwnersAssumption
<1>1. CASE \A u \in Owners : ~Adopts(u) \/ log[Guest] = {}
  <2>1. \A u \in Owners : Kept(u)' \subseteq Kept(u)
    BY <1>1, NothingNew, GuestKeeps
  <2> QED
    BY <2>1, DroppingForgets DEF History!Next
<1>2. ASSUME NEW u \in Owners, Adopts(u), log[Guest] # {}
      PROVE  History!Next
  <2>1. u \in Accounts /\ Guest \in Owners /\ owner = Guest /\ u # Guest
    BY <1>2 DEF Adopts, Owners, SyncInv, OwnInv, GuestInv
  <2>2. /\ log'[u] = log[u] \cup Unsettled(log[Guest]) /\ log'[Guest] = {}
        /\ server' = server /\ Uploads' = Uploads
        /\ log' = adoptGuestRows(u)
    BY <1>2 DEF Adopts, SessionSettles, Uploads
  <2>3. \A v \in Owners : v # u /\ v # Guest => log'[v] = log[v]
    BY <2>1, <2>2 DEF adoptGuestRows, TypeOK
  <2>4. \A s \in SyncSlots : \A v : ~Carries(s, v)
    BY <2>1 DEF Carries, switchedSince, SyncInv, OwnInv, KeyInv, EpochInv
  <2>5. \A v \in Owners : v # Guest => Kept(v) \subseteq Kept(v)'
    <3>1. \A v \in Owners : v # Guest => log[v] \subseteq log'[v]
      BY <2>2, <2>3
    <3> QED
      BY <2>2, <2>4, <3>1, KeptIn, KeptInNext
  <2>6. Kept(Guest) \subseteq Kept(u)'
    <3>1. \A o \in log[Guest] : \E r \in log'[u] : r.id = o.id
      <4>1. ASSUME NEW o \in log[Guest]
            PROVE  /\ [o EXCEPT !.synced = FALSE] \in Unsettled(log[Guest])
                   /\ [o EXCEPT !.synced = FALSE].id = o.id
        <5>1. o \in Row
          BY <2>1 DEF TypeOK
        <5> QED
          BY <5>1 DEF Unsettled, Row
      <4> QED
        BY <2>2, <4>1
    <3> QED
      BY <3>1, GuestKeeps, KeptInNext
  <2>7. Kept(Guest)' = {}
    <3>1. ~Adopts(Guest)
      BY DEF Adopts
    <3>2. ASSUME NEW x \in Kept(Guest)' PROVE FALSE
      <4>1. \A w \in Uploads : w.key # Guest
        BY DEF SyncInv, OwnInv, KeyInv, NoCrossAccountPost, Uploads, TypeOK, Stray
      <4>2. \A s \in SyncSlots : \A t \in syncs'[s].reply : ~Carries(s, Guest)'
        BY ArrivingAfter
      <4> QED
        BY <2>2, <3>2, <4>1, <4>2, KeptInNext
    <3> QED
      BY <3>2
  <2>8. Kept(u)' = Kept(u) \cup Kept(Guest)
    BY <2>1, <2>5, <2>6, NothingNew
  <2>9. ASSUME NEW v \in Owners, v # u, v # Guest PROVE Kept(v)' = Kept(v)
    <3>1. Kept(v)' \subseteq Kept(v)
      <4>1. ASSUME NEW x \in Kept(v)' PROVE x \in Kept(v)
        BY <2>2, <2>3, <2>9, <4>1, ArrivingAfter, KeptIn, KeptInNext
      <4> QED
        BY <4>1
    <3> QED
      BY <2>5, <2>9, <3>1
  <2>10. history' = [history EXCEPT ![u] = @ \cup history[Guest], ![Guest] = {}]
    BY <2>1, <2>7, <2>8, <2>9 DEF history
  <2> QED
    BY <2>1, <2>10 DEF History!Next, History!Adopt
<1> QED
  BY <1>1, <1>2

(* A new answer, on this device or on another, is its owner's.             *)
LEMMA AnswerHistoryStep ==
  ASSUME TypeOK, NEW q \in Questions, recordAttempt(q)
  PROVE  History!Next
<1>1. ASSUME NEW u \in Owners, NEW x
      PROVE  x \in Kept(u)' <=> x \in Kept(u) \/ (u = owner /\ x = attempts + 1)
  <2>1. (\E r \in log'[u] : x = r.id) <=>
           (\E r \in log[u] : x = r.id) \/ (u = owner /\ x = attempts + 1)
    <3> DEFINE row == [id |-> attempts + 1, q |-> q, at |-> ClientStamp, synced |-> FALSE]
    <3>1. row.id = attempts + 1
      OBVIOUS
    <3>2. log' = [log EXCEPT ![owner] = @ \cup {row}]
      BY DEF recordAttempt
    <3> HIDE DEF row
    <3>3. log'[u] = IF u = owner THEN log[u] \cup {row} ELSE log[u]
      BY <3>2 DEF TypeOK
    <3> QED
      BY <3>1, <3>3
  <2>2. \A w \in queuedWrites' : w \in queuedWrites \/ (w.key = owner /\ w.id = attempts + 1)
    BY DEF recordAttempt
  <2>3. \A w \in pendingWrites' : w \in pendingWrites \/ (w.key = owner /\ w.id = attempts + 1)
    BY DEF recordAttempt, NewWrite
  <2>4. /\ queuedWrites \subseteq queuedWrites' /\ pendingWrites \subseteq pendingWrites'
        /\ UNCHANGED <<server, strays, syncs, clearGeneration, syncEpoch>>
    BY DEF recordAttempt, page, locks
  <2>5. \A w \in Uploads' : w \in Uploads \/ (w.key = owner /\ w.id = attempts + 1)
    BY <2>2, <2>3, <2>4 DEF Uploads
  <2>6. Uploads \subseteq Uploads'
    BY <2>4 DEF Uploads
  <2>7. \A s \in SyncSlots : Carries(s, u)' <=> Carries(s, u)
    BY <2>4 DEF Carries, clearedSince, switchedSince
  <2> QED
    BY <2>1, <2>4, <2>5, <2>6, <2>7, KeptIn, KeptInNext
<1>2. history' = [history EXCEPT ![owner] = @ \cup {attempts + 1}]
  <2>1. \A u \in Owners : Kept(u)' = IF u = owner THEN Kept(u) \cup {attempts + 1} ELSE Kept(u)
    BY <1>1
  <2> QED
    BY <2>1 DEF history, TypeOK
<1>3. attempts' = attempts + 1 /\ owner \in History!Owners
  BY DEF recordAttempt, TypeOK, History!Owners, Owners
<1> QED
  BY <1>2, <1>3 DEF History!Next, History!Give

(* An answer on another device is one the history is given. *)
LEMMA DeviceHistory ==
  ASSUME TypeOK, NEW d \in Accounts, NEW q \in Questions, OtherDevice(d, q)
  PROVE  History!Next
<1>1. d \in Owners /\ d # Guest
  BY OwnersAssumption DEF Owners
<1>2. ASSUME NEW u \in Owners, NEW x
      PROVE  x \in Kept(u)' <=> x \in Kept(u) \/ (u = d /\ x = attempts + 1)
  <2>1. u # Guest => ((\E t \in server'[u] : x = t.id) <=>
           (\E t \in server[u] : x = t.id) \/ (u = d /\ x = attempts + 1))
    <3> DEFINE row == [id |-> attempts + 1, q |-> q, at |-> ServerStamp]
    <3>1. row.id = attempts + 1
      OBVIOUS
    <3>2. server' = [server EXCEPT ![d] = @ \cup {row}]
      BY DEF OtherDevice, saveAttempt
    <3> HIDE DEF row
    <3>3. u # Guest => server'[u] = IF u = d THEN server[u] \cup {row} ELSE server[u]
      BY <3>2 DEF TypeOK, Owners
    <3> QED
      BY <3>1, <3>3
  <2>2. log' = log /\ syncs' = syncs /\ Uploads' = Uploads
    BY DEF OtherDevice, Uploads
  <2>3. \A s \in SyncSlots : Carries(s, u)' <=> Carries(s, u)
    BY DEF OtherDevice, page, locks, Carries, clearedSince, switchedSince
  <2> QED
    BY <1>1, <2>1, <2>2, <2>3, KeptIn, KeptInNext
<1>3. history' = [history EXCEPT ![d] = @ \cup {attempts + 1}]
  <2>1. \A u \in Owners : Kept(u)' = IF u = d THEN Kept(u) \cup {attempts + 1} ELSE Kept(u)
    BY <1>2
  <2> QED
    BY <1>1, <2>1 DEF history
<1>4. attempts' = attempts + 1 /\ d \in History!Owners
  BY <1>1 DEF OtherDevice, History!Owners, Owners
<1> QED
  BY <1>3, <1>4 DEF History!Next, History!Give

(* Every step gives, adopts or forgets answers.                            *)
LEMMA HistoryStep ==
  ASSUME TypeOK, SyncInv, [Next]_vars
  PROVE  History!Next
BY AnswersAfter, AnswerHistoryStep, DeviceHistory, DroppingHistory

(* Sync, clear, sign-in and reload together keep the promise of            *)
(* AnswerHistory, step by step.                                            *)
THEOREM SyncKeepsHistory ==
  ASSUME NoLag, OneClear
  PROVE  Spec => ImplementsHistory
<1>1. TypeOK /\ SyncInv /\ [Next]_vars => [History!Next]_(History!vars)
  BY HistoryStep
<1> QED
  BY <1>1, HistoryInit, SyncInvariance, PTL DEF Spec, ImplementsHistory, History!Spec

(* An answer is one owner's: giving, adopting and forgetting never make it *)
(* another's.                                                              *)
THEOREM Isolation == History!Spec => [](History!TypeOK /\ History!Isolated)
<1> USE OwnersAssumption
<1> USE DEF History!Owners
<1>1. History!Init => History!TypeOK /\ History!Isolated
  BY DEF History!Init, History!TypeOK, History!Isolated
<1>2. ASSUME History!TypeOK, History!Isolated, [History!Next]_(History!vars)
      PROVE  History!TypeOK' /\ History!Isolated'
  <2>1. CASE History!Forget
    BY <1>2, <2>1 DEF History!Forget, History!TypeOK, History!Isolated
  <2>2. ASSUME NEW u \in History!Owners, History!Give(u)
        PROVE  History!TypeOK' /\ History!Isolated'
    <3>1. \A v \in History!Owners : history'[v] \subseteq history[v] \cup {attempts + 1}
      BY <1>2, <2>2 DEF History!Give, History!TypeOK
    <3>2. attempts + 1 \in Nat /\ \A v \in History!Owners : attempts + 1 \notin history[v]
      BY <1>2 DEF History!TypeOK
    <3>3. History!TypeOK'
      BY <1>2, <2>2 DEF History!Give, History!TypeOK
    <3>4. ASSUME NEW v \in History!Owners, v # u PROVE history'[v] = history[v]
      BY <1>2, <2>2, <3>4 DEF History!Give, History!TypeOK
    <3>5. History!Isolated'
      BY <1>2, <3>1, <3>2, <3>4 DEF History!Isolated
    <3> QED
      BY <3>3, <3>5
  <2>3. ASSUME NEW u \in Accounts, History!Adopt(u)
        PROVE  History!TypeOK' /\ History!Isolated'
    <3>1. u \in History!Owners /\ Guest \in History!Owners /\ u # Guest
      OBVIOUS
    <3>2. /\ history'[u] = history[u] \cup history[Guest]
          /\ history'[Guest] = {} /\ attempts' = attempts
      BY <1>2, <2>3, <3>1 DEF History!Adopt, History!TypeOK
    <3>3. ASSUME NEW v \in History!Owners, v # u, v # Guest PROVE history'[v] = history[v]
      BY <1>2, <2>3, <3>3 DEF History!Adopt, History!TypeOK
    <3>4. History!TypeOK'
      BY <1>2, <2>3, <3>1 DEF History!Adopt, History!TypeOK
    <3>5. History!Isolated'
      BY <1>2, <3>1, <3>2, <3>3 DEF History!Isolated
    <3> QED
      BY <3>4, <3>5
  <2>4. CASE UNCHANGED History!vars
    BY <1>2, <2>4 DEF History!vars, History!TypeOK, History!Isolated
  <2> QED
    BY <1>2, <2>1, <2>2, <2>3, <2>4 DEF History!Next
<1> QED
  BY <1>1, <1>2, PTL DEF History!Spec

(* #403, end to end: no two owners' logs or server rows ever have an       *)
(* answer in common.                                                       *)
THEOREM AnswersStayWithOwner ==
  ASSUME NoLag, OneClear
  PROVE  Spec => []AccountIsolation
<1>1. History!Isolated => AccountIsolation
  BY DEF History!Isolated, History!Owners, AccountIsolation, Owners, history, Kept
<1> QED
  BY <1>1, Isolation, SyncKeepsHistory, PTL DEF ImplementsHistory

-----------------------------------------------------------------------------
(* Settled rows are stored. *)

LEMMA StoredInit == Init => StoredInv
BY OwnersAssumption DEF Init, Owners, StoredInv, ClearedLogInv, Unresolved,
   AcknowledgedInv, ReplyInv, SyncedRowsAreStored, IdleSync, IdleClear

(* With a clear unresolved, the account's rows stay unsettled.             *)
LEMMA ClearedLogStep ==
  ASSUME NoLag, OneClear, NoSwitch, TypeOK, SyncInv, RowsInv, ClearedLogInv,
         [Next]_vars, NEW c \in ClearSlots, Unresolved(c)'
  PROVE  LET u == clears'[c].owner
         IN  /\ loaded' /\ owner' \in {u, Guest} /\ u \in Accounts
             /\ \A r \in log'[u] : /\ ~r.synced
                                   /\ \A w \in pendingWrites' : w.id # r.id
<1> USE OwnersAssumption, SlotsAssumption
<1>1. clears'[c].stage \in {"wait", "delete"}
  BY DEF Unresolved
<1>2. CASE clearProgress(c)
  <2>1. /\ owner \in Accounts /\ loaded /\ UNCHANGED <<owner, loaded>>
        /\ clears'[c].owner = owner /\ log'[owner] = {}
    BY <1>2 DEF clearProgress, IdleClear, SyncInv, OwnInv, KeyInv, PageInv,
       TypeOK, Owners
  <2> QED
    BY <2>1
<1>3. CASE ClearContinues(c)
  <2> DEFINE u == clears[c].owner
  <2>1. Unresolved(c) /\ clears'[c].owner = u
    BY <1>1, <1>3 DEF ClearContinues, Unresolved
  <2>2. /\ loaded /\ owner \in {u, Guest} /\ u \in Accounts /\ u \in Owners /\ u # Guest
        /\ \A r \in log[u] : ~r.synced /\ \A w \in pendingWrites : w.id # r.id
    BY <2>1 DEF ClearedLogInv, Owners
  <2>3. /\ clearInFlight = c /\ writesHeldBy = c
        /\ \A s \in SyncSlots : ~SyncMerges(s)
    BY <2>1 DEF Unresolved, SyncInv, KeepOutInv, LockInv, SyncsKeepOut, SyncMerges
  <2> HIDE DEF u
  <2>4. loaded' /\ owner' \in {u, Guest}
    <3>1. ~Reloads
      BY <1>1, ReloadFacts
    <3>2. \A v : ~CookieChanges(v)
      BY DEF CookieChanges, NoLag
    <3>3. SessionTaken => owner' = Guest /\ loaded'
      <4>1. owner = session
        BY <2>2 DEF SyncInv, OwnInv, PageInv
      <4>2. ASSUME SessionTaken PROVE session' = Guest
        BY <2>2, <4>1, <4>2 DEF SessionTaken, SessionChanges, NoSwitch
      <4> QED
        BY <4>2 DEF SessionTaken
    <3> QED
      BY <2>2, <3>1, <3>2, <3>3, SessionAfter
  <2>5. log[u] \in SUBSET Row /\ log[Guest] \in SUBSET Row
    BY <2>2 DEF TypeOK, Owners
  <2>6. ~Merges(u)
    BY <2>3 DEF Merges
  <2>7. Adopts(u) => log'[u] = log[u]
    <3>1. loaded /\ owner = session
      BY <2>2 DEF SyncInv, OwnInv, PageInv
    <3>2. ASSUME NEW v \in Owners, SessionSettles(v) PROVE owner' = Guest
      <4>1. ~SessionSeen /\ ~Reloads
        BY <1>1, <3>1, ReloadFacts DEF SessionSeen
      <4>2. syncEpoch' # syncEpoch
        BY <3>2 DEF SessionSettles, TypeOK
      <4>3. \A w : ~CookieChanges(w)
        BY DEF CookieChanges, NoLag
      <4>4. SessionTaken
        BY <4>1, <4>2, <4>3, SessionAfter
      <4>5. session' = Guest
        BY <3>1, <4>4 DEF SessionTaken, SessionChanges, NoSwitch
      <4> QED
        BY <4>4, <4>5 DEF SessionTaken
    <3>3. ASSUME NEW v \in Owners, SessionSettles(v) PROVE log' = log
      BY <3>2, <3>3 DEF SessionSettles, adoptGuestRows
    <3> QED
      BY <2>2, <3>3 DEF Adopts
  <2>8. \A w \in pendingWrites' : \E v \in pendingWrites : w.id = v.id
    <3>1. ASSUME NEW w \in pendingWrites' PROVE ~WriteStarts(w)
      <4>1. ~WriteRecorded(w) /\ ~WriteBackfilled(w)
        BY <2>3 DEF WriteRecorded, holdsWrites, WriteBackfilled
      <4>2. \A d \in ClearSlots : ~ClearFails(d) /\ ~ClearConfirmed(d)
        BY <2>1 DEF OneClear, Unresolved, ClearFails, ClearConfirmed
      <4> QED
        BY <4>1, <4>2 DEF WriteStarts, WriteReleased
    <3> QED
      BY <3>1, WriteAfter DEF WriteContinues
  <2>9. ASSUME NEW r \in log'[u]
        PROVE  ~r.synced /\ \A w \in pendingWrites : w.id # r.id
    <3>1. CASE r \in log[u]
      BY <2>2, <3>1
    <3>2. CASE Records(u)
      <4>1. \A w \in pendingWrites : w.id # attempts + 1
        <5>1. \A w \in pendingWrites : w.id \in Ids /\ w.q \in Questions
          BY DEF TypeOK, Write
        <5> QED
          BY <5>1 DEF RowsInv, AnswerInv, Elsewhere, TypeOK, Ids
      <4> QED
        BY <2>9, <3>1, <3>2, <4>1 DEF Records
    <3>3. ASSUME NEW w \in pendingWrites, r \in markSynced(log[u], {w.id})
          PROVE  ~r.synced /\ \A v \in pendingWrites : v.id # r.id
      BY <2>2, <2>5, <3>3, MarkedRow
    <3> QED
      BY <2>2, <2>6, <2>7, <2>9, <3>1, <3>2, <3>3, LogAfter DEF Settles
  <2> QED
    BY <2>1, <2>2, <2>4, <2>8, <2>9
<1> QED
  BY <1>1, <1>2, <1>3, ClearAfter

(* The session a DELETE is sent on is the account's, or nobody's.          *)
LEMMA DeleteSessionStep ==
  ASSUME TypeOK, SyncInv, ClearedLogInv, [Next]_vars,
         NEW c \in ClearSlots, clears'[c].stage \notin {"idle", "wait"}
  PROVE  clears'[c].as \in {clears'[c].owner, Guest}
<1>1. ClearContinues(c)
  <2>1. clearProgress(c) => clears'[c].stage = "wait"
    BY DEF clearProgress, IdleClear, TypeOK
  <2> QED
    BY <2>1, ClearAfter
<1>2. CASE clears[c].stage = "wait"
  <2>1. clears'[c].as = session
    BY <1>1, <1>2 DEF ClearContinues
  <2>2. loaded /\ owner \in {clears[c].owner, Guest}
    BY <1>2 DEF ClearedLogInv, Unresolved
  <2>3. owner = session
    BY <2>2 DEF SyncInv, OwnInv, PageInv
  <2> QED
    BY <1>1, <2>1, <2>2, <2>3 DEF ClearContinues
<1>3. CASE clears[c].stage # "wait"
  BY <1>1, <1>3 DEF ClearContinues, ClearedLogInv
<1> QED
  BY <1>2, <1>3

(* An acknowledged upload is stored, and no DELETE overtakes it.           *)
LEMMA AcknowledgedStep ==
  ASSUME TypeOK, SyncInv, AcknowledgedInv, [Next]_vars,
         NEW w \in pendingWrites', w.stage = "ok"
  PROVE  Stored(w.key, w.q)'
<1>1. ~WriteStarts(w)
  BY DEF WriteStarts
<1>2. PICK v \in pendingWrites :
         w.q = v.q /\ w.key = v.key /\ (v.stage = "ok" \/ PostStored(v))
  BY <1>1, WriteAfter DEF WriteContinues
<1>3. v.id \in Ids /\ v.q \in Questions /\ v.key \in Accounts /\ v.as = v.key
  BY DEF TypeOK, Write, SyncInv, OwnInv, KeyInv, NoCrossAccountPost
<1>4. CASE v.stage = "ok"
  <2>1. Stored(v.key, v.q)
    BY <1>4 DEF AcknowledgedInv
  <2>2. \A c \in ClearSlots : ~DeleteDone(c)
    BY DEF DeleteDone, SyncInv, KeepOutInv, LockInv
  <2> QED
    BY <1>2, <1>3, <2>1, <2>2, StoredAfter
<1>5. CASE PostStored(v)
  <2>1. saveAttempt(v.key, v.id, v.q)
    BY <1>3, <1>5 DEF PostStored
  <2> QED
    BY <1>2, <1>3, <2>1, SavedIsStored
<1> QED
  BY <1>2, <1>4, <1>5

(* What a sync read is stored as long as no clear has started.             *)
LEMMA ReplyStep ==
  ASSUME TypeOK, SyncInv, ReplyInv, [Next]_vars,
         NEW s \in SyncSlots, syncs'[s].stage = "reply", ~clearedSince(s)',
         NEW t \in syncs'[s].reply
  PROVE  Stored(syncs[s].key, t.q)'
<1>1. SyncContinues(s) /\ syncs[s].stage \in {"get", "reply"}
  BY SlotAfter DEF SyncStarts, StartedSync, IdleSync, SyncContinues
<1>2. syncs[s].gen = clearGeneration
  <2>1. syncs[s].gen \in Nat /\ clearGeneration \in Nat /\ syncs[s].gen <= clearGeneration
    BY <1>1 DEF SyncInv, KeepOutInv, GenerationInv, TypeOK, Sync
  <2>2. ~Reloads
    BY ReloadFacts
  <2> QED
    BY <1>1, <2>1, <2>2, LocksAfter DEF SyncContinues, GenerationMoves, clearedSince
<1>3. \A c \in ClearSlots : ~DeleteDone(c)
  BY <1>1, <1>2 DEF DeleteDone, SyncInv, KeepOutInv, SyncsKeepOut, clearedSince
<1>4. PICK u \in Accounts : u = syncs[s].key /\ u = syncs[s].as /\ u = syncs'[s].key
  BY <1>1 DEF SyncInv, OwnInv, KeyInv, EpochInv, SyncContinues
<1>5. CASE syncs[s].stage = "reply" /\ t \in syncs[s].reply
  <2>1. Stored(u, t.q)
    BY <1>2, <1>4, <1>5 DEF ReplyInv, clearedSince
  <2>2. t.q \in Questions
    BY <1>5 DEF TypeOK, Sync, ServerRow
  <2>3. Stored(u, t.q)'
    BY <1>3, <2>1, <2>2, StoredAfter
  <2> QED
    BY <1>4, <2>3 DEF Stored
<1>6. CASE server' = server /\ t \in server[u]
  BY <1>4, <1>6 DEF Stored
<1> QED
  BY <1>1, <1>4, <1>5, <1>6 DEF SyncContinues

(* A row is settled by what the server holds, which only a DELETE removes: *)
(* from an account whose rows on this device are all unsettled.            *)
LEMMA SyncedRowStep ==
  ASSUME TypeOK, SyncInv, RowsInv, StoredInv, [Next]_vars,
         NEW u \in Accounts, NEW r \in log'[u], r.synced
  PROVE  Stored(u, r.q)'
<1> USE OwnersAssumption
<1>1. u \in Owners /\ log[u] \in SUBSET Row /\ log[Guest] \in SUBSET Row
  BY DEF Owners, TypeOK
<1>2. ASSUME NEW o \in log[u]
      PROVE  o.id \in Ids /\ o.q \in Questions /\ Elsewhere(o.id, o.q)
  BY <1>1 DEF Row, Elsewhere
<1>3. ASSUME r \in log[u] PROVE Stored(u, r.q)'
  <2>1. Stored(u, r.q) /\ r.q \in Questions
    BY <1>2, <1>3 DEF StoredInv, SyncedRowsAreStored
  <2>2. ASSUME NEW c \in ClearSlots, DeleteDone(c)
        PROVE  clears[c].as # u
    <3>1. clears[c].stage = "delete" /\ clears[c].as \in Accounts
      BY <2>2 DEF DeleteDone
    <3>2. clears[c].as = clears[c].owner /\ \A o \in log[clears[c].owner] : ~o.synced
      BY <3>1 DEF StoredInv, ClearedLogInv, Unresolved
    <3> QED
      BY <1>3, <3>2
  <2> QED
    BY <2>1, <2>2, StoredAfter
<1>4. CASE Settles(u)
  <2>1. PICK w \in pendingWrites :
           /\ WriteSettles(w) /\ w.stage = "ok" /\ w.key = u
           /\ log'[u] = markSynced(log[u], {w.id})
    BY <1>4 DEF Settles
  <2>2. PICK o \in log[u] : /\ r.id = o.id /\ r.q = o.q
                            /\ r.synced <=> o.synced \/ o.id \in {w.id}
    BY <1>1, <2>1, MarkedRow
  <2>3. w.q \in Questions /\ Elsewhere(w.id, w.q)
    BY DEF TypeOK, Write, Elsewhere
  <2>4. o.id = w.id => o.q = w.q
    BY <1>2, <2>3 DEF RowsInv, AnswerInv
  <2>5. Stored(u, o.q)
    BY <2>1, <2>2, <2>4 DEF StoredInv, AcknowledgedInv, SyncedRowsAreStored
  <2> QED
    BY <2>1, <2>2, <2>5 DEF WriteSettles, Stored
<1>5. CASE Merges(u)
  <2>1. PICK s \in SyncSlots :
           /\ SyncMerges(s) /\ syncs[s].key = u
           /\ log'[u] = markSynced(log[u], IdsOf(SettledBy(s))) \cup MergedBy(s)
    BY <1>5 DEF Merges
  <2>2. /\ \A t \in syncs[s].reply : Stored(u, t.q)
        /\ UNCHANGED <<server, lost>>
    BY <2>1 DEF SyncMerges, StoredInv, ReplyInv
  <2>3. CASE r \in MergedBy(s)
    BY <2>1, <2>2, <2>3, MergedRow DEF newFromServer, Stored
  <2>4. CASE r \in markSynced(log[u], IdsOf(SettledBy(s)))
    <3>1. PICK o \in log[u] : /\ r.id = o.id /\ r.q = o.q
                              /\ r.synced <=> o.synced \/ o.id \in IdsOf(SettledBy(s))
      BY <1>1, <2>4, MarkedRow
    <3>2. ASSUME o.id \in IdsOf(SettledBy(s)) PROVE Stored(u, o.q)
      <4>1. PICK n \in SettledBy(s) : n.id = o.id
        BY <3>2 DEF IdsOf
      <4>2. n \in log[u] /\ \E t \in syncs[s].reply : t.q = n.q
        BY <2>1, <4>1 DEF SettledBy, unsyncedLatest, latestPerQuestion, serverIsUpToDate
      <4>3. n.q = o.q
        BY <1>2, <4>1, <4>2 DEF RowsInv, AnswerInv
      <4> QED
        BY <2>2, <4>2, <4>3
    <3> QED
      BY <2>2, <3>1, <3>2 DEF StoredInv, SyncedRowsAreStored, Stored
  <2> QED
    BY <2>1, <2>3, <2>4
<1>6. Adopts(u) => r \in log[u]
  BY <1>1, UnsettledRow DEF Adopts
<1>7. Records(u) => r \in log[u]
  BY DEF Records
<1> QED
  BY <1>1, <1>3, <1>4, <1>5, <1>6, <1>7, LogAfter

LEMMA StoredStep ==
  ASSUME NoLag, OneClear, NoSwitch, TypeOK, SyncInv, RowsInv, StoredInv, [Next]_vars
  PROVE  StoredInv'
<1>1. ASSUME NEW c \in ClearSlots, Unresolved(c)'
      PROVE  LET u == clears'[c].owner
             IN  /\ loaded' /\ owner' \in {u, Guest} /\ u \in Accounts
                 /\ \A r \in log'[u] : /\ ~r.synced
                                       /\ \A w \in pendingWrites' : w.id # r.id
  BY <1>1, ClearedLogStep DEF StoredInv
<1>2. ClearedLogInv'
  BY <1>1, DeleteSessionStep DEF StoredInv, ClearedLogInv
<1>3. AcknowledgedInv'
  BY AcknowledgedStep DEF StoredInv, AcknowledgedInv
<1>4. SyncedRowsAreStored'
  BY SyncedRowStep DEF SyncedRowsAreStored
<1>5. ReplyInv'
  BY ReplyStep DEF StoredInv, ReplyInv
<1> QED
  BY <1>2, <1>3, <1>4, <1>5 DEF StoredInv

(* The invariant of a device whose accounts change through page loads.     *)
LEMMA StoredHolds ==
  ASSUME NoLag, OneClear, NoSwitch
  PROVE  Spec => []StoredInv
<1>1. Init => TypeOK /\ SyncInv /\ RowsInv /\ StoredInv
  BY TypeInit, SyncInvInit, RowsInit, StoredInit
<1>2. /\ TypeOK /\ SyncInv /\ RowsInv /\ StoredInv /\ [Next]_vars
      => (TypeOK /\ SyncInv /\ RowsInv /\ StoredInv)'
  BY TypeStep, OwnStep, KeepOutStep, RowsStep, StoredStep DEF SyncInv
<1> QED
  BY <1>1, <1>2, PTL DEF Spec

(* #397: a row marked synced has an answer to its question on the server,  *)
(* or somebody else erased it and none was stored since.  The DELETE of a  *)
(* clear here never runs ahead of an upload that would mark a row, nor     *)
(* does a merge mark one from a read that DELETE outdated, as long as      *)
(* another account signs in through a page load.                           *)
THEOREM SettledRowsAreStored ==
  ASSUME NoLag, OneClear, NoSwitch
  PROVE  Spec => []SyncedRowsAreStored
<1>1. StoredInv => SyncedRowsAreStored
  BY DEF StoredInv
<1> QED
  BY <1>1, StoredHolds, PTL

-----------------------------------------------------------------------------
(* What a clear erased stays erased. *)

LEMMA WipedInit == Init => WipedInv
BY DEF Init, WipedInv, Unresolved, IdleClear

(* An answer of some history was of some history before, or is new.        *)
LEMMA KeptAfter ==
  ASSUME TypeOK, SyncInv, [Next]_vars, NEW u \in Owners, NEW x \in Kept(u)'
  PROVE  \/ x = attempts + 1 /\ attempts' = attempts + 1
         \/ x \in Kept(u) \/ x \in Kept(Guest)
<1>1. history' = [v \in Owners |-> Kept(v)'] /\ history = [v \in Owners |-> Kept(v)]
  BY DEF history, Owners
<1>2. History!Next /\ History!Owners = Owners /\ Guest \in Owners
  BY HistoryStep DEF History!Owners, Owners
<1>3. CASE History!Forget
  BY <1>1, <1>2, <1>3 DEF History!Forget
<1>4. ASSUME NEW v \in Owners, History!Give(v)
      PROVE  (x = attempts + 1 /\ attempts' = attempts + 1) \/ x \in Kept(u)
  BY <1>1, <1>4 DEF History!Give
<1>5. ASSUME NEW v \in Accounts, History!Adopt(v)
      PROVE  x \in Kept(u) \/ x \in Kept(Guest)
  <2> HIDE DEF history
  <2>1. history'[u] = Kept(u)' /\ history[u] = Kept(u) /\ history[Guest] = Kept(Guest)
    BY <1>1, <1>2
  <2>2. history'[u] \subseteq history[u] \cup history[Guest]
    BY <1>1, <1>5 DEF History!Adopt, Owners
  <2> QED
    BY <2>1, <2>2
<1> QED
  BY <1>2, <1>3, <1>4, <1>5 DEF History!Next

(* The answers a clear has wiped from a log stay out of every other        *)
(* history, and out of that log and the queue, until its DELETE resolves.  *)
LEMMA WipedStep ==
  ASSUME TypeOK, SyncInv, WipedInv, History!TypeOK, History!Isolated, [Next]_vars,
         NEW c \in ClearSlots, Unresolved(c)'
  PROVE  LET u == clears'[c].owner
             w == clears'[c].wiped
         IN  /\ u \in Accounts /\ w \subseteq 1..attempts'
             /\ w \cap IdsOf(log'[u]) = {} /\ w \cap IdsOf(queuedWrites') = {}
             /\ \A v \in Owners \ {u} : w \cap Kept(v)' = {}
<1> USE OwnersAssumption
<1>1. \A v \in Owners : Kept(v) \subseteq 1..attempts
  BY DEF History!TypeOK, History!Owners, Owners, history
<1>2. clears'[c].stage \in {"wait", "delete"}
  BY DEF Unresolved
<1>3. CASE clearProgress(c)
  <2>1. /\ clears'[c].owner = owner /\ clears'[c].wiped = IdsOf(log[owner])
        /\ owner \in Accounts /\ owner \in Owners
        /\ log'[owner] = {} /\ queuedWrites' = {} /\ attempts' = attempts
    BY <1>3 DEF clearProgress, IdleClear, SyncInv, OwnInv, KeyInv, TypeOK, Owners
  <2>2. IdsOf(log[owner]) \subseteq Kept(owner)
    BY DEF Kept, Holdings
  <2>3. ASSUME NEW v \in Owners, v # owner PROVE Kept(v)' \subseteq Kept(v)
    <3>1. syncEpoch' = syncEpoch
      BY <1>3 DEF clearProgress
    <3>2. ~Adopts(v)
      BY <3>1 DEF Adopts, SessionSettles, TypeOK
    <3> QED
      BY <2>1, <3>2, NothingNew
  <2>4. \A v \in Owners : v # owner => Kept(owner) \cap Kept(v) = {}
    BY <2>1 DEF History!Isolated, History!Owners, Owners, history
  <2> QED
    BY <1>1, <2>1, <2>2, <2>3, <2>4 DEF IdsOf
<1>4. CASE ClearContinues(c)
  <2> DEFINE u == clears[c].owner
             W == clears[c].wiped
  <2>1. Unresolved(c) /\ clears'[c].owner = u /\ clears'[c].wiped = W
    BY <1>2, <1>4 DEF ClearContinues, Unresolved
  <2>2. /\ u \in Accounts /\ u \in Owners /\ u # Guest /\ W \subseteq 1..attempts
        /\ W \cap IdsOf(log[u]) = {} /\ W \cap IdsOf(queuedWrites) = {}
        /\ \A v \in Owners \ {u} : W \cap Kept(v) = {}
    BY <2>1 DEF WipedInv, Owners
  <2>3. attempts \in Nat /\ attempts + 1 \notin W
    BY <2>2 DEF TypeOK
  <2>4. attempts' \in {attempts, attempts + 1}
    BY AnswersAfter
  <2>5. Guest \in Owners /\ W \cap Kept(Guest) = {}
    BY <2>2 DEF Owners
  <2> HIDE DEF u, W
  <2>6. \A v \in Owners \ {u} : W \cap Kept(v)' = {}
    BY <2>2, <2>3, <2>5, KeptAfter
  <2>7. ASSUME NEW w \in queuedWrites' PROVE w.id \notin W
    BY <2>2, <2>3, <2>7, QueueAfter DEF HeldNow, IdsOf
  <2>8. ASSUME NEW r \in log'[u] PROVE r.id \notin W
    <3>1. log[u] \in SUBSET Row /\ log[Guest] \in SUBSET Row
      BY <2>2, <2>5 DEF TypeOK
    <3>2. \A o \in log[u] : o.id \notin W
      BY <2>2 DEF IdsOf
    <3>3. \A o \in log[Guest] : o.id \notin W
      BY <2>5 DEF Kept, Holdings, IdsOf
    <3>4. \A s \in SyncSlots : ~SyncMerges(s)
      BY <2>1 DEF Unresolved, SyncInv, KeepOutInv, SyncsKeepOut, SyncMerges
    <3>5. Adopts(u) => r.id \notin W
      BY <2>8, <3>1, <3>2, <3>3, UnsettledRow DEF Adopts
    <3>6. Records(u) => r.id \notin W
      BY <2>3, <2>8, <3>2 DEF Records
    <3>7. Settles(u) => r.id \notin W
      BY <2>8, <3>1, <3>2, MarkedRow DEF Settles
    <3> QED
      BY <2>2, <2>8, <3>2, <3>4, <3>5, <3>6, <3>7, LogAfter DEF Merges
  <2> QED
    BY <2>1, <2>2, <2>3, <2>4, <2>6, <2>7, <2>8 DEF IdsOf
<1> QED
  BY <1>2, <1>3, <1>4, ClearAfter

(* What is erased was only a guest's log, or is only in the rows a DELETE  *)
(* removes.                                                                *)
LEMMA ErasedAfter ==
  ASSUME TypeOK, SyncInv, WipedInv, History!TypeOK, History!Isolated, [Next]_vars,
         NEW x \in erased', x \notin erased
  PROVE  x \in 1..attempts /\ attempts' = attempts /\ \A u \in Owners : x \notin Kept(u)'
<1> USE OwnersAssumption
<1>1. \A u, v \in Owners : Kept(u) \subseteq 1..attempts /\ (u # v => Kept(u) \cap Kept(v) = {})
  BY DEF History!TypeOK, History!Isolated, History!Owners, Owners, history
<1>2. CASE clearLocally
  <2>1. /\ owner = Guest /\ Guest \in Owners
        /\ log' = [log EXCEPT ![Guest] = {}]
        /\ attempts' = attempts /\ syncEpoch' = syncEpoch
        /\ erased' = erased \cup IdsOf(log[Guest])
    BY <1>2 DEF clearLocally, SyncInv, OwnInv, KeyInv, Owners, page
  <2>2. x \in Kept(Guest) /\ log'[Guest] = {}
    BY <2>1 DEF Kept, Holdings, TypeOK
  <2>3. \A u \in Owners : ~Adopts(u)
    BY <2>1 DEF Adopts, SessionSettles, TypeOK
  <2>4. \A u \in Owners : Kept(u)' \subseteq Kept(u)
    BY <2>1, <2>3, NothingNew
  <2>5. Kept(Guest)' = {}
    <3>1. KeyInv'
      BY KeyStep DEF SyncInv, OwnInv
    <3>2. strays' = strays
      BY <1>2 DEF clearLocally
    <3>3. \A w \in Uploads' : w.key # Guest
      BY <3>1, <3>2 DEF KeyInv, Uploads, SyncInv, OwnInv, NoCrossAccountPost, TypeOK, Stray
    <3>4. \A s \in SyncSlots : ~Carries(s, Guest)'
      BY <3>1 DEF KeyInv, Carries
    <3> QED
      BY <2>2, <3>3, <3>4, KeptInNext
  <2> QED
    BY <1>1, <2>1, <2>2, <2>4, <2>5
<1>3. ASSUME NEW c \in ClearSlots, DeleteDone(c)
      PROVE  x \in 1..attempts /\ attempts' = attempts /\ \A u \in Owners : x \notin Kept(u)'
  <2>0. PICK u \in Accounts : u = clears[c].owner
    BY <1>3 DEF DeleteDone, WipedInv, Unresolved
  <2>1. /\ clears[c].stage = "delete" /\ clears[c].as = u
        /\ x \in clears[c].wiped /\ x \notin IdsOf(strays)
        /\ server' = [server EXCEPT ![u] = {}]
        /\ UNCHANGED <<log, queuedWrites, pendingWrites, strays, attempts>>
        /\ syncEpoch' = syncEpoch
    BY <1>3, <2>0 DEF DeleteDone, page
  <2>2. /\ u \in Owners /\ x \in 1..attempts /\ x \notin IdsOf(log[u])
        /\ x \notin IdsOf(queuedWrites) /\ \A v \in Owners \ {u} : x \notin Kept(v)
    BY <2>0, <2>1 DEF WipedInv, Unresolved, Owners
  <2>3. pendingWrites = {} /\ \A s \in SyncSlots : ~Carries(s, u)'
    <3>1. pendingWrites = {}
      BY <2>1 DEF SyncInv, KeepOutInv, LockInv
    <3>2. ASSUME NEW s \in SyncSlots, Carries(s, u)' PROVE FALSE
      <4>1. /\ syncs' = syncs /\ clearGeneration' = clearGeneration
        BY <1>3 DEF DeleteDone, locks
      <4> QED
        BY <2>1, <3>2, <4>1 DEF Carries, clearedSince, SyncInv, KeepOutInv, SyncsKeepOut
    <3> QED
      BY <3>1, <3>2
  <2>4. server'[u] = {}
    BY <2>1, <2>2 DEF TypeOK
  <2>5. x \notin Kept(u)'
    <3>1. /\ \A r \in log'[u] : x # r.id
          /\ \A w \in Uploads' : x # w.id
      BY <2>1, <2>2, <2>3 DEF IdsOf, Uploads
    <3> QED
      BY <2>3, <2>4, <3>1, KeptInNext
  <2>6. ASSUME NEW v \in Owners, v # u PROVE x \notin Kept(v)'
    <3>1. ~Adopts(v)
      BY <2>1 DEF Adopts, SessionSettles, TypeOK
    <3> QED
      BY <2>1, <2>2, <2>6, <3>1, NothingNew
  <2> QED
    BY <2>1, <2>2, <2>5, <2>6
<1>4. CASE erased' # erased
  BY <1>2, <1>3, <1>4 DEF Next, SessionNext, AnswerNext, SyncNext, ClearNext,
     SessionSeen, SessionChanges, SessionSettles, CookieChanges, Reload,
     recordAttempt, OtherDevice, StrayStored, ClearedElsewhere, PostStored,
     PostFails, WriteSettles, retrySync, GetAnswered, GetFails, SyncFails,
     SyncDefers, SyncMerges, SyncSettles, clearProgress, ClearDeletes,
     DeleteFails, ClearFails, ClearConfirmed, ClearSettles, vars
<1> QED
  BY <1>4

(* No step brings an erased answer back: it would be of no history, and no *)
(* step gives an old answer again.                                         *)
LEMMA ErasedStep ==
  ASSUME TypeOK, SyncInv, WipedInv, History!TypeOK, History!Isolated, [Next]_vars
  PROVE  WipedInv'
<1>1. attempts \in Nat /\ attempts' \in {attempts, attempts + 1} /\ Guest \in Owners
  BY AnswersAfter DEF TypeOK, Owners
<1>2. ASSUME NEW x \in erased'
      PROVE  x \in 1..attempts' /\ \A u \in Owners : x \notin Kept(u)'
  <2>1. CASE x \in erased
    <3>1. x \in 1..attempts /\ \A u \in Owners : x \notin Kept(u)
      BY <2>1 DEF WipedInv
    <3> QED
      BY <1>1, <3>1, KeptAfter
  <2> QED
    BY <1>1, <1>2, <2>1, ErasedAfter
<1>3. ASSUME NEW c \in ClearSlots, Unresolved(c)'
      PROVE  LET u == clears'[c].owner
                 w == clears'[c].wiped
             IN  /\ u \in Accounts /\ w \subseteq 1..attempts'
                 /\ w \cap IdsOf(log'[u]) = {} /\ w \cap IdsOf(queuedWrites') = {}
                 /\ \A v \in Owners \ {u} : w \cap Kept(v)' = {}
  BY <1>3, WipedStep
<1> QED
  BY <1>2, <1>3 DEF WipedInv

(* What is erased is in nothing kept, so in no log, rows or upload.        *)
LEMMA ErasedIsGone ==
  ASSUME TypeOK, SyncInv, WipedInv
  PROVE  NoResurrection
<1>1. \A w \in Uploads : w.key \in Owners
  BY DEF SyncInv, OwnInv, KeyInv, TypeOK, Stray, Uploads, Owners
<1>2. ASSUME NEW u \in Owners, NEW x \in Kept(u) PROVE x \notin erased
  BY <1>2 DEF WipedInv
<1>3. \A w \in Uploads : w.id \notin erased
  BY <1>1, <1>2, KeptIn
<1>4. \A u \in Owners : Holdings(u) \subseteq Kept(u)
  BY DEF Kept
<1> QED
  BY <1>2, <1>3, <1>4 DEF NoResurrection, IdsOf, Uploads

(* "Clear history" is permanent: an answer a clear reported erased is in   *)
(* no log, in no account's rows and in no upload, ever again - no sync     *)
(* merges it back, no POST stores it, no other account adopts it - unless  *)
(* a POST of it was on its way, with nobody waiting, as the DELETE ran.    *)
THEOREM ErasedForGood ==
  ASSUME NoLag, OneClear
  PROVE  Spec => []NoResurrection
<1>1. Init => WipedInv
  BY WipedInit
<1>2. TypeOK /\ SyncInv /\ History!TypeOK /\ History!Isolated
      /\ WipedInv /\ [Next]_vars => WipedInv'
  BY ErasedStep
<1>3. Spec => [](History!TypeOK /\ History!Isolated)
  BY Isolation, SyncKeepsHistory DEF ImplementsHistory
<1>4. TypeOK /\ SyncInv /\ WipedInv => NoResurrection
  BY ErasedIsGone
<1> QED
  BY <1>1, <1>2, <1>3, <1>4, SyncInvariance, PTL DEF Spec

=============================================================================
