---------------------------- MODULE ProgressSync ----------------------------
(***************************************************************************)
(* The learner's answer history: the attempt log a browser keeps per       *)
(* owner, the rows the server keeps per account, and the protocol that     *)
(* reconciles them (client/src/services/progressStore.ts, driven by        *)
(* client/src/App.vue, against server/db.mjs and routes/attempts.mjs).     *)
(*                                                                         *)
(* One browser page talks to the server.  The page runs JavaScript tasks   *)
(* to completion; its requests are answered, failed or lost in any order,  *)
(* and one that the page no longer waits for may be carried out later.     *)
(* Signing in with a provider and signing out both reload the page.        *)
(***************************************************************************)
EXTENDS Integers, FiniteSets

CONSTANTS
    Accounts,      \* the accounts that can be signed in
    Guest,         \* the owner of the log when nobody is signed in
    Questions,
    SyncSlots,     \* how many syncFromServer() calls can be suspended at once
    ClearSlots,    \* how many clearProgress() calls can be suspended at once
    None,          \* no slot
    Skew,          \* the client clock minus the server clock
    Switches,      \* how the session may change without a page load
    MaxAttempts,   \* bound: answers given, on any device
    MaxClock,      \* bound: time stamps issued
    MaxEpoch,      \* bound: session changes one page sees
    MaxClears,     \* bound: clears one page starts
    MaxStrays      \* bound: POSTs that may arrive when nobody waits for them

ASSUME OwnersAssumption == Guest \notin Accounts
ASSUME SlotsAssumption == None \notin SyncSlots \cup ClearSlots
ASSUME SkewAssumption == Skew \in Int
ASSUME SwitchesAssumption == Switches \subseteq {"signout", "switch", "lag"}
ASSUME BoundsAssumption == {MaxAttempts, MaxClock, MaxEpoch, MaxClears, MaxStrays} \subseteq Nat

Owners == Accounts \cup {Guest}

VARIABLES
    session,          \* whose cookie the browser sends: an account, or Guest
    \* in localStorage
    log,              \* owner -> the attempt rows of that owner
    \* in the page's memory, lost by a reload
    loaded,           \* the session is known and App's watch has run
    owner,            \* progressOwner
    syncEnabled,
    syncStatus,
    syncEpoch,
    clearGeneration,
    clearInFlight,    \* the clear that keeps syncs out, or None
    writesHeldBy,     \* the clear that holds new writes back, or None
    queuedWrites,     \* the attempt POSTs held back
    pendingWrites,    \* the attempt POSTs in flight
    syncs,            \* slot -> a suspended syncFromServer()
    clears,           \* slot -> a suspended clearProgress()
    \* on the server
    server,           \* account -> its rows of the attempts table
    strays,           \* POSTs that are on the way and nobody waits for
    \* bookkeeping
    attempts,         \* answers given so far; an answer's id is its number
    clock,            \* time stamps issued so far
    erased,           \* answers a clear erased while none of their POSTs strayed
    lost              \* pairs of an account and a question whose rows somebody
                      \* else erased, with no row stored since

page == <<owner, syncEnabled, syncStatus, syncEpoch>>
locks == <<clearGeneration, clearInFlight, writesHeldBy>>
beyond == <<strays, lost>>
vars == <<session, log, loaded, page, locks, queuedWrites, pendingWrites,
          syncs, clears, server, attempts, clock, erased, beyond>>

-----------------------------------------------------------------------------
(* Data.  An answer is known by its id; a row of the log may be the answer *)
(* as this device recorded it or as the server returned it, and the two    *)
(* differ in their time stamp only.  Client stamps are even and server     *)
(* stamps odd: the two clocks never show the same millisecond.             *)

Ids == 1..MaxAttempts

Row == [id : Ids, q : Questions, at : Int, synced : BOOLEAN]
ServerRow == [id : Ids, q : Questions, at : Int]
QueuedWrite == [id : Ids, q : Questions, key : Owners, epoch : Nat]
Write == [id : Ids, q : Questions, key : Owners, epoch : Nat, as : Owners,
          sync : SyncSlots \cup {None}, stage : {"sent", "ok", "fail"}]
Stray == [id : Ids, q : Questions, key : Owners, as : Accounts]
Sync == [stage : {"idle", "get", "reply", "fail", "backfill"}, gen : Nat,
         epoch : Nat, key : Owners, as : Owners,
         reply : SUBSET ServerRow, ok : BOOLEAN]
Clear == [stage : {"idle", "wait", "delete", "ok", "fail", "after"},
          epoch : Nat, owner : Owners, as : Owners, wiped : SUBSET Ids]

IdleSync == [stage |-> "idle", gen |-> 0, epoch |-> 0, key |-> Guest,
             as |-> Guest, reply |-> {}, ok |-> TRUE]
IdleClear == [stage |-> "idle", epoch |-> 0, owner |-> Guest, as |-> Guest,
              wiped |-> {}]

ClientStamp == 2 * (clock + Skew)
ServerStamp == 2 * clock + 1

IdsOf(rows) == {r.id : r \in rows}

(* The most recent row of every question. *)
latestPerQuestion(rows) ==
    {r \in rows : \A t \in rows : t.q = r.q => t.at <= r.at}

(* A log after the server confirmed the answers in ids. *)
markSynced(rows, ids) ==
    {[r EXCEPT !.synced = r.synced \/ r.id \in ids] : r \in rows}

-----------------------------------------------------------------------------
(* Scheduling.  A continuation whose promise has resolved runs before the  *)
(* page takes its next task: a click, a watch or a reply that arrives.     *)

(* Mistake: the DELETE does not wait for the writes in flight. *)
ClearReady_NoWait(c) == clears[c].stage \in {"wait", "after"}

ClearReady(c) == clears[c].stage \in {"wait", "after"} /\ pendingWrites = {}
SyncReady(s) ==
    syncs[s].stage = "backfill" /\ \A w \in pendingWrites : w.sync # s

NextTask == /\ \A c \in ClearSlots : ~ClearReady(c)
            /\ \A s \in SyncSlots : ~SyncReady(s)

(* Mistake: a status is set whatever epoch it belongs to. *)
setSyncStatusFor_AnyEpoch(epoch, status) == syncStatus' = status

(* A status update carries the epoch it started under. *)
setSyncStatusFor(epoch, status) ==
    syncStatus' = IF epoch = syncEpoch THEN status ELSE syncStatus

-----------------------------------------------------------------------------
(* The session, the page and its sync switch. *)

(* Mistake: adopted rows replace the account's log. *)
adoptGuestRows_Replaces(u) ==
    IF u = Guest \/ log[Guest] = {} THEN log
    ELSE [log EXCEPT ![u] = log[Guest], ![Guest] = {}]

(* The log of every owner after setProgressOwner(u): an account that signs *)
(* in adopts the guest's rows.                                             *)
adoptGuestRows(u) ==
    IF u = Guest THEN log
    ELSE [log EXCEPT ![u] = @ \cup {[r EXCEPT !.synced = FALSE] : r \in log[Guest]},
                     ![Guest] = {}]

(* A clear in flight is never raced by a sync. *)
syncMayStart == clearInFlight = None

(* What a call of syncFromServer() remembers before its GET. *)
StartedSync(epoch, key, as) ==
    [IdleSync EXCEPT !.stage = "get", !.gen = clearGeneration,
                     !.epoch = epoch, !.key = key, !.as = as]

(* App's watch: the page learns that u is signed in, or nobody. *)
SessionSettles(u) ==
    /\ NextTask
    /\ syncEpoch < MaxEpoch
    /\ loaded' = TRUE
    /\ owner' = u
    /\ log' = adoptGuestRows(u)
    /\ syncEnabled' = (u # Guest)
    /\ syncEpoch' = syncEpoch + 1
    /\ syncStatus' = IF u = Guest THEN "off" ELSE "syncing"
    /\ IF u # Guest /\ syncMayStart
       THEN \E s \in SyncSlots :
               /\ syncs[s].stage = "idle"
               /\ syncs' = [syncs EXCEPT ![s] = StartedSync(syncEpoch + 1, u, u)]
       ELSE syncs' = syncs
    /\ UNCHANGED <<locks, queuedWrites, pendingWrites, clears, server,
                   attempts, clock, erased, beyond>>

(* After a page load, or once the cookie changed behind the page's back. *)
SessionSeen ==
    /\ ~loaded \/ owner # session
    /\ session' = session
    /\ SessionSettles(session)

(* The session changes and the page sees it at once: the learner signs out *)
(* here, or another tab signs out or in.                                   *)
SessionChanges(u) ==
    /\ loaded /\ owner = session /\ u # session
    /\ "switch" \in Switches \/ ("signout" \in Switches /\ u = Guest)
    /\ session' = u
    /\ SessionSettles(u)

(* Another tab changes the cookie and this page has not seen it yet. *)
CookieChanges(u) ==
    /\ "lag" \in Switches
    /\ loaded /\ u # session
    /\ session' = u
    /\ UNCHANGED <<log, loaded, page, locks, queuedWrites, pendingWrites, syncs,
                   clears, server, attempts, clock, erased, beyond>>

(* Nobody waits any longer for the POSTs in ws, and some of them may still *)
(* reach the server, at any later time.                                    *)
LoseSightOf(ws) ==
    \E some \in SUBSET {w \in ws : w.stage = "sent" /\ w.as \in Accounts} :
        /\ strays' = strays \cup
             {[id |-> w.id, q |-> w.q, key |-> w.key, as |-> w.as] : w \in some}
        /\ Cardinality(strays') <= MaxStrays

(* A page load: everything in memory is gone, and so are the replies to    *)
(* the requests in flight.                                                 *)
Reload(u) ==
    /\ session' = u
    /\ loaded' = FALSE
    /\ owner' = Guest
    /\ syncEnabled' = FALSE
    /\ syncStatus' = "off"
    /\ syncEpoch' = 0
    /\ clearGeneration' = 0
    /\ clearInFlight' = None
    /\ writesHeldBy' = None
    /\ queuedWrites' = {}
    /\ pendingWrites' = {}
    /\ syncs' = [s \in SyncSlots |-> IdleSync]
    /\ clears' = [c \in ClearSlots |-> IdleClear]
    /\ LoseSightOf(pendingWrites)
    /\ UNCHANGED <<log, server, attempts, clock, erased, lost>>

-----------------------------------------------------------------------------
(* Answering a question. *)

NewWrite(id, q, key, epoch, sync) ==
    [id |-> id, q |-> q, key |-> key, epoch |-> epoch, as |-> session,
     sync |-> sync, stage |-> "sent"]

(* Mistake: writes are not held back during a clear. *)
holdsWrites_Never == FALSE

(* A clear whose DELETE is unresolved holds new writes back. *)
holdsWrites == writesHeldBy # None

recordAttempt(q) ==
    /\ NextTask
    /\ attempts < MaxAttempts /\ clock < MaxClock
    /\ attempts' = attempts + 1
    /\ clock' = clock + 1
    /\ log' = [log EXCEPT ![owner] = @ \cup
                 {[id |-> attempts + 1, q |-> q, at |-> ClientStamp,
                   synced |-> FALSE]}]
    /\ IF syncEnabled /\ holdsWrites
       THEN /\ queuedWrites' = queuedWrites \cup
                  {[id |-> attempts + 1, q |-> q, key |-> owner,
                    epoch |-> syncEpoch]}
            /\ pendingWrites' = pendingWrites
       ELSE /\ queuedWrites' = queuedWrites
            /\ pendingWrites' = IF syncEnabled
                 THEN pendingWrites \cup
                        {NewWrite(attempts + 1, q, owner, syncEpoch, None)}
                 ELSE pendingWrites
    /\ UNCHANGED <<session, loaded, page, locks, syncs, clears, server, erased, beyond>>

(* A new row of u's, with the server's time. *)
saveAttempt(u, id, q) ==
    /\ clock < MaxClock /\ clock' = clock + 1
    /\ server' = [server EXCEPT ![u] = @ \cup
                    {[id |-> id, q |-> q, at |-> ServerStamp]}]
    /\ lost' = lost \ {<<u, q>>}

(* POST /api/attempts: the server stores the answer under the account of   *)
(* the session it came with, and the reply arrives or is lost.             *)
PostStored(w) ==
    /\ w.stage = "sent" /\ w.as \in Accounts
    /\ saveAttempt(w.as, w.id, w.q)
    /\ \E stage \in {"ok", "fail"} :
          pendingWrites' = (pendingWrites \ {w}) \cup {[w EXCEPT !.stage = stage]}
    /\ UNCHANGED <<session, log, loaded, page, locks, queuedWrites, syncs,
                   clears, strays, attempts, erased>>

(* The POST is refused (no session, an error), or the connection breaks    *)
(* before an answer comes.                                                 *)
PostFails(w) ==
    /\ w.stage = "sent"
    /\ pendingWrites' = (pendingWrites \ {w}) \cup {[w EXCEPT !.stage = "fail"]}
    /\ LoseSightOf({w})
    /\ UNCHANGED <<session, log, loaded, page, locks, queuedWrites, syncs,
                   clears, server, attempts, clock, erased, lost>>

(* The server carries out a POST nobody waits for.  Two that are alike are *)
(* one stray here, so it may be carried out again.                         *)
StrayStored(w) ==
    /\ saveAttempt(w.as, w.id, w.q)
    /\ strays' \in {strays, strays \ {w}}
    /\ UNCHANGED <<session, log, loaded, page, locks, queuedWrites,
                   pendingWrites, syncs, clears, attempts, erased>>

(* The page takes the outcome of a POST of recordAttempt() or of a sync. *)
WriteSettles(w) ==
    /\ NextTask
    /\ w.stage \in {"ok", "fail"}
    /\ pendingWrites' = pendingWrites \ {w}
    /\ log' = IF w.stage = "ok"
              THEN [log EXCEPT ![w.key] = markSynced(@, {w.id})] ELSE log
    /\ IF w.stage = "fail" /\ w.sync = None
       THEN setSyncStatusFor(w.epoch, "failed")
       ELSE syncStatus' = syncStatus
    /\ syncs' = IF w.stage = "fail" /\ w.sync # None
                THEN [syncs EXCEPT ![w.sync].ok = FALSE] ELSE syncs
    /\ UNCHANGED <<session, loaded, owner, syncEnabled, syncEpoch, locks,
                   queuedWrites, clears, server, attempts, clock, erased, beyond>>

-----------------------------------------------------------------------------
(* syncFromServer(): on sign-in (SessionSettles) and on the Retry button,  *)
(* which a failed status shows.                                            *)

retrySync(s) ==
    /\ NextTask
    /\ syncEnabled /\ syncStatus = "failed"
    /\ syncMayStart
    /\ syncs[s].stage = "idle"
    /\ syncs' = [syncs EXCEPT ![s] = StartedSync(syncEpoch, owner, session)]
    /\ setSyncStatusFor(syncEpoch, "syncing")
    /\ UNCHANGED <<session, log, loaded, owner, syncEnabled, syncEpoch, locks,
                   queuedWrites, pendingWrites, clears, server, attempts,
                   clock, erased, beyond>>

(* GET /api/attempts: the latest row per question of the session's account. *)
GetAnswered(s) ==
    /\ syncs[s].stage = "get" /\ syncs[s].as \in Accounts
    /\ syncs' = [syncs EXCEPT
         ![s].stage = "reply", ![s].reply = latestPerQuestion(server[syncs[s].as])]
    /\ UNCHANGED <<session, log, loaded, page, locks, queuedWrites,
                   pendingWrites, clears, server, attempts, clock, erased, beyond>>

GetFails(s) ==
    /\ syncs[s].stage = "get"
    /\ syncs' = [syncs EXCEPT ![s].stage = "fail"]
    /\ UNCHANGED <<session, log, loaded, page, locks, queuedWrites,
                   pendingWrites, clears, server, attempts, clock, erased, beyond>>

(* Mistake: a failed read says nothing. *)
SyncFails_Silent(s) ==
    /\ NextTask
    /\ syncs[s].stage = "fail"
    /\ syncs' = [syncs EXCEPT ![s] = IdleSync]
    /\ UNCHANGED <<session, log, loaded, page, locks, queuedWrites,
                   pendingWrites, clears, server, attempts, clock, erased, beyond>>

SyncFails(s) ==
    /\ NextTask
    /\ syncs[s].stage = "fail"
    /\ syncs' = [syncs EXCEPT ![s] = IdleSync]
    /\ setSyncStatusFor(syncs[s].epoch, "failed")
    /\ UNCHANGED <<session, log, loaded, owner, syncEnabled, syncEpoch, locks,
                   queuedWrites, pendingWrites, clears, server, attempts,
                   clock, erased, beyond>>

(* Mistakes: a read is merged although a clear started, or the account     *)
(* changed, while it was in flight.                                        *)
clearedSince_Never(s) == FALSE
switchedSince_Never(s) == FALSE

(* A clear started, or the account changed, since the sync began. *)
clearedSince(s) == clearGeneration # syncs[s].gen
switchedSince(s) == syncEpoch # syncs[s].epoch

SyncDefers(s) ==
    /\ NextTask
    /\ syncs[s].stage = "reply"
    /\ clearedSince(s) \/ switchedSince(s)
    /\ syncs' = [syncs EXCEPT ![s] = IdleSync]
    /\ UNCHANGED <<session, log, loaded, page, locks, queuedWrites,
                   pendingWrites, clears, server, attempts, clock, erased, beyond>>

(* The server rows strictly newer than this log's own latest answer. *)
newFromServer(local, reply) ==
    {t \in reply : \A r \in latestPerQuestion(local) : r.q = t.q => t.at > r.at}

serverIsUpToDate(r, reply) == \E t \in reply : t.q = r.q /\ t.at >= r.at

(* Mistake: a row that is settled already is looked at again. *)
unsyncedLatest_All(local) == latestPerQuestion(local)

(* The latest rows of a log the server is not known to hold. *)
unsyncedLatest(local) == {r \in latestPerQuestion(local) : ~r.synced}

(* Merge what the server has, settle what it has at least as recently, and *)
(* post the rest.                                                          *)
SyncMerges(s) ==
    LET key == syncs[s].key
        reply == syncs[s].reply
        local == log[key]
        settled == {r \in unsyncedLatest(local) : serverIsUpToDate(r, reply)}
        merged == {[id |-> t.id, q |-> t.q, at |-> t.at, synced |-> TRUE] :
                     t \in newFromServer(local, reply)}
    IN  /\ NextTask
        /\ syncs[s].stage = "reply"
        /\ ~clearedSince(s) /\ ~switchedSince(s)
        /\ log' = [log EXCEPT ![key] = markSynced(@, IdsOf(settled)) \cup merged]
        /\ pendingWrites' = pendingWrites \cup
             {NewWrite(r.id, r.q, key, syncs[s].epoch, s) :
                r \in unsyncedLatest(local) \ settled}
        /\ syncs' = [syncs EXCEPT ![s].stage = "backfill", ![s].reply = {}]
        /\ UNCHANGED <<session, loaded, page, locks, queuedWrites, clears,
                       server, attempts, clock, erased, beyond>>

(* Every backfill settled; a clear that started meanwhile owns the status. *)
SyncSettles(s) ==
    /\ SyncReady(s)
    /\ syncs' = [syncs EXCEPT ![s] = IdleSync]
    /\ IF clearedSince(s) THEN syncStatus' = syncStatus
       ELSE setSyncStatusFor(syncs[s].epoch,
                             IF syncs[s].ok THEN "synced" ELSE "failed")
    /\ UNCHANGED <<session, log, loaded, owner, syncEnabled, syncEpoch, locks,
                   queuedWrites, pendingWrites, clears, server, attempts,
                   clock, erased, beyond>>

-----------------------------------------------------------------------------
(* clearProgress() *)

(* Sync off: the local log is the only copy. *)
clearLocally ==
    /\ NextTask
    /\ ~syncEnabled
    /\ clearGeneration < MaxClears
    /\ clearGeneration' = clearGeneration + 1
    /\ queuedWrites' = {}
    /\ log' = [log EXCEPT ![owner] = {}]
    /\ erased' = erased \cup IdsOf(log[owner])
    /\ UNCHANGED <<session, loaded, page, clearInFlight, writesHeldBy,
                   pendingWrites, syncs, clears, server, attempts, clock, beyond>>

clearProgress(c) ==
    /\ NextTask
    /\ syncEnabled
    /\ clears[c].stage = "idle" /\ clearGeneration < MaxClears
    /\ clearGeneration' = clearGeneration + 1
    /\ queuedWrites' = {}
    /\ log' = [log EXCEPT ![owner] = {}]
    /\ setSyncStatusFor(syncEpoch, "syncing")
    /\ clearInFlight' = c
    /\ writesHeldBy' = c
    /\ clears' = [clears EXCEPT ![c] =
         [IdleClear EXCEPT !.stage = "wait", !.epoch = syncEpoch,
                           !.owner = owner, !.wiped = IdsOf(log[owner])]]
    /\ UNCHANGED <<session, loaded, owner, syncEnabled, syncEpoch,
                   pendingWrites, syncs, server, attempts, clock, erased, beyond>>

(* Every write that was in flight has settled: send the DELETE. *)
ClearDeletes(c) ==
    /\ clears[c].stage = "wait" /\ ClearReady(c)
    /\ clears' = [clears EXCEPT ![c].stage = "delete", ![c].as = session]
    /\ UNCHANGED <<session, log, loaded, page, locks, queuedWrites,
                   pendingWrites, syncs, server, attempts, clock, erased, beyond>>

(* DELETE /api/attempts: the server erases the account of the session it   *)
(* came with, and the reply arrives or is lost.                            *)
DeleteDone(c) ==
    /\ clears[c].stage = "delete" /\ clears[c].as \in Accounts
    /\ server' = [server EXCEPT ![clears[c].as] = {}]
    /\ \E stage \in {"ok", "fail"} : clears' = [clears EXCEPT ![c].stage = stage]
    /\ erased' = IF clears[c].as = clears[c].owner
                 THEN erased \cup (clears[c].wiped \ IdsOf(strays)) ELSE erased
    /\ UNCHANGED <<session, log, loaded, page, locks, queuedWrites,
                   pendingWrites, syncs, attempts, clock, beyond>>

DeleteFails(c) ==
    /\ clears[c].stage = "delete"
    /\ clears' = [clears EXCEPT ![c].stage = "fail"]
    /\ UNCHANGED <<session, log, loaded, page, locks, queuedWrites,
                   pendingWrites, syncs, server, attempts, clock, erased, beyond>>

(* Mistake: a held write is sent whatever session it was recorded under. *)
mayRelease_AnyEpoch(w) == syncEnabled

(* The writes held back by c are sent, those of another epoch dropped. *)
mayRelease(w) == syncEnabled /\ w.epoch = syncEpoch

releaseQueuedWrites(c) ==
    IF writesHeldBy # c
    THEN UNCHANGED <<writesHeldBy, queuedWrites, pendingWrites>>
    ELSE /\ writesHeldBy' = None
         /\ queuedWrites' = {}
         /\ pendingWrites' = pendingWrites \cup
              {NewWrite(w.id, w.q, w.key, w.epoch, None) :
                 w \in {v \in queuedWrites : mayRelease(v)}}

(* Mistake: a clear that ends keeps the lock on syncs. *)
unlockSyncs_Never(c) == clearInFlight' = clearInFlight

unlockSyncs(c) ==
    clearInFlight' = IF clearInFlight = c THEN None ELSE clearInFlight

ClearFails(c) ==
    /\ NextTask
    /\ clears[c].stage = "fail"
    /\ clears' = [clears EXCEPT ![c] = IdleClear]
    /\ setSyncStatusFor(clears[c].epoch, "failed")
    /\ unlockSyncs(c)
    /\ releaseQueuedWrites(c)
    /\ UNCHANGED <<session, log, loaded, owner, syncEnabled, syncEpoch,
                   clearGeneration, syncs, server, attempts, clock, erased, beyond>>

ClearConfirmed(c) ==
    /\ NextTask
    /\ clears[c].stage = "ok"
    /\ clears' = [clears EXCEPT ![c].stage = "after"]
    /\ releaseQueuedWrites(c)
    /\ UNCHANGED <<session, log, loaded, page, clearGeneration, clearInFlight,
                   syncs, server, attempts, clock, erased, beyond>>

(* The writes sent since have settled too; the log that is current now     *)
(* says whether device and server agree.                                   *)
ClearSettles(c) ==
    /\ clears[c].stage = "after" /\ ClearReady(c)
    /\ clears' = [clears EXCEPT ![c] = IdleClear]
    /\ setSyncStatusFor(clears[c].epoch,
         IF \E r \in log[owner] : ~r.synced THEN "failed" ELSE "synced")
    /\ unlockSyncs(c)
    /\ UNCHANGED <<session, log, loaded, owner, syncEnabled, syncEpoch,
                   clearGeneration, writesHeldBy, queuedWrites, pendingWrites,
                   syncs, server, attempts, clock, erased, beyond>>

-----------------------------------------------------------------------------
(* The same account on another device, which syncs with the same server:   *)
(* it answers...                                                           *)
OtherDevice(u, q) ==
    /\ attempts < MaxAttempts /\ attempts' = attempts + 1
    /\ saveAttempt(u, attempts + 1, q)
    /\ UNCHANGED <<session, log, loaded, page, locks, queuedWrites,
                   pendingWrites, syncs, clears, strays, erased>>

(* ...or clears the history: DELETE /api/attempts.  So does a DELETE of    *)
(* this page that a page load abandoned or that was taken for failed.      *)
ClearedElsewhere(u) ==
    /\ server[u] # {}
    /\ server' = [server EXCEPT ![u] = {}]
    /\ lost' = lost \cup {<<u, t.q>> : t \in server[u]}
    /\ UNCHANGED <<session, log, loaded, page, locks, queuedWrites,
                   pendingWrites, syncs, clears, strays, attempts, clock, erased>>

Init ==
    /\ session \in Owners
    /\ log = [u \in Owners |-> {}]
    /\ loaded = FALSE
    /\ owner = Guest
    /\ syncEnabled = FALSE
    /\ syncStatus = "off"
    /\ syncEpoch = 0
    /\ clearGeneration = 0
    /\ clearInFlight = None
    /\ writesHeldBy = None
    /\ queuedWrites = {}
    /\ pendingWrites = {}
    /\ syncs = [s \in SyncSlots |-> IdleSync]
    /\ clears = [c \in ClearSlots |-> IdleClear]
    /\ server = [u \in Accounts |-> {}]
    /\ attempts = 0
    /\ clock = 0
    /\ strays = {} /\ erased = {} /\ lost = {}

SessionNext ==
    SessionSeen \/ \E u \in Owners : SessionChanges(u) \/ CookieChanges(u) \/ Reload(u)

AnswerNext ==
    \/ \E q \in Questions : recordAttempt(q) \/ \E u \in Accounts : OtherDevice(u, q)
    \/ \E w \in pendingWrites : PostStored(w) \/ PostFails(w) \/ WriteSettles(w)
    \/ \E w \in strays : StrayStored(w)
    \/ \E u \in Accounts : ClearedElsewhere(u)

SyncNext ==
    \E s \in SyncSlots : \/ retrySync(s) \/ GetAnswered(s) \/ GetFails(s)
                         \/ SyncFails(s) \/ SyncDefers(s) \/ SyncMerges(s)
                         \/ SyncSettles(s)

ClearNext ==
    \/ clearLocally
    \/ \E c \in ClearSlots : \/ clearProgress(c) \/ ClearDeletes(c)
                             \/ DeleteDone(c) \/ DeleteFails(c)
                             \/ ClearFails(c) \/ ClearConfirmed(c)
                             \/ ClearSettles(c)

Next == SessionNext \/ AnswerNext \/ SyncNext \/ ClearNext

Spec == Init /\ [][Next]_vars

(* Every request is answered or fails, the page handles every answer, and  *)
(* the session request of a page load completes.                           *)
Fairness ==
    /\ WF_vars(SessionSeen)
    /\ WF_vars(\E w \in pendingWrites : PostStored(w) \/ PostFails(w))
    /\ WF_vars(\E w \in pendingWrites : WriteSettles(w))
    /\ \A s \in SyncSlots :
         /\ WF_vars(GetAnswered(s) \/ GetFails(s))
         /\ WF_vars(SyncFails(s) \/ SyncDefers(s) \/ SyncMerges(s))
         /\ WF_vars(SyncSettles(s))
    /\ \A c \in ClearSlots :
         /\ WF_vars(DeleteDone(c) \/ DeleteFails(c))
         /\ WF_vars(ClearFails(c) \/ ClearConfirmed(c))
         /\ WF_vars(ClearDeletes(c) \/ ClearSettles(c))

LiveSpec == Spec /\ Fairness

-----------------------------------------------------------------------------
(* Properties. *)

(* Every variable keeps its type. *)
TypeOK ==
    /\ session \in Owners /\ owner \in Owners
    /\ log \in [Owners -> SUBSET Row]
    /\ loaded \in BOOLEAN /\ syncEnabled \in BOOLEAN
    /\ syncStatus \in {"off", "syncing", "synced", "failed"}
    /\ syncEpoch \in Nat /\ clearGeneration \in Nat
    /\ clearInFlight \in ClearSlots \cup {None}
    /\ writesHeldBy \in ClearSlots \cup {None}
    /\ queuedWrites \subseteq QueuedWrite
    /\ pendingWrites \subseteq Write
    /\ syncs \in [SyncSlots -> Sync]
    /\ clears \in [ClearSlots -> Clear]
    /\ server \in [Accounts -> SUBSET ServerRow]
    /\ attempts \in 0..MaxAttempts /\ clock \in 0..MaxClock
    /\ strays \subseteq Stray /\ erased \subseteq Ids /\ lost \subseteq Accounts \X Questions

(* #403: an attempt POST in flight carries a row of the log of the very    *)
(* account whose session it was sent on, whatever sign-outs, account       *)
(* switches, syncs and clears happened since the row was recorded; so does *)
(* one that nobody waits for any more.                                     *)
NoCrossAccountPost == \A w \in pendingWrites \cup strays : w.as = w.key

(* #403, end to end: an answer is known to one owner only.  No answer in   *)
(* one owner's log or server rows is in another owner's.                   *)
Holdings(u) == IdsOf(log[u]) \cup IF u = Guest THEN {} ELSE IdsOf(server[u])
AccountIsolation ==
    \A u, v \in Owners : u # v => Holdings(u) \cap Holdings(v) = {}

(* #397: while a DELETE is unresolved the page waits for no attempt POST,  *)
(* so the server cannot order one before the DELETE and the page still     *)
(* take it for stored.                                                     *)
DeleteBarrier ==
    (\E c \in ClearSlots : clears[c].stage = "delete") => pendingWrites = {}

(* #397: a row marked synced is of a question the server holds an answer   *)
(* to.  No clear of this page, no sync and no lost reply leaves a settled  *)
(* row the server lacks; where it lacks one, somebody else erased the      *)
(* rows of the question and nobody stored one since.                       *)
Stored(u, q) == <<u, q>> \in lost \/ \E t \in server[u] : t.q = q
SyncedRowsAreStored ==
    \A u \in Accounts : \A r \in log[u] : r.synced => Stored(u, r.q)

(* "Clear history" is permanent: an answer a clear erased is in no log, in *)
(* no account's rows, and in no write that could bring it back.  Only a    *)
(* POST of it that was on its way unawaited when the DELETE ran can.       *)
NoResurrection ==
    /\ \A u \in Owners : Holdings(u) \cap erased = {}
    /\ IdsOf(pendingWrites \cup strays) \cap erased = {}
    /\ IdsOf(queuedWrites) \cap erased = {}

(* The DELETE of a clear runs on the session of the account that asked for *)
(* it, or on no session at all.                                            *)
DeleteHitsOwnAccount ==
    \A c \in ClearSlots :
        clears[c].stage \in {"delete", "ok", "after"} =>
            clears[c].as \in {clears[c].owner, Guest}

(* A status never belongs to an earlier session: it is "off" exactly while *)
(* sync is, whatever settles late.                                         *)
StatusMatchesSession == (syncStatus = "off") <=> ~syncEnabled

(* While a clear's round trip lasts, no sync is started or merged.         *)
SyncsKeepOut ==
    (\E c \in ClearSlots : clears[c].stage # "idle") =>
        \A s \in SyncSlots : syncs[s].stage \in {"get", "reply"} => clearedSince(s)

(* Both locks of a clear, whatever the page believes about the session.   *)
LocksHold == DeleteBarrier /\ SyncsKeepOut

(* A sync, a settled write or a session change loses no answer: a step     *)
(* that is not a clear keeps every answer of every log in some log.        *)
NoSilentLoss ==
    [][clearGeneration' <= clearGeneration =>
         UNION {IdsOf(log[u]) : u \in Owners}
           \subseteq UNION {IdsOf(log'[u]) : u \in Owners}]_vars

(* Once a row is settled it is settled for good: a row marked synced stays *)
(* so, and no write is ever issued for it again, even under a skewed clock.*)
NoRepost ==
    [][\A w \in pendingWrites' :
         (w.stage = "sent" /\ w \notin pendingWrites) =>
            \A r \in log[w.key] : r.id = w.id => ~r.synced]_vars

(* The learner is always told in the end: "syncing" does not last.         *)
SyncingSettles == (syncStatus = "syncing") ~> (syncStatus # "syncing")

(* A clear always comes to an end, and with it the hold on new writes.     *)
ClearEnds == (writesHeldBy # None \/ clearInFlight # None) ~>
                (writesHeldBy = None /\ clearInFlight = None)

(* A sync that is not overtaken will merge what its GET brought. *)
Arriving(u) ==
    UNION {IdsOf(syncs[s].reply) : s \in
        {t \in SyncSlots : /\ syncs[t].stage = "reply" /\ syncs[t].key = u
                           /\ ~clearedSince(t) /\ ~switchedSince(t)}}

(* Everything this device and the server have of u's answers, what is on   *)
(* its way from one to the other included, is the history the learner is   *)
(* promised: an answer is never another account's, and once every copy is  *)
(* gone - a clear has wiped it and no upload carries it - it never returns.*)
Kept(u) == Holdings(u) \cup Arriving(u) \cup
           IdsOf({w \in pendingWrites \cup strays \cup queuedWrites : w.key = u})
history == [u \in Owners |-> Kept(u)]

History == INSTANCE AnswerHistory WITH given <- attempts
ImplementsHistory == History!Spec

-----------------------------------------------------------------------------
(* Why they hold.  The conditions name what the code relies on: a page     *)
(* sees every session change at once, one clear is suspended at a time,    *)
(* and another account signs in through a page load.                       *)

NoLag == "lag" \notin Switches
OneClear == \A c, d \in ClearSlots : c = d
NoSwitch == "switch" \notin Switches

(* Only an account syncs: every request carries an account's rows.         *)
KeyInv ==
    /\ syncEnabled <=> owner # Guest
    /\ \A w \in queuedWrites \cup pendingWrites : w.key \in Accounts
    /\ \A s \in SyncSlots : syncs[s].stage # "idle" => syncs[s].key \in Accounts

(* The page acts for the session's account, or for nobody before App's     *)
(* watch has run.                                                          *)
PageInv == owner = IF loaded THEN session ELSE Guest

(* A held write or a suspended sync of the current epoch is the owner's.   *)
EpochInv ==
    /\ \A w \in queuedWrites :
          w.epoch <= syncEpoch /\ (w.epoch = syncEpoch => w.key = owner)
    /\ \A s \in SyncSlots : syncs[s].stage # "idle" =>
          /\ syncs[s].as = syncs[s].key
          /\ syncs[s].epoch <= syncEpoch
          /\ syncs[s].epoch = syncEpoch => syncs[s].key = owner

(* An account that is signed in has adopted what the guest answered.       *)
GuestInv == owner # Guest => log[Guest] = {}

OwnInv == KeyInv /\ PageInv /\ EpochInv /\ GuestInv /\ NoCrossAccountPost

(* A suspended clear keeps syncs out, and until its DELETE has resolved it *)
(* keeps writes back, all settled before the DELETE is sent.               *)
LockInv ==
    \A c \in ClearSlots :
        /\ clears[c].stage # "idle" => clearInFlight = c
        /\ clears[c].stage \in {"wait", "delete"} => writesHeldBy = c
        /\ clears[c].stage = "delete" => pendingWrites = {}

GenerationInv ==
    \A s \in SyncSlots : syncs[s].stage # "idle" => syncs[s].gen <= clearGeneration

KeepOutInv == LockInv /\ GenerationInv /\ SyncsKeepOut

SyncInv == OwnInv /\ KeepOutInv

(* What sets a status under the current epoch started while sync was on.   *)
StartedInSync(epoch) == epoch <= syncEpoch /\ (epoch = syncEpoch => syncEnabled)
StatusInv ==
    /\ StatusMatchesSession
    /\ \A w \in queuedWrites \cup pendingWrites : StartedInSync(w.epoch)
    /\ \A s \in SyncSlots : syncs[s].stage # "idle" => StartedInSync(syncs[s].epoch)
    /\ \A c \in ClearSlots : clears[c].stage # "idle" => StartedInSync(clears[c].epoch)

(* A copy of the answer i, to q, is somewhere other than in a guest's log. *)
Elsewhere(i, q) ==
    \/ \E u \in Accounts : \E r \in log[u] \cup server[u] : r.id = i /\ r.q = q
    \/ \E w \in pendingWrites \cup strays \cup queuedWrites : w.id = i /\ w.q = q
    \/ \E s \in SyncSlots : /\ syncs[s].stage = "reply"
                            /\ \E t \in syncs[s].reply : t.id = i /\ t.q = q

Guests(i, q) == \E r \in log[Guest] : r.id = i /\ r.q = q

(* An answer is to one question, and the guest's are the guest's alone.    *)
AnswerInv ==
    \A i \in Ids, p, q \in Questions :
        /\ Elsewhere(i, p) \/ Guests(i, p) => i <= attempts
        /\ Elsewhere(i, p) /\ Elsewhere(i, q) => p = q
        /\ Guests(i, p) /\ Guests(i, q) => p = q
        /\ ~ (Elsewhere(i, p) /\ Guests(i, q))

(* No stamp is later than what a clock has shown.                          *)
LatestStamp == 2 * (MaxClock + IF Skew > 0 THEN Skew ELSE 0) + 1
StampInv ==
    /\ \A u \in Owners : \A r \in log[u] : r.at <= LatestStamp
    /\ \A u \in Accounts : \A t \in server[u] : t.at <= LatestStamp
    /\ \A s \in SyncSlots : syncs[s].stage = "reply" =>
          \A t \in syncs[s].reply : t.at <= LatestStamp

(* A guest's row is never settled, and a settled copy of an answer is      *)
(* later than the copies that are not.                                     *)
CopyInv ==
    /\ \A r \in log[Guest] : ~r.synced
    /\ \A u \in Accounts : \A r, t \in log[u] :
          r.id = t.id /\ t.synced /\ ~r.synced => r.at < t.at

(* Writes are held back for a clear; they were never sent, nor are their   *)
(* rows settled.                                                           *)
HoldInv ==
    /\ writesHeldBy # None => clears[writesHeldBy].stage # "idle"
    /\ writesHeldBy # None => clears[writesHeldBy].stage # "after"
    /\ queuedWrites # {} => writesHeldBy # None
    /\ \A w \in queuedWrites :
          /\ \A v \in pendingWrites : v.id # w.id
          /\ \A r \in log[w.key] : r.id = w.id => ~r.synced

RowsInv == KeyInv /\ AnswerInv /\ StampInv /\ CopyInv

(* Until the DELETE of a clear has resolved nothing the account has on     *)
(* this device is settled or on its way, and nobody else signs in.         *)
Unresolved(c) == clears[c].stage \in {"wait", "delete"}
ClearedLogInv ==
    \A c \in ClearSlots :
        LET u == clears[c].owner
        IN  /\ Unresolved(c) =>
                  /\ loaded /\ owner \in {u, Guest} /\ u \in Accounts
                  /\ \A r \in log[u] : /\ ~r.synced
                                       /\ \A w \in pendingWrites : w.id # r.id
            /\ clears[c].stage \notin {"idle", "wait"} => clears[c].as \in {u, Guest}

(* What was acknowledged, and what a sync may still merge, is stored.      *)
AcknowledgedInv ==
    \A w \in pendingWrites : w.stage = "ok" => Stored(w.key, w.q)
ReplyInv ==
    \A s \in SyncSlots : syncs[s].stage = "reply" /\ ~clearedSince(s) =>
        \A t \in syncs[s].reply : Stored(syncs[s].key, t.q)

StoredInv == ClearedLogInv /\ AcknowledgedInv /\ ReplyInv /\ SyncedRowsAreStored

(* What is erased is kept nowhere.  The answers a clear has wiped from the *)
(* log are nowhere but on their account's way to the server, and the       *)
(* DELETE will find them there.                                            *)
WipedInv ==
    /\ erased \subseteq 1..attempts
    /\ \A u \in Owners : Kept(u) \cap erased = {}
    /\ \A c \in ClearSlots : Unresolved(c) =>
          LET u == clears[c].owner
          IN  /\ u \in Accounts
              /\ clears[c].wiped \subseteq 1..attempts
              /\ clears[c].wiped \cap IdsOf(log[u]) = {}
              /\ clears[c].wiped \cap IdsOf(queuedWrites) = {}
              /\ \A v \in Owners \ {u} : clears[c].wiped \cap Kept(v) = {}

-----------------------------------------------------------------------------
(* What the code's comments say and the model refutes. *)

(* "an update made offline after an earlier sync is never stranded on this *)
(* device": the server holds an answer marked synced, or a later one.      *)
NoStrandedAnswer ==
    \A u \in Accounts : \A r \in log[u] :
        r.synced => \E t \in server[u] : t.q = r.q /\ t.id >= r.id

(* "what actually makes the deletion permanent" (attempts.mjs, 74 to 77):  *)
(* no POST of what a DELETE has erased is still on its way.                *)
DeleteIsLast ==
    \A c \in ClearSlots :
        clears[c].stage = "ok" => clears[c].wiped \cap IdsOf(strays) = {}

(* What the learner can truthfully be told: with status "synced" and       *)
(* nothing in flight, the latest answer to every question is synced.       *)
SyncedIsTrue ==
    syncStatus = "synced" /\ pendingWrites = {} =>
        \A r \in latestPerQuestion(log[owner]) : r.synced

=============================================================================
