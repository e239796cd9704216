----------------------------- MODULE RateLimit -----------------------------
(***************************************************************************)
(* The fixed-window rate limiter of the submission endpoints and the       *)
(* throttle of its log lines (server/middleware/rate-limit.mjs).           *)
(*                                                                         *)
(* A request is judged in one go: the middleware awaits nothing before it  *)
(* passes the request on or answers 429.                                   *)
(***************************************************************************)
EXTENDS Integers, FiniteSets, Sequences

CONSTANTS
    Ips,           \* the clients a trusted header names
    NoIp,          \* the one bucket of the requests without that header
    Window, MaxRequests, MaxEntries, LogInterval,
    MaxTime,       \* bound: the clock
    MaxEvents      \* bound: how often each logged event occurs

Keys == Ips \cup {NoIp}

ASSUME KeysAssumption == NoIp \notin Ips
ASSUME LimitsAssumption == {Window, MaxRequests, MaxEntries, LogInterval} \subseteq Nat \ {0}
ASSUME BoundsAssumption == {MaxTime, MaxEvents} \subseteq Nat

Events == {"no-trusted-ip", "capacity", "quota:no-ip", "quota:per-ip"}

VARIABLES
    time,
    store,         \* key -> its window, for the keys that have one
    perEvent,      \* event -> the state of its log throttle
    \* bookkeeping
    served,        \* key -> the times at which its requests were passed on
    occurred,      \* event -> how often it occurred
    reported       \* event -> how many occurrences the log lines account for

vars == <<time, store, perEvent, served, occurred, reported>>

-----------------------------------------------------------------------------

Live(k) == k \in DOMAIN store /\ store[k].resetAt > time
LiveKeys == {k \in DOMAIN store : Live(k)}

(* Mistake: the sweep drops every window. *)
evictExpired_All(keys) == {}

(* The keys that stay in the store when it is swept. *)
evictExpired(keys) == {k \in keys : Live(k)}

Full(keys) == Cardinality(keys) >= MaxEntries

(* The keys the store holds once it has been swept, if k needs a slot that *)
(* is not there.                                                           *)
Swept(k) ==
    IF k \notin DOMAIN store /\ Full(DOMAIN store)
    THEN evictExpired(DOMAIN store) ELSE DOMAIN store

NoRoom(k) == k \notin DOMAIN store /\ Full(DOMAIN store) /\ Full(Swept(k))

(* The window a request of k falls into, a new one if the last is over. *)
windowOf(k) ==
    IF Live(k) THEN store[k] ELSE [count |-> 0, resetAt |-> time + Window]

(* The store after a request of k is counted. *)
Counted(k) ==
    [j \in Swept(k) \cup {k} |->
        IF j = k THEN [windowOf(k) EXCEPT !.count = @ + 1] ELSE store[j]]

OverQuota(k) == windowOf(k).count + 1 > MaxRequests

-----------------------------------------------------------------------------
(* createLogThrottle(): a line is written at most once per interval and    *)
(* says how many occurrences were swallowed since the last one.            *)

Granted(e) == time >= perEvent[e].nextAt

(* Mistake: a granted line keeps the count of what it already reported. *)
claim_NoReset(e) ==
    IF Granted(e) THEN [perEvent[e] EXCEPT !.nextAt = time + LogInterval]
    ELSE [perEvent[e] EXCEPT !.suppressed = @ + 1]

claim(e) ==
    IF Granted(e) THEN [nextAt |-> time + LogInterval, suppressed |-> 0]
    ELSE [perEvent[e] EXCEPT !.suppressed = @ + 1]

(* What a request of k logs, next to the given reason to refuse it. *)
Raised(k, reasons) == reasons \cup IF k = NoIp THEN {"no-trusted-ip"} ELSE {}

Log(raised) ==
    /\ \A e \in raised : occurred[e] < MaxEvents
    /\ occurred' = [e \in Events |-> occurred[e] + IF e \in raised THEN 1 ELSE 0]
    /\ perEvent' = [e \in Events |-> IF e \in raised THEN claim(e) ELSE perEvent[e]]
    /\ reported' = [e \in Events |->
         reported[e] + IF e \in raised /\ Granted(e)
                       THEN perEvent[e].suppressed + 1 ELSE 0]

-----------------------------------------------------------------------------
(* rateLimit() *)

Serve(k) ==
    /\ ~NoRoom(k) /\ ~OverQuota(k)
    /\ store' = Counted(k)
    /\ served' = [served EXCEPT ![k] = Append(@, time)]
    /\ Log(Raised(k, {}))
    /\ time' = time

RejectQuota(k) ==
    /\ ~NoRoom(k) /\ OverQuota(k)
    /\ store' = Counted(k)
    /\ Log(Raised(k, {IF k = NoIp THEN "quota:no-ip" ELSE "quota:per-ip"}))
    /\ UNCHANGED <<time, served>>

(* Every slot holds a live window: a client without one is turned away. *)
RejectCapacity(k) ==
    /\ NoRoom(k)
    /\ store' = [j \in Swept(k) |-> store[j]]
    /\ Log(Raised(k, {"capacity"}))
    /\ UNCHANGED <<time, served>>

Pass ==
    /\ time < MaxTime
    /\ time' = time + 1
    /\ UNCHANGED <<store, perEvent, served, occurred, reported>>

Init ==
    /\ time = 0
    /\ store = [k \in {} |-> 0]
    /\ perEvent = [e \in Events |-> [nextAt |-> 0, suppressed |-> 0]]
    /\ served = [k \in Keys |-> <<>>]
    /\ occurred = [e \in Events |-> 0]
    /\ reported = [e \in Events |-> 0]

Next == Pass \/ \E k \in Keys : Serve(k) \/ RejectQuota(k) \/ RejectCapacity(k)

Spec == Init /\ [][Next]_vars

-----------------------------------------------------------------------------
(* Properties. *)

Entry == [count : Nat \ {0}, resetAt : Nat]

(* Every variable keeps its type. *)
TypeOK ==
    /\ time \in 0..MaxTime
    /\ DOMAIN store \subseteq Keys
    /\ store \in [DOMAIN store -> Entry]
    /\ perEvent \in [Events -> [nextAt : Nat, suppressed : Nat]]
    /\ served \in [Keys -> Seq(0..MaxTime)]
    /\ occurred \in [Events -> Nat] /\ reported \in [Events -> Nat]

(* The store never outgrows its capacity, however many clients there are.  *)
Bounded == IsFiniteSet(DOMAIN store) /\ Cardinality(DOMAIN store) <= MaxEntries

(* No traffic of any client shortens, prolongs or resets a live window: no *)
(* unearned reset by an eviction, and no client locked out by retrying.    *)
WindowKept ==
    [][\A k \in DOMAIN store : store[k].resetAt > time' =>
         /\ k \in DOMAIN store'
         /\ store'[k].resetAt = store[k].resetAt
         /\ store'[k].count >= store[k].count]_vars

(* In any stretch of time as long as a window, at most two quotas less one *)
(* of a client's requests are passed on, whatever happens to its slot: two *)
(* quotas of them in a row take a window or longer.                        *)
QuotaHolds ==
    \A k \in Keys : \A i, j \in DOMAIN served[k] :
        j - i = 2 * MaxRequests - 1 => served[k][j] - served[k][i] >= Window

(* A throttled log never presents a flood as a single event: the lines     *)
(* written and the count still held back account for every occurrence.     *)
LogAccounts == \A e \in Events : reported[e] + perEvent[e].suppressed = occurred[e]

-----------------------------------------------------------------------------
(* Why the quota holds. *)

(* The requests passed on, in the order of time, and none ahead of it.     *)
InOrder(k) ==
    /\ \A i, j \in DOMAIN served[k] : i <= j => served[k][i] <= served[k][j]
    /\ \A i \in DOMAIN served[k] : served[k][i] <= time

(* The last quota of them began a window ago. *)
LastQuotaBy(k, n, t) ==
    \A i \in DOMAIN served[k] : i = n + 1 - MaxRequests => served[k][i] <= t - Window

(* What a window has let through of the requests it counts. *)
Passed(w) == IF w.count < MaxRequests THEN w.count ELSE MaxRequests

(* Those of a live window are the last ones; the first of them opened it,  *)
(* and the quota before it began a window earlier.                         *)
WindowFits(k) ==
    LET earlier == Len(served[k]) - Passed(store[k])
        start == store[k].resetAt - Window
    IN /\ earlier >= 0
       /\ served[k][earlier + 1] = start
       /\ LastQuotaBy(k, earlier, start)

QuotaInv ==
    \A k \in Keys :
        /\ InOrder(k)
        /\ IF Live(k) THEN WindowFits(k) ELSE LastQuotaBy(k, Len(served[k]), time)

=============================================================================
