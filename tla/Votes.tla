------------------------------- MODULE Votes -------------------------------
(***************************************************************************)
(* The votes on questions: the widget of the practice page                 *)
(* (client/src/practice/PracticeContent.vue), the requests it sends        *)
(* (client/src/services/questionVotes.ts) and the API and the table that   *)
(* answer them (server/routes/votes.mjs, server/db.mjs).                   *)
(*                                                                         *)
(* The server handles a request in steps that interleave with those of     *)
(* others: it looks up the session, writes the vote, and then reads the    *)
(* summary in a query of its own.  The page may give a request up while    *)
(* the server goes on with it.                                             *)
(***************************************************************************)
EXTENDS Integers, FiniteSets, FiniteSetsExt

CONSTANTS
    Pages, Learners, Questions,
    None,         \* nobody signed in, or no question on screen; no score loaded
    MaxToken,     \* bound: how often each page takes a new request token
    MaxFlight     \* bound: requests under way at once

ASSUME NoneAssumption == None \notin Learners \cup Int
ASSUME LearnersAssumption == IsFiniteSet(Learners)
ASSUME BoundsAssumption == MaxToken \in [Pages -> Nat] /\ MaxFlight \in Nat

Directions == {-1, 1}
Values == Directions \cup {0}

VARIABLES
    page,         \* what each page shows: learner, question, score, own vote
    vote,         \* question_votes; 0 stands for no row
    flight,       \* the requests that are not over, on the page or on the server
    \* bookkeeping
    reported,     \* the last summary from the server that each page has shown
    disturbed     \* pages whose vote was also changed by an overlapping request

vars == <<page, vote, flight, reported, disturbed>>

-----------------------------------------------------------------------------

Shows(p) == page[p].user # None

Nothing == [score |-> None, mine |-> 0]

Mutates(r, u, q) == r.op # "get" /\ r.user = u /\ r.question = q

Overlapped(u, q) == \E r \in flight : Mutates(r, u, q)

(* One query, so the score and the learner's own vote belong together. *)
getQuestionVoteSummary(u, q) ==
    [score |-> MapThenSumSet(LAMBDA v : vote[<<v, q>>], Learners), mine |-> vote[<<u, q>>]]

request(p, token, op, value, known) ==
    [page |-> p, token |-> token, user |-> page[p].user, question |-> page[p].question,
     op |-> op, value |-> value, known |-> known,
     stage |-> "sent", answer |-> Nothing, awaited |-> TRUE]

(* Mistake: an answer is shown whatever was requested since. *)
isLatest_Always(r) == TRUE

(* The answer belongs to the request the page sent last. *)
isLatest(r) == r.token = page[r.page].token

-----------------------------------------------------------------------------
(* The page. *)

(* The question or the learner changes, or the learner is looked up again: *)
(* the widget is reset and, with both there, loads its summary.  The token *)
(* is raised by the watcher and again by the load, both in one go.         *)
loadVoteSummary(p) ==
    \E u \in Learners \cup {None}, q \in Questions :
        LET token == page[p].token + 1
            shown == [user |-> u, question |-> q, score |-> None, mine |-> 0,
                      errored |-> FALSE, token |-> token]
            load == [request(p, token, "get", 0, Nothing) EXCEPT !.user = u, !.question = q]
            loads == u # None
        IN /\ u # None \/ <<u, q>> # <<page[p].user, page[p].question>>
           /\ token <= MaxToken[p] /\ (loads => Cardinality(flight) < MaxFlight)
           /\ page' = [page EXCEPT ![p] = shown]
           /\ flight' = IF loads THEN flight \cup {load} ELSE flight
           /\ reported' = [reported EXCEPT ![p] = Nothing]
           /\ disturbed' = IF loads /\ Overlapped(u, q) THEN disturbed \cup {p} ELSE disturbed \ {p}
           /\ UNCHANGED vote

(* Mistake: the vote that a click replaces stays in the score. *)
optimisticScore_Added(p, next) ==
    (IF page[p].score = None THEN 0 ELSE page[p].score) + next

clickToken(p) == page[p].token + 1

(* A score not loaded yet counts as 0. *)
optimisticScore(p, next) ==
    (IF page[p].score = None THEN 0 ELSE page[p].score) - page[p].mine + next

onVoteClick(p) ==
    \E d \in Directions :
        LET removing == page[p].mine = d
            next == IF removing THEN 0 ELSE d
            known == [score |-> page[p].score, mine |-> page[p].mine]
            u == page[p].user
            q == page[p].question
        IN /\ Shows(p)
           /\ clickToken(p) <= MaxToken[p] /\ Cardinality(flight) < MaxFlight
           /\ page' = [page EXCEPT ![p].score = optimisticScore(p, next), ![p].mine = next,
                                   ![p].errored = FALSE, ![p].token = clickToken(p)]
           /\ flight' = flight \cup
                {request(p, clickToken(p), IF removing THEN "delete" ELSE "put", next, known)}
           /\ disturbed' = disturbed
                \cup {o \in Pages \ {p} : page[o].user = u /\ page[o].question = q}
                \cup IF Overlapped(u, q) THEN {p} ELSE {}
           /\ UNCHANGED <<vote, reported>>

Answer(r) ==
    /\ r.awaited /\ r.stage = "answered"
    /\ flight' = flight \ {r}
    /\ IF isLatest(r)
       THEN /\ page' = [page EXCEPT ![r.page].score = r.answer.score, ![r.page].mine = r.answer.mine]
            /\ reported' = [reported EXCEPT ![r.page] = r.answer]
       ELSE UNCHANGED <<page, reported>>
    /\ UNCHANGED <<vote, disturbed>>

(* A click goes back to what was shown before it, a load to nothing. *)
rolledBack(s, r) ==
    [s EXCEPT !.score = r.known.score, !.mine = r.known.mine, !.errored = TRUE]

(* The request is refused, for want of a session or as a question unknown  *)
(* to the server, or its answer does not come.  In the latter case the     *)
(* server may still go on with the vote.                                   *)
Fail(r) ==
    /\ r.awaited
    /\ \/ r.stage \in {"sent", "answered"} /\ flight' = flight \ {r}
       \/ /\ r.op # "get" /\ r.stage \in {"sent", "admitted"}
          /\ flight' = (flight \ {r}) \cup {[r EXCEPT !.awaited = FALSE]}
    /\ page' = IF isLatest(r) THEN [page EXCEPT ![r.page] = rolledBack(@, r)] ELSE page
    /\ UNCHANGED <<vote, reported, disturbed>>

-----------------------------------------------------------------------------
(* The server. *)

(* requireUser() and isKnownQuestionId() let the request through. *)
Admit(r) ==
    /\ r.stage = "sent"
    /\ flight' = (flight \ {r}) \cup
         {[r EXCEPT !.stage = IF r.op = "get" THEN "written" ELSE "admitted"]}
    /\ UNCHANGED <<page, vote, reported, disturbed>>

(* They refuse one nobody waits for any more. *)
RefuseUnawaited(r) ==
    /\ r.stage = "sent" /\ ~ r.awaited
    /\ flight' = flight \ {r}
    /\ UNCHANGED <<page, vote, reported, disturbed>>

(* The unique row of the learner and the question is inserted or updated. *)
upsertQuestionVote(u, q, value) == [vote EXCEPT ![<<u, q>>] = value]

deleteQuestionVote(u, q) == [vote EXCEPT ![<<u, q>>] = 0]

Write(r) ==
    /\ r.stage = "admitted"
    /\ vote' = IF r.op = "put" THEN upsertQuestionVote(r.user, r.question, r.value)
                               ELSE deleteQuestionVote(r.user, r.question)
    /\ flight' = (flight \ {r}) \cup IF r.awaited THEN {[r EXCEPT !.stage = "written"]} ELSE {}
    /\ UNCHANGED <<page, reported, disturbed>>

Summarise(r) ==
    /\ r.stage = "written"
    /\ flight' = (flight \ {r}) \cup
         {[r EXCEPT !.stage = "answered", !.answer = getQuestionVoteSummary(r.user, r.question)]}
    /\ UNCHANGED <<page, vote, reported, disturbed>>

-----------------------------------------------------------------------------

Init ==
    /\ page \in [Pages -> [user : {None}, question : Questions, score : {None}, mine : {0},
                           errored : {FALSE}, token : {0}]]
    /\ vote = [l \in Learners \X Questions |-> 0]
    /\ flight = {}
    /\ reported = [p \in Pages |-> Nothing]
    /\ disturbed = {}

Next ==
    \/ \E p \in Pages : loadVoteSummary(p) \/ onVoteClick(p)
    \/ \E r \in flight : Answer(r) \/ Fail(r) \/ Admit(r) \/ RefuseUnawaited(r)
                           \/ Write(r) \/ Summarise(r)

Spec == Init /\ [][Next]_vars

-----------------------------------------------------------------------------
(* Properties. *)

(* Every variable keeps its type. *)
Summaries == [score : Int \cup {None}, mine : Values]
Requests == [page : Pages, token : Nat, user : Learners, question : Questions,
             op : {"get", "put", "delete"}, value : Values, known : Summaries,
             stage : {"sent", "admitted", "written", "answered"},
             answer : Summaries, awaited : BOOLEAN]
TypeOK ==
    /\ page \in [Pages -> [user : Learners \cup {None}, question : Questions,
                           score : Int \cup {None}, mine : Values, errored : BOOLEAN,
                           token : Nat]]
    /\ vote \in [Learners \X Questions -> Values]
    /\ flight \subseteq Requests
    /\ reported \in [Pages -> Summaries]
    /\ disturbed \subseteq Pages

(* Nothing the page asked for last is still under way. *)
Quiet(p) == \A r \in flight : ~ (r.page = p /\ r.awaited /\ isLatest(r))

(* Once the page has its answer, the vote it shows as the learner's own is *)
(* the one in the table, for the learner and the question on screen, in    *)
(* whatever order answers came and however often the question changed      *)
(* meanwhile: unless a request failed, which the widget shows, or another  *)
(* change of the same vote overlapped (voteRequestToken).                  *)
WidgetAgrees ==
    \A p \in Pages :
        Shows(p) /\ Quiet(p) /\ ~ page[p].errored /\ page[p].score # None /\ p \notin disturbed
            => page[p].mine = vote[<<page[p].user, page[p].question>>]

(* The score on screen is the learner's vote on screen and at most one     *)
(* vote of each other learner, through any number of clicks, failures and  *)
(* late answers: no vote is counted twice (onVoteClick's arithmetic).      *)
OwnVoteCountedOnce ==
    \A p \in Pages :
        page[p].score # None =>
            LET others == page[p].score - page[p].mine
                n == Cardinality(Learners) - 1
            IN others >= -n /\ others <= n

(* "a failed request rolls back to the last known-good summary from the    *)
(* server rather than leaving an optimistic value that never actually      *)
(* landed" (onVoteClick).                                                  *)
RollsBackToKnownGood ==
    \A p \in Pages :
        page[p].errored => reported[p] = [score |-> page[p].score, mine |-> page[p].mine]

=============================================================================
