----------------------------- MODULE VotesProofs -----------------------------
(***************************************************************************)
(* Proofs about Votes, for any pages, learners and questions and any       *)
(* number of requests: the widget ends up showing the vote in the table,   *)
(* and its score counts no vote twice.                                     *)
(***************************************************************************)
EXTENDS Votes, FiniteSetTheorems, WellFoundedInduction, TLAPS

(* The fields of a page and of a request; scores may be anything. *)
Shown(s) ==
    /\ s = [user |-> s.user, question |-> s.question, score |-> s.score, mine |-> s.mine,
            errored |-> s.errored, token |-> s.token]
    /\ s.user \in Learners \cup {None} /\ s.question \in Questions
    /\ s.token \in Nat

Request(r) ==
    /\ r = [page |-> r.page, token |-> r.token, user |-> r.user, question |-> r.question,
            op |-> r.op, value |-> r.value, known |-> r.known,
            stage |-> r.stage, answer |-> r.answer, awaited |-> r.awaited]
    /\ r.page \in Pages /\ r.token \in Nat /\ r.user \in Learners /\ r.question \in Questions
    /\ r.value \in Values

Shapes ==
    /\ page = [p \in Pages |-> page[p]] /\ \A p \in Pages : Shown(page[p])
    /\ vote \in [Learners \X Questions -> Values]
    /\ \A r \in flight : Request(r)
    /\ disturbed \subseteq Pages

(* A token names one request of its page, and never a later one. *)
Tokens ==
    /\ \A r \in flight : r.token <= page[r.page].token
    /\ \A r, s \in flight : r.page = s.page /\ r.token = s.token => r = s

(* The latest request of a page is about what the page shows; if the page  *)
(* has given it up, it says so.                                            *)
LatestFits ==
    \A r \in flight : isLatest(r) =>
        /\ r.user = page[r.page].user /\ r.question = page[r.page].question
        /\ r.awaited \/ page[r.page].errored

(* Unless disturbed, the vote a page shows can only be changed by its own  *)
(* latest request,                                                         *)
OnlyOwn ==
    \A p \in Pages \ disturbed : \A r \in flight :
        Shows(p) /\ Mutates(r, page[p].user, page[p].question) => r.page = p /\ isLatest(r)

(* and a summary read for it stays true. *)
Fresh ==
    \A r \in flight :
        isLatest(r) /\ r.page \notin disturbed /\ r.stage = "answered" =>
            r.answer.mine = vote[<<r.user, r.question>>]

(* A read writes nothing. *)
OpsInv == \A r \in flight : r.stage = "admitted" => r.op # "get"

IInv == OpsInv /\ Shapes /\ Tokens /\ LatestFits /\ OnlyOwn /\ Fresh /\ WidgetAgrees

USE DEF vars

-----------------------------------------------------------------------------

LEMMA OpsStay == ASSUME OpsInv, flight' \subseteq flight PROVE OpsInv'
  BY DEF OpsInv

LEMMA ShownFirst ==
  ASSUME NEW s \in [user : {None}, question : Questions, score : {None}, mine : {0},
                    errored : {FALSE}, token : {0}]
  PROVE  Shown(s) /\ s.score = None
  BY DEF Shown

LEMMA InitHolds == Init => IInv
  <1> SUFFICES ASSUME Init PROVE IInv
    OBVIOUS
  <1>1. ASSUME NEW p \in Pages
        PROVE  Shown(page[p]) /\ page[p].score = None
    BY ShownFirst DEF Init
  <1>2. Shapes
    BY <1>1 DEF Init, Shapes, Values, Directions
  <1>3. WidgetAgrees
    BY <1>1 DEF WidgetAgrees
  <1>4. QED
    BY <1>2, <1>3 DEF Init, IInv, OpsInv, Tokens, LatestFits, OnlyOwn, Fresh

(* A request t that is r at a later stage. *)
Same(t, r) ==
    /\ t.page = r.page /\ t.token = r.token /\ t.user = r.user /\ t.question = r.question
    /\ t.op = r.op /\ t.awaited = r.awaited

(* What a change of some fields leaves of the others. *)
rescored(s, x, m) == [s EXCEPT !.score = x, !.mine = m]
givenUp(r) == [r EXCEPT !.awaited = FALSE]

LEMMA RescoredShows ==
  ASSUME NEW s, Shown(s), NEW x, NEW m
  PROVE  /\ Shown(rescored(s, x, m)) /\ rescored(s, x, m).user = s.user
         /\ rescored(s, x, m).question = s.question /\ rescored(s, x, m).mine = m
         /\ rescored(s, x, m).errored = s.errored /\ rescored(s, x, m).token = s.token
  <1> DEFINE a == [s EXCEPT !.score = x]
             t == rescored(s, x, m)
  <1>1. a = [user |-> s.user, question |-> s.question, score |-> x, mine |-> s.mine,
             errored |-> s.errored, token |-> s.token]
    BY DEF Shown
  <1>2. t = [a EXCEPT !.mine = m]
    BY DEF rescored
  <1> HIDE DEF a, t
  <1>3. t = [user |-> s.user, question |-> s.question, score |-> x, mine |-> m,
             errored |-> s.errored, token |-> s.token]
    BY <1>1, <1>2
  <1>4. Shown(t) /\ t.user = s.user /\ t.question = s.question /\ t.mine = m
        /\ t.errored = s.errored /\ t.token = s.token
    BY <1>3 DEF Shown
  <1>5. QED
    BY <1>4 DEF t

LEMMA RolledBackShows ==
  ASSUME NEW s, Shown(s), NEW r
  PROVE  /\ Shown(rolledBack(s, r)) /\ rolledBack(s, r).user = s.user
         /\ rolledBack(s, r).question = s.question
         /\ rolledBack(s, r).errored = TRUE /\ rolledBack(s, r).token = s.token
  <1> DEFINE a == rescored(s, r.known.score, r.known.mine)
             t == rolledBack(s, r)
  <1>1. Shown(a) /\ a.user = s.user /\ a.question = s.question /\ a.token = s.token
    BY RescoredShows
  <1>2. t = [a EXCEPT !.errored = TRUE]
    BY DEF rolledBack, rescored
  <1> HIDE DEF a, t
  <1>3. t = [user |-> a.user, question |-> a.question, score |-> a.score, mine |-> a.mine,
             errored |-> TRUE, token |-> a.token]
    BY <1>1, <1>2 DEF Shown
  <1>4. Shown(t) /\ t.user = a.user /\ t.question = a.question /\ t.errored = TRUE /\ t.token = a.token
    BY <1>1, <1>3 DEF Shown
  <1>5. QED
    BY <1>1, <1>4 DEF t

LEMMA GivenUpFits ==
  ASSUME NEW r, Request(r)
  PROVE  /\ Request(givenUp(r)) /\ givenUp(r).awaited = FALSE /\ givenUp(r).stage = r.stage
         /\ givenUp(r).page = r.page /\ givenUp(r).token = r.token /\ givenUp(r).user = r.user
         /\ givenUp(r).question = r.question /\ givenUp(r).op = r.op
  <1> DEFINE t == givenUp(r)
             no == FALSE
  <1>0. t = [r EXCEPT !.awaited = no]
    BY DEF givenUp
  <1> HIDE DEF t, no
  <1>1. t = [page |-> r.page, token |-> r.token, user |-> r.user, question |-> r.question,
             op |-> r.op, value |-> r.value, known |-> r.known,
             stage |-> r.stage, answer |-> r.answer, awaited |-> no]
    BY <1>0 DEF Request
  <1>2. /\ Request(t) /\ t.awaited = no /\ t.stage = r.stage /\ t.page = r.page
        /\ t.token = r.token /\ t.user = r.user /\ t.question = r.question /\ t.op = r.op
    BY <1>1 DEF Request
  <1>3. QED
    BY <1>2 DEF t, no

LEMMA Answered ==
  ASSUME NEW r, Request(r), NEW y
  PROVE  LET t == [r EXCEPT !.stage = "answered", !.answer = y]
         IN  Request(t) /\ Same(t, r) /\ t.answer = y /\ t.stage = "answered"
  <1> DEFINE a == [r EXCEPT !.stage = "answered"]
             t == [r EXCEPT !.stage = "answered", !.answer = y]
  <1>1. Request(a) /\ Same(a, r) /\ a.stage = "answered"
    BY DEF Request, Same
  <1>2. t = [a EXCEPT !.answer = y]
    OBVIOUS
  <1> HIDE DEF a, t
  <1>3. t = [page |-> a.page, token |-> a.token, user |-> a.user, question |-> a.question,
             op |-> a.op, value |-> a.value, known |-> a.known,
             stage |-> a.stage, answer |-> y, awaited |-> a.awaited]
    BY <1>1, <1>2 DEF Request
  <1>4. QED
    BY <1>1, <1>3 DEF Request, Same, t

(* The server takes a step with r, which becomes t or, given up, is over;  *)
(* it may change the vote r is about, before r is answered.                *)
LEMMA ServerKeeps ==
  ASSUME IInv, NEW r \in flight, NEW t, Request(t), Same(t, r),
         UNCHANGED <<page, disturbed>>,
         \/ flight' = (flight \ {r}) \cup {t}
         \/ flight' = flight \ {r} /\ ~ r.awaited,
         vote' \in [Learners \X Questions -> Values],
         \/ vote' = vote
         \/ /\ r.stage = "admitted" /\ r.op # "get" /\ t.stage # "answered"
            /\ \A u \in Learners, q \in Questions :
                  vote'[<<u, q>>] # vote[<<u, q>>] => u = r.user /\ q = r.question,
         t.stage = "admitted" => t.op # "get",
         t.stage = "answered" => t.answer.mine = vote[<<r.user, r.question>>] \/ t = r
  PROVE  IInv'
  <1>0. /\ Request(r) /\ \A s \in flight' : s = t \/ (s \in flight /\ s # r)
        /\ \A s \in flight' : Request(s)
        /\ isLatest(r)' = isLatest(r) /\ isLatest(t)' = isLatest(r)
        /\ \A s \in flight : isLatest(s)' = isLatest(s)
        /\ \A p \in Pages : Shows(p)' = Shows(p)
    BY DEF IInv, Shapes, isLatest, Same, Shows
  <1>1. Shapes'
    BY <1>0 DEF IInv, Shapes
  <1>2. Tokens'
    BY <1>0 DEF IInv, Tokens, Same
  <1>3. LatestFits'
    BY <1>0 DEF IInv, LatestFits, Same
  <1>4. OnlyOwn'
    BY <1>0 DEF IInv, OnlyOwn, Same, Mutates
  <1>5. ASSUME NEW p \in Pages \ disturbed, Shows(p), vote' # vote,
               vote'[<<page[p].user, page[p].question>>] # vote[<<page[p].user, page[p].question>>]
        PROVE  r.page = p /\ isLatest(r) /\ r.stage = "admitted"
    <2>1. page[p].user \in Learners /\ page[p].question \in Questions
      BY <1>5 DEF IInv, Shapes, Shown, Shows
    <2>2. Mutates(r, page[p].user, page[p].question) /\ r.stage = "admitted"
      BY <1>5, <2>1 DEF Mutates
    <2>3. QED
      BY <1>5, <2>2 DEF IInv, OnlyOwn
  <1>6. Fresh'
    <2> SUFFICES ASSUME NEW s \in flight', isLatest(s)', s.page \notin disturbed, s.stage = "answered"
                 PROVE  s.answer.mine = vote'[<<s.user, s.question>>]
      BY DEF Fresh
    <2>1. CASE s = t
      BY <1>0, <2>1 DEF IInv, Fresh, Same
    <2>2. CASE s \in flight /\ s # r
      <3>1. /\ s.answer.mine = vote[<<s.user, s.question>>] /\ isLatest(s)
            /\ s.user = page[s.page].user /\ s.question = page[s.page].question
            /\ s.page \in Pages \ disturbed /\ s.user \in Learners
        BY <1>0, <2>2 DEF IInv, Fresh, LatestFits, Request
      <3>2. Shows(s.page)
        BY <3>1, NoneAssumption DEF Shows
      <3>3. CASE vote'[<<s.user, s.question>>] # vote[<<s.user, s.question>>]
        <4>1. r.page = s.page /\ isLatest(r)
          BY <1>5, <3>1, <3>2, <3>3
        <4>2. QED
          BY <2>2, <3>1, <4>1 DEF IInv, Tokens, isLatest
      <3>4. QED
        BY <3>1, <3>3
    <2>3. QED
      BY <1>0, <2>1, <2>2
  <1>7. WidgetAgrees'
    <2> SUFFICES ASSUME NEW p \in Pages, Shows(p), Quiet(p)', ~ page[p].errored,
                        page[p].score # None, p \notin disturbed
                 PROVE  page[p].mine = vote'[<<page[p].user, page[p].question>>]
      BY <1>0 DEF WidgetAgrees
    <2>1. ~ (r.page = p /\ r.awaited /\ isLatest(r))
      BY <1>0 DEF Quiet, Same
    <2>2. Quiet(p)
      BY <1>0, <2>1 DEF Quiet
    <2>3. page[p].mine = vote[<<page[p].user, page[p].question>>]
      BY <2>2 DEF IInv, WidgetAgrees
    <2>4. ~ (r.page = p /\ isLatest(r))
      BY <2>1 DEF IInv, LatestFits
    <2>5. QED
      BY <1>5, <2>3, <2>4
  <1>8. OpsInv'
    BY <1>0 DEF IInv, OpsInv
  <1>9. QED
    BY <1>1, <1>2, <1>3, <1>4, <1>6, <1>7, <1>8 DEF IInv

LEMMA AdmitKeeps == ASSUME IInv, NEW r \in flight, Admit(r) \/ RefuseUnawaited(r) PROVE IInv'
  <1> DEFINE t == [r EXCEPT !.stage = IF r.op = "get" THEN "written" ELSE "admitted"]
  <1>1. Request(r)
    BY DEF IInv, Shapes
  <1>2. Request(t) /\ Same(t, r) /\ t.stage # "answered" /\ (t.stage = "admitted" => t.op # "get")
    BY <1>1 DEF Request, Same
  <1>3. CASE Admit(r)
    BY <1>2, <1>3, ServerKeeps DEF Admit, IInv, Shapes
  <1>4. CASE RefuseUnawaited(r)
    BY <1>2, <1>4, ServerKeeps DEF RefuseUnawaited, IInv, Shapes
  <1>5. QED
    BY <1>3, <1>4

LEMMA WriteKeeps == ASSUME IInv, NEW r \in flight, Write(r) PROVE IInv'
  <1> DEFINE t == [r EXCEPT !.stage = "written"]
             v == IF r.op = "put" THEN r.value ELSE 0
  <1>1. Request(r)
    BY DEF IInv, Shapes
  <1>2. Request(t) /\ Same(t, r) /\ t.stage = "written"
    BY <1>1 DEF Request, Same
  <1>3. v \in Values /\ vote' = [vote EXCEPT ![<<r.user, r.question>>] = v]
    BY <1>1 DEF Write, upsertQuestionVote, deleteQuestionVote, Request, Values
  <1>4. r.op # "get"
    BY DEF Write, IInv, OpsInv
  <1>5. /\ vote' \in [Learners \X Questions -> Values]
        /\ \A u \in Learners, q \in Questions :
              vote'[<<u, q>>] # vote[<<u, q>>] => u = r.user /\ q = r.question
    BY <1>1, <1>3 DEF IInv, Shapes, Request
  <1>6. QED
    BY <1>2, <1>4, <1>5, ServerKeeps DEF Write

LEMMA SummariseKeeps == ASSUME IInv, NEW r \in flight, Summarise(r) PROVE IInv'
  <1> DEFINE t == [r EXCEPT !.stage = "answered", !.answer = getQuestionVoteSummary(r.user, r.question)]
  <1>1. Request(r)
    BY DEF IInv, Shapes
  <1>2. /\ Request(t) /\ Same(t, r) /\ t.answer = getQuestionVoteSummary(r.user, r.question)
        /\ t.stage = "answered"
    BY <1>1, Answered, Zenon
  <1>3. t.answer.mine = vote[<<r.user, r.question>>]
    BY <1>2 DEF getQuestionVoteSummary
  <1>4. QED
    BY <1>2, <1>3, ServerKeeps DEF Summarise, IInv, Shapes

-----------------------------------------------------------------------------
(* The steps of a page. *)

LEMMA AnswerKeeps == ASSUME IInv, NEW r \in flight, Answer(r) PROVE IInv'
  <1> DEFINE o == r.page
             s == rescored(page[o], r.answer.score, r.answer.mine)
  <1>0. /\ Request(r) /\ o \in Pages /\ Shown(page[o]) /\ r.awaited /\ r.stage = "answered"
        /\ flight' = flight \ {r} /\ vote' = vote /\ disturbed' = disturbed
    BY DEF IInv, Shapes, Request, Answer
  <1>1. /\ Shown(s) /\ s.user = page[o].user /\ s.question = page[o].question
        /\ s.errored = page[o].errored /\ s.token = page[o].token /\ s.mine = r.answer.mine
    BY <1>0, RescoredShows
  <1>2. page' = IF isLatest(r) THEN [page EXCEPT ![o] = s] ELSE page
    BY DEF Answer, rescored
  <1> HIDE DEF s
  <1>3. /\ page' = [p \in Pages |-> page'[p]]
        /\ \A p \in Pages : /\ Shown(page'[p])
                            /\ page'[p].user = page[p].user /\ page'[p].question = page[p].question
                            /\ page'[p].errored = page[p].errored /\ page'[p].token = page[p].token
                            /\ p # o \/ ~ isLatest(r) => page'[p] = page[p]
                            /\ p = o /\ isLatest(r) => page'[p].mine = r.answer.mine
    BY <1>0, <1>1, <1>2 DEF IInv, Shapes
  <1>4. /\ \A t \in flight : isLatest(t)' = isLatest(t) /\ t.page \in Pages
        /\ \A p \in Pages : Shows(p)' = Shows(p)
    BY <1>3 DEF isLatest, Shows, IInv, Shapes, Request
  <1>5. Shapes'
    BY <1>0, <1>3 DEF IInv, Shapes
  <1>6. Tokens'
    BY <1>0, <1>3, <1>4 DEF IInv, Tokens
  <1>7. LatestFits'
    BY <1>0, <1>3, <1>4 DEF IInv, LatestFits
  <1>8. OnlyOwn'
    BY <1>0, <1>3, <1>4 DEF IInv, OnlyOwn, Mutates
  <1>9. Fresh'
    BY <1>0, <1>3, <1>4 DEF IInv, Fresh
  <1>10. WidgetAgrees'
    <2> SUFFICES ASSUME NEW p \in Pages, Shows(p)', Quiet(p)', ~ page'[p].errored,
                        page'[p].score # None, p \notin disturbed
                 PROVE  page'[p].mine = vote[<<page[p].user, page[p].question>>]
      BY <1>0, <1>3 DEF WidgetAgrees
    <2>1. CASE p = o /\ isLatest(r)
      BY <1>0, <1>3, <2>1 DEF IInv, Fresh, LatestFits
    <2>2. CASE p # o \/ ~ isLatest(r)
      <3>1. Quiet(p)
        BY <1>0, <1>4, <2>2 DEF Quiet
      <3>2. QED
        BY <1>3, <1>4, <2>2, <3>1 DEF IInv, WidgetAgrees
    <2>3. QED
      BY <2>1, <2>2
  <1>11. QED
    BY <1>0, <1>5, <1>6, <1>7, <1>8, <1>9, <1>10, OpsStay DEF IInv

LEMMA FailKeeps == ASSUME IInv, NEW r \in flight, Fail(r) PROVE IInv'
  <1> DEFINE o == r.page
             t == givenUp(r)
             s == rolledBack(page[o], r)
  <1>a. Request(r) /\ o \in Pages /\ Shown(page[o])
    BY DEF IInv, Shapes, Request
  <1>b. /\ r.awaited /\ vote' = vote /\ disturbed' = disturbed
        /\ \/ flight' = flight \ {r}
           \/ flight' = (flight \ {r}) \cup {t} /\ r.stage \in {"sent", "admitted"}
        /\ page' = IF isLatest(r) THEN [page EXCEPT ![o] = s] ELSE page
    BY DEF Fail, givenUp
  <1>0. /\ Request(r) /\ o \in Pages /\ Shown(page[o]) /\ r.awaited
        /\ vote' = vote /\ disturbed' = disturbed
        /\ \/ flight' = flight \ {r}
           \/ flight' = (flight \ {r}) \cup {t} /\ r.stage # "answered"
    BY <1>a, <1>b
  <1>1. /\ Shown(s) /\ s.user = page[o].user /\ s.question = page[o].question
        /\ s.errored = TRUE /\ s.token = page[o].token
    BY <1>0, RolledBackShows
  <1>2. /\ Request(t) /\ t.page = o /\ t.token = r.token /\ t.user = r.user /\ t.question = r.question
        /\ t.op = r.op /\ t.stage = r.stage /\ ~ t.awaited
    BY <1>0, GivenUpFits
  <1> HIDE DEF s, t
  <1>3. /\ page' = [p \in Pages |-> page'[p]]
        /\ \A p \in Pages : /\ Shown(page'[p])
                            /\ page'[p].user = page[p].user /\ page'[p].question = page[p].question
                            /\ page'[p].token = page[p].token
                            /\ p # o \/ ~ isLatest(r) => page'[p] = page[p]
                            /\ p = o /\ isLatest(r) => page'[p].errored
                            /\ page[p].errored => page'[p].errored
    BY <1>b, <1>0, <1>1, <1>2 DEF IInv, Shapes
  <1>4. /\ \A x \in flight : isLatest(x)' = isLatest(x) /\ x.page \in Pages
        /\ isLatest(t)' = isLatest(r)
        /\ \A p \in Pages : Shows(p)' = Shows(p)
        /\ \A x \in flight' : (x \in flight /\ x # r) \/ (x = t /\ r.stage # "answered")
    BY <1>0, <1>2, <1>3 DEF isLatest, Shows, IInv, Shapes, Request
  <1>5. Shapes'
    BY <1>0, <1>2, <1>3, <1>4 DEF IInv, Shapes
  <1>6. Tokens'
    BY <1>0, <1>2, <1>3, <1>4 DEF IInv, Tokens
  <1>7. LatestFits'
    BY <1>0, <1>2, <1>3, <1>4 DEF IInv, LatestFits
  <1>8. OnlyOwn'
    BY <1>0, <1>2, <1>3, <1>4 DEF IInv, OnlyOwn, Mutates
  <1>9. Fresh'
    BY <1>0, <1>2, <1>3, <1>4 DEF IInv, Fresh
  <1>10. WidgetAgrees'
    <2> SUFFICES ASSUME NEW p \in Pages, Shows(p)', Quiet(p)', ~ page'[p].errored,
                        page'[p].score # None, p \notin disturbed
                 PROVE  page'[p].mine = vote[<<page[p].user, page[p].question>>]
      BY <1>0, <1>3 DEF WidgetAgrees
    <2>1. p # o \/ ~ isLatest(r)
      BY <1>3
    <2>2. Quiet(p)
      BY <1>0, <1>4, <2>1 DEF Quiet
    <2>3. QED
      BY <1>3, <1>4, <2>1, <2>2 DEF IInv, WidgetAgrees
  <1>11. OpsInv'
    BY <1>2, <1>4 DEF IInv, OpsInv
  <1>12. QED
    BY <1>5, <1>6, <1>7, <1>8, <1>9, <1>10, <1>11 DEF IInv

(* A page shows s with a new token and sends the requests N, one or none;  *)
(* a click, below, sends one.                                              *)
LEMMA TokenKeeps ==
  ASSUME IInv, NEW o \in Pages, NEW s, Shown(s), s.token = page[o].token + 1,
         page' = [page EXCEPT ![o] = s], vote' = vote, disturbed' \subseteq Pages,
         NEW N, flight' = flight \cup N,
         \A n \in N : /\ Request(n) /\ n.page = o /\ n.token = s.token /\ n.stage = "sent" /\ n.awaited
                      /\ n.user = s.user /\ n.question = s.question,
         \A m, n \in N : m = n,
         N = {} => s.score = None,
         \A p \in Pages \ disturbed' :
            /\ p = o => s.user = None \/ ~ Overlapped(s.user, s.question)
            /\ p # o => p \notin disturbed
            /\ p # o => \A n \in N : ~ Mutates(n, page[p].user, page[p].question)
  PROVE  IInv'
  <1>1. /\ page' = [p \in Pages |-> page'[p]]
        /\ page'[o] = s /\ \A p \in Pages \ {o} : page'[p] = page[p]
        /\ \A p \in Pages : Shown(page'[p]) /\ Shown(page[p])
    BY DEF IInv, Shapes
  <1>2. /\ \A x \in flight : /\ x.page = o => x.token < s.token /\ ~ isLatest(x)'
                             /\ x.page # o => isLatest(x)' = isLatest(x)
        /\ \A n \in N : isLatest(n)'
    <2>1. ASSUME NEW x \in flight
          PROVE  /\ x.page = o => x.token < s.token
                 /\ x.page \in Pages
      BY <1>1, <2>1 DEF IInv, Shapes, Request, Tokens, Shown
    <2>2. \A x \in flight : x.page = o => x.token # s.token
      BY <2>1 DEF IInv, Shapes, Request, Shown
    <2>3. QED
      BY <1>1, <2>1, <2>2 DEF isLatest
  <1>3. Shapes'
    BY <1>1 DEF IInv, Shapes
  <1>4. Tokens'
    <2>2. \A x \in flight : x.page \in Pages /\ x.token \in Nat
      BY DEF IInv, Shapes, Request
    <2>3. s.token \in Nat
      BY DEF Shown
    <2>4. \A x \in flight' : x.token <= page'[x.page].token
      BY <1>1, <1>2, <2>2, <2>3 DEF IInv, Tokens
    <2>5. \A x \in flight, n \in N : ~ (x.page = n.page /\ x.token = n.token)
      BY <1>2, <2>2, <2>3
    <2>6. \A x, y \in flight' : x.page = y.page /\ x.token = y.token => x = y
      BY <2>5 DEF IInv, Tokens
    <2>7. QED
      BY <2>4, <2>6 DEF Tokens
  <1>5. LatestFits'
    BY <1>1, <1>2 DEF IInv, LatestFits, Shapes, Request
  <1>6. OnlyOwn'
    <2> SUFFICES ASSUME NEW p \in Pages \ disturbed', NEW x \in flight', Shows(p)',
                        Mutates(x, page'[p].user, page'[p].question)
                 PROVE  x.page = p /\ isLatest(x)'
      BY DEF OnlyOwn, Mutates
    <2>1. CASE p = o
      <3>1. x \notin flight
        BY <1>1, <2>1 DEF Overlapped, Shows
      <3>2. QED
        BY <1>2, <2>1, <3>1
    <2>2. CASE p # o
      <3>1. x \in flight /\ Shows(p) /\ p \notin disturbed
        BY <1>1, <2>2 DEF Shows
      <3>2. x.page = p /\ isLatest(x)
        BY <1>1, <2>2, <3>1 DEF IInv, OnlyOwn
      <3>3. QED
        BY <1>2, <2>2, <3>1, <3>2
    <2>3. QED
      BY <2>1, <2>2
  <1>7. Fresh'
    <2> SUFFICES ASSUME NEW x \in flight', isLatest(x)', x.page \notin disturbed', x.stage = "answered"
                 PROVE  x.answer.mine = vote[<<x.user, x.question>>]
      BY DEF Fresh
    <2>1. x \in flight /\ x.page # o /\ x.page \in Pages
      BY <1>2 DEF IInv, Shapes, Request
    <2>2. QED
      BY <1>2, <2>1 DEF IInv, Fresh
  <1>8. WidgetAgrees'
    <2> SUFFICES ASSUME NEW p \in Pages, Shows(p)', Quiet(p)', ~ page'[p].errored,
                        page'[p].score # None, p \notin disturbed'
                 PROVE  page'[p].mine = vote[<<page'[p].user, page'[p].question>>]
      BY DEF WidgetAgrees
    <2>1. p # o
      BY <1>1, <1>2 DEF Quiet
    <2>2. Quiet(p) /\ Shows(p) /\ p \notin disturbed
      BY <1>1, <1>2, <2>1 DEF Quiet, Shows
    <2>3. QED
      BY <1>1, <2>1, <2>2 DEF IInv, WidgetAgrees
  <1>9. OpsInv'
    BY DEF IInv, OpsInv
  <1>10. QED
    BY <1>3, <1>4, <1>5, <1>6, <1>7, <1>8, <1>9 DEF IInv

(* The request that a step of page o sends for the learner and the question*)
(* it is about.                                                            *)
Sent(n, o, token, op, u, q) ==
    /\ Request(n) /\ n.page = o /\ n.token = token /\ n.op = op
    /\ n.user = u /\ n.question = q /\ n.stage = "sent" /\ n.awaited

LEMMA RequestIsSent ==
  ASSUME NEW o \in Pages, NEW token \in Nat, NEW op, NEW v \in Values, NEW known,
         page[o].user \in Learners, page[o].question \in Questions
  PROVE  Sent(request(o, token, op, v, known), o, token, op, page[o].user, page[o].question)
  <1> DEFINE n == request(o, token, op, v, known)
             yes == TRUE
  <1>1. n = [page |-> o, token |-> token, user |-> page[o].user, question |-> page[o].question,
             op |-> op, value |-> v, known |-> known,
             stage |-> "sent", answer |-> Nothing, awaited |-> yes]
    BY DEF request
  <1>2. yes = TRUE
    OBVIOUS
  <1> HIDE DEF n, yes
  <1>3. Sent(n, o, token, op, page[o].user, page[o].question)
    BY <1>1, <1>2 DEF Sent, Request
  <1>4. QED
    BY <1>3 DEF n

LEMMA LoadIsSent ==
  ASSUME NEW o \in Pages, NEW token \in Nat, NEW u \in Learners, NEW q \in Questions
  PROVE  Sent([request(o, token, "get", 0, Nothing) EXCEPT !.user = u, !.question = q],
              o, token, "get", u, q)
  <1> DEFINE n == [request(o, token, "get", 0, Nothing) EXCEPT !.user = u, !.question = q]
             b == request(o, token, "get", 0, Nothing)
             a == [b EXCEPT !.user = u]
             yes == TRUE
  <1>0. b = [page |-> o, token |-> token, user |-> page[o].user, question |-> page[o].question,
             op |-> "get", value |-> 0, known |-> Nothing,
             stage |-> "sent", answer |-> Nothing, awaited |-> yes]
    BY DEF request
  <1>2. n = [a EXCEPT !.question = q]
    OBVIOUS
  <1>3. yes = TRUE
    OBVIOUS
  <1> HIDE DEF b, yes
  <1>1. a = [page |-> o, token |-> token, user |-> u, question |-> page[o].question,
             op |-> "get", value |-> 0, known |-> Nothing,
             stage |-> "sent", answer |-> Nothing, awaited |-> yes]
    BY <1>0
  <1> HIDE DEF n, a
  <1>4. n = [page |-> o, token |-> token, user |-> u, question |-> q,
             op |-> "get", value |-> 0, known |-> Nothing,
             stage |-> "sent", answer |-> Nothing, awaited |-> yes]
    BY <1>1, <1>2
  <1>5. Sent(n, o, token, "get", u, q)
    BY <1>3, <1>4 DEF Sent, Request, Values
  <1>6. QED
    BY <1>5 DEF n

LEMMA OneTokenKeeps ==
  ASSUME IInv, NEW o \in Pages, NEW s, Shown(s), s.token = page[o].token + 1,
         page' = [page EXCEPT ![o] = s], vote' = vote, disturbed' \subseteq Pages,
         NEW r, flight' = flight \cup {r},
         Request(r), r.page = o, r.token = s.token, r.stage = "sent", r.awaited,
         r.user = s.user, r.question = s.question,
         \A p \in Pages \ disturbed' :
            /\ p = o => s.user = None \/ ~ Overlapped(s.user, s.question)
            /\ p # o => p \notin disturbed
            /\ p # o => ~ Mutates(r, page[p].user, page[p].question)
  PROVE  IInv'
  <1> DEFINE N == {r}
  <1>1. /\ flight' = flight \cup N
        /\ \A n \in N : /\ Request(n) /\ n.page = o /\ n.token = s.token /\ n.stage = "sent" /\ n.awaited
                         /\ n.user = s.user /\ n.question = s.question
        /\ \A m, n \in N : m = n
        /\ N = {} => s.score = None
        /\ \A p \in Pages \ disturbed' :
            /\ p = o => s.user = None \/ ~ Overlapped(s.user, s.question)
            /\ p # o => p \notin disturbed
            /\ p # o => \A n \in N : ~ Mutates(n, page[p].user, page[p].question)
    OBVIOUS
  <1> HIDE DEF N
  <1>2. QED
    BY <1>1, TokenKeeps

LEMMA LoadKeeps == ASSUME IInv, NEW o \in Pages, loadVoteSummary(o) PROVE IInv'
  <1>1. PICK u \in Learners \cup {None}, q \in Questions :
          LET token == page[o].token + 1
              shown == [user |-> u, question |-> q, score |-> None, mine |-> 0,
                        errored |-> FALSE, token |-> token]
              load == [request(o, token, "get", 0, Nothing) EXCEPT !.user = u, !.question = q]
          IN /\ page' = [page EXCEPT ![o] = shown]
             /\ flight' = IF u # None THEN flight \cup {load} ELSE flight
             /\ disturbed' = IF u # None /\ Overlapped(u, q) THEN disturbed \cup {o} ELSE disturbed \ {o}
             /\ UNCHANGED vote
    BY DEF loadVoteSummary
  <1> DEFINE token == page[o].token + 1
             s == [user |-> u, question |-> q, score |-> None, mine |-> 0,
                   errored |-> FALSE, token |-> token]
             load == [request(o, token, "get", 0, Nothing) EXCEPT !.user = u, !.question = q]
             N == IF u # None THEN {load} ELSE {}
  <1>2. token \in Nat
    BY DEF IInv, Shapes, Shown
  <1>3. Shown(s) /\ s.user = u /\ s.question = q /\ s.token = token /\ s.score = None
    BY <1>2 DEF Shown
  <1>4. u # None => Sent(load, o, token, "get", u, q)
    BY <1>2, LoadIsSent
  <1>5. /\ page' = [page EXCEPT ![o] = s] /\ flight' = flight \cup N /\ vote' = vote
        /\ disturbed' = IF u # None /\ Overlapped(u, q) THEN disturbed \cup {o} ELSE disturbed \ {o}
    BY <1>1
  <1> HIDE DEF token, s, load
  <1>6. /\ \A n \in N : Sent(n, o, token, "get", u, q)
        /\ \A m, n \in N : m = n
        /\ disturbed' \subseteq Pages
    BY <1>4, <1>5 DEF IInv, Shapes
  <1>7. \A p \in Pages \ disturbed' :
            /\ p = o => u = None \/ ~ Overlapped(u, q)
            /\ p # o => p \notin disturbed
    BY <1>5
  <1>8. \A x, y : \A n \in N : ~ Mutates(n, x, y)
    BY <1>6 DEF Mutates, Sent
  <1>9. N = {} => s.score = None
    BY <1>3
  <1>10. /\ s.token = page[o].token + 1
         /\ \A n \in N : /\ Request(n) /\ n.page = o /\ n.token = s.token /\ n.stage = "sent" /\ n.awaited
                         /\ n.user = s.user /\ n.question = s.question
    BY <1>3, <1>6 DEF Sent, token
  <1>11. \A p \in Pages \ disturbed' :
            /\ p = o => s.user = None \/ ~ Overlapped(s.user, s.question)
            /\ p # o => p \notin disturbed
            /\ p # o => \A n \in N : ~ Mutates(n, page[p].user, page[p].question)
    BY <1>3, <1>7, <1>8
  <1> HIDE DEF N
  <1>12. QED
    BY <1>3, <1>5, <1>6, <1>9, <1>10, <1>11, TokenKeeps

(* A page after a click. *)
clicked(s, x, m, t) ==
    [s EXCEPT !.score = x, !.mine = m, !.errored = FALSE, !.token = t]

LEMMA ClickedShows ==
  ASSUME NEW s, Shown(s), NEW x, NEW m, NEW t \in Nat
  PROVE  /\ Shown(clicked(s, x, m, t)) /\ clicked(s, x, m, t).token = t
         /\ clicked(s, x, m, t).user = s.user /\ clicked(s, x, m, t).question = s.question
  <1> DEFINE a == rescored(s, x, m)
             no == FALSE
             b == [a EXCEPT !.errored = no]
             c == clicked(s, x, m, t)
  <1>1. Shown(a) /\ a.user = s.user /\ a.question = s.question
    BY RescoredShows
  <1>2. c = [b EXCEPT !.token = t]
    BY DEF clicked, rescored
  <1> HIDE DEF a, no, c
  <1>3. b = [user |-> a.user, question |-> a.question, score |-> a.score, mine |-> a.mine,
             errored |-> no, token |-> a.token]
    BY <1>1 DEF Shown
  <1> HIDE DEF b
  <1>4. c = [user |-> a.user, question |-> a.question, score |-> a.score, mine |-> a.mine,
             errored |-> no, token |-> t]
    BY <1>2, <1>3
  <1>5. Shown(c) /\ c.token = t /\ c.user = s.user /\ c.question = s.question
    BY <1>1, <1>4 DEF Shown
  <1>6. QED
    BY <1>5 DEF c

LEMMA ClickKeeps == ASSUME IInv, NEW o \in Pages, onVoteClick(o) PROVE IInv'
  <1> DEFINE u == page[o].user
             q == page[o].question
             known == [score |-> page[o].score, mine |-> page[o].mine]
             next(d) == IF page[o].mine = d THEN 0 ELSE d
             op(d) == IF page[o].mine = d THEN "delete" ELSE "put"
  <1>1. PICK d \in Directions :
          /\ page' = [page EXCEPT ![o].score = optimisticScore(o, next(d)), ![o].mine = next(d),
                                  ![o].errored = FALSE, ![o].token = clickToken(o)]
          /\ flight' = flight \cup {request(o, clickToken(o), op(d), next(d), known)}
          /\ disturbed' = disturbed
                \cup {p \in Pages \ {o} : page[p].user = u /\ page[p].question = q}
                \cup IF Overlapped(u, q) THEN {o} ELSE {}
          /\ Shows(o) /\ vote' = vote
    BY DEF onVoteClick
  <1> DEFINE s == clicked(page[o], optimisticScore(o, next(d)), next(d), clickToken(o))
             click == request(o, clickToken(o), op(d), next(d), known)
  <1>2. o \in DOMAIN page /\ page' = [page EXCEPT ![o] = s]
    BY <1>1 DEF clicked, IInv, Shapes
  <1>3. /\ Shown(page[o]) /\ clickToken(o) \in Nat /\ clickToken(o) = page[o].token + 1
        /\ u \in Learners /\ q \in Questions /\ next(d) \in Values
    BY <1>1 DEF IInv, Shapes, Shown, Shows, clickToken, Values
  <1>4. Shown(s) /\ s.token = page[o].token + 1 /\ s.user = u /\ s.question = q
    BY <1>3, ClickedShows
  <1>5. Sent(click, o, page[o].token + 1, op(d), u, q)
    BY <1>3, RequestIsSent
  <1> HIDE DEF s, click
  <1>6. /\ disturbed' \subseteq Pages
        /\ \A p \in Pages \ disturbed' :
            /\ p = o => s.user = None \/ ~ Overlapped(s.user, s.question)
            /\ p # o => p \notin disturbed
            /\ p # o => ~ Mutates(click, page[p].user, page[p].question)
    BY <1>1, <1>4, <1>5 DEF IInv, Shapes, Mutates, Sent
  <1>7. /\ flight' = flight \cup {click} /\ vote' = vote
        /\ Request(click) /\ click.page = o /\ click.token = s.token /\ click.stage = "sent"
        /\ click.awaited /\ click.user = s.user /\ click.question = s.question
    BY <1>1, <1>4, <1>5 DEF Sent, click
  <1> HIDE DEF u, q, known, next, op
  <1>8. page' = [page EXCEPT ![o] = s] /\ Shown(s) /\ s.token = page[o].token + 1
    BY <1>2, <1>4
  <1>9. QED
    BY <1>6, <1>7, <1>8, OneTokenKeeps

-----------------------------------------------------------------------------

LEMMA StepKeeps == IInv /\ [Next]_vars => IInv'
  <1> SUFFICES ASSUME IInv, [Next]_vars PROVE IInv'
    OBVIOUS
  <1>1. ASSUME NEW o \in Pages, loadVoteSummary(o) \/ onVoteClick(o)  PROVE IInv'
    BY <1>1, LoadKeeps, ClickKeeps
  <1>2. ASSUME NEW r \in flight,
               Answer(r) \/ Fail(r) \/ Admit(r) \/ RefuseUnawaited(r) \/ Write(r) \/ Summarise(r)
        PROVE  IInv'
    BY <1>2, AnswerKeeps, FailKeeps, AdmitKeeps, WriteKeeps, SummariseKeeps
  <1>3. CASE UNCHANGED vars
    BY <1>3 DEF IInv, OpsInv, Shapes, Tokens, LatestFits, OnlyOwn, Fresh, WidgetAgrees, Quiet, isLatest,
                Shows, Mutates
  <1>4. QED
    BY <1>1, <1>2, <1>3 DEF Next

(* Once its latest request is answered, the widget shows the vote in the   *)
(* table, in whatever order answers come, for any number of clicks, pages  *)
(* and learners: unless that request failed, which the widget shows, or    *)
(* another change of the same vote overlapped (voteRequestToken).          *)
THEOREM WidgetsAgree == Spec => []WidgetAgrees
  <1>1. IInv => WidgetAgrees  BY DEF IInv
  <1>2. QED  BY <1>1, InitHolds, StepKeeps, PTL DEF Spec

-----------------------------------------------------------------------------
(* The score.  The sum over the learners is defined by recursion on sets   *)
(* of learners; what is said of it rests on sets of numbers having a least *)
(* member: were it wrong of some set of learners, take a smallest one.     *)

Sum(q, s, f) ==
    IF s = {} THEN 0 ELSE LET v == CHOOSE x \in s : TRUE IN vote[<<v, q>>] + f[s \ {v}]

Tally(q, D, f) == f = [s \in D |-> Sum(q, s, f)]

LEMMA LeastMember ==
  ASSUME NEW T, T \subseteq Nat, T # {}
  PROVE  \E n \in T : \A m \in T : n <= m
  <1>1. IsWellFoundedOn(OpToRel(<, Nat), Nat)
    BY NatLessThanWellFounded
  <1>2. PICK n \in T : \A m \in T : <<m, n>> \notin OpToRel(<, Nat)
    BY <1>1, WFMin
  <1>3. ASSUME NEW m \in T, m < n PROVE FALSE
    BY <1>2, <1>3 DEF OpToRel
  <1>4. QED
    BY <1>3

(* One learner less to count. *)
LEMMA OneLess ==
  ASSUME NEW s \in SUBSET Learners, NEW v \in s
  PROVE  /\ s \ {v} \in SUBSET Learners /\ Cardinality(s) \in Nat \ {0}
         /\ Cardinality(s \ {v}) = Cardinality(s) - 1 /\ Cardinality(s \ {v}) \in Nat
  <1>1. IsFiniteSet(s)
    BY LearnersAssumption, FS_Subset
  <1>2. IsFiniteSet(s \ {v}) /\ Cardinality(s \ {v}) = Cardinality(s) - 1
    BY <1>1, FS_RemoveElement
  <1>3. QED
    BY <1>1, <1>2, FS_CardinalityType

Upto(n) == {s \in SUBSET Learners : Cardinality(s) <= n}

LEMMA TallyExists == ASSUME NEW q PROVE \E f : Tally(q, SUBSET Learners, f)
  <1> DEFINE Bad == {n \in Nat : ~ \E f : Tally(q, Upto(n), f)}
  <1>1. ASSUME NEW n \in Bad, \A m \in Bad : n <= m PROVE FALSE
    <2>1. CASE n = 0
      <3>1. \A s \in Upto(0) : s = {}
        <4> SUFFICES ASSUME NEW s \in Upto(0), NEW v \in s PROVE FALSE
          OBVIOUS
        <4>1. s \in SUBSET Learners /\ Cardinality(s) <= 0
          BY DEF Upto
        <4>2. Cardinality(s) \in Nat \ {0}
          BY <4>1, OneLess
        <4>3. QED
          BY <4>1, <4>2
      <3>2. Tally(q, Upto(0), [s \in Upto(0) |-> 0])
        BY <3>1 DEF Tally, Sum
      <3>3. QED
        BY <1>1, <2>1, <3>2
    <2>2. CASE n # 0
      <3>1. PICK k \in Nat : n = k + 1
        BY <1>1, <2>2
      <3>2. PICK f : Tally(q, Upto(k), f)
        BY <1>1, <3>1
      <3> DEFINE g == [s \in Upto(n) |-> Sum(q, s, f)]
      <3>3. ASSUME NEW s \in Upto(n), s # {}, NEW v \in s
            PROVE  s \ {v} \in Upto(k) /\ s \ {v} \in Upto(n)
        <4>1. /\ s \ {v} \in SUBSET Learners /\ Cardinality(s \ {v}) = Cardinality(s) - 1
              /\ Cardinality(s) \in Nat /\ Cardinality(s) <= n
          BY <3>3, OneLess DEF Upto
        <4>2. QED
          BY <3>1, <4>1 DEF Upto
      <3>4. \A t \in Upto(k) : t \in Upto(n) => g[t] = f[t]
        BY <3>2 DEF Tally
      <3>5. ASSUME NEW s \in Upto(n) PROVE Sum(q, s, f) = Sum(q, s, g)
        <4> HIDE DEF g
        <4>1. CASE s = {}
          BY <4>1 DEF Sum
        <4>2. CASE s # {}
          <5>1. PICK v \in s : v = CHOOSE x \in s : TRUE
            BY <4>2
          <5>2. f[s \ {v}] = g[s \ {v}]
            BY <3>3, <3>4, <4>2
          <5>3. QED
            BY <4>2, <5>1, <5>2 DEF Sum
        <4>3. QED
          BY <4>1, <4>2
      <3>6. g = [s \in Upto(n) |-> Sum(q, s, f)]
        OBVIOUS
      <3> HIDE DEF g
      <3>7. Tally(q, Upto(n), g)
        BY <3>5, <3>6 DEF Tally
      <3>8. QED
        BY <1>1, <3>7
    <2>3. QED
      BY <2>1, <2>2
  <1>2. Bad = {}
    BY <1>1, LeastMember
  <1>3. PICK n \in Nat : n = Cardinality(Learners)
    BY LearnersAssumption, FS_CardinalityType
  <1>4. SUBSET Learners = Upto(n)
    BY <1>3, LearnersAssumption, FS_Subset DEF Upto
  <1>5. QED
    BY <1>2, <1>4

(* A learner's vote is one among at most one of each. *)
LEMMA TallyFits ==
  ASSUME vote \in [Learners \X Questions -> Values], NEW q \in Questions,
         NEW f, Tally(q, SUBSET Learners, f), NEW s \in SUBSET Learners
  PROVE  /\ f[s] \in Int /\ -Cardinality(s) <= f[s] /\ f[s] <= Cardinality(s)
         /\ \A u \in s : LET others == f[s] - vote[<<u, q>>]
                          IN -(Cardinality(s) - 1) <= others /\ others <= Cardinality(s) - 1
  <1> DEFINE Fits(t) ==
               /\ f[t] \in Int /\ -Cardinality(t) <= f[t] /\ f[t] <= Cardinality(t)
               /\ \A u \in t : /\ -(Cardinality(t) - 1) <= f[t] - vote[<<u, q>>]
                               /\ f[t] - vote[<<u, q>>] <= Cardinality(t) - 1
             Bad == {n \in Nat : \E t \in SUBSET Learners : Cardinality(t) = n /\ ~ Fits(t)}
  <1>1. ASSUME NEW n \in Bad, \A m \in Bad : n <= m PROVE FALSE
    <2>1. PICK t \in SUBSET Learners : Cardinality(t) = n /\ ~ Fits(t)
      BY <1>1
    <2>2. CASE t = {}
      <3>1. f[{}] = 0 /\ Cardinality({}) = 0
        BY <2>2, FS_EmptySet DEF Tally, Sum
      <3>2. QED
        BY <2>1, <2>2, <3>1
    <2>3. CASE t # {}
      <3>1. PICK v \in t : v = CHOOSE x \in t : TRUE
        BY <2>3
      <3>2. PICK r, c, a : r = t \ {v} /\ c = Cardinality(r) /\ a = vote[<<v, q>>]
        OBVIOUS
      <3>3. f[t] = a + f[r]
        BY <2>3, <3>1, <3>2 DEF Tally, Sum
      <3>4. r \in SUBSET Learners /\ c \in Nat /\ n = c + 1 /\ n \in Nat
        BY <2>1, <3>2, OneLess
      <3>5. Fits(r)
        <4>1. c \notin Bad
          BY <1>1, <3>4
        <4>2. QED
          BY <3>2, <3>4, <4>1
      <3>6. \A u \in t : vote[<<u, q>>] \in {-1, 0, 1}
        BY DEF Values, Directions
      <3>7. a \in {-1, 0, 1} /\ f[r] \in Int
        BY <3>2, <3>5, <3>6
      <3>8. f[t] \in Int /\ -n <= f[t] /\ f[t] <= n
        BY <3>2, <3>3, <3>4, <3>5, <3>7
      <3>9. ASSUME NEW u \in t
            PROVE  -(n - 1) <= f[t] - vote[<<u, q>>] /\ f[t] - vote[<<u, q>>] <= n - 1
        <4>1. CASE u = v
          BY <3>2, <3>3, <3>4, <3>5, <3>7, <4>1
        <4>2. CASE u # v
          <5>1. PICK b : b = vote[<<u, q>>] /\ b \in {-1, 0, 1}
            BY <3>6
          <5>2. -(c - 1) <= f[r] - b /\ f[r] - b <= c - 1
            BY <3>2, <3>5, <4>2, <5>1
          <5>3. QED
            BY <3>3, <3>4, <3>7, <5>1, <5>2
        <4>3. QED
          BY <4>1, <4>2
      <3>10. QED
        BY <2>1, <3>8, <3>9
    <2>4. QED
      BY <2>2, <2>3
  <1>2. Bad = {}
    BY <1>1, LeastMember
  <1>3. Cardinality(s) \in Nat
    BY LearnersAssumption, FS_Subset, FS_CardinalityType
  <1>4. Fits(s)
    BY <1>2, <1>3
  <1>5. QED
    BY <1>4

(* A summary counts the learner's own vote once and every other learner's  *)
(* at most once; one not loaded yet shows no vote.                         *)
Balanced(score, mine) ==
    LET n == Cardinality(Learners) - 1
    IN /\ mine \in Values
       /\ score = None => mine = 0
       /\ score # None => score \in Int /\ -n <= score - mine /\ score - mine <= n

LEMMA SummaryBalanced ==
  ASSUME vote \in [Learners \X Questions -> Values], NEW u \in Learners, NEW q \in Questions
  PROVE  LET x == getQuestionVoteSummary(u, q) IN Balanced(x.score, x.mine)
  <1> DEFINE sum == MapThenSumSet(LAMBDA v : vote[<<v, q>>], Learners)
             tally == CHOOSE f : Tally(q, SUBSET Learners, f)
  <1>1. Tally(q, SUBSET Learners, tally)
    BY TallyExists
  <1>2. sum = tally[Learners]
    BY DEF MapThenSumSet, MapThenFoldSet, Tally, Sum
  <1> HIDE DEF sum, tally
  <1>3. /\ sum \in Int
        /\ LET others == sum - vote[<<u, q>>]
           IN -(Cardinality(Learners) - 1) <= others /\ others <= Cardinality(Learners) - 1
    BY <1>1, <1>2, TallyFits
  <1>4. sum # None
    BY <1>3, NoneAssumption
  <1>5. vote[<<u, q>>] \in Values
    OBVIOUS
  <1>6. Balanced(sum, vote[<<u, q>>])
    BY <1>3, <1>4, <1>5 DEF Balanced
  <1>7. QED
    BY <1>6 DEF getQuestionVoteSummary, sum

LEMMA NothingBalanced == Balanced(Nothing.score, Nothing.mine)
  BY DEF Nothing, Balanced, Values

(* What pages show, and what requests remember and bring, is balanced. *)
ScoreInv ==
    /\ \A p \in Pages : Balanced(page[p].score, page[p].mine)
    /\ \A r \in flight : /\ Balanced(r.known.score, r.known.mine)
                         /\ Balanced(r.answer.score, r.answer.mine)

LEMMA ScoreInit == Init => ScoreInv
  <1> SUFFICES ASSUME Init PROVE ScoreInv
    OBVIOUS
  <1>1. ASSUME NEW p \in Pages PROVE page[p].score = None /\ page[p].mine = 0
    BY DEF Init
  <1>2. QED
    BY <1>1 DEF Init, ScoreInv, Balanced, Values

(* A page shows s, balanced, and what is new under way is balanced too. *)
LEMMA BalancedKeeps ==
  ASSUME IInv, ScoreInv, NEW o \in Pages, NEW s, Balanced(s.score, s.mine),
         page' = page \/ page' = [page EXCEPT ![o] = s],
         \A r \in flight' \ flight : /\ Balanced(r.known.score, r.known.mine)
                                    /\ Balanced(r.answer.score, r.answer.mine)
  PROVE  ScoreInv'
  <1>1. \A p \in Pages : page'[p] = page[p] \/ page'[p] = s
    BY DEF IInv, Shapes
  <1>2. QED
    BY <1>1 DEF ScoreInv, Balanced

LEMMA LoadBalances ==
  ASSUME IInv, ScoreInv, NEW o \in Pages, loadVoteSummary(o) PROVE ScoreInv'
  <1>1. PICK u, q, token :
          LET shown == [user |-> u, question |-> q, score |-> None, mine |-> 0,
                        errored |-> FALSE, token |-> token]
              load == [request(o, token, "get", 0, Nothing) EXCEPT !.user = u, !.question = q]
          IN /\ page' = [page EXCEPT ![o] = shown]
             /\ flight' = flight \/ flight' = flight \cup {load}
    BY DEF loadVoteSummary
  <1> DEFINE s == [user |-> u, question |-> q, score |-> None, mine |-> 0,
                   errored |-> FALSE, token |-> token]
             load == [request(o, token, "get", 0, Nothing) EXCEPT !.user = u, !.question = q]
  <1>2. Balanced(s.score, s.mine)
    BY DEF Balanced, Values
  <1>3. load.known = Nothing /\ load.answer = Nothing
    BY DEF request
  <1>4. page' = [page EXCEPT ![o] = s] /\ \A r \in flight' \ flight : r = load
    BY <1>1
  <1> HIDE DEF s, load
  <1>5. QED
    BY <1>2, <1>3, <1>4, NothingBalanced, BalancedKeeps

LEMMA ClickBalances ==
  ASSUME IInv, ScoreInv, NEW o \in Pages, onVoteClick(o) PROVE ScoreInv'
  <1> DEFINE known == [score |-> page[o].score, mine |-> page[o].mine]
  <1>1. PICK next \in Values, op \in {"put", "delete"}, t \in {clickToken(o)} :
          /\ page' = [page EXCEPT ![o].score = optimisticScore(o, next), ![o].mine = next,
                                  ![o].errored = FALSE, ![o].token = t]
          /\ flight' = flight \cup {request(o, t, op, next, known)}
          /\ Shows(o)
    BY DEF onVoteClick, Values
  <1> DEFINE s == clicked(page[o], optimisticScore(o, next), next, t)
             click == request(o, t, op, next, known)
  <1>2. o \in DOMAIN page /\ page' = [page EXCEPT ![o] = s] /\ Shown(page[o])
    BY <1>1 DEF clicked, IInv, Shapes
  <1>3. s.score = optimisticScore(o, next) /\ s.mine = next
    BY <1>2 DEF clicked, Shown
  <1>4. Balanced(page[o].score, page[o].mine)
    BY DEF ScoreInv
  <1>5. Balanced(s.score, s.mine)
    <2>1. PICK n \in Nat : n = Cardinality(Learners) - 1
      <3>1. page[o].user \in Learners
        BY <1>1, <1>2 DEF Shown, Shows
      <3>2. QED
        BY <3>1, OneLess
    <2>2. page[o].mine \in Int
      BY <1>4 DEF Balanced, Values, Directions
    <2>3. next \in Int /\ \A i \in Int : i # None
      BY NoneAssumption DEF Values, Directions
    <2>4. optimisticScore(o, next) \in Int /\ optimisticScore(o, next) - next >= -n
            /\ optimisticScore(o, next) - next <= n
      <3>1. CASE page[o].score = None
        BY <1>4, <2>1, <2>2, <2>3, <3>1 DEF Balanced, optimisticScore
      <3>2. CASE page[o].score # None
        <4>1. PICK x \in Int : x = page[o].score /\ -n <= x - page[o].mine /\ x - page[o].mine <= n
          BY <1>4, <2>1, <3>2 DEF Balanced
        <4>2. optimisticScore(o, next) = x - page[o].mine + next
          BY <3>2, <4>1 DEF optimisticScore
        <4>3. QED
          BY <2>1, <2>2, <2>3, <4>1, <4>2
      <3>3. QED
        BY <3>1, <3>2
    <2>5. QED
      BY <1>3, <2>1, <2>3, <2>4 DEF Balanced
  <1>6. click.known.score = page[o].score /\ click.known.mine = page[o].mine /\ click.answer = Nothing
    BY DEF request
  <1>7. \A r \in flight' \ flight : r = click
    BY <1>1
  <1> HIDE DEF s, click
  <1>8. QED
    BY <1>2, <1>4, <1>5, <1>6, <1>7, NothingBalanced, BalancedKeeps

LEMMA AnswerBalances ==
  ASSUME IInv, ScoreInv, NEW r \in flight, Answer(r) PROVE ScoreInv'
  <1>1. Request(r) /\ r.page \in Pages /\ Shown(page[r.page])
    BY DEF IInv, Shapes, Request
  <1> DEFINE s == rescored(page[r.page], r.answer.score, r.answer.mine)
  <1>2. s.score = r.answer.score /\ s.mine = r.answer.mine
    BY <1>1 DEF rescored, Shown
  <1>3. page' = page \/ page' = [page EXCEPT ![r.page] = s]
    BY DEF Answer, rescored
  <1>4. flight' \ flight = {} /\ Balanced(r.answer.score, r.answer.mine)
    BY DEF Answer, ScoreInv
  <1> HIDE DEF s
  <1>5. QED
    BY <1>1, <1>2, <1>3, <1>4, BalancedKeeps

LEMMA FailBalances ==
  ASSUME IInv, ScoreInv, NEW r \in flight, Fail(r) PROVE ScoreInv'
  <1>1. Request(r) /\ r.page \in Pages /\ Shown(page[r.page])
    BY DEF IInv, Shapes, Request
  <1> DEFINE s == rolledBack(page[r.page], r)
  <1>2. s.score = r.known.score /\ s.mine = r.known.mine
    BY <1>1 DEF rolledBack, Shown
  <1>3. page' = page \/ page' = [page EXCEPT ![r.page] = s]
    BY DEF Fail
  <1>4. \A t \in flight' \ flight : t.known = r.known /\ t.answer = r.answer
    <2>1. \A t \in flight' \ flight : t = givenUp(r)
      BY DEF Fail, givenUp
    <2>2. givenUp(r).known = r.known /\ givenUp(r).answer = r.answer
      BY <1>1 DEF givenUp, Request
    <2>3. QED
      BY <2>1, <2>2
  <1>5. Balanced(r.known.score, r.known.mine) /\ Balanced(r.answer.score, r.answer.mine)
    BY DEF ScoreInv
  <1> HIDE DEF s
  <1>6. QED
    BY <1>1, <1>2, <1>3, <1>4, <1>5, BalancedKeeps

(* The server changes no page and remembers what the page knew. *)
LEMMA ServerBalances ==
  ASSUME IInv, ScoreInv, NEW r \in flight,
         Admit(r) \/ RefuseUnawaited(r) \/ Write(r) \/ Summarise(r)
  PROVE  ScoreInv'
  <1>1. Request(r)
    BY DEF IInv, Shapes
  <1>2. Balanced(r.known.score, r.known.mine) /\ Balanced(r.answer.score, r.answer.mine)
    BY DEF ScoreInv
  <1>3. page' = page
    BY DEF Admit, RefuseUnawaited, Write, Summarise
  <1>4. \A t \in flight' \ flight :
          t.known = r.known /\ (t.answer = r.answer \/ t.answer = getQuestionVoteSummary(r.user, r.question))
    <2>1. CASE Admit(r)
      <3>1. PICK st : flight' = (flight \ {r}) \cup {[r EXCEPT !.stage = st]}
        BY <2>1 DEF Admit
      <3>2. QED
        BY <1>1, <3>1 DEF Request
    <2>2. CASE RefuseUnawaited(r)
      BY <2>2 DEF RefuseUnawaited
    <2>3. CASE Write(r)
      <3>1. \A t \in flight' \ flight : t = [r EXCEPT !.stage = "written"]
        BY <2>3 DEF Write
      <3>2. QED
        BY <1>1, <3>1 DEF Request
    <2>4. CASE Summarise(r)
      <3>1. PICK x : x = getQuestionVoteSummary(r.user, r.question)
        OBVIOUS
      <3>2. \A t \in flight' \ flight : t = [r EXCEPT !.stage = "answered", !.answer = x]
        BY <2>4, <3>1 DEF Summarise
      <3>3. QED
        BY <1>1, <3>1, <3>2 DEF Request
    <2>5. QED
      BY <2>1, <2>2, <2>3, <2>4
  <1>5. LET x == getQuestionVoteSummary(r.user, r.question) IN Balanced(x.score, x.mine)
    BY <1>1, SummaryBalanced DEF IInv, Shapes, Request
  <1>6. QED
    BY <1>2, <1>3, <1>4, <1>5 DEF ScoreInv, Balanced

(* No vote is counted twice: the score on screen is the learner's own vote *)
(* and at most one of each other learner, through any number of clicks,    *)
(* failures and late answers (onVoteClick's arithmetic).                   *)
THEOREM NoVoteCountsTwice == Spec => []OwnVoteCountedOnce
  <1>1. ASSUME IInv, ScoreInv, [Next]_vars PROVE ScoreInv'
    <2>1. CASE UNCHANGED vars
      BY <1>1, <2>1 DEF ScoreInv, Balanced
    <2>2. QED
      BY <1>1, <2>1, LoadBalances, ClickBalances, AnswerBalances, FailBalances, ServerBalances DEF Next
  <1>2. ScoreInv => OwnVoteCountedOnce
    BY DEF ScoreInv, Balanced, OwnVoteCountedOnce
  <1>3. QED
    BY <1>1, <1>2, InitHolds, StepKeeps, ScoreInit, PTL DEF Spec

=============================================================================
