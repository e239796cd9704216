------------------------------ MODULE Accounts ------------------------------
(***************************************************************************)
(* Accounts of the server (server/auth.mjs, server/zitadel.mjs,            *)
(* server/routes/account.mjs) and the rows that hang on them: sign-in      *)
(* through an identity provider, linking by e-mail address and the links   *)
(* that are refused, the GitHub login that each sign-in brings along, and  *)
(* the deletion of an account while its own requests are under way.  A     *)
(* GitHub account may be renamed, and another may take the name it had.    *)
(*                                                                         *)
(* The steps of a sign-in that belong to the better-auth library are       *)
(* external: the library looks an account up by its identity, then a user  *)
(* by the address, and otherwise creates both in one transaction.  So is   *)
(* what else it serves under /api/auth: a user may sign out and may unlink *)
(* an identity, though not the last one.                                   *)
(***************************************************************************)
EXTENDS Integers, FiniteSets, Functions

CONSTANTS
    Pods,
    GitHub, Google, Zitadel,   \* the identities at each provider
    Mail,                      \* identity -> the address it has there
    Logins,                    \* the login names on GitHub
    Users,                     \* ids that users may get
    Rows,                      \* attempts and votes
    None,
    MaxSignIns,                \* bounds: sign-ins
    MaxRequests,               \* submissions
    MaxRenames                 \* and new logins of GitHub accounts, in all

Identities == GitHub \cup Google \cup Zitadel

Mails == {Mail[i] : i \in Identities}

ASSUME IdentitiesAssumption ==
    GitHub \cap Google = {} /\ GitHub \cap Zitadel = {} /\ Google \cap Zitadel = {}
ASSUME NoneAssumption == None \notin Logins \cup Users \cup Identities
ASSUME BoundAssumption == MaxSignIns \in Nat /\ MaxRequests \in Nat /\ MaxRenames \in Nat

VARIABLES
    user,         \* the users there are -> e-mail address and GitHub login
    account,      \* pairs of an identity and the user it is linked to
    session,      \* the users someone is signed in as
    row,          \* pairs of a row and the user it belongs to
    stash,        \* pod -> GitHub account -> githubProfileLoginByAccountId
    signIn,       \* the sign-ins under way
    submitting,   \* pairs of a row and a user: requests past their session check
    \* outside
    login,        \* GitHub account -> its login at present
    \* bookkeeping
    gone,         \* users that were deleted
    named,        \* pairs of a GitHub account and a login that a profile of it named
    linked,       \* pairs of an identity and a user it was ever linked to
    signIns, requests, renames

data == <<user, account, session, row>>
past == <<gone, named, linked, signIns, requests, renames>>
vars == <<data, stash, signIn, submitting, login, past>>

-----------------------------------------------------------------------------

Of(u) == {a \in account : a[2] = u}

Exists(u) == u \in DOMAIN user

Advance(s, t) == signIn' = (signIn \ {s}) \cup {t}

(* Mistake: the stash has one place for all accounts. *)
stashGithubProfileLogin_Shared(p, g, l) == [stash EXCEPT ![p] = [h \in GitHub |-> l]]

stashGithubProfileLogin(p, g, l) == [stash EXCEPT ![p][g] = l]

(* The provider has named the identity.  A GitHub profile leaves its login *)
(* in the stash of the pod; for ZITADEL, getZitadelUserInfo() may refuse.  *)
Profile ==
    \E p \in Pods, i \in Identities, n \in 1..MaxSignIns :
        /\ {s.n : s \in {t \in signIn : t.pod = p /\ t.identity = i}} \cap 1..n = 1..(n - 1)
        /\ signIns < MaxSignIns /\ signIns' = signIns + 1
        /\ stash' = IF i \in GitHub THEN stashGithubProfileLogin(p, i, login[i]) ELSE stash
        /\ named' = IF i \in GitHub THEN named \cup {<<i, login[i]>>} ELSE named
        /\ signIn' = signIn \cup
             {[n |-> n, pod |-> p, identity |-> i, stage |-> "profiled",
               user |-> None, login |-> None]}
        /\ UNCHANGED <<data, submitting, login, gone, linked, requests, renames>>

(* The user of the linked account, else the one with the address, else a   *)
(* new one.                                                                *)
FindUser(s) ==
    /\ s.stage = "profiled"
    /\ \/ \E a \in account : a[1] = s.identity
             /\ Advance(s, [s EXCEPT !.stage = "known", !.user = a[2]])
       \/ /\ \A a \in account : a[1] # s.identity
          /\ \E u \in DOMAIN user : user[u].mail = Mail[s.identity]
                /\ Advance(s, [s EXCEPT !.stage = "linking", !.user = u])
       \/ /\ \A a \in account : a[1] # s.identity
          /\ \A u \in DOMAIN user : user[u].mail # Mail[s.identity]
          /\ Advance(s, [s EXCEPT !.stage = "creating"])
    /\ UNCHANGED <<data, stash, submitting, login, past>>

(* Mistake: only a ZITADEL account is kept off other users. *)
refuseZitadelCrossLink_OneWay(u, i) == i \in Zitadel /\ Of(u) # {}

refuseZitadelCrossLink(u, i) ==
    IF i \in Zitadel THEN Of(u) # {} ELSE \E a \in Of(u) : a[1] \in Zitadel

(* The hook of the account row looks at the user's accounts... *)
CheckLink(s) ==
    /\ s.stage = "linking"
    /\ IF refuseZitadelCrossLink(s.user, s.identity)
       THEN signIn' = signIn \ {s}
       ELSE Advance(s, [s EXCEPT !.stage = "inserting"])
    /\ UNCHANGED <<data, stash, submitting, login, past>>

(* ...and the row is inserted after that, if the user is still there. *)
InsertAccount(s) ==
    /\ s.stage = "inserting"
    /\ IF Exists(s.user)
       THEN /\ account' = account \cup {<<s.identity, s.user>>}
            /\ linked' = linked \cup {<<s.identity, s.user>>}
            /\ Advance(s, [s EXCEPT !.stage = "known"])
       ELSE UNCHANGED <<account, linked>> /\ signIn' = signIn \ {s}
    /\ UNCHANGED <<user, session, row, stash, submitting, login, gone, named, signIns, requests, renames>>

(* User and account in one transaction; the address is unique. *)
CreateUser(s) ==
    /\ s.stage = "creating"
    /\ \/ /\ \A v \in DOMAIN user : user[v].mail # Mail[s.identity]
          /\ \E u \in Users \ (DOMAIN user \cup gone) :
                /\ user' = [v \in DOMAIN user \cup {u} |->
                               IF v = u THEN [mail |-> Mail[s.identity], login |-> None] ELSE user[v]]
                /\ account' = account \cup {<<s.identity, u>>}
                /\ linked' = linked \cup {<<s.identity, u>>}
                /\ Advance(s, [s EXCEPT !.stage = "known", !.user = u])
       \/ /\ \E v \in DOMAIN user : user[v].mail = Mail[s.identity]
          /\ signIn' = signIn \ {s} /\ UNCHANGED <<user, account, linked>>
    /\ UNCHANGED <<session, row, stash, submitting, login, gone, named, signIns, requests, renames>>

(* Mistake: a row of a user that is gone is accepted. *)
references_Anything(u) == TRUE

(* The foreign key of a row, with its cascade. *)
references(u) == Exists(u)

CreateSession(s) ==
    /\ s.stage = "known"
    /\ IF references(s.user)
       THEN session' = session \cup {s.user} /\ Advance(s, [s EXCEPT !.stage = "signed in"])
       ELSE session' = session /\ signIn' = signIn \ {s}
    /\ UNCHANGED <<user, account, row, stash, submitting, login, past>>

(* A GitHub account of the user, if it has one, and what the pod stashed   *)
(* for it, which is taken out.                                             *)
backfillGithubLogin(s) ==
    /\ s.stage = "signed in"
    /\ \/ \E a \in Of(s.user) :
             /\ a[1] \in GitHub /\ stash[s.pod][a[1]] # None
             /\ stash' = [stash EXCEPT ![s.pod][a[1]] = None]
             /\ Advance(s, [s EXCEPT !.stage = "updating", !.login = stash[s.pod][a[1]]])
       \/ /\ (\A a \in Of(s.user) : a[1] \notin GitHub)
             \/ \E a \in Of(s.user) : a[1] \in GitHub /\ stash[s.pod][a[1]] = None
          /\ signIn' = signIn \ {s} /\ stash' = stash
    /\ UNCHANGED <<data, submitting, login, past>>

(* The UPDATE, which touches no row once the user is gone and may fail. *)
StoreLogin(s) ==
    /\ s.stage = "updating"
    /\ signIn' = signIn \ {s}
    /\ user' = IF Exists(s.user) THEN [user EXCEPT ![s.user].login = s.login] ELSE user
    /\ UNCHANGED <<account, session, row, stash, submitting, login, past>>

(* The provider, the database or the browser ends a sign-in early. *)
SignInFails(s) ==
    /\ signIn' = signIn \ {s}
    /\ UNCHANGED <<data, stash, submitting, login, past>>

(* A pod loses its stash and the sign-ins it was handling. *)
Crash(p) ==
    /\ stash' = [stash EXCEPT ![p] = [g \in GitHub |-> None]]
    /\ signIn' = {s \in signIn : s.pod # p}
    /\ UNCHANGED <<data, submitting, login, past>>

-----------------------------------------------------------------------------
(* Requests of the signed-in user. *)

(* requireUser() of the attempts and the votes. *)
Admit ==
    \E u \in session, r \in Rows :
        /\ requests < MaxRequests /\ requests' = requests + 1
        /\ submitting' = submitting \cup {<<r, u>>}
        /\ UNCHANGED <<data, stash, signIn, login, gone, named, linked, signIns, renames>>

(* The INSERT, refused by the foreign key once the user is gone. *)
Insert ==
    \E e \in submitting :
        /\ submitting' = submitting \ {e}
        /\ row' = IF references(e[2]) THEN row \cup {e} ELSE row
        /\ UNCHANGED <<user, account, session, stash, signIn, login, past>>

cascade(u) == {e \in row : e[2] # u}

(* DELETE /api/account.  A user who is gone has no session any more. *)
DeleteAccount ==
    \E u \in session :
        /\ user' = [v \in DOMAIN user \ {u} |-> user[v]]
        /\ account' = account \ Of(u)
        /\ session' = session \ {u}
        /\ row' = cascade(u)
        /\ gone' = gone \cup {u}
        /\ UNCHANGED <<stash, signIn, submitting, login, named, linked, signIns, requests, renames>>

(* POST /api/auth/unlink-account.  The login of the user's row stays. *)
Unlink ==
    \E u \in session, a \in account :
        /\ a[2] = u /\ Of(u) # {a}
        /\ account' = account \ {a}
        /\ UNCHANGED <<user, session, row, stash, signIn, submitting, login, past>>

(* server/allowlist.mjs: an entry is a GitHub login, or a ZITADEL user id  *)
(* with its prefix; any other entry is ignored.                            *)
parseAllowlist(list) ==
    [githubLogins |-> list \cap Logins, zitadelSubs |-> list \cap Zitadel]

isAllowlisted(u, list) ==
    LET allowed == parseAllowlist(list)
    IN  \/ user[u].login \in allowed.githubLogins
        \/ \E a \in Of(u) : a[1] \in allowed.zitadelSubs

(* GET /api/reports and GET /api/admin/stats, each with its list. *)
mayRead(u, list) == u \in session /\ isAllowlisted(u, list)

SignOut ==
    \E u \in session :
        /\ session' = session \ {u}
        /\ UNCHANGED <<user, account, row, stash, signIn, submitting, login, past>>

(* GitHub: an account takes a login that none has. *)
Rename ==
    \E g \in GitHub, l \in Logins :
        /\ renames < MaxRenames /\ renames' = renames + 1
        /\ \A h \in GitHub : login[h] # l
        /\ login' = [login EXCEPT ![g] = l]
        /\ UNCHANGED <<data, stash, signIn, submitting, gone, named, linked, signIns, requests>>

-----------------------------------------------------------------------------

Init ==
    /\ user = [u \in {} |-> None] /\ account = {} /\ session = {} /\ row = {}
    /\ stash = [p \in Pods |-> [g \in GitHub |-> None]]
    /\ signIn = {} /\ submitting = {}
    /\ login \in Injection(GitHub, Logins)
    /\ gone = {} /\ named = {} /\ linked = {}
    /\ signIns = 0 /\ requests = 0 /\ renames = 0

SignInStep(s) ==
    \/ FindUser(s) \/ CheckLink(s) \/ InsertAccount(s) \/ CreateUser(s)
    \/ CreateSession(s) \/ backfillGithubLogin(s) \/ StoreLogin(s) \/ SignInFails(s)

Next ==
    \/ Profile \/ Admit \/ Insert \/ DeleteAccount \/ Unlink \/ SignOut \/ Rename
    \/ \E s \in signIn : SignInStep(s)
    \/ \E p \in Pods : Crash(p)

Spec == Init /\ [][Next]_vars

-----------------------------------------------------------------------------
(* Properties. *)

(* Every variable keeps its type. *)
Stages == {"profiled", "linking", "inserting", "creating", "known", "signed in", "updating"}
SignIns == [n : Nat, pod : Pods, identity : Identities, stage : Stages,
            user : Users \cup {None}, login : Logins \cup {None}]
TypeOK ==
    /\ DOMAIN user \subseteq Users
    /\ user \in [DOMAIN user -> [mail : Mails, login : Logins \cup {None}]]
    /\ account \subseteq Identities \X Users /\ session \subseteq Users
    /\ row \subseteq Rows \X Users
    /\ stash \in [Pods -> [GitHub -> Logins \cup {None}]]
    /\ signIn \subseteq SignIns /\ submitting \subseteq Rows \X Users
    /\ login \in [GitHub -> Logins]
    /\ gone \subseteq Users /\ named \subseteq GitHub \X Logins /\ linked \subseteq Identities \X Users

(* A deleted account leaves nothing behind, and nothing of it comes back:  *)
(* neither a row of a request that was under way, nor a session or a link  *)
(* of a sign-in (PRIVACY.md; the foreign keys of the schema).              *)
ErasureIsComplete ==
    \A u \in gone :
        /\ ~ Exists(u) /\ u \notin session /\ Of(u) = {}
        /\ \A e \in row : e[2] # u

(* No user has a ZITADEL identity and another one, in whatever order the   *)
(* sign-ins check, link, create and delete (refuseZitadelCrossLink).       *)
NoCrossLink ==
    \A a, b \in account : a[2] = b[2] /\ a[1] \in Zitadel => b = a

(* A login that lets a user read the reports or the statistics was the     *)
(* name of a GitHub account of this very user: one that was linked to it,  *)
(* and a profile of which gave that login.  However sign-ins on one pod    *)
(* interleave, fail, are linked or use what another left in the stash, no  *)
(* login of an account of somebody else gets there (backfillGithubLogin).  *)
(* A ZITADEL identity on the list is linked now.                           *)
Owned(u, l) == \E g \in GitHub : <<g, u>> \in linked /\ <<g, l>> \in named
RolesAreListed ==
    \A u \in session, list \in SUBSET (Logins \cup Zitadel) :
        mayRead(u, list) =>
            \/ user[u].login \in list /\ Owned(u, user[u].login)
            \/ \E z \in Zitadel : z \in list /\ <<z, u>> \in account

(* Why: so is every login of a user's row.                                 *)
LoginIsOwn ==
    \A u \in DOMAIN user : user[u].login # None => Owned(u, user[u].login)

=============================================================================
