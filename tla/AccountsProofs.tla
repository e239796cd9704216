--------------------------- MODULE AccountsProofs ---------------------------
(***************************************************************************)
(* Proofs about Accounts, for every set of pods, identities, logins and    *)
(* users: a deleted account leaves nothing behind, no user has a ZITADEL   *)
(* identity and another, and no login gets to a user from the account of   *)
(* another.                                                                *)
(***************************************************************************)
EXTENDS Accounts, TLAPS

(* Users that were deleted stay so, and rows, sessions and links belong to *)
(* users that are there.                                                   *)
RowsHaveUsers ==
    /\ DOMAIN user \cap gone = {}
    /\ \A a \in account : Exists(a[2])
    /\ session \subseteq DOMAIN user
    /\ \A e \in row : Exists(e[2])

(* A user is linked to an identity from the start.  A sign-in about to     *)
(* insert a link has found a user that still takes it, or that is gone.    *)
Checked(s) ==
    s.stage = "inserting" /\ Exists(s.user) =>
        s.identity \notin Zitadel /\ \A a \in Of(s.user) : a[1] \notin Zitadel
LinksChecked ==
    /\ \A u \in DOMAIN user : Of(u) # {}
    /\ \A s \in signIn : s.stage # "profiled" /\ s.stage # "creating" => s.user \in DOMAIN user \cup gone
    /\ \A s \in signIn : Checked(s)

(* What was linked is remembered.  The stash has only logins that profiles *)
(* of the account named, and so has a sign-in about to store one.          *)
LoginsMatch ==
    /\ account \subseteq linked
    /\ \A p \in Pods, g \in GitHub : stash[p][g] # None => <<g, stash[p][g]>> \in named
    /\ \A s \in signIn : s.stage = "updating" => Owned(s.user, s.login)

(* A sign-in has become one at another stage, for a user and with a login. *)
Becomes(s, stage, u, l) ==
    \E t \in SignIns : /\ signIn' = (signIn \ {s}) \cup {t}
                       /\ t.stage = stage /\ t.user = u /\ t.login = l
                       /\ t.identity = s.identity

IInv == TypeOK /\ RowsHaveUsers /\ LinksChecked /\ NoCrossLink /\ LoginsMatch /\ LoginIsOwn

USE DEF IInv, vars, data, past

-----------------------------------------------------------------------------
(* Every step keeps the invariant. *)

LEMMA InitHolds == Init => IInv
  BY NoneAssumption DEF Init, Injection, TypeOK, RowsHaveUsers, LinksChecked, Checked, NoCrossLink,
     LoginsMatch, LoginIsOwn, Exists, Of

LEMMA Advances ==
  ASSUME NEW s \in SignIns, NEW st \in Stages, NEW u \in Users \cup {None}, NEW l \in Logins \cup {None}
  PROVE  /\ Advance(s, [s EXCEPT !.stage = st]) => Becomes(s, st, s.user, s.login)
         /\ Advance(s, [s EXCEPT !.stage = st, !.user = u]) => Becomes(s, st, u, s.login)
         /\ Advance(s, [s EXCEPT !.stage = st, !.login = l]) => Becomes(s, st, s.user, l)
  <1>1. ASSUME Advance(s, [s EXCEPT !.stage = st]) PROVE Becomes(s, st, s.user, s.login)
    <2>1. [s EXCEPT !.stage = st] \in SignIns  BY DEF SignIns
    <2>2. QED  BY <1>1, <2>1 DEF Advance, Becomes, SignIns
  <1>2. ASSUME Advance(s, [s EXCEPT !.stage = st, !.user = u]) PROVE Becomes(s, st, u, s.login)
    <2>1. [s EXCEPT !.stage = st, !.user = u] \in SignIns  BY DEF SignIns
    <2>2. QED  BY <1>2, <2>1 DEF Advance, Becomes, SignIns
  <1>3. ASSUME Advance(s, [s EXCEPT !.stage = st, !.login = l]) PROVE Becomes(s, st, s.user, l)
    <2>1. [s EXCEPT !.stage = st, !.login = l] \in SignIns  BY DEF SignIns
    <2>2. QED  BY <1>3, <2>1 DEF Advance, Becomes, SignIns
  <1>4. QED  BY <1>1, <1>2, <1>3

LEMMA ProfileKeeps == ASSUME IInv, Profile PROVE IInv'
  <1>0. PICK p \in Pods, i \in Identities, n \in 1..MaxSignIns :
           /\ stash' = IF i \in GitHub THEN [stash EXCEPT ![p][i] = login[i]] ELSE stash
           /\ named' = IF i \in GitHub THEN named \cup {<<i, login[i]>>} ELSE named
           /\ signIn' = signIn \cup {[n |-> n, pod |-> p, identity |-> i, stage |-> "profiled",
                                      user |-> None, login |-> None]}
    BY DEF Profile, stashGithubProfileLogin
  <1>10. /\ stash' \in [Pods -> [GitHub -> Logins \cup {None}]]
         /\ named' \subseteq GitHub \X Logins /\ named \subseteq named'
         /\ \A q \in Pods, g \in GitHub :
               stash'[q][g] = stash[q][g] \/ <<g, stash'[q][g]>> \in named'
    BY <1>0 DEF TypeOK
  <1>11. \E t \in SignIns : /\ signIn' = signIn \cup {t} /\ t.stage = "profiled"
    <2>1. n \in Nat  BY BoundAssumption
    <2>2. [n |-> n, pod |-> p, identity |-> i, stage |-> "profiled",
           user |-> None, login |-> None] \in SignIns
      BY <2>1 DEF SignIns, Stages
    <2>3. QED  BY <1>0, <2>2
  <1>1. TypeOK'
    BY <1>10, <1>11 DEF Profile, TypeOK
  <1>2. RowsHaveUsers'
    BY DEF Profile, RowsHaveUsers, Exists
  <1>3. LinksChecked'
    BY <1>11 DEF Profile, LinksChecked, Checked, Exists, Of
  <1>4. NoCrossLink'
    BY DEF Profile, NoCrossLink
  <1>5. LoginsMatch'
    BY <1>10, <1>11 DEF Profile, LoginsMatch, Owned, Exists
  <1>6. LoginIsOwn'
    BY <1>10 DEF Profile, LoginIsOwn, Owned
  <1>7. QED  BY <1>1, <1>2, <1>3, <1>4, <1>5, <1>6

LEMMA FindUserKeeps == ASSUME IInv, NEW s \in signIn, FindUser(s) PROVE IInv'
  <1>0. \/ /\ \E a \in account : a[1] = s.identity /\ Becomes(s, "known", a[2], s.login)
        \/ \E u \in DOMAIN user : Becomes(s, "linking", u, s.login)
        \/ Becomes(s, "creating", s.user, s.login)
    <2>1. s \in SignIns  BY DEF TypeOK
    <2>2. CASE \E a \in account : a[1] = s.identity /\ Advance(s, [s EXCEPT !.stage = "known", !.user = a[2]])
      BY <2>1, <2>2, Advances DEF TypeOK, Stages
    <2>3. CASE \E u \in DOMAIN user : Advance(s, [s EXCEPT !.stage = "linking", !.user = u])
      BY <2>1, <2>3, Advances DEF TypeOK, Stages
    <2>4. CASE Advance(s, [s EXCEPT !.stage = "creating"])
      BY <2>1, <2>4, Advances, NoneAssumption DEF TypeOK, Stages, SignIns
    <2>5. QED  BY <2>2, <2>3, <2>4 DEF FindUser
  <1>1. TypeOK'
    BY <1>0, NoneAssumption, IdentitiesAssumption DEF FindUser, Becomes, TypeOK, Exists, Of
  <1>2. RowsHaveUsers'
    BY <1>0, NoneAssumption, IdentitiesAssumption DEF FindUser, Becomes, TypeOK, RowsHaveUsers, Exists, Of
  <1>3. LinksChecked'
    BY <1>0, NoneAssumption, IdentitiesAssumption DEF FindUser, Becomes, TypeOK, RowsHaveUsers, LinksChecked, Checked, Exists, Of
  <1>4. NoCrossLink'
    BY <1>0, NoneAssumption, IdentitiesAssumption DEF FindUser, Becomes, TypeOK, NoCrossLink, RowsHaveUsers, LinksChecked, Checked, Exists, Of
  <1>5. LoginsMatch'
    BY <1>0, NoneAssumption, IdentitiesAssumption DEF FindUser, Becomes, TypeOK, LoginsMatch, Owned, RowsHaveUsers, Exists, Of
  <1>6. LoginIsOwn'
    BY <1>0, NoneAssumption, IdentitiesAssumption DEF FindUser, Becomes, TypeOK, LoginIsOwn, RowsHaveUsers, LoginsMatch, Owned, Exists, Of
  <1>7. QED  BY <1>1, <1>2, <1>3, <1>4, <1>5, <1>6

LEMMA CheckLinkKeeps == ASSUME IInv, NEW s \in signIn, CheckLink(s) PROVE IInv'
  <1>0. \/ signIn' = signIn \ {s}
        \/ /\ ~ refuseZitadelCrossLink(s.user, s.identity)
           /\ Becomes(s, "inserting", s.user, s.login)
    <2>1. s \in SignIns  BY DEF TypeOK
    <2>2. Advance(s, [s EXCEPT !.stage = "inserting"]) => Becomes(s, "inserting", s.user, s.login)
      BY <2>1, Advances DEF Stages, SignIns
    <2>3. QED  BY <2>2 DEF CheckLink
  <1>1. TypeOK'
    BY <1>0, NoneAssumption, IdentitiesAssumption DEF CheckLink, Becomes, TypeOK, refuseZitadelCrossLink, Exists, Of
  <1>2. RowsHaveUsers'
    BY <1>0, NoneAssumption, IdentitiesAssumption DEF CheckLink, Becomes, TypeOK, RowsHaveUsers, refuseZitadelCrossLink, Exists, Of
  <1>3. LinksChecked'
    BY <1>0, NoneAssumption, IdentitiesAssumption DEF CheckLink, Becomes, TypeOK, RowsHaveUsers, LinksChecked, Checked, refuseZitadelCrossLink, Exists, Of
  <1>4. NoCrossLink'
    BY <1>0, NoneAssumption, IdentitiesAssumption DEF CheckLink, Becomes, TypeOK, NoCrossLink, RowsHaveUsers, LinksChecked, Checked, refuseZitadelCrossLink, Exists, Of
  <1>5. LoginsMatch'
    BY <1>0, NoneAssumption, IdentitiesAssumption DEF CheckLink, Becomes, TypeOK, LoginsMatch, Owned, RowsHaveUsers, refuseZitadelCrossLink, Exists, Of
  <1>6. LoginIsOwn'
    BY <1>0, NoneAssumption, IdentitiesAssumption DEF CheckLink, Becomes, TypeOK, LoginIsOwn, RowsHaveUsers, LoginsMatch, Owned, refuseZitadelCrossLink, Exists, Of
  <1>7. QED  BY <1>1, <1>2, <1>3, <1>4, <1>5, <1>6

LEMMA InsertAccountKeeps == ASSUME IInv, NEW s \in signIn, InsertAccount(s) PROVE IInv'
  <1>0. \/ ~ Exists(s.user) /\ account' = account /\ signIn' = signIn \ {s}
        \/ /\ Exists(s.user) /\ account' = account \cup {<<s.identity, s.user>>}
           /\ Becomes(s, "known", s.user, s.login)
    <2>1. s \in SignIns  BY DEF TypeOK
    <2>2. Advance(s, [s EXCEPT !.stage = "known"]) => Becomes(s, "known", s.user, s.login)
      BY <2>1, Advances DEF Stages, SignIns
    <2>3. QED  BY <2>2 DEF InsertAccount
  <1>1. TypeOK'
    BY <1>0, NoneAssumption, IdentitiesAssumption DEF InsertAccount, Becomes, TypeOK, SignIns, Exists, Of
  <1>2. RowsHaveUsers'
    BY <1>0, NoneAssumption, IdentitiesAssumption DEF InsertAccount, Becomes, TypeOK, RowsHaveUsers, SignIns, Exists, Of
  <1>3. LinksChecked'
    BY <1>0, NoneAssumption, IdentitiesAssumption DEF InsertAccount, Becomes, TypeOK, RowsHaveUsers, LinksChecked, Checked, SignIns, Exists, Of
  <1>4. NoCrossLink'
    BY <1>0, NoneAssumption, IdentitiesAssumption DEF InsertAccount, Becomes, TypeOK, NoCrossLink, RowsHaveUsers, LinksChecked, Checked, SignIns, Exists, Of
  <1>5. LoginsMatch'
    BY <1>0, NoneAssumption, IdentitiesAssumption DEF InsertAccount, Becomes, TypeOK, LoginsMatch, Owned, RowsHaveUsers, SignIns, Exists, Of
  <1>6. LoginIsOwn'
    BY <1>0, NoneAssumption, IdentitiesAssumption DEF InsertAccount, Becomes, TypeOK, LoginIsOwn, RowsHaveUsers, LoginsMatch, Owned, SignIns, Exists, Of
  <1>7. QED  BY <1>1, <1>2, <1>3, <1>4, <1>5, <1>6

LEMMA CreateUserKeeps == ASSUME IInv, NEW s \in signIn, CreateUser(s) PROVE IInv'
  <1>0. \/ UNCHANGED <<user, account, linked>> /\ signIn' = signIn \ {s}
        \/ \E u \in Users \ (DOMAIN user \cup gone) :
              /\ user' = [v \in DOMAIN user \cup {u} |->
                            IF v = u THEN [mail |-> Mail[s.identity], login |-> None] ELSE user[v]]
              /\ account' = account \cup {<<s.identity, u>>}
              /\ linked' = linked \cup {<<s.identity, u>>}
              /\ Becomes(s, "known", u, s.login)
    <2>1. s \in SignIns  BY DEF TypeOK
    <2>2. \A u \in Users : Advance(s, [s EXCEPT !.stage = "known", !.user = u]) => Becomes(s, "known", u, s.login)
      BY <2>1, Advances DEF Stages, SignIns
    <2>3. QED  BY <2>2 DEF CreateUser
  <1>1. CASE UNCHANGED <<user, account, linked>> /\ signIn' = signIn \ {s}
    <2>1. UNCHANGED <<data, stash, submitting, login, gone, named, linked>>  BY <1>1 DEF CreateUser
    <2>2. signIn' \subseteq signIn  BY <1>1
    <2>3. QED
      BY <2>1, <2>2 DEF TypeOK, RowsHaveUsers, LinksChecked, Checked, NoCrossLink, LoginsMatch,
         LoginIsOwn, Owned, Exists, Of
  <1>2. ASSUME NEW u \in Users \ (DOMAIN user \cup gone),
               user' = [v \in DOMAIN user \cup {u} |->
                           IF v = u THEN [mail |-> Mail[s.identity], login |-> None] ELSE user[v]],
               account' = account \cup {<<s.identity, u>>},
               linked' = linked \cup {<<s.identity, u>>},
               Becomes(s, "known", u, s.login)
        PROVE  IInv'
    <2>1. /\ DOMAIN user' = DOMAIN user \cup {u} /\ user'[u].login = None
          /\ \A v \in DOMAIN user : user'[v] = user[v]
      BY <1>2
    <2>2. s \in SignIns /\ UNCHANGED <<session, row, stash, submitting, login, gone, named>>
      BY DEF CreateUser, TypeOK
    <2>3. \A v \in Users : v # u => Of(v)' = Of(v)
      BY <1>2 DEF Of
    <2>4. \A a \in account : a[2] # u
      BY DEF RowsHaveUsers, Exists
    <2>5. TypeOK'
      <3>1. user' \in [DOMAIN user' -> [mail : Mails, login : Logins \cup {None}]]
        BY <1>2, <2>1, <2>2 DEF TypeOK, SignIns, Mails
      <3>2. signIn' \subseteq SignIns  BY <1>2 DEF Becomes, TypeOK
      <3>3. account' \subseteq Identities \X Users /\ linked' \subseteq Identities \X Users
        BY <1>2, <2>2 DEF TypeOK, SignIns
      <3>4. QED  BY <2>1, <2>2, <3>1, <3>2, <3>3 DEF TypeOK
    <2>6. RowsHaveUsers'
      BY <1>2, <2>1, <2>2 DEF RowsHaveUsers, Exists
    <2>7. LinksChecked'
      <3>1. \A v \in DOMAIN user' : Of(v)' # {}
        <4>1. <<s.identity, u>> \in Of(u)'  BY <1>2 DEF Of
        <4>2. \A v \in DOMAIN user : v \in Users /\ v # u  BY <1>2 DEF TypeOK
        <4>3. QED  BY <2>1, <2>3, <4>1, <4>2 DEF LinksChecked
      <3>2. \A t \in signIn' : t.stage # "profiled" /\ t.stage # "creating"
                                 => t.user \in DOMAIN user' \cup gone'
        BY <1>2, <2>1, <2>2 DEF LinksChecked, Becomes
      <3>3. ASSUME NEW t \in signIn' PROVE Checked(t)'
        <4>1. CASE t \notin signIn  BY <1>2, <4>1 DEF Becomes, Checked
        <4>2. CASE t \in signIn
          <5>1. t.stage = "inserting" => t.user \in Users /\ t.user # u
            BY <4>2 DEF LinksChecked, TypeOK, RowsHaveUsers
          <5>2. QED  BY <2>1, <2>3, <4>2, <5>1 DEF LinksChecked, Checked, Exists
        <4>3. QED  BY <4>1, <4>2
      <3>4. QED  BY <3>1, <3>2, <3>3 DEF LinksChecked
    <2>8. NoCrossLink'
      BY <1>2, <2>4 DEF NoCrossLink
    <2>9. LoginsMatch'
      <3>1. ASSUME NEW t \in signIn', t.stage = "updating"
            PROVE  Owned(t.user, t.login)'
        <4>1. t \in signIn  BY <1>2, <3>1 DEF Becomes
        <4>2. QED  BY <1>2, <2>2, <3>1, <4>1 DEF LoginsMatch, Owned
      <3>3. account' \subseteq linked'  BY <1>2, <2>2 DEF LoginsMatch
      <3>2. QED  BY <2>2, <3>1, <3>3 DEF LoginsMatch
    <2>10. LoginIsOwn'
      BY <1>2, <2>1, <2>2 DEF LoginIsOwn, Owned
    <2>11. QED  BY <2>5, <2>6, <2>7, <2>8, <2>9, <2>10
  <1>3. QED  BY <1>0, <1>1, <1>2

LEMMA CreateSessionKeeps == ASSUME IInv, NEW s \in signIn, CreateSession(s) PROVE IInv'
  <1>0. \/ session' = session /\ signIn' = signIn \ {s}
        \/ /\ Exists(s.user) /\ session' = session \cup {s.user}
           /\ Becomes(s, "signed in", s.user, s.login)
    <2>1. s \in SignIns  BY DEF TypeOK
    <2>2. Advance(s, [s EXCEPT !.stage = "signed in"]) => Becomes(s, "signed in", s.user, s.login)
      BY <2>1, Advances DEF Stages, SignIns
    <2>3. QED  BY <2>2 DEF CreateSession, references
  <1>1. TypeOK'
    BY <1>0, NoneAssumption, IdentitiesAssumption DEF CreateSession, Becomes, TypeOK, SignIns, Exists, Of
  <1>2. RowsHaveUsers'
    BY <1>0, NoneAssumption, IdentitiesAssumption DEF CreateSession, Becomes, TypeOK, RowsHaveUsers, SignIns, Exists, Of
  <1>3. LinksChecked'
    BY <1>0, NoneAssumption, IdentitiesAssumption DEF CreateSession, Becomes, TypeOK, RowsHaveUsers, LinksChecked, Checked, SignIns, Exists, Of
  <1>4. NoCrossLink'
    BY <1>0, NoneAssumption, IdentitiesAssumption DEF CreateSession, Becomes, TypeOK, NoCrossLink, RowsHaveUsers, LinksChecked, Checked, SignIns, Exists, Of
  <1>5. LoginsMatch'
    BY <1>0, NoneAssumption, IdentitiesAssumption DEF CreateSession, Becomes, TypeOK, LoginsMatch, Owned, RowsHaveUsers, SignIns, Exists, Of
  <1>6. LoginIsOwn'
    BY <1>0, NoneAssumption, IdentitiesAssumption DEF CreateSession, Becomes, TypeOK, LoginIsOwn, RowsHaveUsers, LoginsMatch, Owned, SignIns, Exists, Of
  <1>7. QED  BY <1>1, <1>2, <1>3, <1>4, <1>5, <1>6

LEMMA backfillGithubLoginKeeps == ASSUME IInv, NEW s \in signIn, backfillGithubLogin(s) PROVE IInv'
  <1>0. \/ stash' = stash /\ signIn' = signIn \ {s}
        \/ \E a \in Of(s.user) :
              /\ a[1] \in GitHub /\ stash[s.pod][a[1]] # None
              /\ stash' = [stash EXCEPT ![s.pod][a[1]] = None]
              /\ Becomes(s, "updating", s.user, stash[s.pod][a[1]])
    <2>1. s \in SignIns  BY DEF TypeOK
    <2>2. \A l \in Logins : Advance(s, [s EXCEPT !.stage = "updating", !.login = l])
                              => Becomes(s, "updating", s.user, l)
      BY <2>1, Advances DEF Stages, SignIns
    <2>3. \A g \in GitHub : stash[s.pod][g] # None => stash[s.pod][g] \in Logins
      BY <2>1 DEF TypeOK, SignIns
    <2>4. QED  BY <2>2, <2>3 DEF backfillGithubLogin
  <1>10. /\ stash' \in [Pods -> [GitHub -> Logins \cup {None}]]
         /\ \A p \in Pods, g \in GitHub : stash'[p][g] \in {None, stash[p][g]}
    <2>1. s.pod \in Pods  BY DEF TypeOK, SignIns
    <2>2. CASE stash' = stash  BY <2>2 DEF TypeOK
    <2>3. ASSUME NEW g \in GitHub, stash' = [stash EXCEPT ![s.pod][g] = None]
          PROVE  /\ stash' \in [Pods -> [GitHub -> Logins \cup {None}]]
                 /\ \A p \in Pods, h \in GitHub : stash'[p][h] \in {None, stash[p][h]}
      BY <2>1, <2>3 DEF TypeOK
    <2>4. QED  BY <1>0, <2>2, <2>3
  <1>11. \/ signIn' = signIn \ {s}
         \/ \E l \in Logins : Owned(s.user, l) /\ Becomes(s, "updating", s.user, l)
    <2>1. ASSUME NEW a \in Of(s.user), a[1] \in GitHub, stash[s.pod][a[1]] # None
          PROVE  stash[s.pod][a[1]] \in Logins /\ Owned(s.user, stash[s.pod][a[1]])
      <3>1. s.pod \in Pods /\ a = <<a[1], s.user>> /\ a \in account
        BY <2>1 DEF Of, TypeOK, SignIns
      <3>2. QED  BY <2>1, <3>1 DEF TypeOK, LoginsMatch, Owned
    <2>2. QED  BY <1>0, <2>1
  <1>1. TypeOK'
    BY <1>10, <1>11 DEF backfillGithubLogin, Becomes, TypeOK
  <1>2. RowsHaveUsers'
    BY DEF backfillGithubLogin, RowsHaveUsers, Exists
  <1>3. LinksChecked'
    BY <1>11 DEF backfillGithubLogin, Becomes, TypeOK, RowsHaveUsers, LinksChecked, Checked, Exists, Of
  <1>4. NoCrossLink'
    BY DEF backfillGithubLogin, NoCrossLink
  <1>5. LoginsMatch'
    BY <1>10, <1>11 DEF backfillGithubLogin, Becomes, LoginsMatch, Owned, Exists
  <1>6. LoginIsOwn'
    BY DEF backfillGithubLogin, LoginIsOwn, Owned
  <1>7. QED  BY <1>1, <1>2, <1>3, <1>4, <1>5, <1>6

LEMMA StoreLoginKeeps == ASSUME IInv, NEW s \in signIn, StoreLogin(s) PROVE IInv'
  <1>1. TypeOK'
    BY NoneAssumption, IdentitiesAssumption DEF StoreLogin, TypeOK, SignIns, Stages, Exists, Of
  <1>2. RowsHaveUsers'
    BY NoneAssumption, IdentitiesAssumption DEF StoreLogin, TypeOK, RowsHaveUsers, Exists, Of
  <1>3. LinksChecked'
    BY NoneAssumption, IdentitiesAssumption DEF StoreLogin, TypeOK, RowsHaveUsers, LinksChecked, Checked, Exists, Of
  <1>4. NoCrossLink'
    BY NoneAssumption, IdentitiesAssumption DEF StoreLogin, TypeOK, NoCrossLink, RowsHaveUsers, LinksChecked, Checked, Exists, Of
  <1>5. LoginsMatch'
    BY NoneAssumption, IdentitiesAssumption DEF StoreLogin, TypeOK, LoginsMatch, Owned, RowsHaveUsers, Exists, Of
  <1>6. LoginIsOwn'
    <2>1. CASE ~ Exists(s.user)  BY <2>1 DEF StoreLogin, LoginIsOwn, Owned
    <2>2. CASE Exists(s.user)
      <3>1. /\ DOMAIN user' = DOMAIN user
            /\ user'[s.user].login = s.login
            /\ \A v \in DOMAIN user : v # s.user => user'[v] = user[v]
        BY <2>2 DEF StoreLogin, TypeOK, Exists
      <3>2. UNCHANGED <<named, linked>>  BY DEF StoreLogin
      <3>3. Owned(s.user, s.login)  BY <2>2 DEF StoreLogin, LoginsMatch
      <3>4. QED  BY <3>1, <3>2, <3>3 DEF LoginIsOwn, Owned
    <2>3. QED  BY <2>1, <2>2
  <1>7. QED  BY <1>1, <1>2, <1>3, <1>4, <1>5, <1>6

LEMMA SignInFailsKeeps == ASSUME IInv, NEW s \in signIn, SignInFails(s) PROVE IInv'
  <1>1. TypeOK'
    BY NoneAssumption, IdentitiesAssumption DEF SignInFails, TypeOK, SignIns, Stages, Exists, Of
  <1>2. RowsHaveUsers'
    BY NoneAssumption, IdentitiesAssumption DEF SignInFails, TypeOK, RowsHaveUsers, Exists, Of
  <1>3. LinksChecked'
    BY NoneAssumption, IdentitiesAssumption DEF SignInFails, TypeOK, RowsHaveUsers, LinksChecked, Checked, Exists, Of
  <1>4. NoCrossLink'
    BY NoneAssumption, IdentitiesAssumption DEF SignInFails, TypeOK, NoCrossLink, RowsHaveUsers, LinksChecked, Checked, Exists, Of
  <1>5. LoginsMatch'
    BY NoneAssumption, IdentitiesAssumption DEF SignInFails, TypeOK, LoginsMatch, Owned, RowsHaveUsers, Exists, Of
  <1>6. LoginIsOwn'
    BY NoneAssumption, IdentitiesAssumption DEF SignInFails, TypeOK, LoginIsOwn, RowsHaveUsers, LoginsMatch, Owned, Exists, Of
  <1>7. QED  BY <1>1, <1>2, <1>3, <1>4, <1>5, <1>6

LEMMA CrashKeeps == ASSUME IInv, NEW p \in Pods, Crash(p) PROVE IInv'
  <1>1. TypeOK'
    BY NoneAssumption, IdentitiesAssumption DEF Crash, TypeOK, SignIns, Stages, Exists, Of
  <1>2. RowsHaveUsers'
    BY NoneAssumption, IdentitiesAssumption DEF Crash, TypeOK, RowsHaveUsers, Exists, Of
  <1>3. LinksChecked'
    BY NoneAssumption, IdentitiesAssumption DEF Crash, TypeOK, RowsHaveUsers, LinksChecked, Checked, Exists, Of
  <1>4. NoCrossLink'
    BY NoneAssumption, IdentitiesAssumption DEF Crash, TypeOK, NoCrossLink, RowsHaveUsers, LinksChecked, Checked, Exists, Of
  <1>5. LoginsMatch'
    BY NoneAssumption, IdentitiesAssumption DEF Crash, TypeOK, LoginsMatch, Owned, RowsHaveUsers, Exists, Of
  <1>6. LoginIsOwn'
    BY NoneAssumption, IdentitiesAssumption DEF Crash, TypeOK, LoginIsOwn, RowsHaveUsers, LoginsMatch, Owned, Exists, Of
  <1>7. QED  BY <1>1, <1>2, <1>3, <1>4, <1>5, <1>6

LEMMA AdmitKeeps == ASSUME IInv, Admit PROVE IInv'
  <1>1. TypeOK'
    BY NoneAssumption, IdentitiesAssumption DEF Admit, TypeOK
  <1>2. RowsHaveUsers'
    BY NoneAssumption, IdentitiesAssumption DEF Admit, TypeOK, RowsHaveUsers, Exists, Of
  <1>3. LinksChecked'
    BY NoneAssumption, IdentitiesAssumption DEF Admit, TypeOK, RowsHaveUsers, LinksChecked, Checked, Exists, Of
  <1>4. NoCrossLink'
    BY NoneAssumption, IdentitiesAssumption DEF Admit, TypeOK, NoCrossLink, RowsHaveUsers, LinksChecked, Checked, Exists, Of
  <1>5. LoginsMatch'
    BY NoneAssumption, IdentitiesAssumption DEF Admit, TypeOK, LoginsMatch, Owned, RowsHaveUsers, Exists, Of
  <1>6. LoginIsOwn'
    BY NoneAssumption, IdentitiesAssumption DEF Admit, TypeOK, LoginIsOwn, RowsHaveUsers, LoginsMatch, Owned, Exists, Of
  <1>7. QED  BY <1>1, <1>2, <1>3, <1>4, <1>5, <1>6

LEMMA InsertKeeps == ASSUME IInv, Insert PROVE IInv'
  <1>1. TypeOK'
    BY NoneAssumption, IdentitiesAssumption DEF Insert, TypeOK, SignIns, Stages, references, Exists, Of
  <1>2. RowsHaveUsers'
    BY NoneAssumption, IdentitiesAssumption DEF Insert, TypeOK, RowsHaveUsers, references, Exists, Of
  <1>3. LinksChecked'
    BY NoneAssumption, IdentitiesAssumption DEF Insert, TypeOK, RowsHaveUsers, LinksChecked, Checked, references, Exists, Of
  <1>4. NoCrossLink'
    BY NoneAssumption, IdentitiesAssumption DEF Insert, TypeOK, NoCrossLink, RowsHaveUsers, LinksChecked, Checked, references, Exists, Of
  <1>5. LoginsMatch'
    BY NoneAssumption, IdentitiesAssumption DEF Insert, TypeOK, LoginsMatch, Owned, RowsHaveUsers, references, Exists, Of
  <1>6. LoginIsOwn'
    BY NoneAssumption, IdentitiesAssumption DEF Insert, TypeOK, LoginIsOwn, RowsHaveUsers, LoginsMatch, Owned, references, Exists, Of
  <1>7. QED  BY <1>1, <1>2, <1>3, <1>4, <1>5, <1>6

LEMMA DeleteAccountKeeps == ASSUME IInv, DeleteAccount PROVE IInv'
  <1>1. TypeOK'
    BY NoneAssumption, IdentitiesAssumption DEF DeleteAccount, TypeOK, SignIns, Stages, cascade, Exists, Of
  <1>2. RowsHaveUsers'
    BY NoneAssumption, IdentitiesAssumption DEF DeleteAccount, TypeOK, RowsHaveUsers, cascade, Exists, Of
  <1>3. LinksChecked'
    BY NoneAssumption, IdentitiesAssumption DEF DeleteAccount, TypeOK, RowsHaveUsers, LinksChecked, Checked, cascade, Exists, Of
  <1>4. NoCrossLink'
    BY NoneAssumption, IdentitiesAssumption DEF DeleteAccount, TypeOK, NoCrossLink, RowsHaveUsers, LinksChecked, Checked, cascade, Exists, Of
  <1>5. LoginsMatch'
    BY NoneAssumption, IdentitiesAssumption DEF DeleteAccount, TypeOK, LoginsMatch, Owned, RowsHaveUsers, cascade, Exists, Of
  <1>6. LoginIsOwn'
    BY NoneAssumption, IdentitiesAssumption DEF DeleteAccount, TypeOK, LoginIsOwn, RowsHaveUsers, LoginsMatch, Owned, cascade, Exists, Of
  <1>7. QED  BY <1>1, <1>2, <1>3, <1>4, <1>5, <1>6

LEMMA SignOutKeeps == ASSUME IInv, SignOut PROVE IInv'
  <1>1. TypeOK'
    BY NoneAssumption, IdentitiesAssumption DEF SignOut, TypeOK, SignIns, Stages, Exists, Of
  <1>2. RowsHaveUsers'
    BY NoneAssumption, IdentitiesAssumption DEF SignOut, TypeOK, RowsHaveUsers, Exists, Of
  <1>3. LinksChecked'
    BY NoneAssumption, IdentitiesAssumption DEF SignOut, TypeOK, RowsHaveUsers, LinksChecked, Checked, Exists, Of
  <1>4. NoCrossLink'
    BY NoneAssumption, IdentitiesAssumption DEF SignOut, TypeOK, NoCrossLink, RowsHaveUsers, LinksChecked, Checked, Exists, Of
  <1>5. LoginsMatch'
    BY NoneAssumption, IdentitiesAssumption DEF SignOut, TypeOK, LoginsMatch, Owned, RowsHaveUsers, Exists, Of
  <1>6. LoginIsOwn'
    BY NoneAssumption, IdentitiesAssumption DEF SignOut, TypeOK, LoginIsOwn, RowsHaveUsers, LoginsMatch, Owned, Exists, Of
  <1>7. QED  BY <1>1, <1>2, <1>3, <1>4, <1>5, <1>6

LEMMA UnlinkKeeps == ASSUME IInv, Unlink PROVE IInv'
  <1>1. TypeOK'
    BY NoneAssumption, IdentitiesAssumption DEF Unlink, TypeOK, SignIns, Stages, Exists, Of
  <1>2. RowsHaveUsers'
    BY NoneAssumption, IdentitiesAssumption DEF Unlink, TypeOK, RowsHaveUsers, Exists, Of
  <1>3. LinksChecked'
    BY NoneAssumption, IdentitiesAssumption DEF Unlink, TypeOK, RowsHaveUsers, LinksChecked, Checked, Exists, Of
  <1>4. NoCrossLink'
    BY NoneAssumption, IdentitiesAssumption DEF Unlink, TypeOK, NoCrossLink, RowsHaveUsers, LinksChecked, Checked, Exists, Of
  <1>5. LoginsMatch'
    BY NoneAssumption, IdentitiesAssumption DEF Unlink, TypeOK, LoginsMatch, Owned, RowsHaveUsers, Exists, Of
  <1>6. LoginIsOwn'
    BY NoneAssumption, IdentitiesAssumption DEF Unlink, TypeOK, LoginIsOwn, RowsHaveUsers, LoginsMatch, Owned, Exists, Of
  <1>7. QED  BY <1>1, <1>2, <1>3, <1>4, <1>5, <1>6

LEMMA RenameKeeps == ASSUME IInv, Rename PROVE IInv'
  <1>1. TypeOK'
    BY NoneAssumption, IdentitiesAssumption DEF Rename, TypeOK, SignIns, Stages, Exists, Of
  <1>2. RowsHaveUsers'
    BY NoneAssumption, IdentitiesAssumption DEF Rename, TypeOK, RowsHaveUsers, Exists, Of
  <1>3. LinksChecked'
    BY NoneAssumption, IdentitiesAssumption DEF Rename, TypeOK, RowsHaveUsers, LinksChecked, Checked, Exists, Of
  <1>4. NoCrossLink'
    BY NoneAssumption, IdentitiesAssumption DEF Rename, TypeOK, NoCrossLink, RowsHaveUsers, LinksChecked, Checked, Exists, Of
  <1>5. LoginsMatch'
    BY NoneAssumption, IdentitiesAssumption DEF Rename, TypeOK, LoginsMatch, Owned, RowsHaveUsers, Exists, Of
  <1>6. LoginIsOwn'
    BY NoneAssumption, IdentitiesAssumption DEF Rename, TypeOK, LoginIsOwn, RowsHaveUsers, LoginsMatch, Owned, Exists, Of
  <1>7. QED  BY <1>1, <1>2, <1>3, <1>4, <1>5, <1>6

LEMMA StepHolds == ASSUME IInv, [Next]_vars PROVE IInv'
  <1>1. CASE Profile  BY <1>1, ProfileKeeps
  <1>2. CASE \E s \in signIn : SignInStep(s)
    BY <1>2, FindUserKeeps, CheckLinkKeeps, InsertAccountKeeps, CreateUserKeeps, CreateSessionKeeps,
       backfillGithubLoginKeeps, StoreLoginKeeps, SignInFailsKeeps DEF SignInStep
  <1>3. CASE \E p \in Pods : Crash(p)  BY <1>3, CrashKeeps
  <1>4. CASE Admit  BY <1>4, AdmitKeeps
  <1>5. CASE Insert  BY <1>5, InsertKeeps
  <1>6. CASE DeleteAccount  BY <1>6, DeleteAccountKeeps
  <1>7. CASE SignOut  BY <1>7, SignOutKeeps
  <1>10. CASE Unlink  BY <1>10, UnlinkKeeps
  <1>11. CASE Rename  BY <1>11, RenameKeeps
  <1>8. CASE UNCHANGED vars
    BY <1>8 DEF TypeOK, RowsHaveUsers, LinksChecked, Checked, NoCrossLink, LoginsMatch, LoginIsOwn,
       Exists, Of, Owned
  <1>9. QED  BY <1>1, <1>2, <1>3, <1>4, <1>5, <1>6, <1>7, <1>8, <1>10, <1>11 DEF Next

LEMMA Invariance == Spec => []IInv
  BY InitHolds, StepHolds, PTL DEF Spec

-----------------------------------------------------------------------------

(* Every variable keeps its type. *)
THEOREM TypeCorrect == Spec => []TypeOK
  BY Invariance, PTL

(* A deleted account leaves nothing behind, whatever was under way. *)
THEOREM ErasureHolds == Spec => []ErasureIsComplete
  <1>1. IInv => ErasureIsComplete
    BY DEF RowsHaveUsers, ErasureIsComplete, Exists, Of
  <1>2. QED  BY <1>1, Invariance, PTL

(* No user has a ZITADEL identity and another one. *)
THEOREM NoUserIsCrossLinked == Spec => []NoCrossLink
  BY Invariance, PTL

(* A user's GitHub login was, to a profile, the name of an account that    *)
(* was linked to this user.                                                *)
THEOREM LoginsAreOwn == Spec => []LoginIsOwn
  BY Invariance, PTL

(* Whoever an allowlist lets read the reports or the statistics has a      *)
(* ZITADEL identity on it, or a login on it that was that of a GitHub      *)
(* account of theirs.                                                      *)
THEOREM RolesHold == Spec => []RolesAreListed
  <1>1. ASSUME IInv  PROVE RolesAreListed
    <2>1. SUFFICES ASSUME NEW u \in session, NEW list \in SUBSET (Logins \cup Zitadel), mayRead(u, list)
                   PROVE  \/ user[u].login \in list /\ Owned(u, user[u].login)
                          \/ \E z \in Zitadel : z \in list /\ <<z, u>> \in account
      BY DEF RolesAreListed
    <2>2. \/ user[u].login \in list /\ user[u].login \in Logins
          \/ \E a \in Of(u) : a[1] \in list /\ a[1] \in Zitadel
      BY <2>1 DEF mayRead, isAllowlisted, parseAllowlist
    <2>3. CASE \E a \in Of(u) : a[1] \in list /\ a[1] \in Zitadel
      <3>1. PICK a \in account : a[2] = u /\ a[1] \in list /\ a[1] \in Zitadel  BY <2>3 DEF Of
      <3>2. a = <<a[1], u>>  BY <1>1, <3>1 DEF TypeOK
      <3>3. QED  BY <3>1, <3>2
    <2>4. CASE user[u].login \in list /\ user[u].login \in Logins
      BY <1>1, <2>4, NoneAssumption DEF RowsHaveUsers, LoginIsOwn
    <2>5. QED  BY <2>2, <2>3, <2>4
  <1>2. QED  BY <1>1, Invariance, PTL

=============================================================================
