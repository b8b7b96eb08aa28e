---------------------------- MODULE ServiceProofs ----------------------------
(***************************************************************************)
(* Proofs about the services around the games, each for any values of its  *)
(* constants: Auth, Friends and the realtime gateway.  The three share no  *)
(* state; a section is about one of them.                                  *)
(***************************************************************************)
EXTENDS Auth, Friends, Realtime, SequenceTheorems, TLAPS

(***************************************************************************)
(* Auth: any accounts, sessions, tokens and tabs.                          *)
(***************************************************************************)
Callbacks == [sub : Subs, email : Emails, plan : {"create", "link"}]
Waiting   == [pc : {"idle", "refresh", "consumed", "answered"}, session : Sessions \cup {0}, token : Nat]

-----------------------------------------------------------------------------
(* Accounts.  A sign-in that is about to link an account has seen it, and  *)
(* no account ever goes away.                                              *)

AccountsTypeOK == /\ account \in [Emails -> {"none", "password", "oauth"}]
                  /\ identity \in [Subs -> Emails \cup {NoEmail}]
                  /\ callbacks \subseteq Callbacks

PlansOK == \A c \in callbacks : c.plan = "link" => account[c.email] # "none"

AccountsInv == AccountsTypeOK /\ PlansOK /\ AccountIsReachable

\* No account yet: the invariant of the accounts holds.
LEMMA AccountsInit == Init => AccountsInv
BY AuthAssumption DEF Init, AccountsInv, AccountsTypeOK, PlansOK, AccountIsReachable, NoEmail

\* Registering keeps it.
LEMMA RegisterInv ==
  ASSUME AccountsInv, NEW e \in Emails, Register(e)
  PROVE  AccountsInv'
BY DEF Register, AccountsInv, AccountsTypeOK, PlansOK, AccountIsReachable, Callbacks

\* A sign-in that finds no identity decides by the account it sees.
LEMMA FindInv ==
  ASSUME AccountsInv, NEW sub \in Subs, NEW e \in Emails, FindNoIdentity(sub, e)
  PROVE  AccountsInv'
<1> DEFINE new == [sub |-> sub, email |-> e, plan |-> IF account[e] = "none" THEN "create" ELSE "link"]
<1>1. callbacks' = callbacks \cup {new} /\ account' = account /\ identity' = identity
  BY DEF FindNoIdentity
<1>2. new \in Callbacks /\ (new.plan = "link" => account[new.email] # "none")
  BY DEF Callbacks
<1> QED BY <1>1, <1>2 DEF AccountsInv, AccountsTypeOK, PlansOK, AccountIsReachable

(***************************************************************************)
(* The transaction of GoogleCallback: an account it creates is linked by   *)
(* the same commit, and an account it links exists.                        *)
(***************************************************************************)
LEMMA CommitInv ==
  ASSUME AccountsInv, NEW c \in callbacks, CommitCallback(c)
  PROVE  AccountsInv'
<1>1. c \in Callbacks /\ callbacks' \subseteq callbacks /\ account' = accountsAfter(c)
  BY DEF CommitCallback, AccountsInv, AccountsTypeOK
<1>2. CASE inserts(c) /\ links(c)
  <2>1. identity' = [identity EXCEPT ![c.sub] = c.email] /\ identity[c.sub] = NoEmail
    BY <1>2 DEF CommitCallback, links
  <2>2. account' = IF c.plan = "create" THEN [account EXCEPT ![c.email] = "oauth"] ELSE account
    BY <1>1, <1>2 DEF accountsAfter
  <2>3. account'[c.email] # "none"
    BY <1>1, <2>2 DEF AccountsInv, AccountsTypeOK, PlansOK, Callbacks
  <2>4. \A e \in Emails : account[e] # "none" => account'[e] # "none"
    BY <1>1, <2>2 DEF AccountsInv, AccountsTypeOK, Callbacks
  <2>5. AccountsTypeOK' /\ PlansOK'
    BY <1>1, <2>1, <2>2, <2>4 DEF AccountsInv, AccountsTypeOK, PlansOK, Callbacks
  <2>6. ASSUME NEW e \in Emails, account'[e] = "oauth"
        PROVE  \E sub \in Subs : identity'[sub] = e
    <3>1. CASE e = c.email
      BY <1>1, <2>1, <3>1 DEF AccountsInv, AccountsTypeOK, Callbacks
    <3>2. CASE e # c.email
      <4>1. account[e] = "oauth"
        BY <2>2, <2>6, <3>2 DEF AccountsInv, AccountsTypeOK
      <4>2. PICK sub \in Subs : identity[sub] = e
        BY <4>1 DEF AccountsInv, AccountIsReachable
      <4>3. sub # c.sub
        BY <4>2, <2>1, AuthAssumption DEF NoEmail
      <4> QED BY <4>2, <4>3, <2>1 DEF AccountsInv, AccountsTypeOK
    <3> QED BY <3>1, <3>2
  <2>7. ASSUME NEW sub \in Subs, identity'[sub] # NoEmail
        PROVE  account'[identity'[sub]] # "none"
    <3>1. CASE sub = c.sub
      BY <1>1, <2>1, <2>3, <3>1 DEF AccountsInv, AccountsTypeOK, Callbacks
    <3>2. CASE sub # c.sub
      BY <2>1, <2>4, <2>7, <3>2 DEF AccountsInv, AccountsTypeOK, AccountIsReachable
    <3> QED BY <3>1, <3>2
  <2> QED BY <2>5, <2>6, <2>7 DEF AccountsInv, AccountIsReachable
<1>3. CASE ~(inserts(c) /\ links(c))
  <2>1. account' = account /\ identity' = identity
    BY <1>1, <1>3 DEF CommitCallback, accountsAfter
  <2> QED BY <1>1, <2>1 DEF AccountsInv, AccountsTypeOK, PlansOK, AccountIsReachable
<1> QED BY <1>2, <1>3

\* Every step keeps the invariant of the accounts.
LEMMA AccountsStep == AccountsInv /\ [Next]_vars => AccountsInv'
<1> SUFFICES ASSUME AccountsInv, [Next]_vars PROVE AccountsInv'
  OBVIOUS
<1>1. CASE UNCHANGED accountVars
  BY <1>1 DEF accountVars, AccountsInv, AccountsTypeOK, PlansOK, AccountIsReachable
<1>2. \/ UNCHANGED accountVars
      \/ \E e \in Emails : Register(e)
      \/ \E sub \in Subs, e \in Emails : FindNoIdentity(sub, e)
      \/ \E c \in callbacks : CommitCallback(c)
  BY DEF Next, vars, Login, SignInWithIdentity, IssueFirst, IssueNone, AskRefresh, Consume, Store,
         Answer, Logout, Expire
<1> QED BY <1>1, <1>2, RegisterInv, FindInv, CommitInv

(***************************************************************************)
(* Every account can be signed in to, whatever sign-ins and registrations  *)
(* race and whichever of their inserts fail.                               *)
(***************************************************************************)
THEOREM ReachableHolds == Spec => []AccountIsReachable
<1>1. Spec => []AccountsInv
  BY AccountsInit, AccountsStep, PTL DEF Spec
<1> QED BY <1>1, PTL DEF AccountsInv

-----------------------------------------------------------------------------
(* Sessions.  A token is used by the session it was issued in; the token   *)
(* an answer carries is new, so that nobody else can present it.           *)

SessionsTypeOK == /\ live \subseteq Sessions \X Nat
                  /\ issued \in [Sessions -> Nat]
                  /\ held \in [Sessions -> Nat]
                  /\ told \in [Sessions -> BOOLEAN]
                  /\ call \in [Tabs -> Waiting]

NumbersOK == /\ \A k \in live : k[2] > 0 /\ k[2] <= issued[k[1]]
             /\ \A t \in Tabs : call[t].pc # "idle" =>
                  /\ call[t].session \in Sessions
                  /\ call[t].token > 0 /\ call[t].token <= issued[call[t].session]
             /\ \A s \in Sessions : held[s] <= issued[s]

AnswersAreNew ==
  \A t \in Tabs : call[t].pc = "answered" =>
    /\ call[t].token # held[call[t].session]
    /\ \A u \in Tabs : u # t /\ call[u].pc \in {"refresh", "answered"} /\ call[u].session = call[t].session
                         => call[u].token # call[t].token
    /\ told[call[t].session] \/ <<call[t].session, call[t].token>> \in live

SessionsInv == SessionsTypeOK /\ NumbersOK /\ AnswersAreNew /\ RotationIsLinear /\ HeldTokenWorks

\* No session yet: the invariant of the sessions holds.
LEMMA SessionsInit == Init => SessionsInv
BY DEF Init, SessionsInv, SessionsTypeOK, NumbersOK, AnswersAreNew, RotationIsLinear, HeldTokenWorks,
       replacing, answering, Quiet, Waiting

\* A first token starts a chain that nobody else knows.
LEMMA IssueFirstInv ==
  ASSUME SessionsInv, NEW e \in Emails, NEW s \in Sessions, IssueFirst(e, s)
  PROVE  SessionsInv'
<1>1. /\ issued[s] = 0 /\ issued' = [issued EXCEPT ![s] = 1]
      /\ live' = live \cup {<<s, 1>>} /\ held' = [held EXCEPT ![s] = 1]
      /\ told' = told /\ call' = call
  BY DEF IssueFirst
<1>2. \A k \in live : k[1] # s
  BY <1>1 DEF SessionsInv, SessionsTypeOK, NumbersOK
<1>3. \A t \in Tabs : call[t].pc # "idle" => call[t].session # s
  BY <1>1 DEF SessionsInv, SessionsTypeOK, NumbersOK, Waiting
<1>4. SessionsTypeOK'
  BY <1>1 DEF SessionsInv, SessionsTypeOK
<1>5. NumbersOK'
  BY <1>1, <1>2, <1>3 DEF SessionsInv, SessionsTypeOK, NumbersOK
<1>6. AnswersAreNew'
  BY <1>1, <1>3 DEF SessionsInv, SessionsTypeOK, NumbersOK, AnswersAreNew
<1>7. RotationIsLinear'
  BY <1>1, <1>2, <1>3 DEF SessionsInv, SessionsTypeOK, RotationIsLinear, replacing
<1>8. \A t \in Tabs, x \in Sessions : /\ replacing(t, x) => replacing(t, x)'
                                      /\ answering(t, x) => answering(t, x)'
  BY <1>1 DEF replacing, answering
<1>9. HeldTokenWorks'
  BY <1>1, <1>8 DEF SessionsInv, SessionsTypeOK, HeldTokenWorks
<1> QED BY <1>4, <1>5, <1>6, <1>7, <1>9 DEF SessionsInv

\* A refresh asked for keeps it.
LEMMA AskInv ==
  ASSUME SessionsInv, NEW t \in Tabs, NEW s \in Sessions, AskRefresh(t, s)
  PROVE  SessionsInv'
<1>1. /\ call[t] = Quiet /\ held[s] > 0
      /\ call' = [call EXCEPT ![t] = [pc |-> "refresh", session |-> s, token |-> held[s]]]
      /\ live' = live /\ issued' = issued /\ held' = held /\ told' = told
  BY DEF AskRefresh, idle
<1>2. SessionsTypeOK'
  BY <1>1 DEF SessionsInv, SessionsTypeOK, Waiting
<1>3. \A u \in Tabs : u # t => call'[u] = call[u]
  BY <1>1 DEF SessionsInv, SessionsTypeOK
<1>4. call'[t].pc = "refresh" /\ call'[t].session = s /\ call'[t].token = held[s] /\ call[t].pc = "idle"
  BY <1>1 DEF SessionsInv, SessionsTypeOK, Quiet
<1>5. NumbersOK'
  BY <1>1, <1>3, <1>4 DEF SessionsInv, NumbersOK
<1>6. AnswersAreNew'
  BY <1>1, <1>3, <1>4 DEF SessionsInv, AnswersAreNew
<1>7. \A u \in Tabs, x \in Sessions : replacing(u, x)' <=> replacing(u, x)
  BY <1>3, <1>4 DEF replacing
<1>8. RotationIsLinear'
  BY <1>1, <1>7 DEF SessionsInv, RotationIsLinear
<1>9. \A u \in Tabs, x \in Sessions : answering(u, x)' <=> answering(u, x)
  BY <1>1, <1>3, <1>4 DEF answering
<1>10. HeldTokenWorks'
  BY <1>1, <1>7, <1>9 DEF SessionsInv, HeldTokenWorks
<1> QED BY <1>2, <1>5, <1>6, <1>8, <1>10 DEF SessionsInv

(***************************************************************************)
(* Consume: of all the tabs that present a token one gets it, and then     *)
(* nothing of the session is left in Redis until the next one is stored.   *)
(***************************************************************************)
LEMMA ConsumeInv ==
  ASSUME SessionsInv, NEW t \in Tabs, Consume(t)
  PROVE  SessionsInv'
<1>0. PICK s \in Sessions : s = call[t].session /\ call[t].pc = "refresh"
  BY DEF Consume, SessionsInv, NumbersOK
<1> DEFINE token == <<s, call[t].token>>
<1>1. /\ call[t].pc = "refresh" /\ s = call[t].session /\ issued' = issued /\ held' = held
      /\ \/ /\ token \in live /\ live' = live \ {token}
            /\ call' = [call EXCEPT ![t].pc = "consumed"] /\ told' = told
         \/ /\ live' \in {live, live \ {token}}
            /\ call' = [call EXCEPT ![t] = Quiet] /\ told' = [told EXCEPT ![s] = TRUE]
  BY <1>0 DEF Consume, leftBy, tell
<1>2. \A u \in Tabs : u # t => call'[u] = call[u]
  BY <1>1 DEF SessionsInv, SessionsTypeOK
<1>3. CASE /\ token \in live /\ live' = live \ {token}
           /\ call' = [call EXCEPT ![t].pc = "consumed"] /\ told' = told
  <2>1. /\ live' = live \ {token} /\ told' = told /\ held' = held
        /\ call' = [call EXCEPT ![t].pc = "consumed"]
    BY <1>1, <1>3
  <2>2. call'[t].pc = "consumed" /\ call'[t].session = s /\ call'[t].token = call[t].token
    BY <1>1, <2>1 DEF SessionsInv, SessionsTypeOK, Waiting
  <2>3. SessionsTypeOK'
    BY <1>1, <2>1 DEF SessionsInv, SessionsTypeOK, Waiting
  <2>4. NumbersOK'
    BY <1>1, <1>2, <2>1, <2>2 DEF SessionsInv, NumbersOK
  <2>5. (\A k \in live' : k[1] # s) /\ (\A u \in Tabs : ~replacing(u, s))
    BY <1>1, <1>3, <2>1 DEF SessionsInv, RotationIsLinear
  <2>6. AnswersAreNew'
    <3>1. ASSUME NEW u \in Tabs, call'[u].pc = "answered"
          PROVE  u # t /\ call'[u] = call[u] /\ <<call[u].session, call[u].token>> # token
      BY <3>1, <1>1, <1>2, <2>2 DEF SessionsInv, AnswersAreNew
    <3> QED BY <3>1, <1>2, <2>1, <2>2 DEF SessionsInv, AnswersAreNew
  <2>7. \A u \in Tabs, x \in Sessions : replacing(u, x)' <=> replacing(u, x) \/ (u = t /\ x = s)
    BY <1>1, <1>2, <2>2 DEF replacing
  <2>8. RotationIsLinear'
    BY <1>1, <2>1, <2>5, <2>7 DEF SessionsInv, RotationIsLinear
  <2>9. HeldTokenWorks'
    <3>1. \A u \in Tabs, x \in Sessions : x # s /\ answering(u, x) => answering(u, x)'
      BY <1>1, <1>2, <2>1, <2>2 DEF answering
    <3>2. \A x \in Sessions : x # s /\ <<x, held[x]>> \in live => <<x, held'[x]>> \in live'
      BY <1>1, <2>1
    <3>3. replacing(t, s)'
      BY <1>1, <2>7
    <3>4. ASSUME NEW x \in Sessions, held'[x] > 0, ~told'[x]
          PROVE  \/ <<x, held'[x]>> \in live'
                 \/ \E u \in Tabs : replacing(u, x)'
                 \/ \E u \in Tabs : answering(u, x)'
      <4>1. CASE x = s
        BY <3>3, <4>1
      <4>2. CASE x # s
        <5>1. held[x] > 0 /\ ~told[x]
          BY <3>4, <1>1, <2>1
        <5>2. \/ <<x, held[x]>> \in live
              \/ \E u \in Tabs : replacing(u, x)
              \/ \E u \in Tabs : answering(u, x)
          BY <5>1 DEF SessionsInv, HeldTokenWorks
        <5> QED BY <5>2, <4>2, <3>1, <3>2, <2>7
      <4> QED BY <4>1, <4>2
    <3> QED BY <3>4 DEF HeldTokenWorks
  <2> QED BY <2>3, <2>4, <2>6, <2>8, <2>9 DEF SessionsInv
<1>4. CASE /\ live' \in {live, live \ {token}}
           /\ call' = [call EXCEPT ![t] = Quiet] /\ told' = [told EXCEPT ![s] = TRUE]
  <2>1. /\ live' \subseteq live /\ (\A k \in live : k[1] # s => k \in live')
        /\ told' = [told EXCEPT ![s] = TRUE] /\ call' = [call EXCEPT ![t] = Quiet]
    BY <1>4
  <2>2. call'[t].pc = "idle"
    BY <2>1 DEF SessionsInv, SessionsTypeOK, Quiet
  <2>3. SessionsTypeOK'
    BY <1>1, <2>1 DEF SessionsInv, SessionsTypeOK, Waiting, Quiet
  <2>4. NumbersOK'
    BY <1>1, <1>2, <2>1, <2>2 DEF SessionsInv, NumbersOK
  <2>5. \A x \in Sessions : (told[x] => told'[x]) /\ (x = s => told'[x])
    BY <1>1, <2>1 DEF SessionsInv, SessionsTypeOK
  <2>6. AnswersAreNew'
    <3>1. ASSUME NEW u \in Tabs, call'[u].pc = "answered"
          PROVE  u # t /\ call'[u] = call[u] /\ call[u].session \in Sessions
      BY <3>1, <1>2, <2>2 DEF SessionsInv, NumbersOK
    <3> QED BY <3>1, <1>1, <1>2, <2>1, <2>2, <2>5 DEF SessionsInv, AnswersAreNew
  <2>7. \A u \in Tabs, x \in Sessions : replacing(u, x)' <=> replacing(u, x)
    BY <1>1, <1>2, <2>2 DEF replacing
  <2>8. RotationIsLinear'
    BY <2>1, <2>7 DEF SessionsInv, RotationIsLinear
  <2>9. \A u \in Tabs, x \in Sessions : x # s /\ answering(u, x) => answering(u, x)'
    BY <1>1, <1>2, <2>1, <2>2 DEF answering
  <2>10. HeldTokenWorks'
    BY <1>1, <2>1, <2>5, <2>7, <2>9 DEF SessionsInv, HeldTokenWorks
  <2> QED BY <2>3, <2>4, <2>6, <2>8, <2>10 DEF SessionsInv
<1> QED BY <1>1, <1>3, <1>4

(***************************************************************************)
(* Store: the tab that consumed the old token stores the next one, which   *)
(* nobody has seen yet, or fails and tells.                                *)
(***************************************************************************)
LEMMA StoreInv ==
  ASSUME SessionsInv, NEW t \in Tabs, Store(t)
  PROVE  SessionsInv'
<1>0. PICK s \in Sessions : s = call[t].session /\ call[t].pc = "consumed"
  BY DEF Store, SessionsInv, NumbersOK
<1> DEFINE n == issued[s] + 1
<1>1. /\ call[t].pc = "consumed" /\ s = call[t].session /\ issued' = [issued EXCEPT ![s] = @ + 1] /\ held' = held
      /\ \/ /\ live' = live \cup {<<s, n>>} /\ told' = told
            /\ call' = [call EXCEPT ![t].pc = "answered", ![t].token = n]
         \/ /\ live' \in {live, live \cup {<<s, n>>}}
            /\ call' = [call EXCEPT ![t] = Quiet] /\ told' = [told EXCEPT ![s] = TRUE]
  BY <1>0 DEF Store, storeFailed, tell
<1>2. \A u \in Tabs : u # t => call'[u] = call[u]
  BY <1>1 DEF SessionsInv, SessionsTypeOK
<1>3. /\ n \in Nat /\ issued'[s] = n /\ n > issued[s]
      /\ \A x \in Sessions : issued'[x] \in Nat /\ issued[x] \in Nat /\ issued[x] <= issued'[x] /\ held[x] \in Nat
  BY <1>1 DEF SessionsInv, SessionsTypeOK
<1>4. /\ \A k \in live : k[1] # s
      /\ \A u \in Tabs : replacing(u, s) => u = t
  BY <1>1 DEF SessionsInv, RotationIsLinear, replacing
<1>5. CASE /\ live' = live \cup {<<s, n>>} /\ told' = told
           /\ call' = [call EXCEPT ![t].pc = "answered", ![t].token = n]
  <2>1. call'[t].pc = "answered" /\ call'[t].session = s /\ call'[t].token = n
    BY <1>1, <1>5 DEF SessionsInv, SessionsTypeOK, Waiting
  <2>2. SessionsTypeOK'
    <3>0. call'[t] = [call[t] EXCEPT !.pc = "answered", !.token = n]
      BY <1>5 DEF SessionsInv, SessionsTypeOK
    <3>1. call'[t] \in Waiting
      BY <3>0, <1>3 DEF SessionsInv, SessionsTypeOK, Waiting
    <3>2. call' \in [Tabs -> Waiting]
      BY <1>2, <1>5, <3>1 DEF SessionsInv, SessionsTypeOK
    <3>3. live' \subseteq Sessions \X Nat
      BY <1>3, <1>5 DEF SessionsInv, SessionsTypeOK
    <3>4. issued' \in [Sessions -> Nat]
      BY <1>1, <1>3 DEF SessionsInv, SessionsTypeOK
    <3> QED BY <3>2, <3>3, <3>4, <1>1, <1>5 DEF SessionsInv, SessionsTypeOK
  <2>3. NumbersOK'
    <3>1. \A k \in live' : k[2] > 0 /\ k[2] <= issued'[k[1]]
      BY <1>1, <1>3, <1>5 DEF SessionsInv, SessionsTypeOK, NumbersOK
    <3>2. ASSUME NEW u \in Tabs, call'[u].pc # "idle"
          PROVE  call'[u].session \in Sessions /\ call'[u].token > 0 /\ call'[u].token <= issued'[call'[u].session]
      <4>1. CASE u = t
        BY <1>1, <1>3, <2>1, <4>1
      <4>2. CASE u # t
        <5>1. /\ call[u].session \in Sessions /\ call[u].token \in Nat
              /\ call[u].token > 0 /\ call[u].token <= issued[call[u].session]
          BY <3>2, <1>2, <4>2 DEF SessionsInv, SessionsTypeOK, NumbersOK, Waiting
        <5> QED BY <5>1, <4>2, <1>2, <1>3
      <4> QED BY <4>1, <4>2
    <3>3. \A x \in Sessions : held'[x] <= issued'[x]
      BY <1>1, <1>3 DEF SessionsInv, NumbersOK
    <3> QED BY <3>1, <3>2, <3>3 DEF NumbersOK
  <2>4. AnswersAreNew'
    <3>1. held[s] # n
      BY <1>1, <1>3 DEF SessionsInv, NumbersOK
    <3>2. \A u \in Tabs : u # t /\ call[u].pc # "idle" /\ call[u].session = s => call[u].token # n
      BY <1>1, <1>3 DEF SessionsInv, SessionsTypeOK, NumbersOK, Waiting
    <3>3. ASSUME NEW u \in Tabs, call'[u].pc = "answered"
          PROVE  /\ call'[u].token # held'[call'[u].session]
                 /\ \A w \in Tabs : /\ w # u /\ call'[w].pc \in {"refresh", "answered"}
                                    /\ call'[w].session = call'[u].session
                                  => call'[w].token # call'[u].token
                 /\ told'[call'[u].session] \/ <<call'[u].session, call'[u].token>> \in live'
      <4>1. CASE u = t
        <5>1. call'[u].token # held'[call'[u].session]
          BY <1>1, <2>1, <3>1, <4>1
        <5>2. ASSUME NEW w \in Tabs, w # u, call'[w].pc \in {"refresh", "answered"},
                     call'[w].session = call'[u].session
              PROVE  call'[w].token # call'[u].token
          <6>1. call'[w] = call[w] /\ call[w].pc # "idle" /\ call[w].session = s
            BY <5>2, <4>1, <1>2, <2>1
          <6> QED BY <6>1, <5>2, <3>2, <2>1, <4>1
        <5>3. <<call'[u].session, call'[u].token>> \in live'
          BY <1>5, <2>1, <4>1
        <5> QED BY <5>1, <5>2, <5>3
      <4>2. CASE u # t
        <5>1. call'[u] = call[u] /\ call[u].pc = "answered"
          BY <3>3, <4>2, <1>2
        <5>2. call'[u].token # held'[call'[u].session]
          BY <5>1, <1>1 DEF SessionsInv, AnswersAreNew
        <5>3. ASSUME NEW w \in Tabs, w # u, call'[w].pc \in {"refresh", "answered"},
                     call'[w].session = call'[u].session
              PROVE  call'[w].token # call'[u].token
          <6>1. CASE w = t
            BY <6>1, <5>1, <5>3, <4>2, <3>2, <2>1
          <6>2. CASE w # t
            BY <6>2, <5>1, <5>3, <1>2 DEF SessionsInv, AnswersAreNew
          <6> QED BY <6>1, <6>2
        <5>4. told'[call'[u].session] \/ <<call'[u].session, call'[u].token>> \in live'
          BY <5>1, <1>5 DEF SessionsInv, AnswersAreNew
        <5> QED BY <5>2, <5>3, <5>4
      <4> QED BY <4>1, <4>2
    <3> QED BY <3>3 DEF AnswersAreNew
  <2>5. \A u \in Tabs, x \in Sessions : replacing(u, x)' => replacing(u, x) /\ x # s
    BY <1>2, <1>4, <2>1 DEF replacing
  <2>6. RotationIsLinear'
    BY <1>1, <1>4, <1>5, <2>5 DEF SessionsInv, RotationIsLinear
  <2>7. \A u \in Tabs, x \in Sessions : x # s => /\ replacing(u, x) => replacing(u, x)'
                                                 /\ answering(u, x) => answering(u, x)'
    BY <1>1, <1>2, <1>5, <2>1 DEF replacing, answering
  <2>8. answering(t, s)'
    BY <1>1, <1>5, <2>1 DEF answering
  <2>9. HeldTokenWorks'
    <3>1. ASSUME NEW x \in Sessions, held'[x] > 0, ~told'[x]
          PROVE  \/ <<x, held'[x]>> \in live'
                 \/ \E u \in Tabs : replacing(u, x)'
                 \/ \E u \in Tabs : answering(u, x)'
      <4>1. CASE x = s
        BY <2>8, <4>1
      <4>2. CASE x # s
        <5>1. \/ <<x, held[x]>> \in live
              \/ \E u \in Tabs : replacing(u, x)
              \/ \E u \in Tabs : answering(u, x)
          BY <3>1, <1>1, <1>5 DEF SessionsInv, HeldTokenWorks
        <5> QED BY <5>1, <4>2, <2>7, <1>1, <1>5
      <4> QED BY <4>1, <4>2
    <3> QED BY <3>1 DEF HeldTokenWorks
  <2> QED BY <2>2, <2>3, <2>4, <2>6, <2>9 DEF SessionsInv
<1>6. CASE /\ live' \in {live, live \cup {<<s, n>>}}
           /\ call' = [call EXCEPT ![t] = Quiet] /\ told' = [told EXCEPT ![s] = TRUE]
  <2>0. live \subseteq live' /\ live' \subseteq live \cup {<<s, n>>}
    BY <1>6
  <2>1. call'[t].pc = "idle"
    BY <1>6 DEF SessionsInv, SessionsTypeOK, Quiet
  <2>2. SessionsTypeOK'
    BY <1>1, <1>3, <1>6, <2>0 DEF SessionsInv, SessionsTypeOK, Waiting, Quiet
  <2>3. NumbersOK'
    <3>1. \A k \in live' : k[2] > 0 /\ k[2] <= issued'[k[1]]
      BY <1>1, <1>3, <2>0 DEF SessionsInv, SessionsTypeOK, NumbersOK
    <3>2. ASSUME NEW u \in Tabs, call'[u].pc # "idle"
          PROVE  call'[u].session \in Sessions /\ call'[u].token > 0 /\ call'[u].token <= issued'[call'[u].session]
      <4>1. u # t /\ call'[u] = call[u]
        BY <3>2, <1>2, <2>1
      <4>2. /\ call[u].session \in Sessions /\ call[u].token \in Nat
            /\ call[u].token > 0 /\ call[u].token <= issued[call[u].session]
        BY <3>2, <4>1 DEF SessionsInv, SessionsTypeOK, NumbersOK, Waiting
      <4> QED BY <4>1, <4>2, <1>3
    <3>3. \A x \in Sessions : held'[x] <= issued'[x]
      BY <1>1, <1>3 DEF SessionsInv, NumbersOK
    <3> QED BY <3>1, <3>2, <3>3 DEF NumbersOK
  <2>4. \A x \in Sessions : (told[x] => told'[x]) /\ (x = s => told'[x])
    BY <1>1, <1>6 DEF SessionsInv, SessionsTypeOK
  <2>5. AnswersAreNew'
    <3>1. ASSUME NEW u \in Tabs, call'[u].pc = "answered"
          PROVE  u # t /\ call'[u] = call[u] /\ call[u].session \in Sessions
      BY <3>1, <1>2, <2>1 DEF SessionsInv, NumbersOK
    <3> QED BY <3>1, <1>1, <1>2, <2>0, <2>1, <2>4 DEF SessionsInv, AnswersAreNew
  <2>6. \A u \in Tabs, x \in Sessions : replacing(u, x)' => replacing(u, x)
    BY <1>2, <2>1 DEF replacing
  <2>7. RotationIsLinear'
    <3>1. \A u \in Tabs : ~replacing(u, s)'
      BY <1>4, <2>1, <2>6 DEF replacing
    <3>2. \A k \in live' : k \in live \/ k = <<s, n>>
      BY <2>0
    <3> QED BY <3>1, <3>2, <1>4, <2>6 DEF SessionsInv, RotationIsLinear
  <2>8. \A u \in Tabs, x \in Sessions : x # s => /\ replacing(u, x) => replacing(u, x)'
                                                 /\ answering(u, x) => answering(u, x)'
    BY <1>1, <1>2, <2>0, <2>1 DEF replacing, answering
  <2>9. HeldTokenWorks'
    BY <1>1, <2>0, <2>4, <2>8 DEF SessionsInv, HeldTokenWorks
  <2> QED BY <2>2, <2>3, <2>5, <2>7, <2>9 DEF SessionsInv
<1> QED BY <1>1, <1>5, <1>6

(***************************************************************************)
(* Answer: the browser takes the token of the answer, or never sees it.    *)
(***************************************************************************)
LEMMA AnswerInv ==
  ASSUME SessionsInv, NEW t \in Tabs, Answer(t)
  PROVE  SessionsInv'
<1>0. PICK s \in Sessions : s = call[t].session /\ call[t].pc = "answered"
  BY DEF Answer, SessionsInv, NumbersOK
<1> DEFINE n == call[t].token
<1>1. /\ live' = live /\ issued' = issued /\ call' = [call EXCEPT ![t] = Quiet]
      /\ \/ held' = [held EXCEPT ![s] = n] /\ told' = told
         \/ held' = held /\ told' = [told EXCEPT ![s] = TRUE]
  BY <1>0 DEF Answer, tell
<1>2. /\ \A u \in Tabs : u # t => call'[u] = call[u]
      /\ call'[t].pc = "idle" /\ n \in Nat
  BY <1>1 DEF SessionsInv, SessionsTypeOK, Quiet, Waiting
<1>3. SessionsTypeOK'
  BY <1>1, <1>2 DEF SessionsInv, SessionsTypeOK, Waiting, Quiet
<1>4. NumbersOK'
  <2>1. \A x \in Sessions : held'[x] <= issued'[x]
    BY <1>0, <1>1, <1>2 DEF SessionsInv, SessionsTypeOK, NumbersOK
  <2> QED BY <2>1, <1>1, <1>2 DEF SessionsInv, NumbersOK
<1>5. \A x \in Sessions : /\ told[x] => told'[x]
                          /\ held'[x] # held[x] => x = s /\ held'[x] = n
                          /\ x # s => held'[x] = held[x] /\ told'[x] = told[x]
  BY <1>1 DEF SessionsInv, SessionsTypeOK
<1>6. AnswersAreNew'
  <2>1. ASSUME NEW u \in Tabs, call'[u].pc = "answered"
        PROVE  /\ call'[u] = call[u] /\ u # t /\ call[u].session \in Sessions
               /\ call[u].session = s => call[u].token # n
    BY <2>1, <1>0, <1>2 DEF SessionsInv, NumbersOK, AnswersAreNew
  <2>2. ASSUME NEW u \in Tabs, call'[u].pc = "answered"
        PROVE  call'[u].token # held'[call'[u].session]
    <3>1. /\ call'[u] = call[u] /\ call[u].session \in Sessions
          /\ call[u].session = s => call[u].token # n
      BY <2>1, <2>2
    <3>2. call[u].token # held[call[u].session]
      BY <2>2, <3>1 DEF SessionsInv, AnswersAreNew
    <3>3. CASE held'[call[u].session] = held[call[u].session]
      BY <3>1, <3>2, <3>3
    <3>4. CASE held'[call[u].session] # held[call[u].session]
      BY <3>1, <3>4, <1>5
    <3> QED BY <3>3, <3>4
  <2>3. ASSUME NEW u \in Tabs, call'[u].pc = "answered",
               NEW w \in Tabs, w # u, call'[w].pc \in {"refresh", "answered"},
               call'[w].session = call'[u].session
        PROVE  call'[w].token # call'[u].token
    <3>1. w # t /\ call'[w] = call[w]
      BY <2>3, <1>2
    <3> QED BY <2>1, <2>3, <3>1 DEF SessionsInv, AnswersAreNew
  <2>4. ASSUME NEW u \in Tabs, call'[u].pc = "answered"
        PROVE  told'[call'[u].session] \/ <<call'[u].session, call'[u].token>> \in live'
    BY <2>1, <2>4, <1>1, <1>5 DEF SessionsInv, AnswersAreNew
  <2> QED BY <2>2, <2>3, <2>4 DEF AnswersAreNew
<1>7. \A u \in Tabs, x \in Sessions : replacing(u, x)' <=> replacing(u, x)
  BY <1>0, <1>2 DEF replacing
<1>8. RotationIsLinear'
  BY <1>1, <1>7 DEF SessionsInv, RotationIsLinear
<1>9. \A u \in Tabs, x \in Sessions : x # s => (answering(u, x) <=> answering(u, x)')
  BY <1>0, <1>1, <1>2 DEF answering
<1>10. HeldTokenWorks'
  <2>1. ASSUME NEW x \in Sessions, held'[x] > 0, ~told'[x]
        PROVE  \/ <<x, held'[x]>> \in live'
               \/ \E u \in Tabs : replacing(u, x)'
               \/ \E u \in Tabs : answering(u, x)'
    <3>1. CASE x = s
      <4>1. held' = [held EXCEPT ![s] = n] /\ told' = told
        BY <1>1, <2>1, <3>1 DEF SessionsInv, SessionsTypeOK
      <4>2. held'[s] = n /\ ~told[s]
        BY <4>1, <2>1, <3>1 DEF SessionsInv, SessionsTypeOK
      <4>3. <<s, n>> \in live
        BY <4>2, <1>0 DEF SessionsInv, AnswersAreNew
      <4> QED BY <4>2, <4>3, <3>1, <1>1
    <3>2. CASE x # s
      <4>1. held'[x] = held[x] /\ told'[x] = told[x]
        BY <3>2, <1>5
      <4>2. \/ <<x, held[x]>> \in live
            \/ \E u \in Tabs : replacing(u, x)
            \/ \E u \in Tabs : answering(u, x)
        BY <4>1, <2>1 DEF SessionsInv, HeldTokenWorks
      <4> QED BY <4>1, <4>2, <3>2, <1>1, <1>7, <1>9
    <3> QED BY <3>1, <3>2
  <2> QED BY <2>1 DEF HeldTokenWorks
<1> QED BY <1>3, <1>4, <1>6, <1>8, <1>10 DEF SessionsInv

(***************************************************************************)
(* Logout and expiry take a token away and say so.                         *)
(***************************************************************************)
LEMMA ForgetInv ==
  ASSUME SessionsInv, NEW s \in Sessions, NEW k,
         live' = live \ {<<s, k>>},
         issued' = issued, call' = call, told' = [told EXCEPT ![s] = TRUE],
         held' = held \/ held' = [held EXCEPT ![s] = 0]
  PROVE  SessionsInv'
<1>1. SessionsTypeOK'
  BY DEF SessionsInv, SessionsTypeOK
<1>2. \A x \in Sessions : /\ told[x] => told'[x]
                          /\ x = s => told'[x]
                          /\ x # s => held'[x] = held[x] /\ told'[x] = told[x]
                          /\ held'[x] = held[x] \/ held'[x] = 0
  BY DEF SessionsInv, SessionsTypeOK
<1>3. NumbersOK'
  <2>1. \A x \in Sessions : held'[x] <= issued'[x]
    BY <1>2 DEF SessionsInv, SessionsTypeOK, NumbersOK
  <2> QED BY <2>1 DEF SessionsInv, NumbersOK
<1>4. AnswersAreNew'
  <2>1. ASSUME NEW t \in Tabs, call[t].pc = "answered"
        PROVE  call[t].session \in Sessions /\ call[t].token > 0 /\ call[t].token \in Nat
    BY <2>1 DEF SessionsInv, SessionsTypeOK, NumbersOK, Waiting
  <2>2. ASSUME NEW t \in Tabs, call[t].pc = "answered"
        PROVE  call[t].token # held'[call[t].session]
    <3>1. call[t].token # 0
      BY <2>1, <2>2
    <3> QED BY <2>1, <2>2, <3>1, <1>2 DEF SessionsInv, AnswersAreNew
  <2>3. ASSUME NEW t \in Tabs, call[t].pc = "answered"
        PROVE  told'[call[t].session] \/ <<call[t].session, call[t].token>> \in live'
    <3>1. CASE call[t].session = s
      BY <2>1, <2>3, <3>1, <1>2
    <3>2. CASE call[t].session # s
      BY <2>1, <2>3, <3>2, <1>2 DEF SessionsInv, AnswersAreNew
    <3> QED BY <3>1, <3>2
  <2> QED BY <2>2, <2>3 DEF SessionsInv, AnswersAreNew
<1>5. \A t \in Tabs, x \in Sessions : replacing(t, x)' <=> replacing(t, x)
  BY DEF replacing
<1>6. RotationIsLinear'
  BY <1>5 DEF SessionsInv, RotationIsLinear
<1>7. \A t \in Tabs, x \in Sessions : x # s /\ answering(t, x) => answering(t, x)'
  BY DEF answering
<1>8. HeldTokenWorks'
  <2>1. ASSUME NEW x \in Sessions, held'[x] > 0, ~told'[x]
        PROVE  \/ <<x, held'[x]>> \in live'
               \/ \E u \in Tabs : replacing(u, x)'
               \/ \E u \in Tabs : answering(u, x)'
    <3>1. x # s /\ held'[x] = held[x] /\ told'[x] = told[x]
      BY <2>1, <1>2
    <3>2. \/ <<x, held[x]>> \in live
          \/ \E u \in Tabs : replacing(u, x)
          \/ \E u \in Tabs : answering(u, x)
      BY <3>1, <2>1 DEF SessionsInv, HeldTokenWorks
    <3>3. <<x, held[x]>> # <<s, k>>
      BY <3>1
    <3> QED BY <3>1, <3>2, <3>3, <1>5, <1>7
  <2> QED BY <2>1 DEF HeldTokenWorks
<1> QED BY <1>1, <1>3, <1>4, <1>6, <1>8 DEF SessionsInv

\* So does a logout, ...
LEMMA LogoutInv ==
  ASSUME SessionsInv, NEW t \in Tabs, NEW s \in Sessions, Logout(t, s)
  PROVE  SessionsInv'
<1>1. /\ live' = live \ {<<s, held[s]>>} /\ issued' = issued /\ call' = call
      /\ told' = [told EXCEPT ![s] = TRUE] /\ held' = [held EXCEPT ![s] = 0]
  BY DEF Logout, tell
<1> QED BY <1>1, ForgetInv

\* ... and a token that expires.
LEMMA ExpireInv ==
  ASSUME SessionsInv, NEW token \in live, Expire(token)
  PROVE  SessionsInv'
<1>1. PICK s \in Sessions, k \in Nat : token = <<s, k>>
  BY DEF SessionsInv, SessionsTypeOK
<1>2. /\ live' = live \ {<<s, k>>} /\ issued' = issued /\ call' = call
      /\ told' = [told EXCEPT ![s] = TRUE] /\ held' = held
  BY <1>1 DEF Expire, tell
<1> QED BY <1>2, ForgetInv

\* Every step keeps the invariant of the sessions.
LEMMA SessionsStep == SessionsInv /\ [Next]_vars => SessionsInv'
<1> SUFFICES ASSUME SessionsInv, [Next]_vars PROVE SessionsInv'
  OBVIOUS
<1>1. CASE UNCHANGED sessionVars
  <2>1. live' = live /\ issued' = issued /\ held' = held /\ told' = told /\ call' = call
    BY <1>1 DEF sessionVars
  <2>2. SessionsTypeOK'
    BY <2>1 DEF SessionsInv, SessionsTypeOK
  <2>3. NumbersOK'
    BY <2>1 DEF SessionsInv, NumbersOK
  <2>4. AnswersAreNew'
    BY <2>1 DEF SessionsInv, AnswersAreNew
  <2>5. \A t \in Tabs, s \in Sessions : (replacing(t, s)' <=> replacing(t, s))
                                         /\ (answering(t, s)' <=> answering(t, s))
    BY <2>1 DEF replacing, answering
  <2>6. RotationIsLinear'
    BY <2>1, <2>5 DEF SessionsInv, RotationIsLinear
  <2>7. HeldTokenWorks'
    BY <2>1, <2>5 DEF SessionsInv, HeldTokenWorks
  <2> QED BY <2>2, <2>3, <2>4, <2>6, <2>7 DEF SessionsInv
<1>2. \/ UNCHANGED sessionVars
      \/ \E e \in Emails, s \in Sessions : IssueFirst(e, s)
      \/ \E t \in Tabs, s \in Sessions : AskRefresh(t, s) \/ Logout(t, s)
      \/ \E t \in Tabs : Consume(t) \/ Store(t) \/ Answer(t)
      \/ \E token \in live : Expire(token)
  BY DEF Next, vars, Register, Login, SignInWithIdentity, FindNoIdentity, CommitCallback, IssueNone
<1> QED BY <1>1, <1>2, IssueFirstInv, AskInv, LogoutInv, ConsumeInv, StoreInv, AnswerInv, ExpireInv

\* So it holds always.
LEMMA SessionsHold == Spec => []SessionsInv
BY SessionsInit, SessionsStep, PTL DEF Spec

(***************************************************************************)
(* Rotation: however many tabs present one token, a session never has two  *)
(* tokens that can be used.                                                *)
(***************************************************************************)
THEOREM RotationHolds == Spec => []RotationIsLinear
BY SessionsHold, PTL DEF SessionsInv

(***************************************************************************)
(* Refresh consumes before it stores, and still no browser is logged out   *)
(* without having been told of a failure.                                  *)
(***************************************************************************)
THEOREM HeldTokenHolds == Spec => []HeldTokenWorks
BY SessionsHold, PTL DEF SessionsInv

-----------------------------------------------------------------------------
(***************************************************************************)
(* Friends: any users, requests and calls under way.                       *)
(***************************************************************************)
Rows  == [id : Nat, requester : Users, addressee : Users, status : Statuses]
Calls == [op : Ops, by : Users, id : Nat, pair : SUBSET Users]

FriendsTypeOK == /\ rows \subseteq Rows
                 /\ nextID \in Nat
                 /\ calls \subseteq Calls
                 /\ wants \in [Users -> SUBSET Users]

\* Ids are unique and never reused, and so are the pairs of users.
KeysOK == /\ \A r \in rows : r.id < nextID /\ r.requester # r.addressee
          /\ \A r, q \in rows : r.id = q.id \/ pairOf(r) = pairOf(q) => r = q

\* A call knows the row with its id, if that is still there: whom it is
\* between and which of the two the caller is.
CallsOK == \A ongoing \in calls :
             /\ ongoing.id < nextID
             /\ \A r \in rows : r.id = ongoing.id =>
                  /\ ongoing.pair = pairOf(r)
                  /\ ongoing.by = IF ongoing.op = "cancel" THEN r.requester ELSE r.addressee

\* A request is wanted by its sender as long as it is there, and by its
\* addressee once an acceptance is on its way.
WantsOK == /\ \A r \in rows : r.addressee \in wants[r.requester]
           /\ \A ongoing \in calls, r \in rows :
                ongoing.op = "accepted" /\ r.id = ongoing.id => r.requester \in wants[r.addressee]

FriendsInv == FriendsTypeOK /\ KeysOK /\ CallsOK /\ WantsOK /\ FriendshipIsMutual

(***************************************************************************)
(* No row and no call: nothing to show.                                    *)
(***************************************************************************)
LEMMA FriendsInitInv == FriendsInit => FriendsInv
BY DEF FriendsInit, FriendsInv, FriendsTypeOK, KeysOK, CallsOK, WantsOK, FriendshipIsMutual

(***************************************************************************)
(* Send inserts a row with a new id for a pair that has none.              *)
(***************************************************************************)
LEMMA SendInv ==
  ASSUME FriendsInv, NEW a \in Users, NEW b \in Users, Send(a, b)
  PROVE  FriendsInv'
<1> DEFINE new == [id |-> nextID, requester |-> a, addressee |-> b, status |-> "pending"]
<1>1. /\ a # b /\ rows' = rows \cup {new} /\ nextID' = nextID + 1 /\ calls' = calls
      /\ wants' = [wants EXCEPT ![a] = @ \cup {b}]
      /\ \A r \in rows : pairOf(r) # Pair(a, b)
  BY DEF Send, canonicalPairIsFree, between
<1>2. new \in Rows /\ pairOf(new) = Pair(a, b)
  BY DEF Rows, Statuses, FriendsInv, FriendsTypeOK, pairOf
<1>3. FriendsTypeOK'
  BY <1>1, <1>2 DEF FriendsInv, FriendsTypeOK
<1>4. KeysOK'
  <2>1. \A r \in rows : r.id < nextID /\ r.id \in Nat /\ pairOf(r) # pairOf(new)
    BY <1>1, <1>2 DEF FriendsInv, KeysOK, FriendsTypeOK, Rows
  <2>2. \A r \in rows' : r.id < nextID' /\ r.requester # r.addressee
    BY <1>1, <2>1 DEF FriendsInv, KeysOK, FriendsTypeOK
  <2>3. ASSUME NEW r \in rows', NEW q \in rows', r.id = q.id \/ pairOf(r) = pairOf(q)
        PROVE  r = q
    <3>1. CASE r \in rows /\ q \in rows
      BY <2>3, <3>1 DEF FriendsInv, KeysOK
    <3>2. CASE r = new /\ q = new
      BY <3>2
    <3>3. CASE r \in rows /\ q = new
      BY <2>3, <2>1, <3>3 DEF FriendsInv, FriendsTypeOK
    <3>4. CASE r = new /\ q \in rows
      BY <2>3, <2>1, <3>4 DEF FriendsInv, FriendsTypeOK
    <3> QED BY <1>1, <3>1, <3>2, <3>3, <3>4
  <2> QED BY <2>2, <2>3 DEF KeysOK, pairOf, Pair
<1>5. \A ongoing \in calls : ongoing.id \in Nat /\ ongoing.id < nextID /\ ongoing.id # new.id
  BY DEF FriendsInv, FriendsTypeOK, Calls, CallsOK
<1>6. CallsOK'
  BY <1>1, <1>5 DEF FriendsInv, CallsOK, FriendsTypeOK, pairOf, Pair
<1>7. \A u \in Users : wants[u] \subseteq wants'[u]
  BY <1>1 DEF FriendsInv, FriendsTypeOK
<1>8. b \in wants'[a]
  BY <1>1 DEF FriendsInv, FriendsTypeOK
<1>9. WantsOK'
  BY <1>1, <1>5, <1>7, <1>8 DEF FriendsInv, FriendsTypeOK, Rows, WantsOK
<1>10. FriendshipIsMutual'
  BY <1>1, <1>7 DEF FriendsInv, FriendsTypeOK, Rows, FriendshipIsMutual
<1> QED BY <1>3, <1>4, <1>6, <1>9, <1>10 DEF FriendsInv

(***************************************************************************)
(* Load remembers the row it checked.                                      *)
(***************************************************************************)
LEMMA LoadInv ==
  ASSUME FriendsInv, NEW u \in Users, NEW r \in rows, NEW op \in Ops, Load(u, r, op)
  PROVE  FriendsInv'
<1> DEFINE new == [op |-> op, by |-> u, id |-> r.id, pair |-> pairOf(r)]
<1>1. /\ rows' = rows /\ nextID' = nextID /\ calls' = calls \cup {new}
      /\ IF op = "cancel" THEN r.requester = u ELSE r.addressee = u
      /\ wants' = IF op = "accepted" THEN [wants EXCEPT ![u] = @ \cup (pairOf(r) \ {u})] ELSE wants
  BY DEF Load, mayCancel, mayRespond
<1>2. r \in Rows /\ pairOf(r) \subseteq Users /\ r.requester # r.addressee
  BY DEF FriendsInv, FriendsTypeOK, KeysOK, Rows, pairOf, Pair
<1>3. new \in Calls
  BY <1>2 DEF Calls, Rows
<1>4. FriendsTypeOK'
  BY <1>1, <1>2, <1>3 DEF FriendsInv, FriendsTypeOK
<1>5. KeysOK'
  BY <1>1 DEF FriendsInv, KeysOK, pairOf, Pair
<1>6. CallsOK'
  BY <1>1 DEF FriendsInv, CallsOK, KeysOK, pairOf, Pair
<1>7. \A v \in Users : wants[v] \subseteq wants'[v]
  BY <1>1 DEF FriendsInv, FriendsTypeOK
<1>8. op = "accepted" => r.requester \in wants'[r.addressee]
  <2> SUFFICES ASSUME op = "accepted" PROVE r.requester \in wants'[r.addressee]
    OBVIOUS
  <2>1. r.addressee = u /\ r.requester \in pairOf(r) \ {u}
    BY <1>1, <1>2 DEF pairOf, Pair
  <2> QED BY <2>1, <1>1 DEF FriendsInv, FriendsTypeOK
<1>9. WantsOK'
  BY <1>1, <1>2, <1>7, <1>8 DEF FriendsInv, FriendsTypeOK, Rows, KeysOK, WantsOK
<1>10. FriendshipIsMutual'
  BY <1>1, <1>7 DEF FriendsInv, FriendsTypeOK, Rows, FriendshipIsMutual
<1> QED BY <1>4, <1>5, <1>6, <1>9, <1>10 DEF FriendsInv

(***************************************************************************)
(* Removing rows, calls and wishes: the wishes lost are between two users  *)
(* who are left without a row.                                             *)
(***************************************************************************)
LEMMA RemovalInv ==
  ASSUME FriendsInv,
         rows' \subseteq rows, calls' \subseteq calls, nextID' = nextID,
         wants' \in [Users -> SUBSET Users],
         \A r \in rows' : /\ r.addressee \in wants[r.requester] => r.addressee \in wants'[r.requester]
                          /\ r.requester \in wants[r.addressee] => r.requester \in wants'[r.addressee]
  PROVE  FriendsInv'
<1>1. FriendsTypeOK'
  BY DEF FriendsInv, FriendsTypeOK
<1>2. KeysOK'
  BY DEF FriendsInv, KeysOK, pairOf, Pair
<1>3. CallsOK'
  BY DEF FriendsInv, CallsOK, pairOf, Pair
<1>4. WantsOK'
  BY DEF FriendsInv, WantsOK
<1>5. FriendshipIsMutual'
  BY DEF FriendsInv, FriendshipIsMutual
<1> QED BY <1>1, <1>2, <1>3, <1>4, <1>5 DEF FriendsInv

\* A row deleted by its id keeps the invariant of the requests.
LEMMA DeleteInv ==
  ASSUME FriendsInv, NEW ongoing \in calls, Delete(ongoing)
  PROVE  FriendsInv'
<1>1. /\ rows' = rows \ byID(ongoing.id) /\ calls' = calls \ {ongoing} /\ nextID' = nextID
      /\ wants' = IF byID(ongoing.id) = {} THEN wants ELSE [wants EXCEPT ![ongoing.by] = @ \ ongoing.pair]
  BY DEF Delete, reached
<1>2. CASE byID(ongoing.id) = {}
  BY <1>1, <1>2, RemovalInv DEF FriendsInv, FriendsTypeOK
<1>3. CASE byID(ongoing.id) # {}
  <2>1. PICK q \in rows : q.id = ongoing.id
    BY <1>3 DEF byID
  <2>2. ongoing.by \in ongoing.pair /\ ongoing.pair = pairOf(q) /\ ongoing.by \in Users
    BY <2>1 DEF FriendsInv, CallsOK, pairOf, Pair, FriendsTypeOK, Calls
  <2>3. \A r \in rows' : r \in rows /\ pairOf(r) # ongoing.pair
    BY <1>1, <2>1, <2>2 DEF FriendsInv, KeysOK, byID
  <2>4. wants' = [wants EXCEPT ![ongoing.by] = @ \ ongoing.pair]
    BY <1>1, <1>3
  <2>5. ASSUME NEW x \in Users, NEW y \in Users, x # y, Pair(x, y) # ongoing.pair, y \in wants[x]
        PROVE  y \in wants'[x]
    <3>1. x = ongoing.by => y \notin ongoing.pair
      BY <2>5, <2>1, <2>2 DEF Pair, pairOf
    <3> QED BY <2>5, <2>4, <3>1 DEF FriendsInv, FriendsTypeOK
  <2>6. \A r \in rows' : r.requester \in Users /\ r.addressee \in Users /\ r.requester # r.addressee
    BY <2>3 DEF FriendsInv, FriendsTypeOK, Rows, KeysOK
  <2>7. \A r \in rows' : Pair(r.requester, r.addressee) # ongoing.pair /\ Pair(r.addressee, r.requester) # ongoing.pair
    BY <2>3 DEF pairOf, Pair
  <2>8. wants' \in [Users -> SUBSET Users]
    BY <2>4 DEF FriendsInv, FriendsTypeOK
  <2> QED BY <1>1, <2>5, <2>6, <2>7, <2>8, RemovalInv
<1> QED BY <1>2, <1>3

\* Ending a friendship keeps it.
LEMMA UnfriendInv ==
  ASSUME FriendsInv, NEW a \in Users, NEW b \in Users, Unfriend(a, b)
  PROVE  FriendsInv'
<1>1. /\ a # b /\ rows' = rows \ between(a, b) /\ calls' = calls /\ nextID' = nextID
      /\ wants' = [wants EXCEPT ![a] = @ \ {b}, ![b] = @ \ {a}]
  BY DEF Unfriend
<1>2. \A r \in rows' : /\ r.requester \in Users /\ r.addressee \in Users
                       /\ ~(r.requester = a /\ r.addressee = b) /\ ~(r.requester = b /\ r.addressee = a)
  BY <1>1 DEF between, pairOf, Pair, FriendsInv, FriendsTypeOK, Rows
<1>3. \A x, y \in Users : ~(x = a /\ y = b) /\ ~(x = b /\ y = a) /\ y \in wants[x] => y \in wants'[x]
  BY <1>1 DEF FriendsInv, FriendsTypeOK
<1>4. wants' \in [Users -> SUBSET Users]
  BY <1>1 DEF FriendsInv, FriendsTypeOK
<1> QED BY <1>1, <1>2, <1>3, <1>4, RemovalInv

(***************************************************************************)
(* UpdateStatus changes at most one row, by its id, and accepts only what  *)
(* its addressee has accepted.                                             *)
(***************************************************************************)
LEMMA UpdateInv ==
  ASSUME FriendsInv, NEW ongoing \in calls, UpdateStatus(ongoing)
  PROVE  FriendsInv'
<1> DEFINE after(r) == IF r.id = ongoing.id THEN [r EXCEPT !.status = ongoing.op] ELSE r
<1>1. /\ ongoing.op # "cancel" /\ rows' = {after(r) : r \in rows}
      /\ calls' = calls \ {ongoing} /\ nextID' = nextID /\ wants' = wants
  BY DEF UpdateStatus, reached, byID
<1>2. ongoing.op \in Statuses
  BY <1>1 DEF FriendsInv, FriendsTypeOK, Calls, Ops, Statuses
<1>3. \A r \in rows : /\ after(r) \in Rows /\ after(r).id = r.id
                      /\ after(r).requester = r.requester /\ after(r).addressee = r.addressee
                      /\ after(r).status = "accepted" => r.status = "accepted" \/ (r.id = ongoing.id /\ ongoing.op = "accepted")
  BY <1>2 DEF FriendsInv, FriendsTypeOK, Rows
<1>4. FriendsTypeOK'
  BY <1>1, <1>3 DEF FriendsInv, FriendsTypeOK
<1>5. \A r \in rows : pairOf(after(r)) = pairOf(r)
  BY <1>3 DEF pairOf
<1>6. KeysOK'
  <2>1. ASSUME NEW r \in rows'
        PROVE  r.id < nextID' /\ r.requester # r.addressee
    <3>1. PICK r0 \in rows : r = after(r0)
      BY <1>1
    <3>2. r.id = r0.id /\ r.requester = r0.requester /\ r.addressee = r0.addressee
      BY <3>1, <1>3
    <3> QED BY <3>2, <1>1 DEF FriendsInv, KeysOK
  <2>2. ASSUME NEW r \in rows', NEW q \in rows', r.id = q.id \/ pairOf(r) = pairOf(q)
        PROVE  r = q
    <3>1. PICK r0 \in rows : r = after(r0)
      BY <1>1
    <3>2. PICK q0 \in rows : q = after(q0)
      BY <1>1
    <3>3. r0.id = q0.id \/ pairOf(r0) = pairOf(q0)
      BY <2>2, <3>1, <3>2, <1>3, <1>5
    <3>4. r0 = q0
      BY <3>3 DEF FriendsInv, KeysOK
    <3> QED BY <3>1, <3>2, <3>4
  <2> QED BY <2>1, <2>2 DEF KeysOK, pairOf, Pair
<1>7. CallsOK'
  <2>1. ASSUME NEW c \in calls', NEW r \in rows', r.id = c.id
        PROVE  c.pair = pairOf(r) /\ c.by = IF c.op = "cancel" THEN r.requester ELSE r.addressee
    <3>1. PICK r0 \in rows : r = after(r0)
      BY <1>1
    <3>2. c \in calls /\ r0.id = c.id /\ pairOf(r) = pairOf(r0)
          /\ r.requester = r0.requester /\ r.addressee = r0.addressee
      BY <2>1, <3>1, <1>1, <1>3, <1>5
    <3> QED BY <3>2 DEF FriendsInv, CallsOK
  <2>2. \A c \in calls' : c.id < nextID'
    BY <1>1 DEF FriendsInv, CallsOK
  <2> QED BY <2>1, <2>2 DEF CallsOK, pairOf, Pair
<1>8. WantsOK'
  <2>1. \A r \in rows' : \E r0 \in rows : /\ r.id = r0.id /\ r.requester = r0.requester
                                          /\ r.addressee = r0.addressee
    BY <1>1, <1>3
  <2> QED BY <2>1, <1>1 DEF FriendsInv, WantsOK
<1>9. FriendshipIsMutual'
  <2>1. ASSUME NEW r \in rows', r.status = "accepted"
        PROVE  r.addressee \in wants'[r.requester] /\ r.requester \in wants'[r.addressee]
    <3>1. PICK r0 \in rows : r = after(r0)
      BY <1>1
    <3>2. /\ r.requester = r0.requester /\ r.addressee = r0.addressee
          /\ r0.status = "accepted" \/ (r0.id = ongoing.id /\ ongoing.op = "accepted")
      BY <2>1, <3>1, <1>3
    <3>3. r0.addressee \in wants[r0.requester] /\ r0.requester \in wants[r0.addressee]
      BY <3>2 DEF FriendsInv, WantsOK, FriendshipIsMutual
    <3> QED BY <3>2, <3>3, <1>1
  <2> QED BY <2>1 DEF FriendshipIsMutual
<1> QED BY <1>4, <1>6, <1>7, <1>8, <1>9 DEF FriendsInv

\* So does a call that is given up.
LEMMA AbandonInv ==
  ASSUME FriendsInv, NEW ongoing \in calls, Abandon(ongoing)
  PROVE  FriendsInv'
BY RemovalInv DEF Abandon, FriendsInv, FriendsTypeOK

\* The invariant of the requests holds always.
LEMMA FriendsInvHolds == FriendsSpec => []FriendsInv
<1>1. FriendsInv /\ [FriendsNext]_friendVars => FriendsInv'
  <2> SUFFICES ASSUME FriendsInv, [FriendsNext]_friendVars PROVE FriendsInv'
    OBVIOUS
  <2>1. CASE UNCHANGED friendVars
    BY <2>1 DEF friendVars, FriendsInv, FriendsTypeOK, KeysOK, CallsOK, WantsOK, FriendshipIsMutual, pairOf, Pair
  <2>2. CASE FriendsNext
    BY <2>2, SendInv, LoadInv, DeleteInv, UnfriendInv, UpdateInv, AbandonInv DEF FriendsNext
  <2> QED BY <2>1, <2>2
<1> QED BY <1>1, FriendsInitInv, PTL DEF FriendsSpec

(***************************************************************************)
(* Two users are friends only while both want it: Respond's and            *)
(* CancelRequest's unconditional writes never make friends of two users    *)
(* one of whom has not asked or accepted, or has since withdrawn.          *)
(***************************************************************************)
THEOREM FriendshipHolds == FriendsSpec => []FriendshipIsMutual
BY FriendsInvHolds, PTL DEF FriendsInv

(***************************************************************************)
(* With at most one row per pair, the lists and the relationship status    *)
(* agree for both users.                                                   *)
(***************************************************************************)
LEMMA OneRowOneStory == FriendsTypeOK /\ KeysOK => ViewsAgree
<1> SUFFICES ASSUME FriendsTypeOK, KeysOK, NEW a \in Users, NEW b \in Users, a # b,
                    NEW kind \in relationships(a, b)
             PROVE  /\ (kind = "friends") <=> (b \in friendsOf(a))
                    /\ (kind = "friends") <=> (a \in friendsOf(b))
                    /\ (kind = "pending_sent") <=> (b \in outgoing(a))
                    /\ (kind = "pending_received") <=> (b \in incoming(a))
                    /\ (kind = "pending_sent") <=> (a \in incoming(b))
  BY DEF ViewsAgree
<1>1. /\ b \in friendsOf(a) <=> \E r \in between(a, b) : r.status = "accepted"
      /\ a \in friendsOf(b) <=> \E r \in between(a, b) : r.status = "accepted"
  BY DEF friendsOf, between, pairOf, Pair
<1>2. b \in outgoing(a) <=> \E r \in between(a, b) : r.status = "pending" /\ r.requester = a
  BY DEF outgoing, between, pairOf, Pair
<1>3. a \in incoming(b) <=> \E r \in between(a, b) : r.status = "pending" /\ r.requester = a
  BY DEF incoming, between, pairOf, Pair
<1>4. b \in incoming(a) <=> \E r \in between(a, b) : r.status = "pending" /\ r.requester # a
  BY DEF incoming, between, pairOf, Pair
<1>5. CASE between(a, b) = {}
  BY <1>1, <1>2, <1>3, <1>4, <1>5 DEF relationships
<1>6. CASE between(a, b) # {}
  <2>1. PICK r \in between(a, b) : kind = kindOf(a, r)
    BY <1>6 DEF relationships
  <2>2. \A q \in between(a, b) : q = r
    BY <2>1 DEF between, KeysOK
  <2>3. /\ kind = "friends" <=> r.status = "accepted"
        /\ kind = "pending_sent" <=> r.status = "pending" /\ r.requester = a
        /\ kind = "pending_received" <=> r.status = "pending" /\ r.requester # a
    BY <2>1 DEF kindOf
  <2> QED BY <1>1, <1>2, <1>3, <1>4, <2>1, <2>2, <2>3
<1> QED BY <1>5, <1>6

(***************************************************************************)
(* Whatever requests, answers, cancellations and removals race, both users *)
(* of a pair are shown one story.                                          *)
(***************************************************************************)
THEOREM ViewsHold == FriendsSpec => []ViewsAgree
<1>1. FriendsInv => ViewsAgree
  BY OneRowOneStory DEF FriendsInv
<1> QED BY <1>1, FriendsInvHolds, PTL

-----------------------------------------------------------------------------
(***************************************************************************)
(* The gateway: any clients, buffers and goroutines.                       *)
(***************************************************************************)
\* What a goroutine has to do, by what comes next.
StateNext == {<<"state">>, <<"state", "schedule">>, <<"state", "announced">>}
EventNext == {<<"event", "state">>, <<"event", "state", "schedule">>, <<"event", "state", "announced">>}
Ends      == {<<>>, <<"schedule">>, <<"announced">>}
Leaving   == {<<"seat", "state">>, <<"close", "seat", "state">>, <<"close", "state">>, <<"host", "state">>}
Loads     == StateNext \cup EventNext \cup Leaving
Duties    == Loads \cup Ends \cup {<<"finish">>, <<"error">>}

\* What there may be to do before the start.
Early     == {<<>>, <<"error">>, <<"state">>, <<"close", "state">>, <<"host", "state">>}

LobbyStatuses == {"waiting", "in_progress", "finished"}
Games    == {"none", "playing", "over"}

Positions == [pc : {"idle", "loaded", "fan", "built"}, fresh : SUBSET Parts, hasGame : BOOLEAN,
              left : SUBSET Clients, to : Actors]

GatewayTypeOK ==
  /\ handBased \in BOOLEAN
  /\ status \in LobbyStatuses /\ game \in Games
  /\ armed \in BOOLEAN /\ failed \in BOOLEAN
  /\ conn \in [Clients -> {"out", "open", "closed"}]
  /\ room \subseteq Clients
  /\ missing \in [Clients -> SUBSET Parts]
  /\ todo \in [Actors -> Duties]
  /\ at \in [Actors -> Positions]

\* Only who has a message to broadcast is within a broadcast.
Underway ==
  \A a \in Actors :
    /\ at[a].pc # "idle" => todo[a] \in StateNext \cup EventNext
    /\ at[a].pc \in {"loaded", "built"} => todo[a] \in StateNext

RoomOK == \A c \in Clients : conn[c] = "open" => c \in room

\* Before the start there is no game to announce, to end, to resign from or to miss.
WaitingOK ==
  game = "none" =>
    /\ ~armed /\ \A a \in Actors : todo[a] \in Early
    /\ \A c \in Clients : missing[c] \subseteq {"lobby"}

\* A game is shown as soon as there is one.
StartedOK == game # "none" => status # "waiting"

\* a has a broadcast of the state to begin, ...
WillLoad(a) == todo[a] \in EventNext \cup Leaving \/ (todo[a] \in StateNext /\ at[a].pc = "idle")

\* ... or is within one that will still send the latest of part p to c: its view
\* of the game is only read when the turn of c comes.
holds(a, p) == IF p = "game" THEN at[a].hasGame ELSE p \in at[a].fresh

WillSend(a, c, p) ==
  /\ todo[a] \in StateNext
  /\ \/ at[a].pc = "loaded" /\ holds(a, p)
     \/ /\ at[a].pc \in {"fan", "built"} /\ c \in at[a].left /\ holds(a, p)
        /\ at[a].pc = "built" => c # at[a].to
     \/ at[a].pc = "built" /\ c = at[a].to /\ p \in at[a].fresh

\* Whatever a client misses, somebody is going to send.
Covered ==
  ~failed => \A c \in Clients : conn[c] = "open" =>
               \A p \in missing[c] : \E a \in Actors : WillLoad(a) \/ WillSend(a, c, p)

GatewayInv == GatewayTypeOK /\ Underway /\ RoomOK /\ WaitingOK /\ StartedOK /\ Covered

\* What a goroutine has to do, by its first part.
LEMMA DutiesAre ==
  ASSUME NEW t \in Duties
  PROVE  /\ (t # <<>> /\ Head(t) = "state") <=> t \in StateNext
         /\ (t # <<>> /\ Head(t) = "event") <=> t \in EventNext
         /\ (t # <<>> /\ Head(t) \in {"close", "seat", "host"}) <=> t \in Leaving
         /\ t \in StateNext => Tail(t) \in Ends /\ t \notin EventNext \cup Leaving
         /\ t \in EventNext => Tail(t) \in StateNext /\ t \notin StateNext \cup Leaving
         /\ t \in Leaving => t \notin StateNext \cup EventNext
         /\ t # <<>> /\ Head(t) \in {"schedule", "finish", "announced", "error"} =>
              t = <<Head(t)>> /\ t \notin Loads
<1>1. ASSUME t \in StateNext
      PROVE  /\ t # <<>> /\ Head(t) = "state" /\ Tail(t) \in Ends
             /\ t \notin EventNext /\ t \notin Leaving
  <2>1. CASE t = <<"state">>
    BY <2>1 DEF EventNext, Ends, Leaving
  <2>2. CASE t = <<"state", "schedule">>
    BY <2>2 DEF EventNext, Ends, Leaving
  <2>3. CASE t = <<"state", "announced">>
    BY <2>3 DEF EventNext, Ends, Leaving
  <2> QED
    BY <1>1, <2>1, <2>2, <2>3 DEF StateNext
<1>2. ASSUME t \in EventNext
      PROVE  /\ t # <<>> /\ Head(t) = "event" /\ Tail(t) \in StateNext
             /\ t \notin StateNext /\ t \notin Leaving
  <2>1. CASE t = <<"event", "state">>
    BY <2>1 DEF StateNext, Leaving
  <2>2. CASE t = <<"event", "state", "schedule">>
    BY <2>2 DEF StateNext, Leaving
  <2>3. CASE t = <<"event", "state", "announced">>
    BY <2>3 DEF StateNext, Leaving
  <2> QED
    BY <1>2, <2>1, <2>2, <2>3 DEF EventNext
<1>3. ASSUME t \in Leaving
      PROVE  /\ t # <<>> /\ Head(t) \in {"close", "seat", "host"}
             /\ t \notin StateNext /\ t \notin EventNext
  <2>1. CASE t = <<"seat", "state">>
    BY <2>1 DEF StateNext, EventNext
  <2>2. CASE t = <<"close", "seat", "state">>
    BY <2>2 DEF StateNext, EventNext
  <2>3. CASE t = <<"close", "state">>
    BY <2>3 DEF StateNext, EventNext
  <2>4. CASE t = <<"host", "state">>
    BY <2>4 DEF StateNext, EventNext
  <2> QED
    BY <1>3, <2>1, <2>2, <2>3, <2>4 DEF Leaving
<1>4. ASSUME t \in {<<"schedule">>, <<"announced">>, <<"finish">>, <<"error">>}
      PROVE  /\ t # <<>> /\ t = <<Head(t)>> /\ Head(t) \in {"schedule", "finish", "announced", "error"}
             /\ t \notin StateNext /\ t \notin EventNext /\ t \notin Leaving
  <2>1. CASE t = <<"schedule">>
    BY <2>1 DEF StateNext, EventNext, Leaving
  <2>2. CASE t = <<"announced">>
    BY <2>2 DEF StateNext, EventNext, Leaving
  <2>3. CASE t = <<"finish">>
    BY <2>3 DEF StateNext, EventNext, Leaving
  <2>4. CASE t = <<"error">>
    BY <2>4 DEF StateNext, EventNext, Leaving
  <2> QED
    BY <1>4, <2>1, <2>2, <2>3, <2>4
<1>5. ASSUME t = <<>>
      PROVE  t \notin StateNext /\ t \notin EventNext /\ t \notin Leaving
  BY <1>5 DEF StateNext, EventNext, Leaving
<1>6. \/ t \in StateNext \/ t \in EventNext \/ t \in Leaving
      \/ t \in {<<"schedule">>, <<"announced">>, <<"finish">>, <<"error">>} \/ t = <<>>
  BY DEF Duties, Ends, Loads
<1>7. CASE t \in StateNext
  BY <1>1, <1>7
<1>8. CASE t \in EventNext
  BY <1>2, <1>8
<1>9. CASE t \in Leaving
  BY <1>3, <1>9
<1>10. CASE t \in {<<"schedule">>, <<"announced">>, <<"finish">>, <<"error">>}
  BY <1>4, <1>10 DEF Loads
<1>11. CASE t = <<>>
  BY <1>5, <1>11
<1> QED
  BY <1>6, <1>7, <1>8, <1>9, <1>10, <1>11

\* What is left of a leave once its lobby is closed, also before the start.
LEMMA ClosingIs ==
  ASSUME NEW t \in Duties, t # <<>>, Head(t) = "close"
  PROVE  Tail(t) \in Loads /\ (t \in Early => Tail(t) = <<"state">>)
<1>1. t \in Leaving
  BY DutiesAre
<1>2. CASE t = <<"seat", "state">>
  BY <1>2
<1>3. CASE t = <<"host", "state">>
  BY <1>3
<1>4. CASE t = <<"close", "state">>
  BY <1>4 DEF Loads, StateNext
<1>5. CASE t = <<"close", "seat", "state">>
  <2>1. Tail(t) = <<"seat", "state">>
    BY <1>5
  <2>2. t \notin Early
    BY <1>5 DEF Early
  <2> QED
    BY <2>1, <2>2 DEF Loads, Leaving
<1> QED
  BY <1>1, <1>2, <1>3, <1>4, <1>5 DEF Leaving

\* Clients and the timer act, and start at rest.
LEMMA ClientsAct == Clients \subseteq Actors /\ "timer" \in Actors /\ Resting \in Positions
                    /\ Resting.pc = "idle"
BY DEF Actors, Resting, Positions, Parts

\* A broadcast that somebody is about to begin covers everything.
LEMMA BeginCovers ==
  ASSUME NEW a \in Actors, WillLoad(a)'
  PROVE  Covered'
BY DEF Covered

\* At the start nobody misses anything.
LEMMA GatewayInitInv == GatewayInit => GatewayInv
<1> SUFFICES ASSUME GatewayInit PROVE GatewayInv
  OBVIOUS
<1>1. GatewayTypeOK
  BY ClientsAct DEF GatewayInit, GatewayTypeOK, Duties, Ends, LobbyStatuses, Games
<1>2. Underway
  BY ClientsAct DEF GatewayInit, Underway
<1> QED
  BY <1>1, <1>2 DEF GatewayInit, GatewayInv, RoomOK, WaitingOK, StartedOK, Early, Covered

\* A change outdates what goroutines hold and leaves them where they are.
LEMMA ChangedIs ==
  ASSUME GatewayInv, NEW parts \in SUBSET Parts, changed(parts)
  PROVE  /\ missing' \in [Clients -> SUBSET Parts]
         /\ at' \in [Actors -> Positions]
         /\ \A a \in Actors : at'[a].pc = at[a].pc
         /\ \A c \in Clients : missing'[c] \subseteq missing[c] \cup parts
<1>1. missing \in [Clients -> SUBSET Parts] /\ at \in [Actors -> Positions]
  BY DEF GatewayInv, GatewayTypeOK
<1>2. missing' = [c \in Clients |-> IF conn[c] = "open" THEN missing[c] \cup parts ELSE {}]
  BY DEF changed
<1>3. at' = [a \in Actors |-> [at[a] EXCEPT !.fresh = @ \ parts]]
  BY DEF changed, outdates
<1>4. ASSUME NEW a \in Actors
      PROVE  at'[a] \in Positions /\ at'[a].pc = at[a].pc
  <2>1. at[a] \in Positions /\ at'[a] = [at[a] EXCEPT !.fresh = @ \ parts]
    BY <1>1, <1>3
  <2> QED
    BY <2>1 DEF Positions
<1> QED
  BY <1>1, <1>2, <1>3, <1>4

\* A goroutine that was within no broadcast is given something to do in which it
\* will begin one, or has failed; lobby and game may have changed.
LEMMA DutyInv ==
  ASSUME GatewayInv, NEW a \in Actors, at[a].pc = "idle", NEW t \in Duties, t \in Loads \/ failed',
         todo' = [todo EXCEPT ![a] = t],
         at' \in [Actors -> Positions], \A b \in Actors : at'[b].pc = at[b].pc,
         missing' \in [Clients -> SUBSET Parts],
         handBased' = handBased,
         status' \in LobbyStatuses, game' \in Games, armed' \in BOOLEAN, failed' \in BOOLEAN,
         conn' \in [Clients -> {"out", "open", "closed"}], room' \subseteq Clients,
         RoomOK', StartedOK',
         game' = "none" => game = "none" /\ armed' = armed /\ t \in Early
                           /\ \A c \in Clients : missing'[c] \subseteq {"lobby"}
  PROVE  GatewayInv'
<1>1. todo \in [Actors -> Duties]
  BY DEF GatewayInv, GatewayTypeOK
<1>2. \A b \in Actors : todo'[b] = IF b = a THEN t ELSE todo[b]
  BY <1>1
<1>3. GatewayTypeOK'
  BY <1>1 DEF GatewayInv, GatewayTypeOK
<1>4. Underway'
  BY <1>2 DEF GatewayInv, Underway
<1>5. WaitingOK'
  BY <1>2 DEF GatewayInv, WaitingOK
<1>6. Covered'
  <2>1. CASE failed'
    BY <2>1 DEF Covered
  <2>2. CASE t \in Loads
    <3>1. WillLoad(a)'
      BY <1>2, <2>2 DEF WillLoad, Loads
    <3> QED
      BY <3>1, BeginCovers
  <2> QED
    BY <2>1, <2>2
<1> QED
  BY <1>3, <1>4, <1>5, <1>6 DEF GatewayInv

\* A goroutine with no broadcast to go on with is not within one.
LEMMA IdleIs ==
  ASSUME GatewayInv, NEW a \in Actors,
         todo[a] = <<>> \/ Head(todo[a]) \in {"schedule", "finish", "announced", "error", "close", "seat", "host"}
  PROVE  at[a].pc = "idle"
<1>1. todo[a] \in Duties
  BY DEF GatewayInv, GatewayTypeOK
<1>2. <<>> \notin StateNext \cup EventNext
  BY DEF StateNext, EventNext
<1>3. todo[a] \notin StateNext \cup EventNext
  BY <1>1, <1>2, DutiesAre DEF Loads
<1>4. at[a].pc # "idle" => todo[a] \in StateNext \cup EventNext
  BY DEF GatewayInv, Underway
<1> QED
  BY <1>3, <1>4

\* The broadcast of the state alone, and of nothing.
LEMMA PlainDuties == /\ <<"state">> \in Loads /\ <<"state">> \in Duties /\ <<"state">> \in Early
                     /\ <<>> \in Duties /\ <<>> \in Early
                     /\ <<"error">> \in Duties /\ <<"error">> \in Early
                     /\ <<"finish">> \in Duties
                     /\ <<"event", "state">> \in Loads /\ <<"event", "state">> \in Duties
BY DEF Loads, Duties, StateNext, EventNext, Ends, Early

-----------------------------------------------------------------------------
(* Connections. *)

\* Who connects misses everything and has it sent by the own handler.
LEMMA ConnectInv ==
  ASSUME GatewayInv, NEW c \in Clients, Connect(c)
  PROVE  GatewayInv'
<1>1. GatewayTypeOK /\ RoomOK /\ WaitingOK /\ StartedOK /\ c \in Actors /\ at[c].pc = "idle"
  BY ClientsAct, IdleIs DEF GatewayInv, Connect
<1>2. /\ conn' = [conn EXCEPT ![c] = "open"] /\ room' = room \cup {c}
      /\ missing' = [missing EXCEPT ![c] = IF game = "none" THEN {"lobby"} ELSE Parts]
      /\ todo' = [todo EXCEPT ![c] = <<"state">>]
      /\ UNCHANGED <<handBased, status, game, armed, at, failed>>
  BY DEF Connect, joined
<1>3. /\ at' \in [Actors -> Positions] /\ \A b \in Actors : at'[b].pc = at[b].pc
      /\ status' \in LobbyStatuses /\ game' \in Games /\ StartedOK' /\ armed' \in BOOLEAN /\ failed' \in BOOLEAN
  BY <1>1, <1>2 DEF GatewayTypeOK, StartedOK
<1>4. /\ conn' \in [Clients -> {"out", "open", "closed"}] /\ room' \subseteq Clients /\ RoomOK'
  BY <1>1, <1>2 DEF GatewayTypeOK, RoomOK
<1>5. missing' \in [Clients -> SUBSET Parts]
  BY <1>1, <1>2 DEF GatewayTypeOK, Parts
<1>6. game' = "none" => game = "none" /\ armed' = armed
                            /\ \A d \in Clients : missing'[d] \subseteq {"lobby"}
  BY <1>1, <1>2 DEF GatewayTypeOK, WaitingOK
<1> QED
  BY <1>1, <1>2, <1>3, <1>4, <1>5, <1>6, PlainDuties, DutyInv

\* Who has hung up leaves the room, and the others are told.
LEMMA HangupInv ==
  ASSUME GatewayInv, NEW c \in Clients, Hangup(c)
  PROVE  GatewayInv'
<1>1. GatewayTypeOK /\ RoomOK /\ WaitingOK /\ StartedOK /\ c \in Actors /\ at[c].pc = "idle"
  BY ClientsAct, IdleIs DEF GatewayInv, Hangup
<1>2. /\ conn' = [conn EXCEPT ![c] = "out"] /\ room' = room \ {c}
      /\ todo' = [todo EXCEPT ![c] = <<"state">>]
      /\ UNCHANGED <<handBased, status, game, armed, at, failed, missing>>
  BY DEF Hangup, left
<1>3. /\ at' \in [Actors -> Positions] /\ \A b \in Actors : at'[b].pc = at[b].pc
      /\ status' \in LobbyStatuses /\ game' \in Games /\ StartedOK' /\ armed' \in BOOLEAN /\ failed' \in BOOLEAN
      /\ missing' \in [Clients -> SUBSET Parts]
  BY <1>1, <1>2 DEF GatewayTypeOK, StartedOK
<1>4. /\ conn' \in [Clients -> {"out", "open", "closed"}] /\ room' \subseteq Clients /\ RoomOK'
  BY <1>1, <1>2 DEF GatewayTypeOK, RoomOK
<1>5. game' = "none" => game = "none" /\ armed' = armed
                            /\ \A d \in Clients : missing'[d] \subseteq {"lobby"}
  BY <1>1, <1>2 DEF GatewayTypeOK, WaitingOK
<1> QED
  BY <1>1, <1>2, <1>3, <1>4, <1>5, PlainDuties, DutyInv

\* What is sent to c is queued for c, closes its connection or goes nowhere.
LEMMA SendIs ==
  ASSUME GatewayInv, NEW c \in Clients, NEW m \in SUBSET Parts, sendJSON(c, m)
  PROVE  /\ conn' \in [Clients -> {"out", "open", "closed"}]
         /\ missing' \in [Clients -> SUBSET Parts]
         /\ \A d \in Clients : conn'[d] = "open" => conn[d] = "open"
         /\ \A d \in Clients : d # c => missing'[d] = missing[d]
         /\ conn'[c] = "open" => missing'[c] = m
         /\ missing'[c] \subseteq m \cup missing[c]
<1>1. conn \in [Clients -> {"out", "open", "closed"}] /\ missing \in [Clients -> SUBSET Parts]
  BY DEF GatewayInv, GatewayTypeOK
<1>2. CASE queues(c, m)
  BY <1>1, <1>2 DEF queues
<1>3. CASE closed(c)
  BY <1>1, <1>3 DEF closed
<1>4. CASE ignored(c)
  BY <1>1, <1>4 DEF ignored
<1> QED
  BY <1>2, <1>3, <1>4 DEF sendJSON

\* Nobody comes and nobody misses more: what is done is still covered.
LEMMA LessInv ==
  ASSUME GatewayInv,
         conn' \in [Clients -> {"out", "open", "closed"}], missing' \in [Clients -> SUBSET Parts],
         \A d \in Clients : conn'[d] = "open" => conn[d] = "open",
         \A d \in Clients : missing'[d] \subseteq missing[d],
         UNCHANGED <<handBased, status, game, armed, room, todo, at, failed>>
  PROVE  GatewayInv'
<1>1. GatewayTypeOK' /\ Underway' /\ RoomOK'
  BY DEF GatewayInv, GatewayTypeOK, Underway, RoomOK
<1>2. WaitingOK' /\ StartedOK'
  BY DEF GatewayInv, WaitingOK, StartedOK
<1>3. Covered'
  <2>1. \A a \in Actors : (WillLoad(a) <=> WillLoad(a)')
                          /\ \A c \in Clients, p \in Parts : WillSend(a, c, p) <=> WillSend(a, c, p)'
    BY DEF WillLoad, WillSend, holds
  <2>2. \A d \in Clients : missing'[d] \subseteq Parts
    OBVIOUS
  <2> QED
    BY <2>1, <2>2 DEF GatewayInv, Covered
<1> QED
  BY <1>1, <1>2, <1>3 DEF GatewayInv

\* A message delivered keeps the invariant.
LEMMA DeliverInv ==
  ASSUME GatewayInv, NEW c \in Clients, Deliver(c)
  PROVE  GatewayInv'
<1>1. UNCHANGED <<handBased, status, game, armed, conn, room, missing, todo, at, failed>>
  BY DEF Deliver
<1> QED
  BY <1>1, LessInv DEF GatewayInv, GatewayTypeOK

\* A connection that breaks keeps the invariant.
LEMMA DropInv ==
  ASSUME GatewayInv, NEW c \in Clients, Drop(c)
  PROVE  GatewayInv'
<1>1. /\ conn' = [conn EXCEPT ![c] = "closed"] /\ missing' = [missing EXCEPT ![c] = {}]
      /\ UNCHANGED <<handBased, status, game, armed, room, todo, at, failed>>
  BY DEF Drop, closed
<1>2. conn \in [Clients -> {"out", "open", "closed"}] /\ missing \in [Clients -> SUBSET Parts]
  BY DEF GatewayInv, GatewayTypeOK
<1>3. /\ conn' \in [Clients -> {"out", "open", "closed"}] /\ missing' \in [Clients -> SUBSET Parts]
      /\ \A d \in Clients : conn'[d] = "open" => conn[d] = "open"
      /\ \A d \in Clients : missing'[d] \subseteq missing[d]
  BY <1>1, <1>2
<1> QED
  BY <1>1, <1>3, LessInv

\* An action that is refused keeps the invariant.
LEMMA RefuseInv ==
  ASSUME GatewayInv, NEW c \in Clients, Refuse(c)
  PROVE  GatewayInv'
<1>1. sendJSON(c, missing[c]) /\ UNCHANGED <<handBased, status, game, armed, room, todo, at, failed>>
  BY DEF Refuse
<1>2. missing[c] \in SUBSET Parts
  BY DEF GatewayInv, GatewayTypeOK
<1>3. /\ conn' \in [Clients -> {"out", "open", "closed"}]
      /\ missing' \in [Clients -> SUBSET Parts]
      /\ \A d \in Clients : conn'[d] = "open" => conn[d] = "open"
      /\ \A d \in Clients : d # c => missing'[d] = missing[d]
      /\ missing'[c] \subseteq missing[c]
  BY <1>1, <1>2, SendIs
<1> QED
  BY <1>1, <1>3, LessInv

-----------------------------------------------------------------------------
(* The changes: each is followed by a broadcast of its own. *)

\* A change is followed by a broadcast of it, or has failed.
LEMMA ChangeDuty ==
  ASSUME GatewayInv, NEW a \in Actors, at[a].pc = "idle", NEW t \in Duties, t \in Loads \/ failed',
         NEW parts \in SUBSET Parts, changed(parts),
         todo' = [todo EXCEPT ![a] = t], UNCHANGED <<handBased, connection>>, failed' \in BOOLEAN,
         armed' \in BOOLEAN, status' \in LobbyStatuses, game' \in Games, StartedOK',
         game' = "none" => game = "none" /\ armed' = armed /\ t \in Early /\ parts = {"lobby"}
  PROVE  GatewayInv'
<1>1. /\ missing' \in [Clients -> SUBSET Parts]
      /\ at' \in [Actors -> Positions]
      /\ \A b \in Actors : at'[b].pc = at[b].pc
      /\ \A c \in Clients : missing'[c] \subseteq missing[c] \cup parts
  BY ChangedIs
<1>2. GatewayTypeOK /\ RoomOK /\ WaitingOK
  BY DEF GatewayInv
<1>3. conn' = conn /\ room' = room
  BY DEF connection
<1>4. conn' \in [Clients -> {"out", "open", "closed"}] /\ room' \subseteq Clients /\ RoomOK'
  BY <1>2, <1>3 DEF GatewayTypeOK, RoomOK
<1>5. game' = "none" => \A c \in Clients : missing'[c] \subseteq {"lobby"}
  BY <1>1, <1>2 DEF WaitingOK
<1> QED
  BY <1>1, <1>4, <1>5, DutyInv

\* So is a change that leaves one of two things to do: what comes next, or the error.
LEMMA ChangedThenInv ==
  ASSUME GatewayInv, NEW a \in Actors, at[a].pc = "idle", NEW t \in Loads,
         NEW parts \in SUBSET Parts, changedThen(a, parts, t),
         UNCHANGED <<handBased, armed, connection>>, status' \in LobbyStatuses, game' \in Games, StartedOK',
         game' = "none" => game = "none" /\ t \in Early /\ parts = {"lobby"}
  PROVE  GatewayInv'
<1>1. changed(parts) /\ (goesOn(a, t) \/ gaveUp(a)) /\ t \in Duties
  BY DEF changedThen, Duties
<1>2. armed' \in BOOLEAN /\ failed \in BOOLEAN /\ armed' = armed
  BY DEF GatewayInv, GatewayTypeOK
<1>3. CASE goesOn(a, t)
  <2>1. todo' = [todo EXCEPT ![a] = t] /\ failed' = failed
    BY <1>3 DEF goesOn
  <2> QED
    BY <1>1, <1>2, <2>1, ChangeDuty
<1>4. CASE gaveUp(a)
  <2>1. todo' = [todo EXCEPT ![a] = <<"error">>] /\ failed' = TRUE
    BY <1>4 DEF gaveUp
  <2> QED
    BY <1>1, <1>2, <2>1, PlainDuties, ChangeDuty
<1> QED
  BY <1>1, <1>3, <1>4

\* The list an action leaves behind, with what follows the end of a game.
LEMMA ThreeInARow ==
  ASSUME NEW S, NEW x \in S, NEW y \in S, NEW z \in S
  PROVE  <<x, y>> \o <<z>> = <<x, y, z>>
<1> DEFINE s == <<x, y>> \o <<z>>
           t == <<x, y, z>>
<1>1. /\ <<x, y>> \in Seq(S) /\ <<z>> \in Seq(S) /\ t \in Seq(S)
      /\ Len(<<x, y>>) = 2 /\ Len(<<z>>) = 1 /\ Len(t) = 3
  OBVIOUS
<1>2. s \in Seq(S) /\ Len(s) = 3
  BY <1>1
<1>3. s[1] = x /\ s[2] = y /\ s[3] = z
  BY <1>1
<1>4. t[1] = x /\ t[2] = y /\ t[3] = z
  OBVIOUS
<1>5. \A i \in 1 .. 3 : s[i] = t[i]
  BY <1>3, <1>4
<1> HIDE DEF s, t
<1>6. s = t
  BY <1>1, <1>2, <1>5, SeqEqual
<1> QED
  BY <1>6 DEF s, t

\* An action in the game is followed by its broadcast.
LEMMA ActInv ==
  ASSUME GatewayInv, NEW c \in Clients, NEW ends \in BOOLEAN, Act(c, ends)
  PROVE  GatewayInv'
<1>1. /\ game = "playing" /\ game' \in {"playing", "over"} /\ status' = status
      /\ changedThen(c, {"game"}, <<"event", "state">> \o whenOver(ends))
      /\ UNCHANGED <<handBased, armed, connection>> /\ todo[c] = <<>>
  BY DEF Act, ready
<1>2. <<"event", "state">> \o whenOver(ends) \in Loads
  <2>1. /\ <<"event", "state">> \o <<>> = <<"event", "state">>
        /\ <<"event", "state">> \o <<"schedule">> = <<"event", "state", "schedule">>
        /\ <<"event", "state">> \o <<"announced">> = <<"event", "state", "announced">>
    <3>1. <<"event", "state">> \o <<>> = <<"event", "state">>
      OBVIOUS
    <3>2. /\ <<"event", "state">> \o <<"schedule">> = <<"event", "state", "schedule">>
          /\ <<"event", "state">> \o <<"announced">> = <<"event", "state", "announced">>
      <4> DEFINE S == {"event", "state", "schedule", "announced"}
      <4>1. "event" \in S /\ "state" \in S /\ "schedule" \in S /\ "announced" \in S
        OBVIOUS
      <4> HIDE DEF S
      <4> QED
        BY <4>1, ThreeInARow, Zenon
    <3> QED
      BY <3>1, <3>2
  <2>2. handBased \in BOOLEAN => whenOver(ends) \in {<<>>, <<"schedule">>, <<"announced">>}
    BY DEF whenOver
  <2> QED
    BY <2>1, <2>2 DEF GatewayInv, GatewayTypeOK, EventNext, Loads
<1>3. c \in Actors /\ at[c].pc = "idle" /\ {"game"} \in SUBSET Parts
  BY <1>1, ClientsAct, IdleIs DEF Parts
<1>4. status' \in LobbyStatuses /\ game' \in Games /\ StartedOK' /\ game' # "none"
  BY <1>1 DEF GatewayInv, GatewayTypeOK, Games, StartedOK
<1> QED
  BY <1>1, <1>2, <1>3, <1>4, ChangedThenInv

\* So is a join.
LEMMA JoinInv ==
  ASSUME GatewayInv, NEW c \in Clients, Join(c)
  PROVE  GatewayInv'
<1>1. /\ changedThen(c, {"lobby"}, <<"state">>)
      /\ UNCHANGED <<handBased, status, game, armed, connection>> /\ todo[c] = <<>>
  BY DEF Join, ready
<1>2. c \in Actors /\ at[c].pc = "idle" /\ {"lobby"} \in SUBSET Parts
  BY <1>1, ClientsAct, IdleIs DEF Parts
<1>3. status' \in LobbyStatuses /\ game' \in Games /\ StartedOK' /\ game' = game
  BY <1>1 DEF GatewayInv, GatewayTypeOK, StartedOK
<1> QED
  BY <1>1, <1>2, <1>3, PlainDuties, ChangedThenInv

\* So is the start of the game.
LEMMA StartInv ==
  ASSUME GatewayInv, NEW c \in Clients, Start(c)
  PROVE  GatewayInv'
<1>1. /\ status' = "in_progress" /\ game' = "playing" /\ changedThen(c, Parts, <<"state">>)
      /\ UNCHANGED <<handBased, armed, connection>> /\ todo[c] = <<>>
  BY DEF Start, ready
<1>2. c \in Actors /\ at[c].pc = "idle"
  BY <1>1, ClientsAct, IdleIs
<1>3. status' \in LobbyStatuses /\ game' \in Games /\ StartedOK' /\ game' # "none"
  BY <1>1 DEF LobbyStatuses, Games, StartedOK
<1> QED
  BY <1>1, <1>2, <1>3, PlainDuties, ChangedThenInv

\* So is each change a leave makes: telling the game, ...
LEMMA ResignInv ==
  ASSUME GatewayInv, NEW a \in Actors, at[a].pc = "idle", Resign(a), UNCHANGED <<handBased, armed, connection>>
  PROVE  GatewayInv'
<1>1. PICK ends \in BOOLEAN :
        /\ game' = IF ends THEN "over" ELSE game
        /\ changedThen(a, {"game"}, IF ends THEN <<"close", "seat", "state">> ELSE <<"seat", "state">>)
  BY DEF Resign
<1>2. PICK t : t = IF ends THEN <<"close", "seat", "state">> ELSE <<"seat", "state">>
  OBVIOUS
<1>3. t \in Loads /\ {"game"} \in SUBSET Parts
  BY <1>2 DEF Loads, Leaving, Parts
<1>4. status' = status /\ game = "playing"
  BY DEF Resign
<1>5. status' \in LobbyStatuses /\ game' \in Games /\ StartedOK' /\ game' # "none"
  BY <1>1, <1>4 DEF GatewayInv, GatewayTypeOK, Games, StartedOK
<1> QED
  BY <1>1, <1>2, <1>3, <1>5, ChangedThenInv

\* ... finishing the lobby of a game that is over, ...
LEMMA CatchUpInv ==
  ASSUME GatewayInv, NEW a \in Actors, at[a].pc = "idle", CatchUp(a), UNCHANGED <<handBased, armed, connection>>
  PROVE  GatewayInv'
<1>1. /\ status' = "finished" /\ game = "over" /\ game' = game
      /\ changedThen(a, {"lobby"}, <<"seat", "state">>)
  BY DEF CatchUp
<1>2. <<"seat", "state">> \in Loads /\ {"lobby"} \in SUBSET Parts
  BY DEF Loads, Leaving, Parts
<1>3. status' \in LobbyStatuses /\ game' \in Games /\ StartedOK' /\ game' # "none"
  BY <1>1 DEF LobbyStatuses, Games, StartedOK
<1> QED
  BY <1>1, <1>2, <1>3, ChangedThenInv

\* ... leaving the seat, ...
LEMMA LeaveSeatInv ==
  ASSUME GatewayInv, NEW a \in Actors, at[a].pc = "idle", LeaveSeat(a), UNCHANGED <<handBased, armed, connection>>
  PROVE  GatewayInv'
<1>1. PICK t \in {<<"state">>, <<"close", "state">>, <<"host", "state">>} : changedThen(a, {"lobby"}, t)
  BY DEF LeaveSeat
<1>2. t \in Loads /\ t \in Early /\ {"lobby"} \in SUBSET Parts
  BY DEF Loads, StateNext, Leaving, Early, Parts
<1>3. status' = status /\ game' = game
  BY DEF LeaveSeat
<1>4. status' \in LobbyStatuses /\ game' \in Games /\ StartedOK'
  BY <1>3 DEF GatewayInv, GatewayTypeOK, StartedOK
<1> QED
  BY <1>1, <1>2, <1>3, <1>4, ChangedThenInv

\* ... the first of them ...
LEMMA LeaveInv ==
  ASSUME GatewayInv, NEW c \in Clients, Leave(c)
  PROVE  GatewayInv'
<1>1. c \in Actors /\ at[c].pc = "idle"
  BY ClientsAct, IdleIs DEF Leave, ready
<1>2. UNCHANGED <<handBased, armed, connection>> /\ (Resign(c) \/ CatchUp(c) \/ LeaveSeat(c))
  BY DEF Leave
<1> QED
  BY <1>1, <1>2, ResignInv, CatchUpInv, LeaveSeatInv

\* ... and those after it, or their failure.
LEMMA GoOnLeavingInv ==
  ASSUME GatewayInv, NEW a \in Actors, GoOnLeaving(a)
  PROVE  GatewayInv'
<1>1. /\ UNCHANGED <<handBased, armed, connection>>
      /\ CloseLobby(a) \/ (doing(a, "seat") /\ LeaveSeat(a)) \/ SetHost(a) \/ GiveUp(a)
  BY DEF GoOnLeaving
<1>2. todo[a] # <<>> /\ Head(todo[a]) \in {"close", "seat", "host"} /\ todo[a] \in Duties
  BY <1>1 DEF CloseLobby, SetHost, GiveUp, doing, busy, GatewayInv, GatewayTypeOK
<1>3. at[a].pc = "idle"
  BY <1>2, IdleIs
<1>4. {"lobby"} \in SUBSET Parts /\ GatewayTypeOK /\ WaitingOK /\ StartedOK /\ RoomOK
  BY DEF Parts, GatewayInv
<1>5. CASE CloseLobby(a)
  <2>1. /\ Head(todo[a]) = "close" /\ status' = "finished" /\ game' = game
        /\ changedThen(a, {"lobby"}, Tail(todo[a]))
    BY <1>5 DEF CloseLobby, doing
  <2>2. Tail(todo[a]) \in Loads /\ (game = "none" => Tail(todo[a]) = <<"state">>)
    BY <1>2, <1>4, <2>1, ClosingIs DEF WaitingOK
  <2>3. status' \in LobbyStatuses /\ game' \in Games /\ StartedOK'
    BY <1>4, <2>1 DEF GatewayTypeOK, LobbyStatuses, StartedOK
  <2> QED
    BY <1>1, <1>3, <1>4, <2>1, <2>2, <2>3, PlainDuties, ChangedThenInv
<1>6. CASE LeaveSeat(a)
  BY <1>1, <1>3, <1>6, LeaveSeatInv
<1>7. CASE SetHost(a)
  <2>1. status' = status /\ game' = game /\ changedThen(a, {"lobby"}, <<"state">>)
    BY <1>7 DEF SetHost
  <2>2. status' \in LobbyStatuses /\ game' \in Games /\ StartedOK'
    BY <1>4, <2>1 DEF GatewayTypeOK, StartedOK
  <2> QED
    BY <1>1, <1>3, <1>4, <2>1, <2>2, PlainDuties, ChangedThenInv
<1>8. CASE GiveUp(a)
  <2>1. /\ todo' = [todo EXCEPT ![a] = <<"error">>] /\ failed' = TRUE
        /\ UNCHANGED <<status, game, missing, at>>
    BY <1>8 DEF GiveUp, gaveUp
  <2>2. conn' = conn /\ room' = room /\ armed' = armed /\ handBased' = handBased
    BY <1>1 DEF connection
  <2>3. RoomOK' /\ StartedOK'
    BY <1>4, <2>1, <2>2 DEF RoomOK, StartedOK
  <2>4. /\ at' \in [Actors -> Positions] /\ missing' \in [Clients -> SUBSET Parts]
        /\ status' \in LobbyStatuses /\ game' \in Games /\ armed' \in BOOLEAN
        /\ conn' \in [Clients -> {"out", "open", "closed"}] /\ room' \subseteq Clients
    BY <1>4, <2>1, <2>2 DEF GatewayTypeOK
  <2>5. game' = "none" => \A c \in Clients : missing'[c] \subseteq {"lobby"}
    BY <1>4, <2>1 DEF WaitingOK
  <2> QED
    BY <1>3, <2>1, <2>2, <2>3, <2>4, <2>5, PlainDuties, DutyInv
<1> QED
  BY <1>1, <1>5, <1>6, <1>7, <1>8

\* A goroutine that has no broadcast to make is given none: nothing is lost.
LEMMA OtherDuty ==
  ASSUME GatewayInv, NEW a \in Actors, todo[a] \notin Loads,
         NEW t \in {<<>>, <<"finish">>}, todo' = [todo EXCEPT ![a] = t],
         armed' \in BOOLEAN,
         conn' \in [Clients -> {"out", "open", "closed"}], missing' \in [Clients -> SUBSET Parts],
         \A d \in Clients : conn'[d] = "open" => conn[d] = "open",
         \A d \in Clients : missing'[d] \subseteq missing[d],
         game = "none" => t = <<>> /\ armed' = armed,
         UNCHANGED <<handBased, status, game, room, at, failed>>
  PROVE  GatewayInv'
<1>1. GatewayTypeOK /\ Underway /\ RoomOK /\ WaitingOK /\ StartedOK
  BY DEF GatewayInv
<1>2. t \in Duties /\ t \notin Loads
  <2>1. t \in Duties
    BY PlainDuties
  <2>2. <<>> \notin Loads /\ <<"finish">> \notin Loads
    <3>1. <<>> \notin Loads
      BY DEF Loads, StateNext, EventNext, Leaving
    <3>2. <<"finish">> # <<>> /\ Head(<<"finish">>) = "finish"
      OBVIOUS
    <3> QED
      BY <3>1, <3>2, PlainDuties, DutiesAre
  <2> QED
    BY <2>1, <2>2
<1>3. \A b \in Actors : todo'[b] = IF b = a THEN t ELSE todo[b]
  BY <1>1 DEF GatewayTypeOK
<1>4. GatewayTypeOK'
  BY <1>1, <1>2 DEF GatewayTypeOK
<1>5. at[a].pc = "idle"
  BY <1>1 DEF Underway, Loads
<1>6. Underway' /\ RoomOK' /\ StartedOK'
  BY <1>1, <1>3, <1>5 DEF Underway, RoomOK, StartedOK
<1>7. WaitingOK'
  BY <1>1, <1>3, PlainDuties DEF WaitingOK
<1>8. Covered'
  <2>1. \A b \in Actors : WillLoad(b) => WillLoad(b)'
    BY <1>3 DEF WillLoad, Loads
  <2>2. \A b \in Actors, c \in Clients, p \in Parts : WillSend(b, c, p) => WillSend(b, c, p)'
    BY <1>3 DEF WillSend, holds, Loads
  <2>3. \A c \in Clients : missing'[c] \subseteq Parts
    OBVIOUS
  <2> QED
    BY <2>1, <2>2, <2>3 DEF GatewayInv, Covered
<1> QED
  BY <1>4, <1>6, <1>7, <1>8 DEF GatewayInv

\* The error of a request is for its sender alone.
LEMMA AnswerErrorInv ==
  ASSUME GatewayInv, NEW c \in Clients, AnswerError(c)
  PROVE  GatewayInv'
<1>1. /\ todo[c] # <<>> /\ Head(todo[c]) = "error" /\ sendJSON(c, missing[c])
      /\ todo' = [todo EXCEPT ![c] = <<>>]
      /\ UNCHANGED <<handBased, status, game, armed, room, at, failed>>
  BY DEF AnswerError, doing, busy
<1>2. c \in Actors /\ todo[c] \in Duties /\ armed \in BOOLEAN /\ missing[c] \in SUBSET Parts
  BY ClientsAct DEF GatewayInv, GatewayTypeOK
<1>3. todo[c] \notin Loads
  BY <1>1, <1>2, DutiesAre
<1>4. /\ conn' \in [Clients -> {"out", "open", "closed"}]
      /\ missing' \in [Clients -> SUBSET Parts]
      /\ \A d \in Clients : conn'[d] = "open" => conn[d] = "open"
      /\ \A d \in Clients : d # c => missing'[d] = missing[d]
      /\ missing'[c] \subseteq missing[c]
  BY <1>1, <1>2, SendIs
<1> QED
  BY <1>1, <1>2, <1>3, <1>4, OtherDuty

\* So is the next hand.
LEMMA NextHandInv ==
  ASSUME GatewayInv, NextHand
  PROVE  GatewayInv'
<1>1. armed /\ todo["timer"] = <<>> /\ armed' = FALSE /\ UNCHANGED <<handBased, status, connection>>
  BY DEF NextHand
<1>2. "timer" \in Actors /\ at["timer"].pc = "idle"
  BY <1>1, ClientsAct, IdleIs
<1>3. GatewayTypeOK /\ game # "none" /\ StartedOK
  BY <1>1 DEF GatewayInv, WaitingOK
<1>4. <<>> \notin Loads
  BY DEF Loads, StateNext, EventNext, Leaving
<1>5. conn' = conn /\ room' = room
  BY <1>1 DEF connection
<1>6. todo = [todo EXCEPT !["timer"] = <<>>]
  BY <1>1, <1>2, <1>3 DEF GatewayTypeOK
<1>7. ASSUME game' = "playing", changed({"game"})
      PROVE  /\ {"game"} \in SUBSET Parts /\ game' \in Games /\ game' # "none" /\ StartedOK'
             /\ status' \in LobbyStatuses /\ armed' \in BOOLEAN /\ failed \in BOOLEAN
  BY <1>1, <1>3, <1>7 DEF Parts, Games, StartedOK, GatewayTypeOK
<1>8. CASE game' = "playing" /\ changed({"game"}) /\ goesOn("timer", <<"event", "state">>)
  <2>1. todo' = [todo EXCEPT !["timer"] = <<"event", "state">>] /\ failed' = failed
    BY <1>8 DEF goesOn
  <2> QED
    BY <1>1, <1>2, <1>7, <1>8, <2>1, PlainDuties, ChangeDuty
<1>9. CASE game' = "playing" /\ changed({"game"}) /\ failed' = TRUE /\ UNCHANGED todo
  <2>1. todo' = [todo EXCEPT !["timer"] = <<>>]
    BY <1>6, <1>9
  <2> QED
    BY <1>1, <1>2, <1>7, <1>9, <2>1, PlainDuties, ChangeDuty
<1>10. CASE goesOn("timer", <<"finish">>) /\ UNCHANGED <<game, missing, at>>
  <2>1. todo' = [todo EXCEPT !["timer"] = <<"finish">>] /\ failed' = failed
    BY <1>10 DEF goesOn
  <2> QED
    BY <1>1, <1>2, <1>3, <1>4, <1>5, <1>10, <2>1, OtherDuty DEF GatewayTypeOK
<1>11. CASE UNCHANGED <<game, missing, at, todo, failed>>
  BY <1>1, <1>2, <1>3, <1>4, <1>5, <1>6, <1>11, OtherDuty DEF GatewayTypeOK
<1> QED
  BY <1>8, <1>9, <1>10, <1>11 DEF NextHand

\* Arming the timer concerns no client.
LEMMA ScheduleInv ==
  ASSUME GatewayInv, NEW a \in Actors, Schedule(a)
  PROVE  GatewayInv'
<1>1. /\ todo[a] # <<>> /\ Head(todo[a]) = "schedule" /\ armed' = TRUE
      /\ todo' = [todo EXCEPT ![a] = <<>>]
      /\ UNCHANGED <<handBased, status, game, missing, at, connection, failed>>
  BY DEF Schedule, doing, busy
<1>2. todo[a] \in Duties /\ WaitingOK /\ GatewayTypeOK
  BY DEF GatewayInv, GatewayTypeOK
<1>3. todo[a] = <<"schedule">> /\ todo[a] \notin Loads
  BY <1>1, <1>2, DutiesAre
<1>4. game # "none"
  <2>1. <<"schedule">> \notin Early
    BY DEF Early
  <2> QED
    BY <1>2, <1>3, <2>1 DEF WaitingOK
<1>5. conn' = conn /\ room' = room
  BY <1>1 DEF connection
<1> QED
  BY <1>1, <1>2, <1>3, <1>4, <1>5, OtherDuty DEF GatewayTypeOK

\* Finishing the game is followed by a broadcast.
LEMMA FinishGameInv ==
  ASSUME GatewayInv, NEW a \in Actors, FinishGame(a)
  PROVE  GatewayInv'
<1>1. PICK t : t = IF Head(todo[a]) = "finish" THEN <<"event", "state">> ELSE <<"state">>
  OBVIOUS
<1>2. /\ todo[a] # <<>> /\ Head(todo[a]) \in {"finish", "announced"}
      /\ UNCHANGED <<handBased, connection>> /\ failed' = failed /\ armed' = armed /\ game' = game
  BY DEF FinishGame, doing, busy
<1>3. todo[a] \in Duties /\ GatewayTypeOK /\ WaitingOK /\ RoomOK /\ StartedOK
  BY DEF GatewayInv, GatewayTypeOK
<1>4. todo' = [todo EXCEPT ![a] = t]
  BY <1>1, <1>3 DEF FinishGame, GatewayTypeOK
<1>5. todo[a] \in {<<"finish">>, <<"announced">>}
  BY <1>2, <1>3, DutiesAre
<1>6. t \in Loads /\ t \in Duties
  BY <1>1, PlainDuties
<1>7. at[a].pc = "idle"
  BY <1>2, IdleIs
<1>8. game # "none"
  <2>1. <<"finish">> \notin Early /\ <<"announced">> \notin Early
    BY DEF Early
  <2> QED
    BY <1>3, <1>5, <2>1 DEF WaitingOK
<1>9. CASE status' = "finished" /\ changed({"lobby"})
  <2>1. {"lobby"} \in SUBSET Parts /\ status' \in LobbyStatuses /\ StartedOK'
    BY <1>9 DEF Parts, LobbyStatuses, StartedOK
  <2> QED
    BY <1>2, <1>3, <1>4, <1>6, <1>7, <1>8, <1>9, <2>1, ChangeDuty DEF GatewayTypeOK
<1>10. CASE UNCHANGED <<status, missing, at>>
  <2>1. conn' = conn /\ room' = room
    BY <1>2 DEF connection
  <2>2. RoomOK' /\ StartedOK'
    BY <1>2, <1>3, <1>10, <2>1 DEF RoomOK, StartedOK
  <2> QED
    BY <1>2, <1>3, <1>4, <1>6, <1>7, <1>8, <1>10, <2>1, <2>2, DutyInv DEF GatewayTypeOK
<1> QED
  BY <1>9, <1>10 DEF FinishGame


-----------------------------------------------------------------------------
(* The broadcasts. *)

\* Before the start, nothing follows the broadcast of the state, or comes before it.
LEMMA EarlyState == /\ \A t \in Early : t \in StateNext => t = <<"state">>
                    /\ \A t \in Early : t \notin EventNext
BY DEF Early, StateNext, EventNext

\* A lobby just loaded is the latest.
LEMMA LoadLobbyInv ==
  ASSUME GatewayInv, NEW a \in Actors, LoadLobby(a)
  PROVE  GatewayInv'
<1>1. /\ todo[a] # <<>> /\ Head(todo[a]) = "state" /\ at[a].pc = "idle"
      /\ UNCHANGED <<handBased, status, game, armed, connection, missing>>
  BY DEF LoadLobby, doing, busy
<1>2. GatewayTypeOK /\ Underway /\ RoomOK /\ WaitingOK /\ StartedOK /\ todo[a] \in Duties
  BY DEF GatewayInv, GatewayTypeOK
<1>3. todo[a] \in StateNext
  BY <1>1, <1>2, DutiesAre
<1>4. conn' = conn /\ room' = room /\ RoomOK' /\ StartedOK'
  BY <1>1, <1>2 DEF connection, RoomOK, StartedOK
<1>5. CASE /\ at' = [at EXCEPT ![a] = [Resting EXCEPT !.pc = "loaded", !.fresh = {"lobby"},
                                                      !.hasGame = (status # "waiting")]]
           /\ failed' = FALSE /\ UNCHANGED todo
  <2>1. PICK p : p = [Resting EXCEPT !.pc = "loaded", !.fresh = {"lobby"}, !.hasGame = (status # "waiting")]
    OBVIOUS
  <2>2. /\ p \in Positions /\ p.pc = "loaded" /\ p.fresh = {"lobby"}
        /\ p.hasGame = (status # "waiting")
    BY <2>1, ClientsAct DEF Resting, Positions, Parts
  <2>3. at' = [at EXCEPT ![a] = p]
    BY <1>5, <2>1
  <2>4. \A b \in Actors : at'[b] = IF b = a THEN p ELSE at[b]
    BY <1>2, <2>3 DEF GatewayTypeOK
  <2>5. GatewayTypeOK'
    BY <1>1, <1>2, <1>4, <1>5, <2>2, <2>3 DEF GatewayTypeOK
  <2>6. Underway'
    BY <1>2, <1>3, <1>5, <2>2, <2>4 DEF Underway
  <2>7. WaitingOK'
    BY <1>1, <1>2, <1>5 DEF WaitingOK
  <2>8. ASSUME NEW c \in Clients, NEW q \in missing[c]
        PROVE  WillSend(a, c, q)'
    <3>1. q \in Parts
      BY <1>2 DEF GatewayTypeOK
    <3>2. q = "game" => status # "waiting"
      BY <1>2 DEF WaitingOK, StartedOK
    <3>3. todo'[a] \in StateNext /\ at'[a].pc = "loaded"
      BY <1>3, <1>5, <2>2, <2>4
    <3>4. holds(a, q)'
      BY <2>2, <2>4, <3>1, <3>2 DEF holds, Parts
    <3> QED
      BY <3>3, <3>4 DEF WillSend
  <2>9. Covered'
    BY <1>1, <2>8 DEF Covered
  <2> QED
    BY <1>4, <2>5, <2>6, <2>7, <2>9 DEF GatewayInv
<1>6. CASE endBroadcast(a) /\ failed' = TRUE
  <2>1. todo' = [todo EXCEPT ![a] = Tail(todo[a])] /\ at' = [at EXCEPT ![a] = Resting]
    BY <1>2, <1>6 DEF endBroadcast, GatewayTypeOK
  <2>2. Tail(todo[a]) \in Ends
    BY <1>2, <1>3, DutiesAre
  <2>3. Tail(todo[a]) \in Duties
    BY <2>2 DEF Duties
  <2>4. GatewayTypeOK'
    BY <1>1, <1>2, <1>4, <1>6, <2>1, <2>3, ClientsAct DEF GatewayTypeOK
  <2>5. \A b \in Actors : b # a => at'[b] = at[b] /\ todo'[b] = todo[b]
    BY <1>2, <2>1 DEF GatewayTypeOK
  <2>6. at'[a] = Resting /\ todo'[a] = Tail(todo[a])
    BY <1>2, <2>1 DEF GatewayTypeOK
  <2>7. Underway'
    BY <1>2, <2>5, <2>6, ClientsAct DEF Underway
  <2>8. WaitingOK'
    <3>1. todo[a] = <<"state">> => Tail(todo[a]) = <<>>
      OBVIOUS
    <3>2. game = "none" => todo[a] = <<"state">>
      BY <1>2, <1>3, EarlyState DEF WaitingOK
    <3> QED
      BY <1>1, <1>2, <2>5, <2>6, <3>1, <3>2, PlainDuties DEF WaitingOK
  <2> QED
    BY <1>4, <1>6, <2>4, <2>7, <2>8 DEF GatewayInv, Covered
<1> QED
  BY <1>5, <1>6 DEF LoadLobby

\* Where a goes on to, others being where they are.
Goes(a, p, t) ==
  /\ at' = [at EXCEPT ![a] = p] /\ todo' = [todo EXCEPT ![a] = t]

\* A goroutine that goes on keeps the invariant if whatever it was to send it
\* sent, or still will.
LEMMA GoesInv ==
  ASSUME GatewayInv, NEW a \in Actors, NEW p \in Positions, NEW t \in Duties, Goes(a, p, t),
         p.pc # "idle" => t \in StateNext \cup EventNext,
         p.pc \in {"loaded", "built"} => t \in StateNext,
         game = "none" => t \in Early /\ \A c \in Clients : missing'[c] \subseteq {"lobby"},
         conn' \in [Clients -> {"out", "open", "closed"}], missing' \in [Clients -> SUBSET Parts],
         failed' \in BOOLEAN, \A c \in Clients : conn'[c] = "open" => conn[c] = "open",
         UNCHANGED <<handBased, status, game, armed, room>>
  PROVE  /\ GatewayTypeOK' /\ Underway' /\ RoomOK' /\ WaitingOK' /\ StartedOK'
         /\ at'[a] = p /\ todo'[a] = t
         /\ \A b \in Actors : b # a => /\ at'[b] = at[b] /\ todo'[b] = todo[b]
                                       /\ WillLoad(b) => WillLoad(b)'
                                       /\ \A c \in Clients, q \in Parts : WillSend(b, c, q) => WillSend(b, c, q)'
<1>1. GatewayTypeOK /\ Underway /\ RoomOK /\ WaitingOK /\ StartedOK
  BY DEF GatewayInv
<1>2. /\ at'[a] = p /\ todo'[a] = t
      /\ \A b \in Actors : b # a => at'[b] = at[b] /\ todo'[b] = todo[b]
  BY <1>1 DEF GatewayTypeOK, Goes
<1>3. GatewayTypeOK'
  BY <1>1 DEF GatewayTypeOK, Goes
<1>4. Underway'
  BY <1>1, <1>2 DEF Underway
<1>5. RoomOK' /\ WaitingOK' /\ StartedOK'
  BY <1>1, <1>2 DEF RoomOK, WaitingOK, StartedOK
<1>6. \A b \in Actors : b # a => /\ WillLoad(b) => WillLoad(b)'
                                 /\ \A c \in Clients, q \in Parts : WillSend(b, c, q) => WillSend(b, c, q)'
  BY <1>2 DEF WillLoad, WillSend, holds
<1> QED
  BY <1>2, <1>3, <1>4, <1>5, <1>6

\* The broadcast of an event that ends leaves the one of the state to begin.
LEMMA EventGoesOn ==
  ASSUME GatewayInv, NEW a \in Actors, todo[a] \in EventNext
  PROVE  /\ game # "none" /\ Tail(todo[a]) \in StateNext /\ Tail(todo[a]) \in Duties
         /\ todo[a] \in Duties
<1>1. todo[a] \in Duties /\ WaitingOK
  BY DEF GatewayInv, GatewayTypeOK
<1>2. game # "none"
  BY <1>1, EarlyState DEF WaitingOK
<1>3. Tail(todo[a]) \in StateNext
  BY <1>1, DutiesAre
<1> QED
  BY <1>1, <1>2, <1>3 DEF Duties, Loads

\* What is left to do after the state has been broadcast, also in the lobby.
LEMMA StateGoesOn ==
  ASSUME GatewayInv, NEW a \in Actors, todo[a] \in StateNext
  PROVE  /\ Tail(todo[a]) \in Duties
         /\ game = "none" => todo[a] = <<"state">> /\ Tail(todo[a]) = <<>>
<1>1. todo[a] \in Duties /\ WaitingOK
  BY DEF GatewayInv, GatewayTypeOK
<1>2. Tail(todo[a]) \in Ends
  BY <1>1, DutiesAre
<1>3. Tail(<<"state">>) = <<>>
  OBVIOUS
<1>4. game = "none" => todo[a] = <<"state">>
  BY <1>1, EarlyState DEF WaitingOK
<1> QED
  BY <1>2, <1>3, <1>4 DEF Duties

\* The copy of the room holds everyone connected.
LEMMA CopyRoomInv ==
  ASSUME GatewayInv, NEW a \in Actors, CopyRoom(a)
  PROVE  GatewayInv'
<1>1. /\ todo[a] # <<>>
      /\ \/ Head(todo[a]) = "state" /\ at[a].pc = "loaded"
         \/ Head(todo[a]) = "event" /\ at[a].pc = "idle"
      /\ UNCHANGED <<handBased, status, game, armed, connection, missing, failed>>
  BY DEF CopyRoom, doing, busy
<1>2. GatewayTypeOK /\ RoomOK /\ WaitingOK /\ todo[a] \in Duties /\ at[a] \in Positions
  BY DEF GatewayInv, GatewayTypeOK
<1>3. \/ todo[a] \in StateNext /\ at[a].pc = "loaded"
      \/ todo[a] \in EventNext /\ at[a].pc = "idle"
  BY <1>1, <1>2, DutiesAre
<1>4. conn' = conn /\ room' = room
  BY <1>1 DEF connection
<1>5. /\ conn' \in [Clients -> {"out", "open", "closed"}] /\ missing' \in [Clients -> SUBSET Parts]
      /\ failed' \in BOOLEAN /\ \A c \in Clients : conn'[c] = "open" => conn[c] = "open"
      /\ UNCHANGED <<handBased, status, game, armed, room>>
      /\ game = "none" => \A c \in Clients : missing'[c] \subseteq {"lobby"}
  BY <1>1, <1>2, <1>4 DEF GatewayTypeOK, WaitingOK
<1>6. CASE room = {}
  <2>1. Goes(a, Resting, Tail(todo[a]))
    BY <1>2, <1>6 DEF CopyRoom, endBroadcast, Goes, GatewayTypeOK
  <2>2. Tail(todo[a]) \in Duties /\ (game = "none" => Tail(todo[a]) = <<>>)
    BY <1>3, EventGoesOn, StateGoesOn
  <2>3. Resting.pc = "idle" /\ Resting \in Positions
    BY ClientsAct
  <2>4. GatewayTypeOK' /\ Underway' /\ RoomOK' /\ WaitingOK' /\ StartedOK'
    BY <1>5, <2>1, <2>2, <2>3, PlainDuties, GoesInv
  <2>5. Covered'
    BY <1>2, <1>4, <1>6 DEF Covered, RoomOK
  <2> QED
    BY <2>4, <2>5 DEF GatewayInv
<1>7. CASE room # {}
  <2>1. PICK p : p = [at[a] EXCEPT !.pc = "fan", !.left = room]
    OBVIOUS
  <2>2. /\ p \in Positions /\ p.pc = "fan" /\ p.left = room /\ p.hasGame = at[a].hasGame
        /\ p.fresh = at[a].fresh
    BY <1>2, <2>1 DEF Positions, GatewayTypeOK
  <2>3. Goes(a, p, todo[a])
    <3>1. at' = [at EXCEPT ![a].pc = "fan", ![a].left = room] /\ todo' = todo
      BY <1>7 DEF CopyRoom
    <3>2. at' = [at EXCEPT ![a] = p]
      BY <1>2, <2>1, <3>1 DEF GatewayTypeOK
    <3> QED
      BY <1>2, <3>1, <3>2 DEF Goes, GatewayTypeOK
  <2>4. game = "none" => todo[a] \in Early
    BY <1>2 DEF WaitingOK
  <2>5. todo[a] \in StateNext \cup EventNext
    BY <1>3
  <2>6. /\ GatewayTypeOK' /\ Underway' /\ RoomOK' /\ WaitingOK' /\ StartedOK'
        /\ at'[a] = p /\ todo'[a] = todo[a]
        /\ \A b \in Actors : b # a => /\ WillLoad(b) => WillLoad(b)'
                                      /\ \A c \in Clients, q \in Parts : WillSend(b, c, q) => WillSend(b, c, q)'
    BY <1>2, <1>5, <2>2, <2>3, <2>4, <2>5, GoesInv
  <2>7. Covered'
    <3>1. CASE todo[a] \in EventNext
      <4>1. WillLoad(a)'
        BY <2>6, <3>1 DEF WillLoad
      <4> QED
        BY <4>1, BeginCovers
    <3>2. CASE todo[a] \in StateNext
      <4>1. at[a].pc = "loaded" /\ ~WillLoad(a)
        BY <1>2, <1>3, <3>2, DutiesAre DEF WillLoad
      <4>2. ASSUME NEW c \in Clients, conn[c] = "open", NEW q \in Parts, WillSend(a, c, q)
            PROVE  WillSend(a, c, q)'
        <5>1. c \in room
          BY <1>2, <4>2 DEF RoomOK
        <5>2. holds(a, q)
          BY <4>1, <4>2 DEF WillSend
        <5> QED
          BY <2>2, <2>6, <3>2, <5>1, <5>2 DEF WillSend, holds
      <4>3. \A c \in Clients : missing[c] \subseteq Parts
        BY <1>2 DEF GatewayTypeOK
      <4> QED
        BY <1>1, <1>4, <2>6, <4>1, <4>2, <4>3 DEF GatewayInv, Covered
    <3> QED
      BY <2>5, <3>1, <3>2
  <2> QED
    BY <2>6, <2>7 DEF GatewayInv
<1> QED
  BY <1>6, <1>7

\* A view just built is the latest.
LEMMA BuildViewInv ==
  ASSUME GatewayInv, NEW a \in Actors, NEW c \in Clients, BuildView(a, c)
  PROVE  GatewayInv'
<1>1. /\ todo[a] # <<>> /\ Head(todo[a]) = "state" /\ at[a].pc = "fan" /\ c \in at[a].left /\ at[a].hasGame
      /\ at' = [at EXCEPT ![a].pc = "built", ![a].to = c, ![a].fresh = @ \cup {"game"}]
      /\ UNCHANGED <<handBased, status, game, armed, connection, missing, todo, failed>>
  BY DEF BuildView, doing, busy
<1>2. GatewayTypeOK /\ WaitingOK /\ todo[a] \in Duties /\ at[a] \in Positions
  BY DEF GatewayInv, GatewayTypeOK
<1>3. todo[a] \in StateNext
  BY <1>1, <1>2, DutiesAre
<1>4. conn' = conn /\ room' = room
  BY <1>1 DEF connection
<1>5. /\ conn' \in [Clients -> {"out", "open", "closed"}] /\ missing' \in [Clients -> SUBSET Parts]
      /\ failed' \in BOOLEAN /\ \A d \in Clients : conn'[d] = "open" => conn[d] = "open"
      /\ UNCHANGED <<handBased, status, game, armed, room>>
      /\ game = "none" => \A d \in Clients : missing'[d] \subseteq {"lobby"}
  BY <1>1, <1>2, <1>4 DEF GatewayTypeOK, WaitingOK
<1>6. PICK p : p = [at[a] EXCEPT !.pc = "built", !.to = c, !.fresh = @ \cup {"game"}]
  OBVIOUS
<1>7. /\ p \in Positions /\ p.pc = "built" /\ p.left = at[a].left /\ p.hasGame = at[a].hasGame
      /\ p.fresh = at[a].fresh \cup {"game"} /\ p.to = c
  BY <1>2, <1>6, ClientsAct DEF Positions, Parts
<1>8. Goes(a, p, todo[a])
  <2>1. at' = [at EXCEPT ![a] = p]
    BY <1>1, <1>2, <1>6 DEF GatewayTypeOK
  <2> QED
    BY <1>1, <1>2, <2>1 DEF Goes, GatewayTypeOK
<1>9. game = "none" => todo[a] \in Early
  BY <1>2 DEF WaitingOK
<1>10. /\ GatewayTypeOK' /\ Underway' /\ RoomOK' /\ WaitingOK' /\ StartedOK'
       /\ at'[a] = p /\ todo'[a] = todo[a]
       /\ \A b \in Actors : b # a => /\ WillLoad(b) => WillLoad(b)'
                                     /\ \A d \in Clients, q \in Parts : WillSend(b, d, q) => WillSend(b, d, q)'
  BY <1>2, <1>3, <1>5, <1>7, <1>8, <1>9, GoesInv
<1>11. ~WillLoad(a)
  BY <1>1, <1>2, <1>3, DutiesAre DEF WillLoad
<1>12. ASSUME NEW d \in Clients, NEW q \in Parts, WillSend(a, d, q)
       PROVE  WillSend(a, d, q)'
  <2>1. d \in at[a].left /\ holds(a, q)
    BY <1>1, <1>12 DEF WillSend
  <2>2. d = c => q \in p.fresh
    BY <1>7, <2>1 DEF holds
  <2>3. holds(a, q)'
    BY <1>7, <1>10, <2>1 DEF holds
  <2> QED
    BY <1>3, <1>7, <1>10, <2>1, <2>2, <2>3 DEF WillSend
<1>13. Covered'
  <2>1. \A d \in Clients : missing[d] \subseteq Parts
    BY <1>2 DEF GatewayTypeOK
  <2> QED
    BY <1>1, <1>4, <1>10, <1>11, <1>12, <2>1 DEF GatewayInv, Covered
<1> QED
  BY <1>10, <1>13 DEF GatewayInv

\* After c, the others in turn; after the last of them the broadcast is over.
NextPosition(a, c) ==
  IF at[a].left = {c} THEN Resting
  ELSE [at[a] EXCEPT !.pc = "fan", !.left = @ \ {c}, !.to = "timer", !.fresh = @ \ {"game"}]

NextDuty(a, c) == IF at[a].left = {c} THEN Tail(todo[a]) ELSE todo[a]

\* After one message a goroutine goes on to the next client, or is done.
LEMMA SentToIs ==
  ASSUME GatewayInv, NEW a \in Actors, NEW c \in Clients, sentTo(a, c)
  PROVE  /\ NextPosition(a, c) \in Positions /\ NextPosition(a, c).pc \in {"idle", "fan"}
         /\ NextPosition(a, c).pc = "idle" <=> at[a].left = {c}
         /\ Goes(a, NextPosition(a, c), NextDuty(a, c))
<1>1. at \in [Actors -> Positions] /\ at[a] \in Positions /\ todo \in [Actors -> Duties]
  BY DEF GatewayInv, GatewayTypeOK
<1>2. CASE at[a].left = {c}
  <2>1. NextPosition(a, c) = Resting /\ NextDuty(a, c) = Tail(todo[a])
    BY <1>2 DEF NextPosition, NextDuty
  <2>2. Goes(a, Resting, Tail(todo[a]))
    BY <1>1, <1>2 DEF sentTo, endBroadcast, Goes
  <2> QED
    BY <1>2, <2>1, <2>2, ClientsAct
<1>3. CASE at[a].left # {c}
  <2>1. PICK p : p = [at[a] EXCEPT !.pc = "fan", !.left = @ \ {c}, !.to = "timer", !.fresh = @ \ {"game"}]
    OBVIOUS
  <2>2. NextPosition(a, c) = p /\ NextDuty(a, c) = todo[a]
    BY <1>3, <2>1 DEF NextPosition, NextDuty
  <2>3. p \in Positions /\ p.pc = "fan"
    BY <1>1, <2>1, ClientsAct DEF Positions
  <2>4. todo' = todo /\ at' = [at EXCEPT ![a].pc = "fan", ![a].left = @ \ {c}, ![a].to = "timer",
                                         ![a].fresh = @ \ {"game"}]
    BY <1>3 DEF sentTo
  <2>5. at' = [at EXCEPT ![a] = p]
    BY <1>1, <2>1, <2>4
  <2>6. Goes(a, p, todo[a])
    BY <1>1, <2>4, <2>5 DEF Goes
  <2> QED
    BY <1>3, <2>2, <2>3, <2>6
<1> QED
  BY <1>2, <1>3

\* A state sent is no longer missing.
LEMMA SendStateInv ==
  ASSUME GatewayInv, NEW a \in Actors, NEW c \in Clients, SendState(a, c)
  PROVE  GatewayInv'
<1>1. /\ todo[a] # <<>> /\ Head(todo[a]) = "state"
      /\ \/ at[a].pc = "built" /\ c = at[a].to /\ failed' = failed
         \/ at[a].pc = "fan" /\ c \in at[a].left /\ failed' = (failed \/ (at[a].hasGame /\ game # "none"))
      /\ sendJSON(c, missing[c] \ at[a].fresh) /\ sentTo(a, c)
      /\ UNCHANGED <<handBased, status, game, armed, room>>
  BY DEF SendState, doing, busy
<1>2. GatewayTypeOK /\ WaitingOK /\ todo[a] \in Duties /\ at[a] \in Positions /\ missing[c] \subseteq Parts
  BY DEF GatewayInv, GatewayTypeOK
<1>3. todo[a] \in StateNext
  BY <1>1, <1>2, DutiesAre
<1>4. /\ conn' \in [Clients -> {"out", "open", "closed"}]
      /\ missing' \in [Clients -> SUBSET Parts]
      /\ \A d \in Clients : conn'[d] = "open" => conn[d] = "open"
      /\ \A d \in Clients : d # c => missing'[d] = missing[d]
      /\ conn'[c] = "open" => missing'[c] = missing[c] \ at[a].fresh
      /\ missing'[c] \subseteq missing[c]
  <2>1. missing[c] \ at[a].fresh \in SUBSET Parts
    BY <1>2
  <2>2. missing'[c] \subseteq (missing[c] \ at[a].fresh) \cup missing[c]
    BY <1>1, <2>1, SendIs
  <2> QED
    BY <1>1, <2>1, <2>2, SendIs
<1>5. PICK p \in Positions : /\ p = NextPosition(a, c) /\ p.pc \in {"idle", "fan"}
                             /\ p.pc = "idle" <=> at[a].left = {c}
                             /\ Goes(a, p, NextDuty(a, c))
  BY <1>1, SentToIs
<1>6. PICK t : t = NextDuty(a, c)
  OBVIOUS
<1>7. /\ t \in Duties /\ (p.pc # "idle" => t = todo[a])
      /\ game = "none" => t \in Early
  BY <1>2, <1>3, <1>5, <1>6, StateGoesOn, PlainDuties DEF NextDuty
<1>8. failed' \in BOOLEAN
  BY <1>1, <1>2 DEF GatewayTypeOK, Positions
<1>9. game = "none" => \A d \in Clients : missing'[d] \subseteq {"lobby"}
  BY <1>2, <1>4 DEF WaitingOK
<1>10. /\ GatewayTypeOK' /\ Underway' /\ RoomOK' /\ WaitingOK' /\ StartedOK'
       /\ at'[a] = p /\ todo'[a] = t
       /\ \A b \in Actors : b # a => /\ WillLoad(b) => WillLoad(b)'
                                     /\ \A d \in Clients, q \in Parts : WillSend(b, d, q) => WillSend(b, d, q)'
  BY <1>1, <1>3, <1>4, <1>5, <1>6, <1>7, <1>8, <1>9, GoesInv
<1>11. ~WillLoad(a)
  BY <1>1, <1>2, <1>3, DutiesAre DEF WillLoad
<1>12. ASSUME ~failed', NEW d \in Clients, conn'[d] = "open", NEW q \in missing'[d], WillSend(a, d, q)
       PROVE  WillSend(a, d, q)'
  <2>1. ~failed
    BY <1>1, <1>12
  <2>2. d # c
    <3> SUFFICES ASSUME d = c PROVE FALSE
      OBVIOUS
    <3>1. q \notin at[a].fresh
      BY <1>4, <1>12
    <3>2. at[a].pc = "fan" => ~at[a].hasGame \/ game = "none"
      BY <1>1, <1>12
    <3>3. q = "game" => game # "none"
      BY <1>2, <1>4, <1>12 DEF WaitingOK
    <3> QED
      BY <1>1, <1>12, <3>1, <3>2, <3>3 DEF WillSend, holds
  <2>3. d \in at[a].left /\ holds(a, q)
    BY <1>1, <1>12, <2>2 DEF WillSend
  <2>4. at[a].left # {c}
    BY <2>2, <2>3
  <2>5. p = [at[a] EXCEPT !.pc = "fan", !.left = @ \ {c}, !.to = "timer", !.fresh = @ \ {"game"}]
    BY <1>5, <2>4 DEF NextPosition
  <2>6. p.pc = "fan" /\ p.left = at[a].left \ {c} /\ p.hasGame = at[a].hasGame /\ p.fresh = at[a].fresh \ {"game"}
    BY <1>2, <2>5 DEF Positions
  <2>7. t = todo[a]
    BY <1>7, <2>6
  <2>8. holds(a, q)'
    BY <1>10, <2>3, <2>6 DEF holds
  <2> QED
    BY <1>3, <1>10, <2>2, <2>3, <2>6, <2>7, <2>8 DEF WillSend
<1>13. Covered'
  <2>1. \A d \in Clients : missing'[d] \subseteq missing[d] /\ missing'[d] \subseteq Parts
    BY <1>2, <1>4 DEF GatewayTypeOK
  <2>2. ~failed' => ~failed
    BY <1>1
  <2> QED
    BY <1>4, <1>10, <1>11, <1>12, <2>1, <2>2 DEF GatewayInv, Covered
<1> QED
  BY <1>10, <1>13 DEF GatewayInv

\* Sending an event leaves the state still to be sent.
LEMMA SendEventInv ==
  ASSUME GatewayInv, NEW a \in Actors, NEW c \in Clients, SendEvent(a, c)
  PROVE  GatewayInv'
<1>1. /\ todo[a] # <<>> /\ Head(todo[a]) = "event" /\ at[a].pc = "fan"
      /\ sendJSON(c, missing[c] \cup {"game"}) /\ sentTo(a, c)
      /\ UNCHANGED <<handBased, status, game, armed, room, failed>>
  BY DEF SendEvent, doing, busy
<1>2. GatewayTypeOK /\ todo[a] \in Duties /\ missing[c] \subseteq Parts /\ failed \in BOOLEAN
  BY DEF GatewayInv, GatewayTypeOK
<1>3. todo[a] \in EventNext
  BY <1>1, <1>2, DutiesAre
<1>4. /\ conn' \in [Clients -> {"out", "open", "closed"}]
      /\ missing' \in [Clients -> SUBSET Parts]
      /\ \A d \in Clients : conn'[d] = "open" => conn[d] = "open"
  <2>1. missing[c] \cup {"game"} \in SUBSET Parts
    BY <1>2 DEF Parts
  <2> QED
    BY <1>1, <2>1, SendIs
<1>5. PICK p \in Positions : /\ p = NextPosition(a, c) /\ p.pc \in {"idle", "fan"}
                             /\ p.pc = "idle" <=> at[a].left = {c}
                             /\ Goes(a, p, NextDuty(a, c))
  BY <1>1, SentToIs
<1>6. PICK t : t = NextDuty(a, c)
  OBVIOUS
<1>7. /\ t \in Duties /\ game # "none"
      /\ (p.pc # "idle" => t \in EventNext) /\ (p.pc = "idle" => t \in StateNext)
  BY <1>3, <1>5, <1>6, EventGoesOn DEF NextDuty
<1>8. failed' \in BOOLEAN
  BY <1>1, <1>2
<1>9. /\ GatewayTypeOK' /\ Underway' /\ RoomOK' /\ WaitingOK' /\ StartedOK'
      /\ at'[a] = p /\ todo'[a] = t
  BY <1>1, <1>4, <1>5, <1>6, <1>7, <1>8, GoesInv
<1>10. WillLoad(a)'
  BY <1>7, <1>9 DEF WillLoad
<1> QED
  BY <1>9, <1>10, BeginCovers DEF GatewayInv

-----------------------------------------------------------------------------
\* Every step keeps the invariant of the gateway.
LEMMA GatewayStep == GatewayInv /\ [GatewayNext]_gatewayVars => GatewayInv'
<1> SUFFICES ASSUME GatewayInv, [GatewayNext]_gatewayVars PROVE GatewayInv'
  OBVIOUS
<1>1. CASE UNCHANGED gatewayVars
  <2>1. UNCHANGED <<status, game, armed, conn, room, missing, todo, at, failed, handBased>>
    BY <1>1 DEF gatewayVars, connection
  <2> QED
    BY <2>1, LessInv DEF GatewayInv, GatewayTypeOK
<1>2. ASSUME NEW c \in Clients,
             \/ Connect(c) \/ Deliver(c) \/ Drop(c) \/ Hangup(c)
             \/ Join(c) \/ Start(c) \/ Leave(c) \/ Refuse(c)
             \/ \E ends \in BOOLEAN : Act(c, ends)
      PROVE  GatewayInv'
  BY <1>2, ConnectInv, DeliverInv, DropInv, HangupInv, JoinInv, StartInv, LeaveInv,
     RefuseInv, ActInv
<1>3. ASSUME NEW a \in Actors, Work(a)
      PROVE  GatewayInv'
  BY <1>3, GoOnLeavingInv, AnswerErrorInv, ScheduleInv, FinishGameInv, LoadLobbyInv, CopyRoomInv, BuildViewInv,
     SendStateInv, SendEventInv
  DEF Work, Broadcasts
<1> QED
  BY <1>1, <1>2, <1>3, NextHandInv DEF GatewayNext

(***************************************************************************)
(* However broadcasts interleave, each client connected has been sent the  *)
(* latest when everybody is done: whatever it misses at any moment, some   *)
(* goroutine is still to read and to send to it, unless since the last     *)
(* broadcast began a load or a view failed, or a request that had changed  *)
(* something did, of which nobody is told.                                 *)
(***************************************************************************)
THEOREM QuietIsCurrent == GatewaySpec => []QuietMeansCurrent
<1>1. GatewayInv => QuietMeansCurrent
  <2> SUFFICES ASSUME GatewayInv, ~failed, \A a \in Actors : ~busy(a), NEW c \in Clients, conn[c] = "open",
                      NEW q \in missing[c]
               PROVE  FALSE
    BY DEF QuietMeansCurrent
  <2>1. PICK a \in Actors : WillLoad(a) \/ WillSend(a, c, q)
    BY DEF GatewayInv, Covered
  <2>2. todo[a] \in StateNext \cup EventNext \cup Leaving
    BY <2>1 DEF WillLoad, WillSend
  <2>3. <<>> \notin StateNext \cup EventNext \cup Leaving
    BY DEF StateNext, EventNext, Leaving
  <2> QED
    BY <2>2, <2>3 DEF busy
<1> QED
  BY <1>1, GatewayInitInv, GatewayStep, PTL DEF GatewaySpec

=============================================================================
