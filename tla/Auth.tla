--------------------------------- MODULE Auth ---------------------------------
(***************************************************************************)
(* Accounts and sessions.  An account is created by registration or by the *)
(* first Google sign-in, whose transaction reads first and inserts later.  *)
(* A session is a chain of refresh tokens: each refresh consumes the token *)
(* presented in Redis and then stores the next one, and either step, or    *)
(* the answer, can fail.  Tabs are the callers of refresh and logout; they *)
(* share the tokens their browser holds.                                   *)
(***************************************************************************)
EXTENDS Naturals, FiniteSets

CONSTANTS Emails, Subs,   \* e-mail addresses, Google account ids
          Sessions,       \* bound: sessions ever opened
          MaxTokens,      \* bound: refresh tokens of a session
          Tabs

ASSUME AuthAssumption == MaxTokens \in Nat /\ "none" \notin Emails

VARIABLES account,    \* users by e-mail: "none", "password" or "oauth" (no password)
          identity,   \* oauth_identities: the e-mail of a Google account's user
          callbacks,  \* Google sign-ins between their reads and their inserts
          signedIn,   \* e-mails whose sign-in succeeded and waits for its tokens
          live,       \* Redis: the refresh tokens <<session, number>>
          issued,     \* refresh tokens generated so far, per session
          held,       \* the number of the token the browser holds, 0 for none
          told,       \* history: the browser was once answered with an error, missed an
                      \* answer, logged out, or let a token of the session expire
          call        \* what every tab is waiting for

accountVars == <<account, identity, callbacks>>
sessionVars == <<live, issued, held, told, call>>
vars == <<accountVars, signedIn, sessionVars>>

NoEmail == "none"
Quiet   == [pc |-> "idle", session |-> 0, token |-> 0]

Init == /\ account = [e \in Emails |-> "none"]
        /\ identity = [s \in Subs |-> NoEmail]
        /\ callbacks = {}
        /\ signedIn = {}
        /\ live = {}
        /\ issued = [s \in Sessions |-> 0]
        /\ held = [s \in Sessions |-> 0]
        /\ told = [s \in Sessions |-> FALSE]
        /\ call = [t \in Tabs |-> Quiet]

-----------------------------------------------------------------------------
(* Accounts. *)

Register(e) ==
    /\ account[e] = "none"
    /\ account' = [account EXCEPT ![e] = "password"]
    /\ signedIn' = signedIn \cup {e}
    /\ UNCHANGED <<identity, callbacks, sessionVars>>

Login(e) ==
    /\ account[e] = "password"
    /\ signedIn' = signedIn \cup {e}
    /\ UNCHANGED <<accountVars, sessionVars>>

(* GoogleCallback: the identity, if there is one; otherwise the account    *)
(* with the e-mail Google reports now, to link it or to create it.         *)
SignInWithIdentity(sub) ==
    /\ identity[sub] # NoEmail
    /\ signedIn' = signedIn \cup {identity[sub]}
    /\ UNCHANGED <<accountVars, sessionVars>>

FindNoIdentity(sub, e) ==
    /\ identity[sub] = NoEmail
    /\ callbacks' = callbacks \cup
           {[sub |-> sub, email |-> e, plan |-> IF account[e] = "none" THEN "create" ELSE "link"]}
    /\ UNCHANGED <<account, identity, signedIn, sessionVars>>

(* The inserts of the transaction and the unique constraints they meet.    *)
(* If one fails, both are undone.                                          *)
inserts(c) == c.plan = "link" \/ account[c.email] = "none"
links(c) == identity[c.sub] = NoEmail

accountsAfter_NoTx(c) == IF c.plan = "create" /\ inserts(c) THEN [account EXCEPT ![c.email] = "oauth"] ELSE account
accountsAfter(c) ==
    IF c.plan = "create" /\ inserts(c) /\ links(c) THEN [account EXCEPT ![c.email] = "oauth"] ELSE account

CommitCallback(c) ==
    /\ c \in callbacks
    /\ callbacks' = callbacks \ {c}
    /\ account' = accountsAfter(c)
    /\ IF inserts(c) /\ links(c)
       THEN /\ identity' = [identity EXCEPT ![c.sub] = c.email]
            /\ signedIn' = signedIn \cup {c.email}
       ELSE UNCHANGED <<identity, signedIn>>
    /\ UNCHANGED sessionVars

-----------------------------------------------------------------------------
(* Sessions. *)

idle(t) == call[t] = Quiet
tell(s) == told' = [told EXCEPT ![s] = TRUE]

(* issueTokens after a sign-in: the first token is stored and answered, or *)
(* the sign-in fails.                                                      *)
IssueFirst(e, s) ==
    /\ e \in signedIn
    /\ issued[s] = 0
    /\ signedIn' = signedIn \ {e}
    /\ issued' = [issued EXCEPT ![s] = 1]
    /\ live' = live \cup {<<s, 1>>}
    /\ held' = [held EXCEPT ![s] = 1]
    /\ UNCHANGED <<accountVars, told, call>>

IssueNone(e) ==
    /\ e \in signedIn
    /\ signedIn' = signedIn \ {e}
    /\ UNCHANGED <<accountVars, sessionVars>>

(* A tab presents the token the browser holds. *)
AskRefresh(t, s) ==
    /\ idle(t) /\ held[s] > 0
    /\ call' = [call EXCEPT ![t] = [pc |-> "refresh", session |-> s, token |-> held[s]]]
    /\ UNCHANGED <<accountVars, signedIn, live, issued, held, told>>

(* GETDEL reads and deletes in one command.  The caller gets an error if   *)
(* the token is unknown, or if Redis fails before or after deleting it.    *)
leftBy_Get(token) == live
leftBy(token) == live \ {token}

Consume(t) ==
    /\ call[t].pc = "refresh"
    /\ LET s == call[t].session
           token == <<s, call[t].token>>
       IN \/ /\ token \in live /\ live' = leftBy(token)
             /\ call' = [call EXCEPT ![t].pc = "consumed"]
             /\ UNCHANGED told
          \/ /\ live' \in {live, leftBy(token)}
             /\ call' = [call EXCEPT ![t] = Quiet]
             /\ tell(s)
    /\ UNCHANGED <<accountVars, signedIn, issued, held>>

(* issueTokens for a refresh: the next token is stored and the answer is   *)
(* on its way; or Redis fails, before or after storing it, and the caller  *)
(* gets an error, the presented token being gone already.                  *)
storeFailed_Ignored(t, s) == call' = [call EXCEPT ![t].pc = "answered", ![t].token = issued[s] + 1] /\ UNCHANGED told
storeFailed(t, s) == call' = [call EXCEPT ![t] = Quiet] /\ tell(s)

Store(t) ==
    /\ call[t].pc = "consumed"
    /\ LET s == call[t].session
           stored == live \cup {<<s, issued[s] + 1>>}
       IN /\ issued[s] < MaxTokens
          /\ issued' = [issued EXCEPT ![s] = @ + 1]
          /\ \/ /\ live' = stored
                /\ call' = [call EXCEPT ![t].pc = "answered", ![t].token = issued[s] + 1]
                /\ UNCHANGED told
             \/ storeFailed(t, s) /\ live' \in {live, stored}
    /\ UNCHANGED <<accountVars, signedIn, held>>

Answer(t) ==
    /\ call[t].pc = "answered"
    /\ LET s == call[t].session
       IN \/ held' = [held EXCEPT ![s] = call[t].token] /\ UNCHANGED told
          \/ tell(s) /\ UNCHANGED held    \* the answer is lost
    /\ call' = [call EXCEPT ![t] = Quiet]
    /\ UNCHANGED <<accountVars, signedIn, live, issued>>

(* Logout deletes the token presented, a missing one being no error. *)
Logout(t, s) ==
    /\ idle(t) /\ held[s] > 0
    /\ live' = live \ {<<s, held[s]>>}
    /\ held' = [held EXCEPT ![s] = 0]
    /\ tell(s)
    /\ UNCHANGED <<accountVars, signedIn, issued, call>>

Expire(token) ==
    /\ token \in live
    /\ live' = live \ {token}
    /\ tell(token[1])
    /\ UNCHANGED <<accountVars, signedIn, issued, held, call>>

-----------------------------------------------------------------------------
Next == \/ \E e \in Emails : Register(e) \/ Login(e) \/ IssueNone(e)
        \/ \E e \in Emails, s \in Sessions : IssueFirst(e, s)
        \/ \E sub \in Subs : SignInWithIdentity(sub) \/ \E e \in Emails : FindNoIdentity(sub, e)
        \/ \E c \in callbacks : CommitCallback(c)
        \/ \E t \in Tabs, s \in Sessions : AskRefresh(t, s) \/ Logout(t, s)
        \/ \E t \in Tabs : Consume(t) \/ Store(t) \/ Answer(t)
        \/ \E token \in live : Expire(token)

Spec == Init /\ [][Next]_vars

-----------------------------------------------------------------------------
(* Every account can be signed in to: it has a password or a Google        *)
(* account linked to it, also when sign-ins with one Google account race   *)
(* each other, or a registration, and some of their inserts fail.          *)
AccountIsReachable ==
    /\ \A e \in Emails : account[e] = "oauth" => \E sub \in Subs : identity[sub] = e
    /\ \A sub \in Subs : identity[sub] # NoEmail => account[identity[sub]] # "none"

replacing(t, s) == call[t].pc = "consumed" /\ call[t].session = s
answering(t, s) == call[t].pc = "answered" /\ call[t].session = s /\ <<s, call[t].token>> \in live

(* Refresh tokens rotate: however many tabs present one token at once, a   *)
(* session has one token that can be used or is being replaced, never two. *)
RotationIsLinear ==
    \A s \in Sessions :
        /\ \A k, l \in live : k[1] = s /\ l[1] = s => k = l
        /\ \A t, u \in Tabs : replacing(t, s) /\ replacing(u, s) => t = u
        /\ \A k \in live, t \in Tabs : ~(k[1] = s /\ replacing(t, s))

(* A browser that was told of no failure holds a token it can refresh      *)
(* with, or a tab of it is about to receive one: consuming before storing  *)
(* never logs a user out behind a success.                                 *)
HeldTokenWorks ==
    \A s \in Sessions : held[s] > 0 /\ ~told[s] =>
        \/ <<s, held[s]>> \in live
        \/ \E t \in Tabs : replacing(t, s)
        \/ \E t \in Tabs : answering(t, s)

=============================================================================
