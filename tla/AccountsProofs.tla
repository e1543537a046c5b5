---------------------------- MODULE AccountsProofs ----------------------------
(***************************************************************************)
(* Sign-ins of any number of browsers and accounts.  The unique indexes    *)
(* keep users one to one with accounts.  That the stored email is current  *)
(* rests on what a sign-in knows while it runs: which email Google         *)
(* reported (Reported), that the user it found is its account's or has its *)
(* email (Found), and that an account it did not find has no user          *)
(* (Missing), each unless another sign-in overlapped (Overlap).  Every     *)
(* session has the sign-in that created it (Sessions).                     *)
(***************************************************************************)
EXTENDS Accounts, TLAPS

\* What a sign-in holds, with the rows of users it may refer to.
Holds(s, rows) ==
    /\ s.pc # "new" => s.browser \in Browsers
    /\ s.pc \in Inside => s.sub \in Google /\ s.email \in Emails
    /\ s.pc \in {"update", "session", "answer"} => s.user \in Users /\ rows[s.user] # None
    /\ s.pc = "answer" => s.token \in Tokens

FlowOK == \A f \in Flows : Holds(flow[f], users)

Held ==
    /\ \A t \in Tokens : Active(t) => HasRow(sessions[t].user)
    /\ \A b \in Browsers : page[b].pc # "idle" => page[b].token \in Tokens

Overlap ==
    \A f, h \in Flows :
        f # h /\ flow[f].pc \in Inside /\ flow[h].pc \in Inside => flow[f].sub \in unsettled

Reported ==
    \A f \in Flows :
        flow[f].pc \in Inside /\ flow[f].sub \notin unsettled =>
            seen[flow[f].sub] = flow[f].email

Found ==
    \A f \in Flows :
        flow[f].pc = "update" =>
            LET row == users[flow[f].user] IN
            \/ row.sub = flow[f].sub
            \/ row.email = flow[f].email
            \/ row.sub \in unsettled

Missing ==
    \A f \in Flows :
        /\ flow[f].sub \notin unsettled
        /\ \/ flow[f].pc \in {"byEmail", "create"}
           \/ flow[f].pc = "update" /\ users[flow[f].user].sub # flow[f].sub
        => WithSub(flow[f].sub) = {}

\* A sign-in that got its session, and keeps it; each session has one.
Signed(f, t) == flow[f].pc \in {"answer", "done", "failed"} /\ flow[f].token = t

Sessions == \A t \in Tokens : Active(t) => \E f \in Flows : Signed(f, t)

Typed == TypeOK /\ FlowOK /\ Held

Current == Overlap /\ Reported /\ Found /\ Missing /\ EmailCurrent

Inv == Typed /\ OneUserPerAccount /\ Current /\ Sessions

-----------------------------------------------------------------------------
(* Types, and what sign-ins and sessions refer to *)

\* A sign-in whose new row is well formed keeps all of them so.
LEMMA FlowStep ==
  ASSUME Typed, NEW f \in Flows, NEW s \in FlowRow, FlowIs(f, s), Holds(s, users'),
         \A u \in Users : users[u] # None => users'[u] # None
  PROVE  flow' \in [Flows -> FlowRow] /\ FlowOK'
<1>1. flow \in [Flows -> FlowRow]
  BY DEF Typed, TypeOK
<1>2. flow' = [flow EXCEPT ![f] = s]
  BY DEF FlowIs
<1>3. flow' \in [Flows -> FlowRow]
  BY <1>1, <1>2
<1>4. ASSUME NEW h \in Flows PROVE Holds(flow'[h], users')
  <2>1. CASE h = f
    BY <1>1, <1>2, <2>1
  <2>2. CASE h # f
    <3>1. flow'[h] = flow[h] /\ Holds(flow[h], users)
      BY <1>1, <1>2, <2>2 DEF Typed, FlowOK
    <3> QED
      BY <3>1 DEF Holds
  <2> QED
    BY <2>1, <2>2
<1> QED
  BY <1>3, <1>4 DEF FlowOK

\* The same of one that only goes on to its next statement.
LEMMA GoesStep ==
  ASSUME Typed, NEW f \in Flows, NEW p, p \in {"failed", "done"} \cup Inside,
         Goes(f, p), users' = users, flow[f].pc # "new",
         p \in Inside => flow[f].pc \in Inside /\ p \in {"byEmail", "create", "session"},
         p = "session" => flow[f].pc = "update"
  PROVE  flow' \in [Flows -> FlowRow] /\ FlowOK'
<1> DEFINE s == [flow[f] EXCEPT !.pc = p]
<1>1. flow[f] \in FlowRow /\ Holds(flow[f], users)
  BY DEF Typed, TypeOK, FlowOK
<1>2. /\ s \in FlowRow /\ s.pc = p /\ s.browser = flow[f].browser /\ s.sub = flow[f].sub
      /\ s.email = flow[f].email /\ s.user = flow[f].user /\ s.token = flow[f].token
  BY <1>1 DEF FlowRow
<1>3. FlowIs(f, s)
  BY DEF Goes
<1> HIDE DEF s
<1>4. Holds(s, users')
  BY <1>1, <1>2 DEF Holds, Inside
<1> QED
  BY <1>2, <1>3, <1>4, FlowStep

\* A browser's cookies stay well formed when the state cookie is cleared.
LEMMA ClearedOK ==
  ASSUME Typed, NEW f \in Flows, NEW t \in OrNone(Tokens), Cleared(f, t)
  PROVE  jar' \in [Browsers -> Jar]
<1>1. jar \in [Browsers -> Jar]
  BY DEF Typed, TypeOK
<1>2. [state |-> None, session |-> t] \in Jar
  BY DEF Jar, OrNone
<1> QED
  BY <1>1, <1>2 DEF Cleared

\* Nobody has signed in at first.
LEMMA InitTyped == Init => Typed
<1> SUFFICES ASSUME Init PROVE Typed
  OBVIOUS
<1>1. NewFlow \in FlowRow /\ NewFlow.pc = "new"
  BY DEF NewFlow, FlowRow, OrNone
<1>2. [state |-> None, session |-> None] \in Jar /\ NoPage \in Page /\ NoPage.pc = "idle"
  BY DEF Jar, NoPage, Page, OrNone
<1>3. TypeOK
  <2>1. starts \in 0..MaxStarts
    BY AccountsAssumption DEF Init
  <2>2. flow \in [Flows -> FlowRow] /\ jar \in [Browsers -> Jar] /\ page \in [Browsers -> Page]
    BY <1>1, <1>2 DEF Init
  <2>3. users \in [Users -> UserRow \cup {None}]
    BY DEF Init
  <2>4. sessions \in [Tokens -> SessionRow \cup {None, Gone}]
    BY DEF Init
  <2> QED
    BY <2>1, <2>2, <2>3, <2>4 DEF Init, TypeOK, OrNone
<1>4. FlowOK
  BY <1>1 DEF Init, FlowOK, Holds, Inside
<1>5. Held
  BY <1>2 DEF Init, Held, Active
<1> QED
  BY <1>3, <1>4, <1>5 DEF Typed

\* A step of a sign-in that leaves rows, sessions and pages alone.
LEMMA FlowOnly ==
  ASSUME Typed, flow' \in [Flows -> FlowRow], FlowOK', jar' \in [Browsers -> Jar],
         unsettled' \subseteq Google, seen' \in [Google -> OrNone(Emails)],
         UNCHANGED <<tables, page, world>>
  PROVE  Typed'
<1>1. TypeOK'
  BY DEF Typed, TypeOK, tables, world
<1>2. Held'
  BY DEF Typed, Held, Active, HasRow, tables
<1> QED
  BY <1>1, <1>2 DEF Typed

\* Each statement of a sign-in keeps the types (GoogleCallback,
\* CreateOrUpdateUser).
LEMMA SignInTyped ==
  ASSUME Typed, NEW f \in Flows, SignIn(f)
  PROVE  Typed'
<1> USE DEF tables, world, history
<1>a. /\ flow[f] \in FlowRow /\ Holds(flow[f], users)
      /\ jar \in [Browsers -> Jar] /\ unsettled \subseteq Google
      /\ seen \in [Google -> OrNone(Emails)]
  BY DEF Typed, TypeOK, FlowOK
<1>1. ASSUME NEW b \in Browsers, StartGoogleLogin(f, b) PROVE Typed'
  <2> DEFINE s == [NewFlow EXCEPT !.pc = "google", !.browser = b]
  <2>1. s \in FlowRow /\ s.pc = "google" /\ s.browser = b
    BY DEF NewFlow, FlowRow, OrNone
  <2>2. FlowIs(f, s)
    BY <1>1 DEF StartGoogleLogin
  <2> HIDE DEF s
  <2>3. Holds(s, users')
    BY <2>1 DEF Holds, Inside
  <2>4. flow' \in [Flows -> FlowRow] /\ FlowOK'
    BY <1>1, <2>1, <2>2, <2>3, FlowStep DEF StartGoogleLogin
  <2>5. jar' \in [Browsers -> Jar]
    BY <1>1, <1>a DEF StartGoogleLogin, Jar, OrNone
  <2> QED
    BY <1>1, <1>a, <2>4, <2>5, FlowOnly DEF StartGoogleLogin
<1>2. ASSUME NEW g \in Google, CallbackAllowed(f, g) PROVE Typed'
  <2> DEFINE s == [flow[f] EXCEPT !.pc = "byOAuth", !.sub = g, !.email = mail[g]]
  <2>1. mail[g] \in Emails
    BY DEF Typed, TypeOK
  <2>2. s \in FlowRow /\ s.pc = "byOAuth" /\ s.browser = flow[f].browser
        /\ s.sub = g /\ s.email = mail[g]
    BY <1>a, <2>1 DEF FlowRow, OrNone, Inside
  <2>3. FlowIs(f, s) /\ flow[f].pc = "google"
    BY <1>2 DEF CallbackAllowed
  <2> HIDE DEF s
  <2>4. Holds(s, users')
    BY <1>a, <2>1, <2>2, <2>3 DEF Holds
  <2>5. flow' \in [Flows -> FlowRow] /\ FlowOK'
    BY <1>2, <2>2, <2>3, <2>4, FlowStep DEF CallbackAllowed
  <2>6. unsettled' \subseteq Google
    <3>1. Accounts(Running) \subseteq Google
      BY DEF Typed, FlowOK, Holds, Accounts, Running
    <3> QED
      BY <1>2, <1>a, <3>1 DEF CallbackAllowed
  <2>7. seen' \in [Google -> OrNone(Emails)]
    BY <1>2, <1>a, <2>1 DEF CallbackAllowed, OrNone
  <2> QED
    BY <1>2, <1>a, <2>5, <2>6, <2>7, FlowOnly DEF CallbackAllowed
<1>b. SessionCookie(f) \in OrNone(Tokens) \/ flow[f].browser \notin Browsers
  BY <1>a DEF SessionCookie, Jar
<1>3. CASE CallbackRejected(f)
  <2>1. flow' \in [Flows -> FlowRow] /\ FlowOK'
    BY <1>3, GoesStep DEF CallbackRejected, Inside
  <2> QED
    BY <1>3, <1>a, <2>1, FlowOnly DEF CallbackRejected
<1>c. ASSUME flow[f].pc # "new", Cleared(f, SessionCookie(f)) \/ jar' = jar
      PROVE  jar' \in [Browsers -> Jar]
  <2>1. SessionCookie(f) \in OrNone(Tokens)
    BY <1>a, <1>b, <1>c DEF Holds
  <2> QED
    BY <1>a, <1>c, <2>1, ClearedOK
<1>4. CASE CallbackRefused(f)
  <2>1. flow' \in [Flows -> FlowRow] /\ FlowOK'
    BY <1>4, GoesStep DEF CallbackRefused, Inside
  <2>2. jar' \in [Browsers -> Jar]
    BY <1>4, <1>c DEF CallbackRefused
  <2> QED
    BY <1>4, <1>a, <2>1, <2>2, FlowOnly DEF CallbackRefused
<1>d. ASSUME NEW u \in Users, HasRow(u), flow[f].pc \in {"byOAuth", "byEmail"},
             FlowIs(f, [flow[f] EXCEPT !.pc = "update", !.user = u]), users' = users
      PROVE  flow' \in [Flows -> FlowRow] /\ FlowOK'
  <2> DEFINE s == [flow[f] EXCEPT !.pc = "update", !.user = u]
  <2>1. s \in FlowRow /\ s.pc = "update" /\ s.browser = flow[f].browser
        /\ s.sub = flow[f].sub /\ s.email = flow[f].email /\ s.user = u
    BY <1>a DEF FlowRow, OrNone, Inside
  <2>2. FlowIs(f, s)
    BY <1>d
  <2> HIDE DEF s
  <2>3. Holds(s, users')
    BY <1>a, <1>d, <2>1 DEF Holds, Inside, HasRow
  <2> QED
    BY <1>d, <2>1, <2>2, <2>3, FlowStep
<1>5. CASE FindUserByOAuth(f)
  <2>1. flow' \in [Flows -> FlowRow] /\ FlowOK'
    <3>1. ASSUME NEW u \in WithSub(flow[f].sub),
                 FlowIs(f, [flow[f] EXCEPT !.pc = "update", !.user = u])
          PROVE  flow' \in [Flows -> FlowRow] /\ FlowOK'
      BY <1>5, <1>d, <3>1 DEF FindUserByOAuth, WithSub
    <3>2. CASE Goes(f, "byEmail")
      BY <1>5, <3>2, GoesStep DEF FindUserByOAuth, Inside
    <3> QED
      BY <1>5, <3>1, <3>2 DEF FindUserByOAuth
  <2> QED
    BY <1>5, <1>a, <2>1, FlowOnly DEF FindUserByOAuth
<1>6. CASE FindUserByEmail(f)
  <2>1. flow' \in [Flows -> FlowRow] /\ FlowOK'
    <3>1. ASSUME NEW u \in WithEmail(flow[f].email),
                 FlowIs(f, [flow[f] EXCEPT !.pc = "update", !.user = u])
          PROVE  flow' \in [Flows -> FlowRow] /\ FlowOK'
      BY <1>6, <1>d, <3>1 DEF FindUserByEmail, WithEmail
    <3>2. CASE Goes(f, "create")
      BY <1>6, <3>2, GoesStep DEF FindUserByEmail, Inside
    <3> QED
      BY <1>6, <3>1, <3>2 DEF FindUserByEmail
  <2> QED
    BY <1>6, <1>a, <2>1, FlowOnly DEF FindUserByEmail
<1>7. CASE UpdateUserLogin(f)
  <2> DEFINE u == flow[f].user
  <2>1. u \in Users /\ users[u] \in UserRow /\ flow[f].email \in Emails /\ flow[f].pc = "update"
    BY <1>7, <1>a DEF UpdateUserLogin, Holds, Inside, Typed, TypeOK
  <2>2. users' = [users EXCEPT ![u].email = flow[f].email]
    BY <1>7 DEF UpdateUserLogin, EmailWritten
  <2>3. users' \in [Users -> UserRow \cup {None}]
        /\ \A v \in Users : users[v] # None <=> users'[v] # None
    <3>1. [users[u] EXCEPT !.email = flow[f].email] \in UserRow
      BY <2>1 DEF UserRow
    <3>2. users \in [Users -> UserRow \cup {None}]
      BY DEF Typed, TypeOK
    <3> QED
      BY <2>1, <2>2, <3>1, <3>2, RowAssumption
  <2>4. flow' \in [Flows -> FlowRow] /\ FlowOK'
    <3> DEFINE s == [flow[f] EXCEPT !.pc = "session"]
    <3>1. s \in FlowRow /\ s.pc = "session" /\ s.browser = flow[f].browser
          /\ s.sub = flow[f].sub /\ s.email = flow[f].email /\ s.user = u
      BY <1>a DEF FlowRow, Inside
    <3>2. FlowIs(f, s)
      BY <1>7 DEF UpdateUserLogin, Goes
    <3> HIDE DEF s
    <3>3. Holds(s, users')
      BY <1>a, <2>1, <2>3, <3>1 DEF Holds, Inside
    <3> QED
      BY <2>3, <3>1, <3>2, <3>3, FlowStep
  <2>5. TypeOK'
    BY <1>7, <2>3, <2>4 DEF UpdateUserLogin, Typed, TypeOK
  <2>6. Held'
    BY <1>7, <2>3 DEF UpdateUserLogin, Typed, TypeOK, Held, Active, HasRow, SessionRow
  <2> QED
    BY <2>4, <2>5, <2>6 DEF Typed
<1>8. CASE CreateUser(f)
  <2>1. PICK u \in Users :
          /\ users[u] = None
          /\ users' = [users EXCEPT ![u] = [sub |-> flow[f].sub, email |-> flow[f].email]]
          /\ FlowIs(f, [flow[f] EXCEPT !.pc = "session", !.user = u])
    <3>1. PICK u \in {v \in Users : \A w \in Users : HasRow(w) <=> w < v} :
          /\ users' = [users EXCEPT ![u] = [sub |-> flow[f].sub, email |-> flow[f].email]]
          /\ FlowIs(f, [flow[f] EXCEPT !.pc = "session", !.user = u])
      BY <1>8 DEF CreateUser
    <3>2. ~(u < u)
      BY DEF Users
    <3> QED
      BY <3>1, <3>2 DEF HasRow
  <2>2. [sub |-> flow[f].sub, email |-> flow[f].email] \in UserRow
    BY <1>8, <1>a DEF CreateUser, Holds, Inside, UserRow
  <2>3. users' \in [Users -> UserRow \cup {None}]
        /\ users'[u] # None
        /\ \A v \in Users : users[v] # None => users'[v] # None
    BY <2>1, <2>2, RowAssumption DEF Typed, TypeOK
  <2>4. flow' \in [Flows -> FlowRow] /\ FlowOK'
    <3> DEFINE s == [flow[f] EXCEPT !.pc = "session", !.user = u]
    <3>1. s \in FlowRow /\ s.pc = "session" /\ s.browser = flow[f].browser
          /\ s.sub = flow[f].sub /\ s.email = flow[f].email /\ s.user = u
      BY <1>a DEF FlowRow, Inside, OrNone
    <3>2. FlowIs(f, s)
      BY <2>1
    <3> HIDE DEF s
    <3>3. flow[f].pc = "create"
      BY <1>8 DEF CreateUser
    <3>4. Holds(s, users')
      <4>1. flow[f].browser \in Browsers /\ flow[f].sub \in Google /\ flow[f].email \in Emails
        BY <1>a, <3>3 DEF Holds, Inside
      <4>2. u \in Users /\ users'[u] # None
        BY <2>1, <2>3
      <4> QED
        BY <3>1, <4>1, <4>2 DEF Holds
    <3> QED
      BY <2>3, <3>1, <3>2, <3>4, FlowStep
  <2>5. TypeOK'
    BY <1>8, <2>3, <2>4 DEF CreateUser, Typed, TypeOK
  <2>6. Held'
    BY <1>8, <2>3 DEF CreateUser, Typed, TypeOK, Held, Active, HasRow, SessionRow
  <2> QED
    BY <2>4, <2>5, <2>6 DEF Typed
<1>e. ASSUME flow[f].pc \in Inside PROVE unsettled \cup Accounts({f}) \subseteq Google
  BY <1>a, <1>e DEF Holds, Accounts
<1>9. CASE TurnedDown(f)
  <2>1. flow[f].pc \in Inside
    BY <1>9 DEF TurnedDown, Turned, Inside
  <2>2. flow' \in [Flows -> FlowRow] /\ FlowOK'
    BY <1>9, <2>1, GoesStep DEF TurnedDown, Inside
  <2>3. jar' \in [Browsers -> Jar]
    BY <1>9, <1>c, <2>1 DEF TurnedDown, Inside
  <2> QED
    BY <1>9, <1>a, <1>e, <2>1, <2>2, <2>3, FlowOnly DEF TurnedDown
<1>10. CASE CreateSession(f)
  <2>1. PICK t \in Tokens :
          /\ sessions' = [sessions EXCEPT ![t] = [user |-> flow[f].user, expired |-> FALSE]]
          /\ FlowIs(f, [flow[f] EXCEPT !.pc = "answer", !.token = t])
    BY <1>10 DEF CreateSession
  <2>2. flow[f].pc = "session" /\ flow[f].user \in Users /\ HasRow(flow[f].user)
    BY <1>10, <1>a DEF CreateSession, Holds, HasRow
  <2>3. flow' \in [Flows -> FlowRow] /\ FlowOK'
    <3> DEFINE s == [flow[f] EXCEPT !.pc = "answer", !.token = t]
    <3>1. s \in FlowRow /\ s.pc = "answer" /\ s.browser = flow[f].browser
          /\ s.sub = flow[f].sub /\ s.email = flow[f].email /\ s.user = flow[f].user
          /\ s.token = t
      BY <1>a DEF FlowRow, Inside, OrNone
    <3>2. FlowIs(f, s)
      BY <2>1
    <3> HIDE DEF s
    <3>3. Holds(s, users')
      BY <1>10, <1>a, <2>2, <3>1 DEF CreateSession, Holds, Inside, HasRow
    <3> QED
      BY <1>10, <3>1, <3>2, <3>3, FlowStep DEF CreateSession
  <2> DEFINE n == [user |-> flow[f].user, expired |-> FALSE]
  <2>4. n \in SessionRow /\ n.user = flow[f].user
    BY <2>2 DEF SessionRow
  <2> HIDE DEF n
  <2>5. sessions' = [sessions EXCEPT ![t] = n]
    BY <2>1 DEF n
  <2>6. sessions' \in [Tokens -> SessionRow \cup {None, Gone}]
    BY <2>4, <2>5 DEF Typed, TypeOK
  <2>7. TypeOK'
    BY <1>10, <2>3, <2>6 DEF CreateSession, Typed, TypeOK
  <2>8. Held'
    BY <1>10, <2>2, <2>4, <2>5 DEF CreateSession, Typed, TypeOK, Held, Active, HasRow
  <2> QED
    BY <2>3, <2>7, <2>8 DEF Typed
<1>11. CASE SetSessionCookie(f)
  <2>1. flow' \in [Flows -> FlowRow] /\ FlowOK'
    BY <1>11, GoesStep DEF SetSessionCookie, Inside
  <2>2. flow[f].token \in OrNone(Tokens)
    BY <1>a DEF FlowRow
  <2>3. jar' \in [Browsers -> Jar]
    BY <1>11, <2>2, ClearedOK DEF SetSessionCookie
  <2> QED
    BY <1>11, <1>a, <2>1, <2>3, FlowOnly DEF SetSessionCookie
<1>12. CASE LoginFails(f)
  <2>1. flow' \in [Flows -> FlowRow] /\ FlowOK'
    BY <1>12, GoesStep DEF LoginFails, Inside
  <2>2. jar' \in [Browsers -> Jar]
    BY <1>12, <1>c DEF LoginFails, Inside
  <2> QED
    BY <1>12, <1>a, <1>e, <2>1, <2>2, FlowOnly DEF LoginFails
<1> QED
  BY <1>1, <1>2, <1>3, <1>4, <1>5, <1>6, <1>7, <1>8, <1>9, <1>10, <1>11, <1>12 DEF SignIn

\* A step that leaves users and sign-ins alone.
LEMMA SessionTyped ==
  ASSUME Typed, \E b \in Browsers : UseSession(b)
  PROVE  Typed'
<1> USE DEF tables, world, history
<1>1. PICK b \in Browsers : UseSession(b)
  OBVIOUS
<1>a. /\ sessions \in [Tokens -> SessionRow \cup {None, Gone}]
      /\ jar \in [Browsers -> Jar] /\ page \in [Browsers -> Page]
      /\ jar[b].session \in OrNone(Tokens) /\ page[b] \in Page
  BY DEF Typed, TypeOK, Jar
<1>b. UNCHANGED <<users, flow, world, history>>
  BY <1>1 DEF UseSession, ValidateSession, SessionUnread, DropSession, PageAnswered, Logout
<1>c. ASSUME NEW t \in Tokens PROVE
        [sessions EXCEPT ![t] = Gone] \in [Tokens -> SessionRow \cup {None, Gone}]
  BY <1>a
<1>d. [jar EXCEPT ![b].session = None] \in [Browsers -> Jar]
  BY <1>a DEF Jar, OrNone
<1>e. ASSUME NEW p \in Page PROVE [page EXCEPT ![b] = p] \in [Browsers -> Page]
  BY <1>a
<1>f. NoPage \in Page /\ NoPage.pc = "idle"
  BY DEF NoPage, Page, OrNone
<1>2. ASSUME sessions' \in [Tokens -> SessionRow \cup {None, Gone}],
             \A t \in Tokens : sessions'[t] \in {sessions[t], Gone},
             jar' \in [Browsers -> Jar], page' \in [Browsers -> Page],
             \A d \in Browsers : page'[d].pc # "idle" => page'[d].token \in Tokens
      PROVE  Typed'
  <2>1. TypeOK'
    BY <1>b, <1>2 DEF Typed, TypeOK
  <2>2. FlowOK'
    BY <1>b DEF Typed, FlowOK, Holds
  <2>3. Held'
    BY <1>b, <1>2 DEF Typed, Held, Active, HasRow
  <2> QED
    BY <2>1, <2>2, <2>3 DEF Typed
<1>g. \A d \in Browsers : page[d].pc # "idle" => page[d].token \in Tokens
  BY DEF Typed, Held
<1>3. CASE ValidateSession(b)
  <2>1. jar[b].session \in Tokens
    BY <1>3 DEF ValidateSession, Active
  <2>2. PICK p \in {"drop", "served"} :
          page' = [page EXCEPT ![b] = [pc |-> p, token |-> jar[b].session]]
    BY <1>3 DEF ValidateSession, PageIs
  <2>3. [pc |-> p, token |-> jar[b].session] \in Page
    BY <1>a, <2>2 DEF Page
  <2>4. page' \in [Browsers -> Page]
    BY <1>e, <2>2, <2>3
  <2>5. \A d \in Browsers : page'[d].pc # "idle" => page'[d].token \in Tokens
    BY <1>a, <1>g, <2>1, <2>2
  <2> QED
    BY <1>a, <1>2, <1>3, <2>4, <2>5 DEF ValidateSession
<1>4. CASE SessionUnread(b)
  BY <1>a, <1>d, <1>g, <1>2, <1>4 DEF SessionUnread
<1>h. ASSUME page' = [page EXCEPT ![b] = NoPage]
      PROVE  /\ page' \in [Browsers -> Page]
             /\ \A d \in Browsers : page'[d].pc # "idle" => page'[d].token \in Tokens
  BY <1>a, <1>e, <1>f, <1>g, <1>h
<1>5. CASE DropSession(b)
  <2>1. page[b].token \in Tokens
    BY <1>5, <1>g DEF DropSession
  <2>2. sessions' \in [Tokens -> SessionRow \cup {None, Gone}]
        /\ \A t \in Tokens : sessions'[t] \in {sessions[t], Gone}
    BY <1>5, <1>a, <1>c, <2>1 DEF DropSession
  <2>3. jar' \in [Browsers -> Jar]
    BY <1>5, <1>a, <1>d DEF DropSession
  <2>4. page' = [page EXCEPT ![b] = NoPage]
    BY <1>5 DEF DropSession, PageIs
  <2> QED
    BY <1>h, <1>2, <2>2, <2>3, <2>4
<1>6. CASE PageAnswered(b)
  <2>1. page' = [page EXCEPT ![b] = NoPage]
    BY <1>6 DEF PageAnswered, PageIs
  <2> QED
    BY <1>a, <1>h, <1>2, <1>6, <2>1 DEF PageAnswered
<1>7. CASE Logout(b)
  <2>1. jar[b].session \in Tokens
    BY <1>7, <1>a DEF Logout, OrNone
  <2>2. sessions' \in [Tokens -> SessionRow \cup {None, Gone}]
        /\ \A t \in Tokens : sessions'[t] \in {sessions[t], Gone}
    BY <1>7, <1>a, <1>c, <2>1 DEF Logout
  <2> QED
    BY <1>a, <1>d, <1>g, <1>2, <1>7, <2>2 DEF Logout
<1> QED
  BY <1>1, <1>3, <1>4, <1>5, <1>6, <1>7 DEF UseSession

\* After a restart each sign-in is where it was, or has failed.
LEMMA RestartFlow ==
  ASSUME Typed, NEW A \in Allowlists, Restart(A), NEW f \in Flows
  PROVE  flow'[f] = IF flow[f].pc \in Inside THEN [flow[f] EXCEPT !.pc = "failed"] ELSE flow[f]
BY DEF Restart

\* And so does every step.
LEMMA NextTyped == Typed /\ [Next]_vars => Typed'
<1> SUFFICES ASSUME Typed, [Next]_vars PROVE Typed'
  OBVIOUS
<1> USE DEF tables, world, history
<1>1. ASSUME NEW f \in Flows, SignIn(f) PROVE Typed'
  BY <1>1, SignInTyped
<1>2. ASSUME NEW b \in Browsers, UseSession(b) PROVE Typed'
  BY <1>2, SessionTyped
<1>a. ASSUME UNCHANGED <<users, flow, jar, page, world, history>>,
             sessions' \in [Tokens -> SessionRow \cup {None, Gone}],
             \A t \in Tokens : Active(t)' => Active(t) /\ sessions'[t].user = sessions[t].user
      PROVE  Typed'
  <2>1. TypeOK'
    BY <1>a DEF Typed, TypeOK
  <2>2. FlowOK'
    BY <1>a DEF Typed, FlowOK, Holds
  <2>3. Held'
    BY <1>a DEF Typed, Held, HasRow
  <2> QED
    BY <2>1, <2>2, <2>3 DEF Typed
<1>3. ASSUME NEW t \in Tokens, Expire(t) PROVE Typed'
  <2>1. sessions[t] \in SessionRow /\ sessions \in [Tokens -> SessionRow \cup {None, Gone}]
        /\ sessions' = [sessions EXCEPT ![t].expired = TRUE]
    BY <1>3 DEF Expire, Active, Typed, TypeOK
  <2> DEFINE n == [sessions[t] EXCEPT !.expired = TRUE]
  <2>2. n \in SessionRow /\ n.user = sessions[t].user
    BY <2>1 DEF SessionRow
  <2>3. sessions' = [sessions EXCEPT ![t] = n]
    BY <2>1
  <2> HIDE DEF n
  <2>4. sessions' \in [Tokens -> SessionRow \cup {None, Gone}]
    BY <2>1, <2>2, <2>3
  <2>5. \A s \in Tokens : Active(s)' => Active(s) /\ sessions'[s].user = sessions[s].user
    BY <1>3, <2>1, <2>2, <2>3 DEF Active, Expire
  <2> QED
    BY <1>3, <1>a, <2>4, <2>5 DEF Expire
<1>4. CASE CleanupExpiredSessions
  <2>1. sessions \in [Tokens -> SessionRow \cup {None, Gone}]
        /\ sessions' = [t \in Tokens |-> IF t \in Expired THEN Gone ELSE sessions[t]]
    BY <1>4 DEF CleanupExpiredSessions, Typed, TypeOK
  <2>2. sessions' \in [Tokens -> SessionRow \cup {None, Gone}]
    BY <2>1
  <2>3. \A s \in Tokens : Active(s)' => Active(s) /\ sessions'[s].user = sessions[s].user
    BY <2>1 DEF Active
  <2> QED
    BY <1>4, <1>a, <2>2, <2>3 DEF CleanupExpiredSessions
<1>b. ASSUME UNCHANGED <<users, sessions, flow, jar, page, history>>,
             mail' \in [Google -> Emails], UNCHANGED <<allow, starts>>, cleaner' \in BOOLEAN
      PROVE  Typed'
  BY <1>b DEF Typed, TypeOK, FlowOK, Holds, Held, Active, HasRow
<1>5. CASE CleanupFails
  BY <1>5, <1>b DEF CleanupFails, LoopsOn, Typed, TypeOK
<1>6. ASSUME NEW A \in Allowlists, Restart(A) PROVE Typed'
  <2>1. ASSUME NEW f \in Flows PROVE flow'[f] \in FlowRow /\ Holds(flow'[f], users')
    <3>1. flow[f] \in FlowRow /\ Holds(flow[f], users)
      BY DEF Typed, TypeOK, FlowOK
    <3> DEFINE s == [flow[f] EXCEPT !.pc = "failed"]
    <3>2. s \in FlowRow /\ s.pc = "failed" /\ s.browser = flow[f].browser
      BY <3>1 DEF FlowRow
    <3>3. flow'[f] = IF flow[f].pc \in Inside THEN s ELSE flow[f]
      BY <1>6, RestartFlow
    <3> HIDE DEF s
    <3>4. users' = users
      BY <1>6 DEF Restart
    <3> QED
      BY <3>1, <3>2, <3>3, <3>4 DEF Holds, Inside
  <2>2. flow' \in [Flows -> FlowRow] /\ FlowOK'
    <3>1. flow' = [f \in Flows |-> flow'[f]]
      BY <1>6 DEF Restart
    <3> QED
      BY <2>1, <3>1 DEF FlowOK
  <2>3. unsettled' \subseteq Google
    BY <1>6 DEF Restart, Typed, TypeOK, FlowOK, Holds, Accounts, Running
  <2>4. page' \in [Browsers -> Page] /\ \A b \in Browsers : page'[b].pc = "idle"
    BY <1>6 DEF Restart, NoPage, Page, OrNone
  <2>5. starts' \in 0..MaxStarts
    BY <1>6, AccountsAssumption DEF Restart, Typed, TypeOK
  <2>6. TypeOK'
    BY <1>6, <2>2, <2>3, <2>4, <2>5 DEF Restart, Typed, TypeOK
  <2>7. Held'
    BY <1>6, <2>4 DEF Restart, Typed, Held, Active, HasRow
  <2> QED
    BY <2>2, <2>6, <2>7 DEF Typed
<1>7. ASSUME NEW g \in Google, NEW e \in Emails, ChangeMail(g, e) PROVE Typed'
  BY <1>7, <1>b DEF ChangeMail, Typed, TypeOK
<1>8. CASE UNCHANGED vars
  BY <1>8, <1>b DEF vars, Typed, TypeOK
<1> QED
  BY <1>1, <1>2, <1>3, <1>4, <1>5, <1>6, <1>7, <1>8 DEF Next

-----------------------------------------------------------------------------
(* One user per account *)

\* The unique indexes turn down what would make a second user.
LEMMA OneUserStep ==
  ASSUME Typed, OneUserPerAccount, [Next]_vars
  PROVE  OneUserPerAccount'
<1> USE DEF tables, world, history
<1>a. users \in [Users -> UserRow \cup {None}]
  BY DEF Typed, TypeOK
<1>1. CASE users' = users
  BY <1>1 DEF OneUserPerAccount, HasRow
<1>2. ASSUME NEW f \in Flows, UpdateUserLogin(f) PROVE OneUserPerAccount'
  <2> DEFINE u == flow[f].user
             e == flow[f].email
  <2>1. u \in Users /\ users[u] \in UserRow
    BY <1>2, <1>a DEF UpdateUserLogin, Typed, FlowOK, Holds
  <2>2. users' = [users EXCEPT ![u].email = e]
        /\ \A v \in Users \ {u} : HasRow(v) => users[v].email # e
    BY <1>2 DEF UpdateUserLogin, EmailWritten, Taken, WithEmail
  <2>3. users'[u].email = e /\ users'[u].sub = users[u].sub
    BY <1>a, <2>1, <2>2 DEF UserRow
  <2> HIDE DEF u, e
  <2>4. \A v \in Users \ {u} : users'[v] = users[v]
    BY <1>a, <2>1, <2>2
  <2>5. HasRow(u)
    BY <2>1, RowAssumption DEF HasRow
  <2> QED
    BY <2>1, <2>2, <2>3, <2>4, <2>5 DEF OneUserPerAccount, HasRow
<1>3. ASSUME NEW f \in Flows, CreateUser(f) PROVE OneUserPerAccount'
  <2> DEFINE n == [sub |-> flow[f].sub, email |-> flow[f].email]
  <2>1. PICK u \in Users : users' = [users EXCEPT ![u] = n]
    BY <1>3 DEF CreateUser
  <2>2. \A v \in Users : HasRow(v) /\ v # u => users[v].email # n.email /\ users[v].sub # n.sub
    <3>1. 0 \notin Users
      BY DEF Users
    <3>2. WithEmail(flow[f].email) \subseteq {0} /\ WithSub(flow[f].sub) \subseteq {0}
      BY <1>3 DEF CreateUser, Taken
    <3> QED
      BY <3>1, <3>2 DEF WithEmail, WithSub
  <2> HIDE DEF n
  <2>3. users'[u] = n /\ \A v \in Users \ {u} : users'[v] = users[v]
    BY <1>a, <2>1
  <2> QED
    BY <2>2, <2>3 DEF OneUserPerAccount, HasRow
<1> QED
  <2>1. ASSUME NEW f \in Flows, SignIn(f), ~UpdateUserLogin(f), ~CreateUser(f)
        PROVE  users' = users
    BY <2>1 DEF SignIn, StartGoogleLogin, CallbackAllowed, CallbackRejected, CallbackRefused,
                FindUserByOAuth, FindUserByEmail, TurnedDown, CreateSession, SetSessionCookie,
                LoginFails
  <2>2. ASSUME NEW b \in Browsers, UseSession(b) PROVE users' = users
    BY <2>2 DEF UseSession, ValidateSession, SessionUnread, DropSession, PageAnswered, Logout
  <2>3. ASSUME \/ \E t \in Tokens : Expire(t)
               \/ CleanupExpiredSessions \/ CleanupFails
               \/ \E A \in Allowlists : Restart(A)
               \/ \E g \in Google, e \in Emails : ChangeMail(g, e)
               \/ UNCHANGED vars
        PROVE  users' = users
    BY <2>3 DEF Expire, CleanupExpiredSessions, CleanupFails, Restart, ChangeMail, vars
  <2> QED
    BY <1>1, <1>2, <1>3, <2>1, <2>2, <2>3 DEF Next

-----------------------------------------------------------------------------
(* The stored email *)

Writes == {"byOAuth", "byEmail", "update", "create"}

\* A step after which each sign-in is where it was, is outside the server, or
\* has written what it had to, unless its account is unsettled.
LEMMA QuietStep ==
  ASSUME Typed, Current, UNCHANGED <<users, seen>>, unsettled \subseteq unsettled',
         \A h \in Flows :
            \/ flow'[h] = flow[h]
            \/ flow[h].pc \notin Inside /\ flow'[h].pc \notin Inside
            \/ /\ flow[h].pc \in Inside /\ flow'[h].pc \notin Writes
               /\ flow'[h].sub = flow[h].sub /\ flow'[h].email = flow[h].email
               /\ flow[h].pc \in Writes => flow[h].sub \in unsettled'
  PROVE  Current'
<1> USE DEF Inside, Writes
<1>1. Overlap'
  BY DEF Current, Overlap
<1>2. Reported'
  BY DEF Current, Reported
<1>3. Found'
  BY DEF Current, Found
<1>4. Missing'
  BY DEF Current, Missing, WithSub, HasRow
<1>5. EmailCurrent'
  <2>1. ASSUME NEW g, Settled(g)' PROVE Settled(g)
    BY <2>1 DEF Settled
  <2> QED
    BY <2>1 DEF Current, EmailCurrent, HasRow
<1> QED
  BY <1>1, <1>2, <1>3, <1>4, <1>5 DEF Current

\* No address is stored at first.
LEMMA InitCurrent == Init => Current
<1> SUFFICES ASSUME Init PROVE Current
  OBVIOUS
<1>1. \A f \in Flows : flow[f].pc = "new"
  BY DEF Init, NewFlow
<1>2. \A u \in Users : ~HasRow(u)
  BY DEF Init, HasRow
<1> QED
  BY <1>1, <1>2 DEF Current, Overlap, Reported, Found, Missing, EmailCurrent, Inside

\* Google reports an email: the account is settled if nobody else is signing in.
LEMMA ReportStep ==
  ASSUME Typed, Current, NEW f \in Flows, NEW g \in Google, CallbackAllowed(f, g)
  PROVE  Current'
<1> USE DEF Inside
<1> DEFINE s == [flow[f] EXCEPT !.pc = "byOAuth", !.sub = g, !.email = mail[g]]
<1>1. flow \in [Flows -> FlowRow] /\ flow[f] \in FlowRow /\ mail[g] \in Emails
      /\ seen \in [Google -> OrNone(Emails)]
  BY DEF Typed, TypeOK
<1>2. s.pc = "byOAuth" /\ s.sub = g /\ s.email = mail[g]
  BY <1>1 DEF FlowRow
<1> HIDE DEF s
<1>3. flow' = [flow EXCEPT ![f] = s] /\ flow[f].pc = "google" /\ users' = users
      /\ seen' = [seen EXCEPT ![g] = mail[g]]
  BY DEF CallbackAllowed, FlowIs, s, tables
<1>4. flow'[f] = s /\ \A h \in Flows \ {f} : flow'[h] = flow[h]
  BY <1>1, <1>3
<1>5. seen'[g] = mail[g] /\ \A k \in Google \ {g} : seen'[k] = seen[k]
  BY <1>1, <1>3
<1>6. /\ Running = {} => unsettled' = unsettled \ {g}
      /\ Running # {} => /\ unsettled \subseteq unsettled' /\ g \in unsettled'
                         /\ \A h \in Running : flow[h].sub \in unsettled'
  BY DEF CallbackAllowed, Accounts
<1>7. Running = {h \in Flows \ {f} : flow'[h].pc \in Inside}
  BY <1>3, <1>4 DEF Running
<1>8. Overlap'
  BY <1>2, <1>4, <1>6, <1>7 DEF Overlap, Running
<1>9. Reported'
  BY <1>2, <1>4, <1>5, <1>6, <1>7 DEF Reported, Running
<1>10. Found'
  <2>1. ASSUME NEW h \in Flows, flow'[h].pc = "update" PROVE h # f /\ h \in Running
    BY <1>2, <1>4, <1>7, <2>1
  <2> QED
    BY <1>3, <1>4, <1>6, <2>1 DEF Current, Found
<1>11. Missing'
  <2>1. ASSUME NEW h \in Flows, flow'[h].pc \in {"byEmail", "create", "update"}
        PROVE  flow'[h].sub \in unsettled'
    BY <1>2, <1>4, <1>6, <1>7, <2>1
  <2> QED
    BY <2>1 DEF Missing
<1>12. EmailCurrent'
  <2>1. ASSUME NEW k \in Google, Settled(k)' PROVE k # g /\ Settled(k)
    <3>1. k # g
      BY <1>2, <1>4, <2>1 DEF Settled
    <3>2. k \notin unsettled
      BY <1>6, <2>1, <3>1 DEF Settled
    <3> QED
      BY <1>3, <1>4, <2>1, <3>1, <3>2 DEF Settled
  <2>2. \A u \in Users : HasRow(u) => users[u].sub \in Google
    BY DEF Typed, TypeOK, HasRow, UserRow
  <2> QED
    BY <1>3, <1>5, <2>1, <2>2 DEF Current, EmailCurrent, HasRow
<1> QED
  BY <1>8, <1>9, <1>10, <1>11, <1>12 DEF Current

\* A sign-in takes its next step before it writes.
LEMMA LookupStep ==
  ASSUME Typed, Current, NEW f \in Flows,
         flow[f].pc \in {"byOAuth", "byEmail"},
         \A h \in Flows \ {f} : flow'[h] = flow[h],
         flow'[f].pc \in Writes, flow'[f].sub = flow[f].sub, flow'[f].email = flow[f].email,
         flow'[f].pc = "update" => \/ users[flow'[f].user].sub = flow[f].sub
                                  \/ users[flow'[f].user].email = flow[f].email,
         \/ flow'[f].pc = "update" /\ users[flow'[f].user].sub = flow[f].sub
         \/ flow[f].sub \in unsettled
         \/ WithSub(flow[f].sub) = {},
         UNCHANGED <<users, seen, unsettled>>
  PROVE  Current'
<1> USE DEF Inside, Writes
<1>1. \A h \in Flows \ {f} : flow'[h] = flow[h]
  OBVIOUS
<1>2. Overlap'
  BY <1>1 DEF Current, Overlap
<1>3. Reported'
  BY <1>1 DEF Current, Reported
<1>4. Found'
  BY <1>1 DEF Current, Found
<1>5. Missing'
  <2>1. \A g : WithSub(g)' = WithSub(g)
    BY DEF WithSub, HasRow
  <2> QED
    BY <1>1, <2>1 DEF Current, Missing
<1>6. EmailCurrent'
  <2>1. ASSUME NEW g, Settled(g)' PROVE Settled(g)
    BY <1>1, <2>1 DEF Settled
  <2> QED
    BY <2>1 DEF Current, EmailCurrent, HasRow
<1> QED
  BY <1>2, <1>3, <1>4, <1>5, <1>6 DEF Current

\* The sign-in writes the email of the user it found.
LEMMA UpdateStep ==
  ASSUME Typed, OneUserPerAccount, Current, NEW f \in Flows, UpdateUserLogin(f)
  PROVE  Current'
<1> USE DEF Inside
<1> DEFINE u == flow[f].user
           e == flow[f].email
           g == users[u].sub
           s == [flow[f] EXCEPT !.pc = "session"]
<1>1. /\ flow \in [Flows -> FlowRow] /\ flow[f] \in FlowRow /\ flow[f].pc = "update"
      /\ users \in [Users -> UserRow \cup {None}]
      /\ u \in Users /\ users[u] \in UserRow /\ users[u] # None
  BY DEF UpdateUserLogin, Typed, TypeOK, FlowOK, Holds
<1>2. s.pc = "session" /\ s.sub = flow[f].sub /\ s.email = e /\ s.user = u
  BY <1>1 DEF FlowRow
<1>3. /\ users' = [users EXCEPT ![u].email = e]
      /\ flow' = [flow EXCEPT ![f] = s]
      /\ seen' = seen /\ unsettled' = unsettled
  BY DEF UpdateUserLogin, EmailWritten, Goes, FlowIs, history
<1>4. users'[u].email = e /\ users'[u].sub = g /\ users'[u] # None
  <2>1. [users[u] EXCEPT !.email = e] \in UserRow
    BY <1>1 DEF UserRow, FlowRow, Typed, FlowOK, Holds
  <2> QED
    BY <1>1, <1>3, <2>1, RowAssumption DEF UserRow
<1> HIDE DEF s
<1>5. flow'[f] = s /\ \A h \in Flows \ {f} : flow'[h] = flow[h]
  BY <1>1, <1>3
<1>6. \A v \in Users \ {u} : users'[v] = users[v]
  BY <1>1, <1>3
<1>7. \A h \in Flows \ {f} : flow[h].pc \in Inside =>
         flow[h].sub \in unsettled /\ flow[f].sub \in unsettled
  BY <1>1 DEF Current, Overlap
<1>8. g = flow[f].sub \/ users[u].email = e \/ g \in unsettled
  BY <1>1 DEF Current, Found
<1> HIDE DEF u, e, g
<1>9. \A v \in Users : users'[v].sub = users[v].sub /\ (HasRow(v)' <=> HasRow(v))
  BY <1>1, <1>4, <1>6 DEF HasRow, g
<1>10. Overlap'
  BY <1>1, <1>2, <1>3, <1>5 DEF Current, Overlap
<1>11. Reported'
  BY <1>1, <1>2, <1>3, <1>5 DEF Current, Reported, e
<1>12. Found'
  <2>1. ASSUME NEW h \in Flows \ {f}, flow[h].pc = "update"
        PROVE  LET row == users'[flow[h].user] IN
               row.sub = flow[h].sub \/ row.email = flow[h].email \/ row.sub \in unsettled
    <3>1. LET row == users[flow[h].user] IN
          row.sub = flow[h].sub \/ row.email = flow[h].email \/ row.sub \in unsettled
      BY <2>1 DEF Current, Found
    <3>2. flow[h].user \in Users
      BY <2>1 DEF Typed, FlowOK, Holds
    <3>3. CASE flow[h].user # u
      BY <1>6, <3>1, <3>2, <3>3
    <3>4. CASE flow[h].user = u
      <4>1. flow[f].sub \in unsettled
        BY <1>7, <2>1
      <4> QED
        BY <1>4, <1>8, <3>1, <3>4, <4>1 DEF g
    <3> QED
      BY <3>3, <3>4
  <2> QED
    BY <1>2, <1>3, <1>5, <2>1 DEF Found
<1>13. Missing'
  <2>1. \A k : WithSub(k)' = WithSub(k)
    BY <1>9 DEF WithSub
  <2>2. ASSUME NEW h \in Flows, flow'[h].pc \in {"byEmail", "create", "update"}
        PROVE  flow'[h].sub \in unsettled'
    BY <1>2, <1>3, <1>5, <1>7, <2>2
  <2> QED
    BY <2>2 DEF Missing
<1>14. EmailCurrent'
  <2>1. SUFFICES ASSUME NEW v \in Users, HasRow(v)', Settled(users[v].sub)'
                 PROVE  users'[v].email = seen[users[v].sub]
    BY <1>3 DEF EmailCurrent
  <2>2. users'[v].sub = users[v].sub /\ HasRow(v)
    BY <1>9, <2>1
  <2>3. /\ users[v].sub \notin unsettled
        /\ \A h \in Flows \ {f} : flow[h].sub = users[v].sub =>
              flow[h].pc \notin {"byOAuth", "byEmail", "update", "create"}
    BY <1>3, <1>5, <2>1, <2>2 DEF Settled
  <2>4. CASE users[v].sub = flow[f].sub
    <3>1. v \in WithSub(flow[f].sub)
      BY <2>2, <2>4 DEF WithSub
    <3>2. users[u].sub = flow[f].sub
      BY <1>1, <2>3, <2>4, <3>1 DEF Current, Missing, u
    <3>3. v = u
      BY <1>1, <2>2, <2>4, <3>2 DEF OneUserPerAccount, HasRow
    <3>4. seen[flow[f].sub] = e
      BY <1>1, <2>3, <2>4 DEF Current, Reported, e
    <3> QED
      BY <1>4, <2>4, <3>3, <3>4
  <2>5. CASE users[v].sub # flow[f].sub
    <3>1. users[v].email = seen[users[v].sub]
      <4>1. Settled(users[v].sub)
        BY <2>3, <2>5 DEF Settled
      <4> QED
        BY <2>2, <4>1 DEF Current, EmailCurrent
    <3>2. users'[v].email = users[v].email
      BY <1>4, <1>6, <1>8, <2>3, <2>5 DEF g
    <3> QED
      BY <3>1, <3>2
  <2> QED
    BY <2>4, <2>5
<1> QED
  BY <1>10, <1>11, <1>12, <1>13, <1>14 DEF Current

\* The sign-in makes the user of an account that has none.
LEMMA CreateStep ==
  ASSUME Typed, Current, NEW f \in Flows, CreateUser(f)
  PROVE  Current'
<1> USE DEF Inside
<1> DEFINE n == [sub |-> flow[f].sub, email |-> flow[f].email]
<1>1. /\ flow \in [Flows -> FlowRow] /\ flow[f] \in FlowRow /\ flow[f].pc = "create"
      /\ users \in [Users -> UserRow \cup {None}]
      /\ flow[f].sub \in Google
  BY DEF CreateUser, Typed, TypeOK, FlowOK, Holds
<1>2. PICK u \in Users : /\ users[u] = None
                         /\ users' = [users EXCEPT ![u] = n]
                         /\ flow' = [flow EXCEPT ![f] = [flow[f] EXCEPT !.pc = "session", !.user = u]]
  <2>1. PICK u \in {v \in Users : \A w \in Users : HasRow(w) <=> w < v} :
        /\ users' = [users EXCEPT ![u] = n]
        /\ flow' = [flow EXCEPT ![f] = [flow[f] EXCEPT !.pc = "session", !.user = u]]
    BY DEF CreateUser, FlowIs
  <2>2. ~(u < u)
    BY DEF Users
  <2> QED
    BY <2>1, <2>2 DEF HasRow
<1> DEFINE s == [flow[f] EXCEPT !.pc = "session", !.user = u]
<1>3. s.pc = "session" /\ s.sub = flow[f].sub /\ s.email = flow[f].email
  BY <1>1 DEF FlowRow
<1>4. flow' = [flow EXCEPT ![f] = s] /\ seen' = seen /\ unsettled' = unsettled
  BY <1>2 DEF CreateUser, history
<1>5. n.sub = flow[f].sub /\ n.email = flow[f].email
  OBVIOUS
<1> HIDE DEF n, s
<1>6. flow'[f] = s /\ \A h \in Flows \ {f} : flow'[h] = flow[h]
  BY <1>1, <1>4
<1>7. users'[u] = n /\ \A v \in Users \ {u} : users'[v] = users[v]
  BY <1>1, <1>2
<1>8. \A h \in Flows \ {f} : flow[h].pc \in Inside => flow[h].sub \in unsettled
  BY <1>1 DEF Current, Overlap
<1>9. \A v \in Users : HasRow(v) => users[v].sub # flow[f].sub
  <2>1. WithSub(flow[f].sub) \subseteq {0}
    BY DEF CreateUser, Taken
  <2> QED
    BY <2>1 DEF WithSub, Users
<1>10. Overlap'
  BY <1>1, <1>3, <1>4, <1>6 DEF Current, Overlap
<1>11. Reported'
  BY <1>1, <1>3, <1>4, <1>6 DEF Current, Reported
<1>12. Found'
  <2>1. ASSUME NEW h \in Flows \ {f}, flow[h].pc = "update"
        PROVE  flow[h].user \in Users \ {u}
    BY <1>2, <2>1 DEF Typed, FlowOK, Holds
  <2> QED
    BY <1>3, <1>4, <1>6, <1>7, <2>1 DEF Current, Found
<1>13. Missing'
  <2>1. ASSUME NEW h \in Flows, flow'[h].pc \in {"byEmail", "create", "update"}
        PROVE  flow'[h].sub \in unsettled'
    BY <1>3, <1>4, <1>6, <1>8, <2>1
  <2> QED
    BY <2>1 DEF Missing
<1>14. EmailCurrent'
  <2>1. SUFFICES ASSUME NEW v \in Users, HasRow(v)', Settled(users[v].sub)'
                 PROVE  users'[v].email = seen[users'[v].sub]
    BY <1>4 DEF EmailCurrent
  <2>2. CASE v = u
    <3>1. flow[f].sub \notin unsettled
      BY <1>4, <1>5, <1>7, <2>1, <2>2 DEF Settled
    <3>2. seen[flow[f].sub] = flow[f].email
      BY <1>1, <3>1 DEF Current, Reported
    <3> QED
      BY <1>5, <1>7, <2>2, <3>2
  <2>3. CASE v # u
    <3>1. users'[v] = users[v] /\ HasRow(v)
      BY <1>7, <2>1, <2>3 DEF HasRow
    <3>2. users[v].sub # flow[f].sub
      BY <1>9, <3>1
    <3>3. Settled(users[v].sub)
      BY <1>4, <1>6, <2>1, <3>1, <3>2 DEF Settled
    <3> QED
      BY <3>1, <3>3 DEF Current, EmailCurrent
  <2> QED
    BY <2>2, <2>3
<1> QED
  BY <1>10, <1>11, <1>12, <1>13, <1>14 DEF Current

\* What a sign-in has read is still so, or another one overlaps it, after every
\* step.
LEMMA CurrentStep ==
  ASSUME Typed, OneUserPerAccount, Current, [Next]_vars
  PROVE  Current'
<1> USE DEF tables, world, history
<1>0. flow \in [Flows -> FlowRow]
  BY DEF Typed, TypeOK
<1>a. ASSUME UNCHANGED <<flow, users, seen, unsettled>> PROVE Current'
  BY <1>a, QuietStep
\* A sign-in leaves the server, or goes on after it has written.
<1>b. ASSUME NEW f \in Flows, NEW p, Goes(f, p), UNCHANGED <<users, seen>>,
             \/ p \in {"failed", "done"} /\ flow[f].pc \notin Writes
             \/ p = "failed" /\ unsettled' = unsettled \cup Accounts({f}),
             unsettled \subseteq unsettled'
      PROVE  Current'
  <2> DEFINE s == [flow[f] EXCEPT !.pc = p]
  <2>1. s.pc = p /\ s.sub = flow[f].sub /\ s.email = flow[f].email
    BY <1>0 DEF FlowRow
  <2>2. flow' = [flow EXCEPT ![f] = s]
    BY <1>b DEF Goes, FlowIs
  <2> HIDE DEF s
  <2>3. flow'[f] = s /\ \A h \in Flows \ {f} : flow'[h] = flow[h]
    BY <1>0, <2>2
  <2>4. flow[f].pc \in Writes => flow[f].sub \in unsettled'
    BY <1>b DEF Accounts
  <2>5. p \in {"failed", "done"} /\ p \notin Inside /\ p \notin Writes
    BY <1>b DEF Inside, Writes
  <2> QED
    BY <1>b, <2>1, <2>3, <2>4, <2>5, QuietStep
<1>1. ASSUME NEW f \in Flows, SignIn(f) PROVE Current'
  <2>1. ASSUME NEW b \in Browsers, StartGoogleLogin(f, b) PROVE Current'
    <3> DEFINE s == [NewFlow EXCEPT !.pc = "google", !.browser = b]
    <3>1. s.pc = "google"
      BY DEF NewFlow
    <3>2. flow' = [flow EXCEPT ![f] = s] /\ flow[f].pc = "new"
      BY <2>1 DEF StartGoogleLogin, FlowIs
    <3> HIDE DEF s
    <3>3. \A h \in Flows : flow'[h] = IF h = f THEN s ELSE flow[h]
      BY <1>0, <3>2
    <3> QED
      BY <2>1, <3>1, <3>2, <3>3, QuietStep DEF StartGoogleLogin, Inside
  <2>2. ASSUME NEW g \in Google, CallbackAllowed(f, g) PROVE Current'
    BY <2>2, ReportStep
  <2>3. CASE CallbackRejected(f)
    BY <2>3, <1>b DEF CallbackRejected, Writes
  <2>4. CASE CallbackRefused(f)
    BY <2>4, <1>b DEF CallbackRefused, Writes
  <2>5. ASSUME NEW u \in Users, HasRow(u), flow[f].pc \in {"byOAuth", "byEmail"},
               users[u].sub = flow[f].sub \/ users[u].email = flow[f].email,
               flow[f].pc = "byOAuth" => users[u].sub = flow[f].sub,
               FlowIs(f, [flow[f] EXCEPT !.pc = "update", !.user = u]),
               UNCHANGED <<users, seen, unsettled>>
        PROVE  Current'
    <3> DEFINE s == [flow[f] EXCEPT !.pc = "update", !.user = u]
    <3>1. s.pc = "update" /\ s.sub = flow[f].sub /\ s.email = flow[f].email /\ s.user = u
      BY <1>0 DEF FlowRow
    <3>2. flow' = [flow EXCEPT ![f] = s]
      BY <2>5 DEF FlowIs
    <3>3. flow[f].pc = "byEmail" => flow[f].sub \in unsettled \/ WithSub(flow[f].sub) = {}
      BY DEF Current, Missing
    <3> HIDE DEF s
    <3>4. flow'[f] = s /\ \A h \in Flows \ {f} : flow'[h] = flow[h]
      BY <1>0, <3>2
    <3> QED
      BY <2>5, <3>1, <3>3, <3>4, LookupStep DEF Writes
  <2>6. CASE FindUserByOAuth(f)
    <3>1. ASSUME NEW u \in WithSub(flow[f].sub),
                 FlowIs(f, [flow[f] EXCEPT !.pc = "update", !.user = u])
          PROVE  Current'
      BY <2>5, <2>6, <3>1 DEF FindUserByOAuth, WithSub
    <3>2. CASE WithSub(flow[f].sub) = {} /\ Goes(f, "byEmail")
      <4> DEFINE s == [flow[f] EXCEPT !.pc = "byEmail"]
      <4>1. s.pc = "byEmail" /\ s.sub = flow[f].sub /\ s.email = flow[f].email
        BY <1>0 DEF FlowRow
      <4>2. flow' = [flow EXCEPT ![f] = s]
        BY <3>2 DEF Goes, FlowIs
      <4> HIDE DEF s
      <4>3. flow'[f] = s /\ \A h \in Flows \ {f} : flow'[h] = flow[h]
        BY <1>0, <4>2
      <4> QED
        BY <2>6, <3>2, <4>1, <4>3, LookupStep DEF FindUserByOAuth, Writes
    <3> QED
      BY <2>6, <3>1, <3>2 DEF FindUserByOAuth
  <2>7. CASE FindUserByEmail(f)
    <3>1. ASSUME NEW u \in WithEmail(flow[f].email),
                 FlowIs(f, [flow[f] EXCEPT !.pc = "update", !.user = u])
          PROVE  Current'
      BY <2>5, <2>7, <3>1 DEF FindUserByEmail, WithEmail
    <3>2. CASE Goes(f, "create")
      <4> DEFINE s == [flow[f] EXCEPT !.pc = "create"]
      <4>1. s.pc = "create" /\ s.sub = flow[f].sub /\ s.email = flow[f].email
        BY <1>0 DEF FlowRow
      <4>2. flow' = [flow EXCEPT ![f] = s] /\ flow[f].pc = "byEmail"
        BY <2>7, <3>2 DEF Goes, FlowIs, FindUserByEmail
      <4> HIDE DEF s
      <4>3. flow[f].sub \in unsettled \/ WithSub(flow[f].sub) = {}
        BY <4>2 DEF Current, Missing
      <4>4. flow'[f] = s /\ \A h \in Flows \ {f} : flow'[h] = flow[h]
        BY <1>0, <4>2
      <4> QED
        BY <2>7, <4>1, <4>2, <4>3, <4>4, LookupStep DEF FindUserByEmail, Writes
    <3> QED
      BY <2>7, <3>1, <3>2 DEF FindUserByEmail
  <2>8. CASE UpdateUserLogin(f)
    BY <2>8, UpdateStep
  <2>9. CASE CreateUser(f)
    BY <2>9, CreateStep
  <2>10. CASE TurnedDown(f)
    BY <2>10, <1>b DEF TurnedDown
  <2>11. CASE CreateSession(f)
    <3>1. PICK t \in Tokens : FlowIs(f, [flow[f] EXCEPT !.pc = "answer", !.token = t])
      BY <2>11 DEF CreateSession
    <3> DEFINE s == [flow[f] EXCEPT !.pc = "answer", !.token = t]
    <3>2. s.pc = "answer" /\ s.sub = flow[f].sub /\ s.email = flow[f].email
      BY <1>0 DEF FlowRow
    <3>3. flow' = [flow EXCEPT ![f] = s] /\ flow[f].pc = "session"
      BY <2>11, <3>1 DEF FlowIs, CreateSession
    <3> HIDE DEF s
    <3>4. \A h \in Flows : flow'[h] = IF h = f THEN s ELSE flow[h]
      BY <1>0, <3>3
    <3> QED
      BY <2>11, <3>2, <3>3, <3>4, QuietStep DEF CreateSession, Inside, Writes
  <2>12. CASE SetSessionCookie(f)
    BY <2>12, <1>b DEF SetSessionCookie, Writes
  <2>13. CASE LoginFails(f)
    BY <2>13, <1>b DEF LoginFails
  <2> QED
    BY <1>1, <2>1, <2>2, <2>3, <2>4, <2>6, <2>7, <2>8, <2>9, <2>10, <2>11, <2>12, <2>13
       DEF SignIn
<1>2. ASSUME NEW b \in Browsers, UseSession(b) PROVE Current'
  BY <1>2, <1>a DEF UseSession, ValidateSession, SessionUnread, DropSession, PageAnswered, Logout
<1>3. ASSUME NEW A \in Allowlists, Restart(A) PROVE Current'
  <2>1. ASSUME NEW h \in Flows, flow[h].pc \in Inside
        PROVE  /\ flow'[h].pc = "failed" /\ flow'[h].sub = flow[h].sub
               /\ flow'[h].email = flow[h].email
    <3> DEFINE s == [flow[h] EXCEPT !.pc = "failed"]
    <3>1. s.pc = "failed" /\ s.sub = flow[h].sub /\ s.email = flow[h].email
      BY <1>0 DEF FlowRow
    <3>2. flow'[h] = s
      BY <1>3, <2>1, RestartFlow
    <3> HIDE DEF s
    <3> QED
      BY <3>1, <3>2
  <2>2. ASSUME NEW h \in Flows, flow[h].pc \notin Inside PROVE flow'[h] = flow[h]
    BY <1>3, <2>2, RestartFlow
  <2>3. /\ UNCHANGED <<users, seen>> /\ unsettled \subseteq unsettled'
        /\ \A h \in Flows : flow[h].pc \in Inside => flow[h].sub \in unsettled'
    BY <1>3 DEF Restart, Accounts, Running
  <2> QED
    BY <2>1, <2>2, <2>3, QuietStep DEF Writes
<1>4. ASSUME \/ \E t \in Tokens : Expire(t)
             \/ CleanupExpiredSessions \/ CleanupFails
             \/ \E g \in Google, e \in Emails : ChangeMail(g, e)
             \/ UNCHANGED vars
      PROVE  Current'
  BY <1>4, <1>a DEF Expire, CleanupExpiredSessions, CleanupFails, ChangeMail, vars
<1> QED
  BY <1>1, <1>2, <1>3, <1>4 DEF Next

-----------------------------------------------------------------------------
(* Every session has its sign-in *)

\* A sign-in that got a session never loses or changes it.
LEMMA SignedStays ==
  ASSUME Typed, Next, NEW h \in Flows, NEW t \in Tokens, Signed(h, t)
  PROVE  Signed(h, t)'
<1> USE DEF tables, world, history
<1>1. flow \in [Flows -> FlowRow] /\ flow[h] \in FlowRow
      /\ flow[h].pc \in {"answer", "done", "failed"} /\ flow[h].token = t
  BY DEF Typed, TypeOK, Signed
<1>2. ASSUME NEW f \in Flows, NEW s, FlowIs(f, s),
             flow[f].pc \in {"answer", "done", "failed"} =>
                s.pc \in {"done", "failed"} /\ s.token = flow[f].token
      PROVE  Signed(h, t)'
  <2>1. flow' = [flow EXCEPT ![f] = s]
    BY <1>2 DEF FlowIs
  <2>2. CASE h = f
    BY <1>1, <1>2, <2>1, <2>2 DEF Signed
  <2>3. CASE h # f
    BY <1>1, <2>1, <2>3 DEF Signed
  <2> QED
    BY <2>2, <2>3
<1>3. ASSUME NEW f \in Flows, NEW p \in {"byEmail", "create", "session", "done", "failed"},
             Goes(f, p),
             flow[f].pc \in {"answer", "done", "failed"} => p \in {"done", "failed"}
      PROVE  Signed(h, t)'
  <2> DEFINE s == [flow[f] EXCEPT !.pc = p]
  <2>1. s.pc = p /\ s.token = flow[f].token
    BY <1>1 DEF FlowRow
  <2>2. FlowIs(f, s)
    BY <1>3 DEF Goes
  <2> HIDE DEF s
  <2> QED
    BY <1>2, <1>3, <2>1, <2>2
<1>4. ASSUME NEW f \in Flows, SignIn(f) PROVE Signed(h, t)'
  <2>1. ASSUME NEW b \in Browsers, StartGoogleLogin(f, b) PROVE Signed(h, t)'
    BY <1>2, <2>1 DEF StartGoogleLogin
  <2>2. ASSUME NEW g \in Google, CallbackAllowed(f, g) PROVE Signed(h, t)'
    BY <1>2, <2>2 DEF CallbackAllowed
  <2>3. ASSUME CallbackRejected(f) \/ CallbackRefused(f) PROVE Signed(h, t)'
    BY <1>3, <2>3 DEF CallbackRejected, CallbackRefused
  <2>4. ASSUME FindUserByOAuth(f) PROVE Signed(h, t)'
    BY <1>2, <1>3, <2>4 DEF FindUserByOAuth
  <2>5. ASSUME FindUserByEmail(f) PROVE Signed(h, t)'
    BY <1>2, <1>3, <2>5 DEF FindUserByEmail
  <2>6. ASSUME UpdateUserLogin(f) PROVE Signed(h, t)'
    BY <1>3, <2>6 DEF UpdateUserLogin
  <2>7. ASSUME CreateUser(f) PROVE Signed(h, t)'
    BY <1>2, <2>7 DEF CreateUser
  <2>8. ASSUME TurnedDown(f) \/ LoginFails(f) \/ SetSessionCookie(f) PROVE Signed(h, t)'
    BY <1>3, <2>8 DEF TurnedDown, LoginFails, SetSessionCookie
  <2>9. ASSUME CreateSession(f) PROVE Signed(h, t)'
    BY <1>2, <2>9 DEF CreateSession
  <2> QED
    BY <1>4, <2>1, <2>2, <2>3, <2>4, <2>5, <2>6, <2>7, <2>8, <2>9 DEF SignIn
<1>5. ASSUME NEW A \in Allowlists, Restart(A) PROVE Signed(h, t)'
  <2> DEFINE s == [flow[h] EXCEPT !.pc = "failed"]
  <2>1. s.pc = "failed" /\ s.token = t
    BY <1>1 DEF FlowRow
  <2>2. flow'[h] = s \/ flow'[h] = flow[h]
    BY <1>5, RestartFlow
  <2> HIDE DEF s
  <2> QED
    BY <1>1, <2>1, <2>2 DEF Signed
<1>6. CASE UNCHANGED flow
  BY <1>1, <1>6 DEF Signed
<1> QED
  BY <1>4, <1>5, <1>6
  DEF Next, UseSession, ValidateSession, SessionUnread, DropSession, PageAnswered, Logout,
      Expire, CleanupExpiredSessions, CleanupFails, ChangeMail

\* A session that appears is that of the sign-in that creates it.
LEMMA SessionSigned ==
  ASSUME Typed, Next, NEW t \in Tokens, ~Active(t), Active(t)'
  PROVE  \E f \in Flows : Signed(f, t)'
<1> USE DEF tables, world, history
<1>1. sessions \in [Tokens -> SessionRow \cup {None, Gone}]
      /\ flow \in [Flows -> FlowRow]
  BY DEF Typed, TypeOK
<1>2. ASSUME NEW f \in Flows, CreateSession(f) PROVE Signed(f, t)'
  <2>1. PICK r \in Tokens :
           /\ sessions' = [sessions EXCEPT ![r] = [user |-> flow[f].user, expired |-> FALSE]]
           /\ FlowIs(f, [flow[f] EXCEPT !.pc = "answer", !.token = r])
    BY <1>2 DEF CreateSession
  <2>2. r = t
    BY <1>1, <2>1 DEF Active
  <2>3. flow'[f] = [flow[f] EXCEPT !.pc = "answer", !.token = r]
    BY <1>1, <2>1 DEF FlowIs
  <2> QED
    BY <1>1, <2>2, <2>3 DEF Signed, FlowRow
<1>3. CASE sessions' = sessions
  BY <1>3 DEF Active
<1>4. ASSUME NEW s \in Tokens, Expire(s) PROVE FALSE
  BY <1>1, <1>4 DEF Expire, Active
<1>5. CASE CleanupExpiredSessions
  BY <1>1, <1>5 DEF CleanupExpiredSessions, Active
<1>6. ASSUME NEW b \in Browsers, DropSession(b) \/ Logout(b) PROVE FALSE
  <2>1. sessions' = sessions \/ \E s : sessions' = [sessions EXCEPT ![s] = Gone]
    BY <1>6 DEF DropSession, Logout
  <2> QED
    BY <1>1, <2>1 DEF Active
<1> QED
  BY <1>2, <1>3, <1>4, <1>5, <1>6
  DEF Next, SignIn, UseSession, StartGoogleLogin, CallbackAllowed, CallbackRejected,
      CallbackRefused, FindUserByOAuth, FindUserByEmail, UpdateUserLogin, CreateUser,
      TurnedDown, SetSessionCookie, LoginFails, ValidateSession, SessionUnread,
      PageAnswered, CleanupFails, Restart, ChangeMail

\* So every session has its sign-in after each step.
LEMMA SessionsStep == Typed /\ Sessions /\ [Next]_vars => Sessions'
<1> SUFFICES ASSUME Typed, Sessions, [Next]_vars, NEW t \in Tokens, Active(t)'
             PROVE  \E f \in Flows : Signed(f, t)'
  BY DEF Sessions
<1>1. CASE UNCHANGED vars
  BY <1>1 DEF vars, Sessions, Signed, Active
<1>2. CASE Next /\ Active(t)
  BY <1>2, SignedStays DEF Sessions
<1>3. CASE Next /\ ~Active(t)
  BY <1>3, SessionSigned
<1> QED
  BY <1>1, <1>2, <1>3

\* The invariant holds in every reachable state.
LEMMA Invariant == Spec => []Inv
<1>1. Init => Inv
  BY InitTyped, InitCurrent DEF Inv, Init, OneUserPerAccount, HasRow, Sessions, Active
<1>2. Inv /\ [Next]_vars => Inv'
  BY NextTyped, OneUserStep, CurrentStep, SessionsStep DEF Inv
<1> QED
  BY <1>1, <1>2, PTL DEF Spec

-----------------------------------------------------------------------------
(* Theorems *)

\* Sign-ins, cookies, pages and rows keep their types, whatever fails.
THEOREM TypeCorrect == Spec => []TypeOK
<1>1. Inv => TypeOK
  BY DEF Inv, Typed
<1> QED
  BY <1>1, Invariant, PTL

\* However many first sign-ins race, an account has one user and an email is
\* stored once (auth/service.go:37-79, migrations/004_add_oauth_sessions.sql:15-16).
THEOREM OneUserCorrect == Spec => []OneUserPerAccount
<1>1. Inv => OneUserPerAccount
  BY DEF Inv
<1> QED
  BY <1>1, Invariant, PTL

\* The stored email is the one Google reported last, unless sign-ins
\* overlapped or failed (auth/service.go:50-53).
THEOREM EmailCorrect == Spec => []EmailCurrent
<1>1. Inv => EmailCurrent
  BY DEF Inv, Current
<1> QED
  BY <1>1, Invariant, PTL

\* The page of a session starts only for an account that signed in for it, and if
\* that account has a user of its own, its last known email is on the allowlist of
\* the running server (auth/service.go:103-124).
THEOREM ServedCorrect == Spec => ServedIsAllowed
<1> DEFINE Right(b) ==
             LET t == page'[b].token
                 u == sessions[t].user
             IN  /\ SignIns(t) # {}
                 /\ \A f \in SignIns(t) :
                       LET g == flow[f].sub
                       IN  users[u].sub = g /\ Settled(g) => seen[g] \in allow
<1>1. Inv /\ [Next]_vars => [\A b \in Browsers :
          page[b].pc = "idle" /\ page'[b].pc = "served" => Right(b)]_vars
  <2> SUFFICES ASSUME Inv, Next, NEW b \in Browsers,
                      page[b].pc = "idle", page'[b].pc = "served"
               PROVE  Right(b)
    OBVIOUS
  <2> USE DEF tables, world, history
  <2>0. page \in [Browsers -> Page]
    BY DEF Inv, Typed, TypeOK
  <2>1. \E d \in Browsers : UseSession(d)
    <3>1. page' = page \/ (\E d \in Browsers : UseSession(d)) \/ (\A d \in Browsers : page'[d] = NoPage)
      BY DEF Next, SignIn, StartGoogleLogin, CallbackAllowed, CallbackRejected, CallbackRefused,
             FindUserByOAuth, FindUserByEmail, UpdateUserLogin, CreateUser, TurnedDown,
             CreateSession, SetSessionCookie, LoginFails, Expire, CleanupExpiredSessions,
             CleanupFails, Restart, ChangeMail
    <3> QED
      BY <3>1 DEF NoPage
  <2>2. PICK d \in Browsers : UseSession(d)
    BY <2>1
  <2>3. ValidateSession(b)
    <3>1. NoPage.pc = "idle"
      BY DEF NoPage
    <3>2. page' # page
      OBVIOUS
    <3>3. ~(DropSession(d) \/ PageAnswered(d))
      BY <2>0, <3>1 DEF DropSession, PageAnswered, PageIs
    <3>4. ValidateSession(d)
      BY <2>2, <3>2, <3>3 DEF UseSession, SessionUnread, Logout
    <3>5. d = b
      BY <2>0, <3>4 DEF ValidateSession, PageIs
    <3> QED
      BY <3>4, <3>5
  <2> DEFINE t == jar[b].session
             u == sessions[t].user
  <2>4. /\ t \in Tokens /\ Active(t)
        /\ page' = [page EXCEPT ![b] =
              [pc |-> IF sessions[t].expired \/ ~Allowed(users[u].email) THEN "drop" ELSE "served",
               token |-> t]]
    BY <2>3 DEF ValidateSession, PageIs, Active
  <2>5. page'[b].token = t /\ Allowed(users[u].email)
    BY <2>0, <2>4
  <2>6. u \in Users /\ HasRow(u)
    BY <2>4 DEF Inv, Typed, TypeOK, Held, Active, SessionRow
  <2> HIDE DEF u, t
  <2>7. Settled(users[u].sub) => users[u].email = seen[users[u].sub]
    BY <2>6 DEF Inv, Current, EmailCurrent
  <2>8. SignIns(t) # {}
    BY <2>4 DEF Inv, Sessions, Signed, SignIns
  <2>9. ASSUME NEW g, users[u].sub = g, Settled(g) PROVE seen[g] \in allow
    BY <2>5, <2>7, <2>9 DEF Allowed
  <2> QED
    BY <2>5, <2>8, <2>9 DEF u
<1> QED
  BY <1>1, Invariant, PTL DEF Spec, ServedIsAllowed
=============================================================================
