------------------------------ MODULE Accounts ------------------------------
(***************************************************************************)
(* Signing in with Google and what follows from it (internal/auth,         *)
(* internal/handler/oauth.go and login.go, internal/middleware/auth.go) on *)
(* the Postgres tables users and user_sessions: sign-ins of several        *)
(* browsers at once, pages and logouts that use their sessions, the        *)
(* cleanup job, and restarts with another allowlist.  An action is one SQL *)
(* statement with the decisions up to the next one.                        *)
(***************************************************************************)
EXTENDS Naturals, FiniteSets

CONSTANTS
    Browsers,
    Flows,      \* bound: sign-ins that may ever be started
    MaxUsers,   \* bound: rows of users
    MaxTokens,  \* bound: sessions that may ever be created
    Google,     \* Google accounts (the sub of their claims)
    Emails,
    Addresses,  \* <<account, email>> that Google may ever report
    Allowlists, \* allowlists the server may be started with
    MaxStarts,  \* bound: restarts of the server
    None, Gone

ASSUME AccountsAssumption ==
    /\ {MaxUsers, MaxTokens, MaxStarts} \subseteq Nat
    /\ Addresses \subseteq Google \X Emails
    /\ \A g \in Google : \E e \in Emails : <<g, e>> \in Addresses
    /\ Allowlists \subseteq SUBSET Emails

Users == 1..MaxUsers
Tokens == 1..MaxTokens
OrNone(S) == S \cup {None}

VARIABLES
    mail,      \* the email address Google has for each account now
    allow,     \* the allowlist of the running server
    starts,    \* restarts so far
    users,     \* rows of users
    sessions,  \* rows of user_sessions, by token
    flow,      \* sign-ins, from the first click to the cookie
    jar,       \* the cookies of each browser
    page,      \* a page of each browser that needs its user
    cleaner,   \* whether the cleanup goroutine still loops
    seen,      \* history: the email Google last reported for each account
    unsettled  \* history: accounts whose last sign-in met another or failed

vars == <<mail, allow, starts, users, sessions, flow, jar, page, cleaner, seen, unsettled>>
tables == <<users, sessions>>
world == <<mail, allow, starts, cleaner>>
history == <<seen, unsettled>>

UserRow == [sub : Google, email : Emails]
SessionRow == [user : Users, expired : BOOLEAN]
ASSUME RowAssumption == None \notin UserRow /\ {None, Gone} \cap SessionRow = {}

\* Steps of a sign-in that run inside the server.
Inside == {"byOAuth", "byEmail", "update", "create", "session", "answer"}

FlowRow == [pc : {"new", "google", "done", "failed"} \cup Inside,
            browser : OrNone(Browsers), sub : OrNone(Google), email : OrNone(Emails),
            user : OrNone(Users), token : OrNone(Tokens)]
Jar == [state : OrNone(Flows), session : OrNone(Tokens)]
Page == [pc : {"idle", "drop", "served"}, token : OrNone(Tokens)]
NewFlow == [pc |-> "new", browser |-> None, sub |-> None, email |-> None,
            user |-> None, token |-> None]
NoPage == [pc |-> "idle", token |-> None]

TypeOK ==
    /\ mail \in [Google -> Emails]
    /\ allow \in Allowlists
    /\ starts \in 0..MaxStarts
    /\ users \in [Users -> UserRow \cup {None}]
    /\ sessions \in [Tokens -> SessionRow \cup {None, Gone}]
    /\ flow \in [Flows -> FlowRow]
    /\ jar \in [Browsers -> Jar]
    /\ page \in [Browsers -> Page]
    /\ cleaner \in BOOLEAN
    /\ seen \in [Google -> OrNone(Emails)]
    /\ unsettled \subseteq Google

Init ==
    /\ mail \in {m \in [Google -> Emails] : \A g \in Google :
                   <<g, m[g]>> \in Addresses /\ \A h \in Google \ {g} : m[h] # m[g]}
    /\ allow \in Allowlists
    /\ starts = 0
    /\ users = [u \in Users |-> None]
    /\ sessions = [t \in Tokens |-> None]
    /\ flow = [f \in Flows |-> NewFlow]
    /\ jar = [b \in Browsers |-> [state |-> None, session |-> None]]
    /\ page = [b \in Browsers |-> NoPage]
    /\ cleaner = TRUE
    /\ seen = [g \in Google |-> None]
    /\ unsettled = {}

-----------------------------------------------------------------------------
(* Lookups *)

HasRow(u) == users[u] # None
WithSub(g) == {u \in Users : HasRow(u) /\ users[u].sub = g}
WithEmail(e) == {u \in Users : HasRow(u) /\ users[u].email = e}
Active(t) == t \in Tokens /\ sessions[t] \notin {None, Gone}
Expired == {t \in Tokens : Active(t) /\ sessions[t].expired}

\* Mutant: users has no unique index on the provider's id.
TakenByEmail(u, g, e) == WithEmail(e) \ {u} # {}

\* The unique indexes on email and on the provider's id.
Taken(u, g, e) == (WithEmail(e) \cup WithSub(g)) \ {u} # {}

\* Sign-ins inside the server, and their accounts.
Running == {f \in Flows : flow[f].pc \in Inside}
Accounts(F) == {flow[f].sub : f \in F}

FlowIs(f, state) == flow' = [flow EXCEPT ![f] = state]
Goes(f, pc) == FlowIs(f, [flow[f] EXCEPT !.pc = pc])

-----------------------------------------------------------------------------
(* Signing in *)

\* StartGoogleLogin: the state cookie of the browser is the new one.
StartGoogleLogin(f, b) ==
    /\ flow[f].pc = "new"
    /\ FlowIs(f, [NewFlow EXCEPT !.pc = "google", !.browser = b])
    /\ jar' = [jar EXCEPT ![b].state = f]
    /\ UNCHANGED <<tables, page, world, history>>

\* GoogleCallback with another state than the cookie's, or none.  (The cookie's
\* ten minutes and a state that cannot be decoded end the same way.)
CallbackRejected(f) ==
    /\ flow[f].pc = "google"
    /\ jar[flow[f].browser].state # f
    /\ Goes(f, "failed")
    /\ UNCHANGED <<tables, jar, page, world, history>>

\* The answer to a callback whose state matched clears the state cookie.
Cleared(f, session) ==
    jar' = [jar EXCEPT ![flow[f].browser] = [state |-> None, session |-> session]]

SessionCookie(f) == jar[flow[f].browser].session

\* Google refuses, or the account is not allowed.
CallbackRefused(f) ==
    /\ flow[f].pc = "google"
    /\ jar[flow[f].browser].state = f
    /\ Goes(f, "failed")
    /\ Cleared(f, SessionCookie(f))
    /\ UNCHANGED <<tables, page, world, history>>

\* Exchange returns the claims of an allowed account; the answer comes later.
CallbackAllowed(f, g) ==
    /\ flow[f].pc = "google"
    /\ jar[flow[f].browser].state = f
    /\ mail[g] \in allow
    /\ FlowIs(f, [flow[f] EXCEPT !.pc = "byOAuth", !.sub = g, !.email = mail[g]])
    /\ seen' = [seen EXCEPT ![g] = mail[g]]
    /\ unsettled' = IF Running = {} THEN unsettled \ {g}
                    ELSE unsettled \cup {g} \cup Accounts(Running)
    /\ UNCHANGED <<tables, jar, page, world>>

\* CreateOrUpdateUser, statement by statement.
FindUserByOAuth(f) ==
    /\ flow[f].pc = "byOAuth"
    /\ \/ \E u \in WithSub(flow[f].sub) :
             FlowIs(f, [flow[f] EXCEPT !.pc = "update", !.user = u])
       \/ WithSub(flow[f].sub) = {} /\ Goes(f, "byEmail")
    /\ UNCHANGED <<tables, jar, page, world, history>>

FindUserByEmail(f) ==
    /\ flow[f].pc = "byEmail"
    /\ \/ \E u \in WithEmail(flow[f].email) :
             FlowIs(f, [flow[f] EXCEPT !.pc = "update", !.user = u])
       \/ WithEmail(flow[f].email) = {} /\ Goes(f, "create")
    /\ UNCHANGED <<tables, jar, page, world, history>>

\* Mutant: the stored email stays the one of the first sign-in.
EmailKept(f) == users[flow[f].user].email

\* The email UpdateUserLogin writes.
EmailWritten(f) == flow[f].email

UpdateUserLogin(f) ==
    LET u == flow[f].user IN
    /\ flow[f].pc = "update"
    /\ ~Taken(u, users[u].sub, flow[f].email)
    /\ users' = [users EXCEPT ![u].email = EmailWritten(f)]
    /\ Goes(f, "session")
    /\ UNCHANGED <<sessions, jar, page, world, history>>

CreateUser(f) ==
    /\ flow[f].pc = "create"
    /\ ~Taken(0, flow[f].sub, flow[f].email)
    /\ \E u \in {v \in Users : \A w \in Users : HasRow(w) <=> w < v} :
          /\ users' = [users EXCEPT ![u] = [sub |-> flow[f].sub, email |-> flow[f].email]]
          /\ FlowIs(f, [flow[f] EXCEPT !.pc = "session", !.user = u])
    /\ UNCHANGED <<sessions, jar, page, world, history>>

\* A unique index turns the statement down.
Turned(f) ==
    \/ flow[f].pc = "create" /\ Taken(0, flow[f].sub, flow[f].email)
    \/ /\ flow[f].pc = "update"
       /\ Taken(flow[f].user, users[flow[f].user].sub, flow[f].email)

TurnedDown(f) ==
    /\ Turned(f)
    /\ Goes(f, "failed")
    /\ Cleared(f, SessionCookie(f))
    /\ unsettled' = unsettled \cup Accounts({f})
    /\ UNCHANGED <<tables, page, world, seen>>

CreateSession(f) ==
    /\ flow[f].pc = "session"
    /\ \E t \in {s \in Tokens : \A r \in Tokens : sessions[r] # None <=> r < s} :
          /\ sessions' = [sessions EXCEPT ![t] = [user |-> flow[f].user, expired |-> FALSE]]
          /\ FlowIs(f, [flow[f] EXCEPT !.pc = "answer", !.token = t])
    /\ UNCHANGED <<users, jar, page, world, history>>

\* The redirect with the session cookie reaches the browser.
SetSessionCookie(f) ==
    /\ flow[f].pc = "answer"
    /\ Goes(f, "done")
    /\ Cleared(f, flow[f].token)
    /\ UNCHANGED <<tables, page, world, history>>

\* A statement fails, or the browser gives up and never sees the answer; what
\* was written stays.
LoginFails(f) ==
    /\ flow[f].pc \in Inside
    /\ Goes(f, "failed")
    /\ Cleared(f, SessionCookie(f)) \/ jar' = jar
    /\ unsettled' = unsettled \cup Accounts({f})
    /\ UNCHANGED <<tables, page, world, seen>>

-----------------------------------------------------------------------------
(* Using a session *)

PageIs(b, state) == page' = [page EXCEPT ![b] = state]

\* Mutant: only the session's expiry is checked on a request.
AllowedUnchecked(e) == TRUE

\* allowlist.Allowed
Allowed(e) == e \in allow

\* ValidateSession up to its DELETE: one SELECT of the session and its user.
ValidateSession(b) ==
    LET t == jar[b].session IN
    /\ page[b].pc = "idle" /\ Active(t)
    /\ IF sessions[t].expired \/ ~Allowed(users[sessions[t].user].email)
       THEN PageIs(b, [pc |-> "drop", token |-> t])
       ELSE PageIs(b, [pc |-> "served", token |-> t])
    /\ UNCHANGED <<tables, flow, jar, world, history>>

\* No row for the cookie, or the SELECT fails: Auth clears the cookie, and
\* CurrentUser leaves it.
SessionUnread(b) ==
    /\ page[b].pc = "idle" /\ jar[b].session # None
    /\ jar' = [jar EXCEPT ![b].session = None]
    /\ UNCHANGED <<tables, flow, page, world, history>>

\* The DELETE, whose error is ignored, and the answer.  It clears the cookie of
\* that name, which may be a newer one; CurrentUser leaves the cookie alone.
DropSession(b) ==
    LET t == page[b].token IN
    /\ page[b].pc = "drop"
    /\ sessions' \in {sessions, [sessions EXCEPT ![t] = Gone]}
    /\ jar' \in {jar, [jar EXCEPT ![b].session = None]}
    /\ PageIs(b, NoPage)
    /\ UNCHANGED <<users, flow, world, history>>

PageAnswered(b) ==
    /\ page[b].pc = "served"
    /\ PageIs(b, NoPage)
    /\ UNCHANGED <<tables, flow, jar, world, history>>

\* An error of DeleteSession is only logged.
Logout(b) ==
    LET t == jar[b].session IN
    /\ t # None
    /\ sessions' \in {sessions} \cup
          (IF Active(t) THEN {[sessions EXCEPT ![t] = Gone]} ELSE {})
    /\ jar' = [jar EXCEPT ![b].session = None]
    /\ UNCHANGED <<users, flow, page, world, history>>

-----------------------------------------------------------------------------
(* Time, the cleanup job, restarts and Google *)

Expire(t) ==
    /\ Active(t) /\ ~sessions[t].expired
    /\ sessions' = [sessions EXCEPT ![t].expired = TRUE]
    /\ UNCHANGED <<users, flow, jar, page, world, history>>

CleanupExpiredSessions ==
    /\ cleaner /\ Expired # {}
    /\ sessions' = [t \in Tokens |-> IF t \in Expired THEN Gone ELSE sessions[t]]
    /\ UNCHANGED <<users, flow, jar, page, world, history>>

\* Mutant: the loop returns on the first error.
LoopsNever == FALSE

\* After an error the loop waits for the next tick.
LoopsOn == cleaner

CleanupFails ==
    /\ cleaner
    /\ cleaner' = LoopsOn
    /\ UNCHANGED <<tables, flow, jar, page, mail, allow, starts, history>>

\* The process ends with what is in flight, and another one starts.
Restart(A) ==
    /\ starts < MaxStarts
    /\ starts' = starts + 1
    /\ allow' = A
    /\ cleaner' = TRUE
    /\ flow' = [f \in Flows |->
          IF flow[f].pc \in Inside THEN [flow[f] EXCEPT !.pc = "failed"] ELSE flow[f]]
    /\ page' = [b \in Browsers |-> NoPage]
    /\ unsettled' = unsettled \cup Accounts(Running)
    /\ UNCHANGED <<tables, jar, mail, seen>>

\* An address may pass from one account to another one.
ChangeMail(g, e) ==
    /\ <<g, e>> \in Addresses
    /\ \A h \in Google : e # mail[h]
    /\ mail' = [mail EXCEPT ![g] = e]
    /\ UNCHANGED <<tables, flow, jar, page, allow, starts, cleaner, history>>

-----------------------------------------------------------------------------

SignIn(f) ==
    \/ \E b \in Browsers : StartGoogleLogin(f, b)
    \/ \E g \in Google : CallbackAllowed(f, g)
    \/ CallbackRejected(f) \/ CallbackRefused(f)
    \/ FindUserByOAuth(f) \/ FindUserByEmail(f)
    \/ UpdateUserLogin(f) \/ CreateUser(f) \/ TurnedDown(f)
    \/ CreateSession(f) \/ SetSessionCookie(f) \/ LoginFails(f)

UseSession(b) ==
    \/ ValidateSession(b) \/ SessionUnread(b) \/ DropSession(b)
    \/ PageAnswered(b) \/ Logout(b)

Next ==
    \/ \E f \in Flows : SignIn(f)
    \/ \E b \in Browsers : UseSession(b)
    \/ \E t \in Tokens : Expire(t)
    \/ CleanupExpiredSessions \/ CleanupFails
    \/ \E A \in Allowlists : Restart(A)
    \/ \E g \in Google, e \in Emails : ChangeMail(g, e)

Spec == Init /\ [][Next]_vars

\* The ticker of ScheduleSessionCleanup fires again and again, and the DELETE
\* does not fail every time; nobody has to use the site.
FairSpec == Spec /\ WF_vars(CleanupExpiredSessions)

-----------------------------------------------------------------------------
(* Properties *)

\* Two first sign-ins of one account do not make two users of it, and no email
\* is stored twice.
OneUserPerAccount ==
    \A u, v \in Users : u # v /\ HasRow(u) /\ HasRow(v) =>
        users[u].sub # users[v].sub /\ users[u].email # users[v].email

\* The account's last sign-in ran alone and has written what it had to.
Settled(g) ==
    /\ g \notin unsettled
    /\ \A f \in Flows : flow[f].sub = g =>
          flow[f].pc \notin {"byOAuth", "byEmail", "update", "create"}

\* "Keep the stored email current": a user's stored email is the one Google
\* reported last for its account, also after another account with that address
\* has signed in as this user.
EmailCurrent ==
    \A u \in Users : HasRow(u) /\ Settled(users[u].sub) => users[u].email = seen[users[u].sub]

\* The sign-ins that created a session: there is one.
SignIns(t) == {f \in Flows : flow[f].token = t}

\* A page that is served belongs to a session that an account signed in for, and
\* if that account has a user of its own (is not signed in as one that it was
\* linked to by its email), its last known email is on the list.
ServedIsAllowed ==
    [][\A b \in Browsers :
          page[b].pc = "idle" /\ page'[b].pc = "served" =>
              LET t == page'[b].token
                  u == sessions[t].user
              IN  /\ SignIns(t) # {}
                  /\ \A f \in SignIns(t) :
                        LET g == flow[f].sub
                        IN  users[u].sub = g /\ Settled(g) => seen[g] \in allow]_vars

\* "removing an account from the allowlist revokes its existing sessions"
\* (internal/auth/service.go:22): no page is served to a session of any account
\* whose last known email is not on the list.
RemovalRevokes ==
    [][\A b \in Browsers :
          page[b].pc = "idle" /\ page'[b].pc = "served" =>
              \A f \in SignIns(page'[b].token) :
                  Settled(flow[f].sub) => seen[flow[f].sub] \in allow]_vars

\* Expired sessions are deleted, whoever uses the site and whatever fails once.
ExpiredGoes == \A t \in Tokens : t \in Expired ~> t \notin Expired
=============================================================================
