----------------------------- MODULE Lifecycle -----------------------------
(***************************************************************************)
(* Replicas of dined that start together against one database, migrate it, *)
(* serve and stop (cmd/dined/main.go, internal/migrate).  Startup is       *)
(* bounded by deadlines: one to connect, one for all of the migrations,    *)
(* one inside it for the advisory lock, and one to release the lock.       *)
(* Time passes in Tick for all replicas at once.                           *)
(***************************************************************************)
EXTENDS Naturals, Sequences, FiniteSets

CONSTANTS
    Replicas,
    Files,          \* the number of migrations embedded in each binary
    Requests,       \* bound: requests each replica has at once
    ConnectBudget, TotalBudget, LockBudget, UnlockBudget,  \* in ticks
    StartPeriod,    \* the healthcheck's start period
    None

ASSUME LifecycleAssumption ==
    /\ Files \in [Replicas -> Nat]
    /\ {ConnectBudget, TotalBudget, LockBudget, UnlockBudget, StartPeriod} \subseteq Nat
    /\ ConnectBudget + TotalBudget + UnlockBudget <= StartPeriod
    /\ None \notin Replicas

VARIABLES
    schema,   \* versions in goose_db_version, in the order they were applied
    lock,     \* the replica whose session holds the advisory lock
    pc,       \* where run and openStores are
    pending,  \* migrations that Up found to apply
    failed,   \* whether Up will return an error
    spent,    \* ticks since the start, until the migrations are done
    due,      \* when the current step's context ends, in these ticks
    total,    \* when the context of all migrations ends
    asked,    \* whether SIGTERM has come
    pool, job, req,
    cut       \* history: killed, failed to serve, or out of grace

vars == <<schema, lock, pc, pending, failed, spent, due, total, asked, pool, job, req, cut>>
database == <<schema, lock>>
clock == <<spent, due, total>>
work == <<job, req>>

Timed == {"connect", "lock", "migrate", "unlock", "version"}
Stopping == {"drain", "stopMetrics", "stopJob", "close", "closing"}

TypeOK ==
    /\ schema \in Seq(Nat)
    /\ lock \in Replicas \cup {None}
    /\ pc \in [Replicas -> {"off", "google", "bind", "serve", "exit"} \cup Timed \cup Stopping]
    /\ \A r \in Replicas : pending[r] \subseteq 1..Files[r]
    /\ failed \in [Replicas -> BOOLEAN]
    /\ {spent, due, total} \subseteq [Replicas -> Nat]
    /\ asked \in [Replicas -> BOOLEAN]
    /\ pool \in [Replicas -> {"none", "open", "closed"}]
    /\ job \in [Replicas -> {"none", "idle", "busy", "done"}]
    /\ \A r \in Replicas : req[r] \in [Requests[r] -> {"none", "running", "querying"}]
    /\ cut \in [Replicas -> BOOLEAN]

Init ==
    /\ schema = <<>> /\ lock = None
    /\ pc = [r \in Replicas |-> "off"]
    /\ pending = [r \in Replicas |-> {}]
    /\ failed = [r \in Replicas |-> FALSE]
    /\ spent = [r \in Replicas |-> 0]
    /\ due = [r \in Replicas |-> 0]
    /\ total = [r \in Replicas |-> 0]
    /\ asked = [r \in Replicas |-> FALSE]
    /\ pool = [r \in Replicas |-> "none"]
    /\ job = [r \in Replicas |-> "none"]
    /\ req = [r \in Replicas |-> [q \in Requests[r] |-> "none"]]
    /\ cut = [r \in Replicas |-> FALSE]

Goes(r, step) == pc' = [pc EXCEPT ![r] = step]
Until(r, deadline) == due' = [due EXCEPT ![r] = deadline]
Sooner(s, t) == IF s < t THEN s ELSE t

\* Startup's own variables end with it.
Leaves(r, step) ==
    /\ Goes(r, step)
    /\ pending' = [pending EXCEPT ![r] = {}]
    /\ failed' = [failed EXCEPT ![r] = FALSE]
    /\ spent' = [spent EXCEPT ![r] = 0]
    /\ due' = [due EXCEPT ![r] = 0]
    /\ total' = [total EXCEPT ![r] = 0]

-----------------------------------------------------------------------------
(* Startup: openStores and migrate.Apply *)

Start(r) ==
    /\ pc[r] = "off"
    /\ Goes(r, "connect") /\ Until(r, ConnectBudget)
    /\ pool' = [pool EXCEPT ![r] = "open"]
    /\ UNCHANGED <<database, pending, failed, spent, total, asked, work, cut>>

\* The ping answers; one deadline for the migrations, a sooner one for the lock.
Connected(r) ==
    LET end == spent[r] + TotalBudget IN
    /\ pc[r] = "connect"
    /\ Goes(r, "lock")
    /\ total' = [total EXCEPT ![r] = end]
    /\ Until(r, Sooner(end, spent[r] + LockBudget))
    /\ UNCHANGED <<database, pending, failed, spent, asked, pool, work, cut>>

\* Mutant: replicas do not serialize their startups.
LockFreeAlways == TRUE

\* pg_try_advisory_lock, once per second.
LockFree == lock = None

\* migrations.Files
Embedded(r) == 1..Files[r]

Recorded == {schema[i] : i \in DOMAIN schema}

\* Up lists what is pending under the lock.
LockTaken(r) ==
    /\ pc[r] = "lock" /\ LockFree
    /\ lock' = r
    /\ Goes(r, "migrate") /\ Until(r, total[r])
    /\ pending' = [pending EXCEPT ![r] = Embedded(r) \ Recorded]
    /\ UNCHANGED <<schema, failed, spent, total, asked, pool, work, cut>>

IsNext(r, v) == v \in pending[r] /\ \A w \in pending[r] : v <= w

\* One migration and its version in one transaction.
ApplyMigration(r, v) ==
    /\ pc[r] = "migrate" /\ IsNext(r, v)
    /\ schema' = Append(schema, v)
    /\ pending' = [pending EXCEPT ![r] = @ \ {v}]
    /\ UNCHANGED <<lock, pc, failed, clock, asked, pool, work, cut>>

\* Mutant: without the locker's own deadline Goose retries for a minute.
UnlockLimitDefault == TotalBudget

\* deadlineLocker.SessionUnlock: a deadline of its own, detached from Up's.
UnlockLimit == UnlockBudget

\* Up's deferred cleanup.
Unlocking(r) ==
    /\ Goes(r, "unlock")
    /\ Until(r, spent[r] + UnlockLimit)

AllApplied(r) ==
    /\ pc[r] = "migrate" /\ pending[r] = {}
    /\ Unlocking(r)
    /\ UNCHANGED <<database, pending, failed, spent, total, asked, pool, work, cut>>

\* An error, or the context ended: the migration is rolled back, or its commit
\* went through and the answer was lost.
MigrationFails(r) ==
    /\ pc[r] = "migrate"
    /\ Unlocking(r)
    /\ failed' = [failed EXCEPT ![r] = TRUE]
    /\ schema' \in {schema} \cup {Append(schema, v) : v \in {w \in pending[r] : IsNext(r, w)}}
    /\ UNCHANGED <<lock, pending, spent, total, asked, pool, work, cut>>

\* Mutant: the error of Up is only logged.
UpFailedNever(r) == FALSE

UpFailed(r) == failed[r]

Unlocked(r) ==
    /\ pc[r] = "unlock"
    /\ lock' = None
    /\ \/ UpFailed(r) /\ Leaves(r, "close")
       \/ ~UpFailed(r) /\ Goes(r, "version") /\ Until(r, total[r])
                       /\ UNCHANGED <<pending, failed, spent, total>>
    /\ UNCHANGED <<schema, asked, pool, work, cut>>

\* The context of the migrations has ended: by SIGTERM, or by the deadline.
Canceled(r) == asked[r] \/ spent[r] >= total[r]

\* GetVersions, and the deferred check of the context.
VersionRead(r) ==
    /\ pc[r] = "version"
    /\ Leaves(r, IF Canceled(r) THEN "close" ELSE "google")
    /\ UNCHANGED <<database, asked, pool, work, cut>>

\* Any other step of startup returns an error, or waits until its context ends.
StepFails(r) ==
    /\ pc[r] \in Timed \ {"migrate"}
    /\ Leaves(r, "close")
    /\ UNCHANGED <<database, asked, pool, work, cut>>

TimeUp(r) == pc[r] \in Timed /\ spent[r] >= due[r]

\* The context of the current step has ended; cleanup is detached from SIGTERM.
Ends(r) == TimeUp(r) \/ (asked[r] /\ pc[r] \in Timed \ {"unlock"})

Interrupted(r) == Ends(r) /\ (StepFails(r) \/ MigrationFails(r))

-----------------------------------------------------------------------------
(* run: from the open store to the listener *)

\* Google's OpenID configuration, fetched under context.Background().
GoogleAnswers(r) ==
    /\ pc[r] = "google"
    /\ \/ Goes(r, "bind") /\ job' = [job EXCEPT ![r] = "idle"]
       \/ Goes(r, "close") /\ UNCHANGED job
    /\ UNCHANGED <<database, pending, failed, clock, asked, pool, req, cut>>

\* A port that is taken ends the process; one taken for metrics does not.
Bind(r) ==
    /\ pc[r] = "bind"
    /\ Goes(r, "serve") \/ Goes(r, "stopJob")
    /\ UNCHANGED <<database, pending, failed, clock, asked, pool, work, cut>>

ServeFails(r) ==
    /\ pc[r] = "serve"
    /\ Goes(r, "stopMetrics")
    /\ cut' = [cut EXCEPT ![r] = TRUE]
    /\ UNCHANGED <<database, pending, failed, clock, asked, pool, work>>

Shutdown(r) ==
    /\ pc[r] = "serve" /\ asked[r]
    /\ Goes(r, "drain")
    /\ UNCHANGED <<database, pending, failed, clock, asked, pool, work, cut>>

-----------------------------------------------------------------------------
(* Shutdown and the deferred calls, last first *)

\* Mutant: the server is closed without waiting for its requests.
QuietAlways(r) == TRUE

Quiet(r) == \A q \in Requests[r] : req[r][q] = "none"

\* httpServer.Shutdown returns, at the latest after shutdownTimeout.
Drained(r) ==
    /\ pc[r] = "drain"
    /\ Goes(r, "stopMetrics")
    /\ \/ Quiet(r) /\ UNCHANGED cut
       \/ ~Quiet(r) /\ cut' = [cut EXCEPT ![r] = TRUE]
    /\ UNCHANGED <<database, pending, failed, clock, asked, pool, work>>

MetricsStopped(r) ==
    /\ pc[r] = "stopMetrics"
    /\ Goes(r, "stopJob")
    /\ UNCHANGED <<database, pending, failed, clock, asked, pool, work, cut>>

\* Mutant: the store closes while a cleanup may still run.
JobWaitedFor(r) == job[r] # "none"

\* scheduler.Wait
JobGone(r) == job[r] = "done"

JobStopped(r) ==
    /\ pc[r] = "stopJob" /\ JobGone(r)
    /\ Goes(r, "close")
    /\ UNCHANGED <<database, pending, failed, clock, asked, pool, work, cut>>

\* pool.Close turns new queries away at once,
Close(r) ==
    /\ pc[r] = "close"
    /\ Goes(r, "closing")
    /\ pool' = [pool EXCEPT ![r] = "closed"]
    /\ UNCHANGED <<database, pending, failed, clock, asked, work, cut>>

\* What ends with the process, however it ends.
Gone(r) ==
    /\ Leaves(r, "exit")
    /\ lock' = IF lock = r THEN None ELSE lock
    /\ pool' = [pool EXCEPT ![r] = "none"]
    /\ job' = [job EXCEPT ![r] = "none"]
    /\ req' = [req EXCEPT ![r] = [q \in Requests[r] |-> "none"]]
    /\ UNCHANGED <<schema, asked>>

\* ... and waits for the connections that are in use.  The process ends with
\* what is left of its requests, its sessions with their locks.
Exit(r) ==
    /\ pc[r] = "closing"
    /\ \A q \in Requests[r] : req[r][q] # "querying"
    /\ Gone(r)
    /\ UNCHANGED cut

Kill(r) ==
    /\ pc[r] \notin {"off", "exit"}
    /\ Gone(r)
    /\ cut' = [cut EXCEPT ![r] = TRUE]

SigTerm(r) ==
    /\ pc[r] \notin {"off", "exit"} /\ ~asked[r]
    /\ asked' = [asked EXCEPT ![r] = TRUE]
    /\ UNCHANGED <<database, pc, pending, failed, clock, pool, work, cut>>

-----------------------------------------------------------------------------
(* Requests, the cleanup goroutine, and time *)

ReqIs(r, q, state) ==
    /\ req' = [req EXCEPT ![r][q] = state]
    /\ UNCHANGED <<database, pc, pending, failed, clock, asked, pool, job, cut>>

Arrive(r, q) == pc[r] = "serve" /\ req[r][q] = "none" /\ ReqIs(r, q, "running")
Query(r, q) == req[r][q] = "running" /\ pool[r] = "open" /\ ReqIs(r, q, "querying")
QueryEnds(r, q) == req[r][q] = "querying" /\ ReqIs(r, q, "running")
Answer(r, q) == req[r][q] = "running" /\ ReqIs(r, q, "none")

JobIs(r, state) ==
    /\ job' = [job EXCEPT ![r] = state]
    /\ UNCHANGED <<database, pc, pending, failed, clock, asked, pool, req, cut>>

\* The select may take a tick that is due although the context has ended.
JobStarts(r) == job[r] = "idle" /\ JobIs(r, "busy")
JobEnds(r) == job[r] = "busy" /\ JobIs(r, "idle")

\* Mutant: the cleanup is waited for and never told to stop.
StopSchedulerNever(r) == FALSE

\* stopScheduler
StopScheduler(r) == pc[r] = "stopJob"

JobStops(r) == StopScheduler(r) /\ job[r] = "idle" /\ JobIs(r, "done")

\* Time does not pass a deadline before the context has ended.
Tick ==
    /\ \E r \in Replicas : pc[r] \in Timed
    /\ \A r \in Replicas : ~TimeUp(r)
    /\ spent' = [r \in Replicas |-> IF pc[r] \in Timed THEN spent[r] + 1 ELSE spent[r]]
    /\ UNCHANGED <<database, pc, pending, failed, due, total, asked, pool, work, cut>>

-----------------------------------------------------------------------------

Startup(r) ==
    \/ Connected(r) \/ LockTaken(r) \/ AllApplied(r) \/ Unlocked(r) \/ VersionRead(r)
    \/ \E v \in 1..Files[r] : ApplyMigration(r, v)
    \/ MigrationFails(r) \/ StepFails(r)

Run(r) ==
    \/ GoogleAnswers(r) \/ Bind(r) \/ Shutdown(r) \/ Drained(r) \/ MetricsStopped(r)
    \/ JobStopped(r) \/ Close(r) \/ Exit(r)

Handle(r, q) == Query(r, q) \/ QueryEnds(r, q) \/ Answer(r, q)

Next ==
    \/ \E r \in Replicas :
          \/ Start(r) \/ Startup(r) \/ Run(r) \/ ServeFails(r) \/ Kill(r) \/ SigTerm(r)
          \/ JobStarts(r) \/ JobEnds(r) \/ JobStops(r)
          \/ \E q \in Requests[r] : Arrive(r, q) \/ Handle(r, q)
    \/ Tick

Spec == Init /\ [][Next]_vars

\* Clocks run and contexts end when they are due; a statement of startup may
\* hang until then.  After startup the process goes on, Google answers or
\* refuses, a query ends, and a select with two ready cases takes each of them
\* again and again.
FairSpec ==
    /\ Spec
    /\ WF_vars(Tick)
    /\ \A r \in Replicas :
          /\ WF_vars(Interrupted(r)) /\ WF_vars(Run(r))
          /\ WF_vars(JobEnds(r)) /\ SF_vars(JobStops(r))
          /\ \A q \in Requests[r] : WF_vars(QueryEnds(r, q))

-----------------------------------------------------------------------------
(* Properties *)

\* "replicas that start together apply each migration once", in order, whatever
\* is canceled, times out, loses its answer or is killed.
MigratedOnce == \A i \in DOMAIN schema : schema[i] = i

\* "applies any pending migrations at startup, before it serves traffic", and
\* exits when one fails.
ServesMigrated ==
    \A r \in Replicas : pc[r] \in {"google", "bind", "serve", "drain"} =>
        1..Files[r] \subseteq Recorded

\* "below the deployment's 90-second healthcheck start period".
WithinStartPeriod == \A r \in Replicas : spent[r] <= StartPeriod

\* "Stop the cleanup before the deferred store close runs."
JobHasPool == \A r \in Replicas : job[r] = "busy" => pool[r] = "open"

\* A process that is asked to stop answers what it accepted, within its grace.
AnsweredFirst ==
    [][\A r \in Replicas :
          pc[r] # "exit" /\ pc'[r] = "exit" /\ (\E q \in Requests[r] : req[r][q] # "none")
          => cut'[r]]_vars

\* Nothing keeps a replica from the end of its startup but Google, neither the
\* lock of another one nor a statement that hangs, and SIGTERM ends the process,
\* whenever it comes.
EveryPhaseEnds ==
    \A r \in Replicas :
        /\ pc[r] \in Timed ~> pc[r] \notin Timed
        /\ asked[r] ~> pc[r] = "exit"
=============================================================================
