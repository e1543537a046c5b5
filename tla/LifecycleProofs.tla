--------------------------- MODULE LifecycleProofs ---------------------------
(***************************************************************************)
(* Any number of replicas, with binaries of any age, that start, migrate,  *)
(* serve, stop and are killed at any moment.  The lock keeps what Up found *)
(* pending true until it is applied (Pending); the deadlines of startup    *)
(* nest (Timing); the store is open while the job or a request may use it  *)
(* (Using).                                                                *)
(***************************************************************************)
EXTENDS Lifecycle, TLAPS

\* The conjuncts of TypeOK, and that all functions are of the replicas.
Steps ==
    /\ schema \in Seq(Nat)
    /\ lock \in Replicas \cup {None}
    /\ pc \in [Replicas -> {"off", "google", "bind", "serve", "exit"} \cup Timed \cup Stopping]
    /\ \A r \in Replicas : pending[r] \subseteq 1..Files[r]
    /\ failed \in [Replicas -> BOOLEAN]

Clocks == {spent, due, total} \subseteq [Replicas -> Nat]

Users ==
    /\ asked \in [Replicas -> BOOLEAN]
    /\ pool \in [Replicas -> {"none", "open", "closed"}]
    /\ job \in [Replicas -> {"none", "idle", "busy", "done"}]
    /\ \A r \in Replicas : req[r] \in [Requests[r] -> {"none", "running", "querying"}]
    /\ cut \in [Replicas -> BOOLEAN]

Shaped ==
    /\ pending = [r \in Replicas |-> pending[r]]
    /\ req = [r \in Replicas |-> req[r]]

Locked == \A r \in Replicas : pc[r] \in {"migrate", "unlock"} => lock = r

Pending ==
    \A r \in Replicas :
        pc[r] = "migrate" => pending[r] = {v \in 1..Files[r] : v > Len(schema)}

\* Up has an error only until the lock is released, and ended without one
\* before anything after it.
Upgraded ==
    \A r \in Replicas :
        /\ failed[r] => pc[r] = "unlock"
        /\ pc[r] \in {"unlock", "version", "google", "bind", "serve", "drain"} /\ ~failed[r]
           => Files[r] <= Len(schema)

Timing ==
    \A r \in Replicas :
        /\ spent[r] <= StartPeriod /\ due[r] <= StartPeriod
        /\ total[r] <= ConnectBudget + TotalBudget
        /\ pc[r] = "off" => spent[r] = 0
        /\ pc[r] = "connect" => spent[r] <= due[r] /\ due[r] = ConnectBudget
        /\ pc[r] = "lock" => spent[r] <= due[r] /\ due[r] <= total[r]
        /\ pc[r] = "migrate" => spent[r] <= due[r] /\ due[r] = total[r]

Using ==
    \A r \in Replicas :
        /\ pc[r] \notin {"off", "exit", "closing"} => pool[r] = "open"
        /\ pc[r] \notin {"bind", "serve", "drain", "stopMetrics", "stopJob"} =>
              job[r] \in {"none", "done"}
        /\ pc[r] \notin {"serve", "drain"} /\ ~cut[r] =>
              \A q \in Requests[r] : req[r][q] = "none"

Inv ==
    /\ Steps /\ Clocks /\ Users /\ Shaped /\ MigratedOnce
    /\ Locked /\ Pending /\ Upgraded /\ Timing /\ Using

-----------------------------------------------------------------------------

\* What is recorded are the versions up to the last one.
LEMMA RecordedIs ==
  ASSUME schema \in Seq(Nat), MigratedOnce
  PROVE  Recorded = 1..Len(schema)
BY DEF Recorded, MigratedOnce

\* The next migration of a binary is the one after the last recorded.
LEMMA NextIs ==
  ASSUME schema \in Seq(Nat), NEW r \in Replicas, NEW v \in Nat, IsNext(r, v),
         pending[r] = {w \in 1..Files[r] : w > Len(schema)}
  PROVE  v = Len(schema) + 1
<1>1. Len(schema) \in Nat /\ Files[r] \in Nat
  BY LifecycleAssumption
<1>2. v \in 1..Files[r] /\ v > Len(schema)
  BY DEF IsNext
<1>3. Len(schema) + 1 \in pending[r]
  BY <1>1, <1>2
<1>4. v <= Len(schema) + 1
  BY <1>3 DEF IsNext
<1> QED
  BY <1>1, <1>2, <1>4

\* Recording it keeps the versions in order.
LEMMA AppendOK ==
  ASSUME schema \in Seq(Nat), MigratedOnce, schema' = Append(schema, Len(schema) + 1)
  PROVE  schema' \in Seq(Nat) /\ MigratedOnce' /\ Len(schema') = Len(schema) + 1
BY DEF MigratedOnce

\* No replica has started at first.
LEMMA InitOK == Init => Inv
BY LifecycleAssumption DEF Init, Inv, Steps, Clocks, Users, Shaped, MigratedOnce, Locked, Pending, Upgraded,
   Timing, Using, Timed, Stopping

\* Startup's clocks end with it.
LEMMA LeavesTiming ==
  ASSUME Steps, Clocks, Timing, NEW r \in Replicas,
         Leaves(r, "close") \/ Leaves(r, "google") \/ Leaves(r, "exit")
  PROVE  Timing'
<1>0. PICK step \in {"close", "google", "exit"} : Leaves(r, step)
  OBVIOUS
<1>1. /\ spent' = [spent EXCEPT ![r] = 0] /\ due' = [due EXCEPT ![r] = 0]
      /\ total' = [total EXCEPT ![r] = 0] /\ pc' = [pc EXCEPT ![r] = step]
  BY <1>0 DEF Leaves, Goes
<1>2. /\ spent'[r] = 0 /\ due'[r] = 0 /\ total'[r] = 0 /\ pc'[r] = step
      /\ \A s \in Replicas \ {r} : /\ spent'[s] = spent[s] /\ due'[s] = due[s]
                                  /\ total'[s] = total[s] /\ pc'[s] = pc[s]
  BY <1>1 DEF Steps, Clocks
<1>3. 0 <= StartPeriod /\ 0 <= ConnectBudget + TotalBudget
  BY LifecycleAssumption
<1> QED
  BY <1>0, <1>2, <1>3 DEF Timing

\* Each step of a replica keeps the invariant: startup and migrations, ...
LEMMA StartOK == ASSUME Inv, NEW r \in Replicas, Start(r) PROVE Inv'
<1> USE DEF database, clock, work, Goes, Until
<1>1. Steps'
  BY LifecycleAssumption DEF Inv, Steps, Start, Timed, Stopping
<1>2. Clocks'
  BY LifecycleAssumption DEF Inv, Clocks, Start
<1>3. Users' /\ Shaped'
  BY DEF Inv, Users, Shaped, Start
<1>4. MigratedOnce' /\ Locked' /\ Pending' /\ Upgraded'
  BY LifecycleAssumption DEF Inv, Steps, Shaped, MigratedOnce, Locked, Pending, Upgraded, Start, Timed
<1>5. Timing'
  BY LifecycleAssumption DEF Inv, Steps, Clocks, Timing, Start, Timed
<1>6. Using'
  BY DEF Inv, Steps, Users, Shaped, Using, Start, Timed
<1> QED
  BY <1>1, <1>2, <1>3, <1>4, <1>5, <1>6 DEF Inv

LEMMA ConnectedOK == ASSUME Inv, NEW r \in Replicas, Connected(r) PROVE Inv'
<1> USE DEF database, clock, work, Goes, Until
<1>1. Steps'
  BY LifecycleAssumption DEF Inv, Steps, Connected, Sooner, Timed, Stopping
<1>2. Clocks'
  BY LifecycleAssumption DEF Inv, Clocks, Connected, Sooner
<1>3. Users' /\ Shaped'
  BY DEF Inv, Users, Shaped, Connected, Sooner
<1>4. MigratedOnce' /\ Locked' /\ Pending' /\ Upgraded'
  BY LifecycleAssumption DEF Inv, Steps, Shaped, MigratedOnce, Locked, Pending, Upgraded, Connected, Sooner, Timed
<1>5. Timing'
  <2> DEFINE end == spent[r] + TotalBudget
  <2>1. /\ spent' = spent /\ pc' = [pc EXCEPT ![r] = "lock"]
        /\ total' = [total EXCEPT ![r] = end]
        /\ due' = [due EXCEPT ![r] = Sooner(end, spent[r] + LockBudget)]
    BY DEF Connected
  <2>2. /\ spent[r] \in Nat /\ spent[r] <= ConnectBudget
        /\ {ConnectBudget, TotalBudget, LockBudget, UnlockBudget, StartPeriod} \subseteq Nat
        /\ ConnectBudget + TotalBudget + UnlockBudget <= StartPeriod
    BY LifecycleAssumption DEF Inv, Clocks, Timing, Connected
  <2>3. /\ Sooner(end, spent[r] + LockBudget) <= end
        /\ spent[r] <= Sooner(end, spent[r] + LockBudget)
        /\ end <= ConnectBudget + TotalBudget /\ end <= StartPeriod
        /\ Sooner(end, spent[r] + LockBudget) <= StartPeriod
    BY <2>2 DEF Sooner
  <2> HIDE DEF end
  <2>4. /\ spent' = spent /\ pc'[r] = "lock" /\ total'[r] = end
        /\ due'[r] = Sooner(end, spent[r] + LockBudget)
        /\ \A s \in Replicas \ {r} : /\ due'[s] = due[s] /\ total'[s] = total[s] /\ pc'[s] = pc[s]
    BY <2>1 DEF Inv, Steps, Clocks
  <2> QED
    BY <2>3, <2>4 DEF Inv, Timing
<1>6. Using'
  BY DEF Inv, Steps, Users, Shaped, Using, Connected, Sooner, Timed
<1> QED
  BY <1>1, <1>2, <1>3, <1>4, <1>5, <1>6 DEF Inv

LEMMA LockTakenOK == ASSUME Inv, NEW r \in Replicas, LockTaken(r) PROVE Inv'
<1> USE DEF database, clock, work, Goes, Until
<1>1. Steps'
  BY LifecycleAssumption DEF Inv, Steps, LockTaken, LockFree, Embedded, Timed, Stopping
<1>2. Clocks'
  BY LifecycleAssumption DEF Inv, Clocks, LockTaken, LockFree, Embedded
<1>3. Users' /\ Shaped'
  BY DEF Inv, Users, Shaped, LockTaken, LockFree, Embedded
<1>4. MigratedOnce' /\ Locked' /\ Pending' /\ Upgraded'
  BY RecordedIs, LifecycleAssumption DEF Inv, Steps, Shaped, MigratedOnce, Locked, Pending, Upgraded, LockTaken, LockFree, Embedded, Timed
<1>5. Timing'
  BY LifecycleAssumption DEF Inv, Steps, Clocks, Timing, LockTaken, LockFree, Embedded, Timed
<1>6. Using'
  BY DEF Inv, Steps, Users, Shaped, Using, LockTaken, LockFree, Embedded, Timed
<1> QED
  BY <1>1, <1>2, <1>3, <1>4, <1>5, <1>6 DEF Inv

LEMMA AllAppliedOK == ASSUME Inv, NEW r \in Replicas, AllApplied(r) PROVE Inv'
<1> USE DEF database, clock, work, Goes, Until
<1>1. Steps'
  BY LifecycleAssumption DEF Inv, Steps, AllApplied, Unlocking, UnlockLimit, Timed, Stopping
<1>2. Clocks'
  BY LifecycleAssumption DEF Inv, Clocks, AllApplied, Unlocking, UnlockLimit
<1>3. Users' /\ Shaped'
  BY DEF Inv, Users, Shaped, AllApplied, Unlocking, UnlockLimit
<1>4. MigratedOnce' /\ Locked' /\ Pending' /\ Upgraded'
  <2>1. schema' = schema /\ lock' = lock /\ pending' = pending /\ failed' = failed
        /\ pc[r] = "migrate" /\ pending[r] = {} /\ pc' = [pc EXCEPT ![r] = "unlock"]
    BY DEF AllApplied, Unlocking
  <2>2. pc'[r] = "unlock" /\ \A s \in Replicas \ {r} : pc'[s] = pc[s]
    BY <2>1 DEF Inv, Steps
  <2>3. Files[r] <= Len(schema)
    <3>1. Files[r] \in Nat /\ Len(schema) \in Nat
      BY LifecycleAssumption DEF Inv, Steps
    <3>2. Files[r] \notin {v \in 1..Files[r] : v > Len(schema)}
      BY <2>1 DEF Inv, Pending
    <3> QED
      BY <3>1, <3>2
  <2> QED
    BY <2>1, <2>2, <2>3 DEF Inv, MigratedOnce, Locked, Pending, Upgraded
<1>5. Timing'
  BY LifecycleAssumption DEF Inv, Steps, Clocks, Timing, AllApplied, Unlocking, UnlockLimit, Timed
<1>6. Using'
  BY DEF Inv, Steps, Users, Shaped, Using, AllApplied, Unlocking, UnlockLimit, Timed
<1> QED
  BY <1>1, <1>2, <1>3, <1>4, <1>5, <1>6 DEF Inv

LEMMA UnlockedOK == ASSUME Inv, NEW r \in Replicas, Unlocked(r) PROVE Inv'
<1> USE DEF database, clock, work, Goes, Until
<1>1. Steps'
  <2>1. /\ schema' = schema /\ lock' = None
        /\ \A s \in Replicas : pending'[s] \in {pending[s], {}}
        /\ \E p \in {"close", "version"} : pc' = [pc EXCEPT ![r] = p]
        /\ failed' = failed \/ failed' = [failed EXCEPT ![r] = FALSE]
    BY DEF Inv, Shaped, Unlocked, Leaves
  <2> QED
    BY <2>1 DEF Inv, Steps, Timed, Stopping
<1>2. Clocks'
  BY LifecycleAssumption DEF Inv, Clocks, Unlocked, Leaves, UpFailed
<1>3. Users' /\ Shaped'
  BY DEF Inv, Users, Shaped, Unlocked, Leaves, UpFailed
<1>4. MigratedOnce' /\ Locked' /\ Pending' /\ Upgraded'
  <2>1. /\ schema' = schema /\ lock' = None
        /\ \A s \in Replicas \ {r} : pending'[s] = pending[s] /\ failed'[s] = failed[s]
                                     /\ pc'[s] = pc[s]
        /\ pc[r] = "unlock" /\ ~failed'[r]
        /\ pc'[r] = "close" \/ (pc'[r] = "version" /\ ~failed[r])
    BY DEF Inv, Steps, Shaped, Unlocked, Leaves, UpFailed
  <2>2. lock = r /\ \A s \in Replicas \ {r} : pc[s] \notin {"migrate", "unlock"}
    BY <2>1 DEF Inv, Locked
  <2> QED
    BY <2>1, <2>2 DEF Inv, MigratedOnce, Locked, Pending, Upgraded
<1>5. Timing'
  <2>1. CASE Leaves(r, "close")
    BY <2>1, LeavesTiming DEF Inv
  <2>2. CASE Goes(r, "version") /\ Until(r, total[r]) /\ spent' = spent /\ total' = total
    <3>1. /\ pc'[r] = "version" /\ due'[r] = total[r]
          /\ \A s \in Replicas \ {r} : pc'[s] = pc[s] /\ due'[s] = due[s]
      BY <2>2 DEF Inv, Steps, Clocks
    <3>2. total[r] <= StartPeriod
      <4>1. total[r] \in Nat /\ total[r] <= ConnectBudget + TotalBudget
        BY DEF Inv, Clocks, Timing
      <4> QED
        BY <4>1, LifecycleAssumption
    <3> QED
      BY <2>2, <3>1, <3>2 DEF Inv, Timing
  <2> QED
    BY <2>1, <2>2 DEF Unlocked
<1>6. Using'
  BY DEF Inv, Steps, Users, Shaped, Using, Unlocked, Leaves, UpFailed, Timed
<1> QED
  BY <1>1, <1>2, <1>3, <1>4, <1>5, <1>6 DEF Inv

LEMMA VersionReadOK == ASSUME Inv, NEW r \in Replicas, VersionRead(r) PROVE Inv'
<1> USE DEF database, clock, work, Goes, Until
<1>1. Steps'
  BY LifecycleAssumption DEF Inv, Steps, VersionRead, Leaves, Timed, Stopping
<1>2. Clocks'
  BY LifecycleAssumption DEF Inv, Clocks, VersionRead, Leaves
<1>3. Users' /\ Shaped'
  BY DEF Inv, Users, Shaped, VersionRead, Leaves
<1>4. MigratedOnce' /\ Locked' /\ Pending' /\ Upgraded'
  BY LifecycleAssumption DEF Inv, Steps, Shaped, MigratedOnce, Locked, Pending, Upgraded, VersionRead, Leaves, Timed
<1>5. Timing'
  BY LeavesTiming DEF Inv, VersionRead
<1>6. Using'
  BY DEF Inv, Steps, Users, Shaped, Using, VersionRead, Leaves, Timed
<1> QED
  BY <1>1, <1>2, <1>3, <1>4, <1>5, <1>6 DEF Inv

LEMMA StepFailsOK == ASSUME Inv, NEW r \in Replicas, StepFails(r) PROVE Inv'
<1> USE DEF database, clock, work, Goes, Until
<1>1. Steps'
  BY LifecycleAssumption DEF Inv, Steps, StepFails, Leaves, Timed, Stopping
<1>2. Clocks'
  BY LifecycleAssumption DEF Inv, Clocks, StepFails, Leaves
<1>3. Users' /\ Shaped'
  BY DEF Inv, Users, Shaped, StepFails, Leaves
<1>4. MigratedOnce' /\ Locked' /\ Pending' /\ Upgraded'
  BY LifecycleAssumption DEF Inv, Steps, Shaped, MigratedOnce, Locked, Pending, Upgraded, StepFails, Leaves, Timed
<1>5. Timing'
  BY LeavesTiming DEF Inv, StepFails
<1>6. Using'
  BY DEF Inv, Steps, Users, Shaped, Using, StepFails, Leaves, Timed
<1> QED
  BY <1>1, <1>2, <1>3, <1>4, <1>5, <1>6 DEF Inv

\* ... the way from startup to serving and back, ...
LEMMA GoogleAnswersOK == ASSUME Inv, NEW r \in Replicas, GoogleAnswers(r) PROVE Inv'
<1> USE DEF database, clock, work, Goes, Until
<1>1. Steps'
  BY LifecycleAssumption DEF Inv, Steps, GoogleAnswers, Timed, Stopping
<1>2. Clocks'
  BY LifecycleAssumption DEF Inv, Clocks, GoogleAnswers
<1>3. Users' /\ Shaped'
  BY DEF Inv, Users, Shaped, GoogleAnswers
<1>4. MigratedOnce' /\ Locked' /\ Pending' /\ Upgraded'
  BY LifecycleAssumption DEF Inv, Steps, Shaped, MigratedOnce, Locked, Pending, Upgraded, GoogleAnswers, Timed
<1>5. Timing'
  BY LifecycleAssumption DEF Inv, Steps, Clocks, Timing, GoogleAnswers, Timed
<1>6. Using'
  <2>1. /\ pc[r] = "google" /\ pool' = pool /\ req' = req /\ cut' = cut
        /\ \A s \in Replicas \ {r} : pc'[s] = pc[s] /\ job'[s] = job[s]
        /\ \/ pc'[r] = "bind"
           \/ pc'[r] = "close" /\ job'[r] = job[r]
    BY DEF Inv, Steps, Users, GoogleAnswers
  <2> QED
    BY <2>1 DEF Inv, Using
<1> QED
  BY <1>1, <1>2, <1>3, <1>4, <1>5, <1>6 DEF Inv

LEMMA BindOK == ASSUME Inv, NEW r \in Replicas, Bind(r) PROVE Inv'
<1> USE DEF database, clock, work, Goes, Until
<1>1. Steps'
  BY LifecycleAssumption DEF Inv, Steps, Bind, Timed, Stopping
<1>2. Clocks'
  BY LifecycleAssumption DEF Inv, Clocks, Bind
<1>3. Users' /\ Shaped'
  BY DEF Inv, Users, Shaped, Bind
<1>4. MigratedOnce' /\ Locked' /\ Pending' /\ Upgraded'
  BY LifecycleAssumption DEF Inv, Steps, Shaped, MigratedOnce, Locked, Pending, Upgraded, Bind, Timed
<1>5. Timing'
  BY LifecycleAssumption DEF Inv, Steps, Clocks, Timing, Bind, Timed
<1>6. Using'
  BY DEF Inv, Steps, Users, Shaped, Using, Bind, Timed
<1> QED
  BY <1>1, <1>2, <1>3, <1>4, <1>5, <1>6 DEF Inv

LEMMA ServeFailsOK == ASSUME Inv, NEW r \in Replicas, ServeFails(r) PROVE Inv'
<1> USE DEF database, clock, work, Goes, Until
<1>1. Steps'
  BY LifecycleAssumption DEF Inv, Steps, ServeFails, Timed, Stopping
<1>2. Clocks'
  BY LifecycleAssumption DEF Inv, Clocks, ServeFails
<1>3. Users' /\ Shaped'
  BY DEF Inv, Users, Shaped, ServeFails
<1>4. MigratedOnce' /\ Locked' /\ Pending' /\ Upgraded'
  BY LifecycleAssumption DEF Inv, Steps, Shaped, MigratedOnce, Locked, Pending, Upgraded, ServeFails, Timed
<1>5. Timing'
  BY LifecycleAssumption DEF Inv, Steps, Clocks, Timing, ServeFails, Timed
<1>6. Using'
  BY DEF Inv, Steps, Users, Shaped, Using, ServeFails, Timed
<1> QED
  BY <1>1, <1>2, <1>3, <1>4, <1>5, <1>6 DEF Inv

LEMMA ShutdownOK == ASSUME Inv, NEW r \in Replicas, Shutdown(r) PROVE Inv'
<1> USE DEF database, clock, work, Goes, Until
<1>1. Steps'
  BY LifecycleAssumption DEF Inv, Steps, Shutdown, Timed, Stopping
<1>2. Clocks'
  BY LifecycleAssumption DEF Inv, Clocks, Shutdown
<1>3. Users' /\ Shaped'
  BY DEF Inv, Users, Shaped, Shutdown
<1>4. MigratedOnce' /\ Locked' /\ Pending' /\ Upgraded'
  BY LifecycleAssumption DEF Inv, Steps, Shaped, MigratedOnce, Locked, Pending, Upgraded, Shutdown, Timed
<1>5. Timing'
  BY LifecycleAssumption DEF Inv, Steps, Clocks, Timing, Shutdown, Timed
<1>6. Using'
  BY DEF Inv, Steps, Users, Shaped, Using, Shutdown, Timed
<1> QED
  BY <1>1, <1>2, <1>3, <1>4, <1>5, <1>6 DEF Inv

\* ... the deferred calls of run, last first, ...
LEMMA DrainedOK == ASSUME Inv, NEW r \in Replicas, Drained(r) PROVE Inv'
<1> USE DEF database, clock, work, Goes, Until
<1>1. Steps'
  BY LifecycleAssumption DEF Inv, Steps, Drained, Quiet, Timed, Stopping
<1>2. Clocks'
  BY LifecycleAssumption DEF Inv, Clocks, Drained, Quiet
<1>3. Users' /\ Shaped'
  BY DEF Inv, Users, Shaped, Drained, Quiet
<1>4. MigratedOnce' /\ Locked' /\ Pending' /\ Upgraded'
  BY LifecycleAssumption DEF Inv, Steps, Shaped, MigratedOnce, Locked, Pending, Upgraded, Drained, Quiet, Timed
<1>5. Timing'
  BY LifecycleAssumption DEF Inv, Steps, Clocks, Timing, Drained, Quiet, Timed
<1>6. Using'
  BY DEF Inv, Steps, Users, Shaped, Using, Drained, Quiet, Timed
<1> QED
  BY <1>1, <1>2, <1>3, <1>4, <1>5, <1>6 DEF Inv

LEMMA MetricsStoppedOK == ASSUME Inv, NEW r \in Replicas, MetricsStopped(r) PROVE Inv'
<1> USE DEF database, clock, work, Goes, Until
<1>1. Steps'
  BY LifecycleAssumption DEF Inv, Steps, MetricsStopped, Timed, Stopping
<1>2. Clocks'
  BY LifecycleAssumption DEF Inv, Clocks, MetricsStopped
<1>3. Users' /\ Shaped'
  BY DEF Inv, Users, Shaped, MetricsStopped
<1>4. MigratedOnce' /\ Locked' /\ Pending' /\ Upgraded'
  BY LifecycleAssumption DEF Inv, Steps, Shaped, MigratedOnce, Locked, Pending, Upgraded, MetricsStopped, Timed
<1>5. Timing'
  BY LifecycleAssumption DEF Inv, Steps, Clocks, Timing, MetricsStopped, Timed
<1>6. Using'
  BY DEF Inv, Steps, Users, Shaped, Using, MetricsStopped, Timed
<1> QED
  BY <1>1, <1>2, <1>3, <1>4, <1>5, <1>6 DEF Inv

LEMMA JobStoppedOK == ASSUME Inv, NEW r \in Replicas, JobStopped(r) PROVE Inv'
<1> USE DEF database, clock, work, Goes, Until
<1>1. Steps'
  BY LifecycleAssumption DEF Inv, Steps, JobStopped, JobGone, Timed, Stopping
<1>2. Clocks'
  BY LifecycleAssumption DEF Inv, Clocks, JobStopped, JobGone
<1>3. Users' /\ Shaped'
  BY DEF Inv, Users, Shaped, JobStopped, JobGone
<1>4. MigratedOnce' /\ Locked' /\ Pending' /\ Upgraded'
  BY LifecycleAssumption DEF Inv, Steps, Shaped, MigratedOnce, Locked, Pending, Upgraded, JobStopped, JobGone, Timed
<1>5. Timing'
  BY LifecycleAssumption DEF Inv, Steps, Clocks, Timing, JobStopped, JobGone, Timed
<1>6. Using'
  BY DEF Inv, Steps, Users, Shaped, Using, JobStopped, JobGone, Timed
<1> QED
  BY <1>1, <1>2, <1>3, <1>4, <1>5, <1>6 DEF Inv

LEMMA CloseOK == ASSUME Inv, NEW r \in Replicas, Close(r) PROVE Inv'
<1> USE DEF database, clock, work, Goes, Until
<1>1. Steps'
  BY LifecycleAssumption DEF Inv, Steps, Close, Timed, Stopping
<1>2. Clocks'
  BY LifecycleAssumption DEF Inv, Clocks, Close
<1>3. Users' /\ Shaped'
  BY DEF Inv, Users, Shaped, Close
<1>4. MigratedOnce' /\ Locked' /\ Pending' /\ Upgraded'
  BY LifecycleAssumption DEF Inv, Steps, Shaped, MigratedOnce, Locked, Pending, Upgraded, Close, Timed
<1>5. Timing'
  BY LifecycleAssumption DEF Inv, Steps, Clocks, Timing, Close, Timed
<1>6. Using'
  BY DEF Inv, Steps, Users, Shaped, Using, Close, Timed
<1> QED
  BY <1>1, <1>2, <1>3, <1>4, <1>5, <1>6 DEF Inv

LEMMA ExitOK == ASSUME Inv, NEW r \in Replicas, Exit(r) PROVE Inv'
<1> USE DEF database, clock, work, Goes, Until
<1>1. Steps'
  BY LifecycleAssumption DEF Inv, Steps, Exit, Gone, Leaves, Timed, Stopping
<1>2. Clocks'
  BY LifecycleAssumption DEF Inv, Clocks, Exit, Gone, Leaves
<1>3. Users' /\ Shaped'
  BY DEF Inv, Users, Shaped, Exit, Gone, Leaves
<1>4. MigratedOnce' /\ Locked' /\ Pending' /\ Upgraded'
  <2>1. MigratedOnce' /\ Locked'
    BY DEF Inv, Steps, Shaped, MigratedOnce, Locked, Exit, Gone, Leaves, Timed
  <2>2. Pending'
    BY DEF Inv, Steps, Shaped, Pending, Exit, Gone, Leaves, Timed
  <2>3. Upgraded'
    BY LifecycleAssumption DEF Inv, Steps, Shaped, Upgraded, Exit, Gone, Leaves, Timed
  <2> QED
    BY <2>1, <2>2, <2>3
<1>5. Timing'
  <2>1. /\ pc'[r] = "exit" /\ spent'[r] = 0 /\ due'[r] = 0 /\ total'[r] = 0
        /\ \A u \in Replicas : u # r => /\ pc'[u] = pc[u] /\ spent'[u] = spent[u]
                                        /\ due'[u] = due[u] /\ total'[u] = total[u]
    BY DEF Inv, Steps, Clocks, Exit, Gone, Leaves
  <2> QED
    BY <2>1, LifecycleAssumption DEF Inv, Timing, Timed
<1>6. Using'
  BY DEF Inv, Steps, Users, Shaped, Using, Exit, Gone, Leaves, Timed
<1> QED
  BY <1>1, <1>2, <1>3, <1>4, <1>5, <1>6 DEF Inv

LEMMA KillOK == ASSUME Inv, NEW r \in Replicas, Kill(r) PROVE Inv'
<1> USE DEF database, clock, work, Goes, Until
<1>1. Steps'
  BY LifecycleAssumption DEF Inv, Steps, Kill, Gone, Leaves, Timed, Stopping
<1>2. Clocks'
  BY LifecycleAssumption DEF Inv, Clocks, Kill, Gone, Leaves
<1>3. Users' /\ Shaped'
  BY DEF Inv, Users, Shaped, Kill, Gone, Leaves
<1>4. MigratedOnce' /\ Locked' /\ Pending' /\ Upgraded'
  <2>1. MigratedOnce' /\ Locked'
    BY DEF Inv, Steps, Shaped, MigratedOnce, Locked, Kill, Gone, Leaves, Timed
  <2>2. Pending'
    BY DEF Inv, Steps, Shaped, Pending, Kill, Gone, Leaves, Timed
  <2>3. Upgraded'
    BY LifecycleAssumption DEF Inv, Steps, Shaped, Upgraded, Kill, Gone, Leaves, Timed
  <2> QED
    BY <2>1, <2>2, <2>3
<1>5. Timing'
  <2>1. /\ pc'[r] = "exit" /\ spent'[r] = 0 /\ due'[r] = 0 /\ total'[r] = 0
        /\ \A u \in Replicas : u # r => /\ pc'[u] = pc[u] /\ spent'[u] = spent[u]
                                        /\ due'[u] = due[u] /\ total'[u] = total[u]
    BY DEF Inv, Steps, Clocks, Kill, Gone, Leaves
  <2> QED
    BY <2>1, LifecycleAssumption DEF Inv, Timing, Timed
<1>6. Using'
  BY DEF Inv, Steps, Users, Shaped, Using, Kill, Gone, Leaves, Timed
<1> QED
  BY <1>1, <1>2, <1>3, <1>4, <1>5, <1>6 DEF Inv

\* ... signals and the cleanup goroutine, ...
LEMMA SigTermOK == ASSUME Inv, NEW r \in Replicas, SigTerm(r) PROVE Inv'
<1> USE DEF database, clock, work, Goes, Until
<1>1. Steps'
  BY LifecycleAssumption DEF Inv, Steps, SigTerm, Timed, Stopping
<1>2. Clocks'
  BY LifecycleAssumption DEF Inv, Clocks, SigTerm
<1>3. Users' /\ Shaped'
  BY DEF Inv, Users, Shaped, SigTerm
<1>4. MigratedOnce' /\ Locked' /\ Pending' /\ Upgraded'
  BY LifecycleAssumption DEF Inv, Steps, Shaped, MigratedOnce, Locked, Pending, Upgraded, SigTerm, Timed
<1>5. Timing'
  BY LifecycleAssumption DEF Inv, Steps, Clocks, Timing, SigTerm, Timed
<1>6. Using'
  BY DEF Inv, Steps, Users, Shaped, Using, SigTerm, Timed
<1> QED
  BY <1>1, <1>2, <1>3, <1>4, <1>5, <1>6 DEF Inv

LEMMA JobStartsOK == ASSUME Inv, NEW r \in Replicas, JobStarts(r) PROVE Inv'
<1> USE DEF database, clock, work, Goes, Until
<1>1. Steps'
  BY LifecycleAssumption DEF Inv, Steps, JobStarts, JobIs, Timed, Stopping
<1>2. Clocks'
  BY LifecycleAssumption DEF Inv, Clocks, JobStarts, JobIs
<1>3. Users' /\ Shaped'
  BY DEF Inv, Users, Shaped, JobStarts, JobIs
<1>4. MigratedOnce' /\ Locked' /\ Pending' /\ Upgraded'
  BY LifecycleAssumption DEF Inv, Steps, Shaped, MigratedOnce, Locked, Pending, Upgraded, JobStarts, JobIs, Timed
<1>5. Timing'
  BY LifecycleAssumption DEF Inv, Steps, Clocks, Timing, JobStarts, JobIs, Timed
<1>6. Using'
  BY DEF Inv, Steps, Users, Shaped, Using, JobStarts, JobIs, Timed
<1> QED
  BY <1>1, <1>2, <1>3, <1>4, <1>5, <1>6 DEF Inv

LEMMA JobEndsOK == ASSUME Inv, NEW r \in Replicas, JobEnds(r) PROVE Inv'
<1> USE DEF database, clock, work, Goes, Until
<1>1. Steps'
  BY LifecycleAssumption DEF Inv, Steps, JobEnds, JobIs, Timed, Stopping
<1>2. Clocks'
  BY LifecycleAssumption DEF Inv, Clocks, JobEnds, JobIs
<1>3. Users' /\ Shaped'
  BY DEF Inv, Users, Shaped, JobEnds, JobIs
<1>4. MigratedOnce' /\ Locked' /\ Pending' /\ Upgraded'
  BY LifecycleAssumption DEF Inv, Steps, Shaped, MigratedOnce, Locked, Pending, Upgraded, JobEnds, JobIs, Timed
<1>5. Timing'
  BY LifecycleAssumption DEF Inv, Steps, Clocks, Timing, JobEnds, JobIs, Timed
<1>6. Using'
  BY DEF Inv, Steps, Users, Shaped, Using, JobEnds, JobIs, Timed
<1> QED
  BY <1>1, <1>2, <1>3, <1>4, <1>5, <1>6 DEF Inv

LEMMA JobStopsOK == ASSUME Inv, NEW r \in Replicas, JobStops(r) PROVE Inv'
<1> USE DEF database, clock, work, Goes, Until
<1>1. Steps'
  BY LifecycleAssumption DEF Inv, Steps, JobStops, JobIs, StopScheduler, Timed, Stopping
<1>2. Clocks'
  BY LifecycleAssumption DEF Inv, Clocks, JobStops, JobIs, StopScheduler
<1>3. Users' /\ Shaped'
  BY DEF Inv, Users, Shaped, JobStops, JobIs, StopScheduler
<1>4. MigratedOnce' /\ Locked' /\ Pending' /\ Upgraded'
  BY LifecycleAssumption DEF Inv, Steps, Shaped, MigratedOnce, Locked, Pending, Upgraded, JobStops, JobIs, StopScheduler, Timed
<1>5. Timing'
  BY LifecycleAssumption DEF Inv, Steps, Clocks, Timing, JobStops, JobIs, StopScheduler, Timed
<1>6. Using'
  BY DEF Inv, Steps, Users, Shaped, Using, JobStops, JobIs, StopScheduler, Timed
<1> QED
  BY <1>1, <1>2, <1>3, <1>4, <1>5, <1>6 DEF Inv

\* ... a migration, recorded in order by the one replica that holds the lock,
\* ...
LEMMA ApplyMigrationOK ==
  ASSUME Inv, NEW r \in Replicas, NEW v \in 1..Files[r], ApplyMigration(r, v) PROVE Inv'
<1> USE DEF database, clock, work
<1>1. /\ v \in Nat /\ pc[r] = "migrate" /\ IsNext(r, v) /\ schema' = Append(schema, v)
      /\ pending' = [pending EXCEPT ![r] = @ \ {v}]
      /\ UNCHANGED <<lock, pc, failed, clock, asked, pool, work, cut>>
  BY LifecycleAssumption DEF ApplyMigration
<1>2. v = Len(schema) + 1
  BY <1>1, NextIs DEF Inv, Steps, Pending
<1>3. schema' \in Seq(Nat) /\ MigratedOnce' /\ Len(schema') = Len(schema) + 1
  BY <1>1, <1>2, AppendOK DEF Inv, Steps
<1>4. \A s \in Replicas \ {r} : pc[s] # "migrate" /\ pending'[s] = pending[s]
  BY <1>1 DEF Inv, Locked, Shaped
<1>5. pending'[r] = pending[r] \ {v}
  BY <1>1 DEF Inv, Shaped
<1>6. Steps' /\ Clocks' /\ Users' /\ Shaped'
  BY <1>1, <1>3, <1>4, <1>5 DEF Inv, Steps, Clocks, Users, Shaped
<1>7. Pending'
  <2>1. pending'[r] = {w \in 1..Files[r] : w > Len(schema')}
    <3>1. Len(schema) \in Nat /\ Files[r] \in Nat
      BY LifecycleAssumption DEF Inv, Steps
    <3>2. pending[r] = {w \in 1..Files[r] : w > Len(schema)}
      BY <1>1 DEF Inv, Pending
    <3> QED
      BY <1>2, <1>3, <1>5, <3>1, <3>2
  <2> QED
    BY <1>1, <1>4, <2>1 DEF Pending
<1>8. Upgraded'
  <2>1. \A s \in Replicas : Files[s] \in Nat /\ Len(schema) \in Nat
    BY LifecycleAssumption DEF Inv, Steps
  <2> QED
    BY <1>1, <1>3, <2>1 DEF Inv, Upgraded
<1>9. Locked' /\ Timing' /\ Using'
  BY <1>1 DEF Inv, Locked, Timing, Using
<1> QED
  BY <1>3, <1>6, <1>7, <1>8, <1>9 DEF Inv

\* The migration that failed is recorded if only its answer was lost.
LEMMA MigrationFailsOK == ASSUME Inv, NEW r \in Replicas, MigrationFails(r) PROVE Inv'
<1> USE DEF database, clock, work
<1>1. /\ pc[r] = "migrate" /\ pc' = [pc EXCEPT ![r] = "unlock"]
      /\ due' = [due EXCEPT ![r] = spent[r] + UnlockBudget]
      /\ failed' = [failed EXCEPT ![r] = TRUE]
      /\ UNCHANGED <<lock, pending, spent, total, asked, pool, work, cut>>
  BY DEF MigrationFails, Unlocking, UnlockLimit, Goes, Until
<1>2. /\ pc'[r] = "unlock" /\ due'[r] = spent[r] + UnlockBudget /\ failed'[r] = TRUE
      /\ \A s \in Replicas \ {r} : pc'[s] = pc[s] /\ due'[s] = due[s] /\ failed'[s] = failed[s]
  BY <1>1 DEF Inv, Steps, Clocks
<1>3. schema' \in Seq(Nat) /\ MigratedOnce' /\ Len(schema') >= Len(schema)
  <2>1. CASE schema' = schema
    BY <2>1 DEF Inv, Steps, MigratedOnce
  <2>2. CASE \E v \in pending[r] : IsNext(r, v) /\ schema' = Append(schema, v)
    <3>1. PICK v \in pending[r] : IsNext(r, v) /\ schema' = Append(schema, v)
      BY <2>2
    <3>2. v \in Nat
      BY <3>1, LifecycleAssumption DEF Inv, Steps
    <3>3. v = Len(schema) + 1
      BY <1>1, <3>1, <3>2, NextIs DEF Inv, Steps, Pending
    <3>4. Len(schema) \in Nat
      BY DEF Inv, Steps
    <3> QED
      BY <3>1, <3>3, <3>4, AppendOK DEF Inv, Steps
  <2> QED
    BY <2>1, <2>2 DEF MigrationFails
<1>4. \A s \in Replicas \ {r} : pc[s] # "migrate"
  BY <1>1 DEF Inv, Locked
<1>5. spent[r] \in Nat /\ spent[r] <= ConnectBudget + TotalBudget
  <2>1. spent[r] \in Nat /\ total[r] \in Nat /\ spent[r] <= total[r]
        /\ total[r] <= ConnectBudget + TotalBudget
    BY <1>1 DEF Inv, Clocks, Timing
  <2> QED
    BY <2>1, LifecycleAssumption
<1>6. due'[r] \in Nat /\ due'[r] <= StartPeriod
  BY <1>2, <1>5, LifecycleAssumption
<1>7. Steps' /\ Users' /\ Shaped'
  BY <1>1, <1>3 DEF Inv, Steps, Users, Shaped, Timed
<1>8. Clocks'
  BY <1>1, <1>2, <1>6 DEF Inv, Clocks
<1>9. Pending' /\ Locked'
  BY <1>1, <1>2, <1>4 DEF Inv, Pending, Locked
<1>10. Upgraded'
  <2>1. \A s \in Replicas : Files[s] \in Nat /\ Len(schema) \in Nat /\ Len(schema') \in Nat
    BY <1>3, LifecycleAssumption DEF Inv, Steps
  <2> QED
    BY <1>2, <1>3, <2>1 DEF Inv, Upgraded
<1>11. Timing'
  BY <1>1, <1>2, <1>6 DEF Inv, Timing
<1>12. Using'
  BY <1>1, <1>2 DEF Inv, Using
<1> QED
  BY <1>3, <1>7, <1>8, <1>9, <1>10, <1>11, <1>12 DEF Inv

\* ... and a request, which is accepted and answered while the pool is open.
LEMMA HandleOK ==
  ASSUME Inv, NEW r \in Replicas, NEW q \in Requests[r],
         Arrive(r, q) \/ Query(r, q) \/ QueryEnds(r, q) \/ Answer(r, q)
  PROVE  Inv'
<1> USE DEF database, clock, work
<1>1. PICK x \in {"none", "running", "querying"} :
        /\ req' = [req EXCEPT ![r][q] = x]
        /\ pc[r] \in {"serve", "drain"} \/ req[r][q] # "none"
        /\ UNCHANGED <<database, pc, pending, failed, clock, asked, pool, job, cut>>
  BY DEF Arrive, Query, QueryEnds, Answer, ReqIs
<1>2. req'[r] = [req[r] EXCEPT ![q] = x] /\ \A s \in Replicas \ {r} : req'[s] = req[s]
  BY <1>1 DEF Inv, Shaped
<1>3. Steps' /\ Clocks' /\ MigratedOnce' /\ Locked' /\ Pending' /\ Upgraded' /\ Timing'
  BY <1>1 DEF Inv, Steps, Clocks, MigratedOnce, Locked, Pending, Upgraded, Timing
<1>4. Users' /\ Shaped'
  BY <1>1, <1>2 DEF Inv, Users, Shaped
<1>5. Using'
  BY <1>1, <1>2 DEF Inv, Using
<1> QED
  BY <1>3, <1>4, <1>5 DEF Inv

\* Time passes no deadline.
LEMMA TickOK == ASSUME Inv, Tick PROVE Inv'
<1> USE DEF database, work
<1>1. /\ spent' = [r \in Replicas |-> IF pc[r] \in Timed THEN spent[r] + 1 ELSE spent[r]]
      /\ UNCHANGED <<database, pc, pending, failed, due, total, asked, pool, work, cut>>
      /\ \A r \in Replicas : pc[r] \in Timed => ~(spent[r] >= due[r])
  BY DEF Tick, TimeUp
<1>2. Steps' /\ Users' /\ Shaped' /\ MigratedOnce' /\ Locked' /\ Pending' /\ Upgraded' /\ Using'
  BY <1>1 DEF Inv, Steps, Users, Shaped, MigratedOnce, Locked, Pending, Upgraded, Using
<1>3. Clocks'
  BY <1>1 DEF Inv, Clocks
<1>4. Timing'
  <2>1. ASSUME NEW r \in Replicas
        PROVE  /\ pc[r] \in Timed => spent'[r] <= due[r]
               /\ pc[r] \notin Timed => spent'[r] = spent[r]
    BY <1>1, <2>1 DEF Inv, Clocks
  <2>2. \A r \in Replicas : spent'[r] \in Nat /\ due[r] \in Nat /\ due[r] <= StartPeriod
    BY <1>3 DEF Inv, Clocks, Timing
  <2>3. \A r \in Replicas : spent'[r] <= StartPeriod
    BY <2>1, <2>2, LifecycleAssumption DEF Inv, Timing
  <2> QED
    BY <1>1, <2>1, <2>3 DEF Inv, Timing, Timed
<1> QED
  BY <1>2, <1>3, <1>4 DEF Inv

\* Every step keeps the invariant.
LEMMA NextOK == Inv /\ [Next]_vars => Inv'
<1> SUFFICES ASSUME Inv, [Next]_vars PROVE Inv'
  OBVIOUS
<1>1. ASSUME NEW r \in Replicas, Startup(r) PROVE Inv'
  BY <1>1, ConnectedOK, LockTakenOK, AllAppliedOK, UnlockedOK, VersionReadOK, ApplyMigrationOK,
     MigrationFailsOK, StepFailsOK DEF Startup
<1>2. ASSUME NEW r \in Replicas, Run(r) PROVE Inv'
  BY <1>2, GoogleAnswersOK, BindOK, ShutdownOK, DrainedOK, MetricsStoppedOK, JobStoppedOK,
     CloseOK, ExitOK DEF Run
<1>3. ASSUME NEW r \in Replicas,
             \/ Start(r) \/ ServeFails(r) \/ Kill(r) \/ SigTerm(r)
             \/ JobStarts(r) \/ JobEnds(r) \/ JobStops(r)
      PROVE  Inv'
  BY <1>3, StartOK, ServeFailsOK, KillOK, SigTermOK, JobStartsOK, JobEndsOK, JobStopsOK
<1>4. ASSUME NEW r \in Replicas, NEW q \in Requests[r], Arrive(r, q) \/ Handle(r, q)
      PROVE  Inv'
  BY <1>4, HandleOK DEF Handle
<1>5. CASE UNCHANGED vars
  BY <1>5 DEF vars, Inv, Steps, Clocks, Users, Shaped, MigratedOnce, Locked, Pending, Upgraded,
              Timing, Using
<1> QED
  BY <1>1, <1>2, <1>3, <1>4, <1>5, TickOK DEF Next

\* The invariant holds in every reachable state.
LEMMA Invariant == Spec => []Inv
<1>1. Init => Inv
  BY InitOK
<1>2. Inv /\ [Next]_vars => Inv'
  BY NextOK
<1> QED
  BY <1>1, <1>2, PTL DEF Spec

-----------------------------------------------------------------------------
(* Theorems *)

\* The variables keep their types.
THEOREM TypeCorrect == Spec => []TypeOK
<1>1. Inv => TypeOK
  BY DEF Inv, Steps, Clocks, Users, TypeOK
<1> QED
  BY <1>1, Invariant, PTL

\* Replicas of any age that start together apply each migration once and in
\* order (migrate.go:50-56).
THEOREM MigratedCorrect == Spec => []MigratedOnce
<1>1. Inv => MigratedOnce
  BY DEF Inv
<1> QED
  BY <1>1, Invariant, PTL

\* A replica serves only on a schema that has all of its migrations.
THEOREM ServesCorrect == Spec => []ServesMigrated
<1>1. Inv => ServesMigrated
  <2> SUFFICES ASSUME Inv, NEW r \in Replicas, pc[r] \in {"google", "bind", "serve", "drain"}
               PROVE  1..Files[r] \subseteq Recorded
    BY DEF ServesMigrated
  <2>1. Recorded = 1..Len(schema)
    BY RecordedIs DEF Inv, Steps
  <2>2. Files[r] <= Len(schema)
    BY DEF Inv, Upgraded
  <2>3. Files[r] \in Nat /\ Len(schema) \in Nat
    BY LifecycleAssumption DEF Inv, Steps
  <2> QED
    BY <2>1, <2>2, <2>3
<1> QED
  BY <1>1, Invariant, PTL

\* Startup ends within the healthcheck's start period for all budgets that
\* leave room for one another (timeouts.go:9-30).
THEOREM PeriodCorrect == Spec => []WithinStartPeriod
<1>1. Inv => WithinStartPeriod
  BY DEF Inv, Timing, WithinStartPeriod
<1> QED
  BY <1>1, Invariant, PTL

\* The cleanup job never runs on a closed store (main.go:103-107).
THEOREM JobCorrect == Spec => []JobHasPool
<1>1. Inv => JobHasPool
  BY DEF Inv, Using, JobHasPool
<1> QED
  BY <1>1, Invariant, PTL

\* A process that ends with requests it did not answer was killed, failed to
\* serve, or ran out of its grace (main.go:135-150).
THEOREM AnsweredCorrect == Spec => AnsweredFirst
<1>1. Inv /\ [Next]_vars => [\A r \in Replicas :
          pc[r] # "exit" /\ pc'[r] = "exit" /\ (\E q \in Requests[r] : req[r][q] # "none")
          => cut'[r]]_vars
  <2> SUFFICES ASSUME Inv, Next, NEW r \in Replicas, pc[r] # "exit", pc'[r] = "exit",
                      NEW q \in Requests[r], req[r][q] # "none"
               PROVE  cut'[r]
    OBVIOUS
  <2>0. pc \in [Replicas -> {"off", "google", "bind", "serve", "exit"} \cup Timed \cup Stopping]
        /\ cut \in [Replicas -> BOOLEAN]
    BY DEF Inv, Steps, Users
  <2>1. Exit(r) \/ Kill(r)
    <3>1. \E s \in Replicas : Exit(s) \/ Kill(s)
      BY <2>0 DEF Next, Start, Startup, Run, ServeFails, SigTerm, JobStarts, JobEnds, JobStops, JobIs,
             Arrive, Handle, Query, QueryEnds, Answer, ReqIs, Tick, Connected, LockTaken,
             AllApplied, Unlocked, VersionRead, ApplyMigration, MigrationFails, StepFails,
             GoogleAnswers, Bind, Shutdown, Drained, MetricsStopped, JobStopped, Close,
             Goes, Leaves, Unlocking
    <3> QED
      BY <2>0, <3>1 DEF Exit, Kill, Gone, Leaves, Goes
  <2>2. CASE Exit(r)
    <3>1. pc[r] = "closing" /\ cut' = cut
      BY <2>2 DEF Exit
    <3> QED
      BY <2>0, <3>1 DEF Inv, Using
  <2>3. CASE Kill(r)
    BY <2>0, <2>3 DEF Kill
  <2> QED
    BY <2>1, <2>2, <2>3
<1> QED
  BY <1>1, Invariant, PTL DEF Spec, AnsweredFirst
=============================================================================
