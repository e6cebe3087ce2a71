------------------------------ MODULE ConsoleProofs ------------------------------
(*****************************************************************************)
(* Theorems about Executor and Advisor, for any number of jobs, analyses and *)
(* limits.  Both services let one worker thread through at a time, so almost *)
(* everything is said of one key: where its worker is tells what is on       *)
(* record, what was started and whether a process may still run.             *)
(*****************************************************************************)
EXTENDS Advisor, FiniteSetTheorems, TLAPS

\* The worker of k has not left yet.
Busy(k) == worker[k] \in Points \ {"none", "done"}

OneWorker == /\ \A k \in Keys : Busy(k) => active
             /\ \A k, l \in Keys : Busy(k) /\ Busy(l) => k = l

OneProcess == \A k, l \in running : k = l

\* What was started for k.
Started(k) ==
  /\ worker[k] \in {"none", "ready", "prepared"} => dispatched[k] = 0
  /\ worker[k] \in {"waiting", "exited"} => dispatched[k] = 1
  /\ dispatched[k] <= 1
  /\ k \in running => \/ worker[k] \in {"waiting", "failing"}
                      \/ worker[k] \in {"leaving", "done"} /\ blocked

\* What is on record of k; shutdown() makes a job UNKNOWN wherever its worker is.
OnRecord(k) ==
  /\ jobs[k].status = "RESERVED" => worker[k] = "ready"
  /\ jobs[k].status = "RUNNING" => worker[k] \in {"prepared", "waiting", "exited", "failing"}
  /\ jobs[k].status \in Unfinished => ~jobs[k].acked
  /\ jobs[k].status = "UNKNOWN" => blocked /\ (jobs[k].acked => jobs[k].disk = "UNKNOWN")
  /\ jobs[k].status = "COMPLETE" => /\ worker[k] \in {"leaving", "done"}
                                    /\ dispatched[k] = 1 /\ k \notin running
                                    /\ jobs[k].disk = "EVIDENCE_CANDIDATE" /\ jobs[k].acked
  /\ jobs[k].disk = "EVIDENCE_CANDIDATE" =>
       jobs[k].status = "COMPLETE" \/ blocked \/ worker[k] = "failing"

KeyInv(k) == /\ worker[k] # "none" => k \in Registered
             /\ Started(k)
             /\ k \in Registered => OnRecord(k)

ExecutorInv == /\ ExecutorTypeOK /\ OneWorker /\ OneProcess
               /\ \A k \in Keys : KeyInv(k)
-------------------------------------------------------------------------------
\* The same of the analyses.
Engaged(r) == analyst[r] \notin {"none", "done"}

AnalysisInv(r) ==
  /\ analyst[r] # "none" => r \in Analyses
  /\ analyst[r] = "reserved" => sends < reserved
  /\ analyst[r] \in {"sent", "validated"} => sends > 0
  /\ r \in Analyses =>
       /\ analyses[r].job \in Registered /\ jobs[analyses[r].job].status = "COMPLETE"
       /\ analyses[r].status = "RUNNING" <=> Engaged(r) /\ analyst[r] # "leaving"
       /\ analyses[r].status = "COMPLETE" => analyses[r].report /\ sends > 0
       /\ analyses[r].status = "FAILED" => held

AdvisorInv == /\ AdvisorTypeOK
              /\ sends <= reserved /\ reserved <= MaxCalls
              /\ IsFiniteSet(Analyses) /\ Cardinality(Analyses) <= MaxAnalyses
              /\ \A r \in Requests : Engaged(r) => busy
              /\ \A r, s \in Requests : Engaged(r) /\ Engaged(s) => r = s
              /\ \A r \in Requests : AnalysisInv(r)

ConsoleInv == ExecutorInv /\ AdvisorInv
-------------------------------------------------------------------------------
\* What HoldIsFinal asks of a step.
HoldStep ==
  /\ blocked => blocked' /\ dispatched' = dispatched
  /\ \A k \in Registered : jobs[k].status \in Final => jobs'[k].status = jobs[k].status
  /\ \A k \in Registered : jobs'[k].status = "COMPLETE" =>
       jobs[k].status = "COMPLETE" \/ ~(blocked \/ k \in late)

\* Jobs are not forgotten.
Remembered == Registered \subseteq Registered'

\* A record of k replaces its last one.
LEMMA Replaced ==
  ASSUME NEW k \in Registered, NEW job, jobs' = [jobs EXCEPT ![k] = job]
  PROVE  /\ Registered' = Registered /\ jobs'[k] = job
         /\ \A l \in Registered : l # k => jobs'[l] = jobs[l]
BY DEF Registered

\* Writing a record, or failing a job, leaves a job.
LEMMA JobRecords ==
  ASSUME NEW job \in Job, NEW write \in Writes,
         NEW record \in Unfinished \cup {"EVIDENCE_CANDIDATE", "UNKNOWN"}
  PROVE  /\ Persisted(job, record, write) \in Job
         /\ Persisted(job, record, write).status = job.status
         /\ Persisted(job, record, write).acked = job.acked
         /\ Persisted(job, record, write).disk \in {job.disk, record}
         /\ Acknowledged(job, write) => Persisted(job, record, write).disk = record
         /\ FailedJob(job, write) \in Job /\ FailedJob(job, write).status = "UNKNOWN"
         /\ FailedJob(job, write).acked => FailedJob(job, write).disk = "UNKNOWN"
<1>1. \A e \in Unfinished \cup {"EVIDENCE_CANDIDATE", "UNKNOWN"} :
        /\ Persisted(job, e, write) \in Job
        /\ Persisted(job, e, write).status = job.status
        /\ Persisted(job, e, write).acked = job.acked
        /\ Persisted(job, e, write).disk \in {job.disk, e}
        /\ Acknowledged(job, write) => Persisted(job, e, write).disk = e
  <2> TAKE e \in Unfinished \cup {"EVIDENCE_CANDIDATE", "UNKNOWN"}
  <2>1. CASE job.taken \/ write = "lost"
    <3>1. Persisted(job, e, write) = job /\ ~Acknowledged(job, write)
      BY <2>1 DEF Persisted, Acknowledged
    <3> QED BY <3>1
  <2>2. CASE ~(job.taken \/ write = "lost")
    <3>1. Persisted(job, e, write) = [job EXCEPT !.disk = e, !.taken = (write = "kept")]
      BY <2>2 DEF Persisted
    <3> QED BY <3>1 DEF Job
  <2> QED BY <2>1, <2>2
<1>2. FailedJob(job, write) = [Persisted(job, "UNKNOWN", write) EXCEPT
                                 !.status = "UNKNOWN", !.acked = Acknowledged(job, write)]
  BY DEF FailedJob
<1> DEFINE p == Persisted(job, "UNKNOWN", write)
<1>3. p \in Job /\ (Acknowledged(job, write) => p.disk = "UNKNOWN")
  BY <1>1
<1>4. Acknowledged(job, write) \in BOOLEAN
  BY DEF Acknowledged, Job
<1> HIDE DEF p
<1>5. /\ FailedJob(job, write) \in Job /\ FailedJob(job, write).status = "UNKNOWN"
      /\ FailedJob(job, write).acked = Acknowledged(job, write)
      /\ FailedJob(job, write).disk = p.disk
  <2>1. FailedJob(job, write) = [p EXCEPT !.status = "UNKNOWN", !.acked = Acknowledged(job, write)]
    BY <1>2 DEF p
  <2> QED BY <1>3, <1>4, <2>1 DEF Job, Final
<1> QED BY <1>1, <1>3, <1>5

\* A step that leaves k alone: a hold may begin meanwhile, and processes end.
LEMMA KeyFrame ==
  ASSUME NEW k \in Keys, KeyInv(k), worker'[k] = worker[k], dispatched'[k] = dispatched[k],
         k \in Registered => k \in Registered', k \in Registered' => k \in Registered,
         k \in Registered => jobs'[k] = jobs[k],
         blocked => blocked', k \in running' => k \in running
  PROVE  KeyInv(k)'
BY DEF KeyInv, Started, OnRecord

\* A step of the only worker, or of submit() when there is none.
LEMMA KeyStep ==
  ASSUME ExecutorInv, NEW k \in Keys, Busy(k) \/ ~active,
         k \in Registered', Registered' = Registered \cup {k}, jobs'[k] \in Job,
         \A l \in Registered : l # k => jobs'[l] = jobs[l],
         NEW point \in Points, worker' = [worker EXCEPT ![k] = point],
         dispatched' \in [Keys -> Nat], \A l \in Keys : l # k => dispatched'[l] = dispatched[l],
         running' \subseteq Keys, \A l \in running' : l # k => l \in running, OneProcess',
         blocked' \in BOOLEAN, blocked => blocked' /\ dispatched' = dispatched,
         active' \in BOOLEAN, point \notin {"none", "done"} => active',
         late' \subseteq Registered', process' \subseteq Keys,
         shutdown' \in [at : {"up", "marked", "ended"}, process : SUBSET Keys], KeyInv(k)',
         k \in Registered => /\ jobs[k].status \in Final => jobs'[k].status = jobs[k].status
                             /\ jobs'[k].status = "COMPLETE" =>
                                  jobs[k].status = "COMPLETE" \/ ~(blocked \/ k \in late)
  PROVE  ExecutorInv' /\ HoldStep /\ Remembered
<1>1. ExecutorTypeOK /\ OneWorker /\ \A l \in Keys : KeyInv(l)
  BY DEF ExecutorInv
<1>2. worker' \in [Keys -> Points] /\ worker'[k] = point /\ \A l \in Keys : l # k => worker'[l] = worker[l]
  BY <1>1 DEF ExecutorTypeOK
<1>3. ExecutorTypeOK'
  <2>1. Registered' \subseteq Keys /\ \A l \in Registered' : jobs'[l] \in Job
    BY <1>1 DEF ExecutorTypeOK
  <2> QED BY <1>1, <1>2, <2>1 DEF ExecutorTypeOK
<1>4. \A l \in Keys : l # k => ~Busy(l)
  BY <1>1 DEF OneWorker
<1>5. OneWorker'
  <2>1. \A l \in Keys : Busy(l)' => l = k
    BY <1>2, <1>4 DEF Busy
  <2>2. Busy(k)' => active'
    BY <1>2 DEF Busy
  <2> QED BY <2>1, <2>2 DEF OneWorker
<1>6. ASSUME NEW l \in Keys, l # k PROVE KeyInv(l)'
  BY <1>1, <1>2, <1>6, KeyFrame
<1>7. HoldStep
  BY DEF HoldStep
<1> QED BY <1>3, <1>5, <1>6, <1>7 DEF ExecutorInv, Remembered

\* A step of no worker: a hold begins, a deadline passes, a process ends.
LEMMA QuietStep ==
  ASSUME ExecutorInv, UNCHANGED <<jobs, active, worker, dispatched>>,
         blocked' \in BOOLEAN, blocked => blocked', running' \subseteq running,
         late' \subseteq Registered, process' \subseteq Keys,
         shutdown' \in [at : {"up", "marked", "ended"}, process : SUBSET Keys]
  PROVE  ExecutorInv' /\ HoldStep /\ Remembered
<1>1. ExecutorTypeOK /\ OneWorker /\ OneProcess /\ \A l \in Keys : KeyInv(l)
  BY DEF ExecutorInv
<1>2. Registered' = Registered
  BY DEF Registered
<1>3. ExecutorTypeOK'
  BY <1>1, <1>2 DEF ExecutorTypeOK
<1>4. OneWorker' /\ OneProcess'
  BY <1>1 DEF OneWorker, OneProcess, Busy
<1>5. \A l \in Keys : KeyInv(l)'
  BY <1>1, <1>2, KeyFrame
<1>6. HoldStep
  <2>1. \A l \in Registered : KeyInv(l)
    BY <1>1 DEF ExecutorTypeOK
  <2> QED BY <2>1 DEF HoldStep
<1> QED BY <1>2, <1>3, <1>4, <1>5, <1>6 DEF ExecutorInv, Remembered

\* What holds of the worker that makes a step.
LEMMA OfWorker ==
  ASSUME ExecutorInv, NEW k \in Keys
  PROVE  /\ ExecutorTypeOK /\ OneProcess /\ KeyInv(k) /\ worker[k] \in Points
         /\ blocked \in BOOLEAN /\ active \in BOOLEAN /\ dispatched \in [Keys -> Nat]
         /\ running \subseteq Keys /\ process \subseteq Keys /\ late \subseteq Registered
         /\ shutdown \in [at : {"up", "marked", "ended"}, process : SUBSET Keys]
         /\ worker[k] # "none" => k \in Registered /\ jobs[k] \in Job /\ OnRecord(k)
         /\ \A passed \in BOOLEAN : Passes(k, passed) /\ k \in Registered' /\ Registered \subseteq Registered'
              => late' \subseteq Registered'
<1>1. ExecutorTypeOK /\ OneProcess /\ KeyInv(k)
  BY DEF ExecutorInv
<1> QED BY <1>1 DEF ExecutorTypeOK, KeyInv, Passes

\* submit(): the job is registered and its thread started, or it is failed at once, or
\* its reservation holds the executor.
LEMMA RegisterStep ==
  ASSUME ExecutorInv, NEW k \in Keys, NEW first \in Writes, NEW write \in Writes,
         NEW passed \in BOOLEAN, NEW starts \in BOOLEAN, Register(k, first, write, passed, starts)
  PROVE  ExecutorInv' /\ HoldStep /\ Remembered
<1>1. /\ k \notin Registered /\ ~blocked /\ ~active
      /\ UNCHANGED <<process, running, dispatched, shutdown>>
  BY DEF Register, IsNew
<1>2. CASE first # "ok"
  <2>1. blocked' = TRUE /\ UNCHANGED <<jobs, active, late, worker>>
    BY <1>2 DEF Register
  <2> QED BY <1>1, <2>1, QuietStep DEF ExecutorInv, ExecutorTypeOK
<1>3. CASE first = "ok"
  <2> DEFINE job == [status |-> "RESERVED", disk |-> "RESERVED", taken |-> FALSE, acked |-> FALSE]
             good == ~passed /\ starts
             new == IF good THEN job ELSE FailedJob(job, write)
             point == IF good THEN "ready" ELSE "none"
  <2>1. /\ Passes(k, passed) /\ blocked' = ~good /\ active' = good
        /\ jobs' = [l \in Registered \cup {k} |-> IF l # k THEN jobs[l] ELSE new]
        /\ IF good THEN Go(k, "ready") ELSE UNCHANGED worker
    BY <1>3 DEF Register
  <2>2. /\ job \in Job /\ job.status = "RESERVED" /\ job.disk = "RESERVED" /\ ~job.acked
    BY DEF Job, Unfinished, Final
  <2>3. /\ new \in Job
        /\ good => new = job
        /\ ~good => new.status = "UNKNOWN" /\ (new.acked => new.disk = "UNKNOWN")
    <3> HIDE DEF job
    <3> QED BY <2>2, JobRecords DEF Unfinished
  <2>4. /\ Registered' = Registered \cup {k}
        /\ jobs'[k] = new
        /\ \A l \in Registered : l # k => jobs'[l] = jobs[l]
    BY <1>1, <2>1 DEF Registered
  <2>5. worker[k] = "none" /\ dispatched[k] = 0 /\ k \notin running
    BY <1>1, OfWorker DEF KeyInv, Started
  <2>6. worker' = [worker EXCEPT ![k] = point] /\ point \in Points
    BY <2>1, <2>5, OfWorker DEF Go, Points, ExecutorTypeOK
  <2>7. /\ worker'[k] = point
        /\ good => point = "ready"
        /\ ~good => point = "none"
    BY <2>6, OfWorker DEF ExecutorTypeOK
  <2> HIDE DEF job, new, point, good
  <2>8. KeyInv(k)'
    <3>1. Started(k)'
      BY <1>1, <2>5, <2>7 DEF Started
    <3>2. OnRecord(k)'
      <4>1. CASE good
        <5>1. jobs'[k] = job /\ worker'[k] = "ready"
          BY <2>3, <2>4, <2>7, <4>1
        <5> QED BY <2>2, <5>1 DEF OnRecord, Unfinished
      <4>2. CASE ~good
        <5>1. jobs'[k].status = "UNKNOWN" /\ (jobs'[k].acked => jobs'[k].disk = "UNKNOWN") /\ blocked'
          BY <2>1, <2>3, <2>4, <4>2
        <5> QED BY <5>1 DEF OnRecord, Unfinished
      <4> QED BY <4>1, <4>2
    <3> QED BY <2>4, <3>1, <3>2 DEF KeyInv
  <2>9. late' \subseteq Registered'
    BY <2>1, <2>4, OfWorker
  <2>10. /\ blocked' \in BOOLEAN /\ active' \in BOOLEAN
         /\ point \notin {"none", "done"} => active'
    BY <2>1, <2>7 DEF good
  <2>11. OneProcess' /\ running' \subseteq Keys /\ process' \subseteq Keys
    BY <1>1, OfWorker DEF OneProcess
  <2>12. /\ dispatched' \in [Keys -> Nat] /\ shutdown' \in [at : {"up", "marked", "ended"}, process : SUBSET Keys]
         /\ \A l \in running' : l # k => l \in running
         /\ \A l \in Keys : l # k => dispatched'[l] = dispatched[l]
    BY <1>1, OfWorker
  <2>13. k \in Registered' /\ jobs'[k] \in Job
    BY <2>3, <2>4
  <2> QED BY <1>1, <2>4, <2>6, <2>8, <2>9, <2>10, <2>11, <2>12, <2>13, KeyStep
<1> QED BY <1>2, <1>3

\* The worker's first section.
LEMMA BeginStep ==
  ASSUME ExecutorInv, NEW k \in Keys, NEW first \in Writes, NEW write \in Writes,
         NEW passed \in BOOLEAN, Begin(k, first, write, passed)
  PROVE  ExecutorInv' /\ HoldStep /\ Remembered
<1> DEFINE written == Persisted(jobs[k], "RUNNING", first)
           job == [written EXCEPT !.status = "RUNNING"]
<1>1. /\ worker[k] = "ready" /\ UNCHANGED <<process, running, dispatched, shutdown>>
      /\ Passes(k, passed)
  BY DEF Begin, At
<1>2. /\ k \in Registered /\ jobs[k] \in Job /\ Busy(k) /\ dispatched[k] = 0 /\ k \notin running
      /\ jobs[k].status = "UNKNOWN" \/ (jobs[k].status = "RESERVED" /\ ~jobs[k].acked)
      /\ jobs[k].status = "UNKNOWN" => blocked
      /\ jobs[k].disk = "EVIDENCE_CANDIDATE" => blocked
  BY <1>1, OfWorker DEF Busy, Points, KeyInv, Started, OnRecord, Job, Unfinished, Final
<1>3. /\ written \in Job /\ written.status = jobs[k].status /\ written.acked = jobs[k].acked
      /\ written.disk \in {jobs[k].disk, "RUNNING"}
      /\ FailedJob(jobs[k], write) \in Job /\ FailedJob(jobs[k], write).status = "UNKNOWN"
      /\ FailedJob(jobs[k], write).acked => FailedJob(jobs[k], write).disk = "UNKNOWN"
  <2>1. jobs[k] \in Job /\ "RUNNING" \in Unfinished \cup {"EVIDENCE_CANDIDATE", "UNKNOWN"}
    BY <1>2 DEF Unfinished
  <2>2. /\ written \in Job /\ written.status = jobs[k].status /\ written.acked = jobs[k].acked
        /\ written.disk \in {jobs[k].disk, "RUNNING"}
    BY <2>1, JobRecords
  <2>3. /\ FailedJob(jobs[k], write) \in Job /\ FailedJob(jobs[k], write).status = "UNKNOWN"
        /\ FailedJob(jobs[k], write).acked => FailedJob(jobs[k], write).disk = "UNKNOWN"
    BY <2>1, JobRecords
  <2> QED BY <2>2, <2>3
<1> HIDE DEF written
<1>4. /\ job \in Job /\ job.status = "RUNNING" /\ job.acked = jobs[k].acked
      /\ job.disk \in {jobs[k].disk, "RUNNING"}
  BY <1>3 DEF Job, Unfinished
<1>5. late' \subseteq Registered \cup {k}
  BY <1>1, <1>2, OfWorker DEF Passes
<1> HIDE DEF job
<1>6. ASSUME NEW new \in Job, jobs' = [jobs EXCEPT ![k] = new], NEW point \in {"done", "prepared", "leaving"},
             Go(k, point), blocked => blocked', blocked' \in BOOLEAN, active' = (point = "prepared"),
             \/ /\ point = "done" /\ blocked' /\ new.status = "UNKNOWN"
                /\ new.acked => new.disk = "UNKNOWN"
             \/ /\ point = "prepared" /\ new.status = "RUNNING" /\ ~new.acked /\ ~blocked
                /\ new.disk # "EVIDENCE_CANDIDATE"
      PROVE  ExecutorInv' /\ HoldStep /\ Remembered
  <2>1. /\ Registered' = Registered /\ jobs'[k] = new
        /\ \A l \in Registered : l # k => jobs'[l] = jobs[l]
    BY <1>2, <1>6, Replaced
  <2>2. worker' = [worker EXCEPT ![k] = point] /\ point \in Points /\ worker'[k] = point
    BY <1>6, OfWorker DEF Go, ExecutorTypeOK, Points
  <2>3. KeyInv(k)'
    <3>1. Started(k)'
      BY <1>1, <1>2, <1>6, <2>2 DEF Started
    <3>2. OnRecord(k)'
      BY <1>1, <1>6, <2>1, <2>2 DEF OnRecord, Unfinished
    <3> QED BY <1>2, <2>1, <3>1, <3>2 DEF KeyInv
  <2>4. /\ jobs[k].status \in Final => jobs'[k].status = jobs[k].status
        /\ jobs'[k].status # "COMPLETE"
    BY <1>2, <1>6, <2>1 DEF Final
  <2>5. OneProcess' /\ running' \subseteq Keys /\ process' \subseteq Keys /\ dispatched' \in [Keys -> Nat]
    BY <1>1, OfWorker DEF OneProcess
  <2>6. /\ shutdown' \in [at : {"up", "marked", "ended"}, process : SUBSET Keys]
        /\ k \in Registered' /\ Registered' = Registered \cup {k} /\ late' \subseteq Registered'
    BY <1>1, <1>2, <1>5, <2>1, OfWorker
  <2>7. /\ active' \in BOOLEAN
        /\ point \notin {"none", "done"} => active'
    BY <1>6
  <2> QED BY <1>1, <1>2, <1>6, <2>1, <2>2, <2>3, <2>4, <2>5, <2>6, <2>7, KeyStep
<1>7. CASE /\ (blocked \/ k \in late') /\ FailJob(k, jobs[k], write)
           /\ active' = FALSE /\ Go(k, "done")
  BY <1>3, <1>6, <1>7 DEF FailJob
<1>8. CASE /\ ~blocked /\ k \notin late /\ ~Acknowledged(jobs[k], first)
           /\ jobs' = [jobs EXCEPT ![k] = [job EXCEPT !.status = "UNKNOWN"]]
           /\ blocked' = TRUE /\ active' = FALSE /\ Go(k, "done")
  <2>1. /\ [job EXCEPT !.status = "UNKNOWN"] \in Job
        /\ [job EXCEPT !.status = "UNKNOWN"].status = "UNKNOWN"
        /\ ~[job EXCEPT !.status = "UNKNOWN"].acked
    BY <1>2, <1>4, <1>8 DEF Job, Final
  <2> QED BY <1>6, <1>8, <2>1
<1>9. CASE /\ ~blocked /\ k \notin late /\ Acknowledged(jobs[k], first)
           /\ k \in late' /\ FailJob(k, job, write) /\ active' = FALSE /\ Go(k, "done")
  <2>1. /\ FailedJob(job, write) \in Job /\ FailedJob(job, write).status = "UNKNOWN"
        /\ FailedJob(job, write).acked => FailedJob(job, write).disk = "UNKNOWN"
    BY <1>4, JobRecords DEF Unfinished
  <2> QED BY <1>6, <1>9, <2>1 DEF FailJob
<1>10. CASE /\ ~blocked /\ k \notin late /\ Acknowledged(jobs[k], first)
            /\ jobs' = [jobs EXCEPT ![k] = job] /\ Go(k, "prepared") /\ UNCHANGED <<blocked, active>>
  <2>1. active
    BY <1>2 DEF ExecutorInv, OneWorker
  <2>2. ~job.acked /\ job.disk # "EVIDENCE_CANDIDATE"
    BY <1>2, <1>4, <1>10
  <2>3. active' = ("prepared" = "prepared") /\ blocked' \in BOOLEAN
    BY <1>10, <2>1, OfWorker
  <2> QED BY <1>4, <1>6, <1>10, <2>2, <2>3
<1> QED BY <1>7, <1>8, <1>9, <1>10 DEF Begin, job, written

\* A section of the worker of k that leaves every job alone.
LEMMA WorkerStep ==
  ASSUME ExecutorInv, NEW k \in Keys, Busy(k), UNCHANGED <<jobs, blocked, late>>,
         shutdown' \in [at : {"up", "marked", "ended"}, process : SUBSET Keys],
         NEW point \in Points, Go(k, point),
         \/ UNCHANGED <<active, dispatched>> /\ point \notin {"none", "done"}
         \/ ~blocked /\ active' = active /\ point \notin {"none", "done"}
         \/ UNCHANGED dispatched /\ active' = FALSE /\ point = "done",
         dispatched' \in [Keys -> Nat], \A l \in Keys : l # k => dispatched'[l] = dispatched[l],
         \A l \in running' : l # k => l \in running, running' \subseteq Keys, OneProcess',
         process' \subseteq Keys, Started(k)', OnRecord(k)'
  PROVE  ExecutorInv' /\ HoldStep /\ Remembered
<1>1. k \in Registered /\ jobs[k] \in Job /\ Registered' = Registered
  BY OfWorker DEF Busy, Registered
<1>2. active
  BY DEF ExecutorInv, OneWorker
<1>3. KeyInv(k)'
  BY <1>1 DEF KeyInv
<1>4. /\ late' \subseteq Registered' /\ blocked' \in BOOLEAN /\ active' \in BOOLEAN
      /\ point \notin {"none", "done"} => active'
      /\ blocked => blocked' /\ dispatched' = dispatched
  BY <1>1, <1>2, OfWorker
<1>5. worker' = [worker EXCEPT ![k] = point]
  BY DEF Go
<1> QED BY <1>1, <1>3, <1>4, <1>5, KeyStep

\* One process is started, and only when nothing holds the executor.
LEMMA LaunchStep ==
  ASSUME ExecutorInv, NEW k \in Keys, Launch(k)
  PROVE  ExecutorInv' /\ HoldStep /\ Remembered
<1>1. /\ worker[k] = "prepared" /\ ~blocked /\ Go(k, "waiting")
      /\ UNCHANGED <<jobs, blocked, active, late, shutdown>>
      /\ dispatched' = [dispatched EXCEPT ![k] = @ + 1]
      /\ running' = running \cup {k} /\ process' = {k}
  BY DEF Launch, At, Stopped
<1>2. Busy(k) /\ dispatched[k] = 0 /\ OnRecord(k) /\ jobs[k].status # "COMPLETE"
  BY <1>1, OfWorker DEF Busy, Points, KeyInv, Started, OnRecord
<1>3. /\ worker'[k] = "waiting" /\ dispatched'[k] = 1
      /\ dispatched' \in [Keys -> Nat] /\ \A l \in Keys : l # k => dispatched'[l] = dispatched[l]
  BY <1>1, <1>2, OfWorker DEF Go, ExecutorTypeOK
<1>4. running = {}
  <2>1. \A l \in running : l = k
    <3> TAKE l \in running
    <3>1. l \in Keys /\ KeyInv(l)
      BY OfWorker DEF ExecutorInv
    <3>2. Busy(l)
      BY <1>1, <3>1 DEF KeyInv, Started, Busy, Points
    <3> QED BY <1>2, <3>1, <3>2 DEF ExecutorInv, OneWorker
  <2>2. k \notin running
    BY <1>1, OfWorker DEF KeyInv, Started
  <2> QED BY <2>1, <2>2
<1>5. OneProcess' /\ running' \subseteq Keys /\ process' \subseteq Keys
  BY <1>1, <1>4 DEF OneProcess
<1>6. Started(k)' /\ OnRecord(k)'
  BY <1>1, <1>2, <1>3 DEF Started, OnRecord, Unfinished
<1> QED BY <1>1, <1>2, <1>3, <1>4, <1>5, <1>6, WorkerStep, OfWorker DEF Points

\* A process of k ends, or is ended, and its worker moves on if it waits.
LEMMA ProcessEnds ==
  ASSUME ExecutorInv, NEW k \in Keys,
         UNCHANGED <<jobs, blocked, active, late, process, dispatched>>,
         running' \in {running, running \ {k}},
         shutdown' \in [at : {"up", "marked", "ended"}, process : SUBSET Keys],
         \/ UNCHANGED worker
         \/ /\ worker[k] = "waiting"
            /\ \E point \in {"exited", "failing"} : Go(k, point) /\ (point = "exited" => k \notin running')
  PROVE  ExecutorInv' /\ HoldStep /\ Remembered
<1>1. running' \subseteq running
  OBVIOUS
<1>2. CASE UNCHANGED worker
  BY <1>1, <1>2, QuietStep, OfWorker
<1>3. CASE \E point \in {"exited", "failing"} : /\ Go(k, point) /\ worker[k] = "waiting"
                                                /\ point = "exited" => k \notin running'
  <2> PICK point \in {"exited", "failing"} : /\ Go(k, point) /\ worker[k] = "waiting"
                                             /\ point = "exited" => k \notin running'
    BY <1>3
  <2>1. Busy(k) /\ Started(k) /\ OnRecord(k) /\ dispatched[k] = 1
    BY OfWorker DEF Busy, Points, KeyInv, Started
  <2>2. worker'[k] = point /\ point \in Points
    BY OfWorker DEF Go, ExecutorTypeOK, Points
  <2>3. Started(k)' /\ OnRecord(k)'
    BY <2>1, <2>2 DEF Started, OnRecord, Unfinished
  <2>4. OneProcess' /\ running' \subseteq Keys /\ process' \subseteq Keys
    BY <1>1, OfWorker DEF OneProcess
  <2>5. dispatched' \in [Keys -> Nat]
    BY OfWorker
  <2> QED BY <1>1, <2>1, <2>2, <2>3, <2>4, <2>5, WorkerStep
<1> QED BY <1>2, <1>3

\* wait() has given up, or has returned; the worker fails or goes on.
LEMMA WaitSteps ==
  ASSUME ExecutorInv, NEW k \in Keys, Exit(k) \/ TimeOut(k)
  PROVE  ExecutorInv' /\ HoldStep /\ Remembered
<1>1. UNCHANGED <<jobs, blocked, active, late, process, dispatched, shutdown>>
  BY DEF Exit, TimeOut
<1>2. running' \in {running, running \ {k}}
  BY DEF Exit, TimeOut
<1>3. \/ UNCHANGED worker
      \/ /\ worker[k] = "waiting"
         /\ \E point \in {"exited", "failing"} : Go(k, point) /\ (point = "exited" => k \notin running')
  BY DEF Exit, TimeOut, Wake, At
<1> QED BY <1>1, <1>2, <1>3, ProcessEnds, OfWorker

\* The rest of shutdown() ends the process it saw, if that process still runs.
LEMMA TerminateStep ==
  ASSUME ExecutorInv, Terminate
  PROVE  ExecutorInv' /\ HoldStep /\ Remembered
<1>1. /\ UNCHANGED <<jobs, blocked, active, late, process, dispatched>>
      /\ shutdown' = [shutdown EXCEPT !.at = "ended"]
  BY DEF Terminate
<1>2. shutdown' \in [at : {"up", "marked", "ended"}, process : SUBSET Keys]
  BY <1>1 DEF ExecutorInv, ExecutorTypeOK
<1>3. CASE UNCHANGED <<running, worker>>
  BY <1>1, <1>2, <1>3, QuietStep DEF ExecutorInv, ExecutorTypeOK
<1>4. CASE \E k \in shutdown.process \cap running : running' = running \ {k} /\ Wake(k, {"failing"})
  <2> PICK k \in running : running' = running \ {k} /\ Wake(k, {"failing"})
    BY <1>4
  <2>1. k \in Keys
    BY DEF ExecutorInv, ExecutorTypeOK
  <2>2. \/ UNCHANGED worker
        \/ /\ worker[k] = "waiting"
           /\ \E point \in {"exited", "failing"} : Go(k, point) /\ (point = "exited" => k \notin running')
    BY DEF Wake, At
  <2> QED BY <1>1, <1>2, <2>1, <2>2, ProcessEnds
<1> QED BY <1>3, <1>4 DEF Terminate

\* An exception, the handler's way out, and a deadline that passes.
LEMMA RaiseStep ==
  ASSUME ExecutorInv, NEW k \in Keys, Raise(k)
  PROVE  ExecutorInv' /\ HoldStep /\ Remembered
<1>1. /\ worker[k] \in {"prepared", "exited"} /\ Go(k, "failing")
      /\ UNCHANGED <<jobs, blocked, active, late, process, running, dispatched, shutdown>>
  BY DEF Raise
<1>2. Busy(k) /\ Started(k) /\ OnRecord(k) /\ worker'[k] = "failing"
  BY <1>1, OfWorker DEF Busy, Points, KeyInv, Go, ExecutorTypeOK
<1>3. Started(k)' /\ OnRecord(k)'
  BY <1>1, <1>2 DEF Started, OnRecord, Unfinished
<1>4. OneProcess' /\ running' \subseteq Keys /\ process' \subseteq Keys /\ dispatched' \in [Keys -> Nat]
  BY <1>1, OfWorker DEF OneProcess
<1> QED BY <1>1, <1>2, <1>3, <1>4, WorkerStep, OfWorker DEF Points

LEMMA LeaveStep ==
  ASSUME ExecutorInv, NEW k \in Keys, Leave(k)
  PROVE  ExecutorInv' /\ HoldStep /\ Remembered
<1>1. /\ worker[k] = "leaving" /\ Go(k, "done") /\ active' = FALSE /\ process' = {}
      /\ UNCHANGED <<jobs, blocked, late, running, dispatched, shutdown>>
  BY DEF Leave, At, BusyAfter
<1>2. Busy(k) /\ Started(k) /\ OnRecord(k) /\ worker'[k] = "done"
  BY <1>1, OfWorker DEF Busy, Points, KeyInv, Go, ExecutorTypeOK
<1>3. Started(k)' /\ OnRecord(k)'
  BY <1>1, <1>2 DEF Started, OnRecord, Unfinished
<1>4. OneProcess' /\ running' \subseteq Keys /\ process' \subseteq Keys /\ dispatched' \in [Keys -> Nat]
  BY <1>1, OfWorker DEF OneProcess
<1> QED BY <1>1, <1>2, <1>3, <1>4, WorkerStep, OfWorker DEF Points

LEMMA ExpireStep ==
  ASSUME ExecutorInv, NEW k \in Keys, Expire(k)
  PROVE  ExecutorInv' /\ HoldStep /\ Remembered
<1>1. /\ k \in Registered /\ late' = late \cup {k}
      /\ UNCHANGED <<jobs, blocked, active, worker, process, running, dispatched, shutdown>>
  BY DEF Expire
<1> QED BY <1>1, QuietStep, OfWorker

\* A record is written by the worker that has prepared or run the process of k.
LEMMA RecordStep ==
  ASSUME ExecutorInv, NEW k \in Keys, worker[k] \in {"exited", "failing"},
         UNCHANGED <<active, process, running, dispatched, shutdown>>,
         late' \subseteq Registered, blocked' \in BOOLEAN, blocked => blocked',
         NEW new \in Job, jobs' = [jobs EXCEPT ![k] = new], NEW point \in {"leaving", "failing"},
         Go(k, point),
         \/ /\ point = "leaving" /\ blocked' /\ new.status = "UNKNOWN"
            /\ new.acked => new.disk = "UNKNOWN"
         \/ /\ point = "failing" /\ new.status = jobs[k].status /\ new.status # "UNKNOWN"
            /\ new.acked = jobs[k].acked
         \/ /\ point = "leaving" /\ worker[k] = "exited" /\ ~blocked /\ k \notin late
            /\ new.status = "COMPLETE" /\ new.disk = "EVIDENCE_CANDIDATE" /\ new.acked
  PROVE  ExecutorInv' /\ HoldStep /\ Remembered
<1>1. /\ Registered' = Registered /\ jobs'[k] = new /\ k \in Registered
      /\ \A l \in Registered : l # k => jobs'[l] = jobs[l]
  BY OfWorker, Replaced
<1>2. Busy(k) /\ Started(k) /\ OnRecord(k) /\ worker'[k] = point /\ jobs[k].status # "COMPLETE"
  BY OfWorker DEF Busy, Points, KeyInv, Go, ExecutorTypeOK, OnRecord
<1>3. jobs[k].status = "UNKNOWN" => blocked
  BY <1>2 DEF OnRecord
<1>4. KeyInv(k)'
  <2>1. Started(k)'
    BY <1>2 DEF Started
  <2>2. OnRecord(k)'
    <3>1. CASE new.status = "UNKNOWN"
      BY <1>1, <1>2, <1>3, <3>1 DEF OnRecord, Unfinished
    <3>2. CASE new.status = "COMPLETE"
      <4>1. point = "leaving" /\ worker[k] = "exited" /\ new.disk = "EVIDENCE_CANDIDATE" /\ new.acked
        BY <1>2, <3>2
      <4>2. k \notin running /\ dispatched[k] = 1
        BY <1>2, <4>1 DEF Started
      <4> QED BY <1>1, <1>2, <3>2, <4>1, <4>2 DEF OnRecord, Unfinished
    <3>3. CASE new.status \in Unfinished
      <4>1. point = "failing" /\ new.status = jobs[k].status /\ new.acked = jobs[k].acked
        BY <3>3 DEF Unfinished
      <4> QED BY <1>1, <1>2, <3>3, <4>1 DEF OnRecord, Unfinished
    <3> QED BY <3>1, <3>2, <3>3 DEF Job, Final
  <2> QED BY <1>1, <2>1, <2>2 DEF KeyInv
<1>5. active
  BY <1>2 DEF ExecutorInv, OneWorker
<1>6. OneProcess' /\ running' \subseteq Keys /\ process' \subseteq Keys /\ dispatched' \in [Keys -> Nat]
  BY OfWorker DEF OneProcess
<1>7. /\ jobs[k].status \in Final => jobs'[k].status = jobs[k].status
      /\ jobs'[k].status = "COMPLETE" => ~(blocked \/ k \in late)
  BY <1>1, <1>2, <1>3 DEF Final
<1>8. worker' = [worker EXCEPT ![k] = point] /\ point \in Points
  BY DEF Go, Points
<1>9. active' \in BOOLEAN /\ active' /\ shutdown' \in [at : {"up", "marked", "ended"}, process : SUBSET Keys]
  BY <1>5, OfWorker
<1> QED BY <1>1, <1>2, <1>4, <1>6, <1>7, <1>8, <1>9, KeyStep

\* The candidate is written, and the job is COMPLETE if the deadline allows it.
LEMMA PublishStep ==
  ASSUME ExecutorInv, NEW k \in Keys, NEW first \in Writes, NEW write \in Writes,
         NEW passed \in BOOLEAN, Publish(k, first, write, passed)
  PROVE  ExecutorInv' /\ HoldStep /\ Remembered
<1> DEFINE candidate == Persisted(jobs[k], "EVIDENCE_CANDIDATE", first)
           complete == [candidate EXCEPT !.status = "COMPLETE", !.acked = TRUE]
<1>1. /\ worker[k] = "exited" /\ ~blocked /\ k \notin late
      /\ UNCHANGED <<active, process, running, dispatched, shutdown>> /\ Passes(k, passed)
  BY DEF Publish, At, Stopped
<1>2. /\ k \in Registered /\ jobs[k] \in Job /\ jobs[k].status # "UNKNOWN"
      /\ late' \subseteq Registered /\ blocked \in BOOLEAN
  BY <1>1, OfWorker DEF OnRecord, Passes
<1>3. /\ candidate \in Job /\ candidate.status = jobs[k].status /\ candidate.acked = jobs[k].acked
      /\ Acknowledged(jobs[k], first) => candidate.disk = "EVIDENCE_CANDIDATE"
  BY <1>2, JobRecords
<1> HIDE DEF candidate
<1>4. CASE /\ ~Acknowledged(jobs[k], first) /\ jobs' = [jobs EXCEPT ![k] = candidate]
           /\ Go(k, "failing") /\ UNCHANGED blocked
  BY <1>1, <1>2, <1>3, <1>4, RecordStep
<1>5. CASE Acknowledged(jobs[k], first) /\ passed /\ FailJob(k, candidate, write) /\ Go(k, "leaving")
  <2>1. /\ FailedJob(candidate, write) \in Job /\ FailedJob(candidate, write).status = "UNKNOWN"
        /\ FailedJob(candidate, write).acked => FailedJob(candidate, write).disk = "UNKNOWN"
    BY <1>3, JobRecords DEF Unfinished
  <2> QED BY <1>1, <1>2, <1>5, <2>1, RecordStep DEF FailJob
<1>6. CASE /\ Acknowledged(jobs[k], first) /\ jobs' = [jobs EXCEPT ![k] = complete]
           /\ Go(k, "leaving") /\ UNCHANGED blocked
  <2>1. /\ complete \in Job /\ complete.status = "COMPLETE" /\ complete.acked
        /\ complete.disk = candidate.disk
    BY <1>3 DEF Job, Final
  <2> HIDE DEF complete
  <2> QED BY <1>1, <1>2, <1>3, <1>6, <2>1, RecordStep
<1> QED BY <1>4, <1>5, <1>6 DEF Publish, candidate

\* The worker's handler.
LEMMA HandleStep ==
  ASSUME ExecutorInv, NEW k \in Keys, NEW write \in Writes, Handle(k, write)
  PROVE  ExecutorInv' /\ HoldStep /\ Remembered
<1>1. /\ worker[k] = "failing" /\ Go(k, "leaving") /\ blocked' = TRUE
      /\ jobs' = [jobs EXCEPT ![k] = FailedJob(jobs[k], write)]
      /\ UNCHANGED <<active, late, process, running, dispatched, shutdown>>
  BY DEF Handle, At, FailJob
<1>2. /\ FailedJob(jobs[k], write) \in Job /\ FailedJob(jobs[k], write).status = "UNKNOWN"
      /\ FailedJob(jobs[k], write).acked => FailedJob(jobs[k], write).disk = "UNKNOWN"
  <2>1. jobs[k] \in Job
    BY <1>1, OfWorker
  <2> QED BY <2>1, JobRecords
<1>3. late' \subseteq Registered
  BY <1>1, OfWorker
<1> QED BY <1>1, <1>2, <1>3, RecordStep

\* shutdown() fails every job that is not over, wherever its worker is.
LEMMA ShutdownStep ==
  ASSUME ExecutorInv, NEW write \in Writes, Shutdown(write)
  PROVE  ExecutorInv' /\ HoldStep /\ Remembered
<1>1. /\ blocked' = TRUE /\ shutdown' = [at |-> "marked", process |-> process]
      /\ UNCHANGED <<active, late, worker, process, running, dispatched>>
      /\ jobs' = [k \in Registered |-> IF jobs[k].status \in Unfinished
                                       THEN FailedJob(jobs[k], write) ELSE jobs[k]]
  BY DEF Shutdown
<1>2. ExecutorTypeOK /\ OneWorker /\ OneProcess /\ \A k \in Keys : KeyInv(k)
  BY DEF ExecutorInv
<1>3. Registered' = Registered
  BY <1>1 DEF Registered
<1>4. ASSUME NEW k \in Registered
      PROVE  /\ jobs'[k] \in Job
             /\ \/ jobs'[k] = jobs[k] /\ jobs[k].status \in Final
                \/ /\ jobs[k].status \in Unfinished /\ jobs'[k].status = "UNKNOWN"
                   /\ jobs'[k].acked => jobs'[k].disk = "UNKNOWN"
  <2>1. jobs[k] \in Job
    BY <1>2 DEF ExecutorTypeOK
  <2>2. CASE jobs[k].status \in Unfinished
    <3>1. jobs'[k] = FailedJob(jobs[k], write)
      BY <1>1, <2>2
    <3>2. /\ FailedJob(jobs[k], write) \in Job /\ FailedJob(jobs[k], write).status = "UNKNOWN"
          /\ FailedJob(jobs[k], write).acked => FailedJob(jobs[k], write).disk = "UNKNOWN"
      BY <2>1, JobRecords DEF Unfinished
    <3> QED BY <2>2, <3>1, <3>2
  <2>3. CASE jobs[k].status \notin Unfinished
    BY <1>1, <2>1, <2>3 DEF Job
  <2> QED BY <2>2, <2>3
<1>5. ExecutorTypeOK'
  <2>1. shutdown' \in [at : {"up", "marked", "ended"}, process : SUBSET Keys]
    BY <1>1, <1>2 DEF ExecutorTypeOK
  <2>2. \A k \in Registered' : jobs'[k] \in Job
    BY <1>3, <1>4
  <2> QED BY <1>1, <1>2, <1>3, <2>1, <2>2 DEF ExecutorTypeOK
<1>6. OneWorker' /\ OneProcess'
  BY <1>1, <1>2 DEF OneWorker, OneProcess, Busy
<1>7. ASSUME NEW k \in Keys PROVE KeyInv(k)'
  <2>1. KeyInv(k)
    BY <1>2
  <2>2. Started(k)'
    BY <1>1, <2>1 DEF KeyInv, Started
  <2>3. k \in Registered => OnRecord(k)'
    BY <1>1, <1>4, <2>1 DEF KeyInv, OnRecord, Unfinished, Final
  <2> QED BY <1>1, <1>3, <2>1, <2>2, <2>3 DEF KeyInv
<1>8. HoldStep
  <2>1. \A k \in Registered : jobs[k].status \in Final => jobs'[k].status = jobs[k].status
    BY <1>4 DEF Unfinished, Final
  <2>2. \A k \in Registered : jobs'[k].status = "COMPLETE" => jobs[k].status = "COMPLETE"
    BY <1>4
  <2> QED BY <1>1, <2>1, <2>2 DEF HoldStep
<1> QED BY <1>3, <1>5, <1>6, <1>7, <1>8 DEF ExecutorInv, Remembered

LEMMA ExecutorInitInv == ExecutorInit => ExecutorInv
<1> SUFFICES ASSUME ExecutorInit PROVE ExecutorInv
  OBVIOUS
<1>1. /\ jobs = << >> /\ blocked = FALSE /\ active = FALSE /\ late = {} /\ process = {} /\ running = {}
      /\ worker = [k \in Keys |-> "none"] /\ dispatched = [k \in Keys |-> 0]
      /\ shutdown = [at |-> "up", process |-> {}]
  BY DEF ExecutorInit
<1>2. Registered = {}
  BY <1>1 DEF Registered
<1>3. ExecutorTypeOK
  BY <1>1, <1>2 DEF ExecutorTypeOK, Points
<1>4. OneWorker /\ OneProcess
  BY <1>1 DEF OneWorker, OneProcess, Busy
<1>5. \A k \in Keys : KeyInv(k)
  BY <1>1, <1>2 DEF KeyInv, Started
<1> QED BY <1>3, <1>4, <1>5 DEF ExecutorInv

\* Every step of the executor.
LEMMA ExecutorSteps == ExecutorInv /\ ExecutorNext => ExecutorInv' /\ HoldStep /\ Remembered
<1> SUFFICES ASSUME ExecutorInv, ExecutorNext PROVE ExecutorInv' /\ HoldStep /\ Remembered
  OBVIOUS
<1>1. ASSUME NEW k \in Keys, WorkerSection(k) PROVE ExecutorInv' /\ HoldStep /\ Remembered
  BY <1>1, LaunchStep, RaiseStep, WaitSteps, LeaveStep, BeginStep, PublishStep, HandleStep
     DEF WorkerSection
<1>2. ASSUME NEW k \in Keys, Exit(k) \/ Expire(k) PROVE ExecutorInv' /\ HoldStep /\ Remembered
  BY <1>2, WaitSteps, ExpireStep
<1> QED BY <1>1, <1>2, RegisterStep, ShutdownStep, TerminateStep DEF ExecutorNext
-------------------------------------------------------------------------------
\* A step of the executor forgets no job and makes none that is COMPLETE anything else.
LEMMA AdvisorFrame == ConsoleInv /\ HoldStep /\ Remembered /\ UNCHANGED advisor => AdvisorInv'
<1> SUFFICES ASSUME ConsoleInv, HoldStep, Remembered, UNCHANGED advisor PROVE AdvisorInv'
  OBVIOUS
<1>1. AdvisorInv /\ UNCHANGED <<analyses, analyst, held, closed, busy, reserved, sends>>
  BY DEF ConsoleInv, advisor
<1>2. Analyses' = Analyses
  BY <1>1 DEF Analyses
<1>3. AdvisorTypeOK'
  BY <1>1, <1>2 DEF AdvisorInv, AdvisorTypeOK
<1>4. ASSUME NEW r \in Requests PROVE AnalysisInv(r)'
  <2>1. AnalysisInv(r)
    BY <1>1 DEF AdvisorInv
  <2>2. r \in Analyses => /\ analyses'[r].job \in Registered'
                          /\ jobs'[analyses'[r].job].status = "COMPLETE"
    BY <1>1, <2>1 DEF AnalysisInv, HoldStep, Remembered, Final
  <2> QED BY <1>1, <1>2, <2>1, <2>2 DEF AnalysisInv, Engaged
<1> QED BY <1>1, <1>2, <1>3, <1>4 DEF AdvisorInv, Engaged

\* A step that leaves r alone, and the jobs: a hold may begin meanwhile.
LEMMA AnalysisFrame ==
  ASSUME NEW r \in Requests, AnalysisInv(r), UNCHANGED jobs, analyst'[r] = analyst[r],
         r \in Analyses => r \in Analyses', r \in Analyses' => r \in Analyses,
         r \in Analyses => analyses'[r] = analyses[r],
         held => held', sends \in Nat, sends' \in Nat, sends <= sends',
         ~Engaged(r)
  PROVE  AnalysisInv(r)'
<1>1. analyst'[r] \in {"none", "done"}
  BY DEF Engaged
<1>2. Registered' = Registered
  BY DEF Registered
<1> QED BY <1>1, <1>2 DEF AnalysisInv, Engaged

\* A step of the only analyst, or of submit() when there is none.
LEMMA AnalystStep ==
  ASSUME AdvisorInv, NEW r \in Requests, Engaged(r) \/ ~busy, UNCHANGED jobs,
         r \in Analyses', Analyses' = Analyses \cup {r}, analyses'[r] \in Analysis,
         \A s \in Analyses : s # r => analyses'[s] = analyses[s],
         IsFiniteSet(Analyses'), Cardinality(Analyses') <= MaxAnalyses,
         NEW point \in AnalystPoints, Move(r, point),
         held' \in BOOLEAN, held => held', closed' \in BOOLEAN, busy' \in BOOLEAN,
         point \notin {"none", "done"} => busy',
         reserved' \in Nat, sends' \in Nat, sends <= sends', sends' <= reserved', reserved' <= MaxCalls,
         AnalysisInv(r)'
  PROVE  AdvisorInv'
<1>1. AdvisorTypeOK
  BY DEF AdvisorInv
<1>2. /\ analyst' \in [Requests -> AnalystPoints] /\ analyst'[r] = point
      /\ \A s \in Requests : s # r => analyst'[s] = analyst[s]
  BY <1>1 DEF AdvisorTypeOK, Move
<1>3. AdvisorTypeOK'
  BY <1>1, <1>2 DEF AdvisorTypeOK
<1>4. \A s \in Requests : s # r => ~Engaged(s)
  BY DEF AdvisorInv
<1>5. \A s \in Requests : Engaged(s)' => s = r /\ busy'
  BY <1>2, <1>4 DEF Engaged
<1>6. ASSUME NEW s \in Requests, s # r PROVE AnalysisInv(s)'
  <2>1. AnalysisInv(s) /\ ~Engaged(s) /\ analyst'[s] = analyst[s] /\ sends \in Nat
    BY <1>1, <1>2, <1>4, <1>6 DEF AdvisorInv, AdvisorTypeOK
  <2> QED BY <1>6, <2>1, AnalysisFrame
<1> QED BY <1>3, <1>5, <1>6 DEF AdvisorInv

\* What holds of the analyst that makes a step.
LEMMA OfAnalyst ==
  ASSUME AdvisorInv, NEW r \in Requests
  PROVE  /\ AnalysisInv(r) /\ analyst[r] \in AnalystPoints
         /\ held \in BOOLEAN /\ closed \in BOOLEAN /\ busy \in BOOLEAN
         /\ reserved \in Nat /\ sends \in Nat /\ sends <= reserved /\ reserved <= MaxCalls
         /\ IsFiniteSet(Analyses) /\ Cardinality(Analyses) <= MaxAnalyses
         /\ Engaged(r) => /\ busy /\ r \in Analyses /\ Analyses \cup {r} = Analyses
                          /\ analyses[r] \in Analysis
<1>1. AdvisorTypeOK /\ AnalysisInv(r)
  BY DEF AdvisorInv
<1> QED BY <1>1 DEF AdvisorInv, AdvisorTypeOK, AnalysisInv, Engaged

\* A section of the analyst of r that is not its last.
LEMMA SectionStep ==
  ASSUME AdvisorInv, NEW r \in Requests, Engaged(r), UNCHANGED <<jobs, closed, busy>>,
         NEW new \in Analysis, new.job = analyses[r].job,
         Analyses' = Analyses, analyses'[r] = new,
         \A s \in Analyses : s # r => analyses'[s] = analyses[s],
         NEW point \in AnalystPoints \ {"none", "done"}, Move(r, point),
         held' \in BOOLEAN, held => held',
         reserved' \in Nat, sends' \in Nat, sends <= sends', sends' <= reserved', reserved' <= MaxCalls,
         point = "reserved" => sends' < reserved', point \in {"sent", "validated"} => sends' > 0,
         new.status = "RUNNING" <=> point # "leaving",
         new.status = "COMPLETE" => new.report /\ sends' > 0,
         new.status = "FAILED" => held'
  PROVE  AdvisorInv'
<1>1. r \in Analyses /\ busy' /\ busy' \in BOOLEAN /\ closed' \in BOOLEAN
  BY OfAnalyst
<1>2. analyst'[r] = point
  BY DEF Move, AdvisorInv, AdvisorTypeOK
<1>3. AnalysisInv(r)'
  <2>1. /\ analyses[r].job \in Registered /\ jobs[analyses[r].job].status = "COMPLETE"
    BY <1>1, OfAnalyst DEF AnalysisInv
  <2>2. Registered' = Registered
    BY DEF Registered
  <2> QED BY <1>1, <1>2, <2>1, <2>2 DEF AnalysisInv, Engaged
<1> QED BY <1>1, <1>3, OfAnalyst, AnalystStep

\* The sections that leave the analyses alone.
LEMMA ProviderStep ==
  ASSUME AdvisorInv, NEW r \in Requests, UNCHANGED jobs,
         ReserveCall(r) \/ SendCall(r) \/ Answer(r) \/ RaiseAnalysis(r)
  PROVE  AdvisorInv'
<1>1. /\ analyst[r] \in {"begun", "reserved", "sent", "validated"}
      /\ UNCHANGED <<analyses, held, closed, busy>>
  BY DEF ReserveCall, SendCall, Answer, RaiseAnalysis, Analyst, WithoutService
<1>2. /\ Engaged(r) /\ r \in Analyses /\ analyses[r] \in Analysis /\ AnalysisInv(r) /\ held \in BOOLEAN
      /\ reserved \in Nat /\ sends \in Nat /\ MaxCalls \in Nat /\ sends <= reserved /\ reserved <= MaxCalls
  BY <1>1, OfAnalyst, AdvisorAssumption DEF Engaged
<1>3. analyses[r].status = "RUNNING"
  BY <1>1, <1>2 DEF AnalysisInv
<1>4. Analyses' = Analyses /\ \A s \in Analyses : analyses'[s] = analyses[s]
  BY <1>1 DEF Analyses
<1>5. ASSUME NEW point \in {"raised", "reserved", "sent", "validated"}, Move(r, point),
             reserved' \in Nat, sends' \in Nat, sends <= sends', sends' <= reserved', reserved' <= MaxCalls,
             point = "reserved" => sends' < reserved', point \in {"sent", "validated"} => sends' > 0
      PROVE  AdvisorInv'
  BY <1>1, <1>2, <1>3, <1>4, <1>5, SectionStep DEF AnalystPoints
<1>6. CASE ReserveCall(r)
  <2>1. CASE LimitReached
    BY <1>2, <1>5, <1>6, <2>1 DEF ReserveCall
  <2>2. CASE ~LimitReached
    BY <1>2, <1>5, <1>6, <2>2 DEF ReserveCall, LimitReached
  <2> QED BY <2>1, <2>2
<1>7. CASE SendCall(r)
  BY <1>2, <1>5, <1>7 DEF SendCall, Analyst, AnalysisInv
<1>8. CASE Answer(r)
  BY <1>2, <1>5, <1>8 DEF Answer, Analyst, AnalysisInv
<1>9. CASE RaiseAnalysis(r)
  BY <1>2, <1>5, <1>9 DEF RaiseAnalysis
<1> QED BY <1>6, <1>7, <1>8, <1>9

\* The report is written; the analysis is COMPLETE if the write and the deadline allow it.
LEMMA ConcludeStep ==
  ASSUME AdvisorInv, NEW r \in Requests, UNCHANGED jobs, NEW write \in Writes, NEW passed \in BOOLEAN,
         Conclude(r, write, passed)
  PROVE  AdvisorInv'
<1> DEFINE completes == write = "ok" /\ ~passed
           new == [analyses[r] EXCEPT !.report = (write # "lost"),
                                      !.status = IF completes THEN "COMPLETE" ELSE @]
           point == IF completes THEN "leaving" ELSE "raised"
<1>1. /\ analyst[r] = "validated" /\ Move(r, point)
      /\ analyses' = [analyses EXCEPT ![r].report = (write # "lost"),
                                      ![r].status = IF completes THEN "COMPLETE" ELSE @]
      /\ UNCHANGED <<held, closed, busy, reserved, sends>>
  BY DEF Conclude, Analyst
<1>2. /\ Engaged(r) /\ r \in Analyses /\ analyses[r] \in Analysis /\ AnalysisInv(r) /\ held \in BOOLEAN
      /\ reserved \in Nat /\ sends \in Nat /\ sends <= reserved /\ reserved <= MaxCalls
  BY <1>1, OfAnalyst DEF Engaged
<1>3. analyses[r].status = "RUNNING" /\ sends > 0
  BY <1>1, <1>2 DEF AnalysisInv
<1>4. /\ Analyses' = Analyses /\ analyses'[r] = new
      /\ \A s \in Analyses : s # r => analyses'[s] = analyses[s]
  BY <1>1, <1>2 DEF Analyses, Analysis
<1>5. /\ new \in Analysis /\ new.job = analyses[r].job
      /\ new.status = (IF completes THEN "COMPLETE" ELSE "RUNNING")
      /\ completes => new.report
  BY <1>2, <1>3 DEF Analysis
<1>6. /\ point \in AnalystPoints \ {"none", "done"} /\ point \notin {"reserved", "sent", "validated"}
      /\ completes <=> point = "leaving"
  BY DEF AnalystPoints
<1> HIDE DEF new, point, completes
<1>7. /\ new.status = "RUNNING" <=> point # "leaving"
      /\ new.status = "COMPLETE" => new.report /\ sends' > 0
      /\ new.status # "FAILED"
  BY <1>1, <1>3, <1>5, <1>6
<1>8. sends <= sends' /\ held' \in BOOLEAN /\ UNCHANGED <<jobs, closed, busy>>
  BY <1>1, <1>2
<1> QED BY <1>1, <1>2, <1>4, <1>5, <1>6, <1>7, <1>8, SectionStep

\* The handler of every exception holds the service.
LEMMA FailAnalysisStep ==
  ASSUME AdvisorInv, NEW r \in Requests, UNCHANGED jobs, FailAnalysis(r)
  PROVE  AdvisorInv'
<1> DEFINE new == [analyses[r] EXCEPT !.status = "FAILED"]
<1>1. /\ analyst[r] = "raised" /\ held' = TRUE /\ Move(r, "leaving")
      /\ analyses' = [analyses EXCEPT ![r].status = "FAILED"]
      /\ UNCHANGED <<closed, busy, reserved, sends>>
  BY DEF FailAnalysis, Analyst
<1>2. /\ Engaged(r) /\ r \in Analyses /\ analyses[r] \in Analysis
      /\ reserved \in Nat /\ sends \in Nat /\ sends <= reserved /\ reserved <= MaxCalls
  BY <1>1, OfAnalyst DEF Engaged
<1>3. /\ Analyses' = Analyses /\ analyses'[r] = new
      /\ \A s \in Analyses : s # r => analyses'[s] = analyses[s]
  BY <1>1, <1>2 DEF Analyses, Analysis
<1>4. new \in Analysis /\ new.job = analyses[r].job /\ new.status = "FAILED"
  BY <1>2 DEF Analysis
<1> HIDE DEF new
<1>5. /\ sends <= sends' /\ held' \in BOOLEAN /\ UNCHANGED <<jobs, closed, busy>>
      /\ "leaving" \in AnalystPoints \ {"none", "done"}
  BY <1>1, <1>2 DEF AnalystPoints
<1> QED BY <1>1, <1>2, <1>3, <1>4, <1>5, SectionStep

\* The last section lets the next analysis in.
LEMMA LeaveAnalysisStep ==
  ASSUME AdvisorInv, NEW r \in Requests, UNCHANGED jobs, LeaveAnalysis(r)
  PROVE  AdvisorInv'
<1>1. /\ analyst[r] = "leaving" /\ busy' = FALSE /\ Move(r, "done")
      /\ UNCHANGED <<analyses, held, closed, reserved, sends>>
  BY DEF LeaveAnalysis, Analyst
<1>2. /\ Engaged(r) /\ r \in Analyses /\ analyses[r] \in Analysis /\ Analyses' = Analyses
  BY <1>1, OfAnalyst DEF Engaged, Analyses
<1>3. analyst'[r] = "done" /\ Registered' = Registered
  BY <1>1 DEF Move, AdvisorInv, AdvisorTypeOK, Registered
<1>4. AnalysisInv(r)'
  BY <1>1, <1>2, <1>3, OfAnalyst DEF AnalysisInv, Engaged
<1>5. /\ Analyses' = Analyses \cup {r} /\ analyses'[r] \in Analysis
      /\ \A s \in Analyses : s # r => analyses'[s] = analyses[s]
      /\ IsFiniteSet(Analyses') /\ Cardinality(Analyses') <= MaxAnalyses
  BY <1>1, <1>2, OfAnalyst
<1>6. /\ reserved' \in Nat /\ sends' \in Nat /\ sends <= sends' /\ sends' <= reserved'
      /\ reserved' <= MaxCalls /\ "done" \in AnalystPoints
  BY <1>1, OfAnalyst DEF AnalystPoints
<1>7. held' \in BOOLEAN /\ closed' \in BOOLEAN /\ busy' \in BOOLEAN
  BY <1>1, OfAnalyst
<1> QED BY <1>1, <1>2, <1>4, <1>5, <1>6, <1>7, AnalystStep

\* submit() of the service: only evidence that is published is analysed.
LEMMA SubmitAnalysisStep ==
  ASSUME AdvisorInv, NEW r \in Requests, NEW k \in Keys, NEW starts \in BOOLEAN,
         UNCHANGED jobs, SubmitAnalysis(r, k, starts)
  PROVE  AdvisorInv'
<1> DEFINE new == [job |-> k, report |-> FALSE, status |-> IF starts THEN "RUNNING" ELSE "FAILED"]
           point == IF starts THEN "begun" ELSE "done"
<1>1. /\ r \notin Analyses /\ ~busy /\ ~held /\ Cardinality(Analyses) < MaxAnalyses
      /\ k \in Registered /\ jobs[k].status = "COMPLETE"
      /\ analyses' = [p \in Analyses \cup {r} |-> IF p # r THEN analyses[p] ELSE new]
      /\ held' = ~starts /\ busy' = starts /\ Move(r, point)
      /\ UNCHANGED <<closed, reserved, sends>>
  BY DEF SubmitAnalysis, Published
<1>2. /\ Analyses' = Analyses \cup {r} /\ analyses'[r] = new
      /\ \A s \in Analyses : s # r => analyses'[s] = analyses[s]
  BY <1>1 DEF Analyses
<1>3. IsFiniteSet(Analyses') /\ Cardinality(Analyses') <= MaxAnalyses
  <2>1. IsFiniteSet(Analyses) /\ Cardinality(Analyses) \in Nat
    BY OfAnalyst, FS_CardinalityType
  <2>2. IsFiniteSet(Analyses') /\ Cardinality(Analyses') = Cardinality(Analyses) + 1
    BY <1>1, <1>2, <2>1, FS_AddElement
  <2> QED BY <1>1, <2>1, <2>2, AdvisorAssumption
<1>4. /\ new \in Analysis /\ new.job = k /\ new.status = (IF starts THEN "RUNNING" ELSE "FAILED")
      /\ point \in AnalystPoints /\ point = (IF starts THEN "begun" ELSE "done")
  BY DEF Analysis, AnalystPoints
<1> HIDE DEF new, point
<1>5. analyst'[r] = point /\ Registered' = Registered
  BY <1>1 DEF Move, AdvisorInv, AdvisorTypeOK, Registered
<1>6. AnalysisInv(r)'
  BY <1>1, <1>2, <1>4, <1>5 DEF AnalysisInv, Engaged
<1> QED BY <1>1, <1>2, <1>3, <1>4, <1>6, OfAnalyst, AnalystStep

LEMMA CloseStep == AdvisorInv /\ UNCHANGED jobs /\ Close => AdvisorInv'
<1> SUFFICES ASSUME AdvisorInv, UNCHANGED jobs, Close PROVE AdvisorInv'
  OBVIOUS
<1>1. /\ closed' = TRUE /\ held' = (held \/ busy)
      /\ UNCHANGED <<analyses, analyst, busy, reserved, sends>>
  BY DEF Close
<1>2. Analyses' = Analyses /\ Registered' = Registered
  BY <1>1 DEF Analyses, Registered
<1>3. AdvisorTypeOK'
  BY <1>1, <1>2 DEF AdvisorInv, AdvisorTypeOK
<1>4. \A r \in Requests : AnalysisInv(r)'
  BY <1>1, <1>2 DEF AdvisorInv, AnalysisInv, Engaged
<1> QED BY <1>1, <1>2, <1>3, <1>4 DEF AdvisorInv, Engaged

LEMMA AdvisorInitInv == AdvisorInit => AdvisorInv
<1> SUFFICES ASSUME AdvisorInit PROVE AdvisorInv
  OBVIOUS
<1>1. Analyses = {} /\ IsFiniteSet({}) /\ Cardinality({}) = 0
  BY FS_EmptySet DEF AdvisorInit, Analyses
<1>2. AdvisorTypeOK /\ reserved = 0 /\ sends = 0
  BY <1>1 DEF AdvisorInit, AdvisorTypeOK, AnalystPoints
<1>3. \A r \in Requests : analyst[r] = "none"
  BY DEF AdvisorInit
<1> QED BY <1>1, <1>2, <1>3, AdvisorAssumption DEF AdvisorInv, AnalysisInv, Engaged

\* Every step of the service.
LEMMA AdvisorSteps == AdvisorInv /\ AdvisorNext /\ UNCHANGED jobs => AdvisorInv'
BY ProviderStep, ConcludeStep, FailAnalysisStep, LeaveAnalysisStep, SubmitAnalysisStep, CloseStep
   DEF AdvisorNext, AnalystSection
-------------------------------------------------------------------------------
\* A step that leaves the executor alone.
LEMMA ExecutorFrame ==
  ASSUME ExecutorInv, UNCHANGED executor
  PROVE  ExecutorInv' /\ HoldStep /\ Remembered
<1>1. UNCHANGED <<jobs, blocked, active, late, worker, process, running, dispatched, shutdown>>
  BY DEF executor
<1> QED BY <1>1, QuietStep DEF ExecutorInv, ExecutorTypeOK

\* ConsoleInv is inductive.
LEMMA NextConsoleInv == ConsoleInv /\ [Next]_vars => ConsoleInv' /\ HoldStep
<1> SUFFICES ASSUME ConsoleInv, [Next]_vars PROVE ConsoleInv' /\ HoldStep
  OBVIOUS
<1>1. CASE ExecutorNext /\ UNCHANGED advisor
  BY <1>1, ExecutorSteps, AdvisorFrame DEF ConsoleInv
<1>2. CASE AdvisorNext /\ UNCHANGED executor
  <2>1. UNCHANGED jobs
    BY <1>2 DEF executor
  <2> QED BY <1>2, <2>1, ExecutorFrame, AdvisorSteps DEF ConsoleInv
<1>3. CASE UNCHANGED vars
  <2>1. UNCHANGED executor /\ UNCHANGED advisor
    BY <1>3 DEF vars
  <2> QED BY <2>1, ExecutorFrame, AdvisorFrame DEF ConsoleInv
<1> QED BY <1>1, <1>2, <1>3 DEF Next

LEMMA ConsoleInvariance == Spec => []ConsoleInv
<1>1. Init => ConsoleInv
  BY ExecutorInitInv, AdvisorInitInv DEF Init, ConsoleInv
<1> QED BY <1>1, NextConsoleInv, PTL DEF Spec

LEMMA AtMostOne ==
  ASSUME NEW S, \A x, y \in S : x = y
  PROVE  IsFiniteSet(S) /\ Cardinality(S) <= 1
<1>1. CASE S = {}
  BY <1>1, FS_EmptySet
<1>2. CASE S # {}
  <2> PICK x \in S : TRUE
    BY <1>2
  <2>1. S = {x}
    OBVIOUS
  <2>2. IsFiniteSet({x}) /\ Cardinality({x}) = 1
    BY FS_Singleton
  <2> QED BY <2>1, <2>2
<1> QED BY <1>1, <1>2

\* The executor starts one process for a key and one at a time, publishes only what has
\* ended and is on disk, and is held by every record that may be missing: however many
\* jobs are submitted, and wherever shutdown() or a deadline cuts a section off.
THEOREM JobsAreAccountedFor == Spec => []JobsAccountedFor
<1>1. ConsoleInv => JobsAccountedFor
  <2> SUFFICES ASSUME ConsoleInv PROVE JobsAccountedFor
    OBVIOUS
  <2>1. ExecutorTypeOK /\ OneWorker /\ OneProcess /\ \A k \in Keys : KeyInv(k)
    BY DEF ConsoleInv, ExecutorInv
  <2>2. Cardinality(running) <= 1
    BY <2>1, AtMostOne DEF OneProcess
  <2>3. \A k \in Keys : dispatched[k] <= 1
    BY <2>1 DEF KeyInv, Started
  <2>4. ASSUME NEW k \in Registered
        PROVE  /\ jobs[k].status = "COMPLETE" => /\ dispatched[k] = 1 /\ k \notin running
                                                 /\ jobs[k].disk = "EVIDENCE_CANDIDATE" /\ jobs[k].acked
               /\ jobs[k].status = "UNKNOWN" => blocked
               /\ jobs[k].status = "UNKNOWN" /\ jobs[k].acked => jobs[k].disk = "UNKNOWN"
               /\ jobs[k].disk = "EVIDENCE_CANDIDATE" =>
                    jobs[k].status = "COMPLETE" \/ blocked \/ At(k, "failing")
               /\ ~active /\ ~blocked => jobs[k].status = "COMPLETE"
    <3>1. k \in Keys /\ jobs[k] \in Job /\ OnRecord(k)
      BY <2>1 DEF ExecutorTypeOK, KeyInv
    <3>2. ~active => ~Busy(k)
      BY <2>1, <3>1 DEF OneWorker
    <3>3. jobs[k].status \in Unfinished => Busy(k)
      BY <3>1 DEF OnRecord, Unfinished, Busy, Points
    <3>4. ~active /\ ~blocked => jobs[k].status = "COMPLETE"
      BY <3>1, <3>2, <3>3 DEF Job, Final, OnRecord
    <3> QED BY <3>1, <3>4 DEF OnRecord, At
  <2> QED BY <2>1, <2>2, <2>3, <2>4 DEF JobsAccountedFor
<1> QED BY <1>1, ConsoleInvariance, PTL

\* The provider is never called beyond its limit, the service runs one analysis at a
\* time, and advice rests on evidence that stays published.
THEOREM AdviceIsAccountedFor == Spec => []AdviceAccountedFor
<1>1. ConsoleInv => AdviceAccountedFor
  <2> SUFFICES ASSUME ConsoleInv PROVE AdviceAccountedFor
    OBVIOUS
  <2>1. AdvisorInv /\ AdvisorTypeOK
    BY DEF ConsoleInv, AdvisorInv
  <2>2. Cardinality({r \in Requests : analyst[r] \notin {"none", "done"}}) <= 1
    BY <2>1, AtMostOne DEF AdvisorInv, Engaged
  <2>3. \A r \in Analyses : /\ jobs[analyses[r].job].status = "COMPLETE"
                            /\ analyses[r].status = "COMPLETE" => analyses[r].report /\ sends > 0
                            /\ analyses[r].status = "FAILED" => held
                            /\ ~busy => analyses[r].status # "RUNNING"
    BY <2>1 DEF AdvisorInv, AdvisorTypeOK, AnalysisInv
  <2> QED BY <2>1, <2>2, <2>3 DEF AdviceAccountedFor, AdvisorInv
<1> QED BY <1>1, ConsoleInvariance, PTL

\* Once the executor is held nothing is started or completed, no outcome changes, and no
\* job is completed after its deadline.
THEOREM HoldsAreFinal == Spec => HoldIsFinal
<1>1. ConsoleInv /\ [Next]_vars => [HoldStep]_executor
  BY NextConsoleInv
<1> QED BY <1>1, ConsoleInvariance, PTL DEF Spec, HoldIsFinal, HoldStep
===============================================================================
