-------------------------------- MODULE Executor --------------------------------
(***************************************************************************)
(* DemoExecutor (evidence_console/demo_execution_v1.py) and ChatExecutor     *)
(* (chat_execution_v1.py), which has the same control: requests from several *)
(* web threads, one worker thread at a time that runs one process under an   *)
(* absolute deadline, and the shutdown of the application. One action is one *)
(* section under the lock, or what happens between two of them.              *)
(***************************************************************************)
EXTENDS Naturals, FiniteSets

CONSTANTS Keys,        \* idempotency keys; a job is named by its key
          MaxJobs      \* max_jobs

ASSUME ExecutorAssumption == MaxJobs \in Nat \ {0}

VARIABLES
  jobs,         \* the registered jobs, by key
  blocked, active,
  late,         \* the jobs whose deadline has passed
  worker,       \* where the worker thread of each job is
  process,      \* the job whose process _process is, or none: a set
  running,      \* the jobs whose process may still run
  dispatched,   \* how many processes were started for each key (history)
  shutdown      \* how far shutdown() is, and the process it is to end

executor == <<jobs, blocked, active, late, worker, process, running, dispatched, shutdown>>

Unfinished == {"RESERVED", "RUNNING"}
Final == {"COMPLETE", "UNKNOWN"}

\* disk is the last record in the directory states/, taken says that the file of
\* the next number exists already, and acked that the terminal record was acknowledged.
Job == [status : Unfinished \cup Final,
        disk : Unfinished \cup {"EVIDENCE_CANDIDATE", "UNKNOWN"},
        taken : BOOLEAN, acked : BOOLEAN]

Points == {"none", "ready", "prepared", "waiting", "exited", "failing", "leaving", "done"}

ExecutorInit ==
  /\ jobs = << >>
  /\ blocked = FALSE /\ active = FALSE
  /\ late = {}
  /\ worker = [k \in Keys |-> "none"]
  /\ process = {} /\ running = {}
  /\ dispatched = [k \in Keys |-> 0]
  /\ shutdown = [at |-> "up", process |-> {}]

Registered == DOMAIN jobs
At(k, point) == worker[k] = point
Go(k, point) == worker' = [worker EXCEPT ![k] = point]

\* A record is written and acknowledged, not written, or written without
\* acknowledgement; a file that exists is never overwritten.
Writes == {"ok", "lost", "kept"}
Acknowledged(job, write) == write = "ok" /\ ~job.taken
Persisted(job, record, write) ==
  IF job.taken \/ write = "lost" THEN job
  ELSE [job EXCEPT !.disk = record, !.taken = (write = "kept")]

\* The clock may pass the deadline at any point of a section.
Passes(k, passed) == late' = IF passed THEN late \cup {k} ELSE late

\* _fail_job: its record may not be acknowledged, nor that of the cleanup.
FailedJob(job, write) ==
  [Persisted(job, "UNKNOWN", write) EXCEPT !.status = "UNKNOWN", !.acked = Acknowledged(job, write)]
FailJob(k, job, write) == /\ jobs' = [jobs EXCEPT ![k] = FailedJob(job, write)]
                          /\ blocked' = TRUE
-------------------------------------------------------------------------------
IsNewOrDone(k) == k \in Registered => jobs[k].status = "COMPLETE"
IsNew(k) == k \notin Registered

\* submit() with a new key. With a registered key it answers with the job or a
\* conflict, and when blocked, busy or full it refuses: nothing changes.
Register(k, first, write, passed, starts) ==
  /\ IsNew(k)
  /\ ~blocked /\ ~active
  /\ Cardinality(Registered) < MaxJobs
  /\ UNCHANGED <<process, running, dispatched, shutdown>>
  /\ IF first # "ok"
     THEN \* the reservation is not confirmed, and the job not registered
          /\ blocked' = TRUE
          /\ UNCHANGED <<jobs, active, late, worker>>
     ELSE LET job == [status |-> "RESERVED", disk |-> "RESERVED", taken |-> FALSE, acked |-> FALSE]
              good == ~passed /\ starts
          IN /\ Passes(k, passed)
             /\ jobs' = [l \in Registered \cup {k} |->
                           IF l # k THEN jobs[l]
                           ELSE IF good THEN job ELSE FailedJob(job, write)]
             /\ blocked' = ~good
             /\ active' = good
             /\ IF good THEN Go(k, "ready") ELSE UNCHANGED worker

\* The worker's first section: RUNNING is on record before anything is started.
Begin(k, first, write, passed) ==
  /\ At(k, "ready")
  /\ UNCHANGED <<process, running, dispatched, shutdown>>
  /\ Passes(k, passed)
  /\ LET job == [Persisted(jobs[k], "RUNNING", first) EXCEPT !.status = "RUNNING"] IN
     \/ /\ blocked \/ k \in late'
        /\ FailJob(k, jobs[k], write)
        /\ active' = FALSE /\ Go(k, "done")
     \/ /\ ~blocked /\ k \notin late
        /\ ~Acknowledged(jobs[k], first)
        /\ jobs' = [jobs EXCEPT ![k] = [job EXCEPT !.status = "UNKNOWN"]]
        /\ blocked' = TRUE /\ active' = FALSE /\ Go(k, "done")
     \/ /\ ~blocked /\ k \notin late
        /\ Acknowledged(jobs[k], first)
        /\ IF k \in late'
           THEN FailJob(k, job, write) /\ active' = FALSE /\ Go(k, "done")
           ELSE /\ jobs' = [jobs EXCEPT ![k] = job]
                /\ Go(k, "prepared")
                /\ UNCHANGED <<blocked, active>>

StoppedLate(k) == k \in late
Stopped(k) == blocked \/ k \in late

\* The process is started under the lock, or not at all.
Launch(k) ==
  /\ At(k, "prepared") /\ ~Stopped(k)
  /\ dispatched' = [dispatched EXCEPT ![k] = @ + 1]
  /\ running' = running \cup {k}
  /\ process' = {k}
  /\ Go(k, "waiting")
  /\ UNCHANGED <<jobs, blocked, active, late, shutdown>>

\* A process that ends wakes its worker; a code other than zero, which is that of
\* a process that was ended, is an exception.
Wake(k, points) == IF At(k, "waiting") THEN \E point \in points : Go(k, point)
                                       ELSE UNCHANGED worker

Exit(k) == /\ k \in running
           /\ running' = running \ {k}
           /\ Wake(k, {"exited", "failing"})
           /\ UNCHANGED <<jobs, blocked, active, late, process, dispatched, shutdown>>

\* wait() gives up at the deadline; the attempt to end the process may fail.
TimeOut(k) == /\ At(k, "waiting") /\ k \in late
              /\ running' \in {running, running \ {k}}
              /\ Go(k, "failing")
              /\ UNCHANGED <<jobs, blocked, active, late, process, dispatched, shutdown>>

\* The hold or the deadline is noticed, a file cannot be written, or the receipt
\* or the evidence does not verify.
Raise(k) == /\ worker[k] \in {"prepared", "exited"}
            /\ Go(k, "failing")
            /\ UNCHANGED <<jobs, blocked, active, late, process, running, dispatched, shutdown>>

\* The evidence verifies: the candidate is on record before the job is COMPLETE.
Publish(k, first, write, passed) ==
  /\ At(k, "exited") /\ ~Stopped(k)
  /\ Passes(k, passed)
  /\ UNCHANGED <<active, process, running, dispatched, shutdown>>
  /\ LET candidate == Persisted(jobs[k], "EVIDENCE_CANDIDATE", first) IN
     IF ~Acknowledged(jobs[k], first)
     THEN /\ jobs' = [jobs EXCEPT ![k] = candidate]
          /\ Go(k, "failing")
          /\ UNCHANGED blocked
     ELSE /\ Go(k, "leaving")
          /\ IF passed
             THEN FailJob(k, candidate, write)
             ELSE /\ jobs' = [jobs EXCEPT ![k] = [candidate EXCEPT !.status = "COMPLETE",
                                                                   !.acked = TRUE]]
                  /\ UNCHANGED blocked

\* The worker's handler: the job fails, whatever shutdown() made of it before.
Handle(k, write) == /\ At(k, "failing")
                    /\ FailJob(k, jobs[k], write)
                    /\ Go(k, "leaving")
                    /\ UNCHANGED <<active, late, process, running, dispatched, shutdown>>

\* The worker's last section (finally).
BusyAfterAll(k) == active /\ jobs[k].status = "UNKNOWN"
BusyAfter(k) == FALSE
Leave(k) == /\ At(k, "leaving")
            /\ active' = BusyAfter(k) /\ process' = {}
            /\ Go(k, "done")
            /\ UNCHANGED <<jobs, blocked, late, running, dispatched, shutdown>>

Expire(k) == /\ k \in Registered \ late
             /\ late' = late \cup {k}
             /\ UNCHANGED <<jobs, blocked, active, worker, process, running, dispatched, shutdown>>

\* shutdown() fails what is unfinished, then ends the process it saw.
Shutdown(write) ==
  /\ shutdown.at = "up"
  /\ shutdown' = [at |-> "marked", process |-> process]
  /\ blocked' = TRUE
  /\ jobs' = [k \in Registered |-> IF jobs[k].status \in Unfinished
                                   THEN FailedJob(jobs[k], write) ELSE jobs[k]]
  /\ UNCHANGED <<active, late, worker, process, running, dispatched>>

Terminate ==
  /\ shutdown.at = "marked"
  /\ shutdown' = [shutdown EXCEPT !.at = "ended"]
  /\ \/ UNCHANGED <<running, worker>>
     \/ \E k \in shutdown.process \cap running : running' = running \ {k} /\ Wake(k, {"failing"})
  /\ UNCHANGED <<jobs, blocked, active, late, process, dispatched>>

WorkerSection(k) == \/ Launch(k) \/ Raise(k) \/ TimeOut(k) \/ Leave(k)
                    \/ \E first, write \in Writes, passed \in BOOLEAN :
                         Begin(k, first, write, passed) \/ Publish(k, first, write, passed)
                    \/ \E write \in Writes : Handle(k, write)

ExecutorNext ==
  \/ \E k \in Keys : \/ WorkerSection(k) \/ Exit(k) \/ Expire(k)
                     \/ \E first, write \in Writes, passed, starts \in BOOLEAN :
                          Register(k, first, write, passed, starts)
  \/ \E write \in Writes : Shutdown(write)
  \/ Terminate

\* Worker threads run and the clock goes on; nobody has to shut anything down.
ExecutorFairness == \A k \in Keys : WF_executor(WorkerSection(k)) /\ WF_executor(Expire(k))
-------------------------------------------------------------------------------
ExecutorTypeOK == /\ Registered \subseteq Keys /\ \A k \in Registered : jobs[k] \in Job
                  /\ blocked \in BOOLEAN /\ active \in BOOLEAN
                  /\ late \subseteq Registered
                  /\ worker \in [Keys -> Points]
                  /\ process \subseteq Keys /\ running \subseteq Keys
                  /\ dispatched \in [Keys -> Nat]
                  /\ shutdown \in [at : {"up", "marked", "ended"}, process : SUBSET Keys]

\* A key is dispatched at most once and one process runs at a time, even when
\* one could not be ended; COMPLETE was dispatched, has ended and is on disk as a
\* candidate; a candidate on disk without COMPLETE, and a terminal record that may
\* be missing, hold the executor.
JobsAccountedFor ==
  /\ ExecutorTypeOK
  /\ Cardinality(running) <= 1
  /\ \A k \in Keys : dispatched[k] <= 1
  /\ \A k \in Registered :
       /\ jobs[k].status = "COMPLETE" => /\ dispatched[k] = 1 /\ k \notin running
                                         /\ jobs[k].disk = "EVIDENCE_CANDIDATE" /\ jobs[k].acked
       /\ jobs[k].status = "UNKNOWN" => blocked
       /\ jobs[k].status = "UNKNOWN" /\ jobs[k].acked => jobs[k].disk = "UNKNOWN"
       /\ jobs[k].disk = "EVIDENCE_CANDIDATE" =>
            jobs[k].status = "COMPLETE" \/ blocked \/ At(k, "failing")
       /\ ~active /\ ~blocked => jobs[k].status = "COMPLETE"

\* An outcome is final, and a hold is: once the executor is held, by a failure or
\* by shutdown() in the middle of a job, nothing is started or completed any more;
\* nor is a job completed after its deadline.
HoldIsFinal ==
  [][/\ blocked => blocked' /\ dispatched' = dispatched
     /\ \A k \in Registered : jobs[k].status \in Final => jobs'[k].status = jobs[k].status
     /\ \A k \in Registered : jobs'[k].status = "COMPLETE" =>
          jobs[k].status = "COMPLETE" \/ ~(blocked \/ k \in late)]_executor

\* Every job that is registered ends, and leaves the executor idle.
EveryJobEnds == \A k \in Keys :
  k \in Registered ~> k \in Registered /\ jobs[k].status \in Final /\ ~active
===============================================================================
