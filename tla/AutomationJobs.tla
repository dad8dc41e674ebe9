--------------------------- MODULE AutomationJobs ---------------------------
(***************************************************************************)
(* The durable notification jobs of lib/automation.  A job row is written  *)
(* in the transaction it reports on; any worker (the request that wrote it *)
(* or the cron) claims it under a lease of LOCK_MS, pushes the LINE        *)
(* message and records the outcome by the id of the row.  The second       *)
(* failure ends in the fallback.  Time is abstracted to two facts about a  *)
(* row: its next attempt is due, its lease has run out.                    *)
(***************************************************************************)
EXTENDS Integers, FiniteSets

CONSTANTS
    Jobs,          \* job keys
    Workers,       \* requests and cron runs that process jobs
    MaxCrashes,    \* how many workers die in the middle of a job
    None           \* a worker that holds no job

PRIMARY_ATTEMPTS == 2  \* AUTOMATION_PRIMARY_ATTEMPTS

ASSUME JobConstants ==
    /\ MaxCrashes \in Nat /\ None \notin Jobs

VARIABLES
    jobs,     \* automation_jobs
    worker,   \* what each worker is doing
    pushed,   \* LINE messages the customer has received for a job
    crashes,
    late      \* how often the lease of a job ran out in the hands of a worker

vars == <<jobs, worker, pushed, crashes, late>>

Terminal == {"completed", "fallback_succeeded"}
NoJob == [status |-> "absent", attempts |-> 0, due |-> FALSE,
          lease |-> "none"]

\* `failures` is the number of attempts the worker would record for a failure.
IdleWorker == [stage |-> "idle", job |-> None, failures |-> 0]

Holders(j) == {w \in Workers : worker[w].job = j}

Init ==
    /\ jobs = [j \in Jobs |-> NoJob]
    /\ worker = [w \in Workers |-> IdleWorker]
    /\ pushed = [j \in Jobs |-> 0]
    /\ crashes = 0
    /\ late = [j \in Jobs |-> 0]

\* enqueueRefillPaidNotification, enqueueRefillCompletedNotification: an
\* upsert by the job key that leaves a row alone that is there already.
Enqueue(j) ==
    /\ \/ /\ jobs[j].status = "absent"
          /\ jobs' = [jobs EXCEPT ![j].status = "pending", ![j].due = TRUE]
       \/ jobs[j].status # "absent" /\ UNCHANGED jobs
    /\ UNCHANGED <<worker, pushed, crashes, late>>

\* The condition of the claiming update, and of the cron's search.
ClaimableUnleased(j) == \* mutant: the lease is not looked at
    jobs[j].status \in {"pending", "retrying", "processing"}
ClaimableFresh(j) == \* mutant: a job whose worker died is not taken over
    jobs[j].status \in {"pending", "retrying"} /\ jobs[j].due
Claimable(j) ==
    \/ /\ jobs[j].status \in {"pending", "retrying"} /\ jobs[j].due
       /\ jobs[j].lease # "live"
    \/ jobs[j].status = "processing" /\ jobs[j].lease = "expired"

\* processAutomationJob: claim the row ...
Claim(w, j) ==
    /\ worker[w].stage = "idle" /\ Claimable(j)
    /\ jobs' = [jobs EXCEPT ![j].status = "processing", ![j].lease = "live"]
    /\ worker' = [worker EXCEPT ![w] =
                    [stage |-> "claimed", job |-> j, failures |-> 0]]
    /\ UNCHANGED <<pushed, crashes, late>>

\* ... read it ...
ReadJob(w) ==
    /\ worker[w].stage = "claimed"
    /\ worker' = [worker EXCEPT ![w].stage = "pushing",
                    ![w].failures = jobs[worker[w].job].attempts + 1]
    /\ UNCHANGED <<jobs, pushed, crashes, late>>

\* ... and push the message.  A customer without LINE gets none; the answer of
\* the LINE API may be lost, and a message that is sent but whose success
\* cannot be recorded counts as a failure too.
Push(w) ==
    /\ worker[w].stage = "pushing"
    /\ \/ /\ worker' = [worker EXCEPT ![w].stage = "sent"]
          /\ \/ UNCHANGED pushed
             \/ pushed' = [pushed EXCEPT ![worker[w].job] = @ + 1]
       \/ /\ worker' = [worker EXCEPT ![w].stage = "failed"]
          /\ \/ UNCHANGED pushed
             \/ pushed' = [pushed EXCEPT ![worker[w].job] = @ + 1]
    /\ UNCHANGED <<jobs, crashes, late>>

Release(w) == worker' = [worker EXCEPT ![w] = IdleWorker]

RecordSuccess(w) ==
    LET j == worker[w].job IN
    /\ worker[w].stage = "sent"
    /\ jobs' = [jobs EXCEPT ![j].status = "completed",
                            ![j].attempts = @ + 1, ![j].lease = "none"]
    /\ Release(w)
    /\ UNCHANGED <<pushed, crashes, late>>

\* decideRecovery: retry after the first failure, then fall back.
RetryForever(failures) == TRUE \* mutant: the second failure is retried too
MayRetry(failures) == failures < PRIMARY_ATTEMPTS

RecordFailure(w) ==
    LET j == worker[w].job
        failures == worker[w].failures
    IN
    /\ worker[w].stage = "failed"
    /\ \/ /\ MayRetry(failures)
          /\ jobs' = [jobs EXCEPT ![j] =
                        [status |-> "retrying", attempts |-> failures,
                         due |-> FALSE, lease |-> "none"]]
       \/ /\ ~MayRetry(failures)
          /\ jobs' = [jobs EXCEPT ![j].status = "fallback_succeeded",
                                  ![j].lease = "none"]
    /\ Release(w)
    /\ UNCHANGED <<pushed, crashes, late>>

-----------------------------------------------------------------------------
(* The clock, and the death of workers. *)

BecomesDue(j) ==
    /\ jobs[j].status = "retrying" /\ ~jobs[j].due
    /\ jobs' = [jobs EXCEPT ![j].due = TRUE]
    /\ UNCHANGED <<worker, pushed, crashes, late>>

LeaseExpires(j) ==
    /\ jobs[j].lease = "live"
    /\ jobs' = [jobs EXCEPT ![j].lease = "expired"]
    /\ late' = [late EXCEPT ![j] = @ + IF Holders(j) = {} THEN 0 ELSE 1]
    /\ UNCHANGED <<worker, pushed, crashes>>

\* Also a database error in any step that is not inside the try block.
Crash(w) ==
    /\ worker[w].stage # "idle" /\ crashes < MaxCrashes
    /\ Release(w) /\ crashes' = crashes + 1
    /\ UNCHANGED <<jobs, pushed, late>>

Work(w) == ReadJob(w) \/ Push(w) \/ RecordSuccess(w) \/ RecordFailure(w)

Next ==
    \/ \E j \in Jobs : Enqueue(j) \/ BecomesDue(j) \/ LeaseExpires(j)
    \/ \E w \in Workers, j \in Jobs : Claim(w, j)
    \/ \E w \in Workers : Work(w) \/ Crash(w)

Spec == Init /\ [][Next]_vars

\* The cron runs every minute and takes every job that can be claimed; a
\* worker that lives finishes its job; time passes.
Fairness ==
    /\ \A w \in Workers : WF_vars(Work(w))
    /\ \A j \in Jobs : /\ SF_vars(\E w \in Workers : Claim(w, j))
                       /\ WF_vars(BecomesDue(j))
                       /\ WF_vars(LeaseExpires(j))

FairSpec == Spec /\ Fairness

-----------------------------------------------------------------------------
(* Properties. *)

\* While pushes end within the lease, a job is in the hands of one worker,
\* and only while it is 'processing': the claim is the mutual exclusion.
OneHolder ==
    \A j \in Jobs : late[j] = 0 =>
        /\ Cardinality(Holders(j)) <= 1
        /\ Holders(j) # {} => jobs[j].status = "processing"

\* The customer is not told the same thing over and over: at most one message
\* for each attempt the policy grants, one more for each worker that died
\* between the push and the record of it, and two for each lease that ran
\* out during a push: another worker pushes, and the late failure of the
\* first one, written over the outcome of the second, starts a retry.
PushesBounded ==
    \A j \in Jobs : pushed[j] <= PRIMARY_ATTEMPTS + crashes + 2 * late[j]

\* No notification is forgotten: a job that is written ends for good, with
\* the message delivered or with the fallback, although workers die with the
\* job in their hands and although pushes outlast their leases.
EveryJobEnds ==
    \A j \in Jobs :
        jobs[j].status # "absent" ~> [](jobs[j].status \in Terminal)
=============================================================================
