------------------------ MODULE AutomationJobsProofs ------------------------
(***************************************************************************)
(* OneHolder and PushesBounded, for every number of jobs, workers and      *)
(* crashes.  OneHolder rests on the lease: while it is live it is the      *)
(* holder's.  PushesBounded rests on an account of the pushes still to     *)
(* come: what a row grants to the next claim, and what each holder has     *)
(* left, never exceed what the policy, the crashes and the late leases     *)
(* have granted.                                                           *)
(***************************************************************************)
EXTENDS AutomationJobs, FiniteSetTheorems, TLAPS

Statuses == {"absent", "pending", "processing", "retrying"} \cup Terminal
JobRow == [status : Statuses, attempts : Nat, due : BOOLEAN,
           lease : {"none", "live", "expired"}]
Busy == {"claimed", "pushing", "sent", "failed"}
Labour == [stage : {"idle"} \cup Busy, job : Jobs \cup {None}, failures : Nat]

TypeOK ==
    /\ jobs \in [Jobs -> JobRow]
    /\ worker \in [Workers -> Labour]
    /\ pushed \in [Jobs -> Nat]
    /\ crashes \in Nat
    /\ late \in [Jobs -> Nat]

\* A worker is idle exactly when it holds nothing, and counts from one.
WorkerOK(w) ==
    /\ worker[w].stage = "idle" <=> worker[w].job = None
    /\ worker[w].stage \in {"pushing", "sent", "failed"} => worker[w].failures >= 1

\* A lease is on a job in process, only a job that was tried is retried, and who
\* counts beyond one has seen a first attempt.
RowOK(j) ==
    /\ jobs[j].lease # "none" <=> jobs[j].status = "processing"
    /\ jobs[j].status \in {"absent", "pending"} => jobs[j].attempts = 0
    /\ jobs[j].status = "retrying" => jobs[j].attempts >= 1
    /\ IsFiniteSet(Holders(j))
    /\ \A w \in Holders(j) :
          worker[w].stage \in {"pushing", "sent", "failed"} /\ worker[w].failures > 1
             => jobs[j].attempts >= 1

\* While no lease has run out in the hands of a worker, the lease is his alone.
Leased(j) ==
    late[j] = 0 => \A v, w \in Holders(j) : v = w /\ jobs[j].lease = "live"

(***************************************************************************)
(* The account of a job.                                                   *)
(***************************************************************************)
\* The pushes that a claim grants: its own, and after a first failure a retry.
Grant(j) == IF jobs[j].attempts = 0 THEN 2 ELSE 1
\* What is still to be claimed on a row.
RowCredit(j) ==
    CASE jobs[j].status \in {"absent", "pending", "retrying"} -> Grant(j)
      [] jobs[j].status = "processing" ->
            IF jobs[j].lease = "live" /\ Holders(j) # {} THEN 0 ELSE Grant(j)
      [] OTHER -> 0
\* What a holder has left is at least one for those in Owed, two for those in Fresh.
Fresh(j) ==
    {w \in Holders(j) :
        \/ worker[w].stage = "claimed" /\ jobs[j].attempts = 0
        \/ worker[w].stage = "pushing" /\ worker[w].failures = 1}
Owed(j) ==
    {w \in Holders(j) :
        \/ worker[w].stage \in {"claimed", "pushing"}
        \/ worker[w].stage \in {"sent", "failed"} /\ worker[w].failures = 1}
Account(j) == pushed[j] + RowCredit(j) + Cardinality(Fresh(j)) + Cardinality(Owed(j))
WithinAccount(j) == Account(j) <= PRIMARY_ATTEMPTS + crashes + 2 * late[j]

Inv ==
    /\ TypeOK
    /\ \A w \in Workers : WorkerOK(w)
    /\ \A j \in Jobs : RowOK(j) /\ Leased(j)
    /\ \A j \in Jobs : WithinAccount(j)

-----------------------------------------------------------------------------
(* Cardinalities. *)

LEMMA PartCounts ==
    ASSUME NEW T, IsFiniteSet(T), NEW S, S \subseteq T
    PROVE  /\ IsFiniteSet(S) /\ Cardinality(S) \in Nat /\ Cardinality(T) \in Nat
           /\ Cardinality(S) <= Cardinality(T)
BY FS_Subset, FS_CardinalityType

LEMMA WithoutOne ==
    ASSUME NEW T, IsFiniteSet(T), NEW w \in T, NEW S, S \subseteq T \ {w}
    PROVE  Cardinality(S) + 1 <= Cardinality(T)
<1>1. /\ IsFiniteSet(T \ {w}) /\ Cardinality(T \ {w}) = Cardinality(T) - 1
  BY FS_RemoveElement
<1>2. Cardinality(S) <= Cardinality(T \ {w}) /\ Cardinality(S) \in Nat
  BY <1>1, PartCounts
<1> QED
  BY <1>1, <1>2, PartCounts

LEMMA WithOne ==
    ASSUME NEW T, IsFiniteSet(T), NEW w, NEW S, S \subseteq T \cup {w}
    PROVE  /\ IsFiniteSet(S) /\ Cardinality(S) \in Nat
           /\ Cardinality(S) <= Cardinality(T) + 1
<1>1. /\ IsFiniteSet(T \cup {w}) /\ Cardinality(T) \in Nat
      /\ Cardinality(T \cup {w}) <= Cardinality(T) + 1
  BY FS_AddElement, FS_CardinalityType
<1>2. /\ IsFiniteSet(S) /\ Cardinality(S) \in Nat
      /\ Cardinality(S) <= Cardinality(T \cup {w}) /\ Cardinality(T \cup {w}) \in Nat
  BY <1>1, PartCounts
<1> QED
  BY <1>1, <1>2

-----------------------------------------------------------------------------
(* One job.                                                                *)

\* What the proofs of a step need to know about a job it does not touch.
JobOK(j) == RowOK(j) /\ Leased(j) /\ WithinAccount(j)

LEMMA AccountType ==
    ASSUME TypeOK, NEW j \in Jobs, RowOK(j)
    PROVE  /\ IsFiniteSet(Fresh(j)) /\ Cardinality(Fresh(j)) \in Nat
           /\ IsFiniteSet(Owed(j)) /\ Cardinality(Owed(j)) \in Nat
           /\ RowCredit(j) \in 0..2 /\ Grant(j) \in 1..2
           /\ pushed[j] \in Nat /\ late[j] \in Nat /\ crashes \in Nat
<1>1. Fresh(j) \subseteq Holders(j) /\ Owed(j) \subseteq Holders(j)
  BY DEF Fresh, Owed
<1>2. RowCredit(j) \in 0..2 /\ Grant(j) \in 1..2
  BY DEF RowCredit, Grant
<1> QED
  BY <1>1, <1>2, PartCounts DEF RowOK, TypeOK

\* A step that does not touch a job may only add to what all jobs are granted.
LEMMA OtherJob ==
    ASSUME TypeOK, TypeOK', NEW j \in Jobs, JobOK(j),
           jobs'[j] = jobs[j], Holders(j)' = Holders(j),
           \A w \in Holders(j) : worker'[w] = worker[w],
           pushed'[j] = pushed[j], late'[j] = late[j], crashes <= crashes'
    PROVE  JobOK(j)'
<1>1. RowOK(j)' /\ Leased(j)'
  BY DEF JobOK, RowOK, Leased
<1>2. Fresh(j)' = Fresh(j) /\ Owed(j)' = Owed(j)
  BY DEF Fresh, Owed
<1>3. RowCredit(j)' = RowCredit(j)
  BY DEF RowCredit, Grant
<1>4. Account(j)' = Account(j) /\ Account(j) \in Int /\ late[j] \in Nat
  BY <1>2, <1>3, AccountType DEF Account, JobOK
<1>5. crashes \in Nat /\ crashes' \in Nat
  BY DEF TypeOK
<1>6. WithinAccount(j)'
  BY <1>4, <1>5 DEF WithinAccount, JobOK, PRIMARY_ATTEMPTS
<1> QED
  BY <1>1, <1>6 DEF JobOK

LEMMA InvParts ==
    Inv <=> TypeOK /\ (\A w \in Workers : WorkerOK(w)) /\ (\A j \in Jobs : JobOK(j))
BY DEF Inv, JobOK

\* A step that leaves the workers alone needs a look at one job only ...
LEMMA OnlyTheJob ==
    ASSUME Inv, TypeOK', NEW j \in Jobs, JobOK(j)',
           \A i \in Jobs \ {j} :
              jobs'[i] = jobs[i] /\ pushed'[i] = pushed[i] /\ late'[i] = late[i],
           UNCHANGED <<worker, crashes>>
    PROVE  Inv'
<1>1. \A w \in Workers : WorkerOK(w)'
  BY DEF Inv, WorkerOK
<1>2. ASSUME NEW i \in Jobs \ {j} PROVE JobOK(i)'
  <2>1. Holders(i)' = Holders(i) /\ (\A w \in Holders(i) : worker'[w] = worker[w])
    BY DEF Holders
  <2>2. JobOK(i) /\ TypeOK /\ crashes <= crashes'
    BY InvParts DEF TypeOK
  <2> QED
    BY <2>1, <2>2, OtherJob
<1> QED
  BY <1>1, <1>2 DEF Inv, JobOK

\* ... and one that serves a worker at his job and at that worker.
LEMMA OnlyTheWorker ==
    ASSUME Inv, TypeOK', NEW w \in Workers, NEW j \in Jobs,
           WorkerOK(w)', JobOK(j)', worker[w].job \in {j, None}, worker'[w].job \in {j, None},
           \A v \in Workers \ {w} : worker'[v] = worker[v],
           \A i \in Jobs \ {j} :
              jobs'[i] = jobs[i] /\ pushed'[i] = pushed[i] /\ late'[i] = late[i],
           crashes <= crashes'
    PROVE  Inv'
<1>1. \A v \in Workers : WorkerOK(v)'
  BY DEF Inv, WorkerOK
<1>2. ASSUME NEW i \in Jobs \ {j} PROVE JobOK(i)'
  <2>1. w \notin Holders(i) /\ w \notin Holders(i)'
    BY JobConstants DEF Holders
  <2>2. Holders(i)' = Holders(i) /\ (\A v \in Holders(i) : worker'[v] = worker[v])
    BY <2>1 DEF Holders
  <2>3. JobOK(i) /\ TypeOK
    BY InvParts
  <2> QED
    BY <2>2, <2>3, OtherJob
<1> QED
  BY <1>1, <1>2 DEF Inv, JobOK

LEMMA RowFields ==
    ASSUME NEW row \in JobRow
    PROVE  /\ \A x \in Statuses : [row EXCEPT !.status = x] \in JobRow
           /\ \A x \in Nat : [row EXCEPT !.attempts = x] \in JobRow
           /\ \A x \in BOOLEAN : [row EXCEPT !.due = x] \in JobRow
           /\ \A x \in {"none", "live", "expired"} : [row EXCEPT !.lease = x] \in JobRow
BY DEF JobRow

-----------------------------------------------------------------------------
(* Each action keeps the types. *)

LEMMA TypeStep == Inv /\ [Next]_vars => TypeOK'
<1> SUFFICES ASSUME Inv, [Next]_vars PROVE TypeOK'
  OBVIOUS
<1> USE DEF Inv
<1>1. ASSUME NEW j \in Jobs, Enqueue(j) PROVE TypeOK'
  <2>1. jobs[j] \in JobRow /\ jobs \in [Jobs -> JobRow]
    BY DEF TypeOK
  <2>2. [jobs[j] EXCEPT !.status = "pending"] \in JobRow
    BY <2>1, RowFields DEF Statuses
  <2>3. [[jobs[j] EXCEPT !.status = "pending"] EXCEPT !.due = TRUE] \in JobRow
    BY <2>2, RowFields
  <2>4. jobs' \in [Jobs -> JobRow]
    BY <1>1, <2>1, <2>3 DEF Enqueue
  <2> QED
    BY <1>1, <2>4 DEF Enqueue, TypeOK
<1>2. ASSUME NEW j \in Jobs, BecomesDue(j) PROVE TypeOK'
  BY <1>2 DEF BecomesDue, TypeOK, JobRow
<1>3. ASSUME NEW j \in Jobs, LeaseExpires(j) PROVE TypeOK'
  BY <1>3 DEF LeaseExpires, TypeOK, JobRow
<1>4. ASSUME NEW w \in Workers, NEW j \in Jobs, Claim(w, j) PROVE TypeOK'
  <2>1. jobs[j] \in JobRow /\ jobs \in [Jobs -> JobRow]
    BY DEF TypeOK
  <2>2. [jobs[j] EXCEPT !.status = "processing"] \in JobRow
    BY <2>1, RowFields DEF Statuses
  <2>3. [[jobs[j] EXCEPT !.status = "processing"] EXCEPT !.lease = "live"] \in JobRow
    BY <2>2, RowFields
  <2>4. jobs' \in [Jobs -> JobRow]
    BY <1>4, <2>1, <2>3 DEF Claim
  <2>5. [stage |-> "claimed", job |-> j, failures |-> 0] \in Labour
    BY DEF Labour, Busy
  <2>6. worker' \in [Workers -> Labour]
    BY <1>4, <2>5 DEF Claim, TypeOK
  <2> QED
    BY <1>4, <2>4, <2>6 DEF Claim, TypeOK
<1>5. ASSUME NEW w \in Workers, ReadJob(w) PROVE TypeOK'
  <2>1. worker[w].job \in Jobs
    BY <1>5 DEF ReadJob, WorkerOK, TypeOK, Labour
  <2>2. jobs[worker[w].job].attempts + 1 \in Nat
    BY <2>1 DEF TypeOK, JobRow
  <2> QED
    BY <1>5, <2>2 DEF ReadJob, TypeOK, Labour, Busy
<1>6. ASSUME NEW w \in Workers, Push(w) PROVE TypeOK'
  BY <1>6 DEF Push, TypeOK, Labour, Busy
<1>7. ASSUME NEW w \in Workers, RecordSuccess(w) PROVE TypeOK'
  <2> DEFINE j == worker[w].job
  <2>1. j \in Jobs /\ jobs[j] \in JobRow
    BY <1>7 DEF RecordSuccess, WorkerOK, TypeOK, Labour
  <2>2. jobs[j].attempts + 1 \in Nat
    BY <2>1 DEF JobRow
  <2>3. jobs' \in [Jobs -> JobRow]
    BY <1>7, <2>1, <2>2 DEF RecordSuccess, TypeOK, JobRow, Statuses, Terminal
  <2> QED
    BY <1>7, <2>3 DEF RecordSuccess, Release, IdleWorker, TypeOK, Labour
<1>8. ASSUME NEW w \in Workers, RecordFailure(w) PROVE TypeOK'
  <2> DEFINE j == worker[w].job  failures == worker[w].failures
  <2>1. j \in Jobs /\ jobs[j] \in JobRow /\ failures \in Nat
    BY <1>8 DEF RecordFailure, WorkerOK, TypeOK, Labour
  <2>2. [status |-> "retrying", attempts |-> failures, due |-> FALSE, lease |-> "none"] \in JobRow
    BY <2>1 DEF JobRow, Statuses
  <2>3. [jobs[j] EXCEPT !.status = "fallback_succeeded", !.lease = "none"] \in JobRow
    BY <2>1 DEF JobRow, Statuses, Terminal
  <2>4. jobs' \in [Jobs -> JobRow]
    BY <1>8, <2>1, <2>2, <2>3 DEF RecordFailure, TypeOK
  <2> QED
    BY <1>8, <2>4 DEF RecordFailure, Release, IdleWorker, TypeOK, Labour
<1>9. ASSUME NEW w \in Workers, Crash(w) PROVE TypeOK'
  BY <1>9 DEF Crash, Release, IdleWorker, TypeOK, Labour
<1>10. CASE UNCHANGED vars
  BY <1>10 DEF vars, TypeOK
<1> QED
  BY <1>1, <1>2, <1>3, <1>4, <1>5, <1>6, <1>7, <1>8, <1>9, <1>10 DEF Next, Work

-----------------------------------------------------------------------------
(* The actions of the clock and of the code that writes the job. *)

LEMMA EnqueueKeeps ==
    ASSUME Inv, TypeOK', NEW j \in Jobs, Enqueue(j)
    PROVE  Inv'
<1>1. /\ \A i \in Jobs \ {j} : jobs'[i] = jobs[i]
      /\ UNCHANGED <<worker, pushed, crashes, late>>
  BY DEF Enqueue, Inv, TypeOK
<1>4. CASE jobs' = jobs
  <2>1. JobOK(j) /\ Holders(j)' = Holders(j) /\ TypeOK /\ crashes <= crashes'
    BY <1>1, InvParts DEF Holders, TypeOK
  <2>2. JobOK(j)'
    BY <1>1, <1>4, <2>1, OtherJob
  <2> QED
    BY <1>1, <1>4, <2>2, OnlyTheJob
<1>5. CASE jobs[j].status = "absent" /\ jobs'[j] = [jobs[j] EXCEPT !.status = "pending", !.due = TRUE]
  <2>1. JobOK(j) /\ Holders(j)' = Holders(j)
    BY <1>1, InvParts DEF Holders
  <2>2. jobs[j] \in JobRow
    BY DEF Inv, TypeOK
  <2>3. /\ jobs'[j].status = "pending" /\ jobs'[j].lease = jobs[j].lease
        /\ jobs'[j].attempts = jobs[j].attempts
    BY <1>5, <2>2 DEF JobRow
  <2>4. RowOK(j)' /\ Leased(j)'
    BY <1>1, <1>5, <2>1, <2>3 DEF JobOK, RowOK, Leased
  <2>5. Fresh(j)' = Fresh(j) /\ Owed(j)' = Owed(j) /\ RowCredit(j)' = RowCredit(j)
    BY <1>1, <1>5, <2>1, <2>3 DEF Fresh, Owed, RowCredit, Grant
  <2>6. WithinAccount(j)'
    BY <1>1, <2>1, <2>5 DEF JobOK, WithinAccount, Account
  <2> QED
    BY <1>1, <2>4, <2>6, OnlyTheJob DEF JobOK
<1> QED
  BY <1>4, <1>5 DEF Enqueue, Inv, TypeOK

LEMMA BecomesDueKeeps ==
    ASSUME Inv, TypeOK', NEW j \in Jobs, BecomesDue(j)
    PROVE  Inv'
<1>1. /\ \A i \in Jobs \ {j} : jobs'[i] = jobs[i]
      /\ UNCHANGED <<worker, pushed, crashes, late>>
  BY DEF BecomesDue, Inv, TypeOK
<1>4. JobOK(j) /\ Holders(j)' = Holders(j) /\ jobs[j] \in JobRow
  BY <1>1, InvParts DEF Holders, TypeOK
<1>5. /\ jobs'[j].status = jobs[j].status /\ jobs'[j].lease = jobs[j].lease
      /\ jobs'[j].attempts = jobs[j].attempts
  BY <1>4 DEF BecomesDue, Inv, TypeOK, JobRow
<1>6. RowOK(j)' /\ Leased(j)'
  BY <1>1, <1>4, <1>5 DEF JobOK, RowOK, Leased
<1>7. Fresh(j)' = Fresh(j) /\ Owed(j)' = Owed(j) /\ RowCredit(j)' = RowCredit(j)
  BY <1>1, <1>4, <1>5 DEF Fresh, Owed, RowCredit, Grant
<1>8. WithinAccount(j)'
  BY <1>1, <1>4, <1>7 DEF JobOK, WithinAccount, Account
<1> QED
  BY <1>1, <1>6, <1>8, OnlyTheJob DEF JobOK

\* A lease that runs out in the hands of a worker pays for the next claim.
LEMMA LeaseExpiresKeeps ==
    ASSUME Inv, TypeOK', NEW j \in Jobs, LeaseExpires(j)
    PROVE  Inv'
<1>1. /\ \A i \in Jobs \ {j} : jobs'[i] = jobs[i] /\ late'[i] = late[i]
      /\ UNCHANGED <<worker, pushed, crashes>>
      /\ late'[j] = late[j] + IF Holders(j) = {} THEN 0 ELSE 1
  BY DEF LeaseExpires, Inv, TypeOK
<1>4. JobOK(j) /\ Holders(j)' = Holders(j) /\ jobs[j] \in JobRow
  BY <1>1, InvParts DEF Holders, TypeOK
<1>5. /\ jobs[j].status = "processing" /\ jobs'[j].status = "processing"
      /\ jobs[j].lease = "live" /\ jobs'[j].lease = "expired"
      /\ jobs'[j].attempts = jobs[j].attempts
  BY <1>4 DEF LeaseExpires, JobOK, RowOK, Inv, TypeOK, JobRow
<1>6. RowOK(j)'
  BY <1>1, <1>4, <1>5 DEF JobOK, RowOK
<1>7. Leased(j)'
  <2>1. Holders(j) # {} => late'[j] # 0
    BY <1>1 DEF Inv, TypeOK
  <2> QED
    BY <2>1, <1>4 DEF Leased
<1>8. Fresh(j)' = Fresh(j) /\ Owed(j)' = Owed(j)
  BY <1>1, <1>4, <1>5 DEF Fresh, Owed
<1>9. RowCredit(j)' = Grant(j) /\ RowCredit(j) = (IF Holders(j) = {} THEN Grant(j) ELSE 0)
  BY <1>4, <1>5 DEF RowCredit, Grant
<1>10. RowCredit(j)' + 2 * late[j] <= RowCredit(j) + 2 * late'[j]
  <2>1. Grant(j) \in 1..2 /\ late[j] \in Nat
    BY <1>4, AccountType DEF JobOK, Inv
  <2> QED
    BY <1>1, <1>9, <2>1
<1>11. WithinAccount(j)'
  <2>1. /\ RowCredit(j) \in Nat /\ RowCredit(j)' \in Nat /\ pushed[j] \in Nat
        /\ late[j] \in Nat /\ late'[j] \in Nat /\ crashes \in Nat
        /\ Cardinality(Fresh(j)) \in Nat /\ Cardinality(Owed(j)) \in Nat
    BY <1>4, <1>6, AccountType DEF JobOK, Inv, TypeOK, RowCredit, Grant
  <2> QED
    BY <1>1, <1>4, <1>8, <1>10, <2>1 DEF JobOK, WithinAccount, Account, PRIMARY_ATTEMPTS
<1> QED
  BY <1>1, <1>6, <1>7, <1>11, OnlyTheJob DEF JobOK

-----------------------------------------------------------------------------
(* The actions of a worker. *)

LEMMA ClaimKeeps ==
    ASSUME Inv, TypeOK', NEW w \in Workers, NEW j \in Jobs, Claim(w, j)
    PROVE  Inv'
<1> USE JobConstants
<1>1. /\ \A i \in Jobs \ {j} : jobs'[i] = jobs[i]
      /\ \A v \in Workers \ {w} : worker'[v] = worker[v]
      /\ worker'[w] = [stage |-> "claimed", job |-> j, failures |-> 0]
      /\ UNCHANGED <<pushed, crashes, late>>
  BY DEF Claim, Inv, TypeOK
<1>2. JobOK(j) /\ TypeOK /\ jobs[j] \in JobRow /\ worker[w].job = None
  BY InvParts DEF TypeOK, Claim, WorkerOK
<1>3. /\ jobs'[j].status = "processing" /\ jobs'[j].lease = "live"
      /\ jobs'[j].attempts = jobs[j].attempts
  BY <1>2 DEF Claim, TypeOK, JobRow
<1>4. /\ jobs[j].status \in {"pending", "retrying"} \/ jobs[j].status = "processing"
      /\ jobs[j].lease # "live"
  BY DEF Claim, Claimable
<1>5. Holders(j)' = Holders(j) \cup {w} /\ w \notin Holders(j)
  BY <1>1, <1>2 DEF Holders
<1>6. RowOK(j)'
  <2>1. IsFiniteSet(Holders(j)')
    BY <1>2, <1>5, WithOne DEF JobOK, RowOK
  <2>2. \A v \in Holders(j) : worker'[v] = worker[v]
    BY <1>1, <1>5 DEF Holders
  <2> QED
    BY <1>1, <1>2, <1>3, <1>4, <1>5, <2>1, <2>2 DEF JobOK, RowOK
<1>7. Leased(j)'
  <2>1. late[j] = 0 => Holders(j) = {}
    BY <1>2, <1>4 DEF JobOK, Leased
  <2> QED
    BY <1>1, <1>3, <1>5, <2>1 DEF Leased
<1>8. WithinAccount(j)'
  <2>1. RowCredit(j)' = 0 /\ RowCredit(j) = Grant(j)
    BY <1>3, <1>4, <1>5 DEF RowCredit, Grant
  <2>2. Owed(j)' \subseteq Owed(j) \cup {w}
    BY <1>1, <1>5 DEF Owed, Holders
  <2>3. Fresh(j)' \subseteq (IF Grant(j) = 2 THEN Fresh(j) \cup {w} ELSE Fresh(j))
    BY <1>1, <1>3, <1>5 DEF Fresh, Holders, Grant
  <2>4. /\ IsFiniteSet(Fresh(j)) /\ Cardinality(Fresh(j)) \in Nat
        /\ IsFiniteSet(Owed(j)) /\ Cardinality(Owed(j)) \in Nat
        /\ Grant(j) \in 1..2 /\ pushed[j] \in Nat /\ late[j] \in Nat /\ crashes \in Nat
    BY <1>2, AccountType DEF JobOK
  <2>5. Cardinality(Owed(j)') <= Cardinality(Owed(j)) + 1 /\ Cardinality(Owed(j)') \in Nat
    BY <2>2, <2>4, WithOne
  <2>6. /\ Cardinality(Fresh(j)') <= Cardinality(Fresh(j)) + (IF Grant(j) = 2 THEN 1 ELSE 0)
        /\ Cardinality(Fresh(j)') \in Nat
    <3>1. CASE Grant(j) = 2
      BY <3>1, <2>3, <2>4, WithOne
    <3>2. CASE Grant(j) # 2
      BY <3>2, <2>3, <2>4, PartCounts
    <3> QED
      BY <3>1, <3>2
  <2> QED
    BY <1>1, <1>2, <2>1, <2>4, <2>5, <2>6 DEF JobOK, WithinAccount, Account, PRIMARY_ATTEMPTS
<1>9. WorkerOK(w)'
  BY <1>1 DEF WorkerOK
<1> QED
  BY <1>1, <1>2, <1>6, <1>7, <1>8, <1>9, OnlyTheWorker DEF JobOK, TypeOK

LEMMA ReadJobKeeps ==
    ASSUME Inv, TypeOK', NEW w \in Workers, ReadJob(w)
    PROVE  Inv'
<1> USE JobConstants
<1>1. /\ \A v \in Workers \ {w} : worker'[v] = worker[v]
      /\ UNCHANGED <<jobs, pushed, crashes, late>>
      /\ worker[w].stage = "claimed" /\ worker[w] \in Labour
  BY DEF ReadJob, Inv, TypeOK
<1> PICK j \in Jobs : j = worker[w].job
  BY <1>1, InvParts DEF WorkerOK, Labour
<1>2. TypeOK /\ JobOK(j)
  BY InvParts
<1>3. worker'[w].stage = "pushing" /\ worker'[w].job = j /\ worker'[w].failures = jobs[j].attempts + 1
  BY <1>1, <1>2 DEF ReadJob, TypeOK, Labour
<1>4. Holders(j)' = Holders(j) /\ w \in Holders(j)
  BY <1>1, <1>3 DEF Holders
<1>5. jobs[j].attempts \in Nat
  BY <1>2 DEF TypeOK, JobRow
<1>6. RowOK(j)' /\ Leased(j)'
  <2>1. RowOK(j)'
    <3>1. \A v \in Holders(j) : v = w \/ worker'[v] = worker[v]
      BY <1>1 DEF Holders
    <3> QED
      BY <1>1, <1>2, <1>3, <1>4, <1>5, <3>1 DEF JobOK, RowOK
  <2>2. Leased(j)'
    BY <1>1, <1>2, <1>4 DEF JobOK, Leased
  <2> QED
    BY <2>1, <2>2
<1>7. Fresh(j)' = Fresh(j) /\ Owed(j)' = Owed(j) /\ RowCredit(j)' = RowCredit(j)
  <2>1. \A v \in Holders(j) : v = w \/ worker'[v] = worker[v]
    BY <1>1 DEF Holders
  <2>2. Fresh(j)' = Fresh(j)
    BY <1>1, <1>3, <1>4, <1>5, <2>1 DEF Fresh
  <2>3. Owed(j)' = Owed(j)
    BY <1>1, <1>3, <1>4, <2>1 DEF Owed
  <2>4. RowCredit(j)' = RowCredit(j)
    BY <1>1, <1>4 DEF RowCredit, Grant
  <2> QED
    BY <2>2, <2>3, <2>4
<1>8. WithinAccount(j)'
  BY <1>1, <1>2, <1>7 DEF JobOK, WithinAccount, Account
<1>9. WorkerOK(w)'
  BY <1>2, <1>3, <1>5 DEF WorkerOK
<1> QED
  BY <1>1, <1>2, <1>3, <1>6, <1>8, <1>9, OnlyTheWorker DEF JobOK, TypeOK

\* The message that goes out is paid for by what the worker had left.
LEMMA PushKeeps ==
    ASSUME Inv, TypeOK', NEW w \in Workers, Push(w)
    PROVE  Inv'
<1> USE JobConstants
<1>1. /\ \A v \in Workers \ {w} : worker'[v] = worker[v]
      /\ UNCHANGED <<jobs, crashes, late>>
      /\ worker[w].stage = "pushing" /\ worker[w] \in Labour
  BY DEF Push, Inv, TypeOK
<1> PICK j \in Jobs : j = worker[w].job
  BY <1>1, InvParts DEF WorkerOK, Labour
<1>2. TypeOK /\ JobOK(j) /\ worker[w].failures >= 1
  BY <1>1, InvParts DEF WorkerOK
<1>3. /\ worker'[w].stage \in {"sent", "failed"} /\ worker'[w].job = j
      /\ worker'[w].failures = worker[w].failures /\ worker[w].failures \in Nat
  BY <1>1, <1>2 DEF Push, TypeOK, Labour
<1>4. /\ \A i \in Jobs \ {j} : pushed'[i] = pushed[i]
      /\ pushed'[j] <= pushed[j] + 1 /\ pushed'[j] \in Nat
  BY <1>2 DEF Push, TypeOK
<1>5. Holders(j)' = Holders(j) /\ w \in Holders(j)
  BY <1>1, <1>3 DEF Holders
<1>6. RowOK(j)' /\ Leased(j)'
  <2>1. RowOK(j)'
    BY <1>1, <1>2, <1>3, <1>5 DEF JobOK, RowOK, Holders
  <2>2. Leased(j)'
    BY <1>1, <1>2, <1>5 DEF JobOK, Leased
  <2> QED
    BY <2>1, <2>2
<1>7. RowCredit(j)' = RowCredit(j)
  BY <1>1, <1>5 DEF RowCredit, Grant
<1>8. /\ IsFiniteSet(Fresh(j)) /\ Cardinality(Fresh(j)) \in Nat
      /\ IsFiniteSet(Owed(j)) /\ Cardinality(Owed(j)) \in Nat
      /\ RowCredit(j) \in 0..2 /\ pushed[j] \in Nat /\ late[j] \in Nat /\ crashes \in Nat
  BY <1>2, AccountType DEF JobOK
<1>9. /\ Cardinality(Fresh(j)') + Cardinality(Owed(j)') + 1
            <= Cardinality(Fresh(j)) + Cardinality(Owed(j))
      /\ Cardinality(Fresh(j)') \in Nat /\ Cardinality(Owed(j)') \in Nat
  <2>1. CASE worker[w].failures = 1
    <3>1. w \in Fresh(j) /\ Fresh(j)' \subseteq Fresh(j) \ {w} /\ Owed(j)' \subseteq Owed(j)
      BY <1>1, <1>3, <1>5, <2>1 DEF Fresh, Owed, Holders
    <3>2. Cardinality(Fresh(j)') + 1 <= Cardinality(Fresh(j)) /\ Cardinality(Fresh(j)') \in Nat
      BY <3>1, <1>8, WithoutOne, PartCounts
    <3>3. Cardinality(Owed(j)') <= Cardinality(Owed(j)) /\ Cardinality(Owed(j)') \in Nat
      BY <3>1, <1>8, PartCounts
    <3> QED
      BY <3>2, <3>3, <1>8
  <2>2. CASE worker[w].failures # 1
    <3>1. w \in Owed(j) /\ Owed(j)' \subseteq Owed(j) \ {w} /\ Fresh(j)' \subseteq Fresh(j)
      BY <1>1, <1>3, <1>5, <2>2 DEF Fresh, Owed, Holders
    <3>2. Cardinality(Owed(j)') + 1 <= Cardinality(Owed(j)) /\ Cardinality(Owed(j)') \in Nat
      BY <3>1, <1>8, WithoutOne, PartCounts
    <3>3. Cardinality(Fresh(j)') <= Cardinality(Fresh(j)) /\ Cardinality(Fresh(j)') \in Nat
      BY <3>1, <1>8, PartCounts
    <3> QED
      BY <3>2, <3>3, <1>8
  <2> QED
    BY <2>1, <2>2
<1>10. WithinAccount(j)'
  BY <1>1, <1>2, <1>4, <1>7, <1>8, <1>9 DEF JobOK, WithinAccount, Account, PRIMARY_ATTEMPTS
<1>11. WorkerOK(w)'
  BY <1>2, <1>3 DEF WorkerOK
<1> QED
  BY <1>1, <1>2, <1>3, <1>4, <1>6, <1>10, <1>11, OnlyTheWorker DEF JobOK, TypeOK

\* A worker that records an outcome, or dies, leaves the job to those who stay.
LEMMA Leaves ==
    ASSUME Inv, TypeOK', NEW w \in Workers, NEW j \in Jobs, worker[w].job = j, Release(w)
    PROVE  /\ TypeOK /\ JobOK(j) /\ jobs[j] \in JobRow /\ worker[w] \in Labour
           /\ \A v \in Workers \ {w} : worker'[v] = worker[v]
           /\ w \in Holders(j) /\ Holders(j)' = Holders(j) \ {w}
           /\ \A v \in Holders(j)' : worker'[v] = worker[v]
           /\ IsFiniteSet(Holders(j)')
           /\ worker'[w].job = None /\ WorkerOK(w)'
<1>1. /\ TypeOK /\ JobOK(j) /\ jobs[j] \in JobRow /\ worker[w] \in Labour
      /\ \A v \in Workers \ {w} : worker'[v] = worker[v]
      /\ worker'[w] = IdleWorker
  BY InvParts DEF Release, TypeOK
<1>2. worker'[w].job = None /\ WorkerOK(w)'
  BY <1>1 DEF IdleWorker, WorkerOK
<1>3. w \in Holders(j) /\ Holders(j)' = Holders(j) \ {w}
  BY <1>1, <1>2, JobConstants DEF Holders
<1>4. \A v \in Holders(j)' : worker'[v] = worker[v]
  BY <1>1, <1>3 DEF Holders
<1>5. IsFiniteSet(Holders(j)')
  BY <1>1, <1>3, PartCounts DEF JobOK, RowOK
<1> QED
  BY <1>1, <1>2, <1>3, <1>4, <1>5

\* If his lease never ran out, nobody stays.
LEMMA LeasedLeaves ==
    ASSUME NEW w \in Workers, NEW j \in Jobs, Leased(j), late'[j] = late[j],
           w \in Holders(j), Holders(j)' = Holders(j) \ {w}
    PROVE  Leased(j)'
BY DEF Leased

\* Who stays has no more left than before, if the job was tried meanwhile.
LEMMA LeftLeaves ==
    ASSUME TypeOK, NEW w \in Workers, NEW j \in Jobs, RowOK(j),
           Holders(j)' = Holders(j) \ {w}, \A v \in Holders(j)' : worker'[v] = worker[v],
           jobs'[j].attempts = 0 => jobs[j].attempts = 0
    PROVE  /\ Fresh(j)' \subseteq Fresh(j) /\ Owed(j)' \subseteq Owed(j) \ {w}
           /\ Cardinality(Fresh(j)') \in Nat /\ Cardinality(Owed(j)') \in Nat
           /\ Cardinality(Fresh(j)') <= Cardinality(Fresh(j))
           /\ Cardinality(Owed(j)') + (IF w \in Owed(j) THEN 1 ELSE 0) <= Cardinality(Owed(j))
           /\ Cardinality(Fresh(j)) \in Nat /\ Cardinality(Owed(j)) \in Nat
           /\ RowCredit(j) \in 0..2 /\ Grant(j) \in 1..2
           /\ pushed[j] \in Nat /\ late[j] \in Nat /\ crashes \in Nat
<1>1. Fresh(j)' \subseteq Fresh(j)
  BY DEF Fresh
<1>2. Owed(j)' \subseteq Owed(j) \ {w}
  BY DEF Owed
<1>3. /\ IsFiniteSet(Fresh(j)) /\ IsFiniteSet(Owed(j))
      /\ RowCredit(j) \in 0..2 /\ Grant(j) \in 1..2
      /\ pushed[j] \in Nat /\ late[j] \in Nat /\ crashes \in Nat
  BY AccountType
<1>4. /\ Cardinality(Fresh(j)') \in Nat /\ Cardinality(Fresh(j)) \in Nat
      /\ Cardinality(Fresh(j)') <= Cardinality(Fresh(j))
  BY <1>1, <1>3, PartCounts
<1>5. /\ Cardinality(Owed(j)') \in Nat /\ Cardinality(Owed(j)) \in Nat
      /\ Cardinality(Owed(j)') <= Cardinality(Owed(j))
  BY <1>2, <1>3, PartCounts
<1>6. w \in Owed(j) => Cardinality(Owed(j)') + 1 <= Cardinality(Owed(j))
  BY <1>2, <1>3, WithoutOne
<1> QED
  BY <1>1, <1>2, <1>3, <1>4, <1>5, <1>6

LEMMA RecordSuccessKeeps ==
    ASSUME Inv, TypeOK', NEW w \in Workers, RecordSuccess(w)
    PROVE  Inv'
<1>1. worker[w].stage = "sent" /\ Release(w) /\ UNCHANGED <<pushed, crashes, late>>
  BY DEF RecordSuccess
<1> PICK j \in Jobs : j = worker[w].job
  BY <1>1, InvParts DEF WorkerOK, TypeOK, Labour
<1>2. /\ TypeOK /\ JobOK(j) /\ jobs[j] \in JobRow
      /\ \A v \in Workers \ {w} : worker'[v] = worker[v]
      /\ w \in Holders(j) /\ Holders(j)' = Holders(j) \ {w}
      /\ \A v \in Holders(j)' : worker'[v] = worker[v]
      /\ IsFiniteSet(Holders(j)')
      /\ worker'[w].job = None /\ WorkerOK(w)'
  BY <1>1, Leaves
<1>3. /\ \A i \in Jobs \ {j} : jobs'[i] = jobs[i]
      /\ jobs'[j].status = "completed" /\ jobs'[j].lease = "none"
      /\ jobs'[j].attempts = jobs[j].attempts + 1 /\ jobs[j].attempts \in Nat
  BY <1>2 DEF RecordSuccess, TypeOK, JobRow
<1>4. RowOK(j)'
  BY <1>2, <1>3 DEF RowOK
<1>5. Leased(j)'
  BY <1>1, <1>2, LeasedLeaves DEF JobOK
<1>6. RowCredit(j)' = 0
  BY <1>3 DEF RowCredit
<1>7. WithinAccount(j)'
  BY <1>1, <1>2, <1>3, <1>6, LeftLeaves DEF JobOK, WithinAccount, Account, PRIMARY_ATTEMPTS
<1> QED
  BY <1>1, <1>2, <1>3, <1>4, <1>5, <1>7, OnlyTheWorker DEF JobOK, TypeOK

\* A first failure, however late, leaves its worker's retry to the row.
LEMMA RecordFailureKeeps ==
    ASSUME Inv, TypeOK', NEW w \in Workers, RecordFailure(w)
    PROVE  Inv'
<1>1. worker[w].stage = "failed" /\ Release(w) /\ UNCHANGED <<pushed, crashes, late>>
  BY DEF RecordFailure
<1> PICK j \in Jobs : j = worker[w].job
  BY <1>1, InvParts DEF WorkerOK, TypeOK, Labour
<1>2. /\ TypeOK /\ JobOK(j) /\ jobs[j] \in JobRow /\ worker[w] \in Labour
      /\ \A v \in Workers \ {w} : worker'[v] = worker[v]
      /\ w \in Holders(j) /\ Holders(j)' = Holders(j) \ {w}
      /\ \A v \in Holders(j)' : worker'[v] = worker[v]
      /\ IsFiniteSet(Holders(j)')
      /\ worker'[w].job = None /\ WorkerOK(w)' /\ worker[w].failures >= 1
  BY <1>1, Leaves, InvParts DEF WorkerOK
<1>3. /\ \A i \in Jobs \ {j} : jobs'[i] = jobs[i]
      /\ \/ /\ worker[w].failures = 1
            /\ jobs'[j].status = "retrying" /\ jobs'[j].lease = "none"
            /\ jobs'[j].attempts = 1
         \/ /\ jobs'[j].status = "fallback_succeeded" /\ jobs'[j].lease = "none"
            /\ jobs'[j].attempts = jobs[j].attempts
  BY <1>2 DEF RecordFailure, MayRetry, PRIMARY_ATTEMPTS, TypeOK, JobRow, Labour
<1>4. RowOK(j)'
  BY <1>2, <1>3 DEF JobOK, RowOK
<1>5. Leased(j)'
  BY <1>1, <1>2, LeasedLeaves DEF JobOK
<1>6. RowCredit(j)' = 0 \/ (RowCredit(j)' = 1 /\ w \in Owed(j))
  BY <1>1, <1>2, <1>3 DEF RowCredit, Grant, Owed
<1>7. WithinAccount(j)'
  BY <1>1, <1>2, <1>3, <1>6, LeftLeaves DEF JobOK, WithinAccount, Account, PRIMARY_ATTEMPTS
<1> QED
  BY <1>1, <1>2, <1>3, <1>4, <1>5, <1>7, OnlyTheWorker DEF JobOK, TypeOK

\* The death of a worker pays, with what he had left, for the next claim.
LEMMA CrashKeeps ==
    ASSUME Inv, TypeOK', NEW w \in Workers, Crash(w)
    PROVE  Inv'
<1>1. /\ worker[w].stage # "idle" /\ Release(w) /\ UNCHANGED <<jobs, pushed, late>>
      /\ crashes' = crashes + 1
  BY DEF Crash
<1> PICK j \in Jobs : j = worker[w].job
  BY <1>1, InvParts DEF WorkerOK, TypeOK, Labour
<1>2. /\ TypeOK /\ JobOK(j) /\ jobs[j] \in JobRow /\ worker[w] \in Labour
      /\ \A v \in Workers \ {w} : worker'[v] = worker[v]
      /\ w \in Holders(j) /\ Holders(j)' = Holders(j) \ {w}
      /\ \A v \in Holders(j)' : worker'[v] = worker[v]
      /\ IsFiniteSet(Holders(j)')
      /\ worker'[w].job = None /\ WorkerOK(w)'
  BY <1>1, Leaves
<1>3. RowOK(j)'
  BY <1>1, <1>2 DEF JobOK, RowOK
<1>4. Leased(j)'
  BY <1>1, <1>2, LeasedLeaves DEF JobOK
<1>5. Grant(j) = 2 => w \in Owed(j)
  BY <1>1, <1>2, InvParts DEF Grant, Owed, JobOK, RowOK, WorkerOK, Labour, Busy
<1>6. RowCredit(j)' <= RowCredit(j) + Grant(j) /\ RowCredit(j)' \in 0..2
  BY <1>1, <1>2 DEF RowCredit, Grant
<1>7. WithinAccount(j)'
  <2>1. /\ Cardinality(Fresh(j)') \in Nat /\ Cardinality(Owed(j)') \in Nat
        /\ Cardinality(Fresh(j)') <= Cardinality(Fresh(j))
        /\ Cardinality(Owed(j)') + (IF w \in Owed(j) THEN 1 ELSE 0) <= Cardinality(Owed(j))
        /\ Cardinality(Fresh(j)) \in Nat /\ Cardinality(Owed(j)) \in Nat
        /\ RowCredit(j) \in 0..2 /\ Grant(j) \in 1..2
        /\ pushed[j] \in Nat /\ late[j] \in Nat /\ crashes \in Nat
    BY <1>1, <1>2, LeftLeaves DEF JobOK
  <2> QED
    BY <1>1, <1>2, <1>5, <1>6, <2>1 DEF JobOK, WithinAccount, Account, PRIMARY_ATTEMPTS
<1> QED
  BY <1>1, <1>2, <1>3, <1>4, <1>7, OnlyTheWorker DEF JobOK, TypeOK

-----------------------------------------------------------------------------
(* The theorems. *)

LEMMA InvInit == Init => Inv
<1> SUFFICES ASSUME Init PROVE Inv
  OBVIOUS
<1>1. TypeOK
  BY DEF Init, TypeOK, NoJob, IdleWorker, JobRow, Statuses, Terminal, Labour
<1>2. \A w \in Workers : WorkerOK(w)
  BY DEF Init, IdleWorker, WorkerOK
<1>3. ASSUME NEW j \in Jobs PROVE JobOK(j)
  <2>1. Holders(j) = {} /\ Fresh(j) = {} /\ Owed(j) = {}
    BY JobConstants DEF Init, IdleWorker, Holders, Fresh, Owed
  <2>2. IsFiniteSet({}) /\ Cardinality({}) = 0
    BY FS_EmptySet
  <2>3. RowOK(j) /\ Leased(j)
    BY <2>1, <2>2 DEF Init, NoJob, RowOK, Leased
  <2>4. RowCredit(j) = 2 /\ pushed[j] = 0 /\ late[j] = 0 /\ crashes = 0
    BY DEF Init, NoJob, RowCredit, Grant
  <2>5. WithinAccount(j)
    BY <2>1, <2>2, <2>4 DEF WithinAccount, Account, PRIMARY_ATTEMPTS
  <2> QED
    BY <2>3, <2>5 DEF JobOK
<1> QED
  BY <1>1, <1>2, <1>3, InvParts

LEMMA InvStep == Inv /\ [Next]_vars => Inv'
<1> SUFFICES ASSUME Inv, [Next]_vars PROVE Inv'
  OBVIOUS
<1>1. TypeOK'
  BY TypeStep
<1>2. ASSUME NEW j \in Jobs, Enqueue(j) \/ BecomesDue(j) \/ LeaseExpires(j) PROVE Inv'
  BY <1>1, <1>2, EnqueueKeeps, BecomesDueKeeps, LeaseExpiresKeeps
<1>3. ASSUME NEW w \in Workers, NEW j \in Jobs, Claim(w, j) PROVE Inv'
  BY <1>1, <1>3, ClaimKeeps
<1>4. ASSUME NEW w \in Workers, Work(w) \/ Crash(w) PROVE Inv'
  BY <1>1, <1>4, ReadJobKeeps, PushKeeps, RecordSuccessKeeps, RecordFailureKeeps, CrashKeeps
     DEF Work
<1>5. CASE UNCHANGED vars
  <2>1. /\ \A w \in Workers : WorkerOK(w)'
        /\ \A j \in Jobs : RowOK(j)' /\ Leased(j)'
    BY <1>5 DEF vars, Inv, WorkerOK, RowOK, Leased, Holders
  <2>2. \A j \in Jobs : WithinAccount(j)'
    BY <1>5 DEF vars, Inv, WithinAccount, Account, RowCredit, Grant, Fresh, Owed, Holders
  <2> QED
    BY <1>1, <2>1, <2>2 DEF Inv
<1> QED
  BY <1>2, <1>3, <1>4, <1>5 DEF Next

LEMMA AlwaysInv == Spec => []Inv
BY InvInit, InvStep, PTL DEF Spec

\* The claim of processAutomationJob is a mutual exclusion: as long as pushes end
\* within the lease, one worker at most has a job, and only while it is in process.
THEOREM ClaimExcludes == Spec => []OneHolder
<1>1. Inv => OneHolder
  <2> SUFFICES ASSUME Inv, NEW j \in Jobs, late[j] = 0
               PROVE  /\ Cardinality(Holders(j)) <= 1
                      /\ Holders(j) # {} => jobs[j].status = "processing"
    BY DEF OneHolder
  <2>1. \A v, w \in Holders(j) : v = w /\ jobs[j].lease = "live"
    BY DEF Inv, Leased
  <2>2. CASE Holders(j) = {}
    BY <2>2, FS_EmptySet
  <2>3. ASSUME NEW w \in Holders(j)
        PROVE  Cardinality(Holders(j)) = 1 /\ jobs[j].status = "processing"
    <3>1. Holders(j) = {w}
      BY <2>1
    <3>2. Cardinality({w}) = 1
      BY FS_Singleton
    <3> QED
      BY <3>1, <3>2, <2>1 DEF Inv, RowOK
  <2> QED
    BY <2>2, <2>3
<1> QED
  BY <1>1, AlwaysInv, PTL

\* A customer is told a bounded number of times: two attempts, one more for each
\* worker that died, two more for each lease that ran out during a push.
THEOREM PushesStayBounded == Spec => []PushesBounded
<1>1. Inv => PushesBounded
  <2> SUFFICES ASSUME Inv, NEW j \in Jobs
               PROVE  pushed[j] <= PRIMARY_ATTEMPTS + crashes + 2 * late[j]
    BY DEF PushesBounded
  <2> QED
    BY AccountType DEF Inv, WithinAccount, Account, PRIMARY_ATTEMPTS
<1> QED
  BY <1>1, AlwaysInv, PTL
=============================================================================
