------------------------------ MODULE JobQueue ------------------------------
(***************************************************************************)
(* The jobs package: a durable queue in a database table, and the worker   *)
(* processes that claim, run and retry its rows.  Workers share nothing    *)
(* but the table; each SQL statement is one step, and a worker may die     *)
(* between any two.                                                        *)
(*                                                                         *)
(* Times are kept relative to now, so that the clock may run for ever:     *)
(* Tick moves all of them.  What a handler does is left out: it returns    *)
(* or raises.  Every queue is polled.                                      *)
(***************************************************************************)
EXTENDS Integers

CONSTANTS
  Workers,
  Rows,          \* room in the jobs table
  Handled,       \* the rows whose kind has a handler
  max_attempts,
  lock_timeout_seconds,
  FirstBackoff, MaxBackoff,  \* 5 and 300 seconds
  every_seconds, \* of the one recurring job
  Late,          \* bound: how far past due a time is told apart
  MaxLag,        \* bound: how long a worker is seen to pause
  MaxCrashes     \* bound: how often workers die

VARIABLES
  status, run_at, attempts,  \* columns of each row
  age,          \* now - locked_at, up to lock_timeout_seconds
  scheduled, next_run_at,  \* the recurring job
  place,        \* where a worker is in run_forever
  claimed,      \* the row it has claimed, 0 for none, with the attempts it read
  tried,
  stale,        \* the rows, with their attempts, that its reap_stale! has still to update
  due,          \* the next_run_at that its tick_recurring has read
  lag,          \* the time since it read the clock, up to MaxLag
  claims,       \* how often each row was claimed, up to max_attempts + 1 (history)
  fired,        \* the time since the recurring job fired, up to every_seconds (history)
  stalled,      \* a reap_stale! has updated a row FirstBackoff or more after its select (history)
  crashes

jobvars == <<status, run_at, attempts, age, scheduled, next_run_at, place, claimed, tried,
          stale, due, lag, claims, fired, stalled, crashes>>
columns == <<status, run_at, attempts, age, claims>>
recurring == <<scheduled, next_run_at, fired>>
history == <<stalled, crashes>>

Times == -Late..(MaxBackoff + every_seconds)

JobsTypeOK ==
  /\ status \in [Rows -> {"none", "pending", "running", "succeeded", "failed"}]
  /\ run_at \in [Rows -> Times]
  /\ attempts \in [Rows -> Nat]
  /\ age \in [Rows -> 0..lock_timeout_seconds]
  /\ scheduled \in BOOLEAN /\ next_run_at \in Times
  /\ place \in [Workers -> {"down", "top", "reap", "run", "succeed", "retry", "tick", "due", "enqueue"}]
  /\ claimed \in [Workers -> Rows \cup {0}] /\ tried \in [Workers -> 0..max_attempts]
  /\ stale \in [Workers -> SUBSET (Rows \X (0..max_attempts))]
  /\ due \in [Workers -> Times] /\ lag \in [Workers -> 0..MaxLag]
  /\ claims \in [Rows -> 0..(max_attempts + 1)]
  /\ fired \in 0..every_seconds
  /\ stalled \in BOOLEAN /\ crashes \in 0..MaxCrashes

JobsInit ==
  /\ status = [j \in Rows |-> "none"] /\ run_at = [j \in Rows |-> 0]
  /\ attempts = [j \in Rows |-> 0] /\ age = [j \in Rows |-> 0]
  /\ scheduled = FALSE /\ next_run_at = 0
  /\ place = [w \in Workers |-> "down"]
  /\ claimed = [w \in Workers |-> 0] /\ tried = [w \in Workers |-> 0]
  /\ stale = [w \in Workers |-> {}]
  /\ due = [w \in Workers |-> 0] /\ lag = [w \in Workers |-> 0]
  /\ claims = [j \in Rows |-> 0]
  /\ fired = every_seconds
  /\ stalled = FALSE /\ crashes = 0

\* The worker's own variables, with the ones it no longer uses cleared.
Goto(w, p) ==
  /\ place' = [place EXCEPT ![w] = p]
  /\ lag' = [lag EXCEPT ![w] = 0]
  /\ claimed' = [claimed EXCEPT ![w] = 0] /\ tried' = [tried EXCEPT ![w] = 0]
  /\ stale' = [stale EXCEPT ![w] = {}]
  /\ due' = [due EXCEPT ![w] = 0]
  /\ UNCHANGED history

Resume(w, p) ==
  /\ place' = [place EXCEPT ![w] = p]
  /\ UNCHANGED <<lag, claimed, tried, stale, due, history>>

-----------------------------------------------------------------------------
(***************************************************************************)
(* The table.                                                              *)
(***************************************************************************)

enqueue(j, at) ==
  /\ status' = [status EXCEPT ![j] = "pending"]
  /\ run_at' = [run_at EXCEPT ![j] = at]
  /\ UNCHANGED <<attempts, age, claims>>

\* Jobs.enqueue and enqueue_in, by the application.
Enqueue(j, delay) ==
  /\ status[j] = "none"
  /\ enqueue(j, delay)
  /\ UNCHANGED <<recurring, place, claimed, tried, stale, due, lag, history>>

\* Only the first call for a name inserts a row: the name is unique.
schedule_recurring ==
  /\ ~scheduled
  /\ scheduled' = TRUE
  /\ next_run_at' = every_seconds
  /\ UNCHANGED <<columns, fired, place, claimed, tried, stale, due, lag, history>>

Doubled[n \in 1..max_attempts] == IF n = 1 THEN FirstBackoff ELSE 2 * Doubled[n - 1]
backoff_seconds(n) == IF Doubled[n] > MaxBackoff THEN MaxBackoff ELSE Doubled[n]

\* The row is found by its id alone.
retry_or_fail_uncounted(j, before) ==
  /\ status' = [status EXCEPT ![j] = IF before + 1 >= max_attempts THEN "failed" ELSE "pending"]
  /\ run_at' = [run_at EXCEPT ![j] = IF before + 1 >= max_attempts THEN @ ELSE backoff_seconds(before + 1)]
  /\ UNCHANGED <<attempts, age, claims>>
retry_or_fail(j, before) ==
  LET now_tried == before + 1 IN
  /\ attempts' = [attempts EXCEPT ![j] = now_tried]
  /\ status' = [status EXCEPT ![j] = IF now_tried >= max_attempts THEN "failed" ELSE "pending"]
  /\ run_at' = [run_at EXCEPT ![j] = IF now_tried >= max_attempts THEN @ ELSE backoff_seconds(now_tried)]
  /\ UNCHANGED <<age, claims>>

-----------------------------------------------------------------------------
(***************************************************************************)
(* The worker.                                                             *)
(***************************************************************************)

StartWorker(w) ==
  /\ place[w] = "down"
  /\ Goto(w, "top")
  /\ UNCHANGED <<columns, recurring>>

\* reap_stale! selects the rows whose lock has expired ...
StalePending == {j \in Rows : status[j] = "pending" /\ age[j] >= lock_timeout_seconds}
Stale == {j \in Rows : status[j] = "running" /\ age[j] >= lock_timeout_seconds}
FindStale(w) ==
  /\ place[w] = "top"
  /\ place' = [place EXCEPT ![w] = "reap"]
  /\ stale' = [stale EXCEPT ![w] = {<<j, attempts[j]>> : j \in Stale}]
  /\ lag' = [lag EXCEPT ![w] = 0]
  /\ UNCHANGED <<columns, recurring, claimed, tried, due, history>>

\* ... and updates them one by one.
ReapStale(w) ==
  /\ place[w] = "reap"
  /\ \E r \in stale[w] :
       /\ retry_or_fail(r[1], r[2])
       /\ stale' = [stale EXCEPT ![w] = @ \ {r}]
  /\ stalled' = (stalled \/ lag[w] >= FirstBackoff)
  /\ lag' = [lag EXCEPT ![w] = IF stale'[w] = {} THEN 0 ELSE @]
  /\ UNCHANGED <<recurring, place, claimed, tried, due, crashes>>

\* claim_next: the row that has been due for longest.
Due == {j \in Rows : status[j] = "pending" /\ run_at[j] <= 0}
claim_next_any(j) ==
  /\ status[j] \in {"pending", "running"} /\ run_at[j] <= 0
  /\ status' = [status EXCEPT ![j] = "running"]
  /\ age' = [age EXCEPT ![j] = 0]
  /\ claims' = [claims EXCEPT ![j] = IF @ > max_attempts THEN @ ELSE @ + 1]
  /\ UNCHANGED <<run_at, attempts>>
claim_next(j) ==
  /\ j \in Due /\ \A k \in Due : run_at[j] <= run_at[k]
  /\ status' = [status EXCEPT ![j] = "running"]
  /\ age' = [age EXCEPT ![j] = 0]
  /\ claims' = [claims EXCEPT ![j] = IF @ > max_attempts THEN @ ELSE @ + 1]
  /\ UNCHANGED <<run_at, attempts>>

Claim(w, j) ==
  /\ place[w] = "reap" /\ stale[w] = {}
  /\ claim_next(j)
  /\ place' = [place EXCEPT ![w] = "run"]
  /\ lag' = [lag EXCEPT ![w] = 0]
  /\ claimed' = [claimed EXCEPT ![w] = j]
  /\ tried' = [tried EXCEPT ![w] = attempts[j]]
  /\ UNCHANGED <<recurring, stale, due, history>>

ClaimNothing(w) ==
  /\ place[w] = "reap" /\ stale[w] = {} /\ Due = {}
  /\ Goto(w, "tick")
  /\ UNCHANGED <<columns, recurring>>

fail_unhandled(w) ==
  /\ place[w] = "run" /\ claimed[w] \notin Handled
  /\ status' = [status EXCEPT ![claimed[w]] = "failed"]
  /\ attempts' = [attempts EXCEPT ![claimed[w]] = @ + 1]
  /\ Goto(w, "tick")
  /\ UNCHANGED <<run_at, age, claims, recurring>>

HandlerEnds(w, result) ==
  /\ place[w] = "run" /\ claimed[w] \in Handled
  /\ Resume(w, result)
  /\ UNCHANGED <<columns, recurring>>

succeed(w) ==
  /\ place[w] = "succeed"
  /\ status' = [status EXCEPT ![claimed[w]] = "succeeded"]
  /\ Goto(w, "tick")
  /\ UNCHANGED <<run_at, attempts, age, claims, recurring>>

\* The statement of succeed! raises: the handler's success is not recorded.
SucceedRaises(w) ==
  /\ place[w] = "succeed"
  /\ Resume(w, "retry")
  /\ UNCHANGED <<columns, recurring>>

Retry(w) ==
  /\ place[w] = "retry"
  /\ retry_or_fail(claimed[w], tried[w])
  /\ Goto(w, "tick")
  /\ UNCHANGED recurring

\* tick_recurring selects what is due, claims it and enqueues a row.
FindDue(w) ==
  /\ place[w] = "tick"
  /\ LET found == scheduled /\ next_run_at <= 0 IN
     /\ place' = [place EXCEPT ![w] = IF found THEN "due" ELSE "top"]
     /\ due' = [due EXCEPT ![w] = IF found THEN next_run_at ELSE 0]
  /\ lag' = [lag EXCEPT ![w] = 0]
  /\ UNCHANGED <<columns, recurring, claimed, tried, stale, history>>

\* The new time counts from when the worker read the clock, however long ago.
Since(t, w) == IF t - lag[w] > -Late THEN t - lag[w] ELSE -Late
claim_recurring_blindly(w) == next_run_at' = Since(every_seconds, w)
claim_recurring(w) == next_run_at = due[w] /\ next_run_at' = Since(every_seconds, w)

\* What it read has served, and the time since it read it has not.
ToEnqueue(w) ==
  /\ place' = [place EXCEPT ![w] = "enqueue"]
  /\ due' = [due EXCEPT ![w] = 0]
  /\ UNCHANGED <<lag, claimed, tried, stale, history>>

ClaimRecurring(w) ==
  /\ place[w] = "due"
  /\ \/ /\ claim_recurring(w)
        /\ fired' = IF lag[w] < every_seconds THEN lag[w] ELSE every_seconds
        /\ UNCHANGED scheduled
        /\ ToEnqueue(w)
     \/ /\ next_run_at # due[w]
        /\ Goto(w, "top")
        /\ UNCHANGED recurring
  /\ UNCHANGED columns

\* A full table drops the row: Rows bounds the model, not the database.
EnqueueRecurring(w) ==
  /\ place[w] = "enqueue"
  /\ IF \E j \in Rows : status[j] = "none"
     THEN enqueue(CHOOSE j \in Rows : status[j] = "none", Since(0, w))
     ELSE UNCHANGED columns
  /\ Goto(w, "top")
  /\ UNCHANGED recurring

\* A worker is killed, is asked to stop, or a statement outside run_once's rescue raises.
Crash(w) ==
  /\ place[w] # "down" /\ crashes < MaxCrashes
  /\ place' = [place EXCEPT ![w] = "down"]
  /\ lag' = [lag EXCEPT ![w] = 0]
  /\ claimed' = [claimed EXCEPT ![w] = 0] /\ tried' = [tried EXCEPT ![w] = 0]
  /\ stale' = [stale EXCEPT ![w] = {}]
  /\ due' = [due EXCEPT ![w] = 0]
  /\ crashes' = crashes + 1
  /\ UNCHANGED <<columns, recurring, stalled>>

-----------------------------------------------------------------------------
(***************************************************************************)
(* Time.  A job ends before its lock expires, as the package's README asks *)
(* of the timeout.  How long a worker takes from reading the clock to what *)
(* it then writes is up to it: nothing in the code limits that.            *)
(***************************************************************************)
InTime == \A w \in Workers : claimed[w] # 0 => age[claimed[w]] + 1 < lock_timeout_seconds

Earlier(t) == IF t > -Late THEN t - 1 ELSE t
Tick ==
  /\ InTime
  /\ run_at' = [j \in Rows |-> IF status[j] = "pending" THEN Earlier(run_at[j]) ELSE 0]
  /\ age' = [j \in Rows |-> CASE status[j] # "running" -> 0
                              [] age[j] = lock_timeout_seconds -> age[j]
                              [] OTHER -> age[j] + 1]
  /\ next_run_at' = IF scheduled THEN Earlier(next_run_at) ELSE 0
  /\ due' = [w \in Workers |-> IF place[w] = "due" THEN Earlier(due[w]) ELSE due[w]]
  /\ lag' = [w \in Workers |->
                IF (stale[w] # {} \/ place[w] \in {"due", "enqueue"}) /\ lag[w] < MaxLag
                THEN lag[w] + 1 ELSE lag[w]]
  /\ fired' = IF fired < every_seconds THEN fired + 1 ELSE fired
  /\ UNCHANGED <<status, attempts, claims, scheduled, place, claimed, tried, stale, history>>

-----------------------------------------------------------------------------
Step(w) ==
  \/ StartWorker(w) \/ FindStale(w) \/ ReapStale(w)
  \/ \E j \in Rows : Claim(w, j)
  \/ ClaimNothing(w) \/ fail_unhandled(w)
  \/ \E result \in {"succeed", "retry"} : HandlerEnds(w, result)
  \/ succeed(w) \/ SucceedRaises(w) \/ Retry(w)
  \/ FindDue(w) \/ ClaimRecurring(w) \/ EnqueueRecurring(w)

JobsNext ==
  \/ \E j \in Rows, delay \in 0..1 : Enqueue(j, delay)
  \/ schedule_recurring
  \/ \E w \in Workers : Step(w) \/ Crash(w)
  \/ Tick

Fairness == WF_jobvars(Tick) /\ \A w \in Workers : WF_jobvars(Step(w))
JobsSpec == JobsInit /\ [][JobsNext]_jobvars /\ Fairness

-----------------------------------------------------------------------------
(***************************************************************************)
(* Properties.                                                             *)
(***************************************************************************)

\* As long as jobs end before their lock expires and no reap_stale! has been held
\* up for FirstBackoff between its select and an update: a claimed row is running
\* and claimed by one worker, and no worker, and no reap_stale! that selected it
\* before, takes it from the one that runs it.
JobRunsAlone ==
  ~stalled =>
    \A w \in Workers : claimed[w] # 0 =>
      /\ status[claimed[w]] = "running" /\ tried[w] = attempts[claimed[w]]
      /\ \A u \in Workers \ {w} : claimed[u] # claimed[w]

\* Under the same two conditions, however workers die and stale rows are reaped:
\* every claim is counted as one attempt, so that no handler runs more than
\* max_attempts times.
AttemptsCounted ==
  ~stalled =>
    \A j \in Rows :
      /\ status[j] \in {"pending", "failed"} => claims[j] = attempts[j]
      /\ status[j] \in {"running", "succeeded"} => claims[j] = attempts[j] + 1
      /\ claims[j] <= max_attempts

\* The recurring job is claimed once per interval, even by workers that pause for
\* longer than the interval between tick_recurring's select and its update.
FiresOncePerInterval == [][fired' < fired => fired >= every_seconds]_jobvars

\* Every job, a job of a worker that died included, ends as succeeded or failed and
\* stays so: a row is enqueued once, so the table comes to rest with no job open.
JobSettles == <>[](\A j \in Rows : status[j] \in {"none", "succeeded", "failed"})

=============================================================================
