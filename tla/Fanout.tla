------------------------------- MODULE Fanout -------------------------------
(***************************************************************************)
(* One fan-out run: src-tauri/src/fanout/executor.rs (spawn_run, drive,    *)
(* run_one, retry_device, cancel_run, cancel_device) over the tables of    *)
(* src-tauri/src/fanout/store.rs, with the start-up sweep of lib.rs.       *)
(*                                                                         *)
(* A device is its position in the member list, so drive's loop over       *)
(* `members` is a counter.  A slot <<d, a>> is attempt a of device d: one  *)
(* row of fanout_run_results and at most one tokio task running run_one.   *)
(* Every action is one critical section of the database mutex, one await   *)
(* point or one token/map operation, which is where the tasks interleave.  *)
(*                                                                         *)
(* Tasks and tokens die with the process; row, runStatus and blocks are in *)
(* SQLite and survive.                                                     *)
(***************************************************************************)
EXTENDS Naturals, FiniteSets

CONSTANTS
    N,            \* members of the run
    Concurrency,  \* permits of drive's local semaphore (args.concurrency)
    RetryCap,     \* permits of the executor-wide semaphore retries take
    MaxAttempt,   \* bound: attempts of one device
    MaxCrashes    \* bound: process crashes

ASSUME FanoutAssumption ==
    /\ N \in Nat
    /\ Concurrency \in Nat \ {0}
    /\ RetryCap \in Nat \ {0}
    /\ MaxAttempt \in Nat \ {0}
    /\ MaxCrashes \in Nat

VARIABLES
    row,        \* fanout_run_results.status of every slot, "none" = no row
    runStatus,  \* fanout_runs.status, "none" = no row
    blocks,     \* slots whose output is in command_blocks
    proc,       \* the process: running, dead, or inside the start-up sweep
    crashes,    \* crashes so far
    refused,    \* classify_command refused the run's command
    spawner,    \* where spawn_run is
    next,       \* the member spawn_run's blocking loop or drive is at
    drive,      \* where drive is
    verdict,    \* the status drive is about to write
    pc,         \* where the task of every slot is
    armed,      \* per_device: the attempt whose token is stored, 0 = none
    registered, \* the run has a RunHandle in `runs`
    runCancel,  \* the run's cancellation token is cancelled
    cancelled,  \* slots whose own token is cancelled
    counters    \* RunCounters

persistent == <<row, runStatus, blocks>>
spawning   == <<refused, spawner>>
driving    == <<drive, next, verdict>>
tokens     == <<armed, registered, runCancel, cancelled>>
process    == <<proc, crashes>>
vars == <<persistent, spawning, driving, tokens, process, pc, counters>>

Devices  == 1..N
Attempts == 1..MaxAttempt
Slots    == Devices \X Attempts
Initial  == Devices \X {1}

Open       == {"pending", "running"}
Retryable  == {"failed", "timeout", "cancelled"}
Settled    == Retryable \cup {"success", "blocked_by_guardrail"}
RowStatus  == {"none"} \cup Open \cup Settled
RunVerdict == {"success", "failed", "cancelled", "partial"}
RunStatus  == {"none", "running"} \cup RunVerdict

\* run_one from its spawn to its last counter update holds a permit
Worked    == {"started", "working", "stored"}
Tallying  == {"tally_success", "tally_failed", "tally_cancelled"}
Permitted == {"spawned"} \cup Worked \cup Tallying
Retrying  == {"inserted", "reopened", "queued"}
TaskPc    == {"none", "done"} \cup Retrying \cup Permitted

Live(s) == pc[s] \notin {"none", "done"}
LiveSlots == {s \in Slots : Live(s)}

DrivePermits == Cardinality({s \in Slots : s[2] = 1 /\ pc[s] \in Permitted})
RetryPermits == Cardinality({s \in Slots : s[2] > 1 /\ pc[s] \in Permitted})

\* attempt 1 holds a child of the run's token, a retry a token of its own
TokenCancelled(s) == s \in cancelled \/ (s[2] = 1 /\ runCancel)

\* mutated: a majority decides
RollUp_Majority(s, f, c) ==
    IF s >= f + c THEN "success" ELSE IF f >= c THEN "failed" ELSE "cancelled"

\* FanoutStore::finalize_run: the status the three counters add up to
RollUp(s, f, c) ==
    CASE f = 0 /\ c = 0 -> "success"
      [] s = 0 /\ c = 0 /\ f > 0 -> "failed"
      [] s = 0 /\ f = 0 /\ c > 0 -> "cancelled"
      [] OTHER -> "partial"

NoCounts == [success |-> 0, failed |-> 0, cancelled |-> 0]

\* the counter record_success, record_failure or record_cancel increments
CounterOf == [tally_success   |-> "success",
              tally_failed    |-> "failed",
              tally_cancelled |-> "cancelled"]

-----------------------------------------------------------------------------
Init ==
    /\ row = [s \in Slots |-> "none"]
    /\ runStatus = "none"
    /\ blocks = {}
    /\ proc = "up"
    /\ crashes = 0
    /\ refused = FALSE
    /\ spawner = "idle"
    /\ drive = "off"
    /\ next = 1
    /\ verdict = "none"
    /\ pc = [s \in Slots |-> "none"]
    /\ armed = [d \in Devices |-> 0]
    /\ registered = FALSE
    /\ runCancel = FALSE
    /\ cancelled = {}
    /\ counters = NoCounts

-----------------------------------------------------------------------------
(* spawn_run *)

\* classify, then insert the run row and one pending row per member under
\* one lock; RunStarted tells the client the run's id
StartRun(refuse) ==
    /\ proc = "up"
    /\ runStatus = "none"
    /\ refused' = refuse
    /\ runStatus' = "running"
    /\ row' = [s \in Slots |-> IF s[2] = 1 THEN "pending" ELSE "none"]
    /\ spawner' = IF refuse THEN "blocking" ELSE "launching"
    /\ UNCHANGED <<blocks, driving, tokens, process, pc, counters>>

\* refused: one lock acquisition per member
BlockMember ==
    /\ spawner = "blocking"
    /\ next <= N
    /\ row' = [row EXCEPT ![<<next, 1>>] = "blocked_by_guardrail"]
    /\ next' = next + 1
    /\ UNCHANGED <<runStatus, blocks, spawning, drive, verdict, tokens,
                   process, pc, counters>>

\* mutated: no early return after the refusal
BlockRun_NoReturn ==
    /\ spawner = "blocking"
    /\ next > N
    /\ runStatus' = RollUp(0, N, 0)
    /\ spawner' = "launching"
    /\ UNCHANGED <<row, blocks, refused, driving, tokens, process, pc,
                   counters>>

\* refused: finalize_run(0, total, 0); no RunHandle is ever registered
BlockRun ==
    /\ spawner = "blocking"
    /\ next > N
    /\ runStatus' = RollUp(0, N, 0)
    /\ spawner' = "returned"
    /\ UNCHANGED <<row, blocks, refused, driving, tokens, process, pc,
                   counters>>

\* create the tokens and counters, then tokio::spawn(drive)
Launch ==
    /\ spawner = "launching"
    /\ armed' = [d \in Devices |-> 1]
    /\ counters' = NoCounts
    /\ drive' = "check"
    /\ next' = 1
    /\ spawner' = "registering"
    /\ UNCHANGED <<persistent, refused, verdict, registered, runCancel,
                   cancelled, process, pc>>

\* runs.insert comes after the spawn: until then a cancel is an unknown run
Register ==
    /\ spawner = "registering"
    /\ registered' = TRUE
    /\ spawner' = "returned"
    /\ UNCHANGED <<persistent, refused, driving, armed, runCancel, cancelled,
                   process, pc, counters>>

-----------------------------------------------------------------------------
(* drive *)

\* the head of the member loop: end of list or a cancelled run leave it
DriveCheck ==
    /\ drive = "check"
    /\ drive' = IF next > N \/ runCancel THEN "join" ELSE "acquire"
    /\ UNCHANGED <<persistent, spawning, next, verdict, tokens, process, pc,
                   counters>>

\* local_sem.acquire_owned (not cancellable), then spawn run_one attempt 1
DriveDispatch ==
    /\ drive = "acquire"
    /\ DrivePermits < Concurrency
    /\ pc' = [pc EXCEPT ![<<next, 1>>] = "spawned"]
    /\ next' = next + 1
    /\ drive' = "check"
    /\ UNCHANGED <<persistent, spawning, verdict, tokens, process, counters>>

\* mutated: waits for every member, also those a cancelled run never reached
DriveJoin_AllMembers ==
    /\ drive = "join"
    /\ \A s \in Initial : pc[s] = "done"
    /\ verdict' = RollUp(counters.success, counters.failed,
                         counters.cancelled)
    /\ drive' = "roll"
    /\ UNCHANGED <<persistent, spawning, next, tokens, process, pc, counters>>

\* mutated: the handles are dropped instead of joined
DriveJoin_NoJoin ==
    /\ drive = "join"
    /\ verdict' = RollUp(counters.success, counters.failed,
                         counters.cancelled)
    /\ drive' = "roll"
    /\ UNCHANGED <<persistent, spawning, next, tokens, process, pc, counters>>

\* every spawned handle joined; the counters are read
DriveJoin ==
    /\ drive = "join"
    /\ \A s \in Initial : ~Live(s)
    /\ verdict' = RollUp(counters.success, counters.failed,
                         counters.cancelled)
    /\ drive' = "roll"
    /\ UNCHANGED <<persistent, spawning, next, tokens, process, pc, counters>>

\* finalize_run and RunCompleted
DriveRoll ==
    /\ drive = "roll"
    /\ runStatus' = verdict
    /\ drive' = "done"
    /\ UNCHANGED <<row, blocks, spawning, next, verdict, tokens, process, pc,
                   counters>>

-----------------------------------------------------------------------------
(* run_one of slot s, shared by first attempts and retries *)

Goto(s, from, to) ==
    /\ pc[s] = from
    /\ pc' = [pc EXCEPT ![s] = to]

\* finalize_result, the row half of record_success/_failure/_cancel
Settle(s, status) ==
    /\ row' = [row EXCEPT ![s] = status]
    /\ UNCHANGED <<runStatus, blocks, spawning, driving, tokens, process,
                   counters>>

\* DeviceStarted, and the row is marked running whatever it was
Begin(s) ==
    /\ Goto(s, "spawned", "started")
    /\ Settle(s, "running")

\* mutated: returns without counting
CredsMissing_Uncounted(s) ==
    /\ Goto(s, "started", "done")
    /\ Settle(s, "failed")

\* resolve_creds failed: record_failure(Auth)
CredsMissing(s) ==
    /\ Goto(s, "started", "tally_failed")
    /\ Settle(s, "failed")

\* resolve_creds succeeded: the worker is created
Connect(s) ==
    /\ Goto(s, "started", "working")
    /\ UNCHANGED <<persistent, spawning, driving, tokens, process, counters>>

\* select! took the cancelled branch; it may lose to a ready result
CancelTaken(s) ==
    /\ TokenCancelled(s)
    /\ Goto(s, "working", "tally_cancelled")
    /\ Settle(s, "cancelled")

WorkerError(s) ==
    /\ Goto(s, "working", "tally_failed")
    /\ \E status \in {"failed", "timeout"} : Settle(s, status)

\* mutated: the row is written before the output
WorkerOutput_RowFirst(s) ==
    /\ Goto(s, "working", "stored")
    /\ Settle(s, "success")

\* record_success stores the output before the row says so; from here on
\* no cancellation is looked at
WorkerOutput(s) ==
    /\ Goto(s, "working", "stored")
    /\ blocks' = blocks \cup {s}
    /\ UNCHANGED <<row, runStatus, spawning, driving, tokens, process,
                   counters>>

Succeed(s) ==
    /\ Goto(s, "stored", "tally_success")
    /\ Settle(s, "success")

\* fetch_add on the counter of the outcome; the task ends, its permit drops
Tally(s) ==
    /\ pc[s] \in Tallying
    /\ counters' = [counters EXCEPT ![CounterOf[pc[s]]] = @ + 1]
    /\ pc' = [pc EXCEPT ![s] = "done"]
    /\ UNCHANGED <<persistent, spawning, driving, tokens, process>>

RunOne(s) ==
    \/ Begin(s)
    \/ CredsMissing(s)
    \/ Connect(s)
    \/ CancelTaken(s)
    \/ WorkerError(s)
    \/ WorkerOutput(s)
    \/ Succeed(s)
    \/ Tally(s)

-----------------------------------------------------------------------------
(* retry_device *)

\* the panel shows the attempt that started last and offers a retry when
\* that one failed, timed out or was cancelled; a second click before the
\* new attempt starts is a second retry
Offered(d) ==
    \E a \in Attempts :
        /\ row[<<d, a>>] \in Retryable
        /\ \A b \in Attempts : b > a => row[<<d, b>>] \in {"none", "pending"}

\* mutated: MAX(attempt_number) without the + 1
IsNextAttempt_Last(d, a) ==
    /\ row[<<d, a>>] # "none"
    /\ \A b \in Attempts : row[<<d, b>>] # "none" => b <= a

\* next_attempt_number: a is MAX(attempt_number) + 1 of device d
IsNextAttempt(d, a) ==
    /\ \A b \in Attempts : row[<<d, b>>] # "none" => b < a
    /\ a > 1 => row[<<d, a - 1>>] # "none"

\* number and insert the attempt under one lock
RetryInsert(s) ==
    /\ proc = "up"
    /\ Offered(s[1])
    /\ IsNextAttempt(s[1], s[2])
    /\ row' = [row EXCEPT ![s] = "pending"]
    /\ pc' = [pc EXCEPT ![s] = "inserted"]
    /\ UNCHANGED <<runStatus, blocks, spawning, driving, tokens, process,
                   counters>>

\* a second lock: UPDATE fanout_runs SET status = 'running', ended_at = NULL
RetryReopen(s) ==
    /\ Goto(s, "inserted", "reopened")
    /\ runStatus' = "running"
    /\ UNCHANGED <<row, blocks, spawning, driving, tokens, process, counters>>

\* a fresh token replaces the device's, if this process has the run's handle
RetryArm(s) ==
    /\ Goto(s, "reopened", "queued")
    /\ armed' = IF registered THEN [armed EXCEPT ![s[1]] = s[2]] ELSE armed
    /\ UNCHANGED <<persistent, spawning, driving, registered, runCancel,
                   cancelled, process, counters>>

\* mutated: off by one at the cap
RetryDispatch_OffByOne(s) ==
    /\ RetryPermits + 1 < RetryCap
    /\ Goto(s, "queued", "spawned")
    /\ UNCHANGED <<persistent, spawning, driving, tokens, process, counters>>

\* a permit of the executor-wide semaphore, then spawn run_one
RetryDispatch(s) ==
    /\ RetryPermits < RetryCap
    /\ Goto(s, "queued", "spawned")
    /\ UNCHANGED <<persistent, spawning, driving, tokens, process, counters>>

Retry(s) ==    \* the handler once invoked
    \/ RetryReopen(s)
    \/ RetryArm(s)
    \/ RetryDispatch(s)

-----------------------------------------------------------------------------
(* cancel_run, cancel_device: only the process that has the handle *)

CancelRun ==
    /\ registered
    /\ runCancel' = TRUE
    /\ UNCHANGED <<persistent, spawning, driving, armed, registered,
                   cancelled, process, pc, counters>>

\* mutated: marks the row itself instead of leaving it to the task
CancelDevice_Eager(d) ==
    /\ registered
    /\ cancelled' = cancelled \cup {<<d, armed[d]>>}
    /\ row' = [row EXCEPT ![<<d, armed[d]>>] = "cancelled"]
    /\ UNCHANGED <<runStatus, blocks, spawning, driving, armed, registered,
                   runCancel, process, pc, counters>>

CancelDevice(d) ==
    /\ registered
    /\ cancelled' = cancelled \cup {<<d, armed[d]>>}
    /\ UNCHANGED <<persistent, spawning, driving, armed, registered,
                   runCancel, process, pc, counters>>

-----------------------------------------------------------------------------
(* crash and start-up *)

Crash ==
    /\ proc # "down"
    /\ crashes < MaxCrashes
    /\ crashes' = crashes + 1
    /\ proc' = "down"
    /\ spawner' = "idle"
    /\ drive' = "off"
    /\ next' = 1
    /\ verdict' = "none"
    /\ pc' = [s \in Slots |-> "none"]
    /\ armed' = [d \in Devices |-> 0]
    /\ registered' = FALSE
    /\ runCancel' = FALSE
    /\ cancelled' = {}
    /\ counters' = NoCounts
    /\ UNCHANGED <<persistent, refused>>

\* cleanup_orphan_runs, first statement: the open rows of a running run
SweepRows ==
    /\ proc = "down"
    /\ runStatus = "running"
    /\ proc' = "sweeping"
    /\ row' = [s \in Slots |-> IF row[s] \in Open THEN "failed" ELSE row[s]]
    /\ UNCHANGED <<runStatus, blocks, spawning, driving, tokens, crashes, pc,
                   counters>>

\* second statement: the run itself; then commands are served
SweepRun ==
    /\ proc = "sweeping"
    /\ proc' = "up"
    /\ runStatus' = "failed"
    /\ UNCHANGED <<row, blocks, spawning, driving, tokens, crashes, pc,
                   counters>>

\* no run is `running`: nothing is swept
SweepNothing ==
    /\ proc = "down"
    /\ runStatus # "running"
    /\ proc' = "up"
    /\ UNCHANGED <<persistent, spawning, driving, tokens, crashes, pc,
                   counters>>

-----------------------------------------------------------------------------
Spawner == BlockMember \/ BlockRun \/ Launch \/ Register
Driver  == DriveCheck \/ DriveDispatch \/ DriveJoin \/ DriveRoll
Boot    == SweepRows \/ SweepRun \/ SweepNothing

Next ==
    \/ \E refuse \in BOOLEAN : StartRun(refuse)
    \/ Spawner
    \/ Driver
    \/ \E s \in Slots : RunOne(s) \/ RetryInsert(s) \/ Retry(s)
    \/ \E d \in Devices : CancelDevice(d)
    \/ CancelRun
    \/ Crash
    \/ Boot

Spec == Init /\ [][Next]_vars

\* tokio runs every ready task; a worker ends by its timeout at the latest,
\* so a task, a handler and drive each take their next step; nothing obliges
\* a user to click or the process to crash
Fairness ==
    /\ WF_vars(Spawner)
    /\ WF_vars(Driver)
    /\ WF_vars(Boot)
    /\ \A s \in Slots : WF_vars(RunOne(s) \/ Retry(s))

FairSpec == Spec /\ Fairness

\* The attempts of a device are numbered 1, 2, ... without a gap (part of
\* the inductive invariant, and a theorem of its own)
AttemptsAreDense ==
    \A d \in Devices, a \in Attempts :
        a > 1 /\ row[<<d, a>>] # "none" => row[<<d, a - 1>>] # "none"

-----------------------------------------------------------------------------
(* Properties *)

\* Every variable stays in its domain.
TypeOK ==
    /\ row \in [Slots -> RowStatus]
    /\ runStatus \in RunStatus
    /\ blocks \subseteq Slots
    /\ proc \in {"up", "down", "sweeping"}
    /\ crashes \in 0..MaxCrashes
    /\ refused \in BOOLEAN
    /\ spawner \in {"idle", "blocking", "launching", "registering", "returned"}
    /\ drive \in {"off", "check", "acquire", "join", "roll", "done"}
    /\ next \in 1..N + 1
    /\ verdict \in {"none"} \cup RunVerdict
    /\ pc \in [Slots -> TaskPc]
    /\ armed \in [Devices -> 0..MaxAttempt]
    /\ registered \in BOOLEAN
    /\ runCancel \in BOOLEAN
    /\ cancelled \subseteq Slots
    /\ counters \in [success : Nat, failed : Nat, cancelled : Nat]

\* The row of an attempt says where its task is: pending before run_one
\* marks it, running while it works, the outcome once it is recorded.  No
\* retry, cancellation or sweep may write under a task that is still alive.
RowTracksTask ==
    \A s \in Slots :
        /\ pc[s] \in Retrying \cup {"spawned"} => row[s] = "pending"
        /\ pc[s] \in Worked => row[s] = "running"
        /\ pc[s] = "tally_success" => row[s] = "success"
        /\ pc[s] = "tally_failed" => row[s] \in {"failed", "timeout"}
        /\ pc[s] = "tally_cancelled" => row[s] = "cancelled"
        /\ pc[s] = "done" => row[s] \in Retryable \cup {"success"}

\* A recorded outcome is never overwritten (FANOUT.md: a retry preserves the
\* old attempt row), although run_one's UPDATE to 'running' has no condition.
OutcomesArePermanent ==
    [][\A s \in Slots : row[s] \in Settled => row'[s] = row[s]]_vars

\* A success row always has its output (the block is inserted first), also
\* across a crash between the two writes: export and diff read the block.
SuccessHasOutput ==
    \A s \in Slots : row[s] = "success" => s \in blocks

\* Until a crash, the counters are exactly the outcomes recorded so far.
CountersAreExact ==
    LET Ended(S) ==
            Cardinality({s \in Slots : pc[s] = "done" /\ row[s] \in S})
    IN  crashes = 0 =>
            /\ counters.success = Ended({"success"})
            /\ counters.failed = Ended({"failed", "timeout"})
            /\ counters.cancelled = Ended({"cancelled"})

\* The status a run is closed with agrees with its first attempts, although
\* retries add to the same counters while drive is still waiting.
VerdictIsHonest ==
    \A s \in Initial :
        /\ runStatus = "success" => row[s] \in {"success", "pending"}
        /\ runStatus = "failed" /\ crashes = 0 => row[s] \notin {"success"}
        /\ runStatus = "cancelled" => row[s] \notin {"success", "failed",
                                                     "timeout", "running"}

\* Until a crash, a command the classifier refused never gets a task.
RefusedNeverRuns ==
    refused /\ crashes = 0 => LiveSlots = {}

\* A run that was started is closed, or the process dies first.
StartedRunCloses ==
    spawner \in {"blocking", "launching"}
        ~> (runStatus \in RunVerdict \/ proc = "down")

\* Every task ends: no attempt of a device waits for a permit or a worker
\* forever, so the device comes to rest once its retries are used up.
AttemptsEnd ==
    \A d \in Devices :
        (\E a \in Attempts : Live(<<d, a>>))
            ~> (\A a \in Attempts : ~Live(<<d, a>>))

-----------------------------------------------------------------------------
(* What the tables show of a run is an instance of the ledger *)

Ledger == INSTANCE FanoutLedger WITH live <- LiveSlots

\* Every step of the executor, whatever tasks run, is a step of the ledger.
ImplementsLedger == Ledger!LSpec
=============================================================================
