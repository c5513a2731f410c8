------------------------------- MODULE Heartbeat -------------------------------
(***************************************************************************)
(* The heartbeat scheduler: src-tauri/src/heartbeat/scheduler.rs with the  *)
(* handlers of commands.rs and run_heartbeat of runner.rs.                 *)
(*                                                                         *)
(* Every heartbeat has lanes.  Lanes 1 and 2 are tokio tasks running       *)
(* run_scheduled_loop (a second one shows up only if a predecessor was not *)
(* joined); the lanes after them are trigger_now calls in flight.  Both    *)
(* kinds pass the heartbeat's own gate and then the global one.  The       *)
(* handlers that change the schedule hold the `lifecycle` mutex from start *)
(* to end, also across awaits, so one handler at a time is the `holder`.   *)
(*                                                                         *)
(* Time is abstracted to "the due time is reached"; the arithmetic of the  *)
(* phase is HeartbeatPhase.  Identifiers are never reused (uuid).          *)
(***************************************************************************)
EXTENDS Naturals, FiniteSets

CONSTANTS
    Heartbeats,  \* identifiers
    Clicks,      \* bound: trigger_now calls in flight per heartbeat
    Capacity,    \* permits of the global semaphore
    MaxGates,    \* bound: gates made per heartbeat
    MaxCrashes   \* bound: process crashes

ASSUME HeartbeatAssumption ==
    /\ Clicks \in Nat
    /\ Capacity \in Nat \ {0}
    /\ MaxGates \in Nat \ {0}
    /\ MaxCrashes \in Nat

VARIABLES
    row,        \* heartbeats.enabled; "none" before the insert
    nextRun,    \* heartbeats.next_run_at is not NULL
    open,       \* heartbeat_executions 'running': the one of the run in a lane,
                \* or, as lane 0, one whose run is over
    gate,       \* heartbeat_gates: the gate in the map, 0 = no entry
    made,       \* gates made so far, gate g being the g-th
    retiring,   \* gates whose retiring flag is set
    task,       \* tasks: the lane of the registered loop, 0 = no entry
    cancelled,  \* loops whose token is cancelled
    pc,         \* where every lane is
    admitted,   \* the gate a lane has selected
    stale,      \* runs whose checks were replaced under them
    holder,     \* the handler that holds `lifecycle`
    at,         \* where that handler is
    target,     \* the heartbeat it works on
    joining,    \* the lane whose handle it awaits
    after,      \* where it goes once that task has ended
    exclusive,  \* the gate delete has drained and holds
    todo,       \* start: enabled heartbeats still to register
    pending,    \* rows heartbeat_create has inserted and not yet registered
    lost,       \* heartbeats whose last write of next_run_at failed
    unreaped,   \* start of this process could not reap
    crashes     \* crashes so far

table   == <<row, nextRun, open>>
gates   == <<gate, made, retiring>>
tasks   == <<task, cancelled>>
lanes   == <<pc, admitted, stale>>
handler == <<holder, at, target, joining, after, exclusive, todo>>
ghosts  == <<pending, lost, unreaped, crashes>>
vars == <<table, gates, tasks, lanes, handler, ghosts>>

LoopLanes == 1..2
Loops     == Heartbeats \X LoopLanes
Manual    == Heartbeats \X (3..2 + Clicks)
Lanes     == Heartbeats \X (1..2 + Clicks)
Gates     == Heartbeats \X (1..MaxGates)

Exists(h) == row[h] \in {"enabled", "disabled"}

\* acquire_scheduled / acquire_selected: keyed permit first, then the global
Admitted == {"global", "run", "checks", "post"}  \* holds the keyed permit
Running  == {"run", "checks", "post"}            \* and the global one
LanePc   == {"off", "wait", "due", "ticked", "picked", "gate"} \cup Admitted
Executing(r) == pc[r] \in {"run", "checks"}

GateFree(h, g) ==
    /\ \A r \in Lanes :
          r[1] = h /\ pc[r] \in Admitted => admitted[r] # g
    /\ holder = "delete" /\ target = h => exclusive # g

\* mutated: off by one
GlobalFree_OffByOne ==
    Cardinality({r \in Lanes : pc[r] \in Running}) + 1 < Capacity

GlobalFree == Cardinality({r \in Lanes : pc[r] \in Running}) < Capacity

Retired(r) == <<r[1], admitted[r]>> \in retiring

-----------------------------------------------------------------------------
Init ==
    /\ row = [h \in Heartbeats |-> "none"]
    /\ nextRun = [h \in Heartbeats |-> FALSE]
    /\ open = {}
    /\ gate = [h \in Heartbeats |-> 0]
    /\ made = [h \in Heartbeats |-> 0]
    /\ retiring = {}
    /\ task = [h \in Heartbeats |-> 0]
    /\ cancelled = {}
    /\ pc = [r \in Lanes |-> "off"]
    /\ admitted = [r \in Lanes |-> 0]
    /\ stale = {}
    /\ holder = "start"
    /\ at = "reap"
    /\ target \in Heartbeats
    /\ joining = 0
    /\ after = "return"
    /\ exclusive = 0
    /\ todo = {}
    /\ pending = {}
    /\ lost = {}
    /\ unreaped = FALSE
    /\ crashes = 0

-----------------------------------------------------------------------------
(* A lane's way through the gates *)

Goto(r, from, to) ==
    /\ pc[r] = from
    /\ pc' = [pc EXCEPT ![r] = to]

\* mutated: every caller gets a gate of its own
TakeGate_Fresh(h, r) ==
    /\ made[h] < MaxGates
    /\ gate' = [gate EXCEPT ![h] = made[h] + 1]
    /\ made' = [made EXCEPT ![h] = @ + 1]
    /\ admitted' = [admitted EXCEPT ![r] = made[h] + 1]

\* heartbeat_gate: the entry of the map, made when there is none
TakeGate(h, r) ==
    IF gate[h] # 0
    THEN /\ admitted' = [admitted EXCEPT ![r] = gate[h]]
         /\ UNCHANGED <<gate, made>>
    ELSE /\ made[h] < MaxGates
         /\ gate' = [gate EXCEPT ![h] = made[h] + 1]
         /\ made' = [made EXCEPT ![h] = @ + 1]
         /\ admitted' = [admitted EXCEPT ![r] = made[h] + 1]

\* trigger_now: look the row up and select the gate under `lifecycle`
Trigger(r) ==
    /\ holder = "idle"
    /\ Exists(r[1])
    /\ Goto(r, "off", "picked")
    /\ TakeGate(r[1], r)
    /\ <<r[1], gate'[r[1]]>> \notin retiring
    /\ UNCHANGED <<table, retiring, tasks, stale, handler, ghosts>>

\* wait_until_due: due, and not cancelled when it looks
Due(r) ==
    /\ r \notin cancelled
    /\ Goto(r, "wait", "due")
    /\ UNCHANGED <<table, gates, tasks, admitted, stale, handler, ghosts>>

StopWaiting(r) ==
    /\ r \in cancelled
    /\ Goto(r, "wait", "off")
    /\ UNCHANGED <<table, gates, tasks, admitted, stale, handler, ghosts>>

\* the tick: the next phase is persisted before admission; when that fails
\* the loop ends and the heartbeat keeps its row
Advance(r) ==
    /\ \/ /\ Exists(r[1])
          /\ Goto(r, "due", "ticked")
          /\ nextRun' = [nextRun EXCEPT ![r[1]] = TRUE]
          /\ lost' = lost
       \/ /\ Goto(r, "due", "off")
          /\ nextRun' = nextRun
          /\ lost' = lost \cup {r[1]}
    /\ UNCHANGED <<row, open, gates, tasks, admitted, stale, handler,
                   pending, unreaped, crashes>>

\* acquire_scheduled selects the gate (no lifecycle lock here)
Select(r) ==
    /\ Goto(r, "ticked", "picked")
    /\ TakeGate(r[1], r)
    /\ UNCHANGED <<table, retiring, tasks, stale, handler, ghosts>>

\* the first look at `retiring`
Queue(r) ==
    /\ Goto(r, "picked", IF Retired(r) THEN "off" ELSE "gate")
    /\ UNCHANGED <<table, gates, tasks, admitted, stale, handler, ghosts>>

\* what is looked at again after every await
Unwelcome(r) == r \in cancelled \/ Retired(r)

AcquireGate(r) ==
    /\ GateFree(r[1], admitted[r])
    /\ Goto(r, "gate", IF Unwelcome(r) THEN "off" ELSE "global")
    /\ UNCHANGED <<table, gates, tasks, admitted, stale, handler, ghosts>>

AcquireGlobal(r) ==
    /\ GlobalFree
    /\ Goto(r, "global", IF Unwelcome(r) THEN "off" ELSE "run")
    /\ UNCHANGED <<table, gates, tasks, admitted, stale, handler, ghosts>>

\* select! on the token: a queued loop leaves without a permit
GiveUp(r) ==
    /\ r \in cancelled
    /\ Goto(r, "gate", "off") \/ Goto(r, "global", "off")
    /\ UNCHANGED <<table, gates, tasks, admitted, stale, handler, ghosts>>

-----------------------------------------------------------------------------
(* run_heartbeat *)

\* a manual run drops its permits with the result, a loop goes on
AfterRun(r) == IF r \in Loops THEN "post" ELSE "off"

\* load the row and its checks, insert the execution as 'running'
Load(r) ==
    /\ Goto(r, "run", IF Exists(r[1]) THEN "checks" ELSE AfterRun(r))
    /\ open' = IF Exists(r[1]) THEN open \cup {r} ELSE open
    /\ UNCHANGED <<row, nextRun, gates, tasks, admitted, stale, handler, ghosts>>

\* findings stored, execution closed; every check ends by its timeout
Finish(r) ==
    /\ Goto(r, "checks", AfterRun(r))
    /\ stale' = stale \ {r}
    /\ open' = open \ {r}
    /\ UNCHANGED <<row, nextRun, gates, tasks, admitted, handler, ghosts>>

\* a finding's check is gone (foreign key): `?` leaves the execution open
Abort(r) ==
    /\ r \in stale
    /\ Goto(r, "checks", AfterRun(r))
    /\ stale' = stale \ {r}
    /\ open' = (open \ {r}) \cup {<<r[1], 0>>}
    /\ UNCHANGED <<row, nextRun, gates, tasks, admitted, handler, ghosts>>

\* mutated: one run and out
Post_Return(r) ==
    /\ Goto(r, "post", "off")
    /\ UNCHANGED <<table, gates, tasks, admitted, stale, handler, ghosts>>

\* the loop after its run: the phase is advanced again when the run crossed
\* it; the permits drop at the end of the iteration
Post(r) ==
    /\ \/ /\ Goto(r, "post", IF r \in cancelled THEN "off" ELSE "wait")
          /\ UNCHANGED <<nextRun, lost>>
       \/ /\ Goto(r, "post", IF r \in cancelled THEN "off" ELSE "wait")
          /\ nextRun' = [nextRun EXCEPT ![r[1]] = TRUE]
          /\ lost' = lost
       \/ /\ Goto(r, "post", "off")
          /\ nextRun' = nextRun
          /\ lost' = lost \cup {r[1]}
    /\ UNCHANGED <<row, open, gates, tasks, admitted, stale, handler,
                   pending, unreaped, crashes>>

\* update_checks: delete and insert anew in one transaction
UpdateChecks(h) ==
    /\ Exists(h)
    /\ stale' = stale \cup {r \in Lanes : r[1] = h /\ pc[r] = "checks"}
    /\ UNCHANGED <<table, gates, tasks, pc, admitted, handler, ghosts>>

-----------------------------------------------------------------------------
(* The handlers that hold `lifecycle` *)

\* heartbeat_create inserts the row before it asks for the lock
Create(h) ==
    /\ holder # "start"
    /\ row[h] = "none"
    /\ row' = [row EXCEPT ![h] = "enabled"]
    /\ pending' = pending \cup {h}
    /\ UNCHANGED <<nextRun, open, gates, tasks, lanes, handler, lost,
                   unreaped, crashes>>

Lock(kind, h, label) ==
    /\ holder = "idle"
    /\ holder' = kind
    /\ target' = h
    /\ at' = label
    /\ UNCHANGED <<joining, after, exclusive, todo>>

\* add_heartbeat, from heartbeat_create or heartbeat_update; the caller's
\* snapshot said enabled, but the row may have changed since
Add(h) ==
    /\ row[h] # "none"
    /\ Lock("add", h, "register")
    /\ pending' = pending \ {h}
    /\ UNCHANGED <<table, gates, tasks, lanes, lost, unreaped, crashes>>

Pause(h) ==
    /\ Exists(h)
    /\ Lock("pause", h, "stop")
    /\ row' = [row EXCEPT ![h] = "disabled"]
    /\ UNCHANGED <<nextRun, open, gates, tasks, lanes, ghosts>>

Resume(h) ==
    /\ Exists(h)
    /\ Lock("resume", h, "register")
    /\ row' = [row EXCEPT ![h] = "enabled"]
    /\ UNCHANGED <<nextRun, open, gates, tasks, lanes, ghosts>>

Delete(h) ==
    /\ Exists(h)
    /\ Lock("delete", h, "retire")
    /\ UNCHANGED <<table, gates, tasks, lanes, ghosts>>

Step(from, to) ==
    /\ at = from
    /\ at' = to

\* mutated: the entry is dropped, the token is not
CancelTask_NoCancel(then) ==
    /\ after' = IF task[target] = 0 THEN after ELSE then
    /\ joining' = task[target]
    /\ task' = [task EXCEPT ![target] = 0]
    /\ cancelled' = cancelled
    /\ at' = IF task[target] = 0 THEN then ELSE "join"

\* mutated: the handle is dropped, not awaited
CancelTask_NoJoin(then) ==
    /\ after' = after
    /\ joining' = 0
    /\ task' = [task EXCEPT ![target] = 0]
    /\ cancelled' = IF task[target] = 0 THEN cancelled
                    ELSE cancelled \cup {<<target, task[target]>>}
    /\ at' = then

\* cancel_task_locked: take the entry out, cancel, await the handle
CancelTask(then) ==
    /\ after' = IF task[target] = 0 THEN after ELSE then
    /\ joining' = task[target]
    /\ task' = [task EXCEPT ![target] = 0]
    /\ cancelled' = IF task[target] = 0 THEN cancelled
                    ELSE cancelled \cup {<<target, task[target]>>}
    /\ at' = IF task[target] = 0 THEN then ELSE "join"

Join ==
    /\ at = "join"
    /\ pc[<<target, joining>>] = "off"
    /\ at' = after
    /\ after' = "return"
    /\ joining' = 0
    /\ UNCHANGED <<table, gates, tasks, lanes, holder, target, exclusive,
                   todo, ghosts>>

\* pause after set_enabled, delete after begin_retirement
Stop ==
    /\ at = "stop"
    /\ CancelTask(IF holder = "delete" THEN "drain" ELSE "unset")
    /\ UNCHANGED <<table, gates, lanes, holder, target, exclusive, todo,
                   ghosts>>

\* mutated: believes the caller's snapshot
Register_Snapshot ==
    /\ at = "register"
    /\ CancelTask("spawn")
    /\ UNCHANGED <<table, gates, lanes, holder, target, exclusive, todo,
                   ghosts>>

\* register_locked reads the row again, whatever the caller has seen
Register ==
    /\ at = "register"
    /\ CancelTask(CASE row[target] = "enabled" -> "spawn"
                    [] row[target] = "disabled" -> "unset"
                    [] OTHER -> "return")
    /\ UNCHANGED <<table, gates, lanes, holder, target, exclusive, todo,
                   ghosts>>

FreeLane(h) == IF pc[<<h, 1>>] = "off" THEN 1 ELSE 2

\* persist the due time, spawn the loop, remember it; a failed write leaves
\* an enabled row without a loop
Spawn ==
    /\ Step("spawn", "return")
    /\ LET loop == <<target, FreeLane(target)>> IN
       \/ /\ pc[loop] = "off"
          /\ nextRun' = [nextRun EXCEPT ![target] = TRUE]
          /\ pc' = [pc EXCEPT ![loop] = "wait"]
          /\ task' = [task EXCEPT ![target] = loop[2]]
          /\ cancelled' = cancelled \ {loop}
          /\ lost' = lost \ {target}
       \/ /\ lost' = lost \cup {target}
          /\ UNCHANGED <<nextRun, pc, task, cancelled>>
    /\ UNCHANGED <<row, open, gates, admitted, stale, holder, target,
                   joining, after, exclusive, todo, pending, unreaped, crashes>>

\* next_run_at = NULL
Unset ==
    /\ Step("unset", "return")
    /\ \/ /\ nextRun' = [nextRun EXCEPT ![target] = FALSE]
          /\ lost' = lost \ {target}
       \/ /\ nextRun' = nextRun
          /\ lost' = lost \cup {target}
    /\ UNCHANGED <<row, open, gates, tasks, lanes, holder, target, joining,
                   after, exclusive, todo, pending, unreaped, crashes>>

\* the guard of `lifecycle` (and delete's permit) is dropped; start goes on
Return ==
    /\ at = "return"
    /\ exclusive' = 0
    /\ IF holder = "start"
       THEN at' = "next" /\ holder' = holder
       ELSE at' = "return" /\ holder' = "idle"
    /\ holder # "idle"
    /\ UNCHANGED <<table, gates, tasks, lanes, target, joining, after, todo,
                   ghosts>>

\* begin_retirement
Retire ==
    /\ Step("retire", "stop")
    /\ IF gate[target] # 0
       THEN /\ retiring' = retiring \cup {<<target, gate[target]>>}
            /\ UNCHANGED <<gate, made>>
       ELSE /\ made[target] < MaxGates
            /\ gate' = [gate EXCEPT ![target] = made[target] + 1]
            /\ made' = [made EXCEPT ![target] = @ + 1]
            /\ retiring' = retiring \cup {<<target, made[target] + 1>>}
    /\ UNCHANGED <<table, tasks, lanes, holder, target, joining, after,
                   exclusive, todo, ghosts>>

\* mutated: runs in progress are not waited for
Drain_NoWait ==
    /\ Step("drain", "erase")
    /\ exclusive' = gate[target]
    /\ UNCHANGED <<table, gates, tasks, lanes, holder, target, joining,
                   after, todo, ghosts>>

\* delete takes the keyed permit itself
Drain ==
    /\ Step("drain", "erase")
    /\ GateFree(target, gate[target])
    /\ exclusive' = gate[target]
    /\ UNCHANGED <<table, gates, tasks, lanes, holder, target, joining,
                   after, todo, ghosts>>

\* the DELETE cascades to the executions; finish_retirement(deleted)
Erase ==
    /\ Step("erase", "return")
    /\ row' = [row EXCEPT ![target] = "deleted"]
    /\ nextRun' = [nextRun EXCEPT ![target] = FALSE]
    /\ open' = {r \in open : r[1] # target}
    /\ gate' = [gate EXCEPT ![target] = 0]
    /\ pending' = pending \ {target}
    /\ lost' = lost \ {target}
    /\ UNCHANGED <<made, retiring, tasks, lanes, holder, target, joining,
                   after, exclusive, todo, unreaped, crashes>>

\* mutated: the row survived, its loop does not come back
EraseFails_NoRestore ==
    /\ Step("erase", "return")
    /\ retiring' = retiring \ {<<target, gate[target]>>}
    /\ UNCHANGED <<table, gate, made, tasks, lanes, holder, target, joining,
                   after, exclusive, todo, ghosts>>

\* the DELETE failed: the gate opens again and the row is registered again
EraseFails ==
    /\ Step("erase", "register")
    /\ retiring' = retiring \ {<<target, gate[target]>>}
    /\ UNCHANGED <<table, gate, made, tasks, lanes, holder, target, joining,
                   after, exclusive, todo, ghosts>>

-----------------------------------------------------------------------------
(* Process start and crash *)

\* start: executions still 'running' belong to a process that died.  An UPDATE
\* that fails is logged, and start goes on.
Reap ==
    /\ Step("reap", "list")
    /\ \/ open' = {} /\ unreaped' = FALSE
       \/ open' = open /\ unreaped' = TRUE
    /\ UNCHANGED <<row, nextRun, gates, tasks, lanes, holder, target,
                   joining, after, exclusive, todo, pending, lost, crashes>>

List ==
    /\ Step("list", "next")
    /\ todo' = {h \in Heartbeats : row[h] = "enabled"}
    /\ UNCHANGED <<table, gates, tasks, lanes, holder, target, joining,
                   after, exclusive, ghosts>>

RegisterNext(h) ==
    /\ h \in todo
    /\ Step("next", "register")
    /\ target' = h
    /\ todo' = todo \ {h}
    /\ UNCHANGED <<table, gates, tasks, lanes, holder, joining, after,
                   exclusive, ghosts>>

\* mutated: the reaping follows the registration
Started_Reaps ==
    /\ todo = {}
    /\ Step("next", "return")
    /\ holder' = "idle"
    /\ open' = {}
    /\ UNCHANGED <<row, nextRun, gates, tasks, lanes, target, joining, after,
                   exclusive, todo, ghosts>>

\* the scheduler is stored in the application state: commands find it
Started ==
    /\ todo = {}
    /\ Step("next", "return")
    /\ holder' = "idle"
    /\ UNCHANGED <<table, gates, tasks, lanes, target, joining, after,
                   exclusive, todo, ghosts>>

Crash ==
    /\ crashes < MaxCrashes
    /\ crashes' = crashes + 1
    /\ open' = {<<r[1], 0>> : r \in open}
    /\ gate' = [h \in Heartbeats |-> 0]
    /\ made' = [h \in Heartbeats |-> 0]
    /\ retiring' = {}
    /\ task' = [h \in Heartbeats |-> 0]
    /\ cancelled' = {}
    /\ pc' = [r \in Lanes |-> "off"]
    /\ admitted' = [r \in Lanes |-> 0]
    /\ stale' = {}
    /\ holder' = "start"
    /\ at' = "reap"
    /\ joining' = 0
    /\ exclusive' = 0
    /\ todo' = {}
    /\ after' = "return"
    /\ pending' = {}
    /\ unreaped' = FALSE
    /\ UNCHANGED <<row, nextRun, target, lost>>

-----------------------------------------------------------------------------
LoopStep(r) ==
    \/ Due(r) \/ StopWaiting(r) \/ Advance(r) \/ Select(r)
    \/ GiveUp(r) \/ Post(r)

RunStep(r) == Queue(r) \/ Load(r) \/ Finish(r) \/ Abort(r)

Admission(r) == AcquireGate(r) \/ AcquireGlobal(r)

Handler ==
    \/ Stop \/ Join \/ Register \/ Spawn \/ Unset \/ Return
    \/ Retire \/ Erase \/ EraseFails
    \/ Reap \/ List \/ (\E h \in Heartbeats : RegisterNext(h)) \/ Started

Request(h) == Add(h) \/ Pause(h) \/ Resume(h) \/ Delete(h)

Next ==
    \/ \E r \in Loops : LoopStep(r)
    \/ \E r \in Manual : Trigger(r)
    \/ \E r \in Lanes : RunStep(r) \/ Admission(r)
    \/ \E h \in Heartbeats : Create(h) \/ Request(h) \/ UpdateChecks(h)
    \/ Handler
    \/ Drain
    \/ Crash

Spec == Init /\ [][Next]_vars

\* tokio runs every ready task and its semaphores and mutex serve in order of
\* arrival (strong fairness of what waits for one); a check ends by its
\* timeout of ten minutes; a due time comes; nobody has to click
Fairness ==
    /\ \A r \in Loops : WF_vars(LoopStep(r) \/ RunStep(r))
    /\ \A r \in Manual : WF_vars(RunStep(r))
    /\ \A r \in Lanes : SF_vars(Admission(r))
    /\ WF_vars(Handler)
    /\ SF_vars(Drain)

FairSpec == Spec /\ Fairness

-----------------------------------------------------------------------------
(* Properties *)

\* Every variable stays in its domain.
TypeOK ==
    /\ row \in [Heartbeats -> {"none", "enabled", "disabled", "deleted"}]
    /\ nextRun \in [Heartbeats -> BOOLEAN]
    /\ open \subseteq Heartbeats \X (0..2 + Clicks)
    /\ gate \in [Heartbeats -> 0..MaxGates]
    /\ made \in [Heartbeats -> 0..MaxGates]
    /\ retiring \subseteq Gates
    /\ task \in [Heartbeats -> 0..2]
    /\ cancelled \subseteq Loops
    /\ pc \in [Lanes -> LanePc]
    /\ admitted \in [Lanes -> 0..MaxGates]
    /\ stale \subseteq Lanes
    /\ holder \in {"idle", "start", "add", "pause", "resume", "delete"}
    /\ at \in {"reap", "list", "next", "register", "stop", "join", "spawn",
               "unset", "return", "retire", "drain", "erase"}
    /\ target \in Heartbeats
    /\ joining \in 0..2
    /\ after \in {"spawn", "unset", "return", "drain"}
    /\ exclusive \in 0..MaxGates
    /\ todo \subseteq Heartbeats
    /\ pending \subseteq Heartbeats
    /\ lost \subseteq Heartbeats
    /\ unreaped \in BOOLEAN
    /\ crashes \in 0..MaxCrashes

\* Two runs of one heartbeat never overlap, scheduled or manual, also when a
\* delete that failed re-opened its gate.
RunsNeverOverlap ==
    \A r, q \in Lanes :
        r # q /\ r[1] = q[1] => ~(pc[r] \in Running /\ pc[q] \in Running)

\* A deleted heartbeat has no loop, no run and no gate: whatever had selected
\* its gate before the delete finds it retired, and nobody makes a new one.
DeletedIsQuiet ==
    \A h \in Heartbeats : row[h] = "deleted" =>
        /\ gate[h] = 0
        /\ task[h] = 0
        /\ \A r \in Lanes : r[1] = h =>
              pc[r] \in {"off", "picked", "gate"} /\ (r \in Loops => pc[r] = "off")

\* Once a pause has returned the heartbeat has no loop and no next run, however
\* late an update that had read it as enabled registers it (the row's other
\* writers hold `lifecycle`).  A failed write, or a crash between pause's two
\* writes, may leave the timestamp behind, never a loop.
PausedIsQuiet ==
    \A h \in Heartbeats : row[h] = "disabled" /\ holder = "idle" =>
        /\ \A r \in Loops : r[1] = h => pc[r] = "off"
        /\ crashes = 0 /\ h \notin lost => ~nextRun[h]

\* While no handler is at work, an enabled heartbeat has a live loop that is
\* not cancelled and a next run, unless heartbeat_create has still to register
\* it or a write of next_run_at failed.
EnabledIsScheduled ==
    \A h \in Heartbeats :
        row[h] = "enabled" /\ holder = "idle" /\ h \notin pending \cup lost =>
            /\ task[h] # 0
            /\ pc[<<h, task[h]>>] # "off"
            /\ <<h, task[h]>> \notin cancelled
            /\ nextRun[h]

\* A loop that is alive is the one in `tasks` or the one being joined: there
\* are never two, and none is out of the reach of pause and delete.
LoopsAreOwned ==
    \A r \in Loops : pc[r] # "off" =>
        task[r[1]] = r[2] \/ (at = "join" /\ r = <<target, joining>>)

\* A task whose handle is awaited has been told to stop, so no handler waits,
\* with `lifecycle` held, for a loop that is only waiting for its due time.
AwaitedIsCancelled ==
    at = "join" => <<target, joining>> \in cancelled

\* A run in flight has its execution row, 'running': neither the reaping of
\* start nor the cascade of a delete takes it from under the run; and a run
\* that is over has closed its own, though it may leave one behind as lane 0.
\* Such a row is one of this process's aborted runs, unless start could not
\* reap: then it may be older.
ExecutionsFitRuns ==
    /\ \A r \in Lanes : r \in open <=> pc[r] = "checks"
    /\ holder # "start" /\ ~unreaped =>
          \A h \in Heartbeats : <<h, 0>> \in open => made[h] > 0

\* A handler gets through, though it waits for a run with the lock held.
HandlersReturn == holder # "idle" ~> holder = "idle"

\* Whoever clicked Run now gets an answer.
ManualRunsEnd == \A r \in Manual : pc[r] # "off" ~> pc[r] = "off"

\* A heartbeat that is left alone keeps running: whoever competes for the
\* permits, its loop comes round again and again.
ScheduledRunsRecur ==
    \A h \in Heartbeats :
        <>[](/\ row[h] = "enabled"
             /\ holder = "idle"
             /\ h \notin pending \cup lost)
            => []<>(\E r \in Loops : r[1] = h /\ pc[r] = "run")
=============================================================================
