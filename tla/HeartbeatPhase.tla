---------------------------- MODULE HeartbeatPhase ----------------------------
(***************************************************************************)
(* The due times of one enabled heartbeat: first_future_due and where      *)
(* run_scheduled_loop, register_locked, start and shutdown of              *)
(* src-tauri/src/heartbeat/scheduler.rs apply it.  Admission is one step   *)
(* here (Heartbeat has the gates); a handler that re-registers or shuts    *)
(* down waits for the loop to end, so nothing else writes next_run_at      *)
(* meanwhile.                                                              *)
(***************************************************************************)
EXTENDS Integers

CONSTANTS
    Intervals,  \* intervals a user chooses, in units of the clock
    MaxTime,    \* bound: the clock stops here
    None        \* NULL

ASSUME PhaseAssumption ==
    /\ Intervals \subseteq Nat \ {0}
    /\ MaxTime \in Nat
    /\ None \notin Int

VARIABLES
    now,       \* epoch_seconds()
    interval,  \* heartbeats.interval_minutes
    next,      \* heartbeats.next_run_at
    started,   \* the scheduler's started flag
    pc,        \* where the loop is
    due,       \* the loop's `due`
    pace,      \* the loop's `interval`, captured when it was spawned
    cancel,    \* the loop's token
    handler,   \* what waits for the loop to end, "none" = nobody
    anchor,    \* ghost: a due time of the last fresh registration
    consumed,  \* ghost: the due time of the last tick
    freed      \* ghost: when the loop last began to wait

row  == <<interval, next>>
loop == <<pc, due, pace, cancel>>
ghosts == <<anchor, consumed, freed>>
vars == <<now, row, started, loop, handler, ghosts>>

\* mutated: without the + 1 a stale anchor yields a time that has passed
FirstFutureDue_NoPlusOne(t, persisted, i) ==
    IF persisted = None THEN t + i
    ELSE IF persisted > t THEN persisted
    ELSE persisted + ((t - persisted) \div i) * i

\* mutated: skips the missed intervals by starting a new phase
FirstFutureDue_FromNow(t, persisted, i) ==
    IF persisted = None THEN t + i
    ELSE IF persisted > t THEN persisted
    ELSE t + i

\* first_future_due: the first time of the phase strictly after t
FirstFutureDue(t, persisted, i) ==
    IF persisted = None THEN t + i
    ELSE IF persisted > t THEN persisted
    ELSE persisted + ((t - persisted) \div i + 1) * i

-----------------------------------------------------------------------------
\* heartbeat_create has inserted an enabled row; start is still to run
Init ==
    /\ now = 0
    /\ interval \in Intervals
    /\ next = None
    /\ started = FALSE
    /\ pc = "off"
    /\ due = 0
    /\ pace = interval
    /\ cancel = FALSE
    /\ handler = "none"
    /\ anchor = None
    /\ consumed = -1
    /\ freed = 0

\* the clock, and a machine that sleeps: timers may be late by any amount
Clock ==
    /\ now < MaxTime
    /\ now' = now + 1
    /\ UNCHANGED <<row, started, loop, handler, ghosts>>

-----------------------------------------------------------------------------
(* run_scheduled_loop *)

\* wait_until_due returns true
Wake ==
    /\ pc = "wait"
    /\ due <= now
    /\ ~cancel
    /\ pc' = "due"
    /\ UNCHANGED <<now, row, started, due, pace, cancel, handler, ghosts>>

\* ... or false
StopWaiting ==
    /\ pc = "wait"
    /\ cancel
    /\ pc' = "off"
    /\ UNCHANGED <<now, row, started, due, pace, cancel, handler, ghosts>>

\* the tick is consumed and the next phase persisted before admission
Tick ==
    /\ pc = "due"
    /\ due' = FirstFutureDue(now, due, pace)
    /\ next' = due'
    /\ consumed' = due
    /\ pc' = "queued"
    /\ UNCHANGED <<now, interval, started, pace, cancel, handler, anchor,
                   freed>>

\* acquire_scheduled: both permits, or the token
Admit ==
    /\ pc = "queued"
    /\ \/ ~cancel /\ pc' = "run"
       \/ cancel /\ pc' = "off"
    /\ UNCHANGED <<now, row, started, due, pace, cancel, handler, ghosts>>

\* run_heartbeat has returned, and may have crossed further phases
RunEnds ==
    /\ pc = "run"
    /\ due' = FirstFutureDue(now, due, pace)
    /\ next' = due'
    /\ pc' = IF cancel THEN "off" ELSE "wait"
    /\ freed' = now
    /\ UNCHANGED <<now, interval, started, pace, cancel, handler, anchor,
                   consumed>>

-----------------------------------------------------------------------------
(* Handlers *)

\* heartbeat_update writes the row first; its add_heartbeat (and resume's)
\* then asks the loop to end
Update(i) ==
    /\ started
    /\ handler = "none"
    /\ interval' = i
    /\ handler' = "fresh"
    /\ cancel' = TRUE
    /\ UNCHANGED <<now, next, started, pc, due, pace, ghosts>>

Shutdown ==
    /\ started
    /\ handler = "none"
    /\ started' = FALSE
    /\ handler' = "shutdown"
    /\ cancel' = TRUE
    /\ UNCHANGED <<now, row, pc, due, pace, ghosts>>

\* set_next_run, then the loop is spawned with this due time
Spawn(time) ==
    /\ next' = time
    /\ due' = time
    /\ pace' = interval
    /\ cancel' = FALSE
    /\ pc' = "wait"
    /\ freed' = now

\* register_locked(Fresh) after the join
RegisterFresh ==
    /\ handler = "fresh"
    /\ pc = "off"
    /\ Spawn(FirstFutureDue(now, None, interval))
    /\ anchor' = next'
    /\ handler' = "none"
    /\ UNCHANGED <<now, interval, started, consumed>>

\* shutdown after the join: a tick consumed while queued, or one that fell
\* due unseen, is advanced so that a restart does not catch it up
ShutdownEnds ==
    /\ handler = "shutdown"
    /\ pc = "off"
    /\ next' = FirstFutureDue(now, next, interval)
    /\ handler' = "none"
    /\ UNCHANGED <<now, interval, started, loop, ghosts>>

\* start: register_locked(PreservePersisted)
Start ==
    /\ ~started
    /\ handler = "none"
    /\ started' = TRUE
    /\ Spawn(FirstFutureDue(now, next, interval))
    /\ anchor' = IF anchor = None THEN next' ELSE anchor
    /\ UNCHANGED <<now, interval, handler, consumed>>

\* the row survives; an update that was waiting is forgotten, and with it the
\* phase: the anchor is then whatever the old phase gives
Crash ==
    /\ started' = FALSE
    /\ pc' = "off"
    /\ cancel' = FALSE
    /\ handler' = "none"
    /\ anchor' = IF handler = "fresh" THEN next ELSE anchor
    /\ UNCHANGED <<now, row, due, pace, consumed, freed>>

Next ==
    \/ Clock
    \/ Wake \/ StopWaiting \/ Tick \/ Admit \/ RunEnds
    \/ \E i \in Intervals : Update(i)
    \/ Shutdown \/ RegisterFresh \/ ShutdownEnds \/ Start \/ Crash

Spec == Init /\ [][Next]_vars

-----------------------------------------------------------------------------
(* Properties *)

\* The phase of a registration survives ticks, runs longer than the interval,
\* crashes and restarts: the next run is a whole number of intervals away from
\* the first one, until an update or a resume starts a new phase.
PhaseIsKept ==
    handler # "fresh" /\ anchor # None => (next - anchor) % interval = 0

\* No due time is answered twice, and none that passed while the heartbeat was
\* running or the scheduler down is made up for: the due time of a tick lies
\* after the previous tick's and after the moment the loop began to wait.
TicksNeverReplay ==
    [][consumed' # consumed => consumed' > consumed /\ consumed' > freed]_vars
=============================================================================
