# Network-TerminAI in TLA+

Network-TerminAI is a Tauri application: a Rust backend (`src-tauri/src`), a
React frontend (`src/`) and a Python sidecar (`sidecar/`).  This directory
specifies the parts whose correctness depends on the order of events, checks
them with TLC on small instances and proves the most important facts with TLAPS
for all instances.  Paths below are relative to the repository.

| Component | Modules | Runs | Proofs |
|---|---|---|---|
| fan-out | `Fanout`, `FanoutLedger` | `fanout_safety`, `fanout_live` | `FanoutProofs` |
| heartbeat scheduler | `Heartbeat`, `HeartbeatPhase` | `heartbeat_safety`, `heartbeat_live`, `heartbeat_phase` | `HeartbeatProofs`, `HeartbeatPhaseProofs` |
| editor buffers | `SharedText`, `EditorSync` | `editor_sync` | `EditorSyncProofs` |
| editor panes and windows | `EditorPanes` | `editor_panes` | `EditorPanesProofs` |
| terminal tabs, panes and PTYs | `TerminalPty`, `Terminals` | `terminals` | `TerminalProofs` |
| terminal agent | `TerminalLeases`, `TerminalAgent` | `terminal_agent`, `terminal_turns` | `TerminalAgentProofs` |
| sidecar supervisor | `Supervisor` | `supervisor`, `supervisor_pipes` (violated) | `SupervisorProofs` |

An `MC` module is what TLC runs, with the symmetry if any.  Every definition that stands for
code is in the `map` of `PROJECT.json` with the lines it stands for; operators
commented "mutated" are plausible bugs that show the properties can fail.

## 1. Inventory

| Component | State it keeps | Operations | What is hard | Correct when |
|---|---|---|---|---|
| Fan-out (`src-tauri/src/fanout`) | `fanout_runs`, `fanout_run_results`, `command_blocks` in SQLite; run handles, cancellation tokens, counters in memory | start, cancel run, cancel device, retry, sweep at start-up | one task per attempt, retries beside a running `drive`, tokens that are replaced, crashes between two writes | rows follow tasks, outcomes are permanent, attempts are numbered densely, the run's status is honest, runs close |
| Heartbeat scheduler (`heartbeat/`) | `heartbeats`, `heartbeat_executions`; `tasks`, `heartbeat_gates`, a global semaphore, the `lifecycle` mutex | create, update, pause, resume, delete, run now, the periodic loop, start, shutdown | a mutex held across awaits, a gate that is retired, late registrations, long runs, restarts | runs never overlap, pause and delete leave nothing behind, an enabled heartbeat keeps running, phases are kept |
| Editor buffers (`src/components/editor/editorBufferSync.ts`, `src-tauri/src/editor/buffer_manager.rs`) | per window: base revision, sequence numbers, the request in flight, a timer; centrally: the revisions | type, publish, receive, save, close a window | answers and announcements overtake one another; typing during a save | a window shows a revision that exists, its number goes with its text, saved means on disk, windows converge |
| Editor panes (`src/state/editorStore.ts`, `commands/editor_windows.rs`) | buffers, a workspace per tab, detached windows, `pane_layouts` | open, split, close, detach, reattach, restore after a quit | handlers that await and find the layout changed | panes show buffers that exist, a detached pane hears of its window's end |
| Terminal tabs and PTYs (`src/lib/terminalRegistry.ts`, `src/state/panesStore.ts`, `commands/mod.rs`, `pty.rs`) | registry of terminals, layouts, closed tabs; the map of PTYs, `pty_sessions` | new, split, close, reopen, exit of a shell | `pty_spawn` and `pty_kill` wait for one lock and name a PTY by an id that is used again | no shell untracked, none killed for another, one per terminal, none survives its terminal |
| Terminal agent (`terminal_agent/`, `commands/ai.rs`) | leases on a PTY, captures of its output, identity of its child, the fix under review and the approved one | attach, run a command, propose, edit, approve, reject, stop | a child replaced under a lease, an approval overtaken by a new review, a dead sidecar, a revocation in two steps | only what was approved runs, once; leases are for the child that is there; revoked turns let the PTY go |
| Sidecar supervisor (`bridge.rs`, `agent_bridge.rs`) | the child process, the table of pending requests | spawn, call, stream, idle timeout, death of the child, shutdown | a caller that still holds the handle of a dead child, late answers, a blocked pipe | every request is answered or failed, one child at a time |
| Packet captures (`pcap/orchestrator.rs`) | the capture on the device and its row | start, stop, fetch | a device that is left capturing | started captures are stopped and removed |
| Drift, change verification, notebooks, troubleshooting | runs, cells, phases and their rows | start, step, cancel, resume | cancellation against the next step, crash and resume | rows follow tasks, as in the fan-out |
| Vault (`vault/`) | locked or unlocked key, envelope | unlock, lock, rotate | locking while a secret is in use | no secret is readable while locked |
| Recording (`recording/`) | the recording of a pane | start, stop, append | stop against the last output | nothing lost or written twice |
| SSH sessions, SFTP, TFTP, FTP | sockets, transfers | open, close, transfer, cancel | I/O with other machines | |
| MCP, LSP, DAP clients | request tables | request, answer, cancel | as the sidecar supervisor | |
| Guardrails, parsers, structured view, palette, RAG, topology, git, API and NETCONF runners, IaC, kanban, metadata, skills, agents | mostly none of their own | queries and transformations | little | |
| Commands, application life cycle, migrations | wiring | | start-up order | modelled where a component depends on it |
| Other frontend stores (`src/state`) | views of the backend's rows, fed by events | apply event, reload | events against reloads | the view converges to the rows |

Interaction: the frontend calls Tauri commands (requests with an answer) and
listens to events (one way, in order).  Commands call the components above
directly.  All components share one SQLite connection behind a `parking_lot`
mutex, so a critical section of that mutex is the unit of atomicity; between two
of them, and at every `await`, any other task may run.  The heartbeat runner and
the AI features call the Python sidecar through the supervisor.  A quit of the
application is not announced to the fan-out or the heartbeats: for both it is a
crash.

`PROJECT.json` has the list of hazards, each at the line where it bites.

## 2. Plan

Order, the most consequential first:

1. `Fanout`, `FanoutLedger`, `FanoutProofs` - done.
2. `Heartbeat`, `HeartbeatProofs`, `HeartbeatPhase`, `HeartbeatPhaseProofs` - done; an abstract
   specification of a heartbeat (absent, idle, running, deleted) that `Heartbeat`
   implements is left.
3. `SharedText`, `EditorSync`, `EditorSyncProofs`, `EditorPanes`,
   `EditorPanesProofs` - done.
4. `TerminalPty`, `Terminals`, `TerminalProofs` - done.
5. `TerminalLeases`, `TerminalAgent`, `TerminalAgentProofs` - done.
6. `Supervisor`, `SupervisorProofs` - done; an abstract specification (a set of
   requests, each answered at most once) is left, and so is `HeartbeatRun`, which
   composes `Heartbeat`'s check with the supervisor's timeouts.
7. `Capture` (packet captures on a device that may not answer), `Drift` and
   `Notebook`, which share the rows-follow-tasks pattern of the fan-out.
8. `FanoutView`: the fan-out composed with the event channel and the reducer of
   `src/state/fanoutRunsStore.ts`; the view converges to the table.
9. `Vault` (lock state), `Recording`, `Tftp` (retransmission).
10. `HeartbeatPhase` with a clock that may be set back.

Every safety property a run checks is a theorem, and so are the two refinements.
Theorems still worth proving, which no run states: that no more than `Capacity`
heartbeats execute, that `Supervisor` implements a set of requests answered at most
once, and that `Heartbeat` implements the abstract heartbeat above.

## 3. Fan-out

`Fanout.tla` models one run.  Runs meet only at the semaphore retries share, and a
retry of another run can hold a permit no longer than one of this run, so
`RetryCap = 1` with two retries of this run covers the contention.  A device is its
position in the member list; *slot* `<<d, a>>` is attempt `a` of device `d`: one row
of `fanout_run_results` and at most one task.

| Model | Code |
|---|---|
| `StartRun`, `BlockMember`, `BlockRun`, `Launch`, `Register` | `spawn_run`: one action per lock or await; the refusal of the guardrails is a choice |
| `DriveCheck`, `DriveDispatch`, `DriveJoin`, `DriveRoll` | `drive` |
| `Begin` ... `Tally` | `run_one`, `record_success`, `record_failure`, `record_cancel` |
| `RetryInsert`, `RetryReopen`, `RetryArm`, `RetryDispatch` | `retry_device`, one action per lock |
| `CancelRun`, `CancelDevice` | the cancel handlers; possible only once the handle is registered |
| `Crash`, `SweepRows`, `SweepRun`, `SweepNothing` | the death of the process, `cleanup_orphan_runs` at start-up |

Abstractions: the three counters are read in one step (they are read by the task
that has joined all their first-attempt writers; a retry's increment between two
loads has the effect of one before or after, except for which of two counters
sees it first); the production parser is `NoopParse`, so `record_success` has no
pause of its own; results of database writes are ignored by the executor and
failing ones are not modelled; the panel offers a retry exactly when the attempt
that started last failed, timed out or was cancelled, and a double click is
possible until the next one starts; group members are unique (primary key).

`FanoutLedger.tla` is what the tables promise: attempts are opened, settle once, and
a run may be closed only when none of the first attempts is being worked on.  It
is about 140 lines without tokens, permits, counters or handlers.
`Ledger == INSTANCE FanoutLedger WITH live <- LiveSlots` maps the executor to it.

### Runs

| Run | Instance | Shows |
|---|---|---|
| `fanout_safety` | 2 devices, 1 permit each way, 2 attempts, 1 crash | five invariants, permanence of outcomes, refinement of the ledger |
| `fanout_live` | 2 devices, 1 permit each way, 2 attempts | a started run closes, cancelled or not, and attempts end |

Bounds: two devices on one permit make one wait while the other works, and let a
cancel find one that was never started; two attempts put a retry of one device
beside the first attempt of the other and beside `drive`; one crash reaches every
pair of adjacent writes, and a second one starts from rows the sweep has made.
Two retries of one device at once need three attempts: TLC has checked the
invariants and `OutcomesArePermanent` on one device with three, and the theorems
cover any number.  The runs end when nobody clicks any more, hence
`CHECK_DEADLOCK FALSE`.

Fairness is weak, per handler and task: tokio runs every ready task, a worker ends
by its timeout (`worker_live.rs`), and nothing obliges the user to click or the
process to crash.  The retry semaphore needs no strong fairness because the number
of attempts is bounded and holders always end.

### Proofs (`FanoutProofs.tla`)

For every number of members, permits, attempts and crashes, from
`FanoutAssumption` alone: `TypeCorrect`, `Invariance`, `RowsFollowTasks`,
`OutputsAreStored`, `DenseAttempts`, `HonestVerdict`, `RefusedIsQuiet`,
`PermanentOutcomes`, `Implementation` and `ExactCounters`.

None of the properties is inductive.  `IInv` adds to the type invariant:
`TaskInv` (rows follow tasks, and a working attempt has no later one behind its
back), `SpawnInv` and `DriveInv` (where `spawn_run` and `drive` are determines
which slots can have rows and tasks: in particular member `next` and the ones
after it have none), `CountInv` (a counter is zero only while no first attempt
has its outcome: the part of exactness the verdict needs, without cardinalities),
`VerdictInv` and `ClosedInv` (what a verdict computed earlier still means when it is
written, although retries go on), and `RefusedInv`.  `VerdictIsHonest` is the
interesting one: retries add to the same counters, so a verdict may be coarser
than the rows (`partial`), but never claims a success or a failure that no first
attempt has.  TLC checked `IInv` as an invariant before it was proved.

`ExactCounters` compares the counters with cardinalities of three sets of attempts,
`Over(S)`.  `ExactInv` is `CountersAreExact` with the sets named.  A step other than
a tally changes none of them, because an outcome is written by the tally alone
(`OutcomeStep`); the tally of `s` adds `s` to one of them, in which it was not, and
adds one to the counter of that one (`TallyCounts`, by the library's facts about
cardinalities).  A crash ends what it claims: counters live in memory.

Only model-checked: the liveness properties.

## 4. Heartbeats

`Heartbeat.tla` is the concurrency of the scheduler.  Each heartbeat has *lanes*: two for
tasks that run `run_scheduled_loop` (the second would be used only if a
predecessor were not joined, which `LoopsAreOwned` excludes) and `Clicks` for
`trigger_now` calls in flight.  The handler that holds `lifecycle` is described by
`holder`, `at` and `target`; handlers that wait for the lock have no state yet.

| Model | Code |
|---|---|
| `Due`, `StopWaiting`, `Advance`, `Select`, `GiveUp`, `Post` | `wait_until_due`, `run_scheduled_loop`, the cancellable half of `acquire_scheduled` |
| `Trigger`, `Queue`, `AcquireGate`, `AcquireGlobal` | `trigger_now`, `acquire_selected`, `acquire_scheduled` |
| `Load`, `Finish`, `Abort`, `UpdateChecks` | `run_heartbeat` and what replaces its checks meanwhile |
| `Create`, `Add`, `Pause`, `Resume`, `Delete` | the commands, up to taking the lock |
| `Stop`, `Join`, `Register`, `Spawn`, `Unset`, `Return` | `cancel_task_locked`, `register_locked`, `pause` |
| `Retire`, `Drain`, `Erase`, `EraseFails` | `delete` with `begin_retirement` and `finish_retirement` |
| `Reap`, `List`, `RegisterNext`, `Started`, `Crash` | `start` in a new process, the death of the old one |

`Add` is enabled whenever the heartbeat was ever created: `heartbeat_update` reads the
row as enabled and asks for the lock later, so its snapshot may be arbitrarily
old.  Writes of `next_run_at` may fail (`lost` remembers for which heartbeat), and so
may the DELETE, which takes the executions with it, and the UPDATE of `start` that
closes the executions of a dead process (`unreaped`; the failure is logged and start goes
on).  `open` is the executions that are 'running': of a run in a lane, or left behind.
Failing reads are not modelled.  Only the retirement flag,
the cancellation and the permit are looked at between awaits; a check right after
an acquisition is part of that action.  `shutdown` has no caller in the program
(tests use it); it is in `HeartbeatPhase`.

`HeartbeatPhase.tla` is the arithmetic: one enabled heartbeat, a clock, timers that may
be late, and `FirstFutureDue`, applied at the tick, after the run, at registration,
at shutdown and at start.  Its clock never goes backwards, and overflow of the
checked 64-bit arithmetic is out of reach of epoch seconds.

### Runs

| Run | Instance | Shows |
|---|---|---|
| `heartbeat_safety` | 1 heartbeat, 2 manual runs, 2 permits, 1 crash | runs never overlap; pause and delete leave nothing behind; loops are owned; executions fit runs; an enabled heartbeat has its loop |
| `heartbeat_live` | 1 heartbeat, 1 manual run, 1 crash | handlers return, manual runs end, a loop left alone comes round |
| `heartbeat_phase` | intervals 2 and 3, clock to 9 | the phase is kept, no tick is answered twice or made up for |

Bounds: two manual runs and a loop put three runs at one gate, one of them holding
it, one waiting, one having selected it before a retirement, and two global
permits leave the gate alone responsible for keeping them apart; two gates allow a
second one to be made (it never is).  Several heartbeats meet at the global
permit only: TLC has checked the invariants with two and one permit while
modelling, and the theorems are about any number.  A clock of nine units holds four intervals
of two and a run that crosses several.

Fairness: weak for every task and handler (tokio), strong for the acquisition of
permits and for `Drain`, because tokio's semaphores serve in order of arrival.  The
due time of a waiting loop comes (time passes), and a check ends by its timeout
of ten minutes.

### Proofs (`HeartbeatProofs.tla`)

For any number of heartbeats, clicks, permits, gates and crashes, from
`HeartbeatAssumption` alone: `TypeCorrect`, `Invariance`, `NoOverlap`,
`QuietAfterDelete`, `QuietAfterPause`, `ScheduledWhenEnabled`, `OwnedLoops`,
`CancelledBeforeAwait` and `RowsFitRuns`: every invariant the runs of
`Heartbeat` check.

The argument.  A gate is a semaphore of one permit, but gates come and go, so that
two runs hold the permits of *different* gates must be excluded: `SelectedInv`
says that a lane which has selected a gate holds the one in the map or a retired
one, and that only the former is let in; `RetireInv` that a retired gate belongs
to a deleted heartbeat or to the delete at work, whose failure re-opens that very
gate.  `OneAdmitted` and `NoOverlap` follow.  `EraseInv` says that the DELETE
happens with the permit in hand and nobody inside.  `HandlerInv` and `TaskInv`
tie the handler's position to the row and the task table of its target (the
handler's own guarantee, since it holds `lifecycle` across awaits), and with
`LoopsAreOwned` give the absence of loops after pause and delete.
`DisabledInv` and `EnabledInv` extend what holds between handlers to the
states inside one: a schedule that does not fit its row is the target of the
handler at work, or start has not reached it.  `OpenInv` says that an execution is
'running' exactly while its run has its checks, and that one left behind is of this
process, where a gate was made for the run, unless `start` could not close what it
found.  `ManualNeverTicks` is small.  TLC checked `IInv` with one heartbeat and two manual runs, and with two
heartbeats, before it was proved.  The steps of lanes share the lemmas
`LaneFrame` and `LaneGate`.

Only model-checked: the liveness properties.

### Proofs (`HeartbeatPhaseProofs.tla`)

For any set of intervals and any clock, from `PhaseAssumption` alone:
`PhaseInvariant`, `KeepsPhase` and `NeverReplays`.  The provers know that `%` is the
rest of `\div` and little more, so "on the phase" is written `OnPhase(t, a, i)`: `t` and
`a` are `k * i` apart for some integer `k`.  Going on by whole intervals keeps that
(`PhaseGoesOn`), and it implies the remainder the property is about
(`PhaseIsModular`).  `FutureDue` says what `FirstFutureDue` returns: a time after now, no
more than one interval after it once the anchor has passed, on every phase the
anchor is on.

`PhaseIsKept` is not inductive: the loop computes from its own copies of due time and
interval and writes the row from them.  `LoopInv` says that the copies are the
row's, except that the interval may be out of date while an update holds the loop
and is about to register afresh; `RowInv` that a heartbeat that was started has a
due time and a phase.  For `NeverReplays`, `TickInv` adds that a due time that is
waited for lies after the last tick and after the moment the wait began.

## 5. Editor

### Buffers (`EditorSync`, `SharedText`)

One buffer, shown by the editor tab of the main window and by a window a pane was
detached into.  A window keeps its own text and publishes it, at most one request
at a time, on top of the last revision it has heard of; the authority in the
backend accepts or refuses, and announces what it accepted to everybody.  Answers
and announcements travel apart.

| Model | Code |
|---|---|
| `Start`, `Subscribed`, `Register`, `Joined` | `register`, the subscription before it and the answer after it |
| `Type`, `Relabel`, `Queue`, `Tick`, `Update`, `Commit` | `queueLocalChange`, the timer, the call and `update` of the buffer manager |
| `Applied`, `Conflict`, `UpdateFails` | `handleUpdateResult`, the `catch` and the `finally` behind it |
| `Receive` | `receiveEvent` |
| `Save`, `Flush` ... `WriteFile`, `MarkSaved`, `Saved`; `Close`, `Closed` | flush, write of the file, `markSaved`; the close of a detached window |

`SharedText` is the promise: one history of texts that only grows, and readers that
only move forward in it.  `ImplementsSharedText` maps `log` and `base` to it; so
no window ever goes back to an older revision.

`editor_sync`: two windows, two edits, one save or close, one failing call.  Two
edits are what it takes for two windows to compete for a revision, or for one
window to type while its own request is in flight; with the save they reach
every order of typing, flush, write and mark.  Fairness is weak for timers, answers
and announcements: JavaScript runs its timers and Tauri its calls.  Nobody has
to type or save.  `WindowsConverge` holds although one call may fail, because a
failure sets the timer again.

A file has one text but two windows may save it, and nothing orders their writes:
window 1 may ask for its write, window 2 flush, write and mark, and the write of
window 1 land last.  `SavedIsOnDisk` therefore speaks of the window that wrote last
(`writer`, a history variable): what it marks saved is in the file.

### Proofs of buffers (`EditorSyncProofs`)

For any set of windows and all bounds, from `EditorSyncAssumption` alone:
`SyncInvariant`, `ShowsCommitted`, `NeverCompetesWithItself`, `SavedStays` and
`ImplementsShared`.  The invariant is one conjunct per window and hazard:

- `PhaseInv`: a client knows no revision before it listens, and asks for nothing
  before it is registered;
- `RevInv`: a revision somebody knows is in the authority's log, and a save is going to
  write the text of the revision it will mark;
- `SeqInv`: a request carries a change that is not acknowledged yet, and none that was
  not typed;
- `OwnInv`: a revision of its own that a window has not heard of is covered by the
  answer on its way, and an update is sent only when there is none.  That is why a
  refusal means that somebody else wrote (`RefusedInv`);
- `ShownInv` and `DiskInv`: the properties, and the moment before a mark.

What another window does only makes the log longer (`OthersKeep`), which each part
survives (`RevKeeps` ... `DiskKeeps`); so the proof is one lemma per action about the
window that acts.  The refinement maps a step that makes the log longer to `Write`, one that
raises `base` to `Learn`, and the rest to stutters; it needs
`RevInv`, for a reader may not be ahead of the log.

### Panes (`EditorPanes`)

Editor tabs with a tree of panes each, written as the panes from left to right with
the depth of each.  Calls of the store are single steps; handlers that await the
backend (open a file, make a window, load a layout) are `tasks` between two steps,
and the notice that a window was closed is a message.  A quit keeps `stored` (rows of
`pane_layouts`) and loses the rest.

| Model | Code |
|---|---|
| `Open`, `ListWindows`, `ReadRow`, `Load` | the effect of `EditorTab` with `loadWorkspaceLayout`: the list of windows, the row, and the set, between which anything may happen |
| `Restore` | `reconcileDetachedEditorPanes` against the list as it was; `Unknown` is the list that failed, for which every mark is believed |
| `Remount` | the tabs mount again after an `ErrorBoundary` was reset |
| `AskCloseTab`, `Reset`, `Quit` | `tab_close_editor` and `resetWorkspace`; the end of the application |
| `Split`, `ClosePane`, `FocusPane`, `Select`, `AskFile`, `FileArrives`, `AskClose`, `Closing` | the calls of the store and the handlers around them |
| `AskDetach`, `MakeWindow`, `Detached` | `detachPane`, `editor_detach_pane`, `markPaneDetached` |
| `CloseWindow`, `Notice`, `AskBack`, `BroughtBack` | the end of a window, its notice, `bringPaneBack` |

A window may be closed as soon as it is made, before `detachPane` hears of it.  The read of
a row may fail, which the code takes for a tab without a row.  Writes of rows succeed and
keep their order.  When the tabs mount again nobody listens for a while, so notices on
their way may be lost; the listener is taken to be there once the tabs have mounted, and
a tab is loaded once at a time.

`editor_panes`: two interchangeable tabs, two panes, one file and two untitled buffers,
one window, one handler waiting and one quit.  `PanesHaveBuffers` says that no pane shows a
buffer the store has dropped.  `MarksStayHeard` says that a pane marked as detached
whose window is there, or whose window's notice is on its way, does not lose both while it
keeps the mark: whoever closes the window and whatever copies the pane, the user gets
the pane back.  The step that mounts the tabs again is the only exception.  It does not
say that every mark has a window: section 9 has the ways in which a mark is out of date
from the start.  One file is shared by the tabs, and one waiting handler meets every change
the user can make meanwhile.  With three panes, where one lies in two splits, the run takes
longer than a check should; that branch of `RemovePane` is covered by the proofs.

### Proofs of panes (`EditorPanesProofs`)

For any tabs, files and bounds, without an assumption on them: `PaneInvariant`,
`PanesShowBuffers` and `MarksAreHeard`.  `PanesHaveBuffers` is a conjunct of `IInv`
(`BufferInv`), and `MarksStayHeard` follows from it for each step (`Hears`).  What they need
besides:

- `SpaceInv`, `WindowInv`, `TaskInv`: layouts are sequences of panes, windows have
  numbers up to `made`, handlers carry what they were started with.  Which pane a
  focus names plays no part, so its domain is left open;
- `StripInv`: a strip has a buffer once.  `CloseBuffer` takes one entry out where the
  code filters all that are equal, and by this invariant that is the same;
- `MarkInv`: a mark of a tab (`Known`: shown, stored, in a row a handler has read, or about
  to be made by `detachPane`) names a window that was made, and made for this pane.  Window
  numbers (uuids in the code) are not used again, so a mark that is out of date never
  points to another pane's window, and the notice of a window is the one its pane waits
  for.

A step is split into what it does to layouts (`SpacesGoOn`), to windows (`WindowsGoOn`)
and to handlers (`TasksGoOn`); `GoOn` puts the three together, and gives `Hears` too.
Two actions do not fit and are proved directly: `MakeWindow` (a new number) and `Quit`.

## 6. Terminals

`TerminalPty` is the registry of the frontend and the map of PTYs of the backend.
Entries of the registry are *sessions*: from `getOrCreate` to the death of the
process.  A message of the frontend (`pty_spawn`, `pty_kill`, the exit event) waits
and may be overtaken; the backend serves them in any order, each in one step since
`pty_spawn`, `pty_kill` and one turn of a PTY's event loop hold `pty_spawn_lock`
throughout.  `Terminals` adds what uses them: tabs, the list of closed tabs, layouts with
their stored rows, the focus, and the slots React mounts.  `Terminals` takes
part in `PtySpec` by conjunction: every step of it is a step of `PtyNext` or none.
The macOS and Linux build is modelled, without managed SSH.

| Model | Code |
|---|---|
| `Create`, `Dispose`, `SpawnAnswer`, `HandleExit` | `getOrCreate`, `dispose`, `wireSession`, `onEvent` |
| `SpawnRun`, `SpawnFails`, `KillTake`, `KillSignal`, `ForwardExit` | `pty_spawn`, `pty_kill` under and after its lock, the PTY's event loop |
| `NewTab`, `CloseTab`, `ReopenAsk`, `Reopen`, `ShellExit` | `seedTerminalTab`, the tab's cross, `reopenClosedTab`, the exit event |
| `EffectLoad`, `LoadLayout` | `loadLayoutForTab` for App's effect and for its callers: the row is read when asked, the answer comes later |
| `SplitPane`, `PressClose`, `PressCmdW`, `MountSlot` | `splitPane`, the pane's cross, Cmd+W, `TerminalSlot`'s effect |
| `SetFocusedPane`, `NavigateFocus`, `FocusNotified` | clicks, Cmd+Alt+arrow, Cmd+Shift+M |

| Run | Instance | Shows |
|---|---|---|
| `terminals` | one tab, one split placeholder, two sessions | shells and tabs go together, whatever is closed and reopened meanwhile; disposed shells end |

Bounds: two sessions are a tab's first shell and the one of its reopening, whose id
is the same, which is where kills and exits could go astray.  The inductive
invariant was checked with three, and is proved for all.  Init may have a stored
split, as an earlier run of the application leaves it.

Fairness: Tauri answers its calls, the lock is fair, threads that kill run.  No
shell has to end by itself.

### Proofs (`TerminalProofs`)

For any tabs, placeholders and number of sessions: `EveryChildIsTracked`,
`KillsHitTheirOwn`, `RowsOfLiveTabsAreOpen`, `OneShellEach`, `TabsGoWithTheirShell` and
`PtysAreTyped`.  `IInv` says what the code relies on without writing it down: the
entries of the registry are undisposed sessions of their terminals (`Registered`),
whose kill is sent only once the answer of the spawn is there (`KillsInTime`), so a
session whose spawn was accepted owns its id until its own kill takes it
(`Mapped`), a second spawn under the same id being refused until then.  The proof is
about `PtySpec`; `UsesThePtys` carries it to `Spec`.  The action property needs
`Told` besides: an exit event is about a shell that has ended.

## 7. Terminal agent

`TerminalLeases` is one PTY: the identity of its child (generation, and an epoch that
each keystroke of the operator raises), the leases agent turns hold on it, the one
capture of its output and the command loop of the gateway.  `TerminalAgent` adds turns
(a run, or a resume after a fix was reviewed), the sidecar, which serves one
request at a time and may die, and the review: a fix is proposed, shown, possibly
edited, approved or rejected, and executed.  A lease names its turn.

| Model | Code |
|---|---|
| `Takeover`, `KillBegins`, `KillEnds`, `SpawnBegins`, `SpawnEnds`, `ExitSeen` | `pty_write`, `pty_kill`, `pty_spawn`, the event loop, as far as they touch leases |
| `Attach`, `Issue`, `Expire`, `Revoke`, `RevokeForTurn`, `RemoveCapture` | `TerminalAgentManager` |
| `Begin` ... `Drop`, `Abandoned` | `execute_command`; the server drops the handler when the client has given up |
| `ValidateTurn`, `IssueTurn`, `ServeRun`, `ServeResume`, `EndTurn`, `Finish` | `agent_react_code_run`, `agent_react_resume`, the sidecar's loop |
| `Propose`, `ExecuteFix`, `Diagnose`, `BeginInvestigation` | the gateway's endpoints |
| `Edit`, `EditShown`, `Approve`, `Confirm`, `Reject`, `Stop` | the dialog of `AgentPanel.tsx` and its commands |

What is assumed of the agent: nothing.  It is a language model, so it may ask to run
any batch at any time.  The digest of a batch is taken to identify it.  The dialog's
commands are synchronous Tauri commands and take turns on the main thread
(`MainFree`).  `credit` is a history variable: approvals pressed less executions begun.
Modelled is the Windows build, where `managed_ssh_bindings` ties a lease to a child; the
gateway endpoints to approve and cancel have no caller.

| Run | Instance | Shows |
|---|---|---|
| `terminal_agent` | one turn, two batches of two commands, two children, one keystroke, two decisions | only what was approved runs, and once; leases are for the child that is there |
| `terminal_turns` | two turns, one child, no decisions | a revoked turn lets the PTY go, and its command returns although the device is silent |

Bounds: two batches are the approved one and another; two decisions let an
approval meet a second review or a rejection; two children make a replaced one.  For
the captures a second turn matters instead, and decisions do not.

Fairness: a removal that is pending is carried out, and a step of a command that
needs nothing of the device is taken.  The device owes nothing.

### Proofs (`TerminalAgentProofs`)

For any turns, batches, decisions, children and keystrokes: `TypeCorrect`, `Invariant`,
`OnlyApprovedRuns`, `ReviewEndsApproval`, `LeasesFit` and `RevokedLetsGo`: every
invariant the runs check, and that an approval does not outlive a later review.  `ChildInv` says that the binding is the last child's and
that no lease is live while a child is being replaced; without it a lease could
fit a binding by chance.  `FixInv` says where an unused press may be: in the decision
between its two locks or in `approved`, never in both, which with `credit` gives "one
press, one run".  Only model-checked: `RevokedCommandsEnd`.

## 8. Sidecar supervisor

`Supervisor` is `SidecarSupervisor`: calls of any number of threads, the Python child they
share, the two pipes between them and the reader thread of each child, with the request
loop of `server.py`, which serves one request after the other.  A call is one request
with an id of its own.  A child that died is replaced by the next call, so several
children, their tables and their readers may be around although one lives.

| Model | Code |
|---|---|
| `Call`, `Get`, `Spawn`, `SpawnFails` | `get_or_spawn`, which holds the slot's lock and takes the child's |
| `Send`, `WriteOn` | `pending.insert` and `write_all` under `Inner`'s lock; `writer` is the call that holds it while the pipe is full |
| `Receive`, `TimesOut`, `GiveUp` | the loop of `call_stream_ex` and of its variant with an idle timeout |
| `Serve`, `Emit`, `Finish`, `Dies` | `run_loop` of the sidecar and the end of its process |
| `ReadLine`, `Route` | the reader thread: a line, its dispatch under the lock |
| `ReadFails`, `Drain` | `Ok(0) \| Err(_) => break`: the reader leaves at the end of the file or at a line that is not UTF-8, and tells everybody who waits |
| `Shutdown` | `shutdown`, which `restart` and `stop` of `AgentBridge` call |

Abstractions.  A request is either `Big`, which the pipe takes only while the child
reads, or always fits.  `stdout` holds `Room` lines.  Critical sections that do not
wait for a pipe are one step; so is the drain, whose messages go to channels nobody
else can fill any more.  The idle timeout may fire whenever the channel is empty.
A child in `Noisy` may print a line that is not UTF-8; its reader breaks off then, drains
the table and ends, and is *deaf* if the child lives on.  Its end of the pipe is closed
with it, so that the child's next line raises in `run_loop` and the child dies, but nothing
makes it write one, and calls that find it alive meanwhile enter a table nobody will
drain again.  `stdout` ends when the child does: no process the child started holds it
open.  Heartbeats of the sidecar carry no id, need no lock and are left out, and so is the
one-shot `Bridge` of the same file.  That the reader thread cannot be spawned and that
`try_wait` fails are not modelled.

| Run | Instance | Shows |
|---|---|---|
| `supervisor` | 2 calls, one with a timeout, one large without, 2 children, either of which may print a bad line, 1 event per request besides the last, 1 line in the pipe | one child at a time; whoever waits was told or is in the table of a child whose reader has not left for good, callers of a deaf child excepted; calls end under the conditions below |
| `supervisor_pipes` (violated) | 2 calls with timeouts, one of them large, 1 child | the timeout of a call waits for the lock of a write that is stuck |

Bounds: two children are the one a call was given and the one that replaced it; two
calls are one that writes or waits while the other comes or gives up; a pipe of one
line is full after an event, which is when the child waits for the reader and the
reader, needing the lock, for the writer.  The runs end when every call has
returned, hence `CHECK_DEADLOCK FALSE`.

Fairness: threads that can go on do, and time passes.  The child owes nothing: it may
work for ever, die or answer.  `CallsEnd` therefore has a condition, that no lock is
held for ever, and promises calls without a timeout an end only if their child dies and
its reader saw it: one whose child lives may be waiting for its answer, and one whose child
is deaf waits for ever, even after the child's death (section 9).
`supervisor_pipes` drops the condition: the comment above the timeout says that a
wedged sidecar is still caught, and it is not when a large request is being
written to it, for then the call whose timeout fired, the reader, the next caller and
`shutdown` wait for the lock the writer holds.  With more events the same happens to a
child that is healthy: it waits for room in `stdout`, the reader for the lock, the
writer for the child.

### Proofs (`SupervisorProofs`)

For any calls, large or not, with timeouts or without, and any number of children and
events, from `SupervisorAssumption` alone: `TypeCorrect`, `Invariant`,
`ChildrenAreApart` and `NobodyIsForgotten`.  `Slotted` says that only the child in the
slot may live, `ReadersLast` that a reader that is gone, not deaf, has seen its child's end, `Given` that a
call holds a child that was spawned, `Writing` that a lock held across steps is held by a
call that is in the table already, which keeps the reader from ending.  With them
`WaitersAreRegistered` is inductive: a call that was given a child before it died finds
it dead when it writes, and one that found it alive is in the table the reader will drain.
The exception is a call that found it alive and deaf; the reader forgets nobody who is in
the table when it breaks off.
Only model-checked: `CallsEnd`.

## 9. Where the code and its texts disagree

`supervisor_pipes` above is a run.  The others were met while modelling, are
possible in the models and have no run of their own:

- Cmd+W closes a split pane and leaves its shell running: `PressCmdW` edits the layout
  and keeps the entry (`usePaneSplit.ts:42`), while `docs/SPLIT_PANES.md:64` says that a
  closed pane's process terminates gracefully.
- A cancelled run leaves its retries running: their tokens are not children of the
  run's (`executor.rs:805`; `FANOUT.md:71`), and members never reached stay pending in a
  closed run (`executor.rs:393`; `useFanoutShortcuts.ts:13`).
- After a crash a refused command may be retried unclassified (`executor.rs:764`, `:114`);
  a finished retry leaves the run 'running' until the next start marks it failed
  (`executor.rs:784`, `store.rs:492`); a retry in flight under a closed run is never
  swept (`store.rs:496`; `FANOUT.md:100`).
- Replacing the checks of a heartbeat under its run leaves the execution 'running'
  (`scheduler.rs:553`, `runner.rs:84`).
- `removeEditorPane` leaves a pane that lies two splits deep (`editorPaneLayout.ts:215`).
- A save of the editor makes text typed during it a conflict of the window with itself,
  and replaces it (`editorBufferSync.ts:351`); in a buffer that is not shared, such
  text is shown as saved (`editorStore.ts:396`).
- A tab reopened while the kill of its old shell waits is refused a new one
  (`App.tsx:505`), and a tab's cross leaves the shells of its other panes (`TabBar.tsx:313`).
- The reader of the sidecar "exits when stdout closes" (`bridge.rs:320`), but `Ok(0) | Err(_)
  => break` (`bridge.rs:331`) makes it leave a living child at a line that is not UTF-8; a
  call without a timeout that comes after that is never answered nor failed.
- Executions stay 'running' although nothing runs: when the UPDATE of `start` fails
  (`scheduler.rs:342-350`), and when a run is aborted while its process lives on.
- A pane may be shown as detached although its window is gone: the window closes
  between the list and the set, or the list fails and every stored mark is believed
  (`EditorTab.tsx:367`, `editorStore.ts:619`); or it closes before `detachPane` hears that it
  was made (`EditorTab.tsx:785-792`).  Bringing the pane back still works, since closing a
  window that is gone is a success.
- Revocations remove the capture of the PTY, not of the lease: a late one cuts the
  command of another turn.  An edited preview that arrives after the decision opens the
  dialog again (`AgentPanel.tsx:657`), and rejecting it ends the lease of the turn that
  is applying the fix.

## 10. What is out of the prover's reach

Liveness under fairness is checked by TLC only: `StartedRunCloses`, `AttemptsEnd`,
`HandlersReturn`, `ManualRunsEnd`, `ScheduledRunsRecur`, `PendingSettles`, `WindowsConverge`,
`DisposedShellEnds`, `RevokedCommandsEnd` and `CallsEnd`.  Every other property of a run that
passes is stated by a theorem.  There are no recursive definitions, so no induction over
data is needed; the filters of sequences that the community modules define recursively
appear in `EditorPanes` only (`Attached`, for a guard and for the choice of a pane), where
the proofs need not look into them.

Type correctness is proved for every component (`TypeCorrect`, `PtysAreTyped`, and as a
part of `PhaseInvariant`, `SyncInvariant` and `PaneInvariant`) and is not a property of the runs, and so is that a terminal has one shell
(`OneShellEach`).

## 11. Not modelled

Section 1 and the `components` of `PROJECT.json` name the rest.  Within the
modelled components: fan-out groups, exports, diffs and the event stream to the
frontend; heartbeat findings, retention, suggestions and notifications; the
editor's find and replace, git and language servers, and the texts of untitled
buffers; managed SSH in `TerminalPty`, detached terminal windows, commands parked for
a terminal that is starting, resizing, the slot for terminals without a layout
(`App.tsx:1351`) and the connection store; in the terminal agent, `revoke_all` at
shutdown, the launch nonce of saved SSH on macOS, the leases of the other builds
and the checks a command or plan must pass; in the supervisor, heartbeats, a reader
thread that cannot be spawned and a `try_wait` that fails.
