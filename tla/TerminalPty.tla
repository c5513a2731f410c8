------------------------------ MODULE TerminalPty ------------------------------
(***************************************************************************)
(* The shells behind the terminals: the registry of the frontend           *)
(* (lib/terminalRegistry.ts) and the map of PTYs of the backend            *)
(* (src-tauri/src/commands/mod.rs, pty.rs), which call each other by       *)
(* messages that wait.                                                     *)
(*                                                                         *)
(* A session is one entry of the registry with the shell it asks for, from *)
(* getOrCreate to the death of its process.  pty_spawn, pty_kill and one   *)
(* turn of a PTY's event loop hold pty_spawn_lock, so each is one step.    *)
(* The macOS and Linux build is modelled: no managed SSH.                  *)
(***************************************************************************)
EXTENDS Naturals, FiniteSets

CONSTANTS
    Tabs,         \* ids of terminal tabs
    Extra,        \* placeholder ids of split panes
    MaxSessions,  \* bound: entries ever made in the registry
    None

ASSUME TerminalPtyAssumption ==
    /\ MaxSessions \in Nat
    /\ Tabs \cap Extra = {}
    /\ (Tabs \cup Extra) \cap Nat = {}
    /\ None \notin Tabs \cup Extra \cup Nat

Terms    == Tabs \cup Extra    \* keys of the registry: terminalId
Sessions == 1..MaxSessions
Keys     == Tabs \cup Sessions \* keys of the backend: ids of PTYs

VARIABLES
    entry,    \* registry: terminal -> its session, or None
    term,     \* session -> its terminal, None before getOrCreate
    key,      \* session -> preferredTabId, or an id of the backend's choice
    call,     \* session -> state of its pty_spawn call
    disposed, \* entry.disposed
    kill,     \* session -> state of the pty_kill its disposal asks for
    held,     \* session -> session whose handle that pty_kill has taken
    proc,     \* session -> state of its shell process
    exit,     \* session -> what has become of the Exit event
    ptys,     \* AppState.ptys
    openRow   \* tabs whose row has no closed_at

frontend == <<entry, term, key, disposed>>
ptyVars  == <<frontend, call, kill, held, proc, exit, ptys, openRow>>

CallStates == {"none", "queued", "spawned", "failed", "resolved", "rejected"}
KillStates == {"none", "armed", "sent", "taken", "done"}
ProcStates == {"none", "alive", "signalled", "exited"}
ExitStates == {"none", "waiting", "sent", "over"}

PtyInit ==
    /\ entry    = [x \in Terms |-> None]
    /\ term     = [s \in Sessions |-> None]
    /\ key      = [s \in Sessions |-> None]
    /\ call     = [s \in Sessions |-> "none"]
    /\ disposed = [s \in Sessions |-> FALSE]
    /\ kill     = [s \in Sessions |-> "none"]
    /\ held     = [s \in Sessions |-> None]
    /\ proc     = [s \in Sessions |-> "none"]
    /\ exit     = [s \in Sessions |-> "none"]
    /\ ptys     = [k \in Keys |-> None]
    /\ openRow  = {}

IsNext(s) == s \in Sessions /\ \A r \in Sessions : (r < s) <=> (term[r] # None)

\* entry.ptyTabId is set
Known(s) == call[s] = "resolved" /\ ~disposed[s]

-----------------------------------------------------------------------------
(* The registry *)

\* getOrCreate: an entry that is there is used again, or else a session is
\* made whose shell is asked for under the given key (the backend chooses one
\* when the caller prefers none)
Create(x, prefer) ==
    IF entry[x] # None
    THEN UNCHANGED ptyVars
    ELSE \E s \in Sessions :
            /\ IsNext(s)
            /\ entry' = [entry EXCEPT ![x] = s]
            /\ term' = [term EXCEPT ![s] = x]
            /\ key' = [key EXCEPT ![s] = IF prefer THEN x ELSE s]
            /\ call' = [call EXCEPT ![s] = "queued"]
            /\ UNCHANGED <<disposed, kill, held, proc, exit, ptys, openRow>>

\* mutated: the spawn that is pending is not waited for.
KillOf_NoWait(s) == IF call[s] = "resolved" THEN "sent" ELSE "none"

\* the ptyKill that hangs on _ptySpawnPromise
KillOf(s) == CASE call[s] = "resolved" -> "sent"
               [] call[s] = "rejected" -> "none"
               [] OTHER -> "armed"

\* dispose, of its variables
DisposeEntry(x) ==
    IF entry[x] = None
    THEN UNCHANGED <<entry, disposed, kill>>
    ELSE /\ entry' = [entry EXCEPT ![x] = None]
         /\ disposed' = [disposed EXCEPT ![entry[x]] = TRUE]
         /\ kill' = [kill EXCEPT ![entry[x]] = KillOf(entry[x])]

Dispose(x) ==
    /\ DisposeEntry(x)
    /\ UNCHANGED <<term, key, call, held, proc, exit, ptys, openRow>>

\* The answer of pty_spawn arrives: wireSession's promise.then, and the kill
\* that waited for it.
SpawnAnswer(s) ==
    /\ call[s] \in {"spawned", "failed"}
    /\ call' = [call EXCEPT ![s] = IF @ = "spawned" THEN "resolved"
                                                    ELSE "rejected"]
    /\ kill' = [kill EXCEPT ![s] =
                  IF @ # "armed" THEN @
                  ELSE IF call[s] = "spawned" THEN "sent" ELSE "none"]
    /\ UNCHANGED <<frontend, held, proc, exit, ptys, openRow>>

\* mutated: events are taken after the entry was disposed too.
Heeds_Always(s) == term[s] # None

\* onEvent's first line
Heeds(s) == ~disposed[s]

\* onEvent "exit": "shell exit = explicit dispose trigger"
HandleExit(s) ==
    /\ exit[s] = "sent"
    /\ exit' = [exit EXCEPT ![s] = "over"]
    /\ IF Heeds(s) THEN DisposeEntry(term[s]) ELSE UNCHANGED <<entry, disposed, kill>>
    /\ UNCHANGED <<term, key, call, held, proc, ptys, openRow>>

-----------------------------------------------------------------------------
(* The backend *)

\* mutated: the id of a live PTY may be used again.
Taken_Never(k) == k \notin Keys

\* "terminal PTY is already active; close it before reusing its tab id"
Taken(k) == ptys[k] # None

\* pty_spawn, the shell having started
SpawnRun(s) ==
    /\ call[s] = "queued"
    /\ IF Taken(key[s])
       THEN /\ call' = [call EXCEPT ![s] = "failed"]
            /\ UNCHANGED <<proc, ptys, openRow>>
       ELSE /\ call' = [call EXCEPT ![s] = "spawned"]
            /\ proc' = [proc EXCEPT ![s] = "alive"]
            /\ ptys' = [ptys EXCEPT ![key[s]] = s]
            /\ openRow' = openRow \cup ({key[s]} \cap Tabs)
    /\ UNCHANGED <<frontend, kill, held, exit>>

\* pty_spawn, spawn_pty having failed: the row of the tab stays
SpawnFails(s) ==
    /\ call[s] = "queued"
    /\ ~Taken(key[s])
    /\ call' = [call EXCEPT ![s] = "failed"]
    /\ openRow' = openRow \cup ({key[s]} \cap Tabs)
    /\ UNCHANGED <<frontend, kill, held, proc, exit, ptys>>

\* pty_kill under the lock
KillTake(s) ==
    /\ kill[s] = "sent"
    /\ kill' = [kill EXCEPT ![s] = "taken"]
    /\ held' = [held EXCEPT ![s] = ptys[key[s]]]
    /\ ptys' = [ptys EXCEPT ![key[s]] = None]
    /\ openRow' = openRow \ {key[s]}
    /\ UNCHANGED <<frontend, call, proc, exit>>

\* mutated: the row is closed after the lock was given back.
KillSignal_LateRow(s) ==
    /\ kill[s] = "taken"
    /\ kill' = [kill EXCEPT ![s] = "done"]
    /\ proc' = [r \in Sessions |->
                  IF r = held[s] /\ proc[r] = "alive" THEN "signalled"
                                                      ELSE proc[r]]
    /\ openRow' = openRow \ {key[s]}
    /\ held' = [held EXCEPT ![s] = None]
    /\ UNCHANGED <<frontend, call, exit, ptys>>

\* pty_kill, the lock given back: PtyHandle::kill
KillSignal(s) ==
    /\ kill[s] = "taken"
    /\ kill' = [kill EXCEPT ![s] = "done"]
    /\ proc' = [r \in Sessions |->
                  IF r = held[s] /\ proc[r] = "alive" THEN "signalled"
                                                      ELSE proc[r]]
    /\ held' = [held EXCEPT ![s] = None]
    /\ UNCHANGED <<frontend, call, exit, ptys, openRow>>

\* The shell ends, by itself or by the signal; the waiter thread says so.
ProcExit(s) ==
    /\ proc[s] \in {"alive", "signalled"}
    /\ proc' = [proc EXCEPT ![s] = "exited"]
    /\ exit' = [exit EXCEPT ![s] = "waiting"]
    /\ UNCHANGED <<frontend, call, kill, held, ptys, openRow>>

\* The event loop of the PTY, whose generation must still be the current one.
ForwardExit(s) ==
    /\ exit[s] = "waiting"
    /\ exit' = [exit EXCEPT ![s] = IF ptys[key[s]] = s THEN "sent" ELSE "over"]
    /\ UNCHANGED <<frontend, call, kill, held, proc, ptys, openRow>>

\* What happens whoever uses the terminals.
PtyStep(s) ==
    \/ SpawnAnswer(s) \/ SpawnRun(s) \/ SpawnFails(s)
    \/ KillTake(s) \/ KillSignal(s) \/ ProcExit(s) \/ ForwardExit(s)

PtyNext ==
    \/ \E x \in Terms, prefer \in BOOLEAN :
          (prefer => x \in Tabs) /\ Create(x, prefer)
    \/ \E x \in Terms : Dispose(x)
    \/ \E s \in Sessions : PtyStep(s) \/ HandleExit(s)

PtySpec == PtyInit /\ [][PtyNext]_ptyVars

\* Tauri answers its calls, the lock is fair and the threads run; no shell has
\* to end.
PtyFairness ==
    \A s \in Sessions :
        /\ WF_ptyVars(SpawnAnswer(s))
        /\ WF_ptyVars(SpawnRun(s) \/ SpawnFails(s))
        /\ WF_ptyVars(KillTake(s))
        /\ WF_ptyVars(KillSignal(s))

-----------------------------------------------------------------------------
(* Properties *)

PtyTypeOK ==
    /\ entry \in [Terms -> Sessions \cup {None}]
    /\ term \in [Sessions -> Terms \cup {None}]
    /\ key \in [Sessions -> Keys \cup {None}]
    /\ call \in [Sessions -> CallStates]
    /\ disposed \in [Sessions -> BOOLEAN]
    /\ kill \in [Sessions -> KillStates]
    /\ held \in [Sessions -> Sessions \cup {None}]
    /\ proc \in [Sessions -> ProcStates]
    /\ exit \in [Sessions -> ExitStates]
    /\ ptys \in [Keys -> Sessions \cup {None}]
    /\ openRow \subseteq Tabs

\* commands/mod.rs promises that no child is left untracked: a shell that runs
\* is in the map under the id its session knows, or a pty_kill has taken its
\* handle and has yet to use it.
NoUntrackedChild ==
    \A s \in Sessions :
        proc[s] = "alive" =>
            \/ ptys[key[s]] = s
            \/ \E r \in Sessions : held[r] = s /\ kill[r] = "taken"

\* A pty_kill names an id, and an id is used again when its tab is reopened:
\* the handle it takes is nevertheless that of the session it was sent for.
KillHitsOwn == \A s \in Sessions : held[s] \in {None, s}

\* The row that restores a tab after a restart is open as long as the tab has
\* a shell, however closing and reopening it interleave.
LiveTabHasRow == \A t \in Tabs : ptys[t] # None => t \in openRow

\* App.tsx collapses a terminal to one PTY: of the sessions a terminal has had,
\* at most one can still be typed into, whoever made them, a handler before its
\* pane was rendered, the pane's slot, or the tab's reopening.
OneShellPerTerminal ==
    \A r, s \in Sessions :
        /\ term[r] # None /\ term[r] = term[s]
        /\ ~disposed[r] /\ ~disposed[s]
        => r = s

\* An entry of the registry that is thrown away takes its shell with it, be it
\* that the shell had not started yet.
DisposedShellEnds ==
    \A s \in Sessions : disposed[s] ~> proc[s] # "alive" /\ call[s] # "queued"
=============================================================================
