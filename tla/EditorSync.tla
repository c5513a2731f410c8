------------------------------ MODULE EditorSync ------------------------------
(***************************************************************************)
(* One editor buffer shown in several windows: the main window's editor    *)
(* tab and the windows its panes are detached into.                        *)
(*                                                                         *)
(* components/editor/editorBufferSync.ts is the client each window runs;   *)
(* EditorTab.tsx and DetachedEditorWindow.tsx feed it; the authority is    *)
(* src-tauri/src/editor/buffer_manager.rs, which accepts a text only if    *)
(* it was written on top of the newest revision and announces what it      *)
(* accepted to every window.  Answers and announcements travel apart and   *)
(* may overtake one another.                                               *)
(*                                                                         *)
(* A snapshot is an immutable copy of a revision, so it is written by its  *)
(* number alone: log[r] is what it holds.  Revisions count from 1 here     *)
(* (from 0 in the code), 0 being the client's baseRevision of -1.  Texts   *)
(* are numbers; 0 is the file as it was opened, every edit has a new one.  *)
(* Language and Cisco platform are part of a text.                         *)
(***************************************************************************)
EXTENDS Naturals, Sequences

CONSTANTS
    Windows,      \* windows with the buffer open
    Main,         \* the one with the editor tab; the others are detached
    Savers,       \* windows whose user saves
    MaxEdits,     \* bound: edits
    MaxSaves,     \* bound: saves and closed windows
    MaxFailures   \* bound: calls that fail

ASSUME EditorSyncAssumption ==
    /\ Main \in Windows
    /\ Savers \subseteq Windows
    /\ MaxEdits \in Nat
    /\ MaxSaves \in Nat
    /\ MaxFailures \in Nat

VARIABLES
    log,       \* the authority: every revision so far, the last one in force
    disk,      \* the text in the file
    writer,    \* ghost: the window whose save wrote it last
    seed,      \* what the main window registers
    phase,     \* where a client's life is
    base,      \* baseRevision, and the revision of latestAuthoritative
    queued,    \* localSequence
    acked,     \* acknowledgedSequence
    local,     \* latestLocal
    timer,     \* a publish is scheduled
    request,   \* inFlight: the update (or registration) on its way
    inbox,     \* announcements not yet handled
    view,      \* the buffer as the window shows it
    save,      \* the save or close in progress
    edits, saves, failures  \* counted against their bounds

file == <<disk, writer>>
client == <<phase, base, queued, acked, local, timer, request, inbox>>
counts == <<edits, saves, failures>>
vars == <<log, file, seed, client, view, save, counts>>

Texts == 0..MaxEdits
Idle  == [at |-> "idle"]

Pending(c) == queued[c] > acked[c]
Listening(c) == phase[c] \in {"registering", "answered", "live"}

Later(r, s) == IF r > s THEN r ELSE s

Init ==
    /\ log = <<>>
    /\ disk = 0
    /\ writer = Main
    /\ seed = [text |-> 0, dirty |-> FALSE]
    /\ phase = [c \in Windows |-> "off"]
    /\ base = [c \in Windows |-> 0]
    /\ queued = [c \in Windows |-> 0]
    /\ acked = [c \in Windows |-> 0]
    /\ local = [c \in Windows |-> [text |-> 0, dirty |-> FALSE]]
    /\ timer = [c \in Windows |-> FALSE]
    /\ request = [c \in Windows |-> Idle]
    /\ inbox = [c \in Windows |-> <<>>]
    /\ view = [c \in Windows |->
                 [text |-> 0, dirty |-> FALSE, rev |-> 1, status |-> "local",
                  open |-> c = Main]]
    /\ save = [c \in Windows |-> Idle]
    /\ edits = 0
    /\ saves = 0
    /\ failures = 0

-----------------------------------------------------------------------------
(* What a window shows *)

\* onSnapshot, then onStatus
ShowSnapshot(c, r, status) ==
    view' = [view EXCEPT ![c] =
        [text |-> log[r].text, dirty |-> log[r].dirty, rev |-> r,
         status |-> status, open |-> TRUE]]

\* onRevision, then onStatus: the text on the screen stays
ShowRevision(c, r, status) ==
    view' = [view EXCEPT ![c].rev = r, ![c].status = status]

ShowStatus(c, status) ==
    view' = [view EXCEPT ![c].status = status]

\* queueLocal
Queue(c, version) ==
    /\ queued' = [queued EXCEPT ![c] = @ + 1]
    /\ local' = [local EXCEPT ![c] = version]
    /\ timer' = [timer EXCEPT ![c] = TRUE]

\* The user types.  Before the buffer is shared nobody is told.
Type(c) ==
    /\ edits < MaxEdits
    /\ view[c].open /\ phase[c] # "closed"
    /\ edits' = edits + 1
    /\ view' = [view EXCEPT ![c].text = edits + 1, ![c].dirty = TRUE,
                            ![c].status = "local"]
    /\ IF phase[c] = "off"
       THEN UNCHANGED <<queued, local, timer>>
       ELSE Queue(c, [text |-> edits + 1, dirty |-> TRUE])
    /\ UNCHANGED <<log, file, seed, phase, base, acked, request, inbox, save,
                   saves, failures>>

\* The tab's Cisco selector: the same text, as dirty as it was.
Relabel ==
    /\ edits < MaxEdits
    /\ phase[Main] # "off"
    /\ edits' = edits + 1
    /\ Queue(Main, [text |-> view[Main].text, dirty |-> view[Main].dirty])
    /\ ShowStatus(Main, "local")
    /\ UNCHANGED <<log, file, seed, phase, base, acked, request, inbox, save,
                   saves, failures>>

-----------------------------------------------------------------------------
(* Joining: subscribe first, register second *)

\* A pane is detached only when the main window's client is up.
Start(c) ==
    /\ phase[c] = "off"
    /\ c # Main => phase[Main] = "live"
    /\ phase' = [phase EXCEPT ![c] = "subscribing"]
    /\ seed' = IF c = Main
                 THEN [text |-> view[c].text, dirty |-> view[c].dirty]
                 ELSE seed
    /\ UNCHANGED <<log, file, base, queued, acked, local, timer, request,
                   inbox, view, save, counts>>

Subscribed(c) ==
    /\ phase[c] = "subscribing"
    /\ phase' = [phase EXCEPT ![c] = "registering"]
    /\ UNCHANGED <<log, file, seed, base, queued, acked, local, timer,
                   request, inbox, view, save, counts>>

Register(c) ==
    /\ phase[c] = "registering"
    /\ log' = IF log = <<>>
                THEN <<[text |-> seed.text, dirty |-> seed.dirty, by |-> c]>>
                ELSE log
    /\ phase' = [phase EXCEPT ![c] = "answered"]
    /\ request' = [request EXCEPT ![c] =
                     [at |-> "registered", rev |-> Len(log')]]
    /\ UNCHANGED <<file, seed, base, queued, acked, local, timer, inbox, view,
                   save, counts>>

\* acceptAuthoritative; an announcement may have come first
Joined(c) ==
    LET r == request[c].rev IN
    /\ phase[c] = "answered"
    /\ phase' = [phase EXCEPT ![c] = "live"]
    /\ request' = [request EXCEPT ![c] = Idle]
    /\ timer' = [timer EXCEPT ![c] = @ \/ Pending(c)]
    /\ \/ r <= base[c] /\ UNCHANGED <<base, view>>
       \/ /\ r > base[c]
          /\ base' = [base EXCEPT ![c] = r]
          /\ IF Pending(c) THEN ShowRevision(c, r, "local")
                           ELSE ShowSnapshot(c, r, "synced")
    /\ UNCHANGED <<log, file, seed, queued, acked, local, inbox, save, counts>>

-----------------------------------------------------------------------------
(* Publishing *)

\* publishLatest
Publish(c) ==
    /\ request' = [request EXCEPT ![c] =
         [at |-> "sent", base |-> base[c], seq |-> queued[c],
          text |-> local[c].text, dirty |-> local[c].dirty]]
    /\ ShowStatus(c, "syncing")

\* mutated: publishes while an update is on its way
Tick_Overlapping(c) ==
    /\ timer[c]
    /\ timer' = [timer EXCEPT ![c] = FALSE]
    /\ IF phase[c] = "live" /\ Pending(c)
       THEN Publish(c)
       ELSE UNCHANGED <<request, view>>
    /\ UNCHANGED <<log, file, seed, phase, base, queued, acked, local, inbox,
                   save, counts>>

\* The timer fires; what it finds under way re-arms it when it ends.
Tick(c) ==
    /\ timer[c]
    /\ timer' = [timer EXCEPT ![c] = FALSE]
    /\ IF phase[c] = "live" /\ request[c] = Idle /\ Pending(c)
       THEN Publish(c)
       ELSE UNCHANGED <<request, view>>
    /\ UNCHANGED <<log, file, seed, phase, base, queued, acked, local, inbox,
                   save, counts>>

\* mutated: the revision is not counted up
Commit_InPlace(version) ==
    /\ log' = [log EXCEPT ![Len(log)] = version]
    /\ inbox' = [c \in Windows |->
                   IF Listening(c) THEN Append(inbox[c], Len(log)) ELSE inbox[c]]

\* The authority accepts a version and announces it.
Commit(version) ==
    /\ log' = Append(log, version)
    /\ inbox' = [c \in Windows |->
                   IF Listening(c) THEN Append(inbox[c], Len(log) + 1)
                                   ELSE inbox[c]]

Answer(c, at, r) ==
    [at |-> at, base |-> request[c].base, seq |-> request[c].seq,
     text |-> request[c].text, rev |-> r]

\* EditorBufferManager::update: only on top of the newest revision
Update(c) ==
    /\ request[c].at = "sent"
    /\ IF request[c].base = Len(log)
       THEN /\ Commit([text |-> request[c].text, dirty |-> request[c].dirty,
                       by |-> c])
            /\ request' = [request EXCEPT ![c] =
                             Answer(c, "applied", Len(log) + 1)]
       ELSE /\ request' = [request EXCEPT ![c] =
                             Answer(c, "conflict", Len(log))]
            /\ UNCHANGED <<log, inbox>>
    /\ UNCHANGED <<file, seed, phase, base, queued, acked, local, timer, view,
                   save, counts>>

\* mutated: shows the answer, not the newest snapshot known
Applied_AnswerOnly(c) ==
    LET r == Later(base[c], request[c].rev) IN
    /\ request[c].at = "applied"
    /\ phase[c] = "live"
    /\ base' = [base EXCEPT ![c] = r]
    /\ acked' = [acked EXCEPT ![c] = Later(@, request[c].seq)]
    /\ IF queued[c] > request[c].seq THEN ShowRevision(c, r, "local")
                                     ELSE ShowSnapshot(c, request[c].rev, "synced")
    /\ request' = [request EXCEPT ![c] = Idle]
    /\ timer' = [timer EXCEPT ![c] = @ \/ queued[c] > acked'[c]]
    /\ UNCHANGED <<log, file, seed, phase, queued, local, inbox, save, counts>>

\* mutated: no new publish for what was typed meanwhile
Applied_NoRearm(c) ==
    LET r == Later(base[c], request[c].rev) IN
    /\ request[c].at = "applied"
    /\ phase[c] = "live"
    /\ base' = [base EXCEPT ![c] = r]
    /\ acked' = [acked EXCEPT ![c] = Later(@, request[c].seq)]
    /\ IF queued[c] > request[c].seq THEN ShowRevision(c, r, "local")
                                     ELSE ShowSnapshot(c, r, "synced")
    /\ request' = [request EXCEPT ![c] = Idle]
        /\ UNCHANGED <<log, file, seed, phase, queued, local, timer, inbox, save,
                   counts>>

\* handleUpdateResult and the `finally` behind it
Applied(c) ==
    LET r == Later(base[c], request[c].rev) IN
    /\ request[c].at = "applied"
    /\ phase[c] = "live"
    /\ base' = [base EXCEPT ![c] = r]
    /\ acked' = [acked EXCEPT ![c] = Later(@, request[c].seq)]
    /\ IF queued[c] > request[c].seq THEN ShowRevision(c, r, "local")
                                     ELSE ShowSnapshot(c, r, "synced")
    /\ request' = [request EXCEPT ![c] = Idle]
    /\ timer' = [timer EXCEPT ![c] = @ \/ queued[c] > acked'[c]]
    /\ UNCHANGED <<log, file, seed, phase, queued, local, inbox, save, counts>>

\* mutated: the refused text stays on the screen
Conflict_KeepsText(c) ==
    LET r == Later(base[c], request[c].rev) IN
    /\ request[c].at = "conflict"
    /\ phase[c] = "live"
    /\ base' = [base EXCEPT ![c] = r]
    /\ acked' = [acked EXCEPT ![c] = Later(@, request[c].seq)]
    /\ ShowRevision(c, r, "conflict")
    /\ request' = [request EXCEPT ![c] = Idle]
    /\ timer' = [timer EXCEPT ![c] = @ \/ queued[c] > acked'[c]]
    /\ UNCHANGED <<log, file, seed, phase, queued, local, inbox, save, counts>>

\* Refused: a newer text is tried again, an older one is given up.
Conflict(c) ==
    LET r == Later(base[c], request[c].rev) IN
    /\ request[c].at = "conflict"
    /\ phase[c] = "live"
    /\ base' = [base EXCEPT ![c] = r]
    /\ acked' = [acked EXCEPT ![c] = Later(@, request[c].seq)]
    /\ IF queued[c] > request[c].seq THEN ShowRevision(c, r, "conflict")
                                     ELSE ShowSnapshot(c, r, "conflict")
    /\ request' = [request EXCEPT ![c] = Idle]
    /\ timer' = [timer EXCEPT ![c] = @ \/ queued[c] > acked'[c]]
    /\ UNCHANGED <<log, file, seed, phase, queued, local, inbox, save, counts>>

\* The call fails before it reaches the authority; a flush that waited gives up.
UpdateFails(c) ==
    /\ request[c].at = "sent"
    /\ phase[c] = "live"
    /\ failures < MaxFailures
    /\ failures' = failures + 1
    /\ request' = [request EXCEPT ![c] = Idle]
    /\ timer' = [timer EXCEPT ![c] = TRUE]
    /\ ShowStatus(c, "error")
    /\ save' = IF save[c].at = "flush" THEN [save EXCEPT ![c] = Idle] ELSE save
    /\ UNCHANGED <<log, file, seed, phase, base, queued, acked, local, inbox,
                   edits, saves>>

\* receiveEvent
Receive(c) ==
    LET r == Head(inbox[c]) IN
    /\ inbox[c] # <<>>
    /\ inbox' = [inbox EXCEPT ![c] = Tail(@)]
    /\ \/ r <= base[c] /\ UNCHANGED <<base, view>>
       \/ /\ r > base[c]
          /\ base' = [base EXCEPT ![c] = r]
          /\ IF Pending(c) THEN ShowRevision(c, r, "local")
                           ELSE ShowSnapshot(c, r, "synced")
    /\ UNCHANGED <<log, file, seed, phase, queued, acked, local, timer,
                   request, save, counts>>

-----------------------------------------------------------------------------
(* Saving and closing: flush, write the file, mark the revision saved *)

\* saveBuffer; without a client the text on the screen is written
Save(c) ==
    /\ c \in Savers
    /\ view[c].open /\ phase[c] # "closed"
    /\ save[c] = Idle
    /\ saves < MaxSaves
    /\ saves' = saves + 1
    /\ save' = [save EXCEPT ![c] =
         IF phase[c] = "off"
         THEN [at |-> "write", text |-> view[c].text, rev |-> view[c].rev,
               shared |-> FALSE]
         ELSE [at |-> "starting", then |-> "write"]]
    /\ UNCHANGED <<log, file, seed, client, view, edits, failures>>

\* closeDetachedWindow
Close(c) ==
    /\ c # Main
    /\ phase[c] = "live"
    /\ save[c] = Idle
    /\ saves < MaxSaves
    /\ saves' = saves + 1
    /\ save' = [save EXCEPT ![c] = [at |-> "starting", then |-> "close"]]
    /\ UNCHANGED <<log, file, seed, client, view, edits, failures>>

\* flushNow: it has awaited startPromise and clears the timer
Flush(c) ==
    /\ save[c].at = "starting"
    /\ phase[c] = "live"
    /\ save' = [save EXCEPT ![c] = [at |-> "flush", then |-> @.then]]
    /\ timer' = [timer EXCEPT ![c] = FALSE]
    /\ UNCHANGED <<log, file, seed, phase, base, queued, acked, local, request,
                   inbox, view, counts>>

FlushPublishes(c) ==
    /\ save[c].at = "flush"
    /\ request[c] = Idle
    /\ Pending(c)
    /\ Publish(c)
    /\ UNCHANGED <<log, file, seed, phase, base, queued, acked, local, timer,
                   inbox, save, counts>>

Flushed(c) ==
    /\ save[c].at = "flush"
    /\ request[c] = Idle
    /\ ~Pending(c)
    /\ save' = [save EXCEPT ![c] =
         IF @.then = "close"
         THEN [at |-> "close"]
         ELSE [at |-> "write", text |-> log[base[c]].text, rev |-> base[c],
               shared |-> TRUE]]
    /\ UNCHANGED <<log, file, seed, client, view, counts>>

\* The window goes away with its client; a call under way is still served.
Closed(c) ==
    /\ save[c].at = "close"
    /\ phase' = [phase EXCEPT ![c] = "closed"]
    /\ timer' = [timer EXCEPT ![c] = FALSE]
    /\ inbox' = [inbox EXCEPT ![c] = <<>>]
    /\ save' = [save EXCEPT ![c] = Idle]
    /\ UNCHANGED <<log, file, seed, base, queued, acked, local, request, view,
                   counts>>

WriteFile(c) ==
    /\ save[c].at = "write"
    /\ disk' = save[c].text
    /\ writer' = c
    /\ save' = [save EXCEPT ![c].at = "written"]
    /\ UNCHANGED <<log, seed, client, view, counts>>

\* editorSaveFile or markSaved fails
SaveFails(c) ==
    /\ save[c].at = "write" \/ (save[c].at = "written" /\ save[c].shared)
    /\ failures < MaxFailures
    /\ failures' = failures + 1
    /\ save' = [save EXCEPT ![c] = Idle]
    /\ UNCHANGED <<log, file, seed, client, view, edits, saves>>

\* markBufferSaved of editorStore.ts, for a buffer that is not shared
MarkBufferSaved(c) ==
    /\ save[c].at = "written"
    /\ ~save[c].shared
    /\ IF view[c].rev = save[c].rev
       THEN view' = [view EXCEPT ![c].dirty = FALSE, ![c].status = "synced"]
       ELSE UNCHANGED view
    /\ save' = [save EXCEPT ![c] = Idle]
    /\ UNCHANGED <<log, file, seed, client, counts>>

\* mutated: whatever revision is in force
MarkSaved_Unchecked(c) ==
    /\ save[c].at = "written"
    /\ save[c].shared
    /\ Commit([text |-> log[Len(log)].text, dirty |-> FALSE, by |-> c])
    /\ save' = [save EXCEPT ![c] = [at |-> "synced", rev |-> Len(log) + 1]]
    /\ UNCHANGED <<file, seed, phase, base, queued, acked, local, timer,
                   request, view, counts>>

\* EditorBufferManager::mark_saved
MarkSaved(c) ==
    /\ save[c].at = "written"
    /\ save[c].shared
    /\ IF save[c].rev = Len(log)
       THEN /\ Commit([text |-> log[Len(log)].text, dirty |-> FALSE, by |-> c])
            /\ save' = [save EXCEPT ![c] =
                          [at |-> "synced", rev |-> Len(log) + 1]]
       ELSE /\ save' = [save EXCEPT ![c] =
                          [at |-> "conflict", rev |-> Len(log)]]
            /\ UNCHANGED <<log, inbox>>
    /\ UNCHANGED <<file, seed, phase, base, queued, acked, local, timer,
                   request, view, counts>>

\* markSaved's answer.  The status is set last, text pending or not.
Saved(c) ==
    LET r == Later(base[c], save[c].rev) IN
    /\ save[c].at \in {"synced", "conflict"}
    /\ base' = [base EXCEPT ![c] = r]
    /\ IF ~Pending(c) THEN ShowSnapshot(c, r, save[c].at)
       ELSE ShowRevision(c, IF r > base[c] THEN r ELSE view[c].rev, save[c].at)
    /\ save' = [save EXCEPT ![c] = Idle]
    /\ UNCHANGED <<log, file, seed, phase, queued, acked, local, timer,
                   request, inbox, counts>>

-----------------------------------------------------------------------------
Publishing(c) == Tick(c) \/ Update(c) \/ Applied(c) \/ Conflict(c)
Joining(c) == Subscribed(c) \/ Register(c) \/ Joined(c)

Saving(c) ==
    \/ Flush(c) \/ FlushPublishes(c) \/ Flushed(c) \/ Closed(c)
    \/ WriteFile(c) \/ MarkBufferSaved(c) \/ MarkSaved(c) \/ Saved(c)

Next ==
    \/ Relabel
    \/ \E c \in Windows :
        \/ Type(c) \/ Save(c) \/ Close(c) \/ Start(c)
        \/ Joining(c) \/ Publishing(c) \/ Receive(c) \/ Saving(c)
        \/ UpdateFails(c) \/ SaveFails(c)

Spec == Init /\ [][Next]_vars

\* Timers fire, commands run and are answered, events are handled, and an
\* async function goes on; what users do and failures are not forced.
FairSpec ==
    /\ Spec
    /\ \A c \in Windows :
        /\ WF_vars(Joining(c))
        /\ WF_vars(Tick(c)) /\ WF_vars(Update(c))
        /\ WF_vars(Applied(c)) /\ WF_vars(Conflict(c))
        /\ WF_vars(Receive(c))
        /\ WF_vars(Saving(c))

-----------------------------------------------------------------------------
(* Properties *)

\* A window with nothing left to send shows what the authority held at the
\* revision the window says it is at: no mixture of a text and a later number
\* can come of answers and announcements that overtake one another.
ShownIsCommitted ==
    \A c \in Windows : phase[c] = "live" /\ ~Pending(c) =>
        /\ view[c].open
        /\ view[c].rev = base[c]
        /\ view[c].text = log[base[c]].text

\* A window never competes with itself: if its update is refused, another
\* window wrote since, or a revision was marked saved.
NoSelfConflict ==
    \A c \in Windows : request[c].at = "conflict" =>
        \E r \in request[c].base + 1 .. request[c].rev :
            log[r].by # c \/ ~log[r].dirty

\* A revision the authority agrees to call saved is what the file holds (git
\* refuses to pull over a dirty buffer and trusts this), whatever is typed or
\* received during the save, unless another window's save wrote the file since:
\* nothing orders the writes of two saves.
SavedIsOnDisk ==
    \A c \in Windows : save[c].at = "synced" /\ writer = c =>
        disk = log[save[c].rev].text

\* The promise of SharedText.
Shared == INSTANCE SharedText
    WITH Readers <- Windows, Texts <- Texts, place <- base,
         history <- [r \in 1..Len(log) |-> log[r].text]

ImplementsSharedText == Shared!SSpec

\* What a user types reaches the authority or is given up; it is not left
\* waiting for a timer nobody sets.
PendingSettles ==
    \A c \in Windows : phase[c] = "live" /\ Pending(c)
        ~> ~Pending(c) \/ phase[c] = "closed"

\* Once everybody stops typing, all windows end up showing the text in force.
WindowsConverge ==
    <>[](\A c \in Windows : phase[c] = "live" =>
            view[c].text = log[Len(log)].text)
=============================================================================
