------------------------------ MODULE EditorPanes ------------------------------
(***************************************************************************)
(* The panes of the editor tabs: state/editorStore.ts over                 *)
(* components/editor/editorPaneLayout.ts, with the asynchronous handlers   *)
(* of EditorTab.tsx, the windows of src-tauri/src/commands/                *)
(* editor_windows.rs and the rows of pane_layouts.                         *)
(*                                                                         *)
(* A layout is a binary tree, written as its panes from left to right with *)
(* the number of splits each lies in; sizes and cursors steer nothing.     *)
(* Buffers are names, their texts are EditorSync's.  A call of the store   *)
(* is one step; a handler that awaits the backend is a task between its    *)
(* steps.                                                                  *)
(***************************************************************************)
EXTENDS Naturals, Sequences, FiniteSets, SequencesExt, Functions

CONSTANTS
    Tabs,        \* editor tabs
    Files,       \* buffers of files; the tabs share them
    MaxPanes,    \* bound: panes made
    MaxBlanks,   \* bound: untitled buffers made
    MaxWindows,  \* bound: windows made
    MaxTasks,    \* bound: handlers of the tabs waiting at the same time
    MaxQuits     \* bound: restarts of the application

ASSUME EditorPanesAssumption ==
    /\ MaxPanes \in Nat /\ MaxBlanks \in Nat /\ MaxWindows \in Nat
    /\ MaxTasks \in Nat /\ MaxQuits \in Nat
    /\ Files \cap Nat = {}

VARIABLES
    buffers,    \* the buffers of the store
    workspace,  \* the workspaces of the store, Closed without one
    windows,    \* EditorWindowManager: window -> its tab and pane
    notices,    \* editor-detached-window-closed events on their way
    tasks,      \* handlers that wait for the backend
    stored,     \* pane_layouts
    ended,      \* tabs that were closed; their names are not used again
    panes, blanks, made, quits  \* counted against their bounds

counts == <<ended, panes, blanks, made, quits>>
vars == <<buffers, workspace, windows, notices, tasks, stored, counts>>

Closed  == [leaves |-> <<>>, focus |-> 0, open |-> <<>>]
Buffers == Files \cup 1..MaxBlanks
PaneIds == 1..MaxPanes

Leaf(pane, buffer, window, depth) ==
    [pane |-> pane, buffer |-> buffer, window |-> window, depth |-> depth]

Leaves(t) == ToSet(workspace[t].leaves)
IsOpen(t) == workspace[t] # Closed
Attached(leaves) == SelectSeq(leaves, LAMBDA l : l.window = 0)
Has(leaves, p) == \E l \in ToSet(leaves) : l.pane = p

\* replaceEditorPane on one leaf
SetBuffer(leaves, p, b) ==
    [i \in DOMAIN leaves |-> IF leaves[i].pane = p
                             THEN [leaves[i] EXCEPT !.buffer = b] ELSE leaves[i]]

SetWindow(leaves, p, w) ==
    [i \in DOMAIN leaves |-> IF leaves[i].pane = p
                             THEN [leaves[i] EXCEPT !.window = w] ELSE leaves[i]]

\* usedBufferIds
Used(ws) ==
    UNION {ToSet(ws[t].open) \cup {l.buffer : l \in ToSet(ws[t].leaves)} :
              t \in Tabs}

\* saveWorkspaceLayout.  The calls are carried out in their order and succeed.
PersistLater(t) ==
    stored' = [stored EXCEPT ![t] =
                 [leaves |-> workspace'[t].leaves, focus |-> workspace'[t].focus,
                  open |-> <<>>]]

Wait(task) ==
    /\ Cardinality({other \in tasks : other.do # "reset"}) < MaxTasks
    /\ tasks' = tasks \cup {task}

Init ==
    /\ buffers = {}
    /\ workspace = [t \in Tabs |-> Closed]
    /\ windows = <<>>
    /\ notices = <<>>
    /\ tasks = {}
    /\ stored = [t \in Tabs |-> Closed]
    /\ ended = {}
    /\ panes = 0
    /\ blanks = 0
    /\ made = 0
    /\ quits = 0

-----------------------------------------------------------------------------
(* Opening, restoring and closing a tab *)

\* initializeWorkspace
NewWorkspace(t) ==
    /\ panes < MaxPanes /\ blanks < MaxBlanks
    /\ panes' = panes + 1
    /\ blanks' = blanks + 1
    /\ buffers' = buffers \cup {blanks + 1}
    /\ workspace' = [workspace EXCEPT ![t] =
         [leaves |-> <<Leaf(panes + 1, blanks + 1, 0, 0)>>,
          focus |-> panes + 1, open |-> <<blanks + 1>>]]

\* The tab is first rendered; its effect asks for the windows, then for the
\* stored layout.
Open(t) ==
    /\ ~IsOpen(t) /\ t \notin ended
    /\ NewWorkspace(t)
    /\ Wait([do |-> "list", tab |-> t])
    /\ UNCHANGED <<windows, notices, stored, ended, made, quits>>

Loading(t) ==
    \E task \in tasks : task.do \in {"list", "row", "load"} /\ task.tab = t

\* A component failed to render and the user resets the ErrorBoundary around
\* the tabs: they mount again, over the store as it is, and what was announced
\* meanwhile nobody has heard.  Bound: a tab is loaded once at a time.
Remount ==
    LET again == {[do |-> "list", tab |-> t] :
                     t \in {u \in Tabs \ ended : IsOpen(u)}}
    IN
    /\ \A t \in Tabs : ~Loading(t)
    /\ Cardinality(again \cup {task \in tasks : task.do # "reset"}) <= MaxTasks
    /\ tasks' = tasks \cup again
    /\ notices' \in {notices, <<>>}
    /\ UNCHANGED <<buffers, workspace, windows, stored, counts>>

\* every window that can be
Unknown == 1..MaxWindows

\* editor_detached_window_list.  Without an answer every mark is believed.
ListWindows(task) ==
    /\ task.do = "list"
    /\ \E live \in {{w \in DOMAIN windows : windows[w].tab = task.tab}, Unknown} :
          tasks' = (tasks \ {task}) \cup
                     {[do |-> "row", tab |-> task.tab, live |-> live]}
    /\ UNCHANGED <<buffers, workspace, windows, notices, stored, counts>>

\* panes_get_layout.  A failure is taken for a tab without a row.
ReadRow(task) ==
    /\ task.do = "row"
    /\ \E row \in {stored[task.tab], Closed} :
          tasks' = (tasks \ {task}) \cup
                     {[do |-> "load", tab |-> task.tab, live |-> task.live,
                       row |-> row]}
    /\ UNCHANGED <<buffers, workspace, windows, notices, stored, counts>>

\* reconcileDetachedEditorPanes: a pane whose window is not in the list is
\* attached again
Restore(leaves, live) ==
    [i \in DOMAIN leaves |->
        IF leaves[i].window \in live THEN leaves[i]
                                     ELSE [leaves[i] EXCEPT !.window = 0]]

\* loadWorkspaceLayout, list and layout having arrived; nobody asks whether
\* the windows or the tab are still there
Load(task) ==
    LET t == task.tab
        leaves == Restore(task.row.leaves, task.live)
        shown == {l.buffer : l \in ToSet(leaves)}
    IN
    /\ task.do = "load"
    /\ tasks' = tasks \ {task}
    /\ IF task.row # Closed
       THEN /\ buffers' = buffers \cup shown
            /\ workspace' = [workspace EXCEPT ![t] =
                 [leaves |-> leaves, focus |-> task.row.focus,
                  open |-> SetToSeq(shown)]]
            /\ IF leaves # task.row.leaves THEN PersistLater(t)
                                           ELSE UNCHANGED stored
            /\ UNCHANGED <<panes, blanks>>
       ELSE /\ IF IsOpen(t) THEN UNCHANGED <<buffers, workspace, panes, blanks>>
                            ELSE NewWorkspace(t)
            /\ UNCHANGED stored
    /\ UNCHANGED <<windows, notices, ended, made, quits>>

\* tab_close_editor closes the windows of the tab while its bar waits
AskCloseTab(t) ==
    LET gone == {w \in DOMAIN windows : windows[w].tab = t} IN
    /\ IsOpen(t)
    /\ tasks' = tasks \cup {[do |-> "reset", tab |-> t]}
    /\ windows' = [w \in DOMAIN windows \ gone |-> windows[w]]
    /\ notices' = notices \o SetToSeq({[tab |-> t, pane |-> windows[w].pane,
                                        window |-> w] : w \in gone})
    /\ UNCHANGED <<buffers, workspace, stored, counts>>

\* resetWorkspace, and the tab is gone
Reset(task) ==
    LET rest == [workspace EXCEPT ![task.tab] = Closed] IN
    /\ task.do = "reset"
    /\ tasks' = tasks \ {task}
    /\ workspace' = rest
    /\ buffers' = buffers \cap Used(rest)
    /\ ended' = ended \cup {task.tab}
    /\ UNCHANGED <<windows, notices, stored, panes, blanks, made, quits>>

\* The application quits: what was not stored is lost.
Quit ==
    /\ quits < MaxQuits
    /\ quits' = quits + 1
    /\ buffers' = {}
    /\ workspace' = [t \in Tabs |-> Closed]
    /\ windows' = <<>>
    /\ notices' = <<>>
    /\ tasks' = {}
    /\ UNCHANGED <<stored, ended, panes, blanks, made>>

-----------------------------------------------------------------------------
(* Panes *)

Update(t, leaves, focus) ==
    /\ workspace' = [workspace EXCEPT ![t].leaves = leaves, ![t].focus = focus]
    /\ PersistLater(t)

\* mutated: a detached pane is split as well.
Split_Detached(t, i) ==
    LET l == workspace[t].leaves[i]
        old == [l EXCEPT !.depth = @ + 1]
        new == [old EXCEPT !.pane = panes + 1]
    IN
    /\ panes < MaxPanes
    /\ panes' = panes + 1
    /\ Update(t, InsertAt([workspace[t].leaves EXCEPT ![i] = old], i + 1, new),
              panes + 1)
    /\ UNCHANGED <<buffers, windows, notices, tasks, ended, blanks, made, quits>>

\* splitPane: only an attached pane, the new one beside it and in focus
Split(t, i) ==
    LET l == workspace[t].leaves[i]
        old == [l EXCEPT !.depth = @ + 1]
        new == [old EXCEPT !.pane = panes + 1]
    IN
    /\ l.window = 0
    /\ panes < MaxPanes
    /\ panes' = panes + 1
    /\ Update(t, InsertAt([workspace[t].leaves EXCEPT ![i] = old], i + 1, new),
              panes + 1)
    /\ UNCHANGED <<buffers, windows, notices, tasks, ended, blanks, made, quits>>

\* removeEditorPane: the other side of the root's split becomes the root.  A
\* split deeper down loses its child, but the split around it keeps as many
\* children as it had and returns itself as it was.
RemovePane(leaves, i) ==
    IF leaves[i].depth = 1
    THEN LET rest == RemoveAt(leaves, i) IN
         [k \in DOMAIN rest |-> [rest[k] EXCEPT !.depth = @ - 1]]
    ELSE leaves

\* closePane: never the last attached one
ClosePane(t, i) ==
    LET l == workspace[t].leaves[i]
        rest == RemovePane(workspace[t].leaves, i)
    IN
    /\ l.window = 0
    /\ Len(Attached(workspace[t].leaves)) > 1
    /\ Update(t, rest, IF workspace[t].focus = l.pane THEN Attached(rest)[1].pane
                                                      ELSE workspace[t].focus)
    /\ UNCHANGED <<buffers, windows, notices, tasks, counts>>

FocusPane(t, i) ==
    LET l == workspace[t].leaves[i] IN
    /\ workspace[t].focus # l.pane
    /\ Update(t, workspace[t].leaves, l.pane)
    /\ UNCHANGED <<buffers, windows, notices, tasks, counts>>

-----------------------------------------------------------------------------
(* Buffers *)

\* openFileInPane; a pane that is gone by now is not brought back
PutInPane(t, p, b) ==
    IF ~Has(workspace[t].leaves, p)
    THEN UNCHANGED <<buffers, workspace, stored>>
    ELSE /\ buffers' = buffers \cup {b}
         /\ workspace' = [workspace EXCEPT
              ![t].leaves = SetBuffer(@, p, b),
              ![t].open = IF b \in ToSet(@) THEN @ ELSE Append(@, b),
              ![t].focus = p]
         /\ PersistLater(t)

\* where a file the user picks goes: the focused pane, or the first attached
Target(t) ==
    LET attached == Attached(workspace[t].leaves)
        focused == {l \in ToSet(attached) : l.pane = workspace[t].focus}
    IN  IF focused # {} THEN workspace[t].focus ELSE attached[1].pane

\* openFileAtPane, up to editor_open_file
AskFile(t, f) ==
    /\ IsOpen(t)
    /\ Attached(workspace[t].leaves) # <<>>
    /\ Wait([do |-> "open", tab |-> t, pane |-> Target(t), file |-> f])
    /\ UNCHANGED <<buffers, workspace, windows, notices, stored, counts>>

FileArrives(task) ==
    /\ task.do = "open"
    /\ tasks' = tasks \ {task}
    /\ PutInPane(task.tab, task.pane, task.file)
    /\ UNCHANGED <<windows, notices, counts>>

\* selectOpenBuffer; for an untitled buffer openFileInPane makes a new one
Select(t, b) ==
    /\ b \in ToSet(workspace[t].open)
    /\ Attached(workspace[t].leaves) # <<>>
    /\ b \notin Files => blanks < MaxBlanks
    /\ blanks' = IF b \in Files THEN blanks ELSE blanks + 1
    /\ PutInPane(t, Target(t), IF b \in Files THEN b ELSE blanks')
    /\ UNCHANGED <<windows, notices, tasks, ended, panes, made, quits>>

\* the panes of a closed buffer
Replace(leaves, b, next) ==
    [i \in DOMAIN leaves |-> IF leaves[i].buffer = b
                             THEN [leaves[i] EXCEPT !.buffer = next]
                             ELSE leaves[i]]

\* mutated: the other tabs are not asked whether they use the buffer.
CloseBuffer_Drops(t, b) ==
    LET rest == SelectSeq(workspace[t].open, LAMBDA o : o # b)
        next == IF rest = <<>> THEN blanks + 1 ELSE rest[1]
    IN  IF b \notin ToSet(workspace[t].open)
        THEN UNCHANGED <<buffers, workspace, stored, blanks>>
        ELSE /\ rest = <<>> => blanks < MaxBlanks
             /\ blanks' = IF rest = <<>> THEN blanks + 1 ELSE blanks
             /\ workspace' = [workspace EXCEPT
                  ![t].open = IF rest = <<>> THEN <<next>> ELSE rest,
                  ![t].leaves = Replace(@, b, next)]
             /\ buffers' = (buffers \cup {next}) \ {b}
             /\ PersistLater(t)

\* closeBuffer: its panes show the next open buffer, or a new untitled one.  A
\* strip has a buffer once, so that the filter of the code takes out one entry.
CloseBuffer(t, b) ==
    LET i == CHOOSE k \in DOMAIN workspace[t].open : workspace[t].open[k] = b
        rest == RemoveAt(workspace[t].open, i)
        next == IF rest = <<>> THEN blanks + 1
                ELSE rest[IF i <= Len(rest) THEN i ELSE Len(rest)]
        after == [workspace EXCEPT
            ![t].leaves = Replace(@, b, next),
            ![t].open = IF rest = <<>> THEN <<next>> ELSE rest]
    IN  IF b \notin ToSet(workspace[t].open)
        THEN UNCHANGED <<buffers, workspace, stored, blanks>>
        ELSE /\ rest = <<>> => blanks < MaxBlanks
             /\ blanks' = IF rest = <<>> THEN blanks + 1 ELSE blanks
             /\ workspace' = after
             /\ buffers' = (buffers \cup {next}) \
                             (IF b \in Used(after) THEN {} ELSE {b})
             /\ PersistLater(t)

\* closeOpenBuffer: first the windows that show it, one after the other
AskClose(t, b) ==
    LET detached == {l \in Leaves(t) : l.buffer = b /\ l.window # 0} IN
    /\ b \in ToSet(workspace[t].open)
    /\ IF detached = {}
       THEN CloseBuffer(t, b) /\ UNCHANGED tasks
       ELSE /\ Wait([do |-> "close", tab |-> t, buffer |-> b,
                     left |-> {<<l.pane, l.window>> : l \in detached}])
            /\ UNCHANGED <<buffers, workspace, stored, blanks>>
    /\ UNCHANGED <<windows, notices, ended, panes, made, quits>>

-----------------------------------------------------------------------------
(* Windows *)

\* close_detached_editor_window: a window that is gone is a success
Destroy(w) ==
    IF w \in DOMAIN windows
    THEN /\ windows' = [v \in DOMAIN windows \ {w} |-> windows[v]]
         /\ notices' = Append(notices, [tab |-> windows[w].tab,
                                        pane |-> windows[w].pane, window |-> w])
    ELSE UNCHANGED <<windows, notices>>

\* reattachPane
Reattach(t, p) ==
    IF \E l \in Leaves(t) : l.pane = p /\ l.window # 0
    THEN Update(t, SetWindow(workspace[t].leaves, p, 0), p)
    ELSE UNCHANGED <<workspace, stored>>

\* detachPane, up to editor_detach_pane
AskDetach(t, i) ==
    LET l == workspace[t].leaves[i] IN
    /\ l.window = 0
    /\ l.buffer \in buffers
    /\ Wait([do |-> "detach", tab |-> t, pane |-> l.pane, window |-> 0])
    /\ UNCHANGED <<buffers, workspace, windows, notices, stored, counts>>

\* editor_detach_pane; the manager refuses a pane it has a window of
MakeWindow(task) ==
    LET of == [tab |-> task.tab, pane |-> task.pane] IN
    /\ task.do = "detach" /\ task.window = 0
    /\ IF of \in Range(windows)
       THEN /\ tasks' = tasks \ {task}
            /\ UNCHANGED <<windows, made>>
       ELSE /\ made < MaxWindows
            /\ made' = made + 1
            /\ windows' = [w \in DOMAIN windows \cup {made + 1} |->
                             IF w = made + 1 THEN of ELSE windows[w]]
            /\ tasks' = (tasks \ {task}) \cup
                          {[task EXCEPT !.window = made + 1]}
    /\ UNCHANGED <<buffers, workspace, notices, stored, ended, panes, blanks,
                   quits>>

\* markPaneDetached, the window being made
Detached(task) ==
    /\ task.do = "detach" /\ task.window # 0
    /\ tasks' = tasks \ {task}
    /\ IF Has(workspace[task.tab].leaves, task.pane)
       THEN Update(task.tab, SetWindow(workspace[task.tab].leaves, task.pane,
                                       task.window),
                   workspace[task.tab].focus)
       ELSE UNCHANGED <<workspace, stored>>
    /\ UNCHANGED <<buffers, windows, notices, counts>>

\* The user closes a window; detachPane may not even have heard of it.
CloseWindow(w) ==
    /\ Destroy(w)
    /\ UNCHANGED <<buffers, workspace, tasks, stored, counts>>

\* applyDetachedEditorWindowClosed: only for the window the pane is in, and
\* only while the tab is there
Notice ==
    LET n == Head(notices) IN
    /\ notices # <<>>
    /\ notices' = Tail(notices)
    /\ IF /\ n.tab \notin ended
          /\ \E l \in Leaves(n.tab) : l.pane = n.pane /\ l.window = n.window
       THEN Reattach(n.tab, n.pane)
       ELSE UNCHANGED <<workspace, stored>>
    /\ UNCHANGED <<buffers, windows, tasks, counts>>

\* bringPaneBack closes the window and waits
AskBack(t, i) ==
    LET l == workspace[t].leaves[i] IN
    /\ l.window # 0
    /\ Destroy(l.window)
    /\ Wait([do |-> "back", tab |-> t, pane |-> l.pane])
    /\ UNCHANGED <<buffers, workspace, stored, counts>>

BroughtBack(task) ==
    /\ task.do = "back"
    /\ tasks' = tasks \ {task}
    /\ Reattach(task.tab, task.pane)
    /\ UNCHANGED <<buffers, windows, notices, counts>>

\* closeOpenBuffer: the next window, or the buffer itself
Closing(task) ==
    /\ task.do = "close"
    /\ IF task.left = {}
       THEN /\ tasks' = tasks \ {task}
            /\ CloseBuffer(task.tab, task.buffer)
            /\ UNCHANGED <<windows, notices>>
       ELSE \E l \in task.left :
            /\ Destroy(l[2])
            /\ Reattach(task.tab, l[1])
            /\ tasks' = (tasks \ {task}) \cup
                          {[task EXCEPT !.left = @ \ {l}]}
            /\ UNCHANGED <<buffers, blanks>>
    /\ UNCHANGED <<ended, panes, made, quits>>

-----------------------------------------------------------------------------
User ==
    \E t \in Tabs \ ended :
        \/ Open(t) \/ AskCloseTab(t)
        \/ \E f \in Files : AskFile(t, f)
        \/ \E b \in Buffers : Select(t, b) \/ AskClose(t, b)
        \/ \E i \in DOMAIN workspace[t].leaves :
            \/ Split(t, i) \/ ClosePane(t, i) \/ FocusPane(t, i)
            \/ AskDetach(t, i) \/ AskBack(t, i)

Backend ==
    \/ Notice \/ Remount
    \/ \E task \in tasks :
        \/ ListWindows(task) \/ ReadRow(task) \/ Load(task) \/ Reset(task)
        \/ FileArrives(task) \/ MakeWindow(task) \/ Detached(task)
        \/ BroughtBack(task) \/ Closing(task)

Next ==
    \/ User
    \/ Backend
    \/ Quit
    \/ \E w \in DOMAIN windows : CloseWindow(w)

Spec == Init /\ [][Next]_vars

-----------------------------------------------------------------------------
(* Properties *)

\* A pane shows a buffer that is in the store and has a tab in its strip,
\* whatever another tab closes meanwhile.
PanesHaveBuffers ==
    \A t \in Tabs : \A l \in Leaves(t) :
        l.buffer \in buffers \cap ToSet(workspace[t].open)

Heard(t, l) ==
    \/ l.window \in DOMAIN windows
    \/ [tab |-> t, pane |-> l.pane, window |-> l.window] \in ToSet(notices)

\* A pane that is shown as detached, and whose window is there, will hear when
\* it closes: while the mark stays, the window or the notice of its end does,
\* whoever closes it, and of whatever pane the layout has made a copy.  Only
\* when the tabs mount again may what was announced be lost.
MarksStayHeard ==
    [][\A t \in Tabs \ ended' : Loading(t) \/ ~Loading(t)' =>
          \A l \in Leaves(t) : \A k \in Leaves(t)' :
              /\ l.window # 0 /\ Heard(t, l)
              /\ k.pane = l.pane /\ k.window = l.window
              => Heard(t, l)']_vars
=============================================================================
