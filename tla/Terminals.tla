------------------------------- MODULE Terminals -------------------------------
(***************************************************************************)
(* Terminal tabs and their split panes over the shells of TerminalPty:     *)
(* state/panesStore.ts, tabsStore.ts and closedTabsStore.ts with the       *)
(* handlers of App.tsx, TabBar.tsx, Pane.tsx, TerminalSlot.tsx and         *)
(* usePaneSplit.ts that use them, and the rows of pane_layouts.            *)
(*                                                                         *)
(* A pane is named by its terminal and a layout is the terminals of its    *)
(* leaves from left to right: splitting and closing keep that order, and   *)
(* directions and sizes steer nothing.                                     *)
(***************************************************************************)
EXTENDS TerminalPty, Sequences, SequencesExt

VARIABLES
    tabs,      \* tabsStore.tabs
    closed,    \* closedTabsStore.items
    used,      \* ids handed out; crypto.randomUUID repeats none
    layout,    \* layoutsByTab, <<>> for a tab without
    focus,     \* focusedPaneId
    stored,    \* pane_layouts
    reopening, \* reopenClosedTab, waiting for the scrollback
    loads,     \* loadLayoutForTab under way: for its caller or App's effect
    due        \* panes whose TerminalSlot is about to mount

ui   == <<tabs, closed, used, layout, focus, stored, reopening, loads, due>>
vars == <<ptyVars, ui>>

Idle    == [for |-> "nobody", got |-> <<>>]
Callers == {"handler", "effect"}

\* The id of a PTY where the id of a pane should be.
Elsewhere == "backend"

Leaves(t) == ToSet(layout[t])
Holder(x) == {t \in Tabs : x \in Leaves(t)}
Shown(x)  == \E t \in tabs : x \in Leaves(t)

\* saveLayout; the calls are carried out in their order and succeed
SaveLayout(t) == stored' = [stored EXCEPT ![t] = layout'[t]]

\* React mounts the slots of the changed tree anew.
Remount(t) == due' = due \cup ToSet(layout'[t])

\* A tab may have been left with a split layout by an earlier run.
Init ==
    /\ PtyInit
    /\ tabs = {}
    /\ closed = {}
    /\ layout = [t \in Tabs |-> <<>>]
    /\ focus = None
    /\ \/ stored = [t \in Tabs |-> <<>>] /\ used = {}
       \/ \E r \in Tabs, x \in Extra :
             /\ stored = [t \in Tabs |-> IF t = r THEN <<r, x>> ELSE <<>>]
             /\ used = {x}
    /\ reopening = {}
    /\ loads = [t \in Tabs |-> [c \in Callers |-> Idle]]
    /\ due = {}

-----------------------------------------------------------------------------
(* Tabs *)

\* loadLayoutForTab asks for the row, which is read there and then; its answer
\* takes its time.
AskLoad(t, c, for) ==
    loads' = [loads EXCEPT ![t][c] = [for |-> for, got |-> stored[t]]]

\* seedTerminalTab, and one turn of the restore at the start
NewTab(t) ==
    /\ t \notin used
    /\ Create(t, TRUE)
    /\ used' = used \cup {t}
    /\ tabs' = tabs \cup {t}
    /\ AskLoad(t, "handler", "new")
    /\ UNCHANGED <<closed, layout, focus, stored, reopening, due>>

\* reopenClosedTab up to its first await
ReopenAsk(t) ==
    /\ t \in closed \ tabs
    /\ reopening' = reopening \cup {t}
    /\ UNCHANGED <<ptyVars, tabs, closed, used, layout, focus, stored, loads, due>>

\* reopenClosedTab, the scrollback having arrived
Reopen(t) ==
    /\ t \in reopening
    /\ loads[t]["handler"] = Idle
    /\ reopening' = reopening \ {t}
    /\ Create(t, TRUE)
    /\ tabs' = tabs \cup {t}
    /\ AskLoad(t, "handler", "reopen")
    /\ due' = due \cup Leaves(t)
    /\ UNCHANGED <<closed, used, layout, focus, stored>>

\* removeTab
RemoveTab(t) ==
    /\ tabs' = tabs \ {t}
    /\ closed' = IF t \in tabs THEN closed \cup {t} ELSE closed

\* the cross of a terminal tab
CloseTab(t) ==
    /\ t \in tabs
    /\ Dispose(t)
    /\ RemoveTab(t)
    /\ UNCHANGED <<used, layout, focus, stored, reopening, loads, due>>

\* onEvent "exit" with its removeTab
ShellExit(s) ==
    /\ HandleExit(s)
    /\ IF Heeds(s) /\ call[s] = "resolved" /\ key[s] \in Tabs
       THEN RemoveTab(key[s])
       ELSE UNCHANGED <<tabs, closed>>
    /\ UNCHANGED <<used, layout, focus, stored, reopening, loads, due>>

-----------------------------------------------------------------------------
(* Layouts on their way from the database *)

\* App's effect: the active tab has no layout yet
EffectLoad(t) ==
    /\ t \in tabs
    /\ layout[t] = <<>>
    /\ loads[t]["effect"] = Idle
    /\ AskLoad(t, "effect", "effect")
    /\ UNCHANGED <<ptyVars, tabs, closed, used, layout, focus, stored, reopening, due>>

\* loadLayoutForTab, the answer having arrived: initializeLayout, or the
\* stored tree; the handler's caller then goes on
LoadLayout(t, c) ==
    LET got == loads[t][c].got IN
    /\ loads[t][c] # Idle
    /\ layout' = [layout EXCEPT ![t] = IF got = <<>> THEN <<t>> ELSE got]
    /\ focus' = Head(layout'[t])
    /\ closed' = IF loads[t][c].for = "reopen" THEN closed \ {t} ELSE closed
    /\ loads' = [loads EXCEPT ![t][c] = Idle]
    /\ Remount(t)
    /\ UNCHANGED <<ptyVars, tabs, used, stored, reopening>>

-----------------------------------------------------------------------------
(* Panes *)

\* TerminalSlot's effect
MountSlot(x) ==
    /\ x \in due
    /\ Shown(x)
    /\ Create(x, FALSE)
    /\ due' = due \ {x}
    /\ UNCHANGED <<tabs, closed, used, layout, focus, stored, reopening, loads>>

\* splitPane of the focused pane, with a placeholder for its terminal
SplitPane(t, x) ==
    /\ focus \in Leaves(t)
    /\ x \in Extra \ used
    /\ used' = used \cup {x}
    /\ layout' = [layout EXCEPT ![t] =
                    LET i == CHOOSE i \in DOMAIN @ : @[i] = focus
                    IN  InsertAt(@, i + 1, x)]
    /\ focus' = x
    /\ SaveLayout(t)
    /\ Remount(t)
    /\ UNCHANGED <<ptyVars, tabs, closed, reopening, loads>>

\* where closePane puts the focus
FocusAfter(x, left) ==
    CASE left = <<>>  -> None
      [] left # <<>> /\ focus = x -> Head(left)
      [] OTHER        -> focus

\* closePane; the row of an empty layout is deleted
ClosePane(t, x) ==
    /\ x \in Leaves(t)
    /\ layout' = [layout EXCEPT ![t] = Remove(@, x)]
    /\ focus' = FocusAfter(x, layout'[t])
    /\ SaveLayout(t)
    /\ Remount(t)
    /\ UNCHANGED <<tabs, closed, used, reopening, loads>>

\* Pane's cross, on every pane of a tab that shows more than one
PressClose(t, x) ==
    /\ t \in tabs
    /\ Len(layout[t]) > 1
    /\ Dispose(x)
    /\ ClosePane(t, x)

\* Cmd+W closes the focused pane, wherever it is.
PressCmdW(t) ==
    /\ ClosePane(t, focus)
    /\ UNCHANGED ptyVars

MoveFocus(x) ==
    /\ focus' = x
    /\ UNCHANGED <<ptyVars, tabs, closed, used, layout, stored, reopening, loads, due>>

\* a click, or the effect of a pane that sees no focus: setFocusedPane
SetFocusedPane(x) == Shown(x) /\ MoveFocus(x)

\* navigateFocus: Cmd+Alt+arrow
NavigateFocus(t, step) ==
    /\ focus \in Leaves(t)
    /\ LET i == CHOOSE i \in DOMAIN layout[t] : layout[t][i] = focus
           n == Len(layout[t])
       IN  MoveFocus(layout[t][((i - 1 + step) % n) + 1])

\* Cmd+Shift+M gives setFocusedPane the backend's name of a pane.
FocusNotified == (\E s \in Sessions : Known(s)) /\ MoveFocus(Elsewhere)

-----------------------------------------------------------------------------
Next ==
    \/ \E t \in Tabs :
          \/ NewTab(t) \/ ReopenAsk(t) \/ Reopen(t) \/ CloseTab(t)
          \/ EffectLoad(t)
          \/ \E c \in Callers : LoadLayout(t, c)
          \/ \E x \in Extra : SplitPane(t, x)
          \/ \E x \in Terms : PressClose(t, x)
          \/ PressCmdW(t)
          \/ \E step \in {1, Len(layout[t]) - 1} : NavigateFocus(t, step)
    \/ \E x \in Terms : MountSlot(x) \/ SetFocusedPane(x)
    \/ FocusNotified
    \/ \E s \in Sessions : (PtyStep(s) /\ UNCHANGED ui) \/ ShellExit(s)

Spec == Init /\ [][Next]_vars

FairSpec == Spec /\ PtyFairness

-----------------------------------------------------------------------------
(* Properties *)

\* A tab that nobody closes goes only when its own shell has ended: the exit of
\* an earlier shell, which was closed while its event was on the way, takes no
\* tab that was reopened in the meantime.
OnlyItsShellTakesATab ==
    [][\A t \in tabs \ tabs' :
          CloseTab(t) \/ (entry[t] # None /\ proc[entry[t]] = "exited")]_vars
=============================================================================
