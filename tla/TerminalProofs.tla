----------------------------- MODULE TerminalProofs -----------------------------
(***************************************************************************)
(* Proofs about the shells behind the terminals, for any tabs, panes and   *)
(* number of sessions, and that Terminals uses them as TerminalPty says.   *)
(***************************************************************************)
EXTENDS Terminals, TLAPS

USE TerminalPtyAssumption

\* A session that was never made has left no trace; one that was made asks for
\* a PTY under its tab's id or under an id of its own.
Made ==
    \A s \in Sessions :
        /\ term[s] = None =>
              /\ call[s] = "none" /\ kill[s] = "none" /\ ~disposed[s]
              /\ proc[s] = "none" /\ exit[s] = "none"
        /\ term[s] # None => /\ call[s] # "none"
                             /\ key[s] \in {term[s], s} /\ key[s] \in Keys

\* The registry holds the sessions that are not disposed of.
Registered ==
    /\ \A x \in Terms : entry[x] # None => term[entry[x]] = x /\ ~disposed[entry[x]]
    /\ \A s \in Sessions : term[s] # None /\ ~disposed[s] => entry[term[s]] = s

\* A session is killed once it is disposed of and its shell's id is known.
KillsInTime ==
    \A s \in Sessions :
        /\ kill[s] # "none" => disposed[s]
        /\ kill[s] = "armed" => call[s] \in {"queued", "spawned", "failed"}
        /\ kill[s] \in {"sent", "taken", "done"} => call[s] = "resolved"
        /\ held[s] = IF kill[s] = "taken" THEN s ELSE None

Started(s) == call[s] \in {"spawned", "resolved"}

\* The map holds the shells that were started and not taken for a kill.
Mapped ==
    /\ \A k \in Keys : ptys[k] # None => key[ptys[k]] = k /\ Started(ptys[k])
    /\ \A s \in Sessions :
          Started(s) /\ kill[s] \notin {"taken", "done"} => ptys[key[s]] = s

AliveIsStarted ==
    \A s \in Sessions : proc[s] = "alive" => Started(s) /\ kill[s] # "done"

IInv ==
    /\ PtyTypeOK
    /\ Made
    /\ Registered
    /\ KillsInTime
    /\ Mapped
    /\ AliveIsStarted
    /\ LiveTabHasRow

\* getOrCreate of a terminal without an entry
LEMMA NewKeeps ==
    ASSUME IInv, NEW x \in Terms, NEW s \in Sessions, NEW k \in {x, s},
           k \in Keys, entry[x] = None, IsNext(s),
           entry' = [entry EXCEPT ![x] = s],
           term' = [term EXCEPT ![s] = x],
           key' = [key EXCEPT ![s] = k],
           call' = [call EXCEPT ![s] = "queued"],
           UNCHANGED <<disposed, kill, held, proc, exit, ptys, openRow>>
    PROVE  IInv'
<1>a. /\ term[s] = None /\ call[s] = "none" /\ kill[s] = "none"
      /\ ~disposed[s] /\ proc[s] = "none" /\ exit[s] = "none"
  BY DEF IInv, IsNext, Made, Sessions
<1>b. \A k1 \in Keys : ptys[k1] # s
  BY <1>a DEF IInv, PtyTypeOK, Mapped, Started, Sessions
<1>1. PtyTypeOK'
  BY <1>a, <1>b DEF IInv, PtyTypeOK, Terms, Sessions, Keys, CallStates,
         KillStates, ProcStates, ExitStates, IsNext, frontend
<1>2. Made'
  BY <1>a, <1>b DEF IInv, PtyTypeOK, Terms, Sessions, Keys, Made, IsNext,
         frontend
<1>3. Registered'
  BY <1>a, <1>b DEF IInv, PtyTypeOK, Terms, Sessions, Keys, Registered, Made,
         IsNext, frontend
<1>4. KillsInTime'
  BY <1>a, <1>b DEF IInv, PtyTypeOK, Terms, Sessions, Keys, KillsInTime, Made,
         Registered, IsNext, frontend
<1>5. Mapped'
  BY <1>a, <1>b DEF IInv, PtyTypeOK, Terms, Sessions, Keys, Mapped, Made,
         KillsInTime, Started, IsNext, frontend
<1>6. AliveIsStarted'
  BY <1>a, <1>b DEF IInv, PtyTypeOK, Terms, Sessions, Keys, AliveIsStarted,
         Made, KillsInTime, Started, IsNext, frontend
<1>7. LiveTabHasRow'
  BY <1>a, <1>b DEF IInv, PtyTypeOK, Terms, Sessions, Keys, LiveTabHasRow,
         Made, IsNext, frontend
<1>8. QED
  BY <1>1, <1>2, <1>3, <1>4, <1>5, <1>6, <1>7 DEF IInv

LEMMA CreateKeeps ==
    ASSUME IInv, NEW x \in Terms, NEW prefer \in BOOLEAN, prefer => x \in Tabs,
           Create(x, prefer)
    PROVE  IInv'
<1>1. CASE entry[x] # None
  <2>1. UNCHANGED ptyVars
    BY <1>1 DEF Create
  <2>2. QED
    BY <2>1 DEF ptyVars, frontend, IInv, PtyTypeOK, Made, Registered, KillsInTime,
                Mapped, Started, AliveIsStarted, LiveTabHasRow
<1>2. CASE entry[x] = None
  <2>1. PICK s \in Sessions :
           /\ IsNext(s)
           /\ entry' = [entry EXCEPT ![x] = s]
           /\ term' = [term EXCEPT ![s] = x]
           /\ key' = [key EXCEPT ![s] = IF prefer THEN x ELSE s]
           /\ call' = [call EXCEPT ![s] = "queued"]
           /\ UNCHANGED <<disposed, kill, held, proc, exit, ptys, openRow>>
    BY <1>2 DEF Create
  <2> DEFINE k == IF prefer THEN x ELSE s
  <2>2. k \in {x, s} /\ k \in Keys
    BY DEF Keys
  <2>3. key' = [key EXCEPT ![s] = k]
    BY <2>1
  <2> HIDE DEF k
  <2>4. QED
    BY <1>2, <2>1, <2>2, <2>3, NewKeeps
<1>3. QED
  BY <1>1, <1>2

\* dispose of the entry of a terminal, the Exit event being handled or not
LEMMA GoneKeeps ==
    ASSUME IInv, NEW x \in Terms, entry[x] # None,
           entry' = [entry EXCEPT ![x] = None],
           disposed' = [disposed EXCEPT ![entry[x]] = TRUE],
           kill' = [kill EXCEPT ![entry[x]] = KillOf(entry[x])],
           exit' \in [Sessions -> ExitStates],
           \A s \in Sessions : term[s] = None => exit'[s] = "none",
           UNCHANGED <<term, key, call, held, proc, ptys, openRow>>
    PROVE  IInv'
<1>a. /\ entry[x] \in Sessions /\ term[entry[x]] = x /\ x # None
      /\ ~disposed[entry[x]] /\ kill[entry[x]] = "none" /\ held[entry[x]] = None
      /\ call[entry[x]] \in CallStates /\ call[entry[x]] # "none"
  BY DEF IInv, PtyTypeOK, Registered, KillsInTime, Made, Terms
<1>b. /\ KillOf(entry[x]) \in {"none", "armed", "sent"}
      /\ KillOf(entry[x]) = "armed" => call[entry[x]] \in {"queued", "spawned", "failed"}
      /\ KillOf(entry[x]) = "sent" => call[entry[x]] = "resolved"
  BY <1>a DEF KillOf, CallStates
<1>1. PtyTypeOK'
  BY <1>a, <1>b DEF IInv, PtyTypeOK, Terms, Sessions, Keys, CallStates,
         KillStates, ProcStates, ExitStates, KillOf
<1>2. Made'
  BY <1>a, <1>b DEF IInv, PtyTypeOK, Terms, Sessions, Keys, Made, KillOf
<1>3. Registered'
  BY <1>a, <1>b DEF IInv, PtyTypeOK, Terms, Sessions, Keys, Registered, Made,
         KillOf
<1>4. KillsInTime'
  BY <1>a, <1>b DEF IInv, PtyTypeOK, Terms, Sessions, Keys, KillsInTime, Made,
         Registered, KillOf
<1>5. Mapped'
  BY <1>a, <1>b DEF IInv, PtyTypeOK, Terms, Sessions, Keys, Mapped, Made,
         KillsInTime, Started, KillOf
<1>6. AliveIsStarted'
  BY <1>a, <1>b DEF IInv, PtyTypeOK, Terms, Sessions, Keys, AliveIsStarted,
         Made, KillsInTime, Started, KillOf
<1>7. LiveTabHasRow'
  BY <1>a, <1>b DEF IInv, PtyTypeOK, Terms, Sessions, Keys, LiveTabHasRow,
         Made, KillOf
<1>8. QED
  BY <1>1, <1>2, <1>3, <1>4, <1>5, <1>6, <1>7 DEF IInv

LEMMA DisposeEntryKeeps ==
    ASSUME IInv, NEW x \in Terms, DisposeEntry(x),
           exit' \in [Sessions -> ExitStates],
           \A s \in Sessions : term[s] = None => exit'[s] = "none",
           UNCHANGED <<term, key, call, held, proc, ptys, openRow>>
    PROVE  IInv'
<1>1. CASE entry[x] = None
  <2>1. UNCHANGED <<entry, disposed, kill>>
    BY <1>1 DEF DisposeEntry
  <2>2. QED
    BY <2>1 DEF IInv, PtyTypeOK, Made, Registered, KillsInTime,
                Mapped, Started, AliveIsStarted, LiveTabHasRow
<1>2. CASE entry[x] # None
  BY <1>2, GoneKeeps DEF DisposeEntry
<1>3. QED
  BY <1>1, <1>2

LEMMA DisposeKeeps ==
    ASSUME IInv, NEW x \in Terms, Dispose(x)
    PROVE  IInv'
  BY DisposeEntryKeeps DEF Dispose, IInv, PtyTypeOK, Made

LEMMA HandleExitKeeps ==
    ASSUME IInv, NEW s \in Sessions, HandleExit(s)
    PROVE  IInv'
<1>1. /\ term[s] \in Terms
      /\ exit' \in [Sessions -> ExitStates]
      /\ \A r \in Sessions : term[r] = None => exit'[r] = "none"
  BY DEF IInv, PtyTypeOK, Made, HandleExit, ExitStates, Sessions
<1>2. CASE Heeds(s)
  BY <1>1, <1>2, DisposeEntryKeeps DEF HandleExit
<1>3. CASE ~Heeds(s)
  <2>1. UNCHANGED <<entry, disposed, kill, term, key, call, held, proc, ptys, openRow>>
    BY <1>3 DEF HandleExit
  <2>2. QED
    BY <1>1, <2>1 DEF IInv, PtyTypeOK, Made, Registered, KillsInTime,
                Mapped, Started, AliveIsStarted, LiveTabHasRow
<1>4. QED
  BY <1>2, <1>3

LEMMA SpawnAnswerKeeps ==
    ASSUME IInv, NEW s \in Sessions, SpawnAnswer(s)
    PROVE  IInv'
<1>a. \A r \in Sessions : Started(r)' <=> Started(r)
  BY DEF SpawnAnswer, Started, IInv, PtyTypeOK, CallStates
<1>b. \A r \in Sessions : kill'[r] \in {"taken", "done"} <=> kill[r] \in {"taken", "done"}
  BY DEF SpawnAnswer, IInv, PtyTypeOK, KillStates
<1>1. PtyTypeOK'
  BY <1>a, <1>b DEF IInv, PtyTypeOK, Terms, Sessions, Keys, CallStates,
         KillStates, ProcStates, ExitStates, SpawnAnswer, frontend
<1>2. Made'
  BY <1>a, <1>b DEF IInv, PtyTypeOK, Terms, Sessions, Keys, Made, SpawnAnswer,
         frontend
<1>3. Registered'
  BY <1>a, <1>b DEF IInv, PtyTypeOK, Terms, Sessions, Keys, Registered, Made,
         SpawnAnswer, frontend
<1>4. KillsInTime'
  BY <1>a, <1>b DEF IInv, PtyTypeOK, Terms, Sessions, Keys, KillsInTime, Made,
         Registered, SpawnAnswer, frontend
<1>5. Mapped'
  BY <1>a, <1>b DEF IInv, PtyTypeOK, Terms, Sessions, Keys, Mapped, Made,
         KillsInTime, Started, SpawnAnswer, frontend
<1>6. AliveIsStarted'
  BY <1>a, <1>b DEF IInv, PtyTypeOK, Terms, Sessions, Keys, AliveIsStarted,
         Made, KillsInTime, Started, SpawnAnswer, frontend
<1>7. LiveTabHasRow'
  BY <1>a, <1>b DEF IInv, PtyTypeOK, Terms, Sessions, Keys, LiveTabHasRow,
         Made, SpawnAnswer, frontend
<1>8. QED
  BY <1>1, <1>2, <1>3, <1>4, <1>5, <1>6, <1>7 DEF IInv

LEMMA SpawnRunKeeps ==
    ASSUME IInv, NEW s \in Sessions, SpawnRun(s)
    PROVE  IInv'
<1>a. /\ key[s] \in Keys /\ ~Started(s) /\ term[s] # None
      /\ kill[s] \notin {"sent", "taken", "done"}
  BY DEF SpawnRun, IInv, PtyTypeOK, KillsInTime, Made, Started
<1>b. \A r \in Sessions : r # s => call'[r] = call[r] /\ proc'[r] = proc[r]
  BY DEF SpawnRun, IInv, PtyTypeOK
<1>c. /\ call' \in [Sessions -> CallStates] /\ proc' \in [Sessions -> ProcStates]
      /\ ptys' \in [Keys -> Sessions \cup {None}] /\ openRow' \subseteq Tabs
  BY <1>a DEF SpawnRun, IInv, PtyTypeOK, CallStates, ProcStates
<1>d. /\ \A k \in Keys : ptys'[k] # ptys[k] =>
            k = key[s] /\ ptys[k] = None /\ ptys'[k] = s /\ call'[s] = "spawned"
      /\ call'[s] = "spawned" => ptys'[key[s]] = s
      /\ call'[s] \in {"spawned", "failed"}
      /\ proc'[s] = "alive" => call'[s] = "spawned" \/ proc[s] = "alive"
  BY <1>a DEF SpawnRun, Taken, IInv, PtyTypeOK
<1>1. PtyTypeOK'
  BY <1>a, <1>b, <1>c, <1>d DEF IInv, PtyTypeOK, Terms, Sessions, Keys,
         CallStates, KillStates, ProcStates, ExitStates, SpawnRun, Taken,
         frontend
<1>2. Made'
  BY <1>a, <1>b, <1>c, <1>d DEF IInv, PtyTypeOK, Terms, Sessions, Keys, Made,
         SpawnRun, Taken, frontend
<1>3. Registered'
  BY <1>a, <1>b, <1>c, <1>d DEF IInv, PtyTypeOK, Terms, Sessions, Keys,
         Registered, Made, SpawnRun, Taken, frontend
<1>4. KillsInTime'
  BY <1>a, <1>b, <1>c, <1>d DEF IInv, PtyTypeOK, Terms, Sessions, Keys,
         KillsInTime, Made, Registered, SpawnRun, Taken, frontend
<1>5. Mapped'
  <2>1. key' = key /\ kill' = kill
    BY DEF SpawnRun, frontend
  <2>2. \A r \in Sessions : r # s => (Started(r)' <=> Started(r))
    BY <1>b DEF Started
  <2>3. ASSUME NEW k \in Keys, ptys'[k] # None
        PROVE  key[ptys'[k]] = k /\ Started(ptys[k])'
    <3>1. CASE ptys'[k] = ptys[k]
      <4>1. ptys[k] \in Sessions /\ key[ptys[k]] = k /\ Started(ptys[k])
        BY <2>3, <3>1 DEF IInv, PtyTypeOK, Mapped
      <4>2. ptys[k] # s
        BY <4>1, <1>a
      <4>3. QED
        BY <3>1, <4>1, <4>2, <1>b DEF Started
    <3>2. CASE ptys'[k] # ptys[k]
      BY <1>d, <3>2 DEF Started
    <3>3. QED
      BY <3>1, <3>2
  <2>4. ASSUME NEW r \in Sessions, Started(r)', kill[r] \notin {"taken", "done"}
        PROVE  ptys'[key[r]] = r
    <3>1. CASE r = s
      BY <3>1, <2>4, <1>d DEF Started
    <3>2. CASE r # s
      <4>1. ptys[key[r]] = r /\ key[r] \in Keys
        BY <3>2, <2>2, <2>4 DEF IInv, Mapped, Made, PtyTypeOK, Started
      <4>2. ptys'[key[r]] = ptys[key[r]]
        BY <4>1, <1>d DEF Sessions
      <4>3. QED
        BY <4>1, <4>2
    <3>3. QED
      BY <3>1, <3>2
  <2>5. QED
    BY <2>1, <2>3, <2>4 DEF Mapped
<1>6. AliveIsStarted'
  BY <1>a, <1>b, <1>c, <1>d DEF IInv, PtyTypeOK, Terms, Sessions, Keys,
         AliveIsStarted, Made, KillsInTime, Started, SpawnRun, Taken, frontend
<1>7. LiveTabHasRow'
  BY <1>a, <1>b, <1>c, <1>d DEF IInv, PtyTypeOK, Terms, Sessions, Keys,
         LiveTabHasRow, Made, SpawnRun, Taken, frontend
<1>8. QED
  BY <1>1, <1>2, <1>3, <1>4, <1>5, <1>6, <1>7 DEF IInv

LEMMA SpawnFailsKeeps ==
    ASSUME IInv, NEW s \in Sessions, SpawnFails(s)
    PROVE  IInv'
<1>1. PtyTypeOK'
  BY DEF IInv, PtyTypeOK, Terms, Sessions, Keys, CallStates, KillStates,
         ProcStates, ExitStates, SpawnFails, Taken, frontend
<1>2. Made'
  BY DEF IInv, PtyTypeOK, Terms, Sessions, Keys, Made, SpawnFails, Taken,
         frontend
<1>3. Registered'
  BY DEF IInv, PtyTypeOK, Terms, Sessions, Keys, Registered, Made, SpawnFails,
         Taken, frontend
<1>4. KillsInTime'
  BY DEF IInv, PtyTypeOK, Terms, Sessions, Keys, KillsInTime, Made,
         Registered, SpawnFails, Taken, frontend
<1>5. Mapped'
  BY DEF IInv, PtyTypeOK, Terms, Sessions, Keys, Mapped, Made, KillsInTime,
         Started, SpawnFails, Taken, frontend
<1>6. AliveIsStarted'
  BY DEF IInv, PtyTypeOK, Terms, Sessions, Keys, AliveIsStarted, Made,
         KillsInTime, Started, SpawnFails, Taken, frontend
<1>7. LiveTabHasRow'
  BY DEF IInv, PtyTypeOK, Terms, Sessions, Keys, LiveTabHasRow, Made,
         SpawnFails, Taken, frontend
<1>8. QED
  BY <1>1, <1>2, <1>3, <1>4, <1>5, <1>6, <1>7 DEF IInv

LEMMA KillTakeKeeps ==
    ASSUME IInv, NEW s \in Sessions, KillTake(s)
    PROVE  IInv'
<1>a. key[s] \in Keys /\ ptys[key[s]] = s
  BY DEF KillTake, IInv, Made, KillsInTime, Mapped, Started
<1>b. \A k \in Keys : ptys'[k] = IF k = key[s] THEN None ELSE ptys[k]
  BY DEF KillTake, IInv, PtyTypeOK
<1>c. held' = [held EXCEPT ![s] = s]
  BY <1>a DEF KillTake
<1>1. PtyTypeOK'
  BY <1>a, <1>b, <1>c DEF IInv, PtyTypeOK, Terms, Sessions, Keys, CallStates,
         KillStates, ProcStates, ExitStates, KillTake, frontend
<1>2. Made'
  BY <1>a, <1>b, <1>c DEF IInv, PtyTypeOK, Terms, Sessions, Keys, Made,
         KillTake, frontend
<1>3. Registered'
  BY <1>a, <1>b, <1>c DEF IInv, PtyTypeOK, Terms, Sessions, Keys, Registered,
         Made, KillTake, frontend
<1>4. KillsInTime'
  BY <1>a, <1>b, <1>c DEF IInv, PtyTypeOK, Terms, Sessions, Keys, KillsInTime,
         Made, Registered, KillTake, frontend
<1>5. Mapped'
  BY <1>a, <1>b, <1>c DEF IInv, PtyTypeOK, Terms, Sessions, Keys, Mapped,
         Made, KillsInTime, Started, KillTake, frontend
<1>6. AliveIsStarted'
  BY <1>a, <1>b, <1>c DEF IInv, PtyTypeOK, Terms, Sessions, Keys,
         AliveIsStarted, Made, KillsInTime, Started, KillTake, frontend
<1>7. LiveTabHasRow'
  BY <1>a, <1>b, <1>c DEF IInv, PtyTypeOK, Terms, Sessions, Keys,
         LiveTabHasRow, Made, KillTake, frontend
<1>8. QED
  BY <1>1, <1>2, <1>3, <1>4, <1>5, <1>6, <1>7 DEF IInv

LEMMA KillSignalKeeps ==
    ASSUME IInv, NEW s \in Sessions, KillSignal(s)
    PROVE  IInv'
<1>a. held[s] = s /\ term[s] # None
  BY DEF KillSignal, IInv, KillsInTime, Made
<1>b. \A r \in Sessions :
        /\ proc'[r] \in ProcStates
        /\ proc'[r] = "alive" => proc[r] = "alive" /\ r # s
        /\ proc[r] = "none" => proc'[r] = "none"
  BY <1>a DEF KillSignal, IInv, PtyTypeOK, ProcStates
<1>c. proc' \in [Sessions -> ProcStates]
  BY DEF KillSignal, IInv, PtyTypeOK, ProcStates
<1>1. PtyTypeOK'
  BY <1>a, <1>b, <1>c DEF IInv, PtyTypeOK, Terms, Sessions, Keys, CallStates,
         KillStates, ProcStates, ExitStates, KillSignal, frontend
<1>2. Made'
  BY <1>a, <1>b, <1>c DEF IInv, PtyTypeOK, Terms, Sessions, Keys, Made,
         KillSignal, frontend
<1>3. Registered'
  BY <1>a, <1>b, <1>c DEF IInv, PtyTypeOK, Terms, Sessions, Keys, Registered,
         Made, KillSignal, frontend
<1>4. KillsInTime'
  BY <1>a, <1>b, <1>c DEF IInv, PtyTypeOK, Terms, Sessions, Keys, KillsInTime,
         Made, Registered, KillSignal, frontend
<1>5. Mapped'
  BY <1>a, <1>b, <1>c DEF IInv, PtyTypeOK, Terms, Sessions, Keys, Mapped,
         Made, KillsInTime, Started, KillSignal, frontend
<1>6. AliveIsStarted'
  BY <1>a, <1>b, <1>c DEF IInv, PtyTypeOK, Terms, Sessions, Keys,
         AliveIsStarted, Made, KillsInTime, Started, KillSignal, frontend
<1>7. LiveTabHasRow'
  BY <1>a, <1>b, <1>c DEF IInv, PtyTypeOK, Terms, Sessions, Keys,
         LiveTabHasRow, Made, KillSignal, frontend
<1>8. QED
  BY <1>1, <1>2, <1>3, <1>4, <1>5, <1>6, <1>7 DEF IInv

LEMMA ProcExitKeeps ==
    ASSUME IInv, NEW s \in Sessions, ProcExit(s)
    PROVE  IInv'
<1>1. PtyTypeOK'
  BY DEF IInv, PtyTypeOK, Terms, Sessions, Keys, CallStates, KillStates,
         ProcStates, ExitStates, ProcExit, frontend
<1>2. Made'
  BY DEF IInv, PtyTypeOK, Terms, Sessions, Keys, Made, ProcExit, frontend
<1>3. Registered'
  BY DEF IInv, PtyTypeOK, Terms, Sessions, Keys, Registered, Made, ProcExit,
         frontend
<1>4. KillsInTime'
  BY DEF IInv, PtyTypeOK, Terms, Sessions, Keys, KillsInTime, Made,
         Registered, ProcExit, frontend
<1>5. Mapped'
  BY DEF IInv, PtyTypeOK, Terms, Sessions, Keys, Mapped, Made, KillsInTime,
         Started, ProcExit, frontend
<1>6. AliveIsStarted'
  BY DEF IInv, PtyTypeOK, Terms, Sessions, Keys, AliveIsStarted, Made,
         KillsInTime, Started, ProcExit, frontend
<1>7. LiveTabHasRow'
  BY DEF IInv, PtyTypeOK, Terms, Sessions, Keys, LiveTabHasRow, Made,
         ProcExit, frontend
<1>8. QED
  BY <1>1, <1>2, <1>3, <1>4, <1>5, <1>6, <1>7 DEF IInv

LEMMA ForwardExitKeeps ==
    ASSUME IInv, NEW s \in Sessions, ForwardExit(s)
    PROVE  IInv'
<1>1. PtyTypeOK'
  BY DEF IInv, PtyTypeOK, Terms, Sessions, Keys, CallStates, KillStates,
         ProcStates, ExitStates, ForwardExit, frontend
<1>2. Made'
  BY DEF IInv, PtyTypeOK, Terms, Sessions, Keys, Made, ForwardExit, frontend
<1>3. Registered'
  BY DEF IInv, PtyTypeOK, Terms, Sessions, Keys, Registered, Made,
         ForwardExit, frontend
<1>4. KillsInTime'
  BY DEF IInv, PtyTypeOK, Terms, Sessions, Keys, KillsInTime, Made,
         Registered, ForwardExit, frontend
<1>5. Mapped'
  BY DEF IInv, PtyTypeOK, Terms, Sessions, Keys, Mapped, Made, KillsInTime,
         Started, ForwardExit, frontend
<1>6. AliveIsStarted'
  BY DEF IInv, PtyTypeOK, Terms, Sessions, Keys, AliveIsStarted, Made,
         KillsInTime, Started, ForwardExit, frontend
<1>7. LiveTabHasRow'
  BY DEF IInv, PtyTypeOK, Terms, Sessions, Keys, LiveTabHasRow, Made,
         ForwardExit, frontend
<1>8. QED
  BY <1>1, <1>2, <1>3, <1>4, <1>5, <1>6, <1>7 DEF IInv

LEMMA InitIInv == PtyInit => IInv
  BY DEF PtyInit, IInv, PtyTypeOK, Terms, Sessions, Keys, CallStates, KillStates,
         ProcStates, ExitStates, Made, Registered, KillsInTime, Mapped, Started,
         AliveIsStarted, LiveTabHasRow

LEMMA NextIInv == IInv /\ [PtyNext]_ptyVars => IInv'
<1> SUFFICES ASSUME IInv, [PtyNext]_ptyVars
             PROVE  IInv'
  OBVIOUS
<1>1. CASE UNCHANGED ptyVars
  BY <1>1 DEF ptyVars, frontend, IInv, PtyTypeOK, Made, Registered, KillsInTime,
              Mapped, Started, AliveIsStarted, LiveTabHasRow
<1>2. ASSUME NEW x \in Terms, NEW prefer \in BOOLEAN, prefer => x \in Tabs,
             Create(x, prefer)
      PROVE  IInv'
  BY <1>2, CreateKeeps
<1>3. ASSUME NEW x \in Terms, Dispose(x)
      PROVE  IInv'
  BY <1>3, DisposeKeeps
<1>4. ASSUME NEW s \in Sessions, PtyStep(s)
      PROVE  IInv'
  BY <1>4, SpawnAnswerKeeps, SpawnRunKeeps, SpawnFailsKeeps, KillTakeKeeps,
     KillSignalKeeps, ProcExitKeeps, ForwardExitKeeps DEF PtyStep
<1>5. ASSUME NEW s \in Sessions, HandleExit(s)
      PROVE  IInv'
  BY <1>5, HandleExitKeeps
<1>6. QED
  BY <1>1, <1>2, <1>3, <1>4, <1>5 DEF PtyNext

\* The registry and the map of PTYs keep IInv, whoever calls them.
THEOREM PtyInvariant == PtySpec => []IInv
  BY InitIInv, NextIInv, PTL DEF PtySpec

LEMMA StepIsAPtyStep == [Next]_vars => [PtyNext]_ptyVars
<1> SUFFICES ASSUME [Next]_vars
             PROVE  PtyNext \/ UNCHANGED ptyVars
  OBVIOUS
<1>1. CASE UNCHANGED vars
  BY <1>1 DEF vars
<1>2. ASSUME NEW x \in Terms, NEW prefer \in BOOLEAN, prefer => x \in Tabs,
             Create(x, prefer)
      PROVE  PtyNext
  BY <1>2 DEF PtyNext
<1>3. ASSUME NEW x \in Terms, Dispose(x)
      PROVE  PtyNext
  BY <1>3 DEF PtyNext
<1>4. ASSUME NEW s \in Sessions, PtyStep(s) \/ HandleExit(s)
      PROVE  PtyNext
  BY <1>4 DEF PtyNext
<1>5. ASSUME NEW t \in Tabs, NewTab(t) \/ Reopen(t)
      PROVE  PtyNext
  BY <1>2, <1>5 DEF NewTab, Reopen, Terms
<1>6. ASSUME NEW t \in Tabs, CloseTab(t)
      PROVE  PtyNext
  BY <1>3, <1>6 DEF CloseTab, Terms
<1>7. ASSUME NEW x \in Terms, NEW t \in Tabs, PressClose(t, x)
      PROVE  PtyNext
  BY <1>3, <1>7 DEF PressClose
<1>8. ASSUME NEW x \in Terms, MountSlot(x)
      PROVE  PtyNext
  BY <1>2, <1>8 DEF MountSlot
<1>9. ASSUME NEW s \in Sessions, ShellExit(s)
      PROVE  PtyNext
  BY <1>4, <1>9 DEF ShellExit
<1>10. ASSUME NEW t \in Tabs,
              ReopenAsk(t) \/ EffectLoad(t) \/ PressCmdW(t)
              \/ (\E c \in Callers : LoadLayout(t, c))
              \/ (\E x \in Extra : SplitPane(t, x))
       PROVE  UNCHANGED ptyVars
  BY <1>10 DEF ReopenAsk, EffectLoad, PressCmdW, LoadLayout, SplitPane
<1>11. ASSUME NEW x, MoveFocus(x)
       PROVE  UNCHANGED ptyVars
  BY <1>11 DEF MoveFocus
<1>12. ASSUME NEW t \in Tabs, NEW step, NavigateFocus(t, step)
       PROVE  UNCHANGED ptyVars
  BY <1>11, <1>12 DEF NavigateFocus
<1>13. QED
  BY <1>1, <1>4, <1>5, <1>6, <1>7, <1>8, <1>9, <1>10, <1>11, <1>12
     DEF Next, SetFocusedPane, FocusNotified

\* The tabs, panes and layouts of the application do with the shells only what
\* the registry offers: Terminals implements TerminalPty.
THEOREM UsesThePtys == Spec => PtySpec
<1>1. Init => PtyInit
  BY DEF Init
<1>2. QED
  BY <1>1, StepIsAPtyStep, PTL DEF Spec, PtySpec

THEOREM Invariant == Spec => []IInv
  BY PtyInvariant, UsesThePtys, PTL

\* Every variable of the registry and of the map of PTYs keeps to its values.
THEOREM PtysAreTyped == Spec => []PtyTypeOK
<1>1. IInv => PtyTypeOK
  BY DEF IInv
<1>2. QED
  BY <1>1, Invariant, PTL

LEMMA IInvNoUntrackedChild == IInv => NoUntrackedChild
<1> SUFFICES ASSUME IInv, NEW s \in Sessions, proc[s] = "alive"
             PROVE  \/ ptys[key[s]] = s
                    \/ \E r \in Sessions : held[r] = s /\ kill[r] = "taken"
  BY DEF NoUntrackedChild
<1>1. Started(s) /\ kill[s] # "done"
  BY DEF IInv, AliveIsStarted
<1>2. CASE kill[s] = "taken"
  BY <1>2 DEF IInv, KillsInTime
<1>3. CASE kill[s] # "taken"
  BY <1>1, <1>3 DEF IInv, Mapped
<1>4. QED
  BY <1>2, <1>3

\* No shell runs that neither the map nor a pty_kill under way knows, whatever
\* order spawns, kills, exits and the reuse of a tab's id come in.
THEOREM EveryChildIsTracked == Spec => []NoUntrackedChild
  BY IInvNoUntrackedChild, Invariant, PTL

LEMMA IInvKillHitsOwn == IInv => KillHitsOwn
  BY DEF IInv, KillsInTime, KillHitsOwn

\* A pty_kill that finds its tab's id in use again never ends the new shell.
THEOREM KillsHitTheirOwn == Spec => []KillHitsOwn
  BY IInvKillHitsOwn, Invariant, PTL

LEMMA IInvLiveTabHasRow == IInv => LiveTabHasRow
  BY DEF IInv

\* A tab whose shell is in the map has an open row to be restored from.
THEOREM RowsOfLiveTabsAreOpen == Spec => []LiveTabHasRow
  BY IInvLiveTabHasRow, Invariant, PTL

LEMMA IInvOneShell == IInv => OneShellPerTerminal
  BY DEF IInv, Registered, OneShellPerTerminal

\* However many callers ask for a terminal, it has one session that is alive.
THEOREM OneShellEach == Spec => []OneShellPerTerminal
  BY IInvOneShell, Invariant, PTL

\* An Exit event is about a process that was started and has ended.
Told ==
    \A s \in Sessions : /\ proc[s] # "none" => Started(s)
                        /\ exit[s] # "none" => proc[s] = "exited"

LEMMA StepTold ==
    ASSUME IInv, Told, [PtyNext]_ptyVars
    PROVE  Told'
<1>0. PtyTypeOK
  BY DEF IInv
<1>1. CASE UNCHANGED ptyVars
  BY <1>1 DEF ptyVars, Told, Started
<1>2. ASSUME NEW x \in Terms, NEW prefer \in BOOLEAN, Create(x, prefer)
      PROVE  Told'
  <2>1. CASE entry[x] # None
    BY <1>2, <2>1 DEF Create, ptyVars, Told, Started
  <2>2. CASE entry[x] = None
    <3>1. PICK s \in Sessions :
             IsNext(s) /\ call' = [call EXCEPT ![s] = "queued"]
      BY <1>2, <2>2 DEF Create
    <3>2. proc' = proc /\ exit' = exit
      BY <1>2, <2>2 DEF Create
    <3>3. proc[s] = "none" /\ exit[s] = "none"
      BY <3>1 DEF IsNext, IInv, Made, Sessions
    <3>4. QED
      BY <1>0, <3>1, <3>2, <3>3 DEF Told, Started, PtyTypeOK
  <2>3. QED
    BY <2>1, <2>2
<1>3. ASSUME NEW x \in Terms, Dispose(x)
      PROVE  Told'
  BY <1>3 DEF Dispose, Told, Started
<1>4. ASSUME NEW s \in Sessions, PtyStep(s) \/ HandleExit(s)
      PROVE  Told'
  <2>1. CASE SpawnAnswer(s)
    BY <1>0, <2>1 DEF SpawnAnswer, frontend, Told, Started, PtyTypeOK, CallStates
  <2>2. CASE SpawnRun(s) \/ SpawnFails(s)
    BY <1>0, <2>2 DEF SpawnRun, SpawnFails, frontend, Told, Started, PtyTypeOK
  <2>3. CASE KillTake(s)
    BY <2>3 DEF KillTake, frontend, Told, Started
  <2>4. CASE KillSignal(s)
    BY <1>0, <2>4 DEF KillSignal, frontend, Told, Started, PtyTypeOK
  <2>5. CASE ProcExit(s)
    BY <1>0, <2>5 DEF ProcExit, frontend, Told, Started, PtyTypeOK
  <2>6. CASE ForwardExit(s) \/ HandleExit(s)
    BY <1>0, <2>6 DEF ForwardExit, HandleExit, frontend, Told, Started, PtyTypeOK
  <2>7. QED
    BY <1>4, <2>1, <2>2, <2>3, <2>4, <2>5, <2>6 DEF PtyStep
<1>5. QED
  BY <1>1, <1>2, <1>3, <1>4 DEF PtyNext

LEMMA ExitTakesItsTab ==
    ASSUME IInv, Told, NEW s \in Sessions, ShellExit(s), NEW t \in tabs \ tabs'
    PROVE  entry[t] # None /\ proc[entry[t]] = "exited"
<1>1. /\ Heeds(s) /\ call[s] = "resolved" /\ key[s] \in Tabs /\ t = key[s]
  BY DEF ShellExit, RemoveTab
<1>2. exit[s] = "sent" /\ proc[s] = "exited"
  BY DEF ShellExit, HandleExit, Told
<1>3. term[s] = t
  BY <1>1 DEF IInv, Made, Sessions
<1>4. entry[t] = s
  BY <1>1, <1>3 DEF IInv, Registered, Heeds
<1>5. QED
  BY <1>2, <1>4 DEF Sessions

LEMMA StepTakesItsTab ==
    ASSUME IInv, Told, [Next]_vars, NEW t \in tabs \ tabs'
    PROVE  CloseTab(t) \/ (entry[t] # None /\ proc[entry[t]] = "exited")
<1>1. CASE UNCHANGED vars
  BY <1>1 DEF vars, ui
<1>2. ASSUME NEW r \in Tabs, CloseTab(r)
      PROVE  CloseTab(t)
  BY <1>2 DEF CloseTab, RemoveTab
<1>3. ASSUME NEW s \in Sessions, ShellExit(s)
      PROVE  entry[t] # None /\ proc[entry[t]] = "exited"
  BY <1>3, ExitTakesItsTab
<1>4. ASSUME NEW r \in Tabs,
             \/ NewTab(r) \/ ReopenAsk(r) \/ Reopen(r) \/ EffectLoad(r)
             \/ \E c \in Callers : LoadLayout(r, c)
             \/ \E x \in Extra : SplitPane(r, x)
             \/ \E x \in Terms : PressClose(r, x)
             \/ PressCmdW(r)
      PROVE  FALSE
  BY <1>4 DEF NewTab, ReopenAsk, Reopen, EffectLoad, LoadLayout, SplitPane,
              PressClose, PressCmdW, ClosePane
<1>5. ASSUME NEW x, MoveFocus(x)
      PROVE  FALSE
  BY <1>5 DEF MoveFocus
<1>6. ASSUME NEW r \in Tabs, NEW step, NavigateFocus(r, step)
      PROVE  FALSE
  BY <1>5, <1>6 DEF NavigateFocus
<1>7. ASSUME NEW x \in Terms, MountSlot(x)
      PROVE  FALSE
  BY <1>7 DEF MountSlot
<1>8. QED
  BY <1>1, <1>2, <1>3, <1>4, <1>5, <1>6, <1>7
     DEF Next, SetFocusedPane, FocusNotified, ui

\* No tab is lost to the exit of a shell that is not its own any more.
THEOREM TabsGoWithTheirShell == Spec => OnlyItsShellTakesATab
<1>1. PtyInit => Told
  BY DEF PtyInit, Told
<1>2. IInv /\ Told /\ [PtyNext]_ptyVars => Told'
  BY StepTold
<1>3. PtySpec => []Told
  BY <1>1, <1>2, PtyInvariant, PTL DEF PtySpec
<1>4. IInv /\ Told /\ [Next]_vars =>
        [\A t \in tabs \ tabs' :
            CloseTab(t) \/ (entry[t] # None /\ proc[entry[t]] = "exited")]_vars
  BY StepTakesItsTab
<1>5. QED
  BY <1>3, <1>4, Invariant, UsesThePtys, PTL DEF Spec, OnlyItsShellTakesATab

=============================================================================
