---------------------------- MODULE HeartbeatProofs ----------------------------
(***************************************************************************)
(* Theorems about Heartbeat, for any number of heartbeats, clicks, permits,*)
(* gates and crashes.  The invariant has four parts: where the handler is  *)
(* and what it has already done to its target, who owns the loops, what a  *)
(* lane's gate is worth, and what the rows promise.                        *)
(***************************************************************************)
EXTENDS Heartbeat, TLAPS

USE DEF table, gates, tasks, lanes, handler, ghosts

-----------------------------------------------------------------------------
(* The parts of the invariant *)

\* delete's way from begin_retirement to the DELETE
Retiring == at \in {"stop", "drain", "erase"} \/ (at = "join" /\ after = "drain")

\* Where the handler is tells what kind it is and how its target's row reads.
HandlerInv ==
    /\ holder = "idle" => at = "return"
    /\ at \in {"reap", "list", "next"} => holder = "start"
    /\ at \in {"retire", "drain", "erase"} => holder = "delete"
    /\ at = "stop" => holder \in {"pause", "delete"}
    /\ at = "join" => after # "return"
    /\ at = "join" /\ after = "drain"
          => holder = "delete" /\ row[target] = "enabled"
    /\ holder = "delete" /\ (at = "retire" \/ Retiring) => Exists(target)
    /\ at = "stop" /\ holder = "pause" => row[target] = "disabled"
    /\ at = "spawn" \/ (at = "join" /\ after = "spawn")
          => row[target] = "enabled"
    /\ at = "unset" \/ (at = "join" /\ after = "unset")
          => row[target] = "disabled"
    /\ holder # "start" => todo = {}

\* A handler past its cancel has left no entry, and an entry is of an enabled
\* heartbeat unless a pause is about to take it out.
TaskInv ==
    /\ at \in {"join", "spawn", "unset", "drain", "erase"} => task[target] = 0
    /\ \A h \in Heartbeats : task[h] # 0 =>
          /\ <<h, task[h]>> \notin cancelled
          /\ row[h] = "enabled" \/ (holder = "pause" /\ at = "stop" /\ target = h)

\* What has passed the first look at `retiring` stands at the gate of the map,
\* or at one that is retired; only the former is ever let in.
SelectedInv ==
    \A r \in Lanes : pc[r] \in {"picked", "gate"} \cup Admitted =>
        /\ admitted[r] # 0
        /\ admitted[r] = gate[r[1]] \/ (Retired(r) /\ pc[r] \notin Admitted)

\* The keyed permit is one.
OneAdmitted ==
    \A r, q \in Lanes :
        r # q /\ r[1] = q[1] => ~(pc[r] \in Admitted /\ pc[q] \in Admitted)

\* A retired gate belongs to a deleted heartbeat or to the delete at work.
RetireInv ==
    /\ holder = "delete" /\ Retiring => <<target, gate[target]>> \in retiring
    /\ \A h \in Heartbeats, g \in 1..MaxGates : <<h, g>> \in retiring =>
          \/ row[h] = "deleted"
          \/ holder = "delete" /\ target = h /\ Retiring /\ g = gate[h]

\* delete erases the row with the keyed permit in its hands.
EraseInv ==
    at = "erase" =>
        /\ exclusive = gate[target]
        /\ \A r \in Lanes : r[1] = target => pc[r] \notin Admitted

\* The target's row waits for the handler to bring its schedule up to date.
Registering(h) ==
    /\ target = h
    /\ at \in {"register", "join", "spawn", "unset", "retire", "stop", "drain",
               "erase"}

\* start has not reached it yet
Unstarted(h) == at \in {"reap", "list"} \/ h \in todo

\* A disabled row with a next run is waiting for the handler to take it back.
DisabledInv ==
    \A h \in Heartbeats :
        row[h] = "disabled" /\ crashes = 0 /\ h \notin lost /\ nextRun[h] =>
            Registering(h)

\* An enabled row without a loop or a next run is waiting for its handler.
EnabledInv ==
    \A h \in Heartbeats :
        row[h] = "enabled" /\ h \notin pending \cup lost =>
            \/ Registering(h)
            \/ Unstarted(h)
            \/ task[h] # 0 /\ pc[<<h, task[h]>>] # "off" /\ nextRun[h]

\* A lane's execution is 'running' while its checks are, and nobody runs before
\* start has tried to reap; what is left over is of this process or unreaped.
OpenInv ==
    /\ \A r \in Lanes : r \in open <=> pc[r] = "checks"
    /\ at = "reap" => \A r \in Lanes : pc[r] = "off"
    /\ \A h \in Heartbeats : gate[h] <= made[h]
    /\ at # "reap" /\ ~unreaped =>
          \A h \in Heartbeats : <<h, 0>> \in open => made[h] > 0

\* Only loops wait for a due time.
ManualNeverTicks ==
    \A r \in Lanes \ Loops : pc[r] \notin {"wait", "due", "ticked"}

\* The inductive invariant.
IInv ==
    /\ TypeOK
    /\ HandlerInv
    /\ TaskInv
    /\ LoopsAreOwned
    /\ ManualNeverTicks
    /\ AwaitedIsCancelled
    /\ SelectedInv
    /\ OneAdmitted
    /\ RetireInv
    /\ EraseInv
    /\ DeletedIsQuiet
    /\ DisabledInv
    /\ EnabledInv
    /\ OpenInv

-----------------------------------------------------------------------------
(* Lanes and types *)

\* Loops and manual runs are lanes of a heartbeat, and no lane is both.
LEMMA LaneFacts ==
    /\ Loops \subseteq Lanes /\ Manual \subseteq Lanes
    /\ \A r \in Loops : r \notin Manual
    /\ \A r \in Lanes : r[1] \in Heartbeats /\ r = <<r[1], r[2]>>
    /\ \A r \in Loops : r[2] \in {1, 2}
    /\ \A h \in Heartbeats : <<h, 1>> \in Loops /\ <<h, 2>> \in Loops
BY HeartbeatAssumption DEF Loops, Manual, Lanes, LoopLanes

\* The process starts with empty maps, whatever the heartbeat in `target`.
LEMMA TypeInit == Init => TypeOK
<1> SUFFICES ASSUME Init PROVE TypeOK
    OBVIOUS
<1>1. open \subseteq Heartbeats \X (0..2 + Clicks)
    BY DEF Init
<1>2. /\ gate \in [Heartbeats -> 0..MaxGates]
      /\ made \in [Heartbeats -> 0..MaxGates]
      /\ admitted \in [Lanes -> 0..MaxGates]
      /\ pc \in [Lanes -> LanePc]
      /\ crashes \in 0..MaxCrashes
    BY HeartbeatAssumption DEF Init, LanePc
<1>3. /\ row \in [Heartbeats -> {"none", "enabled", "disabled", "deleted"}]
      /\ nextRun \in [Heartbeats -> BOOLEAN]
      /\ retiring \subseteq Gates
      /\ task \in [Heartbeats -> 0..2]
      /\ cancelled \subseteq Loops
      /\ stale \subseteq Lanes
      /\ holder = "start" /\ at = "reap" /\ after = "return"
      /\ target \in Heartbeats
      /\ joining \in 0..2
      /\ exclusive \in 0..MaxGates
      /\ todo \subseteq Heartbeats
      /\ pending \subseteq Heartbeats
      /\ lost \subseteq Heartbeats
    BY HeartbeatAssumption DEF Init
<1>4. unreaped \in BOOLEAN
    BY DEF Init
<1>5. QED
    BY <1>1, <1>2, <1>3, <1>4 DEF TypeOK

\* A gate taken from the map or made for it is one of the heartbeat's gates.
LEMMA TakeGateFacts ==
    ASSUME TypeOK, NEW h \in Heartbeats, NEW r \in Lanes, TakeGate(h, r)
    PROVE  /\ gate' \in [Heartbeats -> 0..MaxGates]
           /\ made' \in [Heartbeats -> 0..MaxGates]
           /\ admitted' \in [Lanes -> 0..MaxGates]
           /\ gate'[h] # 0 /\ admitted' = [admitted EXCEPT ![r] = gate'[h]]
           /\ \A k \in Heartbeats : gate[k] # 0 \/ k # h => gate'[k] = gate[k]
           /\ \A k \in Heartbeats : made[k] <= made'[k]
           /\ (\A k \in Heartbeats : gate[k] <= made[k])
                 => \A k \in Heartbeats : gate'[k] <= made'[k]
<1>1. CASE gate[h] # 0
    BY <1>1, HeartbeatAssumption DEF TakeGate, TypeOK
<1>2. CASE gate[h] = 0
    <2>1. made[h] + 1 \in 1..MaxGates
        BY <1>2, HeartbeatAssumption DEF TakeGate, TypeOK
    <2>2. QED
        BY <1>2, <2>1, HeartbeatAssumption DEF TakeGate, TypeOK
<1>3. QED
    BY <1>1, <1>2

\* Every action keeps every variable in its domain.
LEMMA TypeStep == TypeOK /\ [Next]_vars => TypeOK'
<1> SUFFICES ASSUME TypeOK, [Next]_vars PROVE TypeOK'
    OBVIOUS
<1>1. ASSUME NEW r \in Loops, Due(r) PROVE TypeOK'
    BY <1>1, LaneFacts DEF Due, TypeOK, Goto, LanePc, Admitted
<1>2. ASSUME NEW r \in Loops, StopWaiting(r) PROVE TypeOK'
    BY <1>2, LaneFacts DEF StopWaiting, TypeOK, Goto, LanePc, Admitted
<1>3. ASSUME NEW r \in Loops, Advance(r) PROVE TypeOK'
    <2>1. r \in Lanes /\ r[1] \in Heartbeats
        BY LaneFacts
    <2>2. /\ pc' \in [Lanes -> LanePc]
          /\ nextRun' \in [Heartbeats -> BOOLEAN]
          /\ lost' \subseteq Heartbeats
        BY <1>3, <2>1 DEF Advance, TypeOK, Goto, LanePc
    <2>3. QED
        BY <1>3, <2>2 DEF Advance, TypeOK
<1>4. ASSUME NEW r \in Loops, Select(r) PROVE TypeOK'
    BY <1>4, LaneFacts, TakeGateFacts
       DEF Select, TypeOK, Goto, LanePc, Admitted
<1>5. ASSUME NEW r \in Loops, GiveUp(r) PROVE TypeOK'
    <2>1. pc' \in [Lanes -> LanePc]
        BY <1>5, LaneFacts DEF GiveUp, TypeOK, Goto, LanePc
    <2>2. QED
        BY <1>5, <2>1 DEF GiveUp, TypeOK
<1>6. ASSUME NEW r \in Loops, Post(r) PROVE TypeOK'
    <2>1. r \in Lanes /\ r[1] \in Heartbeats
        BY LaneFacts
    <2>2. /\ pc' \in [Lanes -> LanePc]
          /\ nextRun' \in [Heartbeats -> BOOLEAN]
          /\ lost' \subseteq Heartbeats
        BY <1>6, <2>1 DEF Post, TypeOK, Goto, LanePc
    <2>3. QED
        BY <1>6, <2>2 DEF Post, TypeOK
<1>7. ASSUME NEW r \in Manual, Trigger(r) PROVE TypeOK'
    BY <1>7, LaneFacts, TakeGateFacts
       DEF Trigger, TypeOK, Goto, LanePc, Admitted
<1>8. ASSUME NEW r \in Lanes, Queue(r) PROVE TypeOK'
    BY <1>8, LaneFacts DEF Queue, TypeOK, Goto, LanePc, Admitted
<1>9. ASSUME NEW r \in Lanes, Load(r) PROVE TypeOK'
    BY <1>9, LaneFacts DEF Load, TypeOK, Goto, LanePc, Admitted, AfterRun, Lanes
<1>10. ASSUME NEW r \in Lanes, Finish(r) PROVE TypeOK'
    BY <1>10, LaneFacts DEF Finish, TypeOK, Goto, LanePc, Admitted, AfterRun
<1>11. ASSUME NEW r \in Lanes, Abort(r) PROVE TypeOK'
    <2>1. r[1] \in Heartbeats /\ 0 \in 0..2 + Clicks
        BY LaneFacts, HeartbeatAssumption
    <2>2. <<r[1], 0>> \in Heartbeats \X (0..2 + Clicks)
        BY <2>1
    <2>3. open' \subseteq Heartbeats \X (0..2 + Clicks)
        BY <1>11, <2>2 DEF Abort, TypeOK
    <2>4. pc' \in [Lanes -> LanePc]
        BY <1>11, LaneFacts DEF Abort, TypeOK, Goto, LanePc, Admitted, AfterRun
    <2>5. QED
        BY <1>11, <2>3, <2>4 DEF Abort, TypeOK
<1>12. ASSUME NEW r \in Lanes, AcquireGate(r) PROVE TypeOK'
    BY <1>12, LaneFacts DEF AcquireGate, TypeOK, Goto, LanePc, Admitted
<1>13. ASSUME NEW r \in Lanes, AcquireGlobal(r) PROVE TypeOK'
    BY <1>13, LaneFacts DEF AcquireGlobal, TypeOK, Goto, LanePc, Admitted
<1>14. ASSUME NEW h \in Heartbeats, Create(h) PROVE TypeOK'
    BY <1>14 DEF Create, TypeOK
<1>15. ASSUME NEW h \in Heartbeats, Add(h) PROVE TypeOK'
    BY <1>15 DEF Add, TypeOK, Lock
<1>16. ASSUME NEW h \in Heartbeats, Pause(h) PROVE TypeOK'
    BY <1>16 DEF Pause, TypeOK, Lock
<1>17. ASSUME NEW h \in Heartbeats, Resume(h) PROVE TypeOK'
    BY <1>17 DEF Resume, TypeOK, Lock
<1>18. ASSUME NEW h \in Heartbeats, Delete(h) PROVE TypeOK'
    BY <1>18 DEF Delete, TypeOK, Lock
<1>19. ASSUME NEW h \in Heartbeats, UpdateChecks(h) PROVE TypeOK'
    BY <1>19 DEF UpdateChecks, TypeOK
<1>20. CASE Stop
    BY <1>20 DEF Stop, TypeOK, CancelTask, Loops, LoopLanes
<1>21. CASE Join
    BY <1>21 DEF Join, TypeOK
<1>22. CASE Register
    BY <1>22 DEF Register, TypeOK, CancelTask, Loops, LoopLanes
<1>23. CASE Spawn
    <2>1. FreeLane(target) \in {1, 2}
        BY DEF FreeLane
    <2>2. <<target, FreeLane(target)>> \in Lanes
        BY <2>1, LaneFacts DEF TypeOK
    <2>3. pc' \in [Lanes -> LanePc]
        BY <1>23, <2>2 DEF Spawn, TypeOK, LanePc
    <2>4. task' \in [Heartbeats -> 0..2]
        BY <1>23, <2>1 DEF Spawn, TypeOK
    <2>5. /\ nextRun' \in [Heartbeats -> BOOLEAN]
          /\ cancelled' \subseteq Loops
          /\ lost' \subseteq Heartbeats
        BY <1>23 DEF Spawn, TypeOK
    <2>6. QED
        BY <1>23, <2>3, <2>4, <2>5 DEF Spawn, TypeOK, Step
<1>24. CASE Unset
    BY <1>24 DEF Unset, TypeOK, Step
<1>25. CASE Return
    BY <1>25, HeartbeatAssumption DEF Return, TypeOK
<1>26. CASE Retire
    BY <1>26, HeartbeatAssumption DEF Retire, TypeOK, Step, Gates
<1>27. CASE Erase
    BY <1>27, HeartbeatAssumption DEF Erase, TypeOK, Step
<1>28. CASE EraseFails
    BY <1>28 DEF EraseFails, TypeOK, Step
<1>29. CASE Reap
    BY <1>29 DEF Reap, TypeOK, Step
<1>30. CASE List
    BY <1>30 DEF List, TypeOK, Step
<1>31. ASSUME NEW h \in Heartbeats, RegisterNext(h) PROVE TypeOK'
    BY <1>31 DEF RegisterNext, TypeOK, Step
<1>32. CASE Started
    BY <1>32 DEF Started, TypeOK, Step
<1>33. CASE Drain
    BY <1>33 DEF Drain, TypeOK, Step
<1>34. CASE Crash
    <2>1. 0 \in 0..2 + Clicks
        BY HeartbeatAssumption
    <2>2. \A r \in open : <<r[1], 0>> \in Heartbeats \X (0..2 + Clicks)
        BY <2>1 DEF TypeOK
    <2>3. open' \subseteq Heartbeats \X (0..2 + Clicks)
        BY <1>34, <2>2 DEF Crash
    <2>4. /\ gate' \in [Heartbeats -> 0..MaxGates]
          /\ made' \in [Heartbeats -> 0..MaxGates]
          /\ admitted' \in [Lanes -> 0..MaxGates]
          /\ pc' \in [Lanes -> LanePc]
          /\ crashes' \in 0..MaxCrashes
        BY <1>34, HeartbeatAssumption DEF Crash, TypeOK, LanePc
    <2>5. /\ row' \in [Heartbeats -> {"none", "enabled", "disabled", "deleted"}]
          /\ nextRun' \in [Heartbeats -> BOOLEAN]
          /\ retiring' \subseteq Gates
          /\ task' \in [Heartbeats -> 0..2]
          /\ cancelled' \subseteq Loops
          /\ stale' \subseteq Lanes
          /\ holder' = "start" /\ at' = "reap" /\ after' = "return"
          /\ target' \in Heartbeats
          /\ joining' \in 0..2
          /\ exclusive' \in 0..MaxGates
          /\ todo' \subseteq Heartbeats
          /\ pending' \subseteq Heartbeats
          /\ lost' \subseteq Heartbeats
        BY <1>34, HeartbeatAssumption DEF Crash, TypeOK
    <2>6. unreaped' \in BOOLEAN
        BY <1>34 DEF Crash
    <2>7. QED
        BY <2>3, <2>4, <2>5, <2>6 DEF TypeOK
<1>35. CASE UNCHANGED vars
    BY <1>35 DEF vars, TypeOK
<1>36. QED
    BY <1>1, <1>2, <1>3, <1>4, <1>5, <1>6, <1>7, <1>8, <1>9, <1>10, <1>11,
       <1>12, <1>13, <1>14, <1>15, <1>16, <1>17, <1>18, <1>19, <1>20, <1>21,
       <1>22, <1>23, <1>24, <1>25, <1>26, <1>27, <1>28, <1>29, <1>30, <1>31,
       <1>32, <1>33, <1>34, <1>35
       DEF Next, LoopStep, RunStep, Admission, Request, Handler

\* Types hold for every number of heartbeats, clicks, permits and crashes.
THEOREM TypeCorrect == Spec => []TypeOK
BY TypeInit, TypeStep, PTL DEF Spec

-----------------------------------------------------------------------------
(* The parts of the invariant are inductive *)

\* A lane on its way: what LoopStep, Trigger, RunStep and Admission share.
LaneAct(r) ==
    \/ r \in Loops /\ LoopStep(r)
    \/ r \in Manual /\ Trigger(r)
    \/ RunStep(r)
    \/ Admission(r)

\* A lane moves alone, and leaves the rows' states, the tasks and the handler.
LEMMA LaneFrame ==
    ASSUME TypeOK, NEW r \in Lanes, LaneAct(r)
    PROVE  /\ UNCHANGED <<row, retiring, task, cancelled, holder, at, target>>
           /\ UNCHANGED <<joining, after, exclusive, todo, pending>>
           /\ UNCHANGED <<unreaped, crashes>>
           /\ \A q \in Lanes : q # r => pc'[q] = pc[q] /\ admitted'[q] = admitted[q]
           /\ pc[r] = "off" => r \in Manual
           /\ pc'[r] \in {"wait", "due", "ticked"} => r \in Loops
<1> USE DEF Goto
<1>1. ASSUME r \in Loops, LoopStep(r) PROVE
              /\ UNCHANGED <<row, retiring, task, cancelled, holder, at, target>>
              /\ UNCHANGED <<joining, after, exclusive, todo, pending>>
              /\ UNCHANGED <<unreaped, crashes>>
    BY <1>1 DEF LoopStep, Due, StopWaiting, Advance, Select, GiveUp, Post
<1>2. ASSUME r \in Loops, LoopStep(r) PROVE
              /\ \A q \in Lanes : q # r => pc'[q] = pc[q] /\ admitted'[q] = admitted[q]
              /\ pc[r] # "off"
    BY <1>2
       DEF LoopStep, Due, StopWaiting, Advance, Select, GiveUp, Post, TakeGate,
           TypeOK
<1>3. ASSUME r \in Manual, Trigger(r) PROVE
              /\ UNCHANGED <<row, retiring, task, cancelled, holder, at, target>>
              /\ UNCHANGED <<joining, after, exclusive, todo, pending>>
              /\ UNCHANGED <<unreaped, crashes>>
              /\ \A q \in Lanes : q # r => pc'[q] = pc[q] /\ admitted'[q] = admitted[q]
              /\ pc'[r] = "picked"
    BY <1>3 DEF Trigger, TakeGate, TypeOK
<1>4. ASSUME RunStep(r) \/ Admission(r) PROVE
              /\ UNCHANGED <<row, retiring, task, cancelled, holder, at, target>>
              /\ UNCHANGED <<joining, after, exclusive, todo, pending>>
              /\ UNCHANGED <<unreaped, crashes>>
              /\ \A q \in Lanes : q # r => pc'[q] = pc[q] /\ admitted'[q] = admitted[q]
              /\ pc[r] # "off"
              /\ pc'[r] \notin {"wait", "due", "ticked"}
    BY <1>4
       DEF RunStep, Admission, Queue, Load, Finish, Abort, AcquireGate,
           AcquireGlobal, AfterRun, TypeOK
<1>5. QED
    BY <1>1, <1>2, <1>3, <1>4 DEF LaneAct

\* The handler knows its target: the row is what its next step takes it for.
LEMMA HandlerStep == IInv /\ [Next]_vars => HandlerInv'
<1> SUFFICES ASSUME IInv, [Next]_vars PROVE HandlerInv'
    OBVIOUS
<1> USE DEF HandlerInv, Retiring, Exists
<1>1. ASSUME NEW r \in Lanes, LaneAct(r) PROVE HandlerInv'
    BY <1>1, LaneFrame DEF IInv
<1>2. ASSUME NEW h \in Heartbeats, Create(h) PROVE HandlerInv'
    BY <1>2 DEF Create, IInv, TypeOK
<1>3. ASSUME NEW h \in Heartbeats, Add(h) PROVE HandlerInv'
    BY <1>3 DEF Add, Lock, IInv
<1>4. ASSUME NEW h \in Heartbeats, Pause(h) PROVE HandlerInv'
    BY <1>4 DEF Pause, Lock, IInv, TypeOK
<1>5. ASSUME NEW h \in Heartbeats, Resume(h) PROVE HandlerInv'
    BY <1>5 DEF Resume, Lock, IInv, TypeOK
<1>6. ASSUME NEW h \in Heartbeats, Delete(h) PROVE HandlerInv'
    BY <1>6 DEF Delete, Lock, IInv
<1>7. ASSUME NEW h \in Heartbeats, UpdateChecks(h) PROVE HandlerInv'
    BY <1>7 DEF UpdateChecks, IInv
<1>8. ASSUME NEW h \in Heartbeats, RegisterNext(h) PROVE HandlerInv'
    BY <1>8 DEF RegisterNext, Step, IInv
<1>9. CASE Stop
    BY <1>9 DEF Stop, CancelTask, TaskInv, TypeOK, IInv
<1>10. CASE Join
    BY <1>10 DEF Join, IInv, TypeOK
<1>11. CASE Register
    BY <1>11 DEF Register, CancelTask, TaskInv, TypeOK, IInv
<1>12. CASE Spawn
    BY <1>12 DEF Spawn, FreeLane, Step, IInv
<1>13. CASE Unset
    BY <1>13 DEF Unset, Step, IInv
<1>14. CASE Return
    BY <1>14 DEF Return, IInv
<1>15. CASE Retire
    BY <1>15 DEF Retire, Step, IInv
<1>16. CASE Erase
    BY <1>16 DEF Erase, Step, IInv, TypeOK
<1>17. CASE EraseFails
    BY <1>17 DEF EraseFails, Step, IInv
<1>18. CASE Reap
    BY <1>18 DEF Reap, Step, IInv
<1>19. CASE List
    BY <1>19 DEF List, Step, IInv
<1>20. CASE Started
    BY <1>20 DEF Started, Step, IInv
<1>21. CASE Drain
    BY <1>21 DEF Drain, Step, IInv
<1>22. CASE Crash
    BY <1>22 DEF Crash, IInv, TypeOK
<1>23. CASE UNCHANGED vars
    BY <1>23 DEF vars, IInv
<1>24. QED
    BY <1>1, <1>2, <1>3, <1>4, <1>5, <1>6, <1>7, <1>8, <1>9, <1>10, <1>11,
       <1>12, <1>13, <1>14, <1>15, <1>16, <1>17, <1>18, <1>19, <1>20, <1>21,
       <1>22, <1>23, LaneFacts DEF Next, LaneAct, Request, Handler

\* No handler loses the entry of a loop: where it has cancelled, none is left.
LEMMA TaskStep == IInv /\ [Next]_vars => TaskInv'
<1> SUFFICES ASSUME IInv, [Next]_vars PROVE TaskInv'
    OBVIOUS
<1> USE DEF TaskInv
<1>1. ASSUME NEW r \in Lanes, LaneAct(r) PROVE TaskInv'
    BY <1>1, LaneFrame DEF IInv
<1>2. ASSUME NEW h \in Heartbeats, Create(h) PROVE TaskInv'
    BY <1>2 DEF Create, TypeOK, HandlerInv, IInv
<1>3. ASSUME NEW h \in Heartbeats, Add(h) PROVE TaskInv'
    BY <1>3 DEF Add, Lock, TypeOK, HandlerInv, IInv
<1>4. ASSUME NEW h \in Heartbeats, Pause(h) PROVE TaskInv'
    BY <1>4 DEF Pause, Lock, TypeOK, HandlerInv, IInv
<1>5. ASSUME NEW h \in Heartbeats, Resume(h) PROVE TaskInv'
    BY <1>5 DEF Resume, Lock, TypeOK, HandlerInv, IInv
<1>6. ASSUME NEW h \in Heartbeats, Delete(h) PROVE TaskInv'
    BY <1>6 DEF Delete, Lock, TypeOK, HandlerInv, IInv
<1>7. ASSUME NEW h \in Heartbeats, UpdateChecks(h) PROVE TaskInv'
    BY <1>7 DEF UpdateChecks, IInv
<1>8. ASSUME NEW h \in Heartbeats, RegisterNext(h) PROVE TaskInv'
    BY <1>8 DEF RegisterNext, Step, TypeOK, HandlerInv, IInv
<1>9. CASE Stop
    BY <1>9 DEF Stop, CancelTask, TypeOK, HandlerInv, IInv
<1>10. CASE Join
    BY <1>10 DEF Join, TypeOK, HandlerInv, IInv
<1>11. CASE Register
    BY <1>11 DEF Register, CancelTask, TypeOK, HandlerInv, IInv
<1>12. CASE Spawn
    BY <1>12 DEF Spawn, FreeLane, Step, TypeOK, HandlerInv, IInv
<1>13. CASE Unset
    BY <1>13 DEF Unset, Step, TypeOK, HandlerInv, IInv
<1>14. CASE Return
    BY <1>14 DEF Return, TypeOK, HandlerInv, IInv
<1>15. CASE Retire
    BY <1>15 DEF Retire, Step, TypeOK, HandlerInv, IInv
<1>16. CASE Erase
    BY <1>16 DEF Erase, Step, TypeOK, HandlerInv, IInv
<1>17. CASE EraseFails
    BY <1>17 DEF EraseFails, Step, TypeOK, HandlerInv, IInv
<1>18. CASE Reap
    BY <1>18 DEF Reap, Step, TypeOK, HandlerInv, IInv
<1>19. CASE List
    BY <1>19 DEF List, Step, TypeOK, HandlerInv, IInv
<1>20. CASE Started
    BY <1>20 DEF Started, Step, TypeOK, HandlerInv, IInv
<1>21. CASE Drain
    BY <1>21 DEF Drain, Step, TypeOK, HandlerInv, IInv
<1>22. CASE Crash
    BY <1>22 DEF Crash, TypeOK, HandlerInv, IInv
<1>23. CASE UNCHANGED vars
    BY <1>23 DEF vars, IInv
<1>24. QED
    BY <1>1, <1>2, <1>3, <1>4, <1>5, <1>6, <1>7, <1>8, <1>9, <1>10, <1>11,
       <1>12, <1>13, <1>14, <1>15, <1>16, <1>17, <1>18, <1>19, <1>20, <1>21,
       <1>22, <1>23, LaneFacts DEF Next, LaneAct, Request, Handler

\* A loop appears only when no other is left, and its entry goes only to be joined.
LEMMA OwnedStep == IInv /\ [Next]_vars => LoopsAreOwned'
<1> SUFFICES ASSUME IInv, [Next]_vars PROVE LoopsAreOwned'
    OBVIOUS
<1> USE DEF LoopsAreOwned
<1>1. ASSUME NEW r \in Lanes, LaneAct(r) PROVE LoopsAreOwned'
    BY <1>1, LaneFrame, LaneFacts DEF IInv
<1>2. ASSUME NEW h \in Heartbeats, Create(h) PROVE LoopsAreOwned'
    BY <1>2 DEF Create, IInv
<1>3. ASSUME NEW h \in Heartbeats, Add(h) PROVE LoopsAreOwned'
    BY <1>3 DEF Add, Lock, TypeOK, HandlerInv, TaskInv, IInv
<1>4. ASSUME NEW h \in Heartbeats, Pause(h) PROVE LoopsAreOwned'
    BY <1>4 DEF Pause, Lock, TypeOK, HandlerInv, TaskInv, IInv
<1>5. ASSUME NEW h \in Heartbeats, Resume(h) PROVE LoopsAreOwned'
    BY <1>5 DEF Resume, Lock, TypeOK, HandlerInv, TaskInv, IInv
<1>6. ASSUME NEW h \in Heartbeats, Delete(h) PROVE LoopsAreOwned'
    BY <1>6 DEF Delete, Lock, TypeOK, HandlerInv, TaskInv, IInv
<1>7. ASSUME NEW h \in Heartbeats, UpdateChecks(h) PROVE LoopsAreOwned'
    BY <1>7 DEF UpdateChecks, IInv
<1>8. ASSUME NEW h \in Heartbeats, RegisterNext(h) PROVE LoopsAreOwned'
    BY <1>8 DEF RegisterNext, Step, TypeOK, HandlerInv, TaskInv, IInv
<1>9. CASE Stop
    <2>1. /\ UNCHANGED <<pc, target>> /\ at # "join" /\ target \in Heartbeats
          /\ task' = [task EXCEPT ![target] = 0]
          /\ task[target] # 0 => joining' = task[target] /\ at' = "join"
        BY <1>9 DEF Stop, CancelTask, IInv, TypeOK
    <2>2. ASSUME NEW r \in Loops, pc[r] # "off"
          PROVE  task'[r[1]] = r[2] \/ (at' = "join" /\ r = <<target, joining'>>)
        <3>1. task[r[1]] = r[2] /\ r[2] # 0 /\ r = <<r[1], r[2]>>
              /\ r[1] \in Heartbeats
            BY <2>1, <2>2, LaneFacts DEF IInv
        <3>2. QED
            BY <2>1, <3>1 DEF IInv, TypeOK
    <2>3. QED
        BY <2>1, <2>2
<1>10. CASE Join
    BY <1>10 DEF Join, TypeOK, HandlerInv, TaskInv, IInv
<1>11. CASE Register
    <2>1. /\ UNCHANGED <<pc, target>> /\ at # "join" /\ target \in Heartbeats
          /\ task' = [task EXCEPT ![target] = 0]
          /\ task[target] # 0 => joining' = task[target] /\ at' = "join"
        BY <1>11 DEF Register, CancelTask, IInv, TypeOK
    <2>2. ASSUME NEW r \in Loops, pc[r] # "off"
          PROVE  task'[r[1]] = r[2] \/ (at' = "join" /\ r = <<target, joining'>>)
        <3>1. task[r[1]] = r[2] /\ r[2] # 0 /\ r = <<r[1], r[2]>>
              /\ r[1] \in Heartbeats
            BY <2>1, <2>2, LaneFacts DEF IInv
        <3>2. QED
            BY <2>1, <3>1 DEF IInv, TypeOK
    <2>3. QED
        BY <2>1, <2>2
<1>12. CASE Spawn
    <2>1. FreeLane(target) \in {1, 2} /\ task[target] = 0
        BY <1>12 DEF FreeLane, Spawn, Step, IInv, TaskInv
    <2>2. at # "join" /\ target \in Heartbeats
        BY <1>12 DEF Spawn, Step, IInv, TypeOK
    <2>3. ASSUME NEW r \in Loops, pc'[r] # "off" PROVE task'[r[1]] = r[2]
        <3>1. CASE r = <<target, FreeLane(target)>> /\ pc # pc'
            BY <1>12, <3>1, <2>1, <2>2 DEF Spawn, IInv, TypeOK
        <3>2. CASE r # <<target, FreeLane(target)>> \/ pc = pc'
            <4>1. pc[r] # "off"
                BY <1>12, <3>2, <2>3, LaneFacts DEF Spawn, IInv, TypeOK
            <4>2. task[r[1]] = r[2] /\ r[2] # 0 /\ r[1] \in Heartbeats
                BY <4>1, <2>2, <2>3, LaneFacts DEF IInv
            <4>3. QED
                BY <1>12, <4>2, <2>1, <2>2 DEF Spawn, IInv, TypeOK
        <3>3. QED
            BY <3>1, <3>2
    <2>4. QED
        BY <2>3
<1>13. CASE Unset
    BY <1>13 DEF Unset, Step, IInv
<1>14. CASE Return
    BY <1>14 DEF Return, IInv
<1>15. CASE Retire
    BY <1>15 DEF Retire, Step, IInv
<1>16. CASE Erase
    BY <1>16 DEF Erase, Step, IInv
<1>17. CASE EraseFails
    BY <1>17 DEF EraseFails, Step, IInv
<1>18. CASE Reap
    BY <1>18 DEF Reap, Step, IInv
<1>19. CASE List
    BY <1>19 DEF List, Step, IInv
<1>20. CASE Started
    BY <1>20 DEF Started, Step, IInv
<1>21. CASE Drain
    BY <1>21 DEF Drain, Step, IInv
<1>22. CASE Crash
    BY <1>22, LaneFacts DEF Crash, TypeOK, IInv
<1>23. CASE UNCHANGED vars
    BY <1>23 DEF vars, IInv
<1>24. QED
    BY <1>1, <1>2, <1>3, <1>4, <1>5, <1>6, <1>7, <1>8, <1>9, <1>10, <1>11,
       <1>12, <1>13, <1>14, <1>15, <1>16, <1>17, <1>18, <1>19, <1>20, <1>21,
       <1>22, <1>23, LaneFacts DEF Next, LaneAct, Request, Handler

\* The entry that is taken out is cancelled before its handle is awaited.
LEMMA AwaitedStep == IInv /\ [Next]_vars => AwaitedIsCancelled'
<1> SUFFICES ASSUME IInv, [Next]_vars PROVE AwaitedIsCancelled'
    OBVIOUS
<1> USE DEF AwaitedIsCancelled
<1>1. ASSUME NEW r \in Lanes, LaneAct(r) PROVE AwaitedIsCancelled'
    BY <1>1, LaneFrame DEF IInv
<1>2. ASSUME NEW h \in Heartbeats, Create(h) PROVE AwaitedIsCancelled'
    BY <1>2 DEF Create, IInv
<1>3. ASSUME NEW h \in Heartbeats, Add(h) PROVE AwaitedIsCancelled'
    BY <1>3 DEF Add, Lock, TypeOK, HandlerInv, IInv
<1>4. ASSUME NEW h \in Heartbeats, Pause(h) PROVE AwaitedIsCancelled'
    BY <1>4 DEF Pause, Lock, TypeOK, HandlerInv, IInv
<1>5. ASSUME NEW h \in Heartbeats, Resume(h) PROVE AwaitedIsCancelled'
    BY <1>5 DEF Resume, Lock, TypeOK, HandlerInv, IInv
<1>6. ASSUME NEW h \in Heartbeats, Delete(h) PROVE AwaitedIsCancelled'
    BY <1>6 DEF Delete, Lock, TypeOK, HandlerInv, IInv
<1>7. ASSUME NEW h \in Heartbeats, UpdateChecks(h) PROVE AwaitedIsCancelled'
    BY <1>7 DEF UpdateChecks, IInv
<1>8. ASSUME NEW h \in Heartbeats, RegisterNext(h) PROVE AwaitedIsCancelled'
    BY <1>8 DEF RegisterNext, Step, TypeOK, HandlerInv, IInv
<1>9. CASE Stop
    BY <1>9 DEF Stop, CancelTask, TypeOK, HandlerInv, IInv
<1>10. CASE Join
    BY <1>10 DEF Join, TypeOK, HandlerInv, IInv
<1>11. CASE Register
    BY <1>11 DEF Register, CancelTask, TypeOK, HandlerInv, IInv
<1>12. CASE Spawn
    BY <1>12 DEF Spawn, FreeLane, Step, TypeOK, HandlerInv, IInv
<1>13. CASE Unset
    BY <1>13 DEF Unset, Step, IInv
<1>14. CASE Return
    BY <1>14 DEF Return, IInv
<1>15. CASE Retire
    BY <1>15 DEF Retire, Step, IInv
<1>16. CASE Erase
    BY <1>16 DEF Erase, Step, IInv
<1>17. CASE EraseFails
    BY <1>17 DEF EraseFails, Step, IInv
<1>18. CASE Reap
    BY <1>18 DEF Reap, Step, IInv
<1>19. CASE List
    BY <1>19 DEF List, Step, IInv
<1>20. CASE Started
    BY <1>20 DEF Started, Step, IInv
<1>21. CASE Drain
    BY <1>21 DEF Drain, Step, IInv
<1>22. CASE Crash
    BY <1>22 DEF Crash, TypeOK, HandlerInv, IInv
<1>23. CASE UNCHANGED vars
    BY <1>23 DEF vars, IInv
<1>24. QED
    BY <1>1, <1>2, <1>3, <1>4, <1>5, <1>6, <1>7, <1>8, <1>9, <1>10, <1>11,
       <1>12, <1>13, <1>14, <1>15, <1>16, <1>17, <1>18, <1>19, <1>20, <1>21,
       <1>22, <1>23, LaneFacts DEF Next, LaneAct, Request, Handler

\* A click never becomes a loop.
LEMMA ManualStep == IInv /\ [Next]_vars => ManualNeverTicks'
<1> SUFFICES ASSUME IInv, [Next]_vars PROVE ManualNeverTicks'
    OBVIOUS
<1> USE DEF ManualNeverTicks
<1>1. ASSUME NEW r \in Lanes, LaneAct(r) PROVE ManualNeverTicks'
    BY <1>1, LaneFrame, LaneFacts DEF IInv, TypeOK
<1>2. ASSUME NEW h \in Heartbeats, Create(h) PROVE ManualNeverTicks'
    BY <1>2 DEF Create, IInv
<1>3. ASSUME NEW h \in Heartbeats, Add(h) PROVE ManualNeverTicks'
    BY <1>3 DEF Add, Lock, IInv
<1>4. ASSUME NEW h \in Heartbeats, Pause(h) PROVE ManualNeverTicks'
    BY <1>4 DEF Pause, Lock, IInv
<1>5. ASSUME NEW h \in Heartbeats, Resume(h) PROVE ManualNeverTicks'
    BY <1>5 DEF Resume, Lock, IInv
<1>6. ASSUME NEW h \in Heartbeats, Delete(h) PROVE ManualNeverTicks'
    BY <1>6 DEF Delete, Lock, IInv
<1>7. ASSUME NEW h \in Heartbeats, UpdateChecks(h) PROVE ManualNeverTicks'
    BY <1>7 DEF UpdateChecks, IInv
<1>8. ASSUME NEW h \in Heartbeats, RegisterNext(h) PROVE ManualNeverTicks'
    BY <1>8 DEF RegisterNext, Step, IInv
<1>9. CASE Stop
    BY <1>9 DEF Stop, CancelTask, IInv
<1>10. CASE Join
    BY <1>10 DEF Join, IInv
<1>11. CASE Register
    BY <1>11 DEF Register, CancelTask, IInv
<1>12. CASE Spawn
    <2>1. <<target, FreeLane(target)>> \in Loops
        BY LaneFacts DEF FreeLane, IInv, TypeOK
    <2>2. ASSUME NEW r \in Lanes \ Loops PROVE pc'[r] = pc[r]
        BY <1>12, <2>1, <2>2 DEF Spawn, IInv, TypeOK
    <2>3. QED
        BY <2>2 DEF IInv
<1>13. CASE Unset
    BY <1>13 DEF Unset, Step, IInv
<1>14. CASE Return
    BY <1>14 DEF Return, IInv
<1>15. CASE Retire
    BY <1>15 DEF Retire, Step, IInv
<1>16. CASE Erase
    BY <1>16 DEF Erase, Step, IInv
<1>17. CASE EraseFails
    BY <1>17 DEF EraseFails, Step, IInv
<1>18. CASE Reap
    BY <1>18 DEF Reap, Step, IInv
<1>19. CASE List
    BY <1>19 DEF List, Step, IInv
<1>20. CASE Started
    BY <1>20 DEF Started, Step, IInv
<1>21. CASE Drain
    BY <1>21 DEF Drain, Step, IInv
<1>22. CASE Crash
    BY <1>22, LaneFacts DEF Crash, TypeOK, IInv
<1>23. CASE UNCHANGED vars
    BY <1>23 DEF vars, IInv
<1>24. QED
    BY <1>1, <1>2, <1>3, <1>4, <1>5, <1>6, <1>7, <1>8, <1>9, <1>10, <1>11,
       <1>12, <1>13, <1>14, <1>15, <1>16, <1>17, <1>18, <1>19, <1>20, <1>21,
       <1>22, <1>23, LaneFacts DEF Next, LaneAct, Request, Handler

\* A lane that is let in by a gate, by the global semaphore or not at all
\* keeps its gate; one that selects a gate has a fresh look at the map.
LEMMA LaneGate ==
    ASSUME TypeOK, NEW r \in Lanes, LaneAct(r)
    PROVE  \/ /\ UNCHANGED <<gate, made, admitted>>
              /\ pc'[r] \in {"picked", "gate"} \cup Admitted =>
                    /\ pc[r] \in {"picked", "gate"} \cup Admitted
                    /\ pc'[r] # "picked"
                    /\ pc'[r] \in Admitted /\ pc[r] \notin Admitted =>
                          ~Retired(r) /\ GateFree(r[1], admitted[r])
           \/ TakeGate(r[1], r) /\ pc' = [pc EXCEPT ![r] = "picked"]
              /\ pc[r] \in {"ticked", "off"}
<1> USE DEF Goto, Admitted, TypeOK
<1>1. ASSUME LoopStep(r) PROVE
              \/ Select(r)
              \/ /\ UNCHANGED <<gate, made, admitted>>
                 /\ pc'[r] \notin {"picked", "gate"} \cup Admitted
    BY <1>1 DEF LoopStep, Due, StopWaiting, Advance, GiveUp, Post
<1>2. ASSUME RunStep(r) PROVE UNCHANGED <<gate, made, admitted>>
           /\ (pc'[r] \in {"gate"} \cup Admitted => pc[r] \in {"picked"} \cup Admitted)
           /\ (pc'[r] \in Admitted => pc[r] \in Admitted) /\ pc'[r] # "picked"
    BY <1>2 DEF RunStep, Queue, Load, Finish, Abort, AfterRun
<1>3. ASSUME Admission(r) PROVE UNCHANGED <<gate, made, admitted>>
           /\ pc'[r] \in {"off"} \cup Admitted
           /\ pc[r] \in {"gate"} \cup Admitted
           /\ (pc[r] = "gate" /\ pc'[r] # "off" =>
                  ~Retired(r) /\ GateFree(r[1], admitted[r]))
    BY <1>3 DEF Admission, AcquireGate, AcquireGlobal, Unwelcome
<1>4. ASSUME Select(r) \/ Trigger(r)
      PROVE  TakeGate(r[1], r) /\ pc' = [pc EXCEPT ![r] = "picked"]
             /\ pc[r] \in {"ticked", "off"}
    BY <1>4 DEF Select, Trigger
<1>5. QED
    BY <1>1, <1>2, <1>3, <1>4 DEF LaneAct

\* Nobody is let in by a gate that the map no longer has.
LEMMA SelectedStep == IInv /\ [Next]_vars => SelectedInv'
<1> SUFFICES ASSUME IInv, [Next]_vars PROVE SelectedInv'
    OBVIOUS
<1> USE DEF SelectedInv
<1>1. ASSUME NEW r \in Lanes, LaneAct(r) PROVE SelectedInv'
    <2>1. r[1] \in Heartbeats /\ UNCHANGED retiring
          /\ \A q \in Lanes : q # r => pc'[q] = pc[q] /\ admitted'[q] = admitted[q]
        BY <1>1, LaneFrame, LaneFacts DEF IInv
    <2>2. CASE UNCHANGED <<gate, made, admitted>>
               /\ (pc'[r] \in {"picked", "gate"} \cup Admitted =>
                      /\ pc[r] \in {"picked", "gate"} \cup Admitted
                      /\ pc'[r] \in Admitted /\ pc[r] \notin Admitted => ~Retired(r))
        BY <2>1, <2>2 DEF IInv, Retired
    <2>3. CASE TakeGate(r[1], r) /\ pc' = [pc EXCEPT ![r] = "picked"]
        <3>1. /\ admitted'[r] = gate'[r[1]] /\ gate'[r[1]] # 0
              /\ \A k \in Heartbeats : gate[k] # 0 \/ k # r[1] => gate'[k] = gate[k]
            BY <2>1, <2>3, TakeGateFacts DEF IInv, TypeOK
        <3>2. ASSUME NEW q \in Lanes, q # r,
                     pc[q] \in {"picked", "gate"} \cup Admitted
              PROVE  /\ admitted[q] # 0
                     /\ \/ admitted[q] = gate'[q[1]]
                        \/ Retired(q) /\ pc[q] \notin Admitted
            BY <3>1, <3>2, LaneFacts DEF IInv
        <3>3. QED
            BY <2>1, <2>3, <3>1, <3>2 DEF Retired, Admitted, IInv, TypeOK
    <2>4. QED
        BY <1>1, <2>2, <2>3, LaneGate DEF IInv
<1>2. ASSUME NEW h \in Heartbeats, Create(h) PROVE SelectedInv'
    BY <1>2 DEF Create, IInv, Retired
<1>3. ASSUME NEW h \in Heartbeats, Add(h) PROVE SelectedInv'
    BY <1>3 DEF Add, Lock, IInv, Retired
<1>4. ASSUME NEW h \in Heartbeats, Pause(h) PROVE SelectedInv'
    BY <1>4 DEF Pause, Lock, IInv, Retired
<1>5. ASSUME NEW h \in Heartbeats, Resume(h) PROVE SelectedInv'
    BY <1>5 DEF Resume, Lock, IInv, Retired
<1>6. ASSUME NEW h \in Heartbeats, Delete(h) PROVE SelectedInv'
    BY <1>6 DEF Delete, Lock, IInv, Retired
<1>7. ASSUME NEW h \in Heartbeats, UpdateChecks(h) PROVE SelectedInv'
    BY <1>7 DEF UpdateChecks, IInv, Retired
<1>8. ASSUME NEW h \in Heartbeats, RegisterNext(h) PROVE SelectedInv'
    BY <1>8 DEF RegisterNext, Step, IInv, Retired
<1>9. CASE Stop
    BY <1>9 DEF Stop, CancelTask, TypeOK, HandlerInv, Retired, Admitted, IInv
<1>10. CASE Join
    BY <1>10 DEF Join, TypeOK, HandlerInv, Retired, Admitted, IInv
<1>11. CASE Register
    BY <1>11
       DEF Register, CancelTask, TypeOK, HandlerInv, Retired, Admitted, IInv
<1>12. CASE Spawn
    <2>1. <<target, FreeLane(target)>> \in Lanes
        BY LaneFacts DEF FreeLane, IInv, TypeOK
    <2>2. ASSUME NEW r \in Lanes, pc'[r] \in {"picked", "gate"} \cup Admitted
          PROVE  pc[r] = pc'[r]
        BY <1>12, <2>1, <2>2 DEF Spawn, IInv, TypeOK, Admitted
    <2>3. UNCHANGED <<row, gates, admitted, holder, target, exclusive>>
          /\ at = "spawn" /\ at' = "return"
        BY <1>12 DEF Spawn, Step
    <2>4. QED
        BY <2>2, <2>3 DEF IInv, Retired, Admitted
<1>13. CASE Unset
    BY <1>13 DEF Unset, Step, IInv, Retired
<1>14. CASE Return
    BY <1>14 DEF Return, IInv, Retired
<1>15. CASE Retire
    <2>1. /\ UNCHANGED <<pc, admitted>> /\ retiring \subseteq retiring'
          /\ \A h \in Heartbeats : gate[h] # 0 => gate'[h] = gate[h]
        BY <1>15 DEF Retire, IInv, TypeOK
    <2>2. \A r \in Lanes : r[1] \in Heartbeats
        BY LaneFacts
    <2>3. QED
        BY <2>1, <2>2 DEF IInv, Retired
<1>16. CASE Erase
    <2>1. /\ UNCHANGED <<pc, admitted, retiring>>
          /\ \A h \in Heartbeats : h # target => gate'[h] = gate[h]
        BY <1>16 DEF Erase, IInv, TypeOK
    <2>2. <<target, gate[target]>> \in retiring
        BY <1>16 DEF Erase, Step, IInv, RetireInv, HandlerInv, Retiring
    <2>3. \A r \in Lanes : r[1] = target => pc[r] \notin Admitted
        BY <1>16 DEF Erase, Step, IInv, EraseInv
    <2>4. \A r \in Lanes : r[1] \in Heartbeats
        BY LaneFacts
    <2>5. QED
        BY <2>1, <2>2, <2>3, <2>4 DEF IInv, Retired
<1>17. CASE EraseFails
    BY <1>17 DEF EraseFails, Step, TypeOK, Retired, Admitted, EraseInv, IInv
<1>18. CASE Reap
    BY <1>18 DEF Reap, Step, IInv, Retired
<1>19. CASE List
    BY <1>19 DEF List, Step, IInv, Retired
<1>20. CASE Started
    BY <1>20 DEF Started, Step, IInv, Retired
<1>21. CASE Drain
    BY <1>21 DEF Drain, Step, IInv, Retired
<1>22. CASE Crash
    BY <1>22 DEF Crash, TypeOK, Admitted, IInv, Retired
<1>23. CASE UNCHANGED vars
    BY <1>23 DEF vars, IInv, Retired
<1>24. QED
    BY <1>1, <1>2, <1>3, <1>4, <1>5, <1>6, <1>7, <1>8, <1>9, <1>10, <1>11,
       <1>12, <1>13, <1>14, <1>15, <1>16, <1>17, <1>18, <1>19, <1>20, <1>21,
       <1>22, <1>23, LaneFacts DEF Next, LaneAct, Request, Handler

\* The keyed permit goes to one lane at a time.
LEMMA AdmittedStep == IInv /\ [Next]_vars => OneAdmitted'
<1> SUFFICES ASSUME IInv, [Next]_vars PROVE OneAdmitted'
    OBVIOUS
<1> USE DEF OneAdmitted
<1>1. ASSUME NEW r \in Lanes, LaneAct(r) PROVE OneAdmitted'
    <2>1. \A q \in Lanes : q # r => pc'[q] = pc[q]
        BY <1>1, LaneFrame DEF IInv
    <2>2. CASE pc'[r] \in Admitted => pc[r] \in Admitted
        BY <2>1, <2>2 DEF IInv
    <2>3. CASE pc'[r] \in Admitted /\ pc[r] \notin Admitted
        <3>1. pc[r] \in {"picked", "gate"} /\ ~Retired(r)
              /\ GateFree(r[1], admitted[r])
            BY <1>1, <2>3, LaneGate DEF IInv, Admitted, TypeOK
        <3>2. admitted[r] = gate[r[1]]
            BY <3>1 DEF IInv, SelectedInv
        <3>3. \A q \in Lanes : q[1] = r[1] => pc[q] \notin Admitted
            BY <3>1, <3>2 DEF IInv, SelectedInv, GateFree
        <3>4. QED
            BY <2>1, <3>3 DEF IInv
    <2>4. QED
        BY <2>2, <2>3
<1>2. ASSUME NEW h \in Heartbeats, Create(h) PROVE OneAdmitted'
    BY <1>2 DEF Create, IInv
<1>3. ASSUME NEW h \in Heartbeats, Add(h) PROVE OneAdmitted'
    BY <1>3 DEF Add, Lock, IInv
<1>4. ASSUME NEW h \in Heartbeats, Pause(h) PROVE OneAdmitted'
    BY <1>4 DEF Pause, Lock, IInv
<1>5. ASSUME NEW h \in Heartbeats, Resume(h) PROVE OneAdmitted'
    BY <1>5 DEF Resume, Lock, IInv
<1>6. ASSUME NEW h \in Heartbeats, Delete(h) PROVE OneAdmitted'
    BY <1>6 DEF Delete, Lock, IInv
<1>7. ASSUME NEW h \in Heartbeats, UpdateChecks(h) PROVE OneAdmitted'
    BY <1>7 DEF UpdateChecks, IInv
<1>8. ASSUME NEW h \in Heartbeats, RegisterNext(h) PROVE OneAdmitted'
    BY <1>8 DEF RegisterNext, Step, IInv
<1>9. CASE Stop
    BY <1>9 DEF Stop, CancelTask, IInv
<1>10. CASE Join
    BY <1>10 DEF Join, IInv
<1>11. CASE Register
    BY <1>11 DEF Register, CancelTask, IInv
<1>12. CASE Spawn
    <2>1. <<target, FreeLane(target)>> \in Lanes
        BY LaneFacts DEF FreeLane, IInv, TypeOK
    <2>2. ASSUME NEW r \in Lanes, pc'[r] \in {"picked", "gate"} \cup Admitted
          PROVE  pc[r] = pc'[r]
        BY <1>12, <2>1, <2>2 DEF Spawn, IInv, TypeOK, Admitted
    <2>3. UNCHANGED <<row, gates, admitted, holder, target, exclusive>>
          /\ at = "spawn" /\ at' = "return"
        BY <1>12 DEF Spawn, Step
    <2>4. QED
        BY <2>2, <2>3 DEF IInv, Retired, Admitted
<1>13. CASE Unset
    BY <1>13 DEF Unset, Step, IInv
<1>14. CASE Return
    BY <1>14 DEF Return, IInv
<1>15. CASE Retire
    BY <1>15 DEF Retire, Step, IInv
<1>16. CASE Erase
    BY <1>16 DEF Erase, Step, IInv
<1>17. CASE EraseFails
    BY <1>17 DEF EraseFails, Step, IInv
<1>18. CASE Reap
    BY <1>18 DEF Reap, Step, IInv
<1>19. CASE List
    BY <1>19 DEF List, Step, IInv
<1>20. CASE Started
    BY <1>20 DEF Started, Step, IInv
<1>21. CASE Drain
    BY <1>21 DEF Drain, Step, IInv
<1>22. CASE Crash
    BY <1>22 DEF Crash, TypeOK, Admitted, IInv
<1>23. CASE UNCHANGED vars
    BY <1>23 DEF vars, IInv
<1>24. QED
    BY <1>1, <1>2, <1>3, <1>4, <1>5, <1>6, <1>7, <1>8, <1>9, <1>10, <1>11,
       <1>12, <1>13, <1>14, <1>15, <1>16, <1>17, <1>18, <1>19, <1>20, <1>21,
       <1>22, <1>23, LaneFacts DEF Next, LaneAct, Request, Handler

\* The flag of a gate goes up with a delete and down with its failure.
LEMMA RetireStep == IInv /\ [Next]_vars => RetireInv'
<1> SUFFICES ASSUME IInv, [Next]_vars PROVE RetireInv'
    OBVIOUS
<1> USE DEF RetireInv, Retiring
<1>1. ASSUME NEW r \in Lanes, LaneAct(r) PROVE RetireInv'
    <2>1. UNCHANGED retiring /\ r[1] \in Heartbeats
          /\ UNCHANGED <<row, holder, at, target, after, exclusive>>
        BY <1>1, LaneFrame, LaneFacts DEF IInv
    <2>2. \A k \in Heartbeats : gate[k] # 0 => gate'[k] = gate[k]
        BY <1>1, <2>1, LaneGate, TakeGateFacts DEF IInv
    <2>3. \A k \in Heartbeats, g \in 1..MaxGates : k = target /\ <<k, g>> \in retiring
              /\ g = gate[k] => gate'[k] = g
        BY <2>2
    <2>4. retiring \subseteq Gates
        BY DEF IInv, TypeOK
    <2>5. \A k \in Heartbeats : <<k, gate[k]>> \in retiring => gate[k] # 0
        BY <2>4, HeartbeatAssumption DEF Gates
    <2>6. QED
        BY <2>1, <2>2, <2>3, <2>5 DEF IInv, TypeOK, Retiring
<1>2. ASSUME NEW h \in Heartbeats, Create(h) PROVE RetireInv'
    BY <1>2 DEF Create, TypeOK, HandlerInv, IInv
<1>3. ASSUME NEW h \in Heartbeats, Add(h) PROVE RetireInv'
    BY <1>3 DEF Add, Lock, TypeOK, HandlerInv, IInv
<1>4. ASSUME NEW h \in Heartbeats, Pause(h) PROVE RetireInv'
    <2>1. UNCHANGED <<gates>> /\ holder = "idle" /\ holder' = "pause"
          /\ \A k \in Heartbeats : row[k] = "deleted" => row'[k] = "deleted"
        BY <1>4 DEF Pause, Lock, Exists, IInv, TypeOK
    <2>2. QED
        BY <2>1 DEF IInv
<1>5. ASSUME NEW h \in Heartbeats, Resume(h) PROVE RetireInv'
    <2>1. UNCHANGED <<gates>> /\ holder = "idle" /\ holder' = "resume"
          /\ \A k \in Heartbeats : row[k] = "deleted" => row'[k] = "deleted"
        BY <1>5 DEF Resume, Lock, Exists, IInv, TypeOK
    <2>2. QED
        BY <2>1 DEF IInv
<1>6. ASSUME NEW h \in Heartbeats, Delete(h) PROVE RetireInv'
    BY <1>6 DEF Delete, Lock, TypeOK, HandlerInv, IInv
<1>7. ASSUME NEW h \in Heartbeats, UpdateChecks(h) PROVE RetireInv'
    BY <1>7 DEF UpdateChecks, IInv
<1>8. ASSUME NEW h \in Heartbeats, RegisterNext(h) PROVE RetireInv'
    BY <1>8 DEF RegisterNext, Step, TypeOK, HandlerInv, IInv
<1>9. CASE Stop
    BY <1>9 DEF Stop, CancelTask, TypeOK, HandlerInv, TaskInv, IInv
<1>10. CASE Join
    BY <1>10 DEF Join, TypeOK, HandlerInv, IInv
<1>11. CASE Register
    BY <1>11 DEF Register, CancelTask, TypeOK, HandlerInv, IInv
<1>12. CASE Spawn
    BY <1>12 DEF Spawn, FreeLane, Step, TypeOK, HandlerInv, IInv
<1>13. CASE Unset
    BY <1>13 DEF Unset, Step, IInv
<1>14. CASE Return
    BY <1>14 DEF Return, IInv
<1>15. CASE Retire
    BY <1>15 DEF Retire, Step, TypeOK, HandlerInv, IInv
<1>16. CASE Erase
    BY <1>16 DEF Erase, Step, TypeOK, HandlerInv, IInv
<1>17. CASE EraseFails
    BY <1>17 DEF EraseFails, Step, TypeOK, HandlerInv, IInv
<1>18. CASE Reap
    BY <1>18 DEF Reap, Step, IInv
<1>19. CASE List
    BY <1>19 DEF List, Step, IInv
<1>20. CASE Started
    BY <1>20 DEF Started, Step, TypeOK, HandlerInv, IInv
<1>21. CASE Drain
    BY <1>21 DEF Drain, Step, TypeOK, HandlerInv, IInv
<1>22. CASE Crash
    BY <1>22 DEF Crash, TypeOK, HandlerInv, IInv
<1>23. CASE UNCHANGED vars
    BY <1>23 DEF vars, IInv
<1>24. QED
    BY <1>1, <1>2, <1>3, <1>4, <1>5, <1>6, <1>7, <1>8, <1>9, <1>10, <1>11,
       <1>12, <1>13, <1>14, <1>15, <1>16, <1>17, <1>18, <1>19, <1>20, <1>21,
       <1>22, <1>23, LaneFacts DEF Next, LaneAct, Request, Handler

\* While delete holds the keyed permit nobody is let in.
LEMMA EraseStep == IInv /\ [Next]_vars => EraseInv'
<1> SUFFICES ASSUME IInv, [Next]_vars PROVE EraseInv'
    OBVIOUS
<1> USE DEF EraseInv
<1>1. ASSUME NEW r \in Lanes, LaneAct(r) PROVE EraseInv'
    <2>1. SUFFICES ASSUME at = "erase"
                   PROVE  /\ exclusive = gate'[target]
                          /\ \A q \in Lanes : q[1] = target => pc'[q] \notin Admitted
        BY <1>1, LaneFrame DEF IInv
    <2>2. <<target, gate[target]>> \in retiring
        BY <2>1 DEF IInv, RetireInv, HandlerInv, Retiring
    <2>3. gate[target] # 0 /\ target \in Heartbeats
        BY <2>2, HeartbeatAssumption DEF IInv, TypeOK, Gates
    <2>4. gate'[target] = gate[target]
        BY <1>1, <2>3, LaneGate, TakeGateFacts, LaneFacts DEF IInv
    <2>5. ASSUME r[1] = target PROVE pc'[r] \notin Admitted
        <3>1. pc[r] \notin Admitted
            BY <2>1, <2>5 DEF IInv
        <3>2. pc[r] \in {"picked", "gate"} => admitted[r] = gate[target] \/ Retired(r)
            BY <2>5 DEF IInv, SelectedInv
        <3>3. pc[r] \in {"picked", "gate"} => Retired(r)
            BY <3>2, <2>2, <2>5 DEF Retired
        <3>4. QED
            BY <1>1, <3>1, <3>3, LaneGate DEF IInv, Admitted, TypeOK
    <2>6. QED
        BY <1>1, <2>1, <2>4, <2>5, LaneFrame DEF IInv
<1>2. ASSUME NEW h \in Heartbeats, Create(h) PROVE EraseInv'
    BY <1>2 DEF Create, IInv
<1>3. ASSUME NEW h \in Heartbeats, Add(h) PROVE EraseInv'
    BY <1>3 DEF Add, Lock, TypeOK, HandlerInv, IInv
<1>4. ASSUME NEW h \in Heartbeats, Pause(h) PROVE EraseInv'
    BY <1>4 DEF Pause, Lock, TypeOK, HandlerInv, IInv
<1>5. ASSUME NEW h \in Heartbeats, Resume(h) PROVE EraseInv'
    BY <1>5 DEF Resume, Lock, TypeOK, HandlerInv, IInv
<1>6. ASSUME NEW h \in Heartbeats, Delete(h) PROVE EraseInv'
    BY <1>6 DEF Delete, Lock, TypeOK, HandlerInv, IInv
<1>7. ASSUME NEW h \in Heartbeats, UpdateChecks(h) PROVE EraseInv'
    BY <1>7 DEF UpdateChecks, IInv
<1>8. ASSUME NEW h \in Heartbeats, RegisterNext(h) PROVE EraseInv'
    BY <1>8 DEF RegisterNext, Step, TypeOK, HandlerInv, IInv
<1>9. CASE Stop
    BY <1>9 DEF Stop, CancelTask, TypeOK, HandlerInv, IInv
<1>10. CASE Join
    BY <1>10 DEF Join, TypeOK, HandlerInv, IInv
<1>11. CASE Register
    BY <1>11 DEF Register, CancelTask, TypeOK, HandlerInv, IInv
<1>12. CASE Spawn
    BY <1>12 DEF Spawn, FreeLane, Step, TypeOK, HandlerInv, IInv
<1>13. CASE Unset
    BY <1>13 DEF Unset, Step, IInv
<1>14. CASE Return
    BY <1>14 DEF Return, IInv
<1>15. CASE Retire
    BY <1>15 DEF Retire, Step, TypeOK, HandlerInv, IInv
<1>16. CASE Erase
    BY <1>16 DEF Erase, Step, TypeOK, HandlerInv, IInv
<1>17. CASE EraseFails
    BY <1>17 DEF EraseFails, Step, TypeOK, HandlerInv, IInv
<1>18. CASE Reap
    BY <1>18 DEF Reap, Step, IInv
<1>19. CASE List
    BY <1>19 DEF List, Step, IInv
<1>20. CASE Started
    BY <1>20 DEF Started, Step, TypeOK, HandlerInv, IInv
<1>21. CASE Drain
    <2>1. \A r \in Lanes : r[1] = target => pc[r] \notin Admitted
        BY <1>21 DEF Drain, GateFree, IInv, SelectedInv
    <2>2. QED
        BY <1>21, <2>1 DEF Drain
<1>22. CASE Crash
    BY <1>22 DEF Crash, TypeOK, HandlerInv, IInv
<1>23. CASE UNCHANGED vars
    BY <1>23 DEF vars, IInv
<1>24. QED
    BY <1>1, <1>2, <1>3, <1>4, <1>5, <1>6, <1>7, <1>8, <1>9, <1>10, <1>11,
       <1>12, <1>13, <1>14, <1>15, <1>16, <1>17, <1>18, <1>19, <1>20, <1>21,
       <1>22, <1>23, LaneFacts DEF Next, LaneAct, Request, Handler

\* The DELETE finds no loop and no run, and nothing that is left is let in.
LEMMA DeletedStep == IInv /\ [Next]_vars => DeletedIsQuiet'
<1> SUFFICES ASSUME IInv, [Next]_vars PROVE DeletedIsQuiet'
    OBVIOUS
<1> USE DEF DeletedIsQuiet
<1>1. ASSUME NEW r \in Lanes, LaneAct(r) PROVE DeletedIsQuiet'
    <2>1. ASSUME NEW h \in Heartbeats, row[h] = "deleted"
          PROVE  /\ gate'[h] = 0
                 /\ r[1] = h => pc'[r] \in {"off", "picked", "gate"}
                 /\ r[1] = h /\ r \in Loops => pc'[r] = "off"
        <3>1. gate[h] = 0 /\ (r[1] = h => pc[r] \in {"off", "picked", "gate"}
                                        /\ (r \in Loops => pc[r] = "off"))
            BY <2>1 DEF IInv
        <3>2. CASE r[1] # h
            BY <1>1, <3>1, <3>2, <2>1, LaneGate, TakeGateFacts, LaneFacts
               DEF IInv
        <3>3. CASE r[1] = h /\ r \in Loops
            BY <1>1, <3>1, <3>3, LaneFrame, LaneFacts DEF IInv
        <3>4. CASE r[1] = h /\ r \notin Loops
            <4>1. ~LoopStep(r) \/ r \notin Loops
                BY <3>4
            <4>2. ~Trigger(r)
                BY <2>1, <3>4 DEF Trigger, Exists
            <4>3. RunStep(r) \/ Admission(r)
                BY <1>1, <3>4, <4>2 DEF LaneAct
            <4>4. gate'[h] = gate[h]
                BY <4>3
                   DEF RunStep, Admission, Queue, Load, Finish, Abort,
                       AcquireGate, AcquireGlobal
            <4>5. pc[r] = "gate" => Retired(r)
                BY <3>1, <3>4 DEF IInv, SelectedInv
            <4>6. pc'[r] \in {"off", "gate"}
                BY <4>3, <4>5, <3>1, <3>4
                   DEF RunStep, Admission, Queue, Load, Finish, Abort,
                       AcquireGate, AcquireGlobal, Goto, Unwelcome, IInv,
                       TypeOK
            <4>7. QED
                BY <3>1, <3>4, <4>4, <4>6
        <3>5. QED
            BY <3>2, <3>3, <3>4
    <2>2. QED
        BY <1>1, <2>1, LaneFrame DEF IInv
<1>2. ASSUME NEW h \in Heartbeats, Create(h) PROVE DeletedIsQuiet'
    BY <1>2 DEF Create, TypeOK, HandlerInv, Exists, IInv
<1>3. ASSUME NEW h \in Heartbeats, Add(h) PROVE DeletedIsQuiet'
    BY <1>3 DEF Add, Lock, TypeOK, HandlerInv, Exists, IInv
<1>4. ASSUME NEW h \in Heartbeats, Pause(h) PROVE DeletedIsQuiet'
    BY <1>4 DEF Pause, Lock, TypeOK, HandlerInv, Exists, IInv
<1>5. ASSUME NEW h \in Heartbeats, Resume(h) PROVE DeletedIsQuiet'
    BY <1>5 DEF Resume, Lock, TypeOK, HandlerInv, Exists, IInv
<1>6. ASSUME NEW h \in Heartbeats, Delete(h) PROVE DeletedIsQuiet'
    BY <1>6 DEF Delete, Lock, TypeOK, HandlerInv, Exists, IInv
<1>7. ASSUME NEW h \in Heartbeats, UpdateChecks(h) PROVE DeletedIsQuiet'
    BY <1>7 DEF UpdateChecks, IInv
<1>8. ASSUME NEW h \in Heartbeats, RegisterNext(h) PROVE DeletedIsQuiet'
    BY <1>8 DEF RegisterNext, Step, TypeOK, HandlerInv, Exists, IInv
<1>9. CASE Stop
    <2>1. UNCHANGED <<row, gate, pc>> /\ target \in Heartbeats
          /\ task' = [task EXCEPT ![target] = 0]
        BY <1>9 DEF Stop, CancelTask, IInv, TypeOK
    <2>2. QED
        BY <2>1 DEF IInv, TypeOK
<1>10. CASE Join
    BY <1>10 DEF Join, TypeOK, HandlerInv, Exists, IInv
<1>11. CASE Register
    <2>1. UNCHANGED <<row, gate, pc>> /\ target \in Heartbeats
          /\ task' = [task EXCEPT ![target] = 0]
        BY <1>11 DEF Register, CancelTask, IInv, TypeOK
    <2>2. QED
        BY <2>1 DEF IInv, TypeOK
<1>12. CASE Spawn
    <2>1. row[target] # "deleted" /\ target \in Heartbeats
        BY <1>12 DEF Spawn, Step, IInv, HandlerInv, TypeOK
    <2>2. <<target, FreeLane(target)>>[1] = target
        OBVIOUS
    <2>3. \A r \in Lanes : r[1] # target => pc'[r] = pc[r]
        BY <1>12, <2>2 DEF Spawn, IInv, TypeOK
    <2>4. \A h \in Heartbeats : h # target => task'[h] = task[h]
        BY <1>12 DEF Spawn, IInv, TypeOK
    <2>5. UNCHANGED <<row, gate>>
        BY <1>12 DEF Spawn
    <2>6. QED
        BY <2>1, <2>3, <2>4, <2>5 DEF IInv
<1>13. CASE Unset
    BY <1>13 DEF Unset, Step, IInv
<1>14. CASE Return
    BY <1>14 DEF Return, IInv
<1>15. CASE Retire
    <2>1. row[target] # "deleted" /\ target \in Heartbeats
        BY <1>15 DEF Retire, Step, IInv, HandlerInv, Exists, TypeOK
    <2>2. QED
        BY <1>15, <2>1 DEF Retire, IInv, TypeOK
<1>16. CASE Erase
    <2>1. /\ at = "erase" /\ target \in Heartbeats
          /\ task[target] = 0
          /\ \A r \in Lanes : r[1] = target => pc[r] \notin Admitted
        BY <1>16 DEF Erase, Step, IInv, EraseInv, TaskInv, TypeOK
    <2>2. \A r \in Loops : r[1] = target => pc[r] = "off"
        BY <2>1, LaneFacts DEF IInv, LoopsAreOwned
    <2>3. \A r \in Lanes : r[1] = target => pc[r] \in {"off", "picked", "gate"}
        BY <2>1, <2>2 DEF IInv, ManualNeverTicks, TypeOK, LanePc
    <2>4. UNCHANGED <<task, pc>>
          /\ gate' = [gate EXCEPT ![target] = 0]
          /\ row' = [row EXCEPT ![target] = "deleted"]
        BY <1>16 DEF Erase
    <2>5. QED
        BY <2>1, <2>2, <2>3, <2>4 DEF IInv, TypeOK
<1>17. CASE EraseFails
    BY <1>17 DEF EraseFails, Step, TypeOK, HandlerInv, Exists, IInv
<1>18. CASE Reap
    BY <1>18 DEF Reap, Step, IInv
<1>19. CASE List
    BY <1>19 DEF List, Step, IInv
<1>20. CASE Started
    BY <1>20 DEF Started, Step, TypeOK, HandlerInv, Exists, IInv
<1>21. CASE Drain
    BY <1>21 DEF Drain, Step, TypeOK, HandlerInv, Exists, IInv
<1>22. CASE Crash
    BY <1>22 DEF Crash, TypeOK, IInv
<1>23. CASE UNCHANGED vars
    BY <1>23 DEF vars, IInv
<1>24. QED
    BY <1>1, <1>2, <1>3, <1>4, <1>5, <1>6, <1>7, <1>8, <1>9, <1>10, <1>11,
       <1>12, <1>13, <1>14, <1>15, <1>16, <1>17, <1>18, <1>19, <1>20, <1>21,
       <1>22, <1>23, LaneFacts DEF Next, LaneAct, Request, Handler

\* Rows open and close with their runs; one left open has come through a gate.
LEMMA OpenStep == IInv /\ [Next]_vars => OpenInv'
<1> SUFFICES ASSUME IInv, [Next]_vars PROVE OpenInv'
    OBVIOUS
<1> USE DEF OpenInv
<1>1. ASSUME NEW r \in Lanes, LaneAct(r) PROVE OpenInv'
    <2>1. /\ \A k \in Heartbeats : gate'[k] <= made'[k]
          /\ \A k \in Heartbeats : made[k] <= made'[k]
          /\ \A k \in Heartbeats : made[k] \in Nat /\ made'[k] \in Nat
        <3>1. CASE UNCHANGED <<gate, made>>
            BY <3>1, HeartbeatAssumption DEF IInv, TypeOK
        <3>2. CASE TakeGate(r[1], r)
            <4>1. TypeOK /\ r[1] \in Heartbeats
                  /\ \A k \in Heartbeats : gate[k] <= made[k]
                BY LaneFacts DEF IInv
            <4>2. /\ \A k \in Heartbeats : gate'[k] <= made'[k]
                  /\ \A k \in Heartbeats : made[k] <= made'[k]
                  /\ made' \in [Heartbeats -> 0..MaxGates]
                BY <3>2, <4>1, TakeGateFacts
            <4>3. QED
                BY <4>1, <4>2, HeartbeatAssumption DEF TypeOK
        <3>3. QED
            BY <1>1, <3>1, <3>2, LaneGate DEF IInv
    <2>2. /\ r[1] \in Heartbeats /\ at' = at /\ unreaped' = unreaped
          /\ \A q \in Lanes : q # r => pc'[q] = pc[q]
          /\ pc[r] = "off" => r \in Manual
        BY <1>1, LaneFrame, LaneFacts DEF IInv
    <2>3. \A q \in Lanes : q # <<r[1], 0>> /\ q[1] \in Heartbeats
        BY LaneFacts DEF Lanes
    <2>4. \A q \in Lanes : q \in open' <=> pc'[q] = "checks"
        <3>1. CASE Load(r)
            BY <3>1, <2>2 DEF Load, Goto, AfterRun, IInv, TypeOK
        <3>2. CASE Finish(r)
            BY <3>2, <2>2 DEF Finish, Goto, AfterRun, IInv, TypeOK
        <3>3. CASE Abort(r)
            BY <3>3, <2>2, <2>3 DEF Abort, Goto, AfterRun, IInv, TypeOK
        <3>4. CASE ~Load(r) /\ ~Finish(r) /\ ~Abort(r)
            <4>1. open' = open /\ pc[r] # "checks" /\ pc'[r] # "checks"
                BY <1>1, <3>4
                   DEF LaneAct, LoopStep, Trigger, RunStep, Admission, Due,
                       StopWaiting, Advance, Select, GiveUp, Post, Queue,
                       AcquireGate, AcquireGlobal, Goto, IInv, TypeOK
            <4>2. QED
                BY <4>1, <2>2 DEF IInv
        <3>5. QED
            BY <3>1, <3>2, <3>3, <3>4
    <2>5. at # "reap"
        <3>1. SUFFICES ASSUME at = "reap" PROVE FALSE
            OBVIOUS
        <3>2. pc[r] = "off" /\ r \in Manual
            BY <3>1, <2>2 DEF IInv
        <3>3. holder = "start"
            BY <3>1 DEF IInv, HandlerInv
        <3>4. Trigger(r)
            BY <1>1, <3>2, LaneFacts
               DEF LaneAct, LoopStep, RunStep, Admission, Due, StopWaiting,
                   Advance, Select, GiveUp, Post, Queue, Load, Finish, Abort,
                   AcquireGate, AcquireGlobal, Goto
        <3>5. QED
            BY <3>3, <3>4 DEF Trigger
    <2>6. ASSUME NEW h \in Heartbeats, <<h, 0>> \in open'
          PROVE  <<h, 0>> \in open \/ (h = r[1] /\ made[h] > 0)
        <3>1. <<h, 0>> # r
            BY LaneFacts DEF Lanes
        <3>2. CASE Abort(r)
            <4>1. pc[r] = "checks"
                BY <3>2 DEF Abort, Goto
            <4>2. gate[r[1]] # 0
                BY <4>1 DEF IInv, SelectedInv, Admitted
            <4>3. made[r[1]] > 0
                BY <4>2, <2>2, HeartbeatAssumption DEF IInv, TypeOK
            <4>4. QED
                BY <2>6, <3>2, <4>3 DEF Abort
        <3>3. CASE ~Abort(r)
            BY <1>1, <2>6, <3>1, <3>3
               DEF LaneAct, LoopStep, Trigger, RunStep, Admission, Due,
                   StopWaiting, Advance, Select, GiveUp, Post, Queue, Load,
                   Finish, AcquireGate, AcquireGlobal
        <3>4. QED
            BY <3>2, <3>3
    <2>7. ~unreaped' => \A h \in Heartbeats : <<h, 0>> \in open' => made'[h] > 0
        <3>1. SUFFICES ASSUME NEW h \in Heartbeats, ~unreaped, <<h, 0>> \in open'
                       PROVE  made'[h] > 0
            BY <2>2
        <3>2. made[h] > 0
            BY <3>1, <2>5, <2>6 DEF IInv
        <3>3. QED
            BY <3>2, <2>1
    <2>8. QED
        BY <2>1, <2>2, <2>4, <2>5, <2>7
<1>2. ASSUME NEW h \in Heartbeats, Create(h) PROVE OpenInv'
    BY <1>2 DEF Create, IInv
<1>3. ASSUME NEW h \in Heartbeats, Add(h) PROVE OpenInv'
    BY <1>3 DEF Add, Lock, TypeOK, HandlerInv, IInv
<1>4. ASSUME NEW h \in Heartbeats, Pause(h) PROVE OpenInv'
    BY <1>4 DEF Pause, Lock, TypeOK, HandlerInv, IInv
<1>5. ASSUME NEW h \in Heartbeats, Resume(h) PROVE OpenInv'
    BY <1>5 DEF Resume, Lock, TypeOK, HandlerInv, IInv
<1>6. ASSUME NEW h \in Heartbeats, Delete(h) PROVE OpenInv'
    BY <1>6 DEF Delete, Lock, TypeOK, HandlerInv, IInv
<1>7. ASSUME NEW h \in Heartbeats, UpdateChecks(h) PROVE OpenInv'
    BY <1>7 DEF UpdateChecks, IInv
<1>8. ASSUME NEW h \in Heartbeats, RegisterNext(h) PROVE OpenInv'
    BY <1>8 DEF RegisterNext, Step, TypeOK, HandlerInv, IInv
<1>9. CASE Stop
    BY <1>9 DEF Stop, CancelTask, TypeOK, HandlerInv, IInv
<1>10. CASE Join
    BY <1>10 DEF Join, TypeOK, HandlerInv, IInv
<1>11. CASE Register
    BY <1>11 DEF Register, CancelTask, TypeOK, HandlerInv, IInv
<1>12. CASE Spawn
    <2>1. <<target, FreeLane(target)>> \in Lanes
        BY LaneFacts DEF FreeLane, IInv, TypeOK
    <2>2. \A r \in Lanes : pc'[r] = "checks" <=> pc[r] = "checks"
        BY <1>12, <2>1 DEF Spawn, IInv, TypeOK
    <2>3. UNCHANGED <<open, gate, made, unreaped>> /\ at # "reap" /\ at' # "reap"
        BY <1>12 DEF Spawn, Step
    <2>4. QED
        BY <2>2, <2>3 DEF IInv
<1>13. CASE Unset
    BY <1>13 DEF Unset, Step, IInv
<1>14. CASE Return
    BY <1>14 DEF Return, IInv
<1>15. CASE Retire
    <2>1. /\ \A h \in Heartbeats : gate'[h] <= made'[h] /\ made[h] <= made'[h]
          /\ \A h \in Heartbeats : made[h] \in Nat /\ made'[h] \in Nat
        BY <1>15, HeartbeatAssumption DEF Retire, IInv, TypeOK
    <2>2. QED
        BY <1>15, <2>1 DEF Retire, Step, IInv
<1>16. CASE Erase
    <2>1. \A r \in Lanes : r[1] = target => pc[r] # "checks"
        BY <1>16 DEF Erase, Step, IInv, EraseInv, Admitted
    <2>2. /\ UNCHANGED <<pc, made>> /\ at' # "reap"
          /\ at # "reap" /\ unreaped' = unreaped
          /\ open' = {r \in open : r[1] # target}
          /\ gate' = [gate EXCEPT ![target] = 0]
        BY <1>16 DEF Erase, Step
    <2>3. \A h \in Heartbeats : gate'[h] <= made[h]
        BY <2>2, HeartbeatAssumption DEF IInv, TypeOK
    <2>4. \A r \in Lanes : r \in open' <=> pc[r] = "checks"
        BY <2>1, <2>2 DEF IInv
    <2>5. QED
        BY <2>2, <2>3, <2>4 DEF IInv
<1>17. CASE EraseFails
    BY <1>17 DEF EraseFails, Step, IInv
<1>18. CASE Reap
    <2>1. /\ \A r \in Lanes : pc[r] = "off" /\ r \notin open
          /\ UNCHANGED <<pc, gate, made>> /\ at' # "reap"
          /\ open' \subseteq open /\ (open' = {} \/ unreaped')
        BY <1>18 DEF Reap, Step, IInv
    <2>2. QED
        BY <2>1 DEF IInv
<1>19. CASE List
    BY <1>19 DEF List, Step, IInv
<1>20. CASE Started
    BY <1>20 DEF Started, Step, TypeOK, HandlerInv, IInv
<1>21. CASE Drain
    BY <1>21 DEF Drain, Step, IInv
<1>22. CASE Crash
    <2>1. \A r \in Lanes : r[2] # 0
        BY DEF Lanes
    <2>2. \A r \in open' : r[2] = 0
        BY <1>22 DEF Crash
    <2>3. QED
        BY <1>22, <2>1, <2>2 DEF Crash, IInv
<1>23. CASE UNCHANGED vars
    BY <1>23 DEF vars, IInv
<1>24. QED
    BY <1>1, <1>2, <1>3, <1>4, <1>5, <1>6, <1>7, <1>8, <1>9, <1>10, <1>11,
       <1>12, <1>13, <1>14, <1>15, <1>16, <1>17, <1>18, <1>19, <1>20, <1>21,
       <1>22, <1>23, LaneFacts DEF Next, LaneAct, Request, Handler

\* A pause, or a registration that finds the row disabled, takes the next run back.
LEMMA DisabledStep == IInv /\ [Next]_vars => DisabledInv'
<1> SUFFICES ASSUME IInv, [Next]_vars PROVE DisabledInv'
    OBVIOUS
<1> USE DEF DisabledInv, Registering
<1>1. ASSUME NEW r \in Lanes, LaneAct(r) PROVE DisabledInv'
    <2>1. UNCHANGED <<row, at, target, crashes>>
        BY <1>1, LaneFrame DEF IInv
    <2>2. ASSUME NEW h \in Heartbeats, row[h] = "disabled", h \notin lost',
                 nextRun'[h], ~(h \notin lost /\ nextRun[h])
          PROVE  Registering(h)
        <3>1. r \in Loops /\ r[1] = h /\ pc[r] # "off"
            BY <1>1, <2>2
               DEF LaneAct, LoopStep, Trigger, RunStep, Admission, Due,
                   StopWaiting, Advance, Select, GiveUp, Post, Queue, Load,
                   Finish, Abort, AcquireGate, AcquireGlobal, Goto, IInv,
                   TypeOK
        <3>2. \/ task[h] = r[2] /\ r[2] # 0
              \/ at = "join" /\ r = <<target, joining>>
            BY <3>1, LaneFacts DEF IInv, LoopsAreOwned
        <3>3. CASE task[h] # 0
            BY <2>2, <3>3 DEF IInv, TaskInv
        <3>4. CASE at = "join" /\ r = <<target, joining>>
            <4>1. target = h
                BY <3>1, <3>4
            <4>2. QED
                BY <3>4, <4>1
        <3>5. QED
            BY <3>2, <3>3, <3>4
    <2>3. QED
        BY <2>1, <2>2 DEF IInv
<1>2. ASSUME NEW h \in Heartbeats, Create(h) PROVE DisabledInv'
    BY <1>2 DEF Create, TypeOK, HandlerInv, IInv
<1>3. ASSUME NEW h \in Heartbeats, Add(h) PROVE DisabledInv'
    BY <1>3 DEF Add, Lock, TypeOK, HandlerInv, IInv
<1>4. ASSUME NEW h \in Heartbeats, Pause(h) PROVE DisabledInv'
    BY <1>4 DEF Pause, Lock, TypeOK, HandlerInv, IInv
<1>5. ASSUME NEW h \in Heartbeats, Resume(h) PROVE DisabledInv'
    BY <1>5 DEF Resume, Lock, TypeOK, HandlerInv, IInv
<1>6. ASSUME NEW h \in Heartbeats, Delete(h) PROVE DisabledInv'
    BY <1>6 DEF Delete, Lock, TypeOK, HandlerInv, IInv
<1>7. ASSUME NEW h \in Heartbeats, UpdateChecks(h) PROVE DisabledInv'
    BY <1>7 DEF UpdateChecks, IInv
<1>8. ASSUME NEW h \in Heartbeats, RegisterNext(h) PROVE DisabledInv'
    BY <1>8 DEF RegisterNext, Step, TypeOK, HandlerInv, IInv
<1>9. CASE Stop
    BY <1>9 DEF Stop, CancelTask, TypeOK, HandlerInv, IInv
<1>10. CASE Join
    BY <1>10 DEF Join, TypeOK, HandlerInv, IInv
<1>11. CASE Register
    BY <1>11 DEF Register, CancelTask, TypeOK, HandlerInv, IInv
<1>12. CASE Spawn
    BY <1>12 DEF Spawn, FreeLane, Step, TypeOK, HandlerInv, IInv
<1>13. CASE Unset
    BY <1>13 DEF Unset, Step, TypeOK, HandlerInv, IInv
<1>14. CASE Return
    BY <1>14 DEF Return, TypeOK, HandlerInv, IInv
<1>15. CASE Retire
    BY <1>15 DEF Retire, Step, TypeOK, HandlerInv, IInv
<1>16. CASE Erase
    BY <1>16 DEF Erase, Step, TypeOK, HandlerInv, IInv
<1>17. CASE EraseFails
    BY <1>17 DEF EraseFails, Step, TypeOK, HandlerInv, IInv
<1>18. CASE Reap
    BY <1>18 DEF Reap, Step, IInv
<1>19. CASE List
    BY <1>19 DEF List, Step, IInv
<1>20. CASE Started
    BY <1>20 DEF Started, Step, TypeOK, HandlerInv, IInv
<1>21. CASE Drain
    BY <1>21 DEF Drain, Step, TypeOK, HandlerInv, IInv
<1>22. CASE Crash
    BY <1>22 DEF Crash, TypeOK, HandlerInv, IInv
<1>23. CASE UNCHANGED vars
    BY <1>23 DEF vars, IInv
<1>24. QED
    BY <1>1, <1>2, <1>3, <1>4, <1>5, <1>6, <1>7, <1>8, <1>9, <1>10, <1>11,
       <1>12, <1>13, <1>14, <1>15, <1>16, <1>17, <1>18, <1>19, <1>20, <1>21,
       <1>22, <1>23, LaneFacts DEF Next, LaneAct, Request, Handler

\* An enabled heartbeat loses its loop only to a handler that will register it.
LEMMA EnabledStep == IInv /\ [Next]_vars => EnabledInv'
<1> SUFFICES ASSUME IInv, [Next]_vars PROVE EnabledInv'
    OBVIOUS
<1> USE DEF EnabledInv, Registering, Unstarted
<1>1. ASSUME NEW r \in Lanes, LaneAct(r) PROVE EnabledInv'
    <2>1. /\ UNCHANGED <<row, at, target, todo, pending, task>>
          /\ \A q \in Lanes : q # r => pc'[q] = pc[q]
        BY <1>1, LaneFrame DEF IInv
    <2>2. lost \subseteq lost' /\ \A k \in Heartbeats : nextRun[k] => nextRun'[k]
        BY <1>1
           DEF LaneAct, LoopStep, Trigger, RunStep, Admission, Due,
               StopWaiting, Advance, Select, GiveUp, Post, Queue, Load, Finish,
               Abort, AcquireGate, AcquireGlobal, IInv, TypeOK
    <2>3. ASSUME NEW h \in Heartbeats, row[h] = "enabled", task[h] # 0,
                 pc[<<h, task[h]>>] # "off", h \notin lost', ~Registering(h)
          PROVE  pc'[<<h, task[h]>>] # "off"
        <3>1. <<h, task[h]>> \in Loops /\ <<h, task[h]>> \in Lanes
            <4>1. task[h] \in {1, 2}
                BY <2>3 DEF IInv, TypeOK
            <4>2. QED
                BY <4>1, LaneFacts
        <3>2. CASE r # <<h, task[h]>>
            BY <2>1, <2>3, <3>1, <3>2
        <3>3. CASE r = <<h, task[h]>>
            <4>1. r \notin cancelled /\ r[1] = h
                BY <2>3, <3>3 DEF IInv, TaskInv
            <4>2. ~Retired(r)
                BY <2>3, <4>1
                   DEF Retired, IInv, RetireInv, Retiring, TypeOK, Gates
            <4>3. r \in Loops /\ pc[r] # "off"
                BY <2>3, <3>1, <3>3
            <4>4. pc'[r] # "off"
                BY <1>1, <2>3, <4>1, <4>2, <4>3, LaneFacts
                   DEF LaneAct, LoopStep, Trigger, RunStep, Admission, Due,
                       StopWaiting, Advance, Select, GiveUp, Post, Queue, Load,
                       Finish, Abort, AcquireGate, AcquireGlobal, Goto,
                       Unwelcome, AfterRun, IInv, TypeOK
            <4>5. QED
                BY <3>3, <4>4
        <3>4. QED
            BY <3>2, <3>3
    <2>4. QED
        BY <2>1, <2>2, <2>3 DEF IInv
<1>2. ASSUME NEW h \in Heartbeats, Create(h) PROVE EnabledInv'
    BY <1>2 DEF Create, TypeOK, HandlerInv, IInv
<1>3. ASSUME NEW h \in Heartbeats, Add(h) PROVE EnabledInv'
    BY <1>3 DEF Add, Lock, TypeOK, HandlerInv, IInv
<1>4. ASSUME NEW h \in Heartbeats, Pause(h) PROVE EnabledInv'
    BY <1>4 DEF Pause, Lock, TypeOK, HandlerInv, IInv
<1>5. ASSUME NEW h \in Heartbeats, Resume(h) PROVE EnabledInv'
    BY <1>5 DEF Resume, Lock, TypeOK, HandlerInv, IInv
<1>6. ASSUME NEW h \in Heartbeats, Delete(h) PROVE EnabledInv'
    BY <1>6 DEF Delete, Lock, TypeOK, HandlerInv, IInv
<1>7. ASSUME NEW h \in Heartbeats, UpdateChecks(h) PROVE EnabledInv'
    BY <1>7 DEF UpdateChecks, IInv
<1>8. ASSUME NEW h \in Heartbeats, RegisterNext(h) PROVE EnabledInv'
    BY <1>8 DEF RegisterNext, Step, TypeOK, HandlerInv, IInv
<1>9. CASE Stop
    <2>1. UNCHANGED <<row, nextRun, pc, todo, pending, lost, target>>
          /\ task' = [task EXCEPT ![target] = 0]
          /\ at = "stop"
          /\ (row[target] = "enabled" => at' \in {"join", "spawn", "unset", "drain"})
        BY <1>9 DEF Stop, CancelTask
    <2>2. \A h \in Heartbeats : h # target => task'[h] = task[h]
        BY <2>1 DEF IInv, TypeOK
    <2>3. ASSUME NEW h \in Heartbeats, row[h] = "enabled", h \notin pending \cup lost
          PROVE  \/ Registering(h)' \/ Unstarted(h)'
                 \/ (task[h] # 0 /\ pc[<<h, task[h]>>] # "off" /\ nextRun[h])'
        <3>1. CASE h = target
            BY <2>1, <2>3, <3>1
        <3>2. CASE h # target
            BY <2>1, <2>2, <2>3, <3>2 DEF IInv
        <3>3. QED
            BY <3>1, <3>2
    <2>4. QED
        BY <2>1, <2>3
<1>10. CASE Join
    BY <1>10 DEF Join, TypeOK, HandlerInv, IInv
<1>11. CASE Register
    <2>1. UNCHANGED <<row, nextRun, pc, todo, pending, lost, target>>
          /\ task' = [task EXCEPT ![target] = 0]
          /\ at = "register"
          /\ (row[target] = "enabled" => at' \in {"join", "spawn", "unset", "drain"})
        BY <1>11 DEF Register, CancelTask
    <2>2. \A h \in Heartbeats : h # target => task'[h] = task[h]
        BY <2>1 DEF IInv, TypeOK
    <2>3. ASSUME NEW h \in Heartbeats, row[h] = "enabled", h \notin pending \cup lost
          PROVE  \/ Registering(h)' \/ Unstarted(h)'
                 \/ (task[h] # 0 /\ pc[<<h, task[h]>>] # "off" /\ nextRun[h])'
        <3>1. CASE h = target
            BY <2>1, <2>3, <3>1
        <3>2. CASE h # target
            BY <2>1, <2>2, <2>3, <3>2 DEF IInv
        <3>3. QED
            BY <3>1, <3>2
    <2>4. QED
        BY <2>1, <2>3
<1>12. CASE Spawn
    <2>1. <<target, FreeLane(target)>> \in Lanes /\ FreeLane(target) \in {1, 2}
          /\ target \in Heartbeats
        BY LaneFacts DEF FreeLane, IInv, TypeOK
    <2>2. \A k \in Heartbeats : k # target =>
             /\ task'[k] = task[k] /\ nextRun'[k] = nextRun[k]
             /\ k \in lost' <=> k \in lost
        BY <1>12 DEF Spawn, IInv, TypeOK
    <2>3. \A q \in Lanes : pc[q] # "off" => pc'[q] # "off"
        BY <1>12, <2>1 DEF Spawn, IInv, TypeOK
    <2>4. target \notin lost' => /\ task'[target] = FreeLane(target)
                                 /\ pc'[<<target, FreeLane(target)>>] = "wait"
                                 /\ nextRun'[target]
        BY <1>12, <2>1 DEF Spawn, IInv, TypeOK
    <2>5. \A k \in Heartbeats : task[k] # 0 => <<k, task[k]>> \in Lanes
        <3>1. \A k \in Heartbeats : task[k] # 0 => task[k] \in {1, 2}
            BY DEF IInv, TypeOK
        <3>2. QED
            BY <3>1, LaneFacts
    <2>6. UNCHANGED <<row, todo, pending, target>> /\ at = "spawn" /\ at' = "return"
        BY <1>12 DEF Spawn, Step
    <2>7. QED
        BY <2>1, <2>2, <2>3, <2>4, <2>5, <2>6 DEF IInv
<1>13. CASE Unset
    BY <1>13 DEF Unset, Step, TypeOK, HandlerInv, IInv
<1>14. CASE Return
    BY <1>14 DEF Return, TypeOK, HandlerInv, IInv
<1>15. CASE Retire
    BY <1>15 DEF Retire, Step, TypeOK, HandlerInv, IInv
<1>16. CASE Erase
    BY <1>16 DEF Erase, Step, TypeOK, HandlerInv, IInv
<1>17. CASE EraseFails
    BY <1>17 DEF EraseFails, Step, TypeOK, HandlerInv, IInv
<1>18. CASE Reap
    BY <1>18 DEF Reap, Step, TypeOK, HandlerInv, IInv
<1>19. CASE List
    BY <1>19 DEF List, Step, TypeOK, HandlerInv, IInv
<1>20. CASE Started
    BY <1>20 DEF Started, Step, TypeOK, HandlerInv, IInv
<1>21. CASE Drain
    BY <1>21 DEF Drain, Step, TypeOK, HandlerInv, IInv
<1>22. CASE Crash
    BY <1>22 DEF Crash, TypeOK, HandlerInv, IInv
<1>23. CASE UNCHANGED vars
    BY <1>23 DEF vars, IInv
<1>24. QED
    BY <1>1, <1>2, <1>3, <1>4, <1>5, <1>6, <1>7, <1>8, <1>9, <1>10, <1>11,
       <1>12, <1>13, <1>14, <1>15, <1>16, <1>17, <1>18, <1>19, <1>20, <1>21,
       <1>22, <1>23, LaneFacts DEF Next, LaneAct, Request, Handler

\* The first state: nothing is made and nobody is under way.
LEMMA IInvInit == Init => IInv
<1> SUFFICES ASSUME Init PROVE IInv
    OBVIOUS
<1>1. TypeOK /\ HandlerInv /\ TaskInv /\ RetireInv /\ EraseInv
    BY TypeInit DEF Init, HandlerInv, TaskInv, RetireInv, EraseInv, Retiring
<1>2. LoopsAreOwned /\ ManualNeverTicks /\ SelectedInv /\ OneAdmitted
    BY LaneFacts
       DEF Init, LoopsAreOwned, ManualNeverTicks, SelectedInv, OneAdmitted,
           Admitted
<1>3. AwaitedIsCancelled /\ DeletedIsQuiet
    BY DEF Init, AwaitedIsCancelled, DeletedIsQuiet
<1>4. DisabledInv /\ EnabledInv /\ OpenInv
    BY DEF Init, DisabledInv, EnabledInv, OpenInv
<1>5. QED
    BY <1>1, <1>2, <1>3, <1>4 DEF IInv

\* Every step keeps the whole of it.
LEMMA IInvStep == IInv /\ [Next]_vars => IInv'
<1> SUFFICES ASSUME IInv, [Next]_vars PROVE IInv'
    OBVIOUS
<1>1. TypeOK'
    BY TypeStep DEF IInv
<1>2. QED
    BY <1>1, HandlerStep, TaskStep, OwnedStep, ManualStep, AwaitedStep,
       SelectedStep, AdmittedStep, RetireStep, EraseStep, DeletedStep,
       DisabledStep, EnabledStep, OpenStep DEF IInv

\* The invariant holds in every state of every behaviour.
THEOREM Invariance == Spec => []IInv
BY IInvInit, IInvStep, PTL DEF Spec

-----------------------------------------------------------------------------
(* What the runs check on small instances *)

\* Two runs of one heartbeat never overlap, however many clicks and handlers.
THEOREM NoOverlap == Spec => []RunsNeverOverlap
<1>1. IInv => RunsNeverOverlap
    BY DEF IInv, OneAdmitted, RunsNeverOverlap, Admitted, Running
<1>2. QED
    BY <1>1, Invariance, PTL

\* A deleted heartbeat has no loop, no run and no gate.
THEOREM QuietAfterDelete == Spec => []DeletedIsQuiet
<1>1. IInv => DeletedIsQuiet
    BY DEF IInv
<1>2. QED
    BY <1>1, Invariance, PTL

\* A paused heartbeat has no loop, and no next run unless a write was lost.
THEOREM QuietAfterPause == Spec => []PausedIsQuiet
<1>1. IInv => PausedIsQuiet
    <2> SUFFICES ASSUME IInv, NEW h \in Heartbeats, row[h] = "disabled",
                        holder = "idle"
                 PROVE  /\ \A r \in Loops : r[1] = h => pc[r] = "off"
                        /\ crashes = 0 /\ h \notin lost => ~nextRun[h]
        BY DEF PausedIsQuiet
    <2>1. at = "return"
        BY DEF IInv, HandlerInv
    <2>2. task[h] = 0
        BY <2>1 DEF IInv, TaskInv
    <2>3. \A r \in Loops : r[1] = h => pc[r] = "off"
        BY <2>1, <2>2, LaneFacts DEF IInv, LoopsAreOwned
    <2>4. crashes = 0 /\ h \notin lost => ~nextRun[h]
        BY <2>1 DEF IInv, DisabledInv, Registering
    <2>5. QED
        BY <2>3, <2>4
<1>2. QED
    BY <1>1, Invariance, PTL

\* An enabled heartbeat has its loop and its next run while no handler works.
THEOREM ScheduledWhenEnabled == Spec => []EnabledIsScheduled
<1>1. IInv => EnabledIsScheduled
    BY DEF IInv, EnabledInv, HandlerInv, TaskInv, Registering, Unstarted,
       EnabledIsScheduled
<1>2. QED
    BY <1>1, Invariance, PTL

\* No loop is out of the reach of pause and delete.
THEOREM OwnedLoops == Spec => []LoopsAreOwned
<1>1. IInv => LoopsAreOwned
    BY DEF IInv
<1>2. QED
    BY <1>1, Invariance, PTL

\* No handler awaits a loop that has not been told to stop.
THEOREM CancelledBeforeAwait == Spec => []AwaitedIsCancelled
<1>1. IInv => AwaitedIsCancelled
    BY DEF IInv
<1>2. QED
    BY <1>1, Invariance, PTL

\* A run in flight has its execution row and a finished one has closed its own,
\* except for rows left behind by this process, or by older ones if start could
\* not reap.
THEOREM RowsFitRuns == Spec => []ExecutionsFitRuns
<1>1. IInv => ExecutionsFitRuns
    BY DEF IInv, HandlerInv, OpenInv, ExecutionsFitRuns
<1>2. QED
    BY <1>1, Invariance, PTL
=============================================================================
