----------------------------- MODULE FanoutProofs -----------------------------
(* Proofs about Fanout for every number of members, permits and attempts. *)
EXTENDS Fanout, FiniteSetTheorems, TLAPS

-----------------------------------------------------------------------------
(* Slots *)

\* A slot is a device and an attempt, and is the pair of them.
LEMMA SlotPair ==
    \A s \in Slots : s[1] \in Devices /\ s[2] \in Attempts /\ s = <<s[1], s[2]>>
BY DEF Slots

\* Every member has a first attempt.
LEMMA FirstSlot ==
    \A d \in Devices : <<d, 1>> \in Slots
BY FanoutAssumption DEF Slots, Attempts

\* Every device and attempt make a slot, and so does the attempt before.
LEMMA AnySlot ==
    /\ \A d \in Devices, a \in Attempts : <<d, a>> \in Slots
    /\ \A a \in Attempts : a > 1 => a - 1 \in Attempts
BY FanoutAssumption DEF Slots, Attempts

\* The first attempts are the slots numbered 1.
LEMMA InitialSlot == \A s \in Slots : s[2] = 1 <=> s \in Initial
BY DEF Slots, Initial

\* finalize_run writes one of the four verdicts.
LEMMA RollUpVerdict ==
    \A s, f, c \in Nat : RollUp(s, f, c) \in RunVerdict
BY DEF RollUp, RunVerdict

-----------------------------------------------------------------------------
(* Types *)

USE DEF persistent, spawning, driving, tokens, process


\* Types, and where spawn_run and drive stand to each other: drive exists
\* once spawn_run spawned it, waits for a permit only on behalf of a member,
\* and closes the run with a verdict; a handle has a token for every device.
TypeInv ==
    /\ TypeOK
    /\ runStatus = "none" => spawner = "idle"
    /\ spawner \in {"idle", "blocking", "launching"} => drive = "off"
    /\ drive = "acquire" => next \in Devices
    /\ drive = "roll" => verdict \in RunVerdict
    /\ registered \/ spawner = "registering" =>
           \A d \in Devices : armed[d] \in Attempts

\* The first state is well typed: no run and no task.
LEMMA TypeInit == Init => TypeInv
<1> SUFFICES ASSUME Init PROVE TypeInv
    OBVIOUS
<1>1. /\ row \in [Slots -> RowStatus]
      /\ pc \in [Slots -> TaskPc]
      /\ armed \in [Devices -> 0..MaxAttempt]
    BY FanoutAssumption DEF Init, RowStatus, TaskPc
<1>2. counters \in [success : Nat, failed : Nat, cancelled : Nat]
    BY DEF Init, NoCounts
<1>3. next \in 1..N + 1 /\ crashes \in 0..MaxCrashes
    BY FanoutAssumption DEF Init
<1>4. QED
    BY <1>1, <1>2, <1>3 DEF Init, TypeInv, TypeOK, RunStatus

\* Every action keeps every variable in its domain.
LEMMA TypeStep == TypeInv /\ [Next]_vars => TypeInv'
<1> SUFFICES ASSUME TypeInv, [Next]_vars PROVE TypeInv'
    OBVIOUS
<1> USE DEF TypeInv, TypeOK
<1>1. ASSUME NEW refuse \in BOOLEAN, StartRun(refuse) PROVE TypeInv'
    BY <1>1 DEF StartRun, RowStatus, RunStatus, Open
<1>2. CASE BlockMember
    <2>1. next \in Devices /\ <<next, 1>> \in Slots
        BY <1>2, FanoutAssumption, FirstSlot DEF BlockMember, Devices
    <2>2. row' \in [Slots -> RowStatus]
        BY <1>2, <2>1 DEF BlockMember, RowStatus, Settled
    <2>3. next' \in 1..N + 1
        BY <1>2, <2>1, FanoutAssumption DEF BlockMember, Devices
    <2>4. QED
        BY <1>2, <2>2, <2>3 DEF BlockMember
<1>3. CASE BlockRun
    <2>1. RollUp(0, N, 0) \in RunVerdict
        BY FanoutAssumption, RollUpVerdict
    <2>2. QED
        BY <1>3, <2>1 DEF BlockRun, RunStatus, RunVerdict
<1>4. CASE Launch
    BY <1>4, FanoutAssumption DEF Launch, NoCounts, Attempts
<1>5. CASE Register
    BY <1>5 DEF Register
<1>6. CASE DriveCheck
    BY <1>6, FanoutAssumption DEF DriveCheck, Devices
<1>7. CASE DriveDispatch
    <2>1. pc' \in [Slots -> TaskPc]
        BY <1>7, FirstSlot DEF DriveDispatch, TaskPc, Permitted
    <2>2. next' \in 1..N + 1
        BY <1>7, FanoutAssumption DEF DriveDispatch, Devices
    <2>3. QED
        BY <1>7, <2>1, <2>2 DEF DriveDispatch
<1>8. CASE DriveJoin
    BY <1>8, RollUpVerdict DEF DriveJoin
<1>9. CASE DriveRoll
    BY <1>9 DEF DriveRoll, RunStatus, RunVerdict
<1>10. ASSUME NEW s \in Slots, RunOne(s) PROVE TypeInv'
    <2> USE DEF Goto, Settle, RowStatus, Open, Settled, Retryable, TaskPc,
                Permitted, Worked, Tallying
    <2>1. CASE Begin(s)
        BY <2>1 DEF Begin
    <2>2. CASE CredsMissing(s)
        BY <2>2 DEF CredsMissing
    <2>3. CASE Connect(s)
        BY <2>3 DEF Connect
    <2>4. CASE CancelTaken(s)
        BY <2>4 DEF CancelTaken
    <2>5. CASE WorkerError(s)
        BY <2>5 DEF WorkerError
    <2>6. CASE WorkerOutput(s)
        BY <2>6 DEF WorkerOutput
    <2>7. CASE Succeed(s)
        BY <2>7 DEF Succeed
    <2>8. CASE Tally(s)
        <3>1. counters' \in [success : Nat, failed : Nat, cancelled : Nat]
            BY <2>8 DEF Tally, CounterOf
        <3>2. QED
            BY <2>8, <3>1 DEF Tally
    <2>9. QED
        BY <1>10, <2>1, <2>2, <2>3, <2>4, <2>5, <2>6, <2>7, <2>8 DEF RunOne
<1>11. ASSUME NEW s \in Slots, RetryInsert(s) PROVE TypeInv'
    BY <1>11 DEF RetryInsert, RowStatus, Open, TaskPc, Retrying
<1>12. ASSUME NEW s \in Slots, Retry(s) PROVE TypeInv'
    <2>1. CASE RetryReopen(s)
        BY <2>1 DEF RetryReopen, Goto, TaskPc, Retrying, RunStatus
    <2>2. CASE RetryArm(s)
        BY <2>2, SlotPair, FanoutAssumption
           DEF RetryArm, Goto, TaskPc, Retrying, Attempts
    <2>3. CASE RetryDispatch(s)
        BY <2>3 DEF RetryDispatch, Goto, TaskPc, Permitted
    <2>4. QED
        BY <1>12, <2>1, <2>2, <2>3 DEF Retry
<1>13. ASSUME NEW d \in Devices, CancelDevice(d) PROVE TypeInv'
    BY <1>13 DEF CancelDevice, Slots
<1>14. CASE CancelRun
    BY <1>14 DEF CancelRun
<1>15. CASE Crash
    <2>1. counters' \in [success : Nat, failed : Nat, cancelled : Nat]
        BY <1>15 DEF Crash, NoCounts
    <2>2. pc' \in [Slots -> TaskPc]
        BY <1>15 DEF Crash, TaskPc
    <2>3. armed' \in [Devices -> 0..MaxAttempt]
        BY <1>15, FanoutAssumption DEF Crash
    <2>4. next' \in 1..N + 1 /\ crashes' \in 0..MaxCrashes
        BY <1>15, FanoutAssumption DEF Crash
    <2>5. QED
        BY <1>15, <2>1, <2>2, <2>3, <2>4 DEF Crash
<1>16. CASE SweepRows
    BY <1>16 DEF SweepRows, RowStatus, Settled, Retryable
<1>17. CASE SweepRun
    BY <1>17 DEF SweepRun, RunStatus, RunVerdict
<1>18. CASE SweepNothing
    BY <1>18 DEF SweepNothing
<1>19. CASE UNCHANGED vars
    BY <1>19 DEF vars
<1>20. QED
    BY <1>1, <1>2, <1>3, <1>4, <1>5, <1>6, <1>7, <1>8, <1>9, <1>10, <1>11,
       <1>12, <1>13, <1>14, <1>15, <1>16, <1>17, <1>18, <1>19
       DEF Next, Spawner, Driver, Boot

\* TypeOK is an invariant for every number of members, permits and attempts:
\* statuses, program counters and the cursor of drive stay in their domains.
THEOREM TypeCorrect == Spec => []TypeOK
<1>1. Spec => []TypeInv
    BY TypeInit, TypeStep, PTL DEF Spec
<1>2. TypeInv => TypeOK
    BY DEF TypeInv
<1>3. QED
    BY <1>1, <1>2, PTL

-----------------------------------------------------------------------------
(* The inductive invariant *)

Quiet == \A s \in Slots : pc[s] = "none"

\* The task of a slot and what it left in the tables.
TaskInv ==
    /\ RowTracksTask
    /\ SuccessHasOutput
    /\ \A s \in Slots : pc[s] = "stored" => s \in blocks
    /\ \A s \in Slots : pc[s] \in Retrying => s[2] > 1

\* No task before the run, in a dead process or before spawn_run launched it.
SpawnInv ==
    /\ runStatus = "none" =>
           Quiet /\ next = 1 /\ \A s \in Slots : row[s] = "none"
    /\ proc # "up" =>
           Quiet /\ spawner = "idle" /\ drive = "off" /\ crashes > 0
    /\ proc = "sweeping" =>
           runStatus = "running" /\ \A s \in Slots : row[s] \notin Open
    /\ spawner \in {"blocking", "launching"} =>
           /\ Quiet
           /\ runStatus = "running"
           /\ \A s \in Slots : s[2] > 1 => row[s] = "none"
    /\ spawner = "launching" => \A s \in Slots : s[2] = 1 => row[s] = "pending"
    /\ spawner = "blocking" =>
           \A s \in Slots : s[2] = 1 =>
               row[s] = IF s[1] < next THEN "blocked_by_guardrail"
                                       ELSE "pending"

\* A first attempt drive has not reached is untouched; drive leaves the join
\* with every first attempt over, and only drive closes the run.
DriveInv ==
    /\ drive # "off" =>
           \A s \in Slots : s[2] = 1 /\ pc[s] = "none" => row[s] = "pending"
    /\ drive \in {"check", "acquire"} =>
           \A s \in Slots : s[2] = 1 /\ s[1] >= next => pc[s] = "none"
    /\ drive \in {"roll", "done"} =>
           \A s \in Slots : s[2] = 1 => pc[s] \in {"none", "done"}
    /\ drive \in {"check", "acquire", "join", "roll"} => runStatus = "running"

\* A counter is positive once an attempt with that outcome has ended.
CountInv ==
    \A s \in Slots : pc[s] = "done" =>
        /\ row[s] = "success" => counters.success > 0
        /\ row[s] \in {"failed", "timeout"} => counters.failed > 0
        /\ row[s] = "cancelled" => counters.cancelled > 0

\* What drive is about to write is borne out by the first attempts.
VerdictInv == drive = "roll" => Ledger!Honest(verdict)

\* A closed run has no first attempt under way.
ClosedInv ==
    runStatus \in RunVerdict =>
        /\ spawner \notin {"blocking", "launching"}
        /\ drive \in {"off", "done"}
        /\ \A s \in Initial : pc[s] \in {"none", "done"}

\* Nothing but the refusal itself happens to a refused run before a crash.
RefusedInv ==
    refused /\ crashes = 0 =>
        /\ Quiet
        /\ spawner \in {"blocking", "returned"}
        /\ drive = "off"
        /\ \A s \in Slots :
               row[s] \in {"none", "pending", "blocked_by_guardrail"}

IInv ==
    /\ TypeInv
    /\ TaskInv
    /\ SpawnInv
    /\ DriveInv
    /\ AttemptsAreDense
    /\ CountInv
    /\ VerdictInv
    /\ ClosedInv
    /\ VerdictIsHonest
    /\ RefusedInv

\* A retry is a new row behind an existing one of the same device, and is
\* offered only where an earlier attempt failed, timed out or was cancelled.
LEMMA RetryFacts ==
    ASSUME TypeInv, NEW s \in Slots, RetryInsert(s)
    PROVE  /\ row[s] = "none"
           /\ s[2] > 1
           /\ <<s[1], s[2] - 1>> \in Slots
           /\ row[<<s[1], s[2] - 1>>] # "none"
           /\ \E a \in Attempts :
                  /\ <<s[1], a>> \in Slots
                  /\ a < s[2]
                  /\ row[<<s[1], a>>] \in Retryable
<1>1. PICK a \in Attempts : row[<<s[1], a>>] \in Retryable
    BY DEF RetryInsert, Offered
<1>2. a < s[2] /\ a \in Nat /\ a > 0 /\ s[2] \in Attempts
    BY <1>1, SlotPair DEF RetryInsert, IsNextAttempt, Retryable, Attempts
<1>3. row[s] = "none"
    BY SlotPair DEF RetryInsert, IsNextAttempt, Attempts
<1>4. <<s[1], a>> \in Slots
    BY SlotPair DEF Slots
<1>5. <<s[1], s[2] - 1>> \in Slots
    BY <1>2, SlotPair, FanoutAssumption DEF Slots, Attempts
<1>6. QED
    BY <1>1, <1>2, <1>3, <1>4, <1>5 DEF RetryInsert, IsNextAttempt, Attempts

\* What inserting a retry changes, and what it finds: the run is there, its
\* process serves commands, and spawn_run is past its member loops.
LEMMA RetryFrame ==
    ASSUME TypeInv, SpawnInv, NEW s \in Slots, RetryInsert(s)
    PROVE  /\ row'[s] = "pending" /\ pc'[s] = "inserted"
           /\ \A t \in Slots : t # s => row'[t] = row[t] /\ pc'[t] = pc[t]
           /\ s[2] # 1 /\ s \notin Initial
           /\ proc = "up" /\ runStatus # "none"
           /\ spawner \notin {"blocking", "launching"}
           /\ UNCHANGED <<runStatus, blocks, spawning, driving, tokens, process,
                          counters>>
<1>1. PICK a \in Attempts :
          <<s[1], a>> \in Slots /\ a < s[2] /\ row[<<s[1], a>>] \in Retryable
    BY RetryFacts
<1>2. runStatus # "none"
    BY <1>1 DEF SpawnInv, Retryable
<1>3. spawner \notin {"blocking", "launching"}
    <2>1. <<s[1], a>>[2] = 1 \/ <<s[1], a>>[2] > 1
        BY <1>1 DEF Attempts
    <2>2. row[<<s[1], a>>] \notin {"none", "pending", "blocked_by_guardrail"}
        BY <1>1 DEF Retryable
    <2>3. QED
        BY <1>1, <2>1, <2>2 DEF SpawnInv
<1>4. s[2] # 1 /\ s \notin Initial
    <2>1. s[2] > 1 /\ s[2] \in Attempts
        BY RetryFacts, SlotPair
    <2>2. s[2] # 1
        BY <2>1 DEF Attempts
    <2>3. QED
        BY <2>2, InitialSlot
<1>5. QED
    BY <1>2, <1>3, <1>4 DEF RetryInsert, TypeInv, TypeOK

\* Rows follow tasks: no step writes under a task that is still alive.
LEMMA TaskStep == IInv /\ [Next]_vars => TaskInv'
<1> SUFFICES ASSUME TypeInv, TaskInv, SpawnInv, DriveInv,
                    [Next]_vars
             PROVE  TaskInv'
    BY DEF IInv
<1> USE SlotPair, FirstSlot DEF TypeInv, TypeOK, TaskInv, SpawnInv, DriveInv, Quiet, RowTracksTask, SuccessHasOutput, Open, Settled, Retryable, Worked, Tallying, Permitted, Retrying, IsNextAttempt, Offered, Devices, Attempts
<1>1. ASSUME NEW refuse \in BOOLEAN, StartRun(refuse) PROVE TaskInv'
    BY <1>1 DEF StartRun
<1>2. CASE BlockMember
    BY <1>2 DEF BlockMember
<1>3. CASE BlockRun
    BY <1>3 DEF BlockRun
<1>4. CASE Launch
    BY <1>4 DEF Launch
<1>5. CASE Register
    BY <1>5 DEF Register
<1>6. CASE DriveCheck
    BY <1>6 DEF DriveCheck
<1>7. CASE DriveDispatch
    BY <1>7 DEF DriveDispatch
<1>8. CASE DriveJoin
    BY <1>8 DEF DriveJoin
<1>9. CASE DriveRoll
    BY <1>9 DEF DriveRoll
<1>10. ASSUME NEW s \in Slots, Begin(s) PROVE TaskInv'
    BY <1>10 DEF Begin, Goto, Settle
<1>11. ASSUME NEW s \in Slots, CredsMissing(s) PROVE TaskInv'
    BY <1>11 DEF CredsMissing, Goto, Settle
<1>12. ASSUME NEW s \in Slots, Connect(s) PROVE TaskInv'
    BY <1>12 DEF Connect, Goto
<1>13. ASSUME NEW s \in Slots, CancelTaken(s) PROVE TaskInv'
    BY <1>13 DEF CancelTaken, Goto, Settle
<1>14. ASSUME NEW s \in Slots, WorkerError(s) PROVE TaskInv'
    BY <1>14 DEF WorkerError, Goto, Settle
<1>15. ASSUME NEW s \in Slots, WorkerOutput(s) PROVE TaskInv'
    BY <1>15 DEF WorkerOutput, Goto
<1>16. ASSUME NEW s \in Slots, Succeed(s) PROVE TaskInv'
    BY <1>16 DEF Succeed, Goto, Settle
<1>17. ASSUME NEW s \in Slots, Tally(s) PROVE TaskInv'
    BY <1>17 DEF Tally
<1>18. ASSUME NEW s \in Slots, RetryInsert(s) PROVE TaskInv'
    <2>1. \A t \in Slots : t # s => row'[t] = row[t] /\ pc'[t] = pc[t]
        BY <1>18 DEF RetryInsert
    <2>2. row'[s] = "pending" /\ pc'[s] = "inserted" /\ blocks' = blocks
        BY <1>18 DEF RetryInsert
    <2>3. s[2] > 1
        BY <1>18, RetryFacts
    <2>4. RowTracksTask'
        BY <2>1, <2>2 DEF RowTracksTask
    <2>5. SuccessHasOutput'
        BY <2>1, <2>2 DEF SuccessHasOutput
    <2>6. QED
        BY <2>1, <2>2, <2>3, <2>4, <2>5
<1>19. ASSUME NEW s \in Slots, RetryReopen(s) PROVE TaskInv'
    BY <1>19 DEF RetryReopen, Goto
<1>20. ASSUME NEW s \in Slots, RetryArm(s) PROVE TaskInv'
    BY <1>20 DEF RetryArm, Goto
<1>21. ASSUME NEW s \in Slots, RetryDispatch(s) PROVE TaskInv'
    BY <1>21 DEF RetryDispatch, Goto
<1>22. ASSUME NEW d \in Devices, CancelDevice(d) PROVE TaskInv'
    BY <1>22 DEF CancelDevice
<1>23. CASE CancelRun
    BY <1>23 DEF CancelRun
<1>24. CASE Crash
    BY <1>24 DEF Crash
<1>25. CASE SweepRows
    BY <1>25 DEF SweepRows
<1>26. CASE SweepRun
    BY <1>26 DEF SweepRun
<1>27. CASE SweepNothing
    BY <1>27 DEF SweepNothing
<1>28. CASE UNCHANGED vars
    BY <1>28 DEF vars
<1> HIDE DEF TypeInv, TypeOK, TaskInv, SpawnInv, DriveInv, Quiet, RowTracksTask, SuccessHasOutput, Open, Settled, Retryable, Worked, Tallying, Permitted, Retrying, IsNextAttempt, Offered, Devices, Attempts
<1>29. QED
    BY <1>1, <1>2, <1>3, <1>4, <1>5, <1>6, <1>7, <1>8, <1>9, <1>10, <1>11, <1>12, <1>13, <1>14, <1>15, <1>16, <1>17, <1>18, <1>19, <1>20, <1>21, <1>22, <1>23, <1>24, <1>25, <1>26, <1>27, <1>28
       DEF Next, Spawner, Driver, Boot, RunOne, Retry

\* No step gives a task to a run that is not launched, or to a dead process.
LEMMA SpawnStep == IInv /\ [Next]_vars => SpawnInv'
<1> SUFFICES ASSUME TypeInv, SpawnInv, DriveInv, TaskInv,
                    [Next]_vars
             PROVE  SpawnInv'
    BY DEF IInv
<1> USE SlotPair, FirstSlot DEF TypeInv, TypeOK, SpawnInv, DriveInv, TaskInv, RowTracksTask, Quiet, Open, Settled, Retryable, Worked, Tallying, Permitted, Retrying, IsNextAttempt, Offered, Devices, Attempts, RunVerdict
<1>1. ASSUME NEW refuse \in BOOLEAN, StartRun(refuse) PROVE SpawnInv'
    BY <1>1 DEF StartRun
<1>2. CASE BlockMember
    BY <1>2 DEF BlockMember
<1>3. CASE BlockRun
    <2>1. runStatus' \in RunVerdict
        BY <1>3, RollUpVerdict, FanoutAssumption DEF BlockRun
    <2>2. proc = "up" /\ spawner' = "returned"
        BY <1>3 DEF BlockRun
    <2>3. QED
        BY <1>3, <2>1, <2>2 DEF BlockRun
<1>4. CASE Launch
    BY <1>4 DEF Launch
<1>5. CASE Register
    BY <1>5 DEF Register
<1>6. CASE DriveCheck
    BY <1>6 DEF DriveCheck
<1>7. CASE DriveDispatch
    BY <1>7 DEF DriveDispatch
<1>8. CASE DriveJoin
    BY <1>8 DEF DriveJoin
<1>9. CASE DriveRoll
    BY <1>9 DEF DriveRoll
<1>10. ASSUME NEW s \in Slots, Begin(s) PROVE SpawnInv'
    BY <1>10 DEF Begin, Goto, Settle
<1>11. ASSUME NEW s \in Slots, CredsMissing(s) PROVE SpawnInv'
    BY <1>11 DEF CredsMissing, Goto, Settle
<1>12. ASSUME NEW s \in Slots, Connect(s) PROVE SpawnInv'
    BY <1>12 DEF Connect, Goto
<1>13. ASSUME NEW s \in Slots, CancelTaken(s) PROVE SpawnInv'
    BY <1>13 DEF CancelTaken, Goto, Settle
<1>14. ASSUME NEW s \in Slots, WorkerError(s) PROVE SpawnInv'
    BY <1>14 DEF WorkerError, Goto, Settle
<1>15. ASSUME NEW s \in Slots, WorkerOutput(s) PROVE SpawnInv'
    BY <1>15 DEF WorkerOutput, Goto
<1>16. ASSUME NEW s \in Slots, Succeed(s) PROVE SpawnInv'
    BY <1>16 DEF Succeed, Goto, Settle
<1>17. ASSUME NEW s \in Slots, Tally(s) PROVE SpawnInv'
    BY <1>17 DEF Tally
<1>18. ASSUME NEW s \in Slots, RetryInsert(s) PROVE SpawnInv'
    BY <1>18, RetryFrame
<1>19. ASSUME NEW s \in Slots, RetryReopen(s) PROVE SpawnInv'
    BY <1>19 DEF RetryReopen, Goto
<1>20. ASSUME NEW s \in Slots, RetryArm(s) PROVE SpawnInv'
    BY <1>20 DEF RetryArm, Goto
<1>21. ASSUME NEW s \in Slots, RetryDispatch(s) PROVE SpawnInv'
    BY <1>21 DEF RetryDispatch, Goto
<1>22. ASSUME NEW d \in Devices, CancelDevice(d) PROVE SpawnInv'
    BY <1>22 DEF CancelDevice
<1>23. CASE CancelRun
    BY <1>23 DEF CancelRun
<1>24. CASE Crash
    BY <1>24 DEF Crash
<1>25. CASE SweepRows
    BY <1>25 DEF SweepRows
<1>26. CASE SweepRun
    BY <1>26 DEF SweepRun
<1>27. CASE SweepNothing
    BY <1>27 DEF SweepNothing
<1>28. CASE UNCHANGED vars
    BY <1>28 DEF vars
<1> HIDE DEF TypeInv, TypeOK, SpawnInv, DriveInv, TaskInv, RowTracksTask, Quiet, Open, Settled, Retryable, Worked, Tallying, Permitted, Retrying, IsNextAttempt, Offered, Devices, Attempts, RunVerdict
<1>29. QED
    BY <1>1, <1>2, <1>3, <1>4, <1>5, <1>6, <1>7, <1>8, <1>9, <1>10, <1>11, <1>12, <1>13, <1>14, <1>15, <1>16, <1>17, <1>18, <1>19, <1>20, <1>21, <1>22, <1>23, <1>24, <1>25, <1>26, <1>27, <1>28
       DEF Next, Spawner, Driver, Boot, RunOne, Retry

\* Retries, cancellations and tasks leave alone what drive has not reached.
LEMMA DriveStep == IInv /\ [Next]_vars => DriveInv'
<1> SUFFICES ASSUME TypeInv, SpawnInv, DriveInv, TaskInv,
                    [Next]_vars
             PROVE  DriveInv'
    BY DEF IInv
<1> USE SlotPair, FirstSlot DEF TypeInv, TypeOK, SpawnInv, DriveInv, TaskInv, RowTracksTask, Quiet, Initial, Live, Open, Settled, Retryable, Worked, Tallying, Permitted, Retrying, IsNextAttempt, Offered, Devices, Attempts, RunVerdict
<1>1. ASSUME NEW refuse \in BOOLEAN, StartRun(refuse) PROVE DriveInv'
    BY <1>1 DEF StartRun
<1>2. CASE BlockMember
    BY <1>2 DEF BlockMember
<1>3. CASE BlockRun
    BY <1>3 DEF BlockRun
<1>4. CASE Launch
    BY <1>4 DEF Launch
<1>5. CASE Register
    BY <1>5 DEF Register
<1>6. CASE DriveCheck
    BY <1>6 DEF DriveCheck
<1>7. CASE DriveDispatch
    BY <1>7 DEF DriveDispatch
<1>8. CASE DriveJoin
    BY <1>8 DEF DriveJoin
<1>9. CASE DriveRoll
    BY <1>9 DEF DriveRoll
<1>10. ASSUME NEW s \in Slots, Begin(s) PROVE DriveInv'
    BY <1>10 DEF Begin, Goto, Settle
<1>11. ASSUME NEW s \in Slots, CredsMissing(s) PROVE DriveInv'
    BY <1>11 DEF CredsMissing, Goto, Settle
<1>12. ASSUME NEW s \in Slots, Connect(s) PROVE DriveInv'
    BY <1>12 DEF Connect, Goto
<1>13. ASSUME NEW s \in Slots, CancelTaken(s) PROVE DriveInv'
    BY <1>13 DEF CancelTaken, Goto, Settle
<1>14. ASSUME NEW s \in Slots, WorkerError(s) PROVE DriveInv'
    BY <1>14 DEF WorkerError, Goto, Settle
<1>15. ASSUME NEW s \in Slots, WorkerOutput(s) PROVE DriveInv'
    BY <1>15 DEF WorkerOutput, Goto
<1>16. ASSUME NEW s \in Slots, Succeed(s) PROVE DriveInv'
    BY <1>16 DEF Succeed, Goto, Settle
<1>17. ASSUME NEW s \in Slots, Tally(s) PROVE DriveInv'
    BY <1>17 DEF Tally
<1>18. ASSUME NEW s \in Slots, RetryInsert(s) PROVE DriveInv'
    <2> HIDE DEF TypeInv, SpawnInv, TaskInv, RowTracksTask, Quiet
    <2>1. \A t \in Slots : t[2] = 1 => row'[t] = row[t] /\ pc'[t] = pc[t]
        BY <1>18, RetryFrame
    <2>2. \A t \in Initial : t \in Slots /\ t[2] = 1
        BY InitialSlot, FirstSlot
    <2>3. UNCHANGED <<drive, next, verdict, runStatus, runCancel, counters>>
        BY <1>18, RetryFrame
    <2>4. QED
        BY <2>1, <2>2, <2>3
<1>19. ASSUME NEW s \in Slots, RetryReopen(s) PROVE DriveInv'
    BY <1>19 DEF RetryReopen, Goto
<1>20. ASSUME NEW s \in Slots, RetryArm(s) PROVE DriveInv'
    BY <1>20 DEF RetryArm, Goto
<1>21. ASSUME NEW s \in Slots, RetryDispatch(s) PROVE DriveInv'
    BY <1>21 DEF RetryDispatch, Goto
<1>22. ASSUME NEW d \in Devices, CancelDevice(d) PROVE DriveInv'
    BY <1>22 DEF CancelDevice
<1>23. CASE CancelRun
    BY <1>23 DEF CancelRun
<1>24. CASE Crash
    BY <1>24 DEF Crash
<1>25. CASE SweepRows
    BY <1>25 DEF SweepRows
<1>26. CASE SweepRun
    BY <1>26 DEF SweepRun
<1>27. CASE SweepNothing
    BY <1>27 DEF SweepNothing
<1>28. CASE UNCHANGED vars
    BY <1>28 DEF vars
<1> HIDE DEF TypeInv, TypeOK, SpawnInv, DriveInv, TaskInv, RowTracksTask, Quiet, Initial, Live, Open, Settled, Retryable, Worked, Tallying, Permitted, Retrying, IsNextAttempt, Offered, Devices, Attempts, RunVerdict
<1>29. QED
    BY <1>1, <1>2, <1>3, <1>4, <1>5, <1>6, <1>7, <1>8, <1>9, <1>10, <1>11, <1>12, <1>13, <1>14, <1>15, <1>16, <1>17, <1>18, <1>19, <1>20, <1>21, <1>22, <1>23, <1>24, <1>25, <1>26, <1>27, <1>28
       DEF Next, Spawner, Driver, Boot, RunOne, Retry

\* The attempt inserted next follows the last one of its device.
LEMMA DenseStep == IInv /\ [Next]_vars => AttemptsAreDense'
<1> SUFFICES ASSUME TypeInv, SpawnInv, TaskInv, AttemptsAreDense,
                    [Next]_vars
             PROVE  AttemptsAreDense'
    BY DEF IInv
<1>1. ASSUME \A s \in Slots : (row'[s] = "none") = (row[s] = "none")
      PROVE  AttemptsAreDense'
    BY <1>1, AnySlot DEF AttemptsAreDense
<1> USE DEF TypeInv, TypeOK
<1>2. ASSUME NEW refuse \in BOOLEAN, StartRun(refuse) PROVE AttemptsAreDense'
    <2>1. \A s \in Slots : row'[s] # "none" => s[2] = 1
        BY <1>2 DEF StartRun
    <2>2. \A d \in Devices, a \in Attempts : <<d, a>>[2] = a
        OBVIOUS
    <2>3. QED
        BY <2>1, <2>2, AnySlot DEF AttemptsAreDense, Attempts
<1>3. CASE BlockMember
    <2>1. <<next, 1>> \in Slots /\ row[<<next, 1>>] = "pending"
        BY <1>3, FirstSlot DEF BlockMember, SpawnInv, Devices
    <2>2. QED
        BY <1>1, <1>3, <2>1 DEF BlockMember
<1>4. ASSUME NEW s \in Slots, RunOne(s) PROVE AttemptsAreDense'
    <2>1. \/ row' = row
          \/ \E status : row[s] # "none" /\ status # "none"
                        /\ row' = [row EXCEPT ![s] = status]
        BY <1>4 DEF RunOne, Begin, CredsMissing, Connect, CancelTaken, WorkerError, WorkerOutput, Succeed, Tally, Goto, Settle, TaskInv, RowTracksTask, Worked
    <2>2. QED
        BY <1>1, <2>1
<1>5. ASSUME NEW s \in Slots, RetryInsert(s) PROVE AttemptsAreDense'
    <2> SUFFICES ASSUME NEW d \in Devices, NEW a \in Attempts, a > 1,
                        row'[<<d, a>>] # "none"
                 PROVE  row'[<<d, a - 1>>] # "none"
        BY DEF AttemptsAreDense
    <2>1. /\ row'[s] = "pending"
          /\ \A t \in Slots : t # s => row'[t] = row[t]
          /\ row[<<s[1], s[2] - 1>>] # "none"
        BY <1>5, RetryFacts, RetryFrame
    <2>2. <<d, a>> \in Slots /\ <<d, a - 1>> \in Slots
        BY AnySlot
    <2>3. row[<<d, a - 1>>] # "none"
        <3>1. CASE <<d, a>> = s
            <4>1. s[1] = d /\ s[2] = a
                BY <3>1
            <4>2. QED
                BY <2>1, <4>1
        <3>2. CASE <<d, a>> # s
            BY <2>1, <2>2, <3>2 DEF AttemptsAreDense
        <3>3. QED
            BY <3>1, <3>2
    <2>4. QED
        BY <2>1, <2>2, <2>3
<1>6. CASE SweepRows
    <2>1. \A s \in Slots :
              row'[s] = IF row[s] \in Open THEN "failed" ELSE row[s]
        BY <1>6 DEF SweepRows
    <2>2. QED
        BY <1>1, <2>1 DEF Open
<1>7. CASE UNCHANGED row
    BY <1>1, <1>7
<1>8. QED
    <2> HIDE DEF TypeInv, TypeOK, AttemptsAreDense
    <2>1. QED
        BY <1>2, <1>3, <1>4, <1>5, <1>6, <1>7
           DEF Next, Spawner, Driver, Boot, BlockRun, Launch, Register,
               DriveCheck, DriveDispatch, DriveJoin, DriveRoll, Retry,
               RetryReopen, RetryArm, RetryDispatch, CancelDevice, CancelRun,
               Crash, SweepRun, SweepNothing, Goto, persistent, vars

\* Every ended attempt has been counted.
LEMMA CountStep == IInv /\ [Next]_vars => CountInv'
<1> SUFFICES ASSUME TypeInv, SpawnInv, DriveInv, CountInv, TaskInv,
                    [Next]_vars
             PROVE  CountInv'
    BY DEF IInv
<1> USE SlotPair, FirstSlot DEF TypeInv, TypeOK, SpawnInv, DriveInv, CountInv, TaskInv, RowTracksTask, Quiet, CounterOf, Open, Settled, Retryable, Worked, Tallying, Permitted, Retrying, IsNextAttempt, Offered, Devices, Attempts
<1>1. ASSUME NEW refuse \in BOOLEAN, StartRun(refuse) PROVE CountInv'
    BY <1>1 DEF StartRun
<1>2. CASE BlockMember
    BY <1>2 DEF BlockMember
<1>3. CASE BlockRun
    BY <1>3 DEF BlockRun
<1>4. CASE Launch
    BY <1>4 DEF Launch
<1>5. CASE Register
    BY <1>5 DEF Register
<1>6. CASE DriveCheck
    BY <1>6 DEF DriveCheck
<1>7. CASE DriveDispatch
    BY <1>7 DEF DriveDispatch
<1>8. CASE DriveJoin
    BY <1>8 DEF DriveJoin
<1>9. CASE DriveRoll
    BY <1>9 DEF DriveRoll
<1>10. ASSUME NEW s \in Slots, Begin(s) PROVE CountInv'
    BY <1>10 DEF Begin, Goto, Settle
<1>11. ASSUME NEW s \in Slots, CredsMissing(s) PROVE CountInv'
    BY <1>11 DEF CredsMissing, Goto, Settle
<1>12. ASSUME NEW s \in Slots, Connect(s) PROVE CountInv'
    BY <1>12 DEF Connect, Goto
<1>13. ASSUME NEW s \in Slots, CancelTaken(s) PROVE CountInv'
    BY <1>13 DEF CancelTaken, Goto, Settle
<1>14. ASSUME NEW s \in Slots, WorkerError(s) PROVE CountInv'
    BY <1>14 DEF WorkerError, Goto, Settle
<1>15. ASSUME NEW s \in Slots, WorkerOutput(s) PROVE CountInv'
    BY <1>15 DEF WorkerOutput, Goto
<1>16. ASSUME NEW s \in Slots, Succeed(s) PROVE CountInv'
    BY <1>16 DEF Succeed, Goto, Settle
<1>17. ASSUME NEW s \in Slots, Tally(s) PROVE CountInv'
    <2>1. /\ row' = row
          /\ \A t \in Slots : t # s => pc'[t] = pc[t]
          /\ counters' = [counters EXCEPT ![CounterOf[pc[s]]] = @ + 1]
        BY <1>17 DEF Tally
    <2>2. /\ counters'.success \in {counters.success, counters.success + 1}
          /\ counters'.failed \in {counters.failed, counters.failed + 1}
          /\ counters'.cancelled \in {counters.cancelled, counters.cancelled + 1}
        BY <1>17, <2>1 DEF Tally
    <2>3. \/ row[s] = "success" /\ counters'.success = counters.success + 1
          \/ /\ row[s] \in {"failed", "timeout"}
             /\ counters'.failed = counters.failed + 1
          \/ row[s] = "cancelled" /\ counters'.cancelled = counters.cancelled + 1
        BY <1>17, <2>1 DEF Tally
    <2>4. /\ counters.success \in Nat
          /\ counters.failed \in Nat
          /\ counters.cancelled \in Nat
        OBVIOUS
    <2> HIDE DEF TypeInv, TypeOK, SpawnInv, DriveInv, TaskInv, RowTracksTask
    <2>5. QED
        BY <2>1, <2>2, <2>3, <2>4
<1>18. ASSUME NEW s \in Slots, RetryInsert(s) PROVE CountInv'
    BY <1>18, RetryFrame
<1>19. ASSUME NEW s \in Slots, RetryReopen(s) PROVE CountInv'
    BY <1>19 DEF RetryReopen, Goto
<1>20. ASSUME NEW s \in Slots, RetryArm(s) PROVE CountInv'
    BY <1>20 DEF RetryArm, Goto
<1>21. ASSUME NEW s \in Slots, RetryDispatch(s) PROVE CountInv'
    BY <1>21 DEF RetryDispatch, Goto
<1>22. ASSUME NEW d \in Devices, CancelDevice(d) PROVE CountInv'
    BY <1>22 DEF CancelDevice
<1>23. CASE CancelRun
    BY <1>23 DEF CancelRun
<1>24. CASE Crash
    BY <1>24 DEF Crash
<1>25. CASE SweepRows
    BY <1>25 DEF SweepRows
<1>26. CASE SweepRun
    BY <1>26 DEF SweepRun
<1>27. CASE SweepNothing
    BY <1>27 DEF SweepNothing
<1>28. CASE UNCHANGED vars
    BY <1>28 DEF vars
<1> HIDE DEF TypeInv, TypeOK, SpawnInv, DriveInv, CountInv, TaskInv, RowTracksTask, Quiet, CounterOf, Open, Settled, Retryable, Worked, Tallying, Permitted, Retrying, IsNextAttempt, Offered, Devices, Attempts
<1>29. QED
    BY <1>1, <1>2, <1>3, <1>4, <1>5, <1>6, <1>7, <1>8, <1>9, <1>10, <1>11, <1>12, <1>13, <1>14, <1>15, <1>16, <1>17, <1>18, <1>19, <1>20, <1>21, <1>22, <1>23, <1>24, <1>25, <1>26, <1>27, <1>28
       DEF Next, Spawner, Driver, Boot, RunOne, Retry

\* drive rolls the counters up when no first attempt has a task: what they
\* count bears the verdict out.
LEMMA JoinIsHonest ==
    ASSUME TypeInv, SpawnInv, DriveInv, TaskInv, CountInv, DriveJoin
    PROVE  Ledger!Honest(verdict)'
<1> DEFINE s == counters.success
           f == counters.failed
           c == counters.cancelled
<1>1. verdict' = RollUp(s, f, c) /\ row' = row
    BY DEF DriveJoin
<1>2. s \in Nat /\ f \in Nat /\ c \in Nat
    BY DEF TypeInv, TypeOK
<1>3. ASSUME NEW d \in Devices
      PROVE  \/ row[<<d, 1>>] = "pending"
             \/ row[<<d, 1>>] = "success" /\ s > 0
             \/ row[<<d, 1>>] \in {"failed", "timeout"} /\ f > 0
             \/ row[<<d, 1>>] = "cancelled" /\ c > 0
    <2> USE DEF TypeInv, TypeOK, SpawnInv, DriveInv, CountInv, TaskInv, RowTracksTask, Quiet, Open, Settled, Retryable, Worked, Tallying, Permitted, Retrying, IsNextAttempt, Offered, Devices, Attempts
    <2>1. pc[<<d, 1>>] \in {"none", "done"} /\ <<d, 1>> \in Slots
        BY <1>3, FirstSlot, SlotPair, InitialSlot DEF DriveJoin, Live
    <2>2. QED
        BY <1>3, <2>1, SlotPair, FirstSlot DEF DriveJoin
<1> HIDE DEF s, f, c
<1>4. /\ verdict' = "success" => f = 0 /\ c = 0
      /\ verdict' = "failed" => s = 0
      /\ verdict' = "cancelled" => s = 0 /\ f = 0
    BY <1>1, <1>2 DEF RollUp
<1>5. ASSUME NEW d \in Devices, verdict' = "success"
      PROVE  row'[<<d, 1>>] \in {"success", "pending"}
    BY <1>1, <1>2, <1>3, <1>4, <1>5
<1>6. ASSUME NEW d \in Devices, verdict' = "failed"
      PROVE  row'[<<d, 1>>] # "success"
    BY <1>1, <1>2, <1>3, <1>4, <1>6
<1>7. ASSUME NEW d \in Devices, verdict' = "cancelled"
      PROVE  row'[<<d, 1>>] \in {"cancelled", "pending"}
    BY <1>1, <1>2, <1>3, <1>4, <1>7
<1>8. QED
    BY <1>5, <1>6, <1>7 DEF Ledger!Honest, Ledger!First

\* When drive reads the counters, what they say of the first attempts holds.
LEMMA VerdictStep == IInv /\ [Next]_vars => VerdictInv'
<1> SUFFICES ASSUME TypeInv, SpawnInv, DriveInv, CountInv, VerdictInv, TaskInv,
                    [Next]_vars
             PROVE  VerdictInv'
    BY DEF IInv
<1> USE SlotPair, FirstSlot DEF TypeInv, TypeOK, SpawnInv, DriveInv, CountInv, VerdictInv, TaskInv, RowTracksTask, Quiet, Open, Settled, Retryable, Worked, Tallying, Permitted, Retrying, IsNextAttempt, Offered, Devices, Attempts, Ledger!Honest, Ledger!First, RollUp
<1>1. ASSUME NEW refuse \in BOOLEAN, StartRun(refuse) PROVE VerdictInv'
    BY <1>1 DEF StartRun
<1>2. CASE BlockMember
    BY <1>2 DEF BlockMember
<1>3. CASE BlockRun
    BY <1>3 DEF BlockRun
<1>4. CASE Launch
    BY <1>4 DEF Launch
<1>5. CASE Register
    BY <1>5 DEF Register
<1>6. CASE DriveCheck
    BY <1>6 DEF DriveCheck
<1>7. CASE DriveDispatch
    BY <1>7 DEF DriveDispatch
<1>8. CASE DriveJoin
    <2>1. Ledger!Honest(verdict)'
        BY <1>8, JoinIsHonest
    <2> HIDE DEF IInv, Ledger!Honest
    <2>2. QED
        BY <2>1 DEF VerdictInv
<1>9. CASE DriveRoll
    BY <1>9 DEF DriveRoll
<1>10. ASSUME NEW s \in Slots, Begin(s) PROVE VerdictInv'
    BY <1>10 DEF Begin, Goto, Settle
<1>11. ASSUME NEW s \in Slots, CredsMissing(s) PROVE VerdictInv'
    BY <1>11 DEF CredsMissing, Goto, Settle
<1>12. ASSUME NEW s \in Slots, Connect(s) PROVE VerdictInv'
    BY <1>12 DEF Connect, Goto
<1>13. ASSUME NEW s \in Slots, CancelTaken(s) PROVE VerdictInv'
    BY <1>13 DEF CancelTaken, Goto, Settle
<1>14. ASSUME NEW s \in Slots, WorkerError(s) PROVE VerdictInv'
    BY <1>14 DEF WorkerError, Goto, Settle
<1>15. ASSUME NEW s \in Slots, WorkerOutput(s) PROVE VerdictInv'
    BY <1>15 DEF WorkerOutput, Goto
<1>16. ASSUME NEW s \in Slots, Succeed(s) PROVE VerdictInv'
    BY <1>16 DEF Succeed, Goto, Settle
<1>17. ASSUME NEW s \in Slots, Tally(s) PROVE VerdictInv'
    BY <1>17 DEF Tally
<1>18. ASSUME NEW s \in Slots, RetryInsert(s) PROVE VerdictInv'
    <2> HIDE DEF TypeInv, SpawnInv, DriveInv, TaskInv, CountInv
    <2>1. \A d \in Devices : row'[<<d, 1>>] = row[<<d, 1>>]
        <3>1. TAKE d \in Devices
        <3>2. <<d, 1>> # s /\ <<d, 1>> \in Slots
            BY <1>18, RetryFrame, FirstSlot
        <3>3. QED
            BY <1>18, <3>2, RetryFrame
    <2>2. drive' = drive /\ verdict' = verdict
        BY <1>18, RetryFrame
    <2>3. QED
        BY <2>1, <2>2
<1>19. ASSUME NEW s \in Slots, RetryReopen(s) PROVE VerdictInv'
    BY <1>19 DEF RetryReopen, Goto
<1>20. ASSUME NEW s \in Slots, RetryArm(s) PROVE VerdictInv'
    BY <1>20 DEF RetryArm, Goto
<1>21. ASSUME NEW s \in Slots, RetryDispatch(s) PROVE VerdictInv'
    BY <1>21 DEF RetryDispatch, Goto
<1>22. ASSUME NEW d \in Devices, CancelDevice(d) PROVE VerdictInv'
    BY <1>22 DEF CancelDevice
<1>23. CASE CancelRun
    BY <1>23 DEF CancelRun
<1>24. CASE Crash
    BY <1>24 DEF Crash
<1>25. CASE SweepRows
    BY <1>25 DEF SweepRows
<1>26. CASE SweepRun
    BY <1>26 DEF SweepRun
<1>27. CASE SweepNothing
    BY <1>27 DEF SweepNothing
<1>28. CASE UNCHANGED vars
    BY <1>28 DEF vars
<1> HIDE DEF TypeInv, TypeOK, SpawnInv, DriveInv, CountInv, VerdictInv, TaskInv, RowTracksTask, Quiet, Open, Settled, Retryable, Worked, Tallying, Permitted, Retrying, IsNextAttempt, Offered, Devices, Attempts, Ledger!Honest, Ledger!First, RollUp
<1>29. QED
    BY <1>1, <1>2, <1>3, <1>4, <1>5, <1>6, <1>7, <1>8, <1>9, <1>10, <1>11, <1>12, <1>13, <1>14, <1>15, <1>16, <1>17, <1>18, <1>19, <1>20, <1>21, <1>22, <1>23, <1>24, <1>25, <1>26, <1>27, <1>28
       DEF Next, Spawner, Driver, Boot, RunOne, Retry

\* A run is closed only when its first attempts are over, and stays so.
LEMMA ClosedStep == IInv /\ [Next]_vars => ClosedInv'
<1> SUFFICES ASSUME TypeInv, SpawnInv, DriveInv, ClosedInv, TaskInv,
                    [Next]_vars
             PROVE  ClosedInv'
    BY DEF IInv
<1> USE SlotPair, FirstSlot DEF TypeInv, TypeOK, SpawnInv, DriveInv, ClosedInv, TaskInv, RowTracksTask, Quiet, Initial, Live, Open, Settled, Retryable, Worked, Tallying, Permitted, Retrying, IsNextAttempt, Offered, Devices, Attempts, RunVerdict
<1>1. ASSUME NEW refuse \in BOOLEAN, StartRun(refuse) PROVE ClosedInv'
    BY <1>1 DEF StartRun
<1>2. CASE BlockMember
    BY <1>2 DEF BlockMember
<1>3. CASE BlockRun
    BY <1>3 DEF BlockRun
<1>4. CASE Launch
    BY <1>4 DEF Launch
<1>5. CASE Register
    BY <1>5 DEF Register
<1>6. CASE DriveCheck
    BY <1>6 DEF DriveCheck
<1>7. CASE DriveDispatch
    BY <1>7 DEF DriveDispatch
<1>8. CASE DriveJoin
    BY <1>8 DEF DriveJoin
<1>9. CASE DriveRoll
    BY <1>9 DEF DriveRoll
<1>10. ASSUME NEW s \in Slots, Begin(s) PROVE ClosedInv'
    BY <1>10 DEF Begin, Goto, Settle
<1>11. ASSUME NEW s \in Slots, CredsMissing(s) PROVE ClosedInv'
    BY <1>11 DEF CredsMissing, Goto, Settle
<1>12. ASSUME NEW s \in Slots, Connect(s) PROVE ClosedInv'
    BY <1>12 DEF Connect, Goto
<1>13. ASSUME NEW s \in Slots, CancelTaken(s) PROVE ClosedInv'
    BY <1>13 DEF CancelTaken, Goto, Settle
<1>14. ASSUME NEW s \in Slots, WorkerError(s) PROVE ClosedInv'
    BY <1>14 DEF WorkerError, Goto, Settle
<1>15. ASSUME NEW s \in Slots, WorkerOutput(s) PROVE ClosedInv'
    BY <1>15 DEF WorkerOutput, Goto
<1>16. ASSUME NEW s \in Slots, Succeed(s) PROVE ClosedInv'
    BY <1>16 DEF Succeed, Goto, Settle
<1>17. ASSUME NEW s \in Slots, Tally(s) PROVE ClosedInv'
    BY <1>17 DEF Tally
<1>18. ASSUME NEW s \in Slots, RetryInsert(s) PROVE ClosedInv'
    BY <1>18, RetryFrame
<1>19. ASSUME NEW s \in Slots, RetryReopen(s) PROVE ClosedInv'
    BY <1>19 DEF RetryReopen, Goto
<1>20. ASSUME NEW s \in Slots, RetryArm(s) PROVE ClosedInv'
    BY <1>20 DEF RetryArm, Goto
<1>21. ASSUME NEW s \in Slots, RetryDispatch(s) PROVE ClosedInv'
    BY <1>21 DEF RetryDispatch, Goto
<1>22. ASSUME NEW d \in Devices, CancelDevice(d) PROVE ClosedInv'
    BY <1>22 DEF CancelDevice
<1>23. CASE CancelRun
    BY <1>23 DEF CancelRun
<1>24. CASE Crash
    BY <1>24 DEF Crash
<1>25. CASE SweepRows
    BY <1>25 DEF SweepRows
<1>26. CASE SweepRun
    BY <1>26 DEF SweepRun
<1>27. CASE SweepNothing
    BY <1>27 DEF SweepNothing
<1>28. CASE UNCHANGED vars
    BY <1>28 DEF vars
<1> HIDE DEF TypeInv, TypeOK, SpawnInv, DriveInv, ClosedInv, TaskInv, RowTracksTask, Quiet, Initial, Live, Open, Settled, Retryable, Worked, Tallying, Permitted, Retrying, IsNextAttempt, Offered, Devices, Attempts, RunVerdict
<1>29. QED
    BY <1>1, <1>2, <1>3, <1>4, <1>5, <1>6, <1>7, <1>8, <1>9, <1>10, <1>11, <1>12, <1>13, <1>14, <1>15, <1>16, <1>17, <1>18, <1>19, <1>20, <1>21, <1>22, <1>23, <1>24, <1>25, <1>26, <1>27, <1>28
       DEF Next, Spawner, Driver, Boot, RunOne, Retry

\* A task that is not over can write its row without touching a verdict:
\* a run with a verdict has no first attempt under way.
LEMMA HonestOther ==
    ASSUME ClosedInv, VerdictIsHonest, NEW s \in Slots,
           pc[s] \notin {"none", "done"},
           \A t \in Slots : t # s => row'[t] = row[t],
           runStatus' = runStatus, crashes' = crashes
    PROVE  VerdictIsHonest'
<1>1. s \in Initial => runStatus \notin RunVerdict
    BY DEF ClosedInv
<1>2. Initial \subseteq Slots
    BY FanoutAssumption DEF Slots, Initial, Attempts
<1>3. runStatus \in RunVerdict => \A t \in Initial : row'[t] = row[t]
    BY <1>1, <1>2
<1>4. QED
    BY <1>3 DEF VerdictIsHonest, RunVerdict

\* The verdict of a run stays true of its first attempts.
LEMMA HonestStep == IInv /\ [Next]_vars => VerdictIsHonest'
<1> SUFFICES ASSUME TypeInv, SpawnInv, DriveInv, ClosedInv, VerdictInv, VerdictIsHonest, TaskInv,
                    [Next]_vars
             PROVE  VerdictIsHonest'
    BY DEF IInv
<1>1. ASSUME runStatus' = runStatus, crashes' = crashes,
             \A s \in Initial : row'[s] = row[s]
      PROVE  VerdictIsHonest'
    BY <1>1 DEF VerdictIsHonest
<1>2. ASSUME runStatus' \in {"none", "running"} PROVE VerdictIsHonest'
    BY <1>2 DEF VerdictIsHonest
<1>3. ASSUME NEW refuse \in BOOLEAN, StartRun(refuse) PROVE VerdictIsHonest'
    BY <1>2, <1>3 DEF StartRun
<1>4. CASE BlockMember
    BY <1>2, <1>4 DEF BlockMember, SpawnInv
<1>5. CASE BlockRun
    <2>1. runStatus' \in {"success", "failed"} /\ row' = row
        BY <1>5, FanoutAssumption DEF BlockRun, RollUp
    <2>2. \A s \in Initial : row[s] = "blocked_by_guardrail" /\ N > 0
        <3>1. TAKE s \in Initial
        <3>2. s \in Slots /\ s[2] = 1 /\ s[1] \in 1..N
            BY InitialSlot, FirstSlot, SlotPair DEF Initial, Devices
        <3>3. N < next /\ next \in Nat
            BY <1>5, FanoutAssumption DEF BlockRun, TypeInv, TypeOK
        <3>4. s[1] < next
            BY <3>2, <3>3, FanoutAssumption
        <3>5. QED
            BY <1>5, <3>2, <3>4, FanoutAssumption DEF BlockRun, SpawnInv
    <2>3. N > 0 => runStatus' = "failed"
        BY <1>5, FanoutAssumption DEF BlockRun, RollUp
    <2>4. QED
        BY <2>1, <2>2, <2>3 DEF VerdictIsHonest
<1>6. CASE DriveRoll
    <2>1. /\ runStatus' = verdict /\ row' = row
          /\ Ledger!Honest(verdict) /\ verdict \in RunVerdict
        BY <1>6 DEF DriveRoll, VerdictInv, TypeInv
    <2>2. \A s \in Initial : \E d \in Devices : s = <<d, 1>>
        BY DEF Initial
    <2>3. QED
        BY <2>1, <2>2 DEF VerdictIsHonest, Ledger!Honest, Ledger!First
<1>7. ASSUME NEW s \in Slots,
             Begin(s) \/ CredsMissing(s) \/ CancelTaken(s) \/ WorkerError(s)
                 \/ Succeed(s)
      PROVE  VerdictIsHonest'
    <2>1. /\ pc[s] \notin {"none", "done"}
          /\ runStatus' = runStatus /\ crashes' = crashes
        BY <1>7 DEF Begin, CredsMissing, CancelTaken, WorkerError, Succeed, Goto, Settle, process, persistent
    <2>2. \A t \in Slots : t # s => row'[t] = row[t]
        BY <1>7 DEF Begin, CredsMissing, CancelTaken, WorkerError, Succeed, Settle, TypeInv, TypeOK
    <2>3. QED
        BY <2>1, <2>2, HonestOther
<1>8. ASSUME NEW s \in Slots, Connect(s) \/ WorkerOutput(s) \/ Tally(s)
      PROVE  VerdictIsHonest'
    BY <1>1, <1>8 DEF Connect, WorkerOutput, Tally, persistent, process
<1>9. ASSUME NEW s \in Slots, RetryInsert(s) PROVE VerdictIsHonest'
    <2>1. /\ runStatus' = runStatus /\ crashes' = crashes
          /\ \A t \in Initial : t # s
        BY <1>9, RetryFrame
    <2>2. \A t \in Initial : row'[t] = row[t]
        BY <1>9, <2>1, RetryFrame, FirstSlot DEF Initial
    <2>3. QED
        BY <1>1, <2>1, <2>2
<1>10. ASSUME NEW s \in Slots, RetryReopen(s) PROVE VerdictIsHonest'
    BY <1>2, <1>10 DEF RetryReopen
<1>11. CASE Crash
    <2>1. crashes' # 0 /\ row' = row /\ runStatus' = runStatus
        BY <1>11, FanoutAssumption DEF Crash, TypeInv, TypeOK, persistent
    <2>2. QED
        BY <2>1 DEF VerdictIsHonest
<1>12. CASE SweepRows
    BY <1>2, <1>12 DEF SweepRows
<1>13. CASE SweepRun
    <2>1. crashes' # 0 /\ runStatus' = "failed"
        BY <1>13 DEF SweepRun, SpawnInv, process
    <2>2. QED
        BY <2>1 DEF VerdictIsHonest
<1>14. CASE UNCHANGED <<row, runStatus, crashes>>
    BY <1>1, <1>14
<1>15. QED
    BY <1>3, <1>4, <1>5, <1>6, <1>7, <1>8, <1>9, <1>10, <1>11, <1>12, <1>13, <1>14
       DEF Next, Spawner, Driver, Boot, RunOne, Launch, Register, DriveCheck,
           DriveDispatch, DriveJoin, Retry, RetryArm, RetryDispatch,
           CancelDevice, CancelRun, SweepNothing, persistent, process, vars

\* Before a crash nothing launches, retries or settles a refused run.
LEMMA RefusedStep == IInv /\ [Next]_vars => RefusedInv'
<1> SUFFICES ASSUME IInv, [Next]_vars PROVE RefusedInv'
    OBVIOUS
<1>1. /\ TypeInv /\ SpawnInv /\ RefusedInv
    BY DEF IInv
<1> USE DEF RefusedInv, Quiet
<1>2. ASSUME NEW refuse \in BOOLEAN, StartRun(refuse) PROVE RefusedInv'
    BY <1>1, <1>2, FanoutAssumption DEF StartRun, SpawnInv, TypeInv, TypeOK
<1>3. CASE BlockMember
    <2>1. \A s \in Slots : row'[s] \in {row[s], "blocked_by_guardrail"}
        BY <1>1, <1>3 DEF BlockMember, TypeInv, TypeOK
    <2>2. QED
        BY <1>1, <1>3, <2>1 DEF BlockMember
<1>4. CASE BlockRun
    BY <1>1, <1>4 DEF BlockRun
<1>5. CASE Launch \/ Register
    BY <1>1, <1>5 DEF Launch, Register
<1>6. CASE Driver
    BY <1>1, <1>6 DEF Driver, DriveCheck, DriveDispatch, DriveJoin, DriveRoll
<1>7. ASSUME NEW s \in Slots, RunOne(s) \/ Retry(s) PROVE RefusedInv'
    <2>1. pc[s] # "none"
        BY <1>7 DEF RunOne, Retry, Begin, CredsMissing, Connect, CancelTaken, WorkerError, WorkerOutput, Succeed, Tally, RetryReopen, RetryArm, RetryDispatch, Goto, Tallying
    <2>2. refused' = refused /\ crashes' = crashes
        BY <1>7 DEF RunOne, Retry, Begin, CredsMissing, Connect, CancelTaken, WorkerError, WorkerOutput, Succeed, Tally, RetryReopen, RetryArm, RetryDispatch, Settle
    <2>3. QED
        BY <1>1, <2>1, <2>2
<1>8. ASSUME NEW s \in Slots, RetryInsert(s) PROVE RefusedInv'
    <2>1. \E t \in Slots : row[t] \in Retryable
        BY <1>1, <1>8, RetryFacts
    <2>2. refused' = refused /\ crashes' = crashes
        BY <1>8 DEF RetryInsert
    <2>3. QED
        BY <1>1, <2>1, <2>2 DEF Retryable
<1>9. ASSUME NEW d \in Devices, CancelDevice(d) PROVE RefusedInv'
    BY <1>1, <1>9 DEF CancelDevice
<1>10. CASE CancelRun
    BY <1>1, <1>10 DEF CancelRun
<1>11. CASE Crash
    <2>1. crashes' # 0
        BY <1>1, <1>11, FanoutAssumption DEF Crash, TypeInv, TypeOK
    <2>2. QED
        BY <2>1
<1>12. CASE SweepRows
    BY <1>1, <1>12 DEF SweepRows, SpawnInv, Open
<1>13. CASE SweepRun
    BY <1>1, <1>13 DEF SweepRun
<1>14. CASE SweepNothing
    BY <1>1, <1>14 DEF SweepNothing
<1>15. CASE UNCHANGED vars
    BY <1>1, <1>15 DEF vars
<1>16. QED
    BY <1>2, <1>3, <1>4, <1>5, <1>6, <1>7, <1>8, <1>9, <1>10, <1>11, <1>12, <1>13, <1>14, <1>15
       DEF Next, Spawner, Boot

\* With no run and no task all parts of the invariant hold.
LEMMA IInvInit == Init => IInv
<1> SUFFICES ASSUME Init PROVE IInv
    OBVIOUS
<1>1. TypeInv
    BY TypeInit
<1>2. \A s \in Slots : pc[s] = "none" /\ row[s] = "none"
    BY DEF Init
<1>3. TaskInv /\ SpawnInv /\ DriveInv /\ CountInv
    BY <1>2 DEF Init, TaskInv, SpawnInv, DriveInv, CountInv, Quiet,
       RowTracksTask, SuccessHasOutput, Retrying, Worked
<1>4. AttemptsAreDense
    BY <1>2, AnySlot DEF AttemptsAreDense
<1>5. VerdictInv /\ ClosedInv /\ VerdictIsHonest /\ RefusedInv
    BY <1>2 DEF Init, VerdictInv, ClosedInv, VerdictIsHonest, RefusedInv,
       RunVerdict
<1>6. QED
    BY <1>1, <1>3, <1>4, <1>5 DEF IInv

\* Every step keeps the whole of the invariant.
LEMMA IInvStep == IInv /\ [Next]_vars => IInv'
<1> SUFFICES ASSUME IInv, [Next]_vars PROVE IInv'
    OBVIOUS
<1>1. TypeInv'
    BY TypeStep DEF IInv
<1>2. QED
    BY <1>1, TaskStep, SpawnStep, DriveStep, DenseStep, CountStep, VerdictStep,
       ClosedStep, HonestStep, RefusedStep DEF IInv

\* The invariant holds in every state of every behaviour.
THEOREM Invariance == Spec => []IInv
BY IInvInit, IInvStep, PTL DEF Spec

-----------------------------------------------------------------------------
(* What the runs check on small instances *)

\* The status of an attempt's row is the one its task is at, whatever retries,
\* cancellations, crashes and sweeps happen around it.
THEOREM RowsFollowTasks == Spec => []RowTracksTask
<1>1. IInv => RowTracksTask
    BY DEF IInv, TaskInv
<1>2. QED
    BY <1>1, Invariance, PTL

\* A row that says success has its output in command_blocks.
THEOREM OutputsAreStored == Spec => []SuccessHasOutput
<1>1. IInv => SuccessHasOutput
    BY DEF IInv, TaskInv
<1>2. QED
    BY <1>1, Invariance, PTL

\* Attempts are numbered without a gap.
THEOREM DenseAttempts == Spec => []AttemptsAreDense
<1>1. IInv => AttemptsAreDense
    BY DEF IInv
<1>2. QED
    BY <1>1, Invariance, PTL

\* The status of a closed run agrees with its first attempts.
THEOREM HonestVerdict == Spec => []VerdictIsHonest
<1>1. IInv => VerdictIsHonest
    BY DEF IInv
<1>2. QED
    BY <1>1, Invariance, PTL

\* A refused command has no task before a crash.
THEOREM RefusedIsQuiet == Spec => []RefusedNeverRuns
<1>1. IInv => RefusedNeverRuns
    BY DEF IInv, RefusedInv, RefusedNeverRuns, Quiet, LiveSlots, Live
<1>2. QED
    BY <1>1, Invariance, PTL

\* A recorded outcome is never overwritten by a step of any kind.
LEMMA OutcomeStep ==
    ASSUME IInv, [Next]_vars, NEW s \in Slots, row[s] \in Settled
    PROVE  row'[s] = row[s]
<1> USE DEF IInv, TypeInv, TypeOK, TaskInv, RowTracksTask, SpawnInv, Quiet,
            Settled, Retryable, Worked, Retrying, Open
<1>1. ASSUME NEW refuse \in BOOLEAN, StartRun(refuse) PROVE row'[s] = row[s]
    BY <1>1 DEF StartRun
<1>2. CASE BlockMember
    <2>1. <<next, 1>> \in Slots /\ row[<<next, 1>>] = "pending"
        BY <1>2, FirstSlot DEF BlockMember, Devices
    <2>2. QED
        BY <1>2, <2>1 DEF BlockMember
<1>3. ASSUME NEW t \in Slots, RunOne(t) PROVE row'[s] = row[s]
    <2> USE DEF Goto, Settle
    <2>1. CASE Begin(t) \/ CredsMissing(t) \/ CancelTaken(t) \/ Succeed(t)
        BY <2>1 DEF Begin, CredsMissing, CancelTaken, Succeed
    <2>2. CASE WorkerError(t)
        BY <2>2 DEF WorkerError
    <2>3. CASE Connect(t) \/ WorkerOutput(t) \/ Tally(t)
        BY <2>3 DEF Connect, WorkerOutput, Tally
    <2>4. QED
        BY <1>3, <2>1, <2>2, <2>3 DEF RunOne
<1>4. ASSUME NEW t \in Slots, RetryInsert(t) PROVE row'[s] = row[s]
    <2>1. TypeInv /\ SpawnInv
        BY DEF IInv
    <2> HIDE DEF IInv, TypeInv, SpawnInv
    <2>2. s # t
        BY <1>4, <2>1, RetryFacts
    <2>3. QED
        BY <1>4, <2>1, <2>2, RetryFrame
<1>5. CASE SweepRows
    BY <1>5 DEF SweepRows
<1>6. CASE UNCHANGED row
    BY <1>6
<1>7. QED
    BY <1>1, <1>2, <1>3, <1>4, <1>5, <1>6
       DEF Next, Spawner, Driver, Boot, BlockRun, Launch, Register, DriveCheck,
           DriveDispatch, DriveJoin, DriveRoll, Retry, RetryReopen, RetryArm,
           RetryDispatch, CancelDevice, CancelRun, Crash, SweepRun,
           SweepNothing, Goto, vars

\* Success, blocked and every other outcome are final, whatever acts later.
THEOREM PermanentOutcomes == Spec => OutcomesArePermanent
<1>1. IInv /\ [Next]_vars =>
        [\A s \in Slots : row[s] \in Settled => row'[s] = row[s]]_vars
    BY OutcomeStep
<1>2. QED
    BY <1>1, Invariance, PTL DEF Spec, OutcomesArePermanent

-----------------------------------------------------------------------------
(* The counters *)

\* The attempts that are over with one of the statuses S
Over(S) == {s \in Slots : pc[s] = "done" /\ row[s] \in S}

\* CountersAreExact, with the sets named
ExactInv ==
    crashes = 0 =>
        /\ counters.success = Cardinality(Over({"success"}))
        /\ counters.failed = Cardinality(Over({"failed", "timeout"}))
        /\ counters.cancelled = Cardinality(Over({"cancelled"}))

\* The slots, and any selection of them, are finite.
LEMMA OverFinite == \A S : IsFiniteSet(Over(S)) /\ Cardinality(Over(S)) \in Nat
<1> TAKE S
<1>1. IsFiniteSet(Devices) /\ IsFiniteSet(Attempts)
    BY FanoutAssumption, FS_Interval DEF Devices, Attempts
<1>2. IsFiniteSet(Slots)
    BY <1>1, FS_Product DEF Slots
<1>3. Over(S) \in SUBSET Slots
    BY DEF Over
<1>4. IsFiniteSet(Over(S))
    BY <1>2, <1>3, FS_Subset
<1>5. QED
    BY <1>4, FS_CardinalityType

\* With no task at all nothing is over, and nothing is counted.
LEMMA NothingOver == Quiet => \A S : Over(S) = {} /\ Cardinality(Over(S)) = 0
BY FS_EmptySet DEF Quiet, Over

\* Only a tally ends a task, only a launch and a crash reset the counters.
LEMMA EndingSteps ==
    ASSUME IInv, [Next]_vars
    PROVE  \/ crashes' # 0
           \/ Launch
           \/ \E s \in Slots : Tally(s)
           \/ /\ counters' = counters /\ crashes' = crashes
              /\ \A s \in Slots : pc'[s] = "done" <=> pc[s] = "done"
<1> DEFINE Same == /\ counters' = counters /\ crashes' = crashes
                   /\ \A s \in Slots : pc'[s] = "done" <=> pc[s] = "done"
<1>1. pc \in [Slots -> TaskPc] /\ crashes \in Nat /\ next \in Nat
    BY FanoutAssumption DEF IInv, TypeInv, TypeOK
<1>2. CASE UNCHANGED <<pc, counters, crashes>>
    BY <1>2
<1>3. CASE DriveDispatch
    <2>1. /\ <<next, 1>> \in Slots /\ pc[<<next, 1>>] = "none"
        BY <1>3, FirstSlot DEF DriveDispatch, IInv, TypeInv, DriveInv, Devices
    <2>2. pc' = [pc EXCEPT ![<<next, 1>>] = "spawned"]
          /\ counters' = counters /\ crashes' = crashes
        BY <1>3 DEF DriveDispatch
    <2>3. Same
        BY <1>1, <2>1, <2>2
    <2>4. QED
        BY <2>3
<1>4. ASSUME NEW s \in Slots, RunOne(s) \/ Retry(s), ~Tally(s) PROVE Same
    <2>1. /\ counters' = counters /\ crashes' = crashes
          /\ \E from, to \in TaskPc \ {"done"} : Goto(s, from, to)
        BY <1>4 DEF RunOne, Retry, Begin, CredsMissing, Connect, CancelTaken,
           WorkerError, WorkerOutput, Succeed, RetryReopen, RetryArm,
           RetryDispatch, Settle, TaskPc, Permitted, Retrying, Worked, Tallying
    <2>2. QED
        BY <1>1, <2>1 DEF Goto
<1>5. ASSUME NEW s \in Slots, RetryInsert(s) PROVE Same
    <2>1. /\ pc'[s] = "inserted" /\ counters' = counters /\ crashes' = crashes
          /\ \A t \in Slots : t # s => pc'[t] = pc[t]
        BY <1>5, RetryFrame DEF IInv
    <2>2. pc[s] # "done"
        BY <1>5, RetryFacts
           DEF IInv, TaskInv, RowTracksTask, Retryable
    <2>3. QED
        BY <2>1, <2>2
<1>6. CASE Crash
    BY <1>1, <1>6 DEF Crash
<1>7. ASSUME \/ \E refuse \in BOOLEAN : StartRun(refuse)
             \/ BlockMember \/ BlockRun \/ Register
             \/ DriveCheck \/ DriveJoin \/ DriveRoll
             \/ \E d \in Devices : CancelDevice(d)
             \/ CancelRun \/ SweepRows \/ SweepRun \/ SweepNothing
             \/ UNCHANGED vars
      PROVE  UNCHANGED <<pc, counters, crashes>>
    BY <1>7 DEF StartRun, BlockMember, BlockRun, Register, DriveCheck, DriveJoin,
       DriveRoll, CancelDevice, CancelRun, SweepRows, SweepRun, SweepNothing, vars
<1>8. QED
    BY <1>2, <1>3, <1>4, <1>5, <1>6, <1>7
       DEF Same, Next, Spawner, Driver, Boot

\* A tally adds the attempt to the outcome its counter counts.
LEMMA TallyCounts ==
    ASSUME IInv, ExactInv, NEW s \in Slots, Tally(s)
    PROVE  ExactInv'
<1> SUFFICES ASSUME crashes = 0
             PROVE  /\ counters'.success = Cardinality(Over({"success"})')
                    /\ counters'.failed = Cardinality(Over({"failed", "timeout"})')
                    /\ counters'.cancelled = Cardinality(Over({"cancelled"})')
    BY DEF ExactInv, Tally
<1>1. /\ pc \in [Slots -> TaskPc]
      /\ counters \in [success : Nat, failed : Nat, cancelled : Nat]
    BY DEF IInv, TypeInv, TypeOK
<1>2. /\ pc[s] \in Tallying /\ row' = row
      /\ pc' = [pc EXCEPT ![s] = "done"]
      /\ counters' = [counters EXCEPT ![CounterOf[pc[s]]] = @ + 1]
    BY DEF Tally
<1>3. ASSUME NEW S
      PROVE  Cardinality(Over(S)') = IF row[s] \in S
                                     THEN Cardinality(Over(S)) + 1
                                     ELSE Cardinality(Over(S))
    <2>1. s \notin Over(S)
        BY <1>2 DEF Over, Tallying
    <2>2. CASE row[s] \in S
        <3>1. Over(S)' = Over(S) \cup {s}
            BY <1>1, <1>2, <2>2 DEF Over
        <3>2. QED
            BY <2>1, <2>2, <3>1, OverFinite, FS_AddElement
    <2>3. CASE row[s] \notin S
        <3>1. Over(S)' = Over(S)
            BY <1>1, <1>2, <2>3 DEF Over, Tallying
        <3>2. QED
            BY <2>3, <3>1
    <2>4. QED
        BY <2>2, <2>3
<1>4. /\ counters.success = Cardinality(Over({"success"}))
      /\ counters.failed = Cardinality(Over({"failed", "timeout"}))
      /\ counters.cancelled = Cardinality(Over({"cancelled"}))
    BY DEF ExactInv
<1>5. CASE pc[s] = "tally_success"
    <2>1. row[s] = "success"
        BY <1>5 DEF IInv, TaskInv, RowTracksTask
    <2>2. /\ counters'.success = counters.success + 1
          /\ counters'.failed = counters.failed
          /\ counters'.cancelled = counters.cancelled
        BY <1>1, <1>2, <1>5 DEF CounterOf
    <2>3. QED
        BY <1>3, <1>4, <2>1, <2>2
<1>6. CASE pc[s] = "tally_failed"
    <2>1. row[s] \in {"failed", "timeout"}
        BY <1>6 DEF IInv, TaskInv, RowTracksTask
    <2>2. /\ counters'.success = counters.success
          /\ counters'.failed = counters.failed + 1
          /\ counters'.cancelled = counters.cancelled
        BY <1>1, <1>2, <1>6 DEF CounterOf
    <2>3. QED
        BY <1>3, <1>4, <2>1, <2>2
<1>7. CASE pc[s] = "tally_cancelled"
    <2>1. row[s] = "cancelled"
        BY <1>7 DEF IInv, TaskInv, RowTracksTask
    <2>2. /\ counters'.success = counters.success
          /\ counters'.failed = counters.failed
          /\ counters'.cancelled = counters.cancelled + 1
        BY <1>1, <1>2, <1>7 DEF CounterOf
    <2>3. QED
        BY <1>3, <1>4, <2>1, <2>2
<1>8. QED
    BY <1>2, <1>5, <1>6, <1>7 DEF Tallying

\* Every step keeps the counters exact.
LEMMA ExactStep == IInv /\ ExactInv /\ [Next]_vars => ExactInv'
<1> SUFFICES ASSUME IInv, ExactInv, [Next]_vars PROVE ExactInv'
    OBVIOUS
<1>1. CASE crashes' # 0
    BY <1>1 DEF ExactInv
<1>2. CASE Launch
    <2>1. Quiet /\ pc' = pc /\ counters' = NoCounts
        BY <1>2 DEF Launch, IInv, SpawnInv
    <2>2. Quiet'
        BY <2>1 DEF Quiet
    <2>3. \A S : Cardinality(Over(S)') = 0
        BY <2>2, FS_EmptySet DEF Quiet, Over
    <2>4. QED
        BY <2>1, <2>3 DEF ExactInv, NoCounts
<1>3. ASSUME NEW s \in Slots, Tally(s) PROVE ExactInv'
    BY <1>3, TallyCounts
<1>4. CASE /\ counters' = counters /\ crashes' = crashes
           /\ \A s \in Slots : pc'[s] = "done" <=> pc[s] = "done"
    <2>1. \A s \in Slots : pc[s] = "done" => row'[s] = row[s]
        <3>1. \A s \in Slots : pc[s] = "done" => row[s] \in Settled
            BY DEF IInv, TaskInv, RowTracksTask, Settled
        <3>2. QED
            BY <3>1, OutcomeStep
    <2>2. \A S : Over(S)' = Over(S)
        BY <1>4, <2>1 DEF Over
    <2>3. QED
        BY <1>4, <2>2 DEF ExactInv
<1>5. QED
    BY <1>1, <1>2, <1>3, <1>4, EndingSteps

\* Until a crash the three counters are the numbers of attempts that ended with
\* success, failed or timed out, and were cancelled, retries included.
THEOREM ExactCounters == Spec => []CountersAreExact
<1>1. Init => ExactInv
    <2> SUFFICES ASSUME Init PROVE ExactInv
        OBVIOUS
    <2>1. Quiet /\ counters = NoCounts
        BY DEF Init, Quiet
    <2>2. QED
        BY <2>1, NothingOver DEF ExactInv, NoCounts
<1>2. IInv /\ ExactInv /\ [Next]_vars => ExactInv'
    BY ExactStep
<1>3. ExactInv => CountersAreExact
    BY DEF ExactInv, Over, CountersAreExact
<1>4. QED
    BY <1>1, <1>2, <1>3, Invariance, PTL DEF Spec

-----------------------------------------------------------------------------
(* The executor implements the ledger *)

\* The tasks that are under way move only with pc.
LEMMA LiveFrame == pc' = pc => LiveSlots' = LiveSlots
BY DEF LiveSlots, Live

\* Every initial state of the executor is one of the ledger.
LEMMA LedgerInit == Init => Ledger!LInit
BY DEF Init, Ledger!LInit, Ledger!Slots, Slots, LiveSlots, Live

\* Every step of the executor is a step of the ledger or leaves it alone.
LEMMA LedgerStep == IInv /\ IInv' /\ [Next]_vars => [Ledger!LNext]_Ledger!lvars
<1> SUFFICES ASSUME IInv, IInv', [Next]_vars
             PROVE  Ledger!LNext \/ UNCHANGED <<row, runStatus, LiveSlots>>
    BY DEF Ledger!lvars
<1> USE SlotPair, FirstSlot
    DEF IInv, TypeInv, TypeOK, TaskInv, RowTracksTask, SpawnInv, DriveInv,
        Quiet, Settled, Retryable, Worked, Retrying, Open, Permitted, Tallying,
        Ledger!LNext, Ledger!Slots, Slots, Ledger!Outcomes, Ledger!Settled
<1>0. Quiet => LiveSlots = {}
    BY DEF LiveSlots, Live
<1>1. ASSUME NEW refuse \in BOOLEAN, StartRun(refuse) PROVE Ledger!Open
    BY <1>1, LiveFrame DEF StartRun, Ledger!Open
<1>2. ASSUME BlockMember PROVE Ledger!Refuse(<<next, 1>>) /\ <<next, 1>> \in Slots
    BY <1>2, <1>0, LiveFrame DEF BlockMember, Devices, Ledger!Refuse
<1>3. ASSUME BlockRun
      PROVE  \E status \in Ledger!Verdicts : Ledger!Close(status)
    <2>1. RollUp(0, N, 0) \in RunVerdict \ {"partial", "cancelled"}
        BY FanoutAssumption DEF RollUp, RunVerdict
    <2>2. RollUp(0, N, 0) = "success" => Devices = {}
        <3>1. RollUp(0, N, 0) = "success" => N = 0
            BY FanoutAssumption DEF RollUp
        <3>2. N = 0 => Devices = {}
            BY DEF Devices
        <3>3. QED
            BY <3>1, <3>2
    <2>3. \A d \in Devices : row[<<d, 1>>] = "blocked_by_guardrail"
        <3>1. TAKE d \in Devices
        <3>2. <<d, 1>> \in Slots /\ d < next
            BY <1>3, FanoutAssumption DEF BlockRun, Devices
        <3>3. QED
            BY <1>3, <3>2 DEF BlockRun
    <2>4. Ledger!Honest(RollUp(0, N, 0))
        BY <2>1, <2>2, <2>3 DEF Ledger!Honest, Ledger!First
    <2>5. LiveSlots' = LiveSlots /\ LiveSlots = {}
        BY <1>3, <1>0, LiveFrame DEF BlockRun
    <2>6. QED
        BY <1>3, <2>1, <2>4, <2>5
           DEF BlockRun, Ledger!Close, Ledger!Verdicts, RunVerdict
<1>4. CASE Launch \/ Register \/ DriveCheck \/ DriveJoin
    BY <1>4, LiveFrame DEF Launch, Register, DriveCheck, DriveJoin
<1>5. ASSUME DriveDispatch
      PROVE  Ledger!Admit(<<next, 1>>) /\ <<next, 1>> \in Slots
    <2>1. <<next, 1>> \in Slots /\ pc[<<next, 1>>] = "none"
        BY <1>5 DEF DriveDispatch, Devices
    <2>2. pc' = [pc EXCEPT ![<<next, 1>>] = "spawned"]
        BY <1>5 DEF DriveDispatch
    <2>3. LiveSlots' = LiveSlots \cup {<<next, 1>>}
        BY <2>1, <2>2 DEF LiveSlots, Live
    <2>4. <<next, 1>> \notin LiveSlots
        BY <2>1 DEF LiveSlots, Live
    <2>5. QED
        BY <1>5, <2>1, <2>3, <2>4 DEF DriveDispatch, Ledger!Admit
<1>6. ASSUME DriveRoll
      PROVE  \E status \in Ledger!Verdicts : Ledger!Close(status)
    <2>1. Ledger!Honest(verdict)
        BY <1>6 DEF DriveRoll, VerdictInv
    <2>2. \A d \in Devices : <<d, 1>> \notin LiveSlots
        BY <1>6 DEF DriveRoll, LiveSlots, Live
    <2>3. QED
        BY <1>6, <2>1, <2>2, LiveFrame
           DEF DriveRoll, Ledger!Close, Ledger!Verdicts, RunVerdict
<1>7. ASSUME NEW s \in Slots, RunOne(s)
      PROVE  \/ Ledger!Begin(s)
             \/ \E outcome \in Ledger!Outcomes : Ledger!Settle(s, outcome)
             \/ Ledger!Retire(s)
             \/ UNCHANGED <<row, runStatus, LiveSlots>>
    <2> USE DEF Goto, Settle
    <2>1. CASE Begin(s)
        <3>1. s \in LiveSlots /\ LiveSlots' = LiveSlots
            BY <2>1 DEF Begin, LiveSlots, Live
        <3>2. QED
            BY <2>1, <3>1 DEF Begin, Ledger!Begin
    <2>2. CASE CredsMissing(s) \/ CancelTaken(s) \/ Succeed(s) \/ WorkerError(s)
        <3>1. s \in LiveSlots /\ LiveSlots' = LiveSlots /\ row[s] = "running"
            BY <2>2 DEF CredsMissing, CancelTaken, Succeed, WorkerError,
               LiveSlots, Live
        <3>2. PICK outcome \in Ledger!Outcomes :
                  row' = [row EXCEPT ![s] = outcome] /\ runStatus' = runStatus
            BY <2>2 DEF CredsMissing, CancelTaken, Succeed, WorkerError
        <3> HIDE DEF LiveSlots, Ledger!Outcomes
        <3>3. Ledger!Settle(s, outcome)
            BY <3>1, <3>2 DEF Ledger!Settle
        <3>4. QED
            BY <3>3
    <2>3. CASE Connect(s) \/ WorkerOutput(s)
        <3>1. LiveSlots' = LiveSlots
            BY <2>3 DEF Connect, WorkerOutput, LiveSlots, Live
        <3>2. QED
            BY <2>3, <3>1 DEF Connect, WorkerOutput
    <2>4. CASE Tally(s)
        <3>1. s \in LiveSlots /\ LiveSlots' = LiveSlots \ {s}
            BY <2>4 DEF Tally, LiveSlots, Live
        <3>2. row[s] \in Ledger!Outcomes
            BY <2>4 DEF Tally
        <3>3. QED
            BY <2>4, <3>1, <3>2 DEF Tally, Ledger!Retire
    <2>5. QED
        BY <1>7, <2>1, <2>2, <2>3, <2>4 DEF RunOne
<1>8. ASSUME NEW s \in Slots, RetryInsert(s) PROVE Ledger!Attempt(s)
    <2>1. LiveSlots' = LiveSlots \cup {s}
        BY <1>8 DEF RetryInsert, LiveSlots, Live
    <2>2. \E a \in Attempts : a < s[2] /\ row[<<s[1], a>>] \in Settled
        BY <1>8, RetryFacts
    <2>3. QED
        <3>1. /\ s[2] > 1 /\ row[s] = "none"
              /\ row[<<s[1], s[2] - 1>>] # "none"
            BY <1>8, RetryFacts
        <3>2. row' = [row EXCEPT ![s] = "pending"] /\ runStatus' = runStatus
            BY <1>8 DEF RetryInsert
        <3>3. Settled = Ledger!Settled
            BY DEF Settled, Retryable, Ledger!Settled, Ledger!Outcomes
        <3> HIDE DEF LiveSlots, Settled, Ledger!Settled
        <3>4. \E a \in Attempts : a < s[2] /\ row[<<s[1], a>>] \in Ledger!Settled
            BY <2>2, <3>3
        <3>5. QED
            BY <2>1, <3>1, <3>2, <3>4 DEF Ledger!Attempt
<1>9. ASSUME NEW s \in Slots, Retry(s)
      PROVE  Ledger!Reopen \/ UNCHANGED <<row, runStatus, LiveSlots>>
    <2>1. LiveSlots' = LiveSlots /\ s \in LiveSlots
        BY <1>9 DEF Retry, RetryReopen, RetryArm, RetryDispatch, Goto,
           LiveSlots, Live
    <2>2. CASE RetryReopen(s)
        BY <2>1, <2>2 DEF RetryReopen, Goto, Ledger!Reopen
    <2>3. CASE RetryArm(s) \/ RetryDispatch(s)
        BY <2>1, <2>3 DEF RetryArm, RetryDispatch
    <2>4. QED
        BY <1>9, <2>2, <2>3 DEF Retry
<1>10. CASE CancelRun \/ \E d \in Devices : CancelDevice(d)
    BY <1>10, LiveFrame DEF CancelRun, CancelDevice
<1>11. ASSUME Crash PROVE Ledger!Die
    BY <1>11 DEF Crash, Ledger!Die, LiveSlots, Live
<1>12. ASSUME SweepRows PROVE Ledger!FailRows
    BY <1>12, <1>0, LiveFrame DEF SweepRows, Ledger!FailRows
<1>13. ASSUME SweepRun PROVE Ledger!FailRun
    <2>1. \A s \in Slots : row[s] \in Settled \cup {"none"}
        BY <1>13 DEF SweepRun, RowStatus
    <2>2. QED
        BY <1>13, <1>0, <2>1, LiveFrame DEF SweepRun, Ledger!FailRun
<1>14. CASE SweepNothing
    BY <1>14, LiveFrame DEF SweepNothing
<1>15. CASE UNCHANGED vars
    BY <1>15, LiveFrame DEF vars
<1>16. QED
    <2> HIDE DEF IInv, TypeInv, TypeOK, TaskInv, SpawnInv, DriveInv
    <2>1. CASE \E s \in Slots : RunOne(s) \/ RetryInsert(s) \/ Retry(s)
        BY <2>1, <1>7, <1>8, <1>9
    <2>2. CASE Spawner \/ Driver \/ Boot
        BY <2>2, <1>2, <1>3, <1>4, <1>5, <1>6, <1>12, <1>13, <1>14
           DEF Spawner, Driver, Boot
    <2>3. QED
        BY <2>1, <2>2, <1>1, <1>10, <1>11, <1>15 DEF Next

\* The tables of a fan-out run behave as the ledger promises, for every number
\* of members, permits, retries and crashes.
THEOREM Implementation == Spec => ImplementsLedger
<1>1. IInv /\ IInv' /\ [Next]_vars => [Ledger!LNext]_Ledger!lvars
    BY LedgerStep
<1>2. QED
    BY <1>1, LedgerInit, Invariance, PTL
       DEF Spec, ImplementsLedger, Ledger!LSpec
=============================================================================
