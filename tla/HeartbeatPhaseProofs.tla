------------------------- MODULE HeartbeatPhaseProofs -------------------------
(***************************************************************************)
(* Proofs about HeartbeatPhase for every set of intervals and every clock: *)
(* the phase of a registration is kept, and no due time is answered twice  *)
(* or made up for.                                                         *)
(***************************************************************************)
EXTENDS HeartbeatPhase, TLAPS

\* A whole number of intervals of length i lie between a and t.
OnPhase(t, a, i) == \E k \in Int : t - a = k * i

-----------------------------------------------------------------------------
(* first_future_due *)

\* The first multiple of i past a number
LEMMA NextMultiple ==
    ASSUME NEW a \in Nat, NEW i \in Nat \ {0}
    PROVE  /\ a \div i \in Nat
           /\ (a \div i + 1) * i > a
           /\ (a \div i + 1) * i <= a + i
<1>1. a \div i \in Nat
    OBVIOUS
<1>2. i * (a \div i) <= a /\ a < i * (a \div i) + i
    OBVIOUS
<1> DEFINE q == a \div i
<1>3. q \in Nat /\ i * q <= a /\ a < i * q + i
    BY <1>1, <1>2
<1> HIDE DEF q
<1>4. (q + 1) * i = i * q + i /\ i * q \in Nat
    BY <1>3
<1>5. (q + 1) * i > a /\ (q + 1) * i <= a + i
    BY <1>3, <1>4
<1>6. QED
    BY <1>3, <1>5 DEF q

\* A time on the phase of another one is a multiple of the interval away.
LEMMA PhaseIsModular ==
    ASSUME NEW t \in Int, NEW a \in Int, NEW i \in Nat \ {0}, OnPhase(t, a, i)
    PROVE  (t - a) % i = 0
<1>1. PICK k \in Int : t - a = k * i
    BY DEF OnPhase
<1>2. (k * i) % i = 0
    OBVIOUS
<1>3. QED
    BY <1>1, <1>2

\* Going on by whole intervals keeps the phase.
LEMMA PhaseGoesOn ==
    ASSUME NEW t \in Int, NEW a \in Int, NEW i \in Nat \ {0}, NEW q \in Int,
           OnPhase(t, a, i)
    PROVE  OnPhase(t + q * i, a, i)
<1>1. PICK k \in Int : t - a = k * i
    BY DEF OnPhase
<1>2. k * i + q * i = (k + q) * i /\ q * i \in Int
    OBVIOUS
<1>3. (t + q * i) - a = (k + q) * i
    BY <1>1, <1>2
<1>4. QED
    BY <1>3 DEF OnPhase

\* What first_future_due returns lies strictly in the future, no more than an
\* interval of it away from the present when the anchor has passed, and on
\* every phase the anchor is on.
LEMMA FutureDue ==
    ASSUME NEW t \in Nat, NEW p \in Nat, NEW i \in Intervals
    PROVE  /\ FirstFutureDue(t, p, i) \in Nat
           /\ FirstFutureDue(t, p, i) > t
           /\ p <= t => FirstFutureDue(t, p, i) <= t + i
           /\ \A a \in Int : OnPhase(p, a, i)
                  => OnPhase(FirstFutureDue(t, p, i), a, i)
<1>1. i \in Nat \ {0} /\ p # None
    BY PhaseAssumption
<1>2. CASE p > t
    BY <1>1, <1>2 DEF FirstFutureDue
<1>3. CASE p <= t
    <2> DEFINE gap == t - p
               q == gap \div i + 1
    <2>1. gap \in Nat /\ t = p + gap
        BY <1>3
    <2>2. FirstFutureDue(t, p, i) = p + q * i
        BY <1>1, <1>3 DEF FirstFutureDue
    <2> HIDE DEF gap
    <2>3. gap \div i \in Nat /\ q * i > gap /\ q * i <= gap + i
        BY <1>1, <2>1, NextMultiple
    <2>4. q \in Nat
        BY <2>3
    <2> HIDE DEF q
    <2>5. q * i \in Nat
        BY <1>1, <2>4
    <2>6. p + q * i \in Nat /\ p + q * i > t /\ p + q * i <= t + i
        BY <1>1, <2>1, <2>3, <2>5
    <2>7. ASSUME NEW a \in Int, OnPhase(p, a, i)
          PROVE  OnPhase(p + q * i, a, i)
        <3>1. p \in Int /\ q \in Int
            BY <2>4
        <3>2. QED
            BY <1>1, <2>7, <3>1, PhaseGoesOn
    <2>8. QED
        BY <2>2, <2>6, <2>7
<1>4. QED
    BY <1>2, <1>3

\* A fresh registration is due one interval from now.
LEMMA FreshDue ==
    ASSUME NEW t \in Nat, NEW i \in Intervals
    PROVE  /\ FirstFutureDue(t, None, i) = t + i
           /\ t + i \in Nat /\ t + i > t
BY PhaseAssumption DEF FirstFutureDue

\* A time is on its own phase.
LEMMA PhaseOfItself ==
    ASSUME NEW t \in Int, NEW i \in Intervals
    PROVE  OnPhase(t, t, i)
<1>1. i \in Nat /\ t - t = 0 * i
    BY PhaseAssumption
<1>2. QED
    BY <1>1 DEF OnPhase

-----------------------------------------------------------------------------
(* The inductive invariant *)

\* Every variable is in its domain.
TypeInv ==
    /\ now \in Nat
    /\ interval \in Intervals
    /\ next \in Nat \cup {None}
    /\ started \in BOOLEAN
    /\ pc \in {"off", "wait", "due", "queued", "run"}
    /\ due \in Nat
    /\ pace \in Intervals
    /\ cancel \in BOOLEAN
    /\ handler \in {"none", "fresh", "shutdown"}
    /\ anchor \in Nat \cup {None}
    /\ consumed \in Int
    /\ freed \in Nat

\* A heartbeat that was ever started has a due time and a phase.
RowInv ==
    /\ anchor = None <=> next = None
    /\ started \/ pc # "off" \/ handler # "none" => next # None

\* The loop's own due time is the one in the row, and its interval too, until
\* an update has written another.
LoopInv ==
    pc # "off" => next = due /\ (handler # "fresh" => pace = interval)

\* PhaseIsKept
PhaseInv ==
    handler # "fresh" /\ anchor # None => OnPhase(next, anchor, interval)

\* A due time that is waited for lies after the last tick and after the moment
\* the wait began, and a tick is never early.
TickInv ==
    /\ consumed <= now
    /\ pc \in {"wait", "due"} => consumed < due /\ freed < due
    /\ pc = "due" => due <= now

IInv ==
    /\ TypeInv
    /\ RowInv
    /\ LoopInv
    /\ PhaseInv
    /\ TickInv

\* Before the first start there is neither a due time nor a phase.
LEMMA InitInvariant == Init => IInv
<1> SUFFICES ASSUME Init PROVE IInv
    OBVIOUS
<1>1. TypeInv
    <2>1. consumed \in Int /\ now \in Nat /\ due \in Nat /\ freed \in Nat
        BY DEF Init
    <2>2. /\ next \in Nat \cup {None} /\ anchor \in Nat \cup {None}
          /\ interval \in Intervals /\ pace \in Intervals
        BY DEF Init
    <2>3. /\ started \in BOOLEAN /\ cancel \in BOOLEAN
          /\ pc \in {"off", "wait", "due", "queued", "run"}
          /\ handler \in {"none", "fresh", "shutdown"}
        BY DEF Init
    <2>4. QED
        BY <2>1, <2>2, <2>3 DEF TypeInv
<1>2. RowInv /\ LoopInv /\ PhaseInv /\ TickInv
    BY DEF Init, RowInv, LoopInv, PhaseInv, TickInv
<1>3. QED
    BY <1>1, <1>2 DEF IInv

\* What is known of the time a loop computes from its own due time
LEMMA Advance ==
    ASSUME IInv, due' = FirstFutureDue(now, due, pace)
    PROVE  /\ due' \in Nat /\ due' > now /\ due' # None
           /\ handler # "fresh" /\ anchor # None /\ pc # "off"
                  => OnPhase(due', anchor, interval)
<1>1. due' \in Nat /\ due' > now
    BY FutureDue DEF IInv, TypeInv
<1>2. due' # None
    BY <1>1, PhaseAssumption
<1>3. ASSUME handler # "fresh", anchor # None, pc # "off"
      PROVE  OnPhase(due', anchor, interval)
    <2>1. OnPhase(due, anchor, pace) /\ pace = interval /\ anchor \in Int
        BY <1>3 DEF IInv, TypeInv, LoopInv, PhaseInv
    <2>2. OnPhase(due', anchor, pace)
        BY <2>1, FutureDue DEF IInv, TypeInv
    <2>3. QED
        BY <2>1, <2>2
<1>4. QED
    BY <1>1, <1>2, <1>3

\* ... and of one a handler computes from the row
LEMMA Preserve ==
    ASSUME IInv, handler # "fresh", next # None
    PROVE  /\ FirstFutureDue(now, next, interval) \in Nat
           /\ FirstFutureDue(now, next, interval) > now
           /\ FirstFutureDue(now, next, interval) # None
           /\ OnPhase(FirstFutureDue(now, next, interval), anchor, interval)
<1>1. next \in Nat /\ anchor \in Int /\ anchor # None /\ now \in Nat
      /\ interval \in Intervals
    BY DEF IInv, TypeInv, RowInv
<1>2. OnPhase(next, anchor, interval)
    BY <1>1 DEF IInv, PhaseInv
<1>3. /\ FirstFutureDue(now, next, interval) \in Nat
      /\ FirstFutureDue(now, next, interval) > now
      /\ OnPhase(FirstFutureDue(now, next, interval), anchor, interval)
    BY <1>1, <1>2, FutureDue
<1>4. QED
    BY <1>3, PhaseAssumption

\* Every step keeps the invariant.
LEMMA StepInvariant == IInv /\ [Next]_vars => IInv'
<1> SUFFICES ASSUME IInv, [Next]_vars PROVE IInv'
    OBVIOUS
<1>0. TypeInv /\ RowInv /\ LoopInv /\ PhaseInv /\ TickInv
    BY DEF IInv
<1> USE <1>0
<1>1. CASE Clock
    BY <1>1 DEF Clock, row, loop, ghosts,
       IInv, TypeInv, RowInv, LoopInv, PhaseInv, TickInv
<1>2. CASE Wake \/ StopWaiting
    BY <1>2 DEF Wake, StopWaiting, row, ghosts,
       IInv, TypeInv, RowInv, LoopInv, PhaseInv, TickInv
<1>3. CASE Tick
    <2>1. /\ due' = FirstFutureDue(now, due, pace) /\ pc = "due"
          /\ next' = due' /\ consumed' = due /\ pc' = "queued"
          /\ UNCHANGED <<now, interval, started, pace, cancel, handler, anchor,
                         freed>>
        BY <1>3 DEF Tick
    <2>2. /\ due' \in Nat /\ due' # None
          /\ handler # "fresh" /\ anchor # None
                 => OnPhase(due', anchor, interval)
        BY <2>1, Advance
    <2>3. TypeInv'
        BY <2>1, <2>2 DEF TypeInv
    <2>4. RowInv' /\ LoopInv'
        BY <2>1, <2>2 DEF TypeInv, RowInv, LoopInv
    <2>5. PhaseInv'
        BY <2>1, <2>2 DEF TypeInv, RowInv, PhaseInv
    <2>6. TickInv'
        BY <2>1, <2>2 DEF TypeInv, TickInv
    <2>7. QED
        BY <2>3, <2>4, <2>5, <2>6 DEF IInv
<1>4. CASE Admit
    BY <1>4 DEF Admit, row, ghosts,
       IInv, TypeInv, RowInv, LoopInv, PhaseInv, TickInv
<1>5. CASE RunEnds
    <2>1. /\ due' = FirstFutureDue(now, due, pace) /\ pc = "run"
          /\ next' = due' /\ freed' = now /\ pc' \in {"off", "wait"}
          /\ UNCHANGED <<now, interval, started, pace, cancel, handler, anchor,
                         consumed>>
        BY <1>5 DEF RunEnds
    <2>2. /\ due' \in Nat /\ due' > now /\ due' # None
          /\ handler # "fresh" /\ anchor # None
                 => OnPhase(due', anchor, interval)
        BY <2>1, Advance
    <2>3. TypeInv'
        BY <2>1, <2>2 DEF TypeInv
    <2>4. RowInv' /\ LoopInv'
        BY <2>1, <2>2 DEF TypeInv, RowInv, LoopInv
    <2>5. PhaseInv'
        BY <2>1, <2>2 DEF TypeInv, RowInv, PhaseInv
    <2>6. TickInv'
        BY <2>1, <2>2 DEF TypeInv, TickInv
    <2>7. QED
        BY <2>3, <2>4, <2>5, <2>6 DEF IInv
<1>6. ASSUME NEW i \in Intervals, Update(i) PROVE IInv'
    BY <1>6 DEF Update, ghosts,
       IInv, TypeInv, RowInv, LoopInv, PhaseInv, TickInv
<1>7. CASE Shutdown
    BY <1>7 DEF Shutdown, row, ghosts,
       IInv, TypeInv, RowInv, LoopInv, PhaseInv, TickInv
<1>8. CASE RegisterFresh
    <2> DEFINE time == FirstFutureDue(now, None, interval)
    <2>1. /\ next' = time /\ due' = time /\ pace' = interval /\ cancel' = FALSE
          /\ pc' = "wait" /\ freed' = now /\ anchor' = time /\ handler' = "none"
          /\ UNCHANGED <<now, interval, started, consumed>>
        BY <1>8 DEF RegisterFresh, Spawn
    <2>2. time \in Nat /\ time > now
        BY FreshDue DEF TypeInv
    <2> HIDE DEF time
    <2>3. time # None /\ OnPhase(time, time, interval)
        BY <2>2, PhaseAssumption, PhaseOfItself DEF TypeInv
    <2>4. TypeInv'
        BY <2>1, <2>2, <2>3 DEF TypeInv
    <2>5. RowInv' /\ LoopInv'
        BY <2>1, <2>2, <2>3 DEF TypeInv, RowInv, LoopInv
    <2>6. PhaseInv'
        BY <2>1, <2>2, <2>3 DEF TypeInv, RowInv, PhaseInv
    <2>7. TickInv'
        BY <2>1, <2>2, <2>3 DEF TypeInv, TickInv
    <2>8. QED
        BY <2>4, <2>5, <2>6, <2>7 DEF IInv
<1>9. CASE ShutdownEnds
    <2> DEFINE time == FirstFutureDue(now, next, interval)
    <2>1. /\ handler = "shutdown" /\ pc = "off" /\ next' = time
          /\ handler' = "none"
          /\ UNCHANGED <<now, interval, started, pc, due, pace, cancel, anchor,
                         consumed, freed>>
        BY <1>9 DEF ShutdownEnds, loop, ghosts
    <2>2. next # None
        BY <2>1 DEF RowInv
    <2>3. time \in Nat /\ time # None /\ OnPhase(time, anchor, interval)
        BY <2>1, <2>2, Preserve
    <2> HIDE DEF time
    <2>4. TypeInv'
        BY <2>1, <2>2, <2>3 DEF TypeInv
    <2>5. RowInv' /\ LoopInv'
        BY <2>1, <2>2, <2>3 DEF TypeInv, RowInv, LoopInv
    <2>6. PhaseInv'
        BY <2>1, <2>2, <2>3 DEF TypeInv, RowInv, PhaseInv
    <2>7. TickInv'
        BY <2>1, <2>2, <2>3 DEF TypeInv, TickInv
    <2>8. QED
        BY <2>4, <2>5, <2>6, <2>7 DEF IInv
<1>10. CASE Start
    <2> DEFINE time == FirstFutureDue(now, next, interval)
    <2>1. /\ handler = "none" /\ started' = TRUE
          /\ next' = time /\ due' = time /\ pace' = interval /\ cancel' = FALSE
          /\ pc' = "wait" /\ freed' = now
          /\ anchor' = IF anchor = None THEN time ELSE anchor
          /\ UNCHANGED <<now, interval, handler, consumed>>
        BY <1>10 DEF Start, Spawn
    <2>2. /\ time \in Nat /\ time > now /\ time # None
          /\ anchor' # None /\ anchor' \in Nat
          /\ OnPhase(time, anchor', interval)
        <3>1. CASE next = None
            <4>1. time \in Nat /\ time > now
                BY <3>1, FreshDue DEF TypeInv
            <4>2. anchor' = time
                BY <2>1, <3>1 DEF RowInv
            <4> HIDE DEF time
            <4>3. time # None /\ OnPhase(time, time, interval)
                BY <4>1, PhaseAssumption, PhaseOfItself DEF TypeInv
            <4>4. QED
                BY <4>1, <4>2, <4>3
        <3>2. CASE next # None
            <4>1. anchor' = anchor /\ anchor # None /\ anchor \in Nat
                BY <2>1, <3>2 DEF RowInv, TypeInv
            <4>2. /\ time \in Nat /\ time > now /\ time # None
                  /\ OnPhase(time, anchor, interval)
                BY <2>1, <3>2, Preserve
            <4> HIDE DEF time
            <4>3. QED
                BY <4>1, <4>2
        <3>3. QED
            BY <3>1, <3>2
    <2> HIDE DEF time
    <2>3. TypeInv'
        BY <2>1, <2>2 DEF TypeInv
    <2>4. RowInv' /\ LoopInv'
        BY <2>1, <2>2 DEF TypeInv, RowInv, LoopInv
    <2>5. PhaseInv'
        BY <2>1, <2>2 DEF TypeInv, RowInv, PhaseInv
    <2>6. TickInv'
        BY <2>1, <2>2 DEF TypeInv, TickInv
    <2>7. QED
        BY <2>3, <2>4, <2>5, <2>6 DEF IInv
<1>11. CASE Crash
    <2>1. /\ started' = FALSE /\ pc' = "off" /\ cancel' = FALSE
          /\ handler' = "none"
          /\ anchor' = IF handler = "fresh" THEN next ELSE anchor
          /\ UNCHANGED <<now, interval, next, due, pace, consumed, freed>>
        BY <1>11 DEF Crash, row
    <2>2. handler = "fresh" => next \in Nat /\ next # None
                               /\ OnPhase(next, next, interval)
        BY PhaseOfItself DEF RowInv, TypeInv
    <2>3. TypeInv'
        BY <2>1, <2>2 DEF TypeInv
    <2>4. RowInv' /\ LoopInv'
        BY <2>1, <2>2 DEF TypeInv, RowInv, LoopInv
    <2>5. PhaseInv'
        BY <2>1, <2>2 DEF TypeInv, RowInv, PhaseInv
    <2>6. TickInv'
        BY <2>1, <2>2 DEF TypeInv, TickInv
    <2>7. QED
        BY <2>3, <2>4, <2>5, <2>6 DEF IInv
<1>12. CASE UNCHANGED vars
    BY <1>12 DEF vars, row, loop, ghosts,
       IInv, TypeInv, RowInv, LoopInv, PhaseInv, TickInv
<1>13. QED
    BY <1>1, <1>2, <1>3, <1>4, <1>5, <1>6, <1>7, <1>8, <1>9, <1>10, <1>11, <1>12
       DEF Next

\* The row, the loop and the last tick agree with each other.
THEOREM PhaseInvariant == Spec => []IInv
<1>1. Init => IInv
    BY InitInvariant
<1>2. IInv /\ [Next]_vars => IInv'
    BY StepInvariant
<1>3. QED
    BY <1>1, <1>2, PTL DEF Spec

\* The next run is a whole number of intervals away from the registration's
\* first, through ticks, long runs, shutdowns and crashes.
THEOREM KeepsPhase == Spec => []PhaseIsKept
<1>1. IInv => PhaseIsKept
    <2> SUFFICES ASSUME IInv, handler # "fresh", anchor # None
                 PROVE  (next - anchor) % interval = 0
        BY DEF PhaseIsKept
    <2>1. /\ OnPhase(next, anchor, interval) /\ interval \in Nat \ {0}
          /\ next \in Int /\ anchor \in Int
        BY PhaseAssumption DEF IInv, TypeInv, RowInv, PhaseInv
    <2>2. QED
        BY <2>1, PhaseIsModular
<1>2. QED
    BY <1>1, PhaseInvariant, PTL

\* The due time of a tick is later than the last one's and than the moment the
\* loop began to wait for it: nothing missed is made up for.
THEOREM NeverReplays == Spec => TicksNeverReplay
<1>1. IInv /\ [Next]_vars
          => [consumed' # consumed => consumed' > consumed /\ consumed' > freed]_vars
    <2> SUFFICES ASSUME IInv, Next, consumed' # consumed
                 PROVE  consumed' > consumed /\ consumed' > freed
        OBVIOUS
    <2>1. Tick
        BY DEF Next, Clock, Wake, StopWaiting, Admit, RunEnds, Update, Shutdown,
           RegisterFresh, ShutdownEnds, Start, Crash, ghosts
    <2>2. QED
        BY <2>1 DEF Tick, IInv, TickInv
<1>2. QED
    BY <1>1, PhaseInvariant, PTL DEF Spec, TicksNeverReplay
=============================================================================
