------------------------------ MODULE Supervisor ------------------------------
(***************************************************************************)
(* SidecarSupervisor of src-tauri/src/bridge.rs: requests of many threads  *)
(* to one Python child at a time over two pipes, and the reader thread     *)
(* that hands its answers out by the id of the request.  The child is the  *)
(* request loop of sidecar/src/ccie_sidecar/server.py, which serves one    *)
(* request after the other and may die.                                    *)
(*                                                                         *)
(* A call is one request with an id of its own.  Critical sections of the  *)
(* two mutexes are single steps, except that of a write the pipe has no    *)
(* room for.  Heartbeats have no id and need no lock; they are left out.   *)
(***************************************************************************)
EXTENDS Naturals, Sequences

CONSTANTS
    Calls,        \* requests
    Timed,        \* those that wait with an idle timeout, the others have none
    Big,          \* those larger than what the pipe holds
    MaxChildren,  \* bound: children ever spawned; another spawn fails
    Noisy,        \* those that may print a line that is not UTF-8
    MaxEvents,    \* bound: events of a request besides its last
    Room,         \* lines the child's stdout holds
    None

Kinds == {"more", "done", "error", "lost"}
Lines == [of : Calls, kind : Kinds]

ASSUME SupervisorAssumption ==
    /\ Timed \subseteq Calls
    /\ Big \subseteq Calls
    /\ MaxChildren \in Nat
    /\ Noisy \subseteq 1..MaxChildren
    /\ MaxEvents \in Nat
    /\ Room \in Nat \ {0}
    /\ None \notin Calls \cup Lines

Children == 1..MaxChildren

VARIABLES
    slot,     \* self.inner: the last child, 0 = None
    born,     \* children spawned
    proc,     \* child -> state of its process
    reader,   \* child -> state of its reader thread: "broken" once it could not
              \* read a line, "deaf" if it ended before its child did
    hand,     \* child -> the event its reader has read and not handed out
    writer,   \* child -> the call that holds Inner's lock while it writes
    pending,  \* child -> Inner.pending
    stdin,    \* child -> requests written and not yet read
    stdout,   \* child -> lines written and not yet read
    serving,  \* child -> the request it works on
    emitted,  \* events of a request so far
    at,       \* where a call is
    inner,    \* the child a call was given
    mail      \* the channel of a call

childVars == <<stdin, stdout, serving, emitted>>
callVars  == <<at, inner, mail>>
vars == <<slot, born, proc, reader, hand, writer, pending, childVars, callVars>>

Init ==
    /\ slot = 0
    /\ born = 0
    /\ proc    = [i \in Children |-> "none"]
    /\ reader  = [i \in Children |-> "off"]
    /\ hand    = [i \in Children |-> None]
    /\ writer  = [i \in Children |-> None]
    /\ pending = [i \in Children |-> {}]
    /\ stdin   = [i \in Children |-> <<>>]
    /\ stdout  = [i \in Children |-> <<>>]
    /\ serving = [i \in Children |-> None]
    /\ emitted = [c \in Calls |-> 0]
    /\ at      = [c \in Calls |-> "idle"]
    /\ inner   = [c \in Calls |-> 0]
    /\ mail    = [c \in Calls |-> <<>>]

Unlocked(i) == writer[i] = None
Move(c, to) == at' = [at EXCEPT ![c] = to]

-----------------------------------------------------------------------------
(* The calls *)

Call(c) ==
    /\ at[c] = "idle"
    /\ Move(c, "ask")
    /\ UNCHANGED <<slot, born, proc, reader, hand, writer, pending, childVars, inner, mail>>

\* get_or_spawn: the child that is there and alive ...
Get(c) ==
    /\ at[c] = "ask"
    /\ slot # 0
    /\ Unlocked(slot)
    /\ proc[slot] = "alive"
    /\ Move(c, "got")
    /\ inner' = [inner EXCEPT ![c] = slot]
    /\ UNCHANGED <<slot, born, proc, reader, hand, writer, pending, childVars, mail>>

Vacant == slot # 0 => Unlocked(slot) /\ proc[slot] = "dead"

\* ... or a new one with its reader
Spawn(c) ==
    /\ at[c] = "ask"
    /\ Vacant
    /\ born < MaxChildren
    /\ born' = born + 1
    /\ slot' = born'
    /\ proc' = [proc EXCEPT ![born'] = "alive"]
    /\ reader' = [reader EXCEPT ![born'] = "reading"]
    /\ Move(c, "got")
    /\ inner' = [inner EXCEPT ![c] = born']
    /\ UNCHANGED <<hand, writer, pending, childVars, mail>>

SpawnFails(c) ==
    /\ at[c] = "ask"
    /\ Vacant
    /\ Move(c, "returned")
    /\ UNCHANGED <<slot, born, proc, reader, hand, writer, pending, childVars, inner, mail>>

\* mutated: the result of the write is ignored.
Send_Blind(c) ==
    LET i == inner[c] IN
    /\ at[c] = "got"
    /\ Unlocked(i)
    /\ pending' = [pending EXCEPT ![i] = @ \cup {c}]
    /\ stdin' = [stdin EXCEPT ![i] = Append(@, c)]
    /\ Move(c, "wait")
    /\ UNCHANGED <<slot, born, proc, reader, hand, writer, stdout, serving, emitted, inner, mail>>

\* pending.insert and write_all under one lock; nobody reads the pipe of a
\* child that is dead, so the write fails and the entry is taken back
Send(c) ==
    LET i == inner[c] IN
    /\ at[c] = "got"
    /\ Unlocked(i)
    /\ \/ /\ proc[i] = "dead"
          /\ Move(c, "returned")
          /\ UNCHANGED <<pending, stdin, writer>>
       \/ /\ proc[i] = "alive"
          /\ pending' = [pending EXCEPT ![i] = @ \cup {c}]
          /\ IF c \in Big
             THEN /\ writer' = [writer EXCEPT ![i] = c]
                  /\ Move(c, "write")
                  /\ UNCHANGED stdin
             ELSE /\ stdin' = [stdin EXCEPT ![i] = Append(@, c)]
                  /\ Move(c, "wait")
                  /\ UNCHANGED writer
    /\ UNCHANGED <<slot, born, proc, reader, hand, stdout, serving, emitted, inner, mail>>

\* write_all goes on once the child reads, or fails once it is dead.
WriteOn(c) ==
    LET i == inner[c] IN
    /\ at[c] = "write"
    /\ \/ /\ proc[i] = "alive"
          /\ serving[i] = None
          /\ stdin[i] = <<>>
          /\ stdin' = [stdin EXCEPT ![i] = <<c>>]
          /\ Move(c, "wait")
          /\ UNCHANGED pending
       \/ /\ proc[i] = "dead"
          /\ pending' = [pending EXCEPT ![i] = @ \ {c}]
          /\ Move(c, "returned")
          /\ UNCHANGED stdin
    /\ writer' = [writer EXCEPT ![i] = None]
    /\ UNCHANGED <<slot, born, proc, reader, hand, stdout, serving, emitted, inner, mail>>

\* recv: an event for on_event, which may fail and leaves the entry behind
\* then; or the last one
Receive(c) ==
    /\ at[c] = "wait"
    /\ mail[c] # <<>>
    /\ mail' = [mail EXCEPT ![c] = Tail(@)]
    /\ \/ Head(mail[c]) = "more" /\ UNCHANGED at
       \/ Move(c, "returned")
    /\ UNCHANGED <<slot, born, proc, reader, hand, writer, pending, childVars, inner>>

\* recv_timeout: no event for the length of the timeout
TimesOut(c) ==
    /\ c \in Timed
    /\ at[c] = "wait"
    /\ mail[c] = <<>>
    /\ Move(c, "late")
    /\ UNCHANGED <<slot, born, proc, reader, hand, writer, pending, childVars, inner, mail>>

GiveUp(c) ==
    /\ at[c] = "late"
    /\ Unlocked(inner[c])
    /\ pending' = [pending EXCEPT ![inner[c]] = @ \ {c}]
    /\ Move(c, "returned")
    /\ UNCHANGED <<slot, born, proc, reader, hand, writer, childVars, inner, mail>>

-----------------------------------------------------------------------------
(* The child *)

Serve(i) ==
    /\ proc[i] = "alive"
    /\ serving[i] = None
    /\ stdin[i] # <<>>
    /\ serving' = [serving EXCEPT ![i] = Head(stdin[i])]
    /\ stdin' = [stdin EXCEPT ![i] = Tail(@)]
    /\ UNCHANGED <<slot, born, proc, reader, hand, writer, pending, stdout, emitted, callVars>>

\* run_loop writes a line.  With the reader its end of the pipe is gone: then
\* the write raises, the handler's own error message does too, and the child
\* Dies.
WriteLine(i, kind) ==
    /\ proc[i] = "alive"
    /\ serving[i] # None
    /\ reader[i] # "deaf"
    /\ Len(stdout[i]) < Room
    /\ stdout' = [stdout EXCEPT ![i] = Append(@, [of |-> serving[i], kind |-> kind])]
    /\ UNCHANGED <<slot, born, proc, reader, hand, writer, pending, stdin, callVars>>

\* An event of a stream; an agent's error is one too, and "done" still follows.
Emit(i) ==
    /\ serving[i] # None /\ emitted[serving[i]] < MaxEvents
    /\ \E kind \in {"more", "error"} : WriteLine(i, kind)
    /\ emitted' = [emitted EXCEPT ![serving[i]] = @ + 1]
    /\ UNCHANGED serving

Finish(i) ==
    /\ \E kind \in {"done", "error"} : WriteLine(i, kind)
    /\ serving' = [serving EXCEPT ![i] = None]
    /\ UNCHANGED emitted

Dies(i) ==
    /\ proc[i] = "alive"
    /\ proc' = [proc EXCEPT ![i] = "dead"]
    /\ UNCHANGED <<slot, born, reader, hand, writer, pending, childVars, callVars>>

-----------------------------------------------------------------------------
(* The reader thread of a child *)

ReadLine(i) ==
    /\ reader[i] = "reading"
    /\ hand[i] = None
    /\ stdout[i] # <<>>
    /\ hand' = [hand EXCEPT ![i] = Head(stdout[i])]
    /\ stdout' = [stdout EXCEPT ![i] = Tail(@)]
    /\ UNCHANGED <<slot, born, proc, reader, writer, pending, stdin, serving, emitted, callVars>>

Tell(S, kind) ==
    mail' = [c \in Calls |-> IF c \in S /\ at[c] # "returned"
                             THEN Append(mail[c], kind) ELSE mail[c]]

\* The entry is looked up, and taken out for the last event, under the lock.
Route(i) ==
    LET e == hand[i] IN
    /\ e # None
    /\ Unlocked(i)
    /\ Tell({e.of} \cap pending[i], e.kind)
    /\ pending' = [pending EXCEPT ![i] = IF e.kind = "more" THEN @ ELSE @ \ {e.of}]
    /\ hand' = [hand EXCEPT ![i] = None]
    /\ UNCHANGED <<slot, born, proc, reader, writer, childVars, at, inner>>

\* read_line fails on a line that something in the child has printed past
\* run_loop; the child may well live on.
ReadFails(i) ==
    /\ i \in Noisy
    /\ reader[i] = "reading"
    /\ hand[i] = None
    /\ reader' = [reader EXCEPT ![i] = "broken"]
    /\ UNCHANGED <<slot, born, proc, hand, writer, pending, childVars, callVars>>

EndOfFile(i) ==
    /\ reader[i] = "reading"
    /\ hand[i] = None
    /\ stdout[i] = <<>>
    /\ proc[i] = "dead"

\* Ok(0) | Err(_), and the lock of the table
Leaves(i) == (EndOfFile(i) \/ reader[i] = "broken") /\ Unlocked(i)

Ended(i) == IF proc[i] = "alive" THEN "deaf" ELSE "gone"

\* mutated: the reader ends without a word.
Drain_Silent(i) ==
    /\ Leaves(i)
    /\ reader' = [reader EXCEPT ![i] = Ended(i)]
    /\ UNCHANGED <<slot, born, proc, hand, writer, pending, childVars, callVars>>

\* When the reader leaves everybody who waits is told.
Drain(i) ==
    /\ Leaves(i)
    /\ Tell(pending[i], "lost")
    /\ pending' = [pending EXCEPT ![i] = {}]
    /\ reader' = [reader EXCEPT ![i] = Ended(i)]
    /\ UNCHANGED <<slot, born, proc, hand, writer, childVars, at, inner>>

-----------------------------------------------------------------------------
\* mutated: the child is forgotten and not killed.
Shutdown_NoKill ==
    /\ slot # 0
    /\ Unlocked(slot)
    /\ slot' = 0
    /\ UNCHANGED <<born, proc, reader, hand, writer, pending, childVars, callVars>>

\* shutdown: both locks, kill and wait
Shutdown ==
    /\ slot # 0
    /\ Unlocked(slot)
    /\ proc' = [proc EXCEPT ![slot] = "dead"]
    /\ slot' = 0
    /\ UNCHANGED <<born, reader, hand, writer, pending, childVars, callVars>>

Next ==
    \/ \E c \in Calls :
          \/ Call(c) \/ Get(c) \/ Spawn(c) \/ SpawnFails(c) \/ Send(c)
          \/ WriteOn(c) \/ Receive(c) \/ TimesOut(c) \/ GiveUp(c)
    \/ \E i \in Children :
          \/ Serve(i) \/ Emit(i) \/ Finish(i) \/ Dies(i)
          \/ ReadLine(i) \/ ReadFails(i) \/ Route(i) \/ Drain(i)
    \/ Shutdown

Spec == Init /\ [][Next]_vars

\* Threads that can go on do, and time passes.  The child owes nothing.
Fairness ==
    /\ \A c \in Calls :
          /\ WF_vars(Get(c) \/ Spawn(c) \/ SpawnFails(c))
          /\ WF_vars(Send(c)) /\ WF_vars(WriteOn(c))
          /\ WF_vars(Receive(c)) /\ WF_vars(TimesOut(c)) /\ WF_vars(GiveUp(c))
    /\ \A i \in Children :
          WF_vars(ReadLine(i)) /\ WF_vars(Route(i)) /\ WF_vars(Drain(i))

FairSpec == Spec /\ Fairness

-----------------------------------------------------------------------------
(* Properties *)

TableTypeOK ==
    /\ slot \in 0..MaxChildren
    /\ born \in 0..MaxChildren
    /\ proc \in [Children -> {"none", "alive", "dead"}]
    /\ reader \in [Children -> {"off", "reading", "broken", "deaf", "gone"}]
    /\ writer \in [Children -> Calls \cup {None}]
    /\ pending \in [Children -> SUBSET Calls]
    /\ at \in [Calls -> {"idle", "ask", "got", "write", "wait", "late", "returned"}]
    /\ inner \in [Calls -> 0..MaxChildren]

PipesTypeOK ==
    /\ hand \in [Children -> Lines \cup {None}]
    /\ stdin \in [Children -> Seq(Calls)]
    /\ stdout \in [Children -> Seq(Lines)]
    /\ serving \in [Children -> Calls \cup {None}]
    /\ emitted \in [Calls -> Nat]
    /\ mail \in [Calls -> Seq(Kinds)]

\* Every variable stays in its domain.
TypeOK == TableTypeOK /\ PipesTypeOK

\* However calls, deaths and shutdowns interleave, no second child is started
\* beside one that lives: requests are served one at a time, which the agents'
\* terminals rely on (get_or_spawn and shutdown hold the slot's lock).
OneChild ==
    \A i, j \in Children : proc[i] = "alive" /\ proc[j] = "alive" => i = j

Told(c) == \E k \in 1..Len(mail[c]) : mail[c][k] # "more"

\* A call that waits has its last event in its channel, or is in the table of
\* its child, whose reader has yet to end or broke off before the child died.
\* So a call cannot enter the table of a dead child after its reader has
\* emptied it for the last time, though it may have been given the child long
\* before; and a reader that breaks off forgets nobody who waits by then.
\* Who calls a deaf child is the exception: no thread is left to tell him.
WaitersAreRegistered ==
    \A c \in Calls : at[c] = "wait" /\ ~Told(c) =>
        c \in pending[inner[c]] /\ reader[inner[c]] # "gone"

Going(c) == at[c] \notin {"idle", "returned"}

\* Unless a write stays stuck, a call with a timeout returns, whatever becomes
\* of the child and its reader, and one without returns if its child does not
\* live and had a reader to its end.
CallsEnd ==
    []<>(\A i \in Children : Unlocked(i)) =>
        \A c \in Calls :
            Going(c) ~> \/ at[c] = "returned"
                        \/ /\ c \notin Timed /\ inner[c] # 0
                           /\ proc[inner[c]] = "alive" \/ reader[inner[c]] = "deaf"

\* bridge.rs: "a genuinely wedged sidecar is still caught (just later)".
TimedCallsEnd == \A c \in Timed : Going(c) ~> at[c] = "returned"
=============================================================================
