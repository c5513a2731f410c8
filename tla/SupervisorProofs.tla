---------------------------- MODULE SupervisorProofs ----------------------------
(***************************************************************************)
(* Proofs about the sidecar's supervisor, for any calls, with and without  *)
(* timeout, large and small, and any number of children and events.        *)
(***************************************************************************)
EXTENDS Supervisor, TLAPS

USE SupervisorAssumption

\* The only child that may live is the one in the slot.
Slotted ==
    /\ slot <= born
    /\ \A i \in Children : /\ proc[i] = "none" <=> i > born
                           /\ proc[i] = "alive" => i = slot

\* A reader belongs to a child; one that has ended without being deaf has
\* seen the child's end.
ReadersLast ==
    \A i \in Children : /\ reader[i] = "off" <=> proc[i] = "none"
                        /\ reader[i] = "gone" => proc[i] = "dead"

\* A call that has a child was given one that was spawned.
Given ==
    \A c \in Calls : at[c] \in {"got", "write", "wait", "late"} =>
        inner[c] \in Children /\ proc[inner[c]] # "none"

\* A lock that is held across steps is held by a call in the middle of its
\* write, which is in the table already and keeps the reader from ending.
Writing ==
    /\ \A c \in Calls : at[c] = "write" =>
          /\ writer[inner[c]] = c
          /\ c \in pending[inner[c]]
          /\ reader[inner[c]] # "gone"
    /\ \A i \in Children : writer[i] # None =>
          at[writer[i]] = "write" /\ inner[writer[i]] = i

IInv ==
    /\ TypeOK
    /\ Slotted
    /\ ReadersLast
    /\ Given
    /\ Writing
    /\ WaitersAreRegistered

\* What a call was told stays told; who waits hears the last event.
LEMMA Heard ==
  ASSUME NEW S, NEW kind \in Kinds, PipesTypeOK, Tell(S, kind), NEW c \in Calls
  PROVE  /\ Told(c) => Told(c)'
         /\ c \in S /\ at[c] # "returned" /\ kind # "more" => Told(c)'
<1>1. mail[c] \in Seq(Kinds)
  BY DEF PipesTypeOK
<1>2. CASE c \in S /\ at[c] # "returned"
  <2>1. mail'[c] = Append(mail[c], kind)
    BY <1>2 DEF Tell
  <2>2. /\ Len(mail'[c]) = Len(mail[c]) + 1
        /\ mail'[c][Len(mail[c]) + 1] = kind
        /\ \A k \in 1..Len(mail[c]) : mail'[c][k] = mail[c][k]
    BY <1>1, <2>1
  <2>3. QED
    BY <1>1, <2>2 DEF Told
<1>3. CASE ~(c \in S /\ at[c] # "returned")
  BY <1>3 DEF Tell, Told
<1>4. QED
  BY <1>2, <1>3

LEMMA TableStep == IInv /\ [Next]_vars => TableTypeOK'
<1> SUFFICES ASSUME IInv, [Next]_vars PROVE TableTypeOK'
  OBVIOUS
<1> USE DEF IInv, TypeOK, TableTypeOK, Given, Children
<1>1. ASSUME NEW c \in Calls, Call(c) PROVE TableTypeOK'
  BY <1>1 DEF Call, Move, childVars, callVars
<1>2. ASSUME NEW c \in Calls, Get(c) PROVE TableTypeOK'
  BY <1>2 DEF Get, Move, Unlocked, childVars, callVars
<1>3. ASSUME NEW c \in Calls, Spawn(c) PROVE TableTypeOK'
  BY <1>3 DEF Spawn, Move, Vacant, Unlocked, childVars, callVars
<1>4. ASSUME NEW c \in Calls, SpawnFails(c) PROVE TableTypeOK'
  BY <1>4 DEF SpawnFails, Move, childVars, callVars
<1>5. ASSUME NEW c \in Calls, Send(c) PROVE TableTypeOK'
  <2>1. inner[c] \in Children
    BY <1>5 DEF Send, Move, Unlocked, childVars, callVars
  <2>2. pending' \in [Children -> SUBSET Calls]
    <3>1. pending' = pending \/ pending' = [pending EXCEPT ![inner[c]] = @ \cup {c}]
      BY <1>5 DEF Send
    <3>2. QED
      BY <2>1, <3>1
  <2>3. writer' = writer \/ writer' = [writer EXCEPT ![inner[c]] = c]
    BY <1>5 DEF Send
  <2>4. writer' \in [Children -> Calls \cup {None}]
    BY <2>1, <2>3
  <2>5. at' \in [Calls -> {"idle", "ask", "got", "write", "wait", "late", "returned"}]
    <3>1. at' = [at EXCEPT ![c] = "returned"] \/ at' = [at EXCEPT ![c] = "write"] \/ at' = [at EXCEPT ![c] = "wait"]
      BY <1>5 DEF Send, Move
    <3>2. at \in [Calls -> {"idle", "ask", "got", "write", "wait", "late", "returned"}]
      OBVIOUS
    <3> HIDE DEF IInv, TypeOK, TableTypeOK, Given
    <3>3. QED
      BY <3>1, <3>2
  <2>6. QED
    BY <1>5, <2>2, <2>4, <2>5 DEF Send, Move, Unlocked, childVars, callVars
<1>6. ASSUME NEW c \in Calls, WriteOn(c) PROVE TableTypeOK'
  <2>1. inner[c] \in Children
    BY <1>6 DEF WriteOn, Move, childVars, callVars
  <2>2. pending' \in [Children -> SUBSET Calls]
    <3>1. pending' = pending \/ pending' = [pending EXCEPT ![inner[c]] = @ \ {c}]
      BY <1>6 DEF WriteOn
    <3>2. pending \in [Children -> SUBSET Calls]
      OBVIOUS
    <3> HIDE DEF IInv, TypeOK, TableTypeOK, Given, Children
    <3>3. QED
      BY <2>1, <3>1, <3>2
  <2>3. writer' \in [Children -> Calls \cup {None}]
    <3>1. writer' = [writer EXCEPT ![inner[c]] = None]
      BY <1>6 DEF WriteOn
    <3>2. QED
      BY <2>1, <3>1
  <2>4. at' \in [Calls -> {"idle", "ask", "got", "write", "wait", "late", "returned"}]
    <3>1. at' = [at EXCEPT ![c] = "returned"] \/ at' = [at EXCEPT ![c] = "wait"]
      BY <1>6 DEF WriteOn, Move
    <3>2. at \in [Calls -> {"idle", "ask", "got", "write", "wait", "late", "returned"}]
      OBVIOUS
    <3> HIDE DEF IInv, TypeOK, TableTypeOK, Given
    <3>3. QED
      BY <3>1, <3>2
  <2>5. QED
    BY <1>6, <2>2, <2>3, <2>4 DEF WriteOn, Move, childVars, callVars
<1>7. ASSUME NEW c \in Calls, Receive(c) PROVE TableTypeOK'
  BY <1>7 DEF Receive, Move, childVars, callVars
<1>8. ASSUME NEW c \in Calls, TimesOut(c) PROVE TableTypeOK'
  BY <1>8 DEF TimesOut, Move, childVars, callVars
<1>9. ASSUME NEW c \in Calls, GiveUp(c) PROVE TableTypeOK'
  BY <1>9 DEF GiveUp, Move, Unlocked, childVars, callVars
<1>10. ASSUME NEW i \in Children, Serve(i) PROVE TableTypeOK'
  BY <1>10 DEF Serve, childVars, callVars
<1>11. ASSUME NEW i \in Children, Emit(i) PROVE TableTypeOK'
  BY <1>11 DEF Emit, WriteLine, childVars, callVars
<1>12. ASSUME NEW i \in Children, Finish(i) PROVE TableTypeOK'
  BY <1>12 DEF Finish, WriteLine, childVars, callVars
<1>13. ASSUME NEW i \in Children, Dies(i) PROVE TableTypeOK'
  BY <1>13 DEF Dies, childVars, callVars
<1>14. ASSUME NEW i \in Children, ReadLine(i) PROVE TableTypeOK'
  BY <1>14 DEF ReadLine, childVars, callVars
<1>15. ASSUME NEW i \in Children, ReadFails(i) PROVE TableTypeOK'
  BY <1>15 DEF ReadFails, childVars, callVars
<1>16. ASSUME NEW i \in Children, Route(i) PROVE TableTypeOK'
  BY <1>16 DEF Route, Tell, Unlocked, childVars, callVars
<1>17. ASSUME NEW i \in Children, Drain(i) PROVE TableTypeOK'
  BY <1>17 DEF Drain, Tell, Leaves, EndOfFile, Ended, Unlocked, childVars, callVars
<1>18. ASSUME Shutdown PROVE TableTypeOK'
  BY <1>18 DEF Shutdown, Unlocked, childVars, callVars
<1>19. ASSUME UNCHANGED vars PROVE TableTypeOK'
  BY <1>19 DEF vars, childVars, callVars
<1>20. QED
  BY <1>1, <1>2, <1>3, <1>4, <1>5, <1>6, <1>7, <1>8, <1>9, <1>10, <1>11, <1>12, <1>13, <1>14, <1>15, <1>16, <1>17, <1>18, <1>19 DEF Next

LEMMA PipesStep == IInv /\ [Next]_vars => PipesTypeOK'
<1> SUFFICES ASSUME IInv, [Next]_vars PROVE PipesTypeOK'
  OBVIOUS
<1> USE DEF IInv, TypeOK, PipesTypeOK, TableTypeOK, Given, Children, Lines, Kinds
<1>1. ASSUME NEW c \in Calls, Call(c) PROVE PipesTypeOK'
  BY <1>1 DEF Call, Move, childVars, callVars
<1>2. ASSUME NEW c \in Calls, Get(c) PROVE PipesTypeOK'
  BY <1>2 DEF Get, Move, Unlocked, childVars, callVars
<1>3. ASSUME NEW c \in Calls, Spawn(c) PROVE PipesTypeOK'
  BY <1>3 DEF Spawn, Move, Vacant, Unlocked, childVars, callVars
<1>4. ASSUME NEW c \in Calls, SpawnFails(c) PROVE PipesTypeOK'
  BY <1>4 DEF SpawnFails, Move, childVars, callVars
<1>5. ASSUME NEW c \in Calls, Send(c) PROVE PipesTypeOK'
  <2>1. inner[c] \in Children
    BY <1>5 DEF Send, Move, Unlocked, childVars, callVars
  <2>2. stdin' = stdin \/ stdin' = [stdin EXCEPT ![inner[c]] = Append(@, c)]
    BY <1>5 DEF Send
  <2>3. stdin' \in [Children -> Seq(Calls)]
    <3>1. Append(stdin[inner[c]], c) \in Seq(Calls)
      <4>1. stdin[inner[c]] \in Seq(Calls)
        BY <2>1
      <4>2. QED
        BY <4>1
    <3>2. stdin \in [Children -> Seq(Calls)]
      OBVIOUS
    <3> HIDE DEF IInv, TypeOK, PipesTypeOK, TableTypeOK, Given, Children, Lines, Kinds
    <3>3. QED
      BY <2>1, <2>2, <3>1, <3>2
  <2>4. QED
    BY <1>5, <2>3 DEF Send, Move, Unlocked, childVars, callVars
<1>6. ASSUME NEW c \in Calls, WriteOn(c) PROVE PipesTypeOK'
  <2>1. inner[c] \in Children
    BY <1>6 DEF WriteOn, Move, childVars, callVars
  <2>2. stdin' \in [Children -> Seq(Calls)]
    <3>1. <<c>> \in Seq(Calls)
      OBVIOUS
    <3>2. stdin' = stdin \/ stdin' = [stdin EXCEPT ![inner[c]] = <<c>>]
      BY <1>6 DEF WriteOn
    <3>3. stdin \in [Children -> Seq(Calls)]
      OBVIOUS
    <3> HIDE DEF IInv, TypeOK, PipesTypeOK, TableTypeOK, Given, Children, Lines, Kinds
    <3>4. QED
      BY <2>1, <3>1, <3>2, <3>3
  <2>3. QED
    BY <1>6, <2>2 DEF WriteOn, Move, childVars, callVars
<1>7. ASSUME NEW c \in Calls, Receive(c) PROVE PipesTypeOK'
  BY <1>7, SMTT(30) DEF Receive, Move, childVars, callVars
<1>8. ASSUME NEW c \in Calls, TimesOut(c) PROVE PipesTypeOK'
  BY <1>8 DEF TimesOut, Move, childVars, callVars
<1>9. ASSUME NEW c \in Calls, GiveUp(c) PROVE PipesTypeOK'
  BY <1>9 DEF GiveUp, Move, Unlocked, childVars, callVars
<1>10. ASSUME NEW i \in Children, Serve(i) PROVE PipesTypeOK'
  <2>1. Head(stdin[i]) \in Calls /\ Tail(stdin[i]) \in Seq(Calls)
    BY <1>10 DEF Serve, childVars, callVars
  <2>2. stdin' \in [Children -> Seq(Calls)] /\ serving' \in [Children -> Calls \cup {None}]
    BY <1>10, <2>1 DEF Serve, childVars, callVars
  <2>3. QED
    BY <1>10, <2>2 DEF Serve, childVars, callVars
<1>11. ASSUME NEW i \in Children, Emit(i) PROVE PipesTypeOK'
  <2>1. PICK kind \in {"more", "error"} : WriteLine(i, kind)
    BY <1>11 DEF Emit
  <2>2. stdout' \in [Children -> Seq(Lines)]
    <3> DEFINE l == [of |-> serving[i], kind |-> kind]
    <3>1. l \in Lines
      BY <2>1 DEF WriteLine
    <3>2. stdout \in [Children -> Seq(Lines)]
      OBVIOUS
    <3>3. stdout' = [stdout EXCEPT ![i] = Append(@, l)]
      BY <2>1 DEF WriteLine
    <3> HIDE DEF Lines, Kinds, IInv, Children, l
    <3>4. Append(stdout[i], l) \in Seq(Lines)
      BY <3>1, <3>2
    <3>5. QED
      BY <3>2, <3>3, <3>4
  <2>3. emitted' \in [Calls -> Nat]
    BY <1>11 DEF Emit
  <2>4. QED
    BY <1>11, <2>1, <2>2, <2>3 DEF Emit, WriteLine, childVars, callVars
<1>12. ASSUME NEW i \in Children, Finish(i) PROVE PipesTypeOK'
  <2>1. PICK kind \in {"done", "error"} : WriteLine(i, kind)
    BY <1>12 DEF Finish
  <2>2. stdout' \in [Children -> Seq(Lines)]
    <3> DEFINE l == [of |-> serving[i], kind |-> kind]
    <3>1. l \in Lines
      BY <2>1 DEF WriteLine
    <3>2. stdout \in [Children -> Seq(Lines)]
      OBVIOUS
    <3>3. stdout' = [stdout EXCEPT ![i] = Append(@, l)]
      BY <2>1 DEF WriteLine
    <3> HIDE DEF Lines, Kinds, IInv, Children, l
    <3>4. Append(stdout[i], l) \in Seq(Lines)
      BY <3>1, <3>2
    <3>5. QED
      BY <3>2, <3>3, <3>4
  <2>3. serving' \in [Children -> Calls \cup {None}]
    BY <1>12 DEF Finish
  <2>4. QED
    BY <1>12, <2>1, <2>2, <2>3 DEF Finish, WriteLine, childVars, callVars
<1>13. ASSUME NEW i \in Children, Dies(i) PROVE PipesTypeOK'
  BY <1>13 DEF Dies, childVars, callVars
<1>14. ASSUME NEW i \in Children, ReadLine(i) PROVE PipesTypeOK'
  <2>1. Head(stdout[i]) \in Lines /\ Tail(stdout[i]) \in Seq(Lines)
    <3> HIDE DEF Lines
    <3>1. QED
      BY <1>14 DEF ReadLine, childVars, callVars
  <2>2. hand' \in [Children -> Lines \cup {None}] /\ stdout' \in [Children -> Seq(Lines)]
    <3> HIDE DEF Lines
    <3>1. QED
      BY <1>14, <2>1 DEF ReadLine, childVars, callVars
  <2>3. QED
    BY <1>14, <2>2 DEF ReadLine, childVars, callVars
<1>15. ASSUME NEW i \in Children, ReadFails(i) PROVE PipesTypeOK'
  BY <1>15 DEF ReadFails, childVars, callVars
<1>16. ASSUME NEW i \in Children, Route(i) PROVE PipesTypeOK'
  <2>1. hand[i].kind \in Kinds
    BY <1>16 DEF Route, Tell, Unlocked, childVars, callVars
  <2>2. \A c \in Calls : Append(mail[c], hand[i].kind) \in Seq(Kinds)
    <3> HIDE DEF Kinds
    <3>1. QED
      BY <2>1
  <2>3. mail' \in [Calls -> Seq(Kinds)]
    <3> HIDE DEF Kinds
    <3>1. QED
      BY <1>16, <2>2 DEF Route, Tell
  <2>4. hand' \in [Children -> Lines \cup {None}]
    BY <1>16 DEF Route
  <2>5. QED
    BY <1>16, <2>3, <2>4 DEF Route, childVars, callVars
<1>17. ASSUME NEW i \in Children, Drain(i) PROVE PipesTypeOK'
  <2>1. \A c \in Calls : Append(mail[c], "lost") \in Seq(Kinds)
    OBVIOUS
  <2>2. mail' \in [Calls -> Seq(Kinds)]
    <3> HIDE DEF Kinds
    <3>1. QED
      BY <1>17, <2>1 DEF Drain, Tell
  <2>3. QED
    BY <1>17, <2>2 DEF Drain, childVars, callVars
<1>18. ASSUME Shutdown PROVE PipesTypeOK'
  BY <1>18 DEF Shutdown, Unlocked, childVars, callVars
<1>19. ASSUME UNCHANGED vars PROVE PipesTypeOK'
  BY <1>19 DEF vars, childVars, callVars
<1>20. QED
  BY <1>1, <1>2, <1>3, <1>4, <1>5, <1>6, <1>7, <1>8, <1>9, <1>10, <1>11, <1>12, <1>13, <1>14, <1>15, <1>16, <1>17, <1>18, <1>19 DEF Next

LEMMA SlotStep == IInv /\ [Next]_vars => Slotted'
<1> SUFFICES ASSUME IInv, [Next]_vars PROVE Slotted'
  OBVIOUS
<1> USE DEF IInv, TypeOK, Slotted, TableTypeOK, Children
<1>1. ASSUME NEW c \in Calls, Call(c) PROVE Slotted'
  BY <1>1 DEF Call, Move, childVars, callVars
<1>2. ASSUME NEW c \in Calls, Get(c) PROVE Slotted'
  BY <1>2 DEF Get, Move, Unlocked, childVars, callVars
<1>3. ASSUME NEW c \in Calls, Spawn(c) PROVE Slotted'
  BY <1>3 DEF Spawn, Move, Vacant, Unlocked, childVars, callVars
<1>4. ASSUME NEW c \in Calls, SpawnFails(c) PROVE Slotted'
  BY <1>4 DEF SpawnFails, Move, childVars, callVars
<1>5. ASSUME NEW c \in Calls, Send(c) PROVE Slotted'
  BY <1>5 DEF Send, Move, Unlocked, childVars, callVars
<1>6. ASSUME NEW c \in Calls, WriteOn(c) PROVE Slotted'
  BY <1>6 DEF WriteOn, Move, childVars, callVars
<1>7. ASSUME NEW c \in Calls, Receive(c) PROVE Slotted'
  BY <1>7 DEF Receive, Move, childVars, callVars
<1>8. ASSUME NEW c \in Calls, TimesOut(c) PROVE Slotted'
  BY <1>8 DEF TimesOut, Move, childVars, callVars
<1>9. ASSUME NEW c \in Calls, GiveUp(c) PROVE Slotted'
  BY <1>9 DEF GiveUp, Move, Unlocked, childVars, callVars
<1>10. ASSUME NEW i \in Children, Serve(i) PROVE Slotted'
  BY <1>10 DEF Serve, childVars, callVars
<1>11. ASSUME NEW i \in Children, Emit(i) PROVE Slotted'
  BY <1>11 DEF Emit, WriteLine, childVars, callVars
<1>12. ASSUME NEW i \in Children, Finish(i) PROVE Slotted'
  BY <1>12 DEF Finish, WriteLine, childVars, callVars
<1>13. ASSUME NEW i \in Children, Dies(i) PROVE Slotted'
  BY <1>13 DEF Dies, childVars, callVars
<1>14. ASSUME NEW i \in Children, ReadLine(i) PROVE Slotted'
  BY <1>14 DEF ReadLine, childVars, callVars
<1>15. ASSUME NEW i \in Children, ReadFails(i) PROVE Slotted'
  BY <1>15 DEF ReadFails, childVars, callVars
<1>16. ASSUME NEW i \in Children, Route(i) PROVE Slotted'
  BY <1>16 DEF Route, Tell, Unlocked, childVars, callVars
<1>17. ASSUME NEW i \in Children, Drain(i) PROVE Slotted'
  BY <1>17 DEF Drain, Tell, Leaves, EndOfFile, Ended, Unlocked, childVars, callVars
<1>18. ASSUME Shutdown PROVE Slotted'
  BY <1>18 DEF Shutdown, Unlocked, childVars, callVars
<1>19. ASSUME UNCHANGED vars PROVE Slotted'
  BY <1>19 DEF vars, childVars, callVars
<1>20. QED
  BY <1>1, <1>2, <1>3, <1>4, <1>5, <1>6, <1>7, <1>8, <1>9, <1>10, <1>11, <1>12, <1>13, <1>14, <1>15, <1>16, <1>17, <1>18, <1>19 DEF Next

LEMMA ReaderStep == IInv /\ [Next]_vars => ReadersLast'
<1> SUFFICES ASSUME IInv, [Next]_vars PROVE ReadersLast'
  OBVIOUS
<1> USE DEF IInv, TypeOK, ReadersLast, Slotted, TableTypeOK, Children
<1>1. ASSUME NEW c \in Calls, Call(c) PROVE ReadersLast'
  BY <1>1 DEF Call, Move, childVars, callVars
<1>2. ASSUME NEW c \in Calls, Get(c) PROVE ReadersLast'
  BY <1>2 DEF Get, Move, Unlocked, childVars, callVars
<1>3. ASSUME NEW c \in Calls, Spawn(c) PROVE ReadersLast'
  BY <1>3 DEF Spawn, Move, Vacant, Unlocked, childVars, callVars
<1>4. ASSUME NEW c \in Calls, SpawnFails(c) PROVE ReadersLast'
  BY <1>4 DEF SpawnFails, Move, childVars, callVars
<1>5. ASSUME NEW c \in Calls, Send(c) PROVE ReadersLast'
  BY <1>5 DEF Send, Move, Unlocked, childVars, callVars
<1>6. ASSUME NEW c \in Calls, WriteOn(c) PROVE ReadersLast'
  BY <1>6 DEF WriteOn, Move, childVars, callVars
<1>7. ASSUME NEW c \in Calls, Receive(c) PROVE ReadersLast'
  BY <1>7 DEF Receive, Move, childVars, callVars
<1>8. ASSUME NEW c \in Calls, TimesOut(c) PROVE ReadersLast'
  BY <1>8 DEF TimesOut, Move, childVars, callVars
<1>9. ASSUME NEW c \in Calls, GiveUp(c) PROVE ReadersLast'
  BY <1>9 DEF GiveUp, Move, Unlocked, childVars, callVars
<1>10. ASSUME NEW i \in Children, Serve(i) PROVE ReadersLast'
  BY <1>10 DEF Serve, childVars, callVars
<1>11. ASSUME NEW i \in Children, Emit(i) PROVE ReadersLast'
  BY <1>11 DEF Emit, WriteLine, childVars, callVars
<1>12. ASSUME NEW i \in Children, Finish(i) PROVE ReadersLast'
  BY <1>12 DEF Finish, WriteLine, childVars, callVars
<1>13. ASSUME NEW i \in Children, Dies(i) PROVE ReadersLast'
  BY <1>13 DEF Dies, childVars, callVars
<1>14. ASSUME NEW i \in Children, ReadLine(i) PROVE ReadersLast'
  BY <1>14 DEF ReadLine, childVars, callVars
<1>15. ASSUME NEW i \in Children, ReadFails(i) PROVE ReadersLast'
  BY <1>15 DEF ReadFails, childVars, callVars
<1>16. ASSUME NEW i \in Children, Route(i) PROVE ReadersLast'
  BY <1>16 DEF Route, Tell, Unlocked, childVars, callVars
<1>17. ASSUME NEW i \in Children, Drain(i) PROVE ReadersLast'
  BY <1>17 DEF Drain, Tell, Leaves, EndOfFile, Ended, Unlocked, childVars, callVars
<1>18. ASSUME Shutdown PROVE ReadersLast'
  BY <1>18 DEF Shutdown, Unlocked, childVars, callVars
<1>19. ASSUME UNCHANGED vars PROVE ReadersLast'
  BY <1>19 DEF vars, childVars, callVars
<1>20. QED
  BY <1>1, <1>2, <1>3, <1>4, <1>5, <1>6, <1>7, <1>8, <1>9, <1>10, <1>11, <1>12, <1>13, <1>14, <1>15, <1>16, <1>17, <1>18, <1>19 DEF Next

LEMMA GivenStep == IInv /\ [Next]_vars => Given'
<1> SUFFICES ASSUME IInv, [Next]_vars PROVE Given'
  OBVIOUS
<1> USE DEF IInv, TypeOK, Given, Slotted, TableTypeOK, Children
<1>1. ASSUME NEW c \in Calls, Call(c) PROVE Given'
  BY <1>1 DEF Call, Move, childVars, callVars
<1>2. ASSUME NEW c \in Calls, Get(c) PROVE Given'
  BY <1>2 DEF Get, Move, Unlocked, childVars, callVars
<1>3. ASSUME NEW c \in Calls, Spawn(c) PROVE Given'
  BY <1>3 DEF Spawn, Move, Vacant, Unlocked, childVars, callVars
<1>4. ASSUME NEW c \in Calls, SpawnFails(c) PROVE Given'
  BY <1>4 DEF SpawnFails, Move, childVars, callVars
<1>5. ASSUME NEW c \in Calls, Send(c) PROVE Given'
  BY <1>5 DEF Send, Move, Unlocked, childVars, callVars
<1>6. ASSUME NEW c \in Calls, WriteOn(c) PROVE Given'
  BY <1>6 DEF WriteOn, Move, childVars, callVars
<1>7. ASSUME NEW c \in Calls, Receive(c) PROVE Given'
  BY <1>7 DEF Receive, Move, childVars, callVars
<1>8. ASSUME NEW c \in Calls, TimesOut(c) PROVE Given'
  BY <1>8 DEF TimesOut, Move, childVars, callVars
<1>9. ASSUME NEW c \in Calls, GiveUp(c) PROVE Given'
  BY <1>9 DEF GiveUp, Move, Unlocked, childVars, callVars
<1>10. ASSUME NEW i \in Children, Serve(i) PROVE Given'
  BY <1>10 DEF Serve, childVars, callVars
<1>11. ASSUME NEW i \in Children, Emit(i) PROVE Given'
  BY <1>11 DEF Emit, WriteLine, childVars, callVars
<1>12. ASSUME NEW i \in Children, Finish(i) PROVE Given'
  BY <1>12 DEF Finish, WriteLine, childVars, callVars
<1>13. ASSUME NEW i \in Children, Dies(i) PROVE Given'
  BY <1>13 DEF Dies, childVars, callVars
<1>14. ASSUME NEW i \in Children, ReadLine(i) PROVE Given'
  BY <1>14 DEF ReadLine, childVars, callVars
<1>15. ASSUME NEW i \in Children, ReadFails(i) PROVE Given'
  BY <1>15 DEF ReadFails, childVars, callVars
<1>16. ASSUME NEW i \in Children, Route(i) PROVE Given'
  BY <1>16 DEF Route, Tell, Unlocked, childVars, callVars
<1>17. ASSUME NEW i \in Children, Drain(i) PROVE Given'
  BY <1>17 DEF Drain, Tell, Leaves, EndOfFile, Ended, Unlocked, childVars, callVars
<1>18. ASSUME Shutdown PROVE Given'
  BY <1>18 DEF Shutdown, Unlocked, childVars, callVars
<1>19. ASSUME UNCHANGED vars PROVE Given'
  BY <1>19 DEF vars, childVars, callVars
<1>20. QED
  BY <1>1, <1>2, <1>3, <1>4, <1>5, <1>6, <1>7, <1>8, <1>9, <1>10, <1>11, <1>12, <1>13, <1>14, <1>15, <1>16, <1>17, <1>18, <1>19 DEF Next

LEMMA WritingStep == IInv /\ [Next]_vars => Writing'
<1> SUFFICES ASSUME IInv, [Next]_vars PROVE Writing'
  OBVIOUS
<1> USE DEF IInv, TypeOK, Writing, Given, ReadersLast, TableTypeOK, Children
<1>1. ASSUME NEW c \in Calls, Call(c) PROVE Writing'
  BY <1>1 DEF Call, Move, childVars, callVars
<1>2. ASSUME NEW c \in Calls, Get(c) PROVE Writing'
  BY <1>2 DEF Get, Move, Unlocked, childVars, callVars
<1>3. ASSUME NEW c \in Calls, Spawn(c) PROVE Writing'
  BY <1>3 DEF Spawn, Move, Vacant, Unlocked, childVars, callVars
<1>4. ASSUME NEW c \in Calls, SpawnFails(c) PROVE Writing'
  BY <1>4 DEF SpawnFails, Move, childVars, callVars
<1>5. ASSUME NEW c \in Calls, Send(c) PROVE Writing'
  <2>1. /\ inner[c] \in Children
        /\ writer[inner[c]] = None
        /\ at[c] = "got"
        /\ inner' = inner /\ reader' = reader
    BY <1>5 DEF Send, Move, Unlocked, childVars, callVars
  <2>2. CASE writer' = writer /\ at'[c] # "write"
    <3>1. \A d \in Calls \ {c} : at'[d] = at[d]
      BY <1>5 DEF Send, Move
    <3>2. \A j \in Children : pending[j] \subseteq pending'[j]
      <4>1. pending' = pending \/ pending' = [pending EXCEPT ![inner[c]] = @ \cup {c}]
        BY <1>5 DEF Send
      <4>2. pending \in [Children -> SUBSET Calls]
        OBVIOUS
      <4> HIDE DEF IInv, TypeOK, TableTypeOK, Writing, Given, ReadersLast, Children
      <4>3. QED
        BY <4>1, <4>2
    <3>3. QED
      BY <2>1, <2>2, <3>1, <3>2
  <2>3. CASE /\ writer' = [writer EXCEPT ![inner[c]] = c]
             /\ pending' = [pending EXCEPT ![inner[c]] = @ \cup {c}]
             /\ at' = [at EXCEPT ![c] = "write"]
             /\ proc[inner[c]] = "alive"
    BY <2>1, <2>3
  <2>4. QED
    BY <1>5, <2>2, <2>3 DEF Send, Move
<1>6. ASSUME NEW c \in Calls, WriteOn(c) PROVE Writing'
  BY <1>6 DEF WriteOn, Move, childVars, callVars
<1>7. ASSUME NEW c \in Calls, Receive(c) PROVE Writing'
  BY <1>7 DEF Receive, Move, childVars, callVars
<1>8. ASSUME NEW c \in Calls, TimesOut(c) PROVE Writing'
  BY <1>8 DEF TimesOut, Move, childVars, callVars
<1>9. ASSUME NEW c \in Calls, GiveUp(c) PROVE Writing'
  BY <1>9 DEF GiveUp, Move, Unlocked, childVars, callVars
<1>10. ASSUME NEW i \in Children, Serve(i) PROVE Writing'
  BY <1>10 DEF Serve, childVars, callVars
<1>11. ASSUME NEW i \in Children, Emit(i) PROVE Writing'
  BY <1>11 DEF Emit, WriteLine, childVars, callVars
<1>12. ASSUME NEW i \in Children, Finish(i) PROVE Writing'
  BY <1>12 DEF Finish, WriteLine, childVars, callVars
<1>13. ASSUME NEW i \in Children, Dies(i) PROVE Writing'
  BY <1>13 DEF Dies, childVars, callVars
<1>14. ASSUME NEW i \in Children, ReadLine(i) PROVE Writing'
  BY <1>14 DEF ReadLine, childVars, callVars
<1>15. ASSUME NEW i \in Children, ReadFails(i) PROVE Writing'
  BY <1>15 DEF ReadFails, childVars, callVars
<1>16. ASSUME NEW i \in Children, Route(i) PROVE Writing'
  BY <1>16 DEF Route, Tell, Unlocked, childVars, callVars
<1>17. ASSUME NEW i \in Children, Drain(i) PROVE Writing'
  BY <1>17 DEF Drain, Tell, Leaves, EndOfFile, Ended, Unlocked, childVars, callVars
<1>18. ASSUME Shutdown PROVE Writing'
  BY <1>18 DEF Shutdown, Unlocked, childVars, callVars
<1>19. ASSUME UNCHANGED vars PROVE Writing'
  BY <1>19 DEF vars, childVars, callVars
<1>20. QED
  BY <1>1, <1>2, <1>3, <1>4, <1>5, <1>6, <1>7, <1>8, <1>9, <1>10, <1>11, <1>12, <1>13, <1>14, <1>15, <1>16, <1>17, <1>18, <1>19 DEF Next

LEMMA WaiterStep == IInv /\ [Next]_vars => WaitersAreRegistered'
<1> SUFFICES ASSUME IInv, [Next]_vars PROVE WaitersAreRegistered'
  OBVIOUS
<1> USE DEF IInv, TypeOK, WaitersAreRegistered, Writing, Given, ReadersLast, TableTypeOK, PipesTypeOK, Children, Told, Kinds, Lines
<1>1. ASSUME NEW c \in Calls, Call(c) PROVE WaitersAreRegistered'
  BY <1>1 DEF Call, Move, childVars, callVars
<1>2. ASSUME NEW c \in Calls, Get(c) PROVE WaitersAreRegistered'
  BY <1>2 DEF Get, Move, Unlocked, childVars, callVars
<1>3. ASSUME NEW c \in Calls, Spawn(c) PROVE WaitersAreRegistered'
  BY <1>3, SMTT(30) DEF Spawn, Move, Vacant, Unlocked, childVars, callVars
<1>4. ASSUME NEW c \in Calls, SpawnFails(c) PROVE WaitersAreRegistered'
  BY <1>4 DEF SpawnFails, Move, childVars, callVars
<1>5. ASSUME NEW c \in Calls, Send(c) PROVE WaitersAreRegistered'
  <2> SUFFICES ASSUME NEW d \in Calls, at'[d] = "wait", ~Told(d)'
               PROVE  d \in pending'[inner'[d]] /\ reader'[inner'[d]] # "gone"
    BY DEF WaitersAreRegistered
  <2> HIDE DEF Told
  <2>1. inner[c] \in Children /\ inner' = inner /\ reader' = reader /\ mail' = mail
    BY <1>5 DEF Send, Move, Unlocked, childVars, callVars
  <2>2. CASE d = c
    BY <1>5, <2>1, <2>2, SMTT(30) DEF Send, Move
  <2>3. CASE d # c
    <3>1. at[d] = "wait" /\ ~Told(d)
      BY <1>5, <2>1, <2>3 DEF Send, Move, Told
    <3>2. \A j \in Children : pending[j] \subseteq pending'[j]
      <4>1. pending' = pending \/ pending' = [pending EXCEPT ![inner[c]] = @ \cup {c}]
        BY <1>5 DEF Send
      <4>2. pending \in [Children -> SUBSET Calls]
        OBVIOUS
      <4> HIDE DEF IInv, Children
      <4>3. QED
        BY <4>1, <4>2
    <3>3. QED
      BY <2>1, <3>1, <3>2
  <2>4. QED
    BY <2>2, <2>3
<1>6. ASSUME NEW c \in Calls, WriteOn(c) PROVE WaitersAreRegistered'
  <2> SUFFICES ASSUME NEW d \in Calls, at'[d] = "wait", ~Told(d)'
               PROVE  d \in pending'[inner'[d]] /\ reader'[inner'[d]] # "gone"
    BY DEF WaitersAreRegistered
  <2> HIDE DEF Told
  <2>1. inner[c] \in Children /\ inner' = inner /\ reader' = reader /\ mail' = mail
    BY <1>6 DEF WriteOn, Move, childVars, callVars
  <2>2. CASE d = c
    BY <1>6, <2>1, <2>2 DEF WriteOn, Move
  <2>3. CASE d # c
    <3>1. at[d] = "wait" /\ ~Told(d)
      BY <1>6, <2>1, <2>3 DEF WriteOn, Move, Told
    <3>2. \A j \in Children : pending[j] \ {c} \subseteq pending'[j]
      <4>1. pending' = pending \/ pending' = [pending EXCEPT ![inner[c]] = @ \ {c}]
        BY <1>6 DEF WriteOn
      <4>2. pending \in [Children -> SUBSET Calls]
        OBVIOUS
      <4> HIDE DEF IInv, Children
      <4>3. QED
        BY <4>1, <4>2
    <3>3. QED
      BY <2>1, <2>3, <3>1, <3>2
  <2>4. QED
    BY <2>2, <2>3
<1>7. ASSUME NEW c \in Calls, Receive(c) PROVE WaitersAreRegistered'
  <2> SUFFICES ASSUME NEW d \in Calls, at'[d] = "wait", ~Told(d)'
               PROVE  d \in pending'[inner'[d]] /\ reader'[inner'[d]] # "gone"
    BY DEF WaitersAreRegistered
  <2> HIDE DEF Told
  <2>1. inner' = inner /\ reader' = reader /\ pending' = pending
    BY <1>7 DEF Receive, Move, childVars, callVars
  <2>2. at[d] = "wait"
    BY <1>7 DEF Receive, Move
  <2>3. ~Told(d)
    <3>1. CASE d # c
      BY <1>7, <3>1 DEF Receive, Told
    <3>2. CASE d = c
      <4>1. mail[c] # <<>> /\ mail[c] \in Seq(Kinds) /\ mail'[c] = Tail(mail[c])
        BY <1>7 DEF Receive
      <4>2. Head(mail[c]) = "more"
        BY <1>7, <3>2 DEF Receive, Move
      <4>3. ASSUME NEW k \in 1..Len(mail[c]) PROVE mail[c][k] = "more"
        <5>1. CASE k = 1
          BY <4>1, <4>2, <5>1
        <5>2. CASE k # 1
          <6>1. k - 1 \in 1..Len(mail'[c]) /\ mail'[c][k - 1] = mail[c][k]
            BY <4>1, <5>2, SMTT(30)
          <6>2. QED
            BY <3>2, <6>1 DEF Told
        <5>3. QED
          BY <5>1, <5>2
      <4>4. QED
        BY <3>2, <4>3 DEF Told
    <3>3. QED
      BY <3>1, <3>2
  <2>4. QED
    BY <2>1, <2>2, <2>3
<1>8. ASSUME NEW c \in Calls, TimesOut(c) PROVE WaitersAreRegistered'
  BY <1>8 DEF TimesOut, Move, childVars, callVars
<1>9. ASSUME NEW c \in Calls, GiveUp(c) PROVE WaitersAreRegistered'
  BY <1>9 DEF GiveUp, Move, Unlocked, childVars, callVars
<1>10. ASSUME NEW i \in Children, Serve(i) PROVE WaitersAreRegistered'
  BY <1>10 DEF Serve, childVars, callVars
<1>11. ASSUME NEW i \in Children, Emit(i) PROVE WaitersAreRegistered'
  BY <1>11 DEF Emit, WriteLine, childVars, callVars
<1>12. ASSUME NEW i \in Children, Finish(i) PROVE WaitersAreRegistered'
  BY <1>12 DEF Finish, WriteLine, childVars, callVars
<1>13. ASSUME NEW i \in Children, Dies(i) PROVE WaitersAreRegistered'
  BY <1>13 DEF Dies, childVars, callVars
<1>14. ASSUME NEW i \in Children, ReadLine(i) PROVE WaitersAreRegistered'
  BY <1>14 DEF ReadLine, childVars, callVars
<1>15. ASSUME NEW i \in Children, ReadFails(i) PROVE WaitersAreRegistered'
  BY <1>15 DEF ReadFails, childVars, callVars
<1>16. ASSUME NEW i \in Children, Route(i) PROVE WaitersAreRegistered'
  <2> SUFFICES ASSUME NEW d \in Calls, at'[d] = "wait", ~Told(d)'
               PROVE  d \in pending'[inner'[d]] /\ reader'[inner'[d]] # "gone"
    BY DEF WaitersAreRegistered
  <2> HIDE DEF Told
  <2> DEFINE e == hand[i]
  <2>1. /\ e \in Lines
        /\ Tell({e.of} \cap pending[i], e.kind)
        /\ pending' = [pending EXCEPT ![i] = IF e.kind = "more" THEN @ ELSE @ \ {e.of}]
        /\ inner' = inner /\ reader' = reader /\ at' = at
    BY <1>16 DEF Route, Tell, Unlocked, childVars, callVars
  <2>2. ~Told(d) /\ (d = e.of /\ d \in pending[i] => e.kind = "more")
    <3>1. e.kind \in Kinds /\ at[d] # "returned" /\ PipesTypeOK
      BY <2>1
    <3> HIDE DEF IInv, Kinds, Lines, PipesTypeOK, e
    <3>2. /\ Told(d) => Told(d)'
          /\ d \in {e.of} \cap pending[i] /\ e.kind # "more" => Told(d)'
      BY <2>1, <3>1, Heard
    <3>3. QED
      BY <3>2
  <2>3. d \in pending[inner[d]] /\ inner[d] \in Children /\ reader[inner[d]] # "gone"
    BY <2>1, <2>2
  <2>4. QED
    BY <2>1, <2>2, <2>3
<1>17. ASSUME NEW i \in Children, Drain(i) PROVE WaitersAreRegistered'
  <2> SUFFICES ASSUME NEW d \in Calls, at'[d] = "wait", ~Told(d)'
               PROVE  d \in pending'[inner'[d]] /\ reader'[inner'[d]] # "gone"
    BY DEF WaitersAreRegistered
  <2> HIDE DEF Told
  <2>1. /\ Tell(pending[i], "lost")
        /\ pending' = [pending EXCEPT ![i] = {}]
        /\ reader' = [reader EXCEPT ![i] = Ended(i)]
        /\ inner' = inner /\ at' = at
    BY <1>17 DEF Drain, Tell, Leaves, EndOfFile, Ended, Unlocked, childVars, callVars
  <2>2. ~Told(d) /\ d \notin pending[i]
    <3>1. "lost" \in Kinds /\ at[d] # "returned"
      BY <2>1
    <3>2. (Told(d) => Told(d)') /\ (d \in pending[i] => Told(d)')
      BY <2>1, <3>1, Heard
    <3>3. QED
      BY <3>2
  <2>3. d \in pending[inner[d]] /\ inner[d] \in Children /\ reader[inner[d]] # "gone"
    BY <2>1, <2>2
  <2>4. QED
    BY <2>1, <2>2, <2>3
<1>18. ASSUME Shutdown PROVE WaitersAreRegistered'
  BY <1>18 DEF Shutdown, Unlocked, childVars, callVars
<1>19. ASSUME UNCHANGED vars PROVE WaitersAreRegistered'
  BY <1>19 DEF vars, childVars, callVars
<1>20. QED
  BY <1>1, <1>2, <1>3, <1>4, <1>5, <1>6, <1>7, <1>8, <1>9, <1>10, <1>11, <1>12, <1>13, <1>14, <1>15, <1>16, <1>17, <1>18, <1>19 DEF Next

LEMMA InitIInv == Init => IInv
<1> SUFFICES ASSUME Init PROVE IInv
  OBVIOUS
<1>1. TypeOK
  BY DEF Init, TypeOK, TableTypeOK, PipesTypeOK, Children, Kinds, Lines
<1>2. Slotted /\ ReadersLast
  BY DEF Init, Slotted, ReadersLast, Children
<1>3. Given /\ Writing /\ WaitersAreRegistered
  BY DEF Init, Given, Writing, WaitersAreRegistered
<1>4. QED
  BY <1>1, <1>2, <1>3 DEF IInv

\* Slot, readers, table and calls fit together in every reachable state.
THEOREM Invariant == Spec => []IInv
<1>1. IInv /\ [Next]_vars => IInv'
  BY TableStep, PipesStep, SlotStep, ReaderStep, GivenStep, WritingStep, WaiterStep DEF IInv, TypeOK
<1>2. QED
  BY InitIInv, <1>1, PTL DEF Spec

\* Every variable of the supervisor and its children stays in its domain.
THEOREM TypeCorrect == Spec => []TypeOK
<1>1. IInv => TypeOK
  BY DEF IInv
<1>2. QED
  BY <1>1, Invariant, PTL

\* There are never two children at work.
THEOREM ChildrenAreApart == Spec => []OneChild
<1>1. IInv => OneChild
  BY DEF IInv, Slotted, OneChild
<1>2. QED
  BY <1>1, Invariant, PTL

\* Nobody waits for an answer that no thread is left to bring, but for those
\* who call a child whose reader broke off while it lived.
THEOREM NobodyIsForgotten == Spec => []WaitersAreRegistered
<1>1. IInv => WaitersAreRegistered
  BY DEF IInv
<1>2. QED
  BY <1>1, Invariant, PTL
=============================================================================
