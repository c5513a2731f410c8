--------------------------- MODULE EditorSyncProofs ---------------------------
(***************************************************************************)
(* Proofs about EditorSync for every set of windows and all bounds: what a *)
(* window shows is a revision of the authority, a window does not compete  *)
(* with itself, a revision marked saved is in the file, and the whole      *)
(* implements SharedText.                                                  *)
(***************************************************************************)
EXTENDS EditorSync, SequenceTheorems, TLAPS

-----------------------------------------------------------------------------
(* The inductive invariant *)

Versions == [text : Texts, dirty : BOOLEAN]
Entries  == [text : Texts, dirty : BOOLEAN, by : Windows]
Statuses == {"local", "syncing", "synced", "conflict", "error"}
Views    == [text : Texts, dirty : BOOLEAN, rev : Nat, status : Statuses,
             open : BOOLEAN]
Phases   == {"off", "subscribing", "registering", "answered", "live", "closed"}

Requests ==
    {Idle}
        \cup [at : {"registered"}, rev : Nat]
        \cup [at : {"sent"}, base : Nat, seq : Nat, text : Texts,
              dirty : BOOLEAN]
        \cup [at : {"applied", "conflict"}, base : Nat, seq : Nat,
              text : Texts, rev : Nat]

Saves ==
    {Idle}
        \cup [at : {"starting", "flush"}, then : {"write", "close"}]
        \cup [at : {"close"}]
        \cup [at : {"write", "written"}, text : Texts, rev : Nat,
              shared : BOOLEAN]
        \cup [at : {"synced", "conflict"}, rev : Nat]

\* Every variable is in its domain, and what is announced was accepted.
TypeInv ==
    /\ log \in Seq(Entries)
    /\ disk \in Texts
    /\ writer \in Windows
    /\ seed \in Versions
    /\ phase \in [Windows -> Phases]
    /\ base \in [Windows -> Nat]
    /\ queued \in [Windows -> Nat]
    /\ acked \in [Windows -> Nat]
    /\ local \in [Windows -> Versions]
    /\ timer \in [Windows -> BOOLEAN]
    /\ request \in [Windows -> Requests]
    /\ inbox \in [Windows -> Seq(1..Len(log))]
    /\ view \in [Windows -> Views]
    /\ save \in [Windows -> Saves]
    /\ edits \in 0..MaxEdits

\* A client hears and knows nothing before it listens, asks for something only
\* when it is up, and a save that uses it is under way only while it is live.
PhaseInv(c) ==
    /\ phase[c] \in {"off", "subscribing"} => base[c] = 0 /\ inbox[c] = <<>>
    /\ phase[c] \in {"off", "subscribing", "registering"} => request[c] = Idle
    /\ phase[c] = "answered" <=> request[c].at = "registered"
    /\ phase[c] \in {"live", "closed"} => base[c] >= 1
    /\ save[c].at \in {"flush", "close", "synced", "conflict"}
           => phase[c] = "live"
    /\ save[c].at \in {"write", "written"} /\ save[c].shared
           => phase[c] = "live"

\* A revision somebody knows of is one the authority has, and a save writes
\* what the authority held at the revision it is going to mark.
RevInv(c) ==
    /\ base[c] <= Len(log)
    /\ request[c].at \in {"registered", "applied", "conflict"}
           => request[c].rev \in 1..Len(log)
    /\ request[c].at = "sent" => request[c].base <= Len(log)
    /\ save[c].at \in {"write", "written"} /\ save[c].shared =>
           /\ save[c].rev \in 1..Len(log)
           /\ save[c].text = log[save[c].rev].text
    /\ save[c].at \in {"synced", "conflict"} => save[c].rev \in 1..Len(log)

\* An update under way carries a change that is not acknowledged yet.
SeqInv(c) ==
    /\ acked[c] <= queued[c]
    /\ request[c].at \in {"sent", "applied", "conflict"}
           => acked[c] < request[c].seq /\ request[c].seq <= queued[c]

\* A change of its own that a window has not heard of is in the answer that
\* is on its way; an update is sent only when there is none.
OwnInv(c) ==
    /\ \A r \in base[c] + 1 .. Len(log) :
           log[r].by = c /\ log[r].dirty =>
               /\ request[c].at \in {"registered", "applied"}
               /\ r <= request[c].rev
    /\ request[c].at = "sent" =>
           \A r \in request[c].base + 1 .. Len(log) :
               log[r].by = c => ~log[r].dirty

\* ShownIsCommitted, from the first revision the client knows on.
ShownInv(c) ==
    base[c] >= 1 /\ ~Pending(c) =>
        /\ view[c].open
        /\ view[c].rev = base[c]
        /\ view[c].text = log[base[c]].text

\* NoSelfConflict for one window
RefusedInv(c) ==
    request[c].at = "conflict" =>
        \E r \in request[c].base + 1 .. request[c].rev :
            log[r].by # c \/ ~log[r].dirty

\* SavedIsOnDisk for one window, and the moment before
DiskInv(c) ==
    writer = c =>
        /\ save[c].at = "written" => disk = save[c].text
        /\ save[c].at = "synced" => disk = log[save[c].rev].text

WindowInv(c) ==
    /\ PhaseInv(c)
    /\ RevInv(c)
    /\ SeqInv(c)
    /\ OwnInv(c)
    /\ ShownInv(c)
    /\ RefusedInv(c)
    /\ DiskInv(c)

IInv == TypeInv /\ \A c \in Windows : WindowInv(c)

-----------------------------------------------------------------------------
(* The log and what is shown of it *)

\* A sequence over a set is one over every larger set.
LEMMA SeqWiden ==
    ASSUME NEW S, NEW T, S \subseteq T, NEW s \in Seq(S)
    PROVE  s \in Seq(T)
OBVIOUS

\* Accepting a version adds one revision, leaves the others as they are, and
\* announces no more than that.
LEMMA CommitFacts ==
    ASSUME TypeInv, NEW v \in Entries, Commit(v)
    PROVE  /\ log' \in Seq(Entries)
           /\ Len(log') = Len(log) + 1
           /\ \A r \in 1..Len(log) : log'[r] = log[r]
           /\ log'[Len(log) + 1] = v
           /\ inbox' \in [Windows -> Seq(1..Len(log'))]
<1>1. log \in Seq(Entries) /\ Len(log) \in Nat
    BY DEF TypeInv
<1>2. /\ log' = Append(log, v)
      /\ inbox' = [c \in Windows |->
                      IF Listening(c) THEN Append(inbox[c], Len(log) + 1)
                                      ELSE inbox[c]]
    BY DEF Commit
<1>3. /\ log' \in Seq(Entries)
      /\ Len(log') = Len(log) + 1
      /\ \A r \in 1..Len(log) : log'[r] = log[r]
      /\ log'[Len(log) + 1] = v
    BY <1>1, <1>2
<1>4. ASSUME NEW c \in Windows
      PROVE  /\ inbox[c] \in Seq(1..Len(log) + 1)
             /\ Append(inbox[c], Len(log) + 1) \in Seq(1..Len(log) + 1)
    <2>1. inbox[c] \in Seq(1..Len(log))
        BY DEF TypeInv
    <2>2. 1..Len(log) \subseteq 1..Len(log) + 1 /\ Len(log) + 1 \in 1..Len(log) + 1
        BY <1>1
    <2>3. inbox[c] \in Seq(1..Len(log) + 1)
        BY <2>1, <2>2, SeqWiden
    <2>4. QED
        BY <2>2, <2>3
<1>5. QED
    BY <1>2, <1>3, <1>4

\* A view changes in three ways: to the snapshot of a revision,
LEMMA SnapshotFacts ==
    ASSUME TypeInv, NEW c \in Windows, NEW r \in 1..Len(log),
           NEW status \in Statuses, ShowSnapshot(c, r, status)
    PROVE  /\ view' \in [Windows -> Views]
           /\ view'[c].open
           /\ view'[c].rev = r
           /\ view'[c].text = log[r].text
           /\ \A d \in Windows : d # c => view'[d] = view[d]
<1>1. log[r] \in Entries /\ r \in Nat /\ view \in [Windows -> Views]
    BY DEF TypeInv
<1>2. [text |-> log[r].text, dirty |-> log[r].dirty, rev |-> r,
       status |-> status, open |-> TRUE] \in Views
    BY <1>1 DEF Entries, Views
<1>3. QED
    BY <1>1, <1>2 DEF ShowSnapshot

\* ... a later revision under the same text,
LEMMA RevisionFacts ==
    ASSUME TypeInv, NEW c \in Windows, NEW r \in Nat,
           NEW status \in Statuses, ShowRevision(c, r, status)
    PROVE  /\ view' \in [Windows -> Views]
           /\ \A d \in Windows : d # c => view'[d] = view[d]
<1>1. view \in [Windows -> Views]
    BY DEF TypeInv
<1>2. view' = [view EXCEPT ![c] =
                  [[view[c] EXCEPT !.rev = r] EXCEPT !.status = status]]
    BY <1>1 DEF ShowRevision
<1>3. [[view[c] EXCEPT !.rev = r] EXCEPT !.status = status] \in Views
    BY <1>1 DEF Views
<1>4. QED
    BY <1>1, <1>2, <1>3

\* ... or the status alone.
LEMMA StatusFacts ==
    ASSUME TypeInv, NEW c \in Windows, NEW status \in Statuses,
           ShowStatus(c, status)
    PROVE  /\ view' \in [Windows -> Views]
           /\ view'[c].open = view[c].open
           /\ view'[c].rev = view[c].rev
           /\ view'[c].text = view[c].text
           /\ \A d \in Windows : d # c => view'[d] = view[d]
<1>1. view \in [Windows -> Views]
    BY DEF TypeInv
<1>2. view' = [view EXCEPT ![c] = [view[c] EXCEPT !.status = status]]
    BY <1>1 DEF ShowStatus
<1>3. /\ [view[c] EXCEPT !.status = status] \in Views
      /\ [view[c] EXCEPT !.status = status].open = view[c].open
      /\ [view[c] EXCEPT !.status = status].rev = view[c].rev
      /\ [view[c] EXCEPT !.status = status].text = view[c].text
    BY <1>1 DEF Views
<1>4. QED
    BY <1>1, <1>2, <1>3

-----------------------------------------------------------------------------
(* Types *)

\* What one window can do
Acts(c) ==
    \/ Type(c) \/ (c = Main /\ Relabel) \/ Start(c)
    \/ Subscribed(c) \/ Register(c) \/ Joined(c)
    \/ Tick(c) \/ Update(c) \/ Applied(c) \/ Conflict(c) \/ UpdateFails(c)
    \/ Receive(c)
    \/ Save(c) \/ Close(c) \/ Flush(c) \/ FlushPublishes(c) \/ Flushed(c)
    \/ Closed(c) \/ WriteFile(c) \/ SaveFails(c) \/ MarkBufferSaved(c)
    \/ MarkSaved(c) \/ Saved(c)

\* Every step is one of one window, or changes nothing.
LEMMA StepActs == [Next]_vars => (\E c \in Windows : Acts(c)) \/ UNCHANGED vars
BY EditorSyncAssumption DEF Next, Acts, Joining, Publishing, Saving

\* At first nobody has registered and nothing is saved.
LEMMA TypeInit == Init => TypeInv
<1> SUFFICES ASSUME Init PROVE TypeInv
    OBVIOUS
<1>1. 0 \in Texts
    BY EditorSyncAssumption DEF Texts
<1>2. log \in Seq(Entries) /\ \A c \in Windows : inbox[c] \in Seq(1..Len(log))
    BY DEF Init
<1>3. view \in [Windows -> Views]
    BY <1>1 DEF Init, Views, Statuses
<1>4. local \in [Windows -> Versions] /\ seed \in Versions
    BY <1>1 DEF Init, Versions
<1>5. request \in [Windows -> Requests] /\ save \in [Windows -> Saves]
    BY DEF Init, Requests, Saves
<1>6. phase \in [Windows -> Phases] /\ writer \in Windows /\ edits \in 0..MaxEdits
    BY EditorSyncAssumption DEF Init, Phases
<1>7. QED
    BY <1>1, <1>2, <1>3, <1>4, <1>5, <1>6 DEF Init, TypeInv

\* The revision a client that hears of another one is at afterwards
LEMMA LaterFacts ==
    ASSUME NEW n \in Nat, NEW r \in Nat, NEW s \in Nat, r <= n, s <= n
    PROVE  /\ Later(r, s) \in Nat
           /\ Later(r, s) <= n
           /\ Later(r, s) >= r /\ Later(r, s) >= s
           /\ Later(r, s) \in {r, s}
BY DEF Later

\* The requests in flight have the fields of their kind,
LEMMA RequestFields ==
    ASSUME TypeInv, NEW c \in Windows
    PROVE  /\ request[c].at \in {"idle", "registered", "sent", "applied",
                                 "conflict"}
           /\ request[c].at = "registered" => request[c].rev \in Nat
           /\ request[c].at \in {"applied", "conflict"} =>
                  /\ request[c].base \in Nat
                  /\ request[c].seq \in Nat
                  /\ request[c].text \in Texts
                  /\ request[c].rev \in Nat
           /\ request[c].at = "sent" =>
                  /\ request[c].base \in Nat
                  /\ request[c].seq \in Nat
                  /\ request[c].text \in Texts
                  /\ request[c].dirty \in BOOLEAN
           /\ request[c].at = "idle" <=> request[c] = Idle
<1>1. request[c] \in Requests
    BY DEF TypeInv
<1>2. QED
    BY <1>1 DEF Requests, Idle

\* ... and so have the saves.
LEMMA SaveFields ==
    ASSUME TypeInv, NEW c \in Windows
    PROVE  /\ save[c].at \in {"starting", "flush"} =>
                  save[c].then \in {"write", "close"}
           /\ save[c].at \in {"write", "written"} =>
                  /\ save[c].text \in Texts
                  /\ save[c].rev \in Nat
                  /\ save[c].shared \in BOOLEAN
           /\ save[c].at \in {"synced", "conflict"} => save[c].rev \in Nat
<1>1. save[c] \in Saves
    BY DEF TypeInv
<1>2. QED
    BY <1>1 DEF Saves, Idle

\* publishLatest sends what was typed last.
LEMMA PublishFacts ==
    ASSUME TypeInv, NEW c \in Windows, Publish(c)
    PROVE  /\ request' \in [Windows -> Requests]
           /\ request'[c].at = "sent"
           /\ request'[c].base = base[c]
           /\ request'[c].seq = queued[c]
           /\ \A d \in Windows : d # c => request'[d] = request[d]
           /\ view' \in [Windows -> Views]
           /\ view'[c].open = view[c].open
           /\ view'[c].rev = view[c].rev
           /\ view'[c].text = view[c].text
           /\ \A d \in Windows : d # c => view'[d] = view[d]
<1>1. ShowStatus(c, "syncing") /\ "syncing" \in Statuses
    BY DEF Publish, Statuses
<1>2. local[c] \in Versions /\ base[c] \in Nat /\ queued[c] \in Nat
    BY DEF TypeInv
<1>3. [at |-> "sent", base |-> base[c], seq |-> queued[c],
       text |-> local[c].text, dirty |-> local[c].dirty] \in Requests
    BY <1>2 DEF Requests, Versions
<1>4. QED
    BY <1>1, <1>3, StatusFacts DEF Publish, TypeInv

\* A view stays one when its text, its flag or its status is replaced.
LEMMA ViewFields ==
    ASSUME NEW w \in Views
    PROVE  /\ \A t \in Texts : [w EXCEPT !.text = t] \in Views
           /\ \A d \in BOOLEAN : [w EXCEPT !.dirty = d] \in Views
           /\ \A status \in Statuses : [w EXCEPT !.status = status] \in Views
BY DEF Views

\* Every action keeps every variable in its domain.
LEMMA TypeStep == IInv /\ [Next]_vars => TypeInv'
<1> SUFFICES ASSUME IInv, [Next]_vars PROVE TypeInv'
    OBVIOUS
<1>0. TypeInv /\ \A c \in Windows : RevInv(c) /\ PhaseInv(c)
    BY DEF IInv, WindowInv
<1>01. /\ log \in Seq(Entries) /\ Len(log) \in Nat
       /\ phase \in [Windows -> Phases]
       /\ base \in [Windows -> Nat]
       /\ queued \in [Windows -> Nat] /\ acked \in [Windows -> Nat]
       /\ local \in [Windows -> Versions] /\ seed \in Versions
       /\ timer \in [Windows -> BOOLEAN]
       /\ request \in [Windows -> Requests]
       /\ inbox \in [Windows -> Seq(1..Len(log))]
       /\ view \in [Windows -> Views]
       /\ save \in [Windows -> Saves]
       /\ edits \in 0..MaxEdits
    BY <1>0 DEF TypeInv
<1> USE <1>0, <1>01
<1>1. ASSUME NEW c \in Windows, Type(c) PROVE TypeInv'
    <2>1. edits + 1 \in Texts /\ edits + 1 \in 0..MaxEdits
        BY <1>1, EditorSyncAssumption DEF Type, Texts
    <2>2. view' \in [Windows -> Views]
        <3> DEFINE shown == [[[view[c] EXCEPT !.text = edits + 1]
                                EXCEPT !.dirty = TRUE]
                                EXCEPT !.status = "local"]
        <3>1. shown \in Views
            BY <2>1, ViewFields DEF Statuses
        <3>2. view' = [view EXCEPT ![c] = shown]
            BY <1>1 DEF Type
        <3> HIDE DEF shown
        <3>3. QED
            BY <3>1, <3>2
    <2>3. /\ queued' \in [Windows -> Nat]
          /\ local' \in [Windows -> Versions]
          /\ timer' \in [Windows -> BOOLEAN]
        <3>1. [text |-> edits + 1, dirty |-> TRUE] \in Versions
            BY <2>1 DEF Versions
        <3>2. \/ UNCHANGED <<queued, local, timer>>
              \/ Queue(c, [text |-> edits + 1, dirty |-> TRUE])
            BY <1>1 DEF Type
        <3>3. QED
            <4>1. CASE UNCHANGED <<queued, local, timer>>
                BY <4>1
            <4>2. CASE Queue(c, [text |-> edits + 1, dirty |-> TRUE])
                BY <3>1, <4>2 DEF Queue
            <4>3. QED
                BY <3>2, <4>1, <4>2
    <2>4. QED
        BY <1>1, <2>1, <2>2, <2>3 DEF Type, file, TypeInv
<1>2. CASE Relabel
    <2>1. edits + 1 \in 0..MaxEdits /\ Main \in Windows
        BY <1>2, EditorSyncAssumption DEF Relabel
    <2>2. view' \in [Windows -> Views]
        BY <1>2, <2>1, StatusFacts DEF Relabel, Statuses
    <2>3. [text |-> view[Main].text, dirty |-> view[Main].dirty] \in Versions
        BY <2>1 DEF Views, Versions
    <2>4. /\ queued' \in [Windows -> Nat]
          /\ local' \in [Windows -> Versions]
          /\ timer' \in [Windows -> BOOLEAN]
        BY <1>2, <2>1, <2>3 DEF Relabel, Queue
    <2>5. QED
        BY <1>2, <2>1, <2>2, <2>4 DEF Relabel, file, TypeInv
<1>3. ASSUME NEW c \in Windows, Start(c) \/ Subscribed(c) PROVE TypeInv'
    <2>1. seed' \in Versions
        BY <1>3 DEF Start, Subscribed, Views, Versions
    <2>2. phase' \in [Windows -> Phases]
        BY <1>3 DEF Start, Subscribed, Phases
    <2>3. QED
        BY <1>3, <2>1, <2>2 DEF Start, Subscribed, file, counts, TypeInv
<1>4. ASSUME NEW c \in Windows, Register(c) PROVE TypeInv'
    <2>1. log' \in Seq(Entries) /\ Len(log') \in Nat /\ Len(log) <= Len(log')
        <3>1. [text |-> seed.text, dirty |-> seed.dirty, by |-> c] \in Entries
            BY DEF Versions, Entries
        <3>2. \/ log' = log
              \/ /\ log = <<>>
                 /\ log' = <<[text |-> seed.text, dirty |-> seed.dirty,
                             by |-> c]>>
            BY <1>4 DEF Register
        <3>3. CASE log' = log
            BY <3>3
        <3>4. CASE log = <<>> /\ log' = <<[text |-> seed.text,
                                          dirty |-> seed.dirty, by |-> c]>>
            BY <3>1, <3>4
        <3>5. QED
            BY <3>2, <3>3, <3>4
    <2>2. inbox' \in [Windows -> Seq(1..Len(log'))]
        <3>1. 1..Len(log) \subseteq 1..Len(log') /\ inbox' = inbox
            BY <1>4, <2>1 DEF Register
        <3>2. QED
            BY <3>1, SeqWiden
    <2>3. phase' \in [Windows -> Phases] /\ request' \in [Windows -> Requests]
        BY <1>4, <2>1 DEF Register, Phases, Requests
    <2>4. QED
        BY <1>4, <2>1, <2>2, <2>3 DEF Register, file, counts, TypeInv
<1>5. ASSUME NEW c \in Windows, Joined(c) PROVE TypeInv'
    <2>1. request[c].rev \in 1..Len(log)
        BY <1>5 DEF Joined, RevInv, PhaseInv
    <2>2. base' \in [Windows -> Nat] /\ view' \in [Windows -> Views]
        <3>1. CASE request[c].rev <= base[c]
            BY <1>5, <3>1, <2>1 DEF Joined
        <3>2. CASE request[c].rev > base[c]
            <4>1. \/ ShowRevision(c, request[c].rev, "local")
                  \/ ShowSnapshot(c, request[c].rev, "synced")
                BY <1>5, <2>1, <3>2 DEF Joined
            <4>2. base' = [base EXCEPT ![c] = request[c].rev]
                BY <1>5, <2>1, <3>2 DEF Joined
            <4>3. "local" \in Statuses /\ "synced" \in Statuses /\ request[c].rev \in Nat
                BY <2>1 DEF Statuses
            <4>4. view' \in [Windows -> Views]
                <5>1. CASE ShowRevision(c, request[c].rev, "local")
                    BY <4>3, <5>1, RevisionFacts
                <5>2. CASE ShowSnapshot(c, request[c].rev, "synced")
                    BY <2>1, <4>3, <5>2, SnapshotFacts
                <5>3. QED
                    BY <4>1, <5>1, <5>2
            <4>5. QED
                BY <4>2, <4>3, <4>4
        <3>3. QED
            BY <2>1, <3>1, <3>2
    <2>3. /\ phase' \in [Windows -> Phases]
          /\ request' \in [Windows -> Requests]
          /\ timer' \in [Windows -> BOOLEAN]
        BY <1>5 DEF Joined, Phases, Requests, Pending
    <2>4. QED
        BY <1>5, <2>2, <2>3 DEF Joined, file, counts, TypeInv
<1>6. ASSUME NEW c \in Windows, Tick(c) PROVE TypeInv'
    <2>1. request' \in [Windows -> Requests] /\ view' \in [Windows -> Views]
        BY <1>6, PublishFacts DEF Tick
    <2>2. QED
        BY <1>6, <2>1 DEF Tick, file, counts, TypeInv
<1>7. ASSUME NEW c \in Windows, Update(c) PROVE TypeInv'
    <2>1. /\ request[c].base \in Nat /\ request[c].seq \in Nat
          /\ request[c].text \in Texts /\ request[c].dirty \in BOOLEAN
        BY <1>7, RequestFields DEF Update
    <2>2. \A r \in Nat, at \in {"applied", "conflict"} :
              Answer(c, at, r) \in Requests
        BY <2>1 DEF Answer, Requests
    <2>3. /\ log' \in Seq(Entries) /\ inbox' \in [Windows -> Seq(1..Len(log'))]
          /\ request' \in [Windows -> Requests]
        <3>1. CASE request[c].base = Len(log)
            <4>1. [text |-> request[c].text, dirty |-> request[c].dirty,
                   by |-> c] \in Entries
                BY <2>1 DEF Entries
            <4>2. /\ Commit([text |-> request[c].text,
                             dirty |-> request[c].dirty, by |-> c])
                  /\ request' = [request EXCEPT ![c] =
                                    Answer(c, "applied", Len(log) + 1)]
                BY <1>7, <3>1 DEF Update
            <4>3. QED
                BY <4>1, <4>2, <2>2, CommitFacts
        <3>2. CASE request[c].base # Len(log)
            <4>1. /\ UNCHANGED <<log, inbox>>
                  /\ request' = [request EXCEPT ![c] =
                                    Answer(c, "conflict", Len(log))]
                BY <1>7, <3>2 DEF Update
            <4>2. QED
                BY <2>2, <4>1
        <3>3. QED
            BY <3>1, <3>2
    <2>4. QED
        BY <1>7, <2>3 DEF Update, file, counts, TypeInv
<1>8. ASSUME NEW c \in Windows, Applied(c) \/ Conflict(c) PROVE TypeInv'
    <2> DEFINE r == Later(base[c], request[c].rev)
    <2>1. request[c].rev \in 1..Len(log) /\ request[c].seq \in Nat
        BY <1>8, RequestFields DEF Applied, Conflict, RevInv
    <2>2. r \in 1..Len(log)
        <3>1. base[c] \in Nat /\ base[c] <= Len(log)
            BY DEF RevInv
        <3>2. QED
            BY <2>1, <3>1 DEF Later
    <2> HIDE DEF r
    <2>3. /\ base' = [base EXCEPT ![c] = r]
          /\ acked' = [acked EXCEPT ![c] = Later(@, request[c].seq)]
          /\ request' = [request EXCEPT ![c] = Idle]
          /\ timer' = [timer EXCEPT ![c] = @ \/ queued[c] > acked'[c]]
        BY <1>8 DEF Applied, Conflict, r
    <2>4. \E status \in Statuses :
              ShowRevision(c, r, status) \/ ShowSnapshot(c, r, status)
        BY <1>8 DEF Applied, Conflict, r, Statuses
    <2>5. view' \in [Windows -> Views]
        <3>1. PICK status \in Statuses :
                  ShowRevision(c, r, status) \/ ShowSnapshot(c, r, status)
            BY <2>4
        <3>2. r \in Nat
            BY <2>2
        <3>3. CASE ShowRevision(c, r, status)
            BY <3>2, <3>3, RevisionFacts
        <3>4. CASE ShowSnapshot(c, r, status)
            BY <2>2, <3>4, SnapshotFacts
        <3>5. QED
            BY <3>1, <3>3, <3>4
    <2>6. /\ base' \in [Windows -> Nat]
          /\ acked' \in [Windows -> Nat]
          /\ request' \in [Windows -> Requests]
          /\ timer' \in [Windows -> BOOLEAN]
        BY <2>1, <2>2, <2>3 DEF Later, Requests
    <2>7. QED
        BY <1>8, <2>5, <2>6 DEF Applied, Conflict, file, counts, TypeInv
<1>9. ASSUME NEW c \in Windows, UpdateFails(c) PROVE TypeInv'
    <2>1. view' \in [Windows -> Views]
        BY <1>9, StatusFacts DEF UpdateFails, Statuses
    <2>2. /\ request' \in [Windows -> Requests]
          /\ save' \in [Windows -> Saves]
          /\ timer' \in [Windows -> BOOLEAN]
        BY <1>9 DEF UpdateFails, Requests, Saves
    <2>3. QED
        BY <1>9, <2>1, <2>2 DEF UpdateFails, file, TypeInv
<1>10. ASSUME NEW c \in Windows, Receive(c) PROVE TypeInv'
    <2>1. inbox[c] \in Seq(1..Len(log)) /\ inbox[c] # <<>>
        BY <1>10 DEF Receive
    <2>2. Head(inbox[c]) \in 1..Len(log) /\ Tail(inbox[c]) \in Seq(1..Len(log))
        BY <2>1, HeadTailProperties
    <2>3. inbox' \in [Windows -> Seq(1..Len(log))]
        BY <1>10, <2>2 DEF Receive
    <2>4. base' \in [Windows -> Nat] /\ view' \in [Windows -> Views]
        <3>1. CASE Head(inbox[c]) <= base[c]
            BY <1>10, <2>2, <3>1 DEF Receive
        <3>2. CASE Head(inbox[c]) > base[c]
            <4>1. \/ ShowRevision(c, Head(inbox[c]), "local")
                  \/ ShowSnapshot(c, Head(inbox[c]), "synced")
                BY <1>10, <2>2, <3>2 DEF Receive
            <4>2. base' = [base EXCEPT ![c] = Head(inbox[c])]
                BY <1>10, <2>2, <3>2 DEF Receive
            <4>3. "local" \in Statuses /\ "synced" \in Statuses /\ Head(inbox[c]) \in Nat
                BY <2>2 DEF Statuses
            <4>4. view' \in [Windows -> Views]
                <5>1. CASE ShowRevision(c, Head(inbox[c]), "local")
                    BY <4>3, <5>1, RevisionFacts
                <5>2. CASE ShowSnapshot(c, Head(inbox[c]), "synced")
                    BY <2>2, <4>3, <5>2, SnapshotFacts
                <5>3. QED
                    BY <4>1, <5>1, <5>2
            <4>5. QED
                BY <4>2, <4>3, <4>4
        <3>3. QED
            BY <2>2, <3>1, <3>2
    <2>5. QED
        BY <1>10, <2>3, <2>4 DEF Receive, counts, file, TypeInv
<1>11. ASSUME NEW c \in Windows, Save(c) \/ Close(c) \/ Flush(c)
       PROVE  TypeInv'
    <2>1. view[c].text \in Texts /\ view[c].rev \in Nat
        BY DEF Views
    <2>2. [at |-> "write", text |-> view[c].text, rev |-> view[c].rev,
           shared |-> FALSE] \in Saves
        BY <2>1 DEF Saves
    <2>3. save' \in [Windows -> Saves]
        <3>1. CASE Save(c) \/ Close(c)
            <4>1. /\ [at |-> "starting", then |-> "write"] \in Saves
                  /\ [at |-> "starting", then |-> "close"] \in Saves
                BY DEF Saves
            <4>2. \E s \in Saves : save' = [save EXCEPT ![c] = s]
                BY <2>2, <3>1, <4>1 DEF Save, Close
            <4>3. QED
                BY <4>2
        <3>2. CASE Flush(c)
            <4>1. save[c].then \in {"write", "close"}
                BY <3>2, SaveFields DEF Flush
            <4>2. [at |-> "flush", then |-> save[c].then] \in Saves
                BY <4>1 DEF Saves
            <4>3. QED
                BY <3>2, <4>2 DEF Flush
        <3>3. QED
            BY <1>11, <3>1, <3>2
    <2>4. timer' \in [Windows -> BOOLEAN]
        BY <1>11 DEF Save, Close, Flush, client
    <2>5. QED
        BY <1>11, <2>3, <2>4 DEF Save, Close, Flush, client, file, counts, TypeInv
<1>12. ASSUME NEW c \in Windows, FlushPublishes(c) PROVE TypeInv'
    BY <1>12, PublishFacts DEF FlushPublishes, file, counts, TypeInv
<1>13. ASSUME NEW c \in Windows, Flushed(c) PROVE TypeInv'
    <2>1. base[c] \in 1..Len(log)
        BY <1>13 DEF Flushed, RevInv, PhaseInv
    <2>2. [at |-> "write", text |-> log[base[c]].text, rev |-> base[c],
           shared |-> TRUE] \in Saves
        <3>1. log[base[c]] \in Entries /\ base[c] \in Nat
            BY <2>1
        <3>2. log[base[c]].text \in Texts
            BY <3>1 DEF Entries
        <3>3. QED
            BY <3>1, <3>2 DEF Saves
    <2>3. [at |-> "close"] \in Saves
        BY DEF Saves
    <2>4. save' \in [Windows -> Saves]
        BY <1>13, <2>2, <2>3 DEF Flushed
    <2>5. QED
        BY <1>13, <2>4 DEF Flushed, client, file, counts, TypeInv
<1>14. ASSUME NEW c \in Windows, Closed(c) PROVE TypeInv'
    <2>1. inbox' \in [Windows -> Seq(1..Len(log))]
        BY <1>14 DEF Closed
    <2>2. QED
        BY <1>14, <2>1 DEF Closed, Phases, Saves, file, counts, TypeInv
<1>15. ASSUME NEW c \in Windows, WriteFile(c) PROVE TypeInv'
    <2>1. [save[c] EXCEPT !.at = "written"] \in Saves /\ save[c].text \in Texts
        <3>1. save[c] \in [at : {"write", "written"}, text : Texts, rev : Nat,
                           shared : BOOLEAN]
            <4>1. save[c] \in Saves /\ save[c].at = "write"
                BY <1>15 DEF WriteFile
            <4> HIDE <1>0, <1>01
            <4>2. QED
                BY <4>1 DEF Saves, Idle
        <3>2. [save[c] EXCEPT !.at = "written"]
                  \in [at : {"write", "written"}, text : Texts, rev : Nat,
                       shared : BOOLEAN]
            BY <3>1
        <3>3. QED
            BY <3>1, <3>2 DEF Saves
    <2>2. save' = [save EXCEPT ![c] = [save[c] EXCEPT !.at = "written"]]
        BY <1>15 DEF WriteFile
    <2>3. QED
        BY <1>15, <2>1, <2>2 DEF WriteFile, client, counts, TypeInv
<1>16. ASSUME NEW c \in Windows, SaveFails(c) PROVE TypeInv'
    BY <1>16 DEF SaveFails, Saves, client, file, TypeInv
<1>17. ASSUME NEW c \in Windows, MarkBufferSaved(c) PROVE TypeInv'
    <2>1. view' \in [Windows -> Views]
        <3>1. [[view[c] EXCEPT !.dirty = FALSE] EXCEPT !.status = "synced"]
                  \in Views
            <4>1. view[c] \in Views /\ "synced" \in Statuses
                BY DEF Statuses
            <4>2. [view[c] EXCEPT !.dirty = FALSE] \in Views
                BY <4>1, ViewFields
            <4>3. QED
                BY <4>1, <4>2, ViewFields
        <3>2. \/ view' = view
              \/ view' = [view EXCEPT ![c] =
                    [[view[c] EXCEPT !.dirty = FALSE] EXCEPT !.status = "synced"]]
            BY <1>17 DEF MarkBufferSaved
        <3>3. QED
            BY <3>1, <3>2
    <2>2. QED
        BY <1>17, <2>1 DEF MarkBufferSaved, Saves, client, file, counts, TypeInv
<1>18. ASSUME NEW c \in Windows, MarkSaved(c) PROVE TypeInv'
    <2>1. \A r \in Nat : [at |-> "synced", rev |-> r] \in Saves
                         /\ [at |-> "conflict", rev |-> r] \in Saves
        BY DEF Saves
    <2>2. /\ log' \in Seq(Entries) /\ inbox' \in [Windows -> Seq(1..Len(log'))]
          /\ save' \in [Windows -> Saves]
        <3>1. CASE save[c].rev = Len(log)
            <4>1. Len(log) \in 1..Len(log)
                BY <1>18, <3>1 DEF MarkSaved, RevInv
            <4>2. [text |-> log[Len(log)].text, dirty |-> FALSE, by |-> c]
                      \in Entries
                <5>1. log[Len(log)] \in Entries
                    BY <4>1
                <5>2. QED
                    BY <5>1 DEF Entries
            <4>3. /\ Commit([text |-> log[Len(log)].text, dirty |-> FALSE,
                             by |-> c])
                  /\ save' = [save EXCEPT ![c] =
                                 [at |-> "synced", rev |-> Len(log) + 1]]
                BY <1>18, <3>1 DEF MarkSaved
            <4>4. QED
                <5>1. [at |-> "synced", rev |-> Len(log) + 1] \in Saves
                    <6>1. Len(log) + 1 \in Nat
                        OBVIOUS
                    <6>2. QED
                        BY <2>1, <6>1
                <5>2. save' \in [Windows -> Saves]
                    BY <4>3, <5>1
                <5>3. QED
                    BY <4>2, <4>3, <5>2, CommitFacts
        <3>2. CASE save[c].rev # Len(log)
            <4>1. /\ UNCHANGED <<log, inbox>>
                  /\ save' = [save EXCEPT ![c] =
                                 [at |-> "conflict", rev |-> Len(log)]]
                BY <1>18, <3>2 DEF MarkSaved
            <4>2. QED
                BY <2>1, <4>1
        <3>3. QED
            BY <3>1, <3>2
    <2>3. QED
        BY <1>18, <2>2 DEF MarkSaved, file, counts, TypeInv
<1>19. ASSUME NEW c \in Windows, Saved(c) PROVE TypeInv'
    <2> DEFINE r == Later(base[c], save[c].rev)
    <2>1. save[c].rev \in 1..Len(log) /\ save[c].at \in Statuses
        BY <1>19 DEF Saved, RevInv, Statuses
    <2>2. r \in 1..Len(log)
        <3>1. base[c] \in Nat /\ base[c] <= Len(log)
            BY DEF RevInv
        <3>2. QED
            BY <2>1, <3>1 DEF Later
    <2> HIDE DEF r
    <2>3. view[c].rev \in Nat
        BY DEF Views
    <2>4. \/ ShowSnapshot(c, r, save[c].at)
          \/ ShowRevision(c, IF r > base[c] THEN r ELSE view[c].rev, save[c].at)
        BY <1>19 DEF Saved, r
    <2>5. view' \in [Windows -> Views]
        <3>1. (IF r > base[c] THEN r ELSE view[c].rev) \in Nat
            BY <2>2, <2>3
        <3>2. CASE ShowSnapshot(c, r, save[c].at)
            BY <2>1, <2>2, <3>2, SnapshotFacts
        <3>3. CASE ShowRevision(c, IF r > base[c] THEN r ELSE view[c].rev,
                                save[c].at)
            BY <2>1, <3>1, <3>3, RevisionFacts
        <3>4. QED
            BY <2>4, <3>2, <3>3
    <2>6. base' = [base EXCEPT ![c] = r] /\ save' = [save EXCEPT ![c] = Idle]
        BY <1>19 DEF Saved, r
    <2>7. base' \in [Windows -> Nat] /\ save' \in [Windows -> Saves]
        BY <2>2, <2>6 DEF Saves
    <2>8. QED
        BY <1>19, <2>5, <2>7 DEF Saved, file, counts, TypeInv
<1>20. CASE UNCHANGED vars
    BY <1>20 DEF vars, client, file, counts, TypeInv
<1>21. QED
    <2> HIDE <1>0, <1>01
    <2>1. QED
        BY <1>1, <1>2, <1>3, <1>4, <1>5, <1>6, <1>7, <1>8, <1>9, <1>10, <1>11,
           <1>12, <1>13, <1>14, <1>15, <1>16, <1>17, <1>18, <1>19, <1>20,
           StepActs DEF Acts

-----------------------------------------------------------------------------
(* What a step leaves alone *)

\* The log grows at its end.
LogExtends ==
    /\ log \in Seq(Entries) /\ log' \in Seq(Entries)
    /\ Len(log) <= Len(log')
    /\ \A r \in 1..Len(log) : log'[r] = log[r]

\* No change of window c is among the new revisions, unless it is a mark.
OwnFree(c) ==
    \A r \in Len(log) + 1 .. Len(log') : log'[r].by = c => ~log'[r].dirty

\* A log that keeps its value extends itself.
LEMMA LogSame ==
    ASSUME TypeInv, log' = log
    PROVE  LogExtends /\ \A c \in Windows : OwnFree(c)
<1>1. log \in Seq(Entries) /\ Len(log) \in Nat
    BY DEF TypeInv
<1>2. QED
    BY <1>1 DEF LogExtends, OwnFree

\* A version of window c that is accepted extends the log.
LEMMA CommitExtends ==
    ASSUME TypeInv, NEW c \in Windows, NEW v \in Entries, v.by = c, Commit(v)
    PROVE  /\ LogExtends
           /\ Len(log') = Len(log) + 1 /\ log'[Len(log) + 1] = v
           /\ \A d \in Windows : d # c \/ ~v.dirty => OwnFree(d)
           /\ \A d \in Windows : ~Listening(d) => inbox'[d] = inbox[d]
<1>1. log \in Seq(Entries) /\ Len(log) \in Nat
    BY DEF TypeInv
<1>2. /\ log' \in Seq(Entries)
      /\ Len(log') = Len(log) + 1
      /\ \A r \in 1..Len(log) : log'[r] = log[r]
      /\ log'[Len(log) + 1] = v
    BY CommitFacts
<1>3. LogExtends
    BY <1>1, <1>2 DEF LogExtends
<1>4. \A d \in Windows : d # c \/ ~v.dirty => OwnFree(d)
    BY <1>1, <1>2 DEF OwnFree
<1>5. \A d \in Windows : ~Listening(d) => inbox'[d] = inbox[d]
    BY DEF Commit
<1>6. QED
    BY <1>2, <1>3, <1>4, <1>5

\* The parts of the invariant of a window whose share of the state is kept
LEMMA PhaseKeeps ==
    ASSUME NEW c \in Windows, PhaseInv(c),
           phase'[c] = phase[c], request'[c] = request[c],
           base'[c] = base[c], save'[c] = save[c],
           phase[c] \in {"off", "subscribing"} => inbox'[c] = inbox[c]
    PROVE  PhaseInv(c)'
BY DEF PhaseInv

\* ... of what it knows of the log,
LEMMA RevKeeps ==
    ASSUME TypeInv, NEW c \in Windows, RevInv(c), LogExtends,
           base'[c] = base[c], request'[c] = request[c], save'[c] = save[c]
    PROVE  RevInv(c)'
<1>1. Len(log) \in Nat /\ Len(log') \in Nat /\ Len(log) <= Len(log')
    BY DEF LogExtends
<1>2. save[c].at \in {"write", "written"} /\ save[c].shared =>
          /\ save[c].rev \in 1..Len(log')
          /\ save[c].text = log'[save[c].rev].text
    BY <1>1 DEF RevInv, LogExtends
<1>3. base[c] \in Nat /\ (request[c].at = "sent" => request[c].base \in Nat)
    BY RequestFields DEF TypeInv
<1>4. 1..Len(log) \subseteq 1..Len(log')
    BY <1>1
<1>5. base'[c] <= Len(log')
    BY <1>1, <1>3 DEF RevInv
<1>6. request[c].at = "sent" => request[c].base <= Len(log')
    BY <1>1, <1>3 DEF RevInv
<1>7. QED
    BY <1>2, <1>4, <1>5, <1>6 DEF RevInv

\* ... of the changes it has under way,
LEMMA SeqKeeps ==
    ASSUME NEW c \in Windows, SeqInv(c),
           queued'[c] = queued[c], acked'[c] = acked[c],
           request'[c] = request[c]
    PROVE  SeqInv(c)'
BY DEF SeqInv

\* ... of its own revisions, also when it hears of later ones,
LEMMA OwnKeeps ==
    ASSUME TypeInv, NEW c \in Windows, OwnInv(c), RevInv(c), LogExtends,
           OwnFree(c), base'[c] \in Nat, base'[c] >= base[c],
           request'[c] = request[c]
    PROVE  OwnInv(c)'
<1>1. /\ Len(log) \in Nat /\ Len(log') \in Nat /\ Len(log) <= Len(log')
      /\ base[c] \in Nat
    BY DEF LogExtends, TypeInv
<1>2. request[c].at = "sent" => request[c].base \in Nat
    BY RequestFields
<1>3. ASSUME NEW r \in base'[c] + 1 .. Len(log'),
             log'[r].by = c, log'[r].dirty
      PROVE  /\ request[c].at \in {"registered", "applied"}
             /\ r <= request[c].rev
    <2>1. r \in Nat /\ r <= Len(log')
        BY <1>1, <1>3
    <2>2. r <= Len(log)
        BY <1>1, <1>3, <2>1 DEF OwnFree
    <2>3. r \in base[c] + 1 .. Len(log) /\ log'[r] = log[r]
        BY <1>1, <2>1, <2>2 DEF LogExtends
    <2>4. QED
        BY <1>3, <2>3 DEF OwnInv
<1>4. ASSUME request[c].at = "sent", NEW r \in request[c].base + 1 .. Len(log'),
             log'[r].by = c
      PROVE  ~log'[r].dirty
    <2>1. CASE r <= Len(log)
        <3>1. r \in request[c].base + 1 .. Len(log) /\ log'[r] = log[r]
            BY <1>1, <1>2, <1>4, <2>1 DEF LogExtends
        <3>2. QED
            BY <1>4, <3>1 DEF OwnInv
    <2>2. CASE r > Len(log)
        <3>1. r \in Len(log) + 1 .. Len(log')
            BY <1>1, <1>2, <1>4, <2>2
        <3>2. QED
            BY <1>4, <3>1 DEF OwnFree
    <2>3. QED
        BY <1>1, <1>2, <1>4, <2>1, <2>2
<1>5. QED
    BY <1>3, <1>4 DEF OwnInv

\* ... of what it shows,
LEMMA ShownKeeps ==
    ASSUME TypeInv, NEW c \in Windows, ShownInv(c), RevInv(c), LogExtends,
           base'[c] = base[c], queued'[c] = queued[c], acked'[c] = acked[c],
           view'[c].open = view[c].open, view'[c].rev = view[c].rev,
           view'[c].text = view[c].text
    PROVE  ShownInv(c)'
<1>1. base[c] \in Nat /\ base[c] <= Len(log)
    BY DEF TypeInv, RevInv
<1>2. base[c] >= 1 => log'[base[c]] = log[base[c]]
    BY <1>1 DEF LogExtends
<1>3. QED
    BY <1>2 DEF ShownInv, Pending

\* ... of a refusal,
LEMMA RefusedKeeps ==
    ASSUME TypeInv, NEW c \in Windows, RefusedInv(c), RevInv(c), LogExtends,
           request'[c] = request[c]
    PROVE  RefusedInv(c)'
<1> SUFFICES ASSUME request[c].at = "conflict"
             PROVE  \E r \in request[c].base + 1 .. request[c].rev :
                        log'[r].by # c \/ ~log'[r].dirty
    BY DEF RefusedInv
<1>1. PICK r \in request[c].base + 1 .. request[c].rev :
          log[r].by # c \/ ~log[r].dirty
    BY DEF RefusedInv
<1>2. request[c].base \in Nat /\ request[c].rev \in 1..Len(log)
    BY RequestFields DEF RevInv
<1>3. r \in 1..Len(log)
    BY <1>1, <1>2 DEF LogExtends
<1>4. log'[r] = log[r]
    BY <1>3 DEF LogExtends
<1>5. QED
    BY <1>1, <1>4

\* ... and of the file.
LEMMA DiskKeeps ==
    ASSUME NEW c \in Windows, DiskInv(c), RevInv(c), LogExtends,
           save'[c] = save[c],
           writer' = c => writer = c /\ disk' = disk
    PROVE  DiskInv(c)'
<1>1. save[c].at = "synced" => log'[save[c].rev] = log[save[c].rev]
    BY DEF RevInv, LogExtends
<1>2. QED
    BY <1>1 DEF DiskInv

-----------------------------------------------------------------------------
(* The other windows *)

\* Whatever a window does, the log grows at its end, the client, the view and
\* the save of another window stay as they are, and if the file is written it
\* is no longer the other's.
LEMMA OthersKeep ==
    ASSUME IInv, NEW c \in Windows, Acts(c)
    PROVE  /\ LogExtends
           /\ \A d \in Windows \ {c} :
                 /\ OwnFree(d)
                 /\ phase'[d] = phase[d] /\ base'[d] = base[d]
                 /\ queued'[d] = queued[d] /\ acked'[d] = acked[d]
                 /\ request'[d] = request[d] /\ view'[d] = view[d]
                 /\ save'[d] = save[d]
                 /\ ~Listening(d) => inbox'[d] = inbox[d]
                 /\ writer' = d => writer = d /\ disk' = disk
<1>0. TypeInv /\ \A d \in Windows : RevInv(d) /\ PhaseInv(d)
    BY DEF IInv, WindowInv
<1>01. /\ log \in Seq(Entries) /\ Len(log) \in Nat
       /\ phase \in [Windows -> Phases]
       /\ base \in [Windows -> Nat]
       /\ queued \in [Windows -> Nat] /\ acked \in [Windows -> Nat]
       /\ request \in [Windows -> Requests]
       /\ view \in [Windows -> Views]
       /\ save \in [Windows -> Saves]
    BY <1>0 DEF TypeInv
<1> USE <1>01
<1> DEFINE Kept == \A d \in Windows \ {c} :
                 /\ phase'[d] = phase[d] /\ base'[d] = base[d]
                 /\ queued'[d] = queued[d] /\ acked'[d] = acked[d]
                 /\ request'[d] = request[d] /\ view'[d] = view[d]
                 /\ save'[d] = save[d]
                 /\ ~Listening(d) => inbox'[d] = inbox[d]
                 /\ writer' = d => writer = d /\ disk' = disk
           Grown == LogExtends /\ \A d \in Windows \ {c} : OwnFree(d)
           Goal == Grown /\ Kept
<1> SUFFICES Goal
    OBVIOUS
<1>02. log' = log => Grown
    BY <1>0, LogSame
<1>1. CASE Type(c)
    <2>1. /\ log' = log /\ UNCHANGED <<phase, base, acked, request, inbox, save,
                                     disk, writer>>
          /\ \A d \in Windows \ {c} : view'[d] = view[d]
        BY <1>1 DEF Type, file
    <2>2. \A d \in Windows \ {c} : queued'[d] = queued[d]
        BY <1>1 DEF Type, Queue
    <2>3. QED
        BY <1>02, <2>1, <2>2
<1>2. CASE c = Main /\ Relabel
    <2>1. log' = log /\ UNCHANGED <<phase, base, acked, request, inbox, save,
                                  disk, writer>>
        BY <1>2 DEF Relabel, file
    <2>2. \A d \in Windows \ {c} : queued'[d] = queued[d] /\ view'[d] = view[d]
        BY <1>2 DEF Relabel, Queue, ShowStatus
    <2>3. QED
        BY <1>02, <2>1, <2>2
<1>3. CASE Start(c) \/ Subscribed(c)
    <2>1. /\ log' = log /\ UNCHANGED <<base, queued, acked, request, inbox, view,
                                     save, disk, writer>>
          /\ \A d \in Windows \ {c} : phase'[d] = phase[d]
        BY <1>3 DEF Start, Subscribed, file
    <2>2. QED
        BY <1>02, <2>1
<1>4. CASE Register(c)
    <2>1. Grown
        <3>1. CASE log' = log
            BY <1>02, <3>1
        <3>2. CASE log' # log
            <4>1. /\ log = <<>>
                  /\ log' = <<[text |-> seed.text, dirty |-> seed.dirty,
                              by |-> c]>>
                BY <1>4, <3>2 DEF Register
            <4>2. [text |-> seed.text, dirty |-> seed.dirty, by |-> c]
                      \in Entries
                BY <1>0 DEF TypeInv, Versions, Entries
            <4>3. /\ log' \in Seq(Entries) /\ Len(log') = 1 /\ Len(log) = 0
                  /\ log'[1].by = c
                BY <4>1, <4>2
            <4>4. QED
                BY <4>3 DEF LogExtends, OwnFree
        <3>3. QED
            BY <3>1, <3>2
    <2>2. Kept
        BY <1>4 DEF Register, file
    <2>3. QED
        BY <2>1, <2>2
<1>5. CASE Joined(c)
    <2>1. /\ log' = log /\ UNCHANGED <<queued, acked, inbox, save, disk, writer>>
          /\ \A d \in Windows \ {c} :
                phase'[d] = phase[d] /\ request'[d] = request[d]
        BY <1>5 DEF Joined, file
    <2>2. \A d \in Windows \ {c} : base'[d] = base[d] /\ view'[d] = view[d]
        BY <1>5 DEF Joined, ShowRevision, ShowSnapshot
    <2>3. QED
        BY <1>02, <2>1, <2>2
<1>6. CASE Tick(c) \/ FlushPublishes(c)
    <2>1. log' = log /\ UNCHANGED <<phase, base, queued, acked, inbox, save, disk,
                                  writer>>
        BY <1>6 DEF Tick, FlushPublishes, file
    <2>2. \A d \in Windows \ {c} : request'[d] = request[d] /\ view'[d] = view[d]
        BY <1>0, <1>6, PublishFacts DEF Tick, FlushPublishes
    <2>3. QED
        BY <1>02, <2>1, <2>2
<1>7. CASE Update(c)
    <2>1. /\ UNCHANGED <<phase, base, queued, acked, view, save, disk, writer>>
          /\ \A d \in Windows \ {c} : request'[d] = request[d]
        BY <1>7 DEF Update, file
    <2>2. Grown /\ \A d \in Windows : ~Listening(d) => inbox'[d] = inbox[d]
        <3>1. CASE request[c].base = Len(log)
            <4> DEFINE v == [text |-> request[c].text,
                             dirty |-> request[c].dirty, by |-> c]
            <4>1. v \in Entries /\ v.by = c
                BY <1>0, <1>7, RequestFields DEF Entries, Update
            <4>2. Commit(v)
                BY <1>7, <3>1 DEF Update
            <4> HIDE DEF v
            <4>3. QED
                BY <1>0, <4>1, <4>2, CommitExtends
        <3>2. CASE request[c].base # Len(log)
            BY <1>02, <1>7, <3>2 DEF Update
        <3>3. QED
            BY <3>1, <3>2
    <2>3. QED
        BY <2>1, <2>2
<1>8. CASE Applied(c) \/ Conflict(c)
    <2>1. /\ log' = log /\ UNCHANGED <<phase, queued, inbox, save, disk, writer>>
          /\ \A d \in Windows \ {c} :
                /\ base'[d] = base[d] /\ acked'[d] = acked[d]
                /\ request'[d] = request[d]
        BY <1>8 DEF Applied, Conflict, file
    <2>2. \A d \in Windows \ {c} : view'[d] = view[d]
        BY <1>8 DEF Applied, Conflict, ShowRevision, ShowSnapshot
    <2>3. QED
        BY <1>02, <2>1, <2>2
<1>9. CASE UpdateFails(c)
    <2>1. log' = log /\ UNCHANGED <<phase, base, queued, acked, inbox, disk,
                                  writer>>
        BY <1>9 DEF UpdateFails, file
    <2>2. \A d \in Windows \ {c} :
              request'[d] = request[d] /\ view'[d] = view[d] /\ save'[d] = save[d]
        BY <1>9 DEF UpdateFails, ShowStatus
    <2>3. QED
        BY <1>02, <2>1, <2>2
<1>10. CASE Receive(c)
    <2>1. log' = log /\ UNCHANGED <<phase, queued, acked, request, save, disk,
                                  writer>>
        BY <1>10 DEF Receive, file
    <2>2. \A d \in Windows \ {c} :
              base'[d] = base[d] /\ view'[d] = view[d] /\ inbox'[d] = inbox[d]
        BY <1>0, <1>10 DEF Receive, ShowRevision, ShowSnapshot, TypeInv
    <2>3. QED
        BY <1>02, <2>1, <2>2
<1>11. CASE Save(c) \/ Close(c) \/ Flush(c) \/ Flushed(c) \/ SaveFails(c)
    <2>1. log' = log /\ UNCHANGED <<phase, base, queued, acked, request, inbox,
                                  view, disk, writer>>
        BY <1>11 DEF Save, Close, Flush, Flushed, SaveFails, client, file
    <2>2. \A d \in Windows \ {c} : save'[d] = save[d]
        BY <1>11 DEF Save, Close, Flush, Flushed, SaveFails
    <2>3. QED
        BY <1>02, <2>1, <2>2
<1>12. CASE Closed(c)
    <2>1. log' = log /\ UNCHANGED <<base, queued, acked, request, view, disk,
                                  writer>>
        BY <1>12 DEF Closed, file
    <2>2. \A d \in Windows \ {c} :
              phase'[d] = phase[d] /\ save'[d] = save[d] /\ inbox'[d] = inbox[d]
        BY <1>0, <1>12 DEF Closed, TypeInv
    <2>3. QED
        BY <1>02, <2>1, <2>2
<1>13. CASE WriteFile(c)
    <2>1. /\ log' = log /\ UNCHANGED <<phase, base, queued, acked, request, inbox,
                                     view>>
          /\ writer' = c
        BY <1>13 DEF WriteFile, client
    <2>2. \A d \in Windows \ {c} : save'[d] = save[d]
        BY <1>13 DEF WriteFile
    <2>3. QED
        BY <1>02, <2>1, <2>2
<1>14. CASE MarkBufferSaved(c)
    <2>1. log' = log /\ UNCHANGED <<phase, base, queued, acked, request, inbox,
                                  disk, writer>>
        BY <1>14 DEF MarkBufferSaved, client, file
    <2>2. \A d \in Windows \ {c} : save'[d] = save[d] /\ view'[d] = view[d]
        BY <1>14 DEF MarkBufferSaved
    <2>3. QED
        BY <1>02, <2>1, <2>2
<1>15. CASE MarkSaved(c)
    <2>1. /\ UNCHANGED <<phase, base, queued, acked, request, view, disk, writer>>
          /\ \A d \in Windows \ {c} : save'[d] = save[d]
        BY <1>15 DEF MarkSaved, file
    <2>2. Grown /\ \A d \in Windows : ~Listening(d) => inbox'[d] = inbox[d]
        <3>1. CASE save[c].rev = Len(log)
            <4> DEFINE v == [text |-> log[Len(log)].text, dirty |-> FALSE,
                             by |-> c]
            <4>1. v \in Entries /\ v.by = c
                <5>1. Len(log) \in 1..Len(log)
                    BY <1>0, <1>15, <3>1 DEF MarkSaved, RevInv
                <5>2. log[Len(log)] \in Entries
                    BY <5>1
                <5>3. QED
                    BY <5>2 DEF Entries
            <4>2. Commit(v)
                BY <1>15, <3>1 DEF MarkSaved
            <4> HIDE DEF v
            <4>3. QED
                BY <1>0, <4>1, <4>2, CommitExtends
        <3>2. CASE save[c].rev # Len(log)
            BY <1>02, <1>15, <3>2 DEF MarkSaved
        <3>3. QED
            BY <3>1, <3>2
    <2>3. QED
        BY <2>1, <2>2
<1>16. CASE Saved(c)
    <2>1. /\ log' = log /\ UNCHANGED <<phase, queued, acked, request, inbox, disk,
                                     writer>>
          /\ \A d \in Windows \ {c} : base'[d] = base[d] /\ save'[d] = save[d]
        BY <1>16 DEF Saved, file
    <2>2. \A d \in Windows \ {c} : view'[d] = view[d]
        BY <1>16 DEF Saved, ShowRevision, ShowSnapshot
    <2>3. QED
        BY <1>02, <2>1, <2>2
<1> HIDE DEF Goal
<1>17. QED
    BY <1>1, <1>2, <1>3, <1>4, <1>5, <1>6, <1>7, <1>8, <1>9, <1>10, <1>11,
       <1>12, <1>13, <1>14, <1>15, <1>16 DEF Acts

\* So another window's part of the invariant is kept.
LEMMA OtherWindows ==
    ASSUME IInv, NEW c \in Windows, Acts(c), NEW d \in Windows \ {c}
    PROVE  WindowInv(d)'
<1>1. /\ TypeInv /\ d \in Windows
      /\ PhaseInv(d) /\ RevInv(d) /\ SeqInv(d) /\ OwnInv(d) /\ ShownInv(d)
      /\ RefusedInv(d) /\ DiskInv(d)
    BY DEF IInv, WindowInv
<1>2. /\ LogExtends /\ OwnFree(d)
      /\ phase'[d] = phase[d] /\ base'[d] = base[d]
      /\ queued'[d] = queued[d] /\ acked'[d] = acked[d]
      /\ request'[d] = request[d] /\ view'[d] = view[d]
      /\ save'[d] = save[d]
      /\ ~Listening(d) => inbox'[d] = inbox[d]
      /\ writer' = d => writer = d /\ disk' = disk
    BY OthersKeep
<1>3. PhaseInv(d)'
    BY <1>1, <1>2, PhaseKeeps DEF Listening
<1>4. RevInv(d)'
    BY <1>1, <1>2, RevKeeps
<1>5. SeqInv(d)'
    BY <1>1, <1>2, SeqKeeps
<1>6. OwnInv(d)'
    <2>1. base'[d] \in Nat /\ base'[d] >= base[d]
        BY <1>1, <1>2 DEF TypeInv
    <2>2. QED
        BY <1>1, <1>2, <2>1, OwnKeeps
<1>7. ShownInv(d)'
    BY <1>1, <1>2, ShownKeeps
<1>8. RefusedInv(d)'
    BY <1>1, <1>2, RefusedKeeps
<1>9. DiskInv(d)'
    BY <1>1, <1>2, DiskKeeps
<1>10. QED
    BY <1>3, <1>4, <1>5, <1>6, <1>7, <1>8, <1>9 DEF WindowInv

-----------------------------------------------------------------------------
(* The window that acts *)

\* What the steps below know of it
LEMMA OwnFacts ==
    ASSUME IInv, NEW c \in Windows
    PROVE  /\ TypeInv
           /\ PhaseInv(c) /\ RevInv(c) /\ SeqInv(c) /\ OwnInv(c) /\ ShownInv(c)
           /\ RefusedInv(c) /\ DiskInv(c)
           /\ log \in Seq(Entries) /\ Len(log) \in Nat
           /\ phase \in [Windows -> Phases]
           /\ base \in [Windows -> Nat]
           /\ queued \in [Windows -> Nat] /\ acked \in [Windows -> Nat]
           /\ request \in [Windows -> Requests]
           /\ inbox \in [Windows -> Seq(1..Len(log))]
           /\ view \in [Windows -> Views]
           /\ save \in [Windows -> Saves]
<1>1. TypeInv /\ WindowInv(c)
    BY DEF IInv
<1>2. /\ PhaseInv(c) /\ RevInv(c) /\ SeqInv(c) /\ OwnInv(c) /\ ShownInv(c)
      /\ RefusedInv(c) /\ DiskInv(c)
    BY <1>1 DEF WindowInv
<1>3. log \in Seq(Entries) /\ Len(log) \in Nat
    BY <1>1 DEF TypeInv
<1>4. QED
    BY <1>1, <1>2, <1>3 DEF TypeInv

\* A step that leaves the revisions, the requests and the text on the screen
\* as they are keeps most of the invariant.
LEMMA QuietKeeps ==
    ASSUME IInv, NEW c \in Windows, log' = log, base'[c] = base[c],
           queued'[c] = queued[c], acked'[c] = acked[c],
           request'[c] = request[c],
           view'[c].open = view[c].open, view'[c].rev = view[c].rev,
           view'[c].text = view[c].text
    PROVE  SeqInv(c)' /\ OwnInv(c)' /\ ShownInv(c)' /\ RefusedInv(c)'
<1>1. /\ TypeInv /\ RevInv(c) /\ SeqInv(c) /\ OwnInv(c) /\ ShownInv(c)
      /\ RefusedInv(c) /\ base[c] \in Nat
    BY OwnFacts
<1>2. LogExtends /\ OwnFree(c)
    BY <1>1, LogSame
<1>3. SeqInv(c)'
    BY <1>1, SeqKeeps
<1>4. OwnInv(c)'
    BY <1>1, <1>2, OwnKeeps
<1>5. ShownInv(c)'
    BY <1>1, <1>2, ShownKeeps
<1>6. RefusedInv(c)'
    BY <1>1, <1>2, RefusedKeeps
<1>7. QED
    BY <1>3, <1>4, <1>5, <1>6

\* Starting a client
LEMMA StartWindow ==
    ASSUME IInv, NEW c \in Windows, Start(c) \/ Subscribed(c)
    PROVE  WindowInv(c)'
<1>1. /\ PhaseInv(c) /\ RevInv(c) /\ DiskInv(c) /\ TypeInv
      /\ phase \in [Windows -> Phases]
    BY OwnFacts
<1>2. UNCHANGED <<log, disk, writer, base, queued, acked, request, inbox, view,
                  save>>
    BY DEF Start, Subscribed, file
<1>3. /\ phase[c] \in {"off", "subscribing"}
      /\ phase'[c] \in {"subscribing", "registering"}
    BY <1>1 DEF Start, Subscribed
<1>4. PhaseInv(c)'
    BY <1>1, <1>2, <1>3 DEF PhaseInv
<1>5. RevInv(c)' /\ DiskInv(c)'
    BY <1>1, <1>2, LogSame, RevKeeps, DiskKeeps
<1>6. SeqInv(c)' /\ OwnInv(c)' /\ ShownInv(c)' /\ RefusedInv(c)'
    BY <1>2, QuietKeeps
<1>7. QED
    BY <1>4, <1>5, <1>6 DEF WindowInv

\* Asking for a save, waiting for it, and giving it up
LEMMA SaveWindow ==
    ASSUME IInv, NEW c \in Windows,
           Save(c) \/ Close(c) \/ Flush(c) \/ SaveFails(c)
    PROVE  WindowInv(c)'
<1>1. /\ PhaseInv(c) /\ RevInv(c) /\ TypeInv /\ save \in [Windows -> Saves]
    BY OwnFacts
<1>2. UNCHANGED <<log, disk, writer, phase, base, queued, acked, request, inbox,
                  view>>
    BY DEF Save, Close, Flush, SaveFails, client, file
<1>3. \/ save'[c].at \in {"idle", "starting"}
      \/ save'[c].at = "flush" /\ phase[c] = "live"
      \/ save'[c].at = "write" /\ ~save'[c].shared
    BY <1>1 DEF Save, Close, Flush, SaveFails, Idle
<1>4. PhaseInv(c)'
    BY <1>1, <1>2, <1>3 DEF PhaseInv
<1>5. RevInv(c)'
    BY <1>1, <1>2, <1>3 DEF RevInv
<1>6. DiskInv(c)'
    BY <1>3 DEF DiskInv
<1>7. SeqInv(c)' /\ OwnInv(c)' /\ ShownInv(c)' /\ RefusedInv(c)'
    BY <1>2, QuietKeeps
<1>8. QED
    BY <1>4, <1>5, <1>6, <1>7 DEF WindowInv

\* A flush that is done writes the revision the client is at.
LEMMA FlushedWindow ==
    ASSUME IInv, NEW c \in Windows, Flushed(c)
    PROVE  WindowInv(c)'
<1>1. /\ PhaseInv(c) /\ RevInv(c) /\ TypeInv /\ save \in [Windows -> Saves]
      /\ base[c] \in Nat /\ Len(log) \in Nat
    BY OwnFacts
<1>2. UNCHANGED <<log, disk, writer, phase, base, queued, acked, request, inbox,
                  view>>
    BY DEF Flushed, client, file
<1>3. \/ save'[c].at = "close"
      \/ /\ save'[c].at = "write"
         /\ save'[c].rev = base[c]
         /\ save'[c].text = log[base[c]].text
    BY <1>1 DEF Flushed
<1>4. phase[c] = "live" /\ base[c] \in 1..Len(log)
    BY <1>1 DEF Flushed, PhaseInv, RevInv
<1>5. PhaseInv(c)'
    BY <1>1, <1>2, <1>4 DEF PhaseInv
<1>6. RevInv(c)'
    BY <1>1, <1>2, <1>3, <1>4 DEF RevInv
<1>7. DiskInv(c)'
    BY <1>3 DEF DiskInv
<1>8. SeqInv(c)' /\ OwnInv(c)' /\ ShownInv(c)' /\ RefusedInv(c)'
    BY <1>2, QuietKeeps
<1>9. QED
    BY <1>5, <1>6, <1>7, <1>8 DEF WindowInv

\* The file gets the text of that revision.
LEMMA WriteWindow ==
    ASSUME IInv, NEW c \in Windows, WriteFile(c)
    PROVE  WindowInv(c)'
<1>1. PhaseInv(c) /\ RevInv(c) /\ TypeInv /\ save \in [Windows -> Saves]
    BY OwnFacts
<1>2. UNCHANGED <<log, phase, base, queued, acked, request, inbox, view>>
    BY DEF WriteFile, client
<1>3. /\ save'[c].at = "written"
      /\ save'[c].rev = save[c].rev
      /\ save'[c].text = save[c].text
      /\ save'[c].shared = save[c].shared
    <2>1. save[c] \in [at : {"write"}, text : Texts, rev : Nat,
                       shared : BOOLEAN]
        <3>1. save[c] \in Saves /\ save[c].at = "write"
            BY <1>1 DEF WriteFile
        <3>2. QED
            BY <3>1 DEF Saves, Idle
    <2>2. save'[c] = [save[c] EXCEPT !.at = "written"]
        BY <1>1 DEF WriteFile
    <2>3. QED
        BY <2>1, <2>2
<1>4. save[c].at = "write" /\ disk' = save[c].text
    BY DEF WriteFile
<1>5. PhaseInv(c)'
    BY <1>1, <1>2, <1>3, <1>4 DEF PhaseInv
<1>6. RevInv(c)'
    BY <1>1, <1>2, <1>3, <1>4 DEF RevInv
<1>7. DiskInv(c)'
    BY <1>3, <1>4 DEF DiskInv
<1>8. SeqInv(c)' /\ OwnInv(c)' /\ ShownInv(c)' /\ RefusedInv(c)'
    BY <1>2, QuietKeeps
<1>9. QED
    BY <1>5, <1>6, <1>7, <1>8 DEF WindowInv

\* Marking a buffer that is not shared touches the flags of the view alone.
LEMMA MarkBufferWindow ==
    ASSUME IInv, NEW c \in Windows, MarkBufferSaved(c)
    PROVE  WindowInv(c)'
<1>1. /\ PhaseInv(c) /\ RevInv(c) /\ TypeInv /\ save \in [Windows -> Saves]
      /\ view \in [Windows -> Views]
    BY OwnFacts
<1>2. UNCHANGED <<log, disk, writer, phase, base, queued, acked, request, inbox>>
    BY DEF MarkBufferSaved, client, file
<1>3. save'[c].at = "idle"
    BY <1>1 DEF MarkBufferSaved, Idle
<1>4. /\ view'[c].open = view[c].open
      /\ view'[c].rev = view[c].rev
      /\ view'[c].text = view[c].text
    <2>1. \/ view'[c] = view[c]
          \/ view'[c] = [[view[c] EXCEPT !.dirty = FALSE]
                             EXCEPT !.status = "synced"]
        BY <1>1 DEF MarkBufferSaved
    <2>2. view[c] \in Views
        BY <1>1
    <2>3. QED
        BY <2>1, <2>2 DEF Views
<1>5. PhaseInv(c)'
    BY <1>1, <1>2, <1>3 DEF PhaseInv
<1>6. RevInv(c)'
    BY <1>1, <1>2, <1>3 DEF RevInv
<1>7. DiskInv(c)'
    BY <1>3 DEF DiskInv
<1>8. SeqInv(c)' /\ OwnInv(c)' /\ ShownInv(c)' /\ RefusedInv(c)'
    BY <1>2, <1>4, QuietKeeps
<1>9. QED
    BY <1>5, <1>6, <1>7, <1>8 DEF WindowInv

\* A window that closes takes its client with it.
LEMMA ClosedWindow ==
    ASSUME IInv, NEW c \in Windows, Closed(c)
    PROVE  WindowInv(c)'
<1>1. /\ PhaseInv(c) /\ RevInv(c) /\ TypeInv /\ save \in [Windows -> Saves]
      /\ phase \in [Windows -> Phases]
    BY OwnFacts
<1>2. UNCHANGED <<log, disk, writer, base, queued, acked, request, view>>
    BY DEF Closed, file
<1>3. save'[c].at = "idle" /\ save[c].at = "close" /\ phase'[c] = "closed"
    BY <1>1 DEF Closed, Idle
<1>4. PhaseInv(c)'
    BY <1>1, <1>2, <1>3 DEF PhaseInv
<1>5. RevInv(c)'
    BY <1>1, <1>2, <1>3 DEF RevInv
<1>6. DiskInv(c)'
    BY <1>3 DEF DiskInv
<1>7. SeqInv(c)' /\ OwnInv(c)' /\ ShownInv(c)' /\ RefusedInv(c)'
    BY <1>2, QuietKeeps
<1>8. QED
    BY <1>4, <1>5, <1>6, <1>7 DEF WindowInv

\* What is typed is not acknowledged yet, unless nobody has to be told.
LEMMA TypeWindow ==
    ASSUME IInv, NEW c \in Windows, Type(c) \/ (c = Main /\ Relabel)
    PROVE  WindowInv(c)'
<1>1. /\ TypeInv /\ PhaseInv(c) /\ RevInv(c) /\ SeqInv(c) /\ OwnInv(c)
      /\ RefusedInv(c) /\ DiskInv(c)
      /\ queued \in [Windows -> Nat] /\ acked[c] \in Nat /\ base[c] \in Nat
    BY OwnFacts
<1>2. UNCHANGED <<log, disk, writer, phase, base, acked, request, inbox, save>>
    BY DEF Type, Relabel, file
<1>3. LogExtends /\ OwnFree(c)
    BY <1>1, <1>2, LogSame
<1>4. \/ phase[c] = "off" /\ queued'[c] = queued[c]
      \/ queued'[c] = queued[c] + 1
    BY <1>1 DEF Type, Relabel, Queue
<1>5. PhaseInv(c)' /\ RevInv(c)' /\ DiskInv(c)' /\ RefusedInv(c)'
    BY <1>1, <1>2, <1>3, PhaseKeeps, RevKeeps, DiskKeeps, RefusedKeeps
<1>6. OwnInv(c)'
    BY <1>1, <1>2, <1>3, OwnKeeps
<1>7. SeqInv(c)'
    <2>1. request[c].at \in {"sent", "applied", "conflict"}
              => request[c].seq \in Nat
        BY <1>1, RequestFields
    <2>2. QED
        BY <1>1, <1>2, <1>4, <2>1 DEF SeqInv
<1>8. ShownInv(c)'
    BY <1>1, <1>2, <1>4 DEF ShownInv, Pending, PhaseInv, SeqInv
<1>9. QED
    BY <1>5, <1>6, <1>7, <1>8 DEF WindowInv

\* An update is sent on top of what the client knows, which holds every change
\* of its own.
LEMMA PublishWindow ==
    ASSUME IInv, NEW c \in Windows, Tick(c) \/ FlushPublishes(c)
    PROVE  WindowInv(c)'
<1>1. /\ TypeInv /\ PhaseInv(c) /\ RevInv(c) /\ SeqInv(c) /\ OwnInv(c)
      /\ ShownInv(c) /\ RefusedInv(c) /\ DiskInv(c)
      /\ queued[c] \in Nat /\ acked[c] \in Nat /\ base[c] \in Nat
    BY OwnFacts
<1>2. UNCHANGED <<log, disk, writer, phase, base, queued, acked, inbox, save>>
    BY DEF Tick, FlushPublishes, file
<1>3. LogExtends
    BY <1>1, <1>2, LogSame
<1>4. DiskInv(c)'
    BY <1>1, <1>2, <1>3, DiskKeeps
<1>5. CASE UNCHANGED <<request, view>>
    <2>1. PhaseInv(c)' /\ RevInv(c)'
        BY <1>1, <1>2, <1>3, <1>5, PhaseKeeps, RevKeeps
    <2>2. SeqInv(c)' /\ OwnInv(c)' /\ ShownInv(c)' /\ RefusedInv(c)'
        BY <1>2, <1>5, QuietKeeps
    <2>3. QED
        BY <1>4, <2>1, <2>2 DEF WindowInv
<1>6. CASE Publish(c) /\ request[c] = Idle /\ Pending(c) /\ phase[c] = "live"
    <2>1. /\ request'[c].at = "sent"
          /\ request'[c].base = base[c]
          /\ request'[c].seq = queued[c]
          /\ view'[c].open = view[c].open
          /\ view'[c].rev = view[c].rev
          /\ view'[c].text = view[c].text
        BY <1>1, <1>6, PublishFacts
    <2>2. PhaseInv(c)'
        BY <1>1, <1>2, <1>6, <2>1 DEF PhaseInv
    <2>3. RevInv(c)'
        BY <1>1, <1>2, <2>1 DEF RevInv
    <2>4. SeqInv(c)'
        BY <1>1, <1>2, <1>6, <2>1 DEF SeqInv, Pending
    <2>5. \A r \in base[c] + 1 .. Len(log) : log[r].by = c => ~log[r].dirty
        BY <1>1, <1>6 DEF OwnInv, Idle
    <2>6. OwnInv(c)'
        BY <1>2, <2>1, <2>5 DEF OwnInv
    <2>7. ShownInv(c)'
        BY <1>1, <1>2, <1>3, <2>1, ShownKeeps
    <2>8. RefusedInv(c)'
        BY <2>1 DEF RefusedInv
    <2>9. QED
        BY <1>4, <2>2, <2>3, <2>4, <2>6, <2>7, <2>8 DEF WindowInv
<1>7. QED
    <2>1. FlushPublishes(c) => phase[c] = "live"
        BY <1>1 DEF FlushPublishes, PhaseInv
    <2>2. QED
        BY <1>5, <1>6, <2>1 DEF Tick, FlushPublishes

\* The call that fails leaves nothing of its text at the authority.
LEMMA FailWindow ==
    ASSUME IInv, NEW c \in Windows, UpdateFails(c)
    PROVE  WindowInv(c)'
<1>1. /\ TypeInv /\ PhaseInv(c) /\ RevInv(c) /\ SeqInv(c) /\ OwnInv(c)
      /\ ShownInv(c) /\ DiskInv(c)
      /\ request \in [Windows -> Requests] /\ save \in [Windows -> Saves]
    BY OwnFacts
<1>2. UNCHANGED <<log, disk, writer, phase, base, queued, acked, inbox>>
    BY DEF UpdateFails, file
<1>3. LogExtends
    BY <1>1, <1>2, LogSame
<1>4. /\ phase[c] = "live" /\ request[c].at = "sent"
      /\ request'[c].at = "idle" /\ request'[c] = Idle
      /\ save'[c] = save[c] \/ save'[c].at = "idle"
    BY <1>1 DEF UpdateFails, Idle
<1>5. PhaseInv(c)'
    BY <1>1, <1>2, <1>4 DEF PhaseInv
<1>6. RevInv(c)'
    BY <1>1, <1>2, <1>4 DEF RevInv
<1>7. SeqInv(c)'
    BY <1>1, <1>2, <1>4 DEF SeqInv
<1>8. OwnInv(c)'
    BY <1>1, <1>2, <1>4 DEF OwnInv
<1>9. ShownInv(c)'
    <2>1. /\ view'[c].open = view[c].open
          /\ view'[c].rev = view[c].rev
          /\ view'[c].text = view[c].text
        BY <1>1, StatusFacts DEF UpdateFails, Statuses
    <2>2. QED
        BY <1>1, <1>2, <1>3, <2>1, ShownKeeps
<1>10. RefusedInv(c)' /\ DiskInv(c)'
    BY <1>1, <1>2, <1>4 DEF RefusedInv, DiskInv
<1>11. QED
    BY <1>5, <1>6, <1>7, <1>8, <1>9, <1>10 DEF WindowInv

\* The authority answers an update: what it accepted is the one change of its
\* own the window has not heard of; what it refused, it refused for another's.
LEMMA UpdateWindow ==
    ASSUME IInv, NEW c \in Windows, Update(c)
    PROVE  WindowInv(c)'
<1>1. /\ TypeInv /\ PhaseInv(c) /\ RevInv(c) /\ SeqInv(c) /\ OwnInv(c)
      /\ ShownInv(c) /\ DiskInv(c)
      /\ request \in [Windows -> Requests] /\ Len(log) \in Nat
      /\ base[c] \in Nat /\ phase \in [Windows -> Phases]
    BY OwnFacts
<1>2. UNCHANGED <<disk, writer, phase, base, queued, acked, view, save>>
    BY DEF Update, file
<1>3. /\ request[c].at = "sent" /\ request[c].base \in Nat
      /\ request[c].seq \in Nat /\ request[c].text \in Texts
      /\ request[c].dirty \in BOOLEAN /\ request[c].base <= Len(log)
    BY <1>1, RequestFields DEF Update, RevInv
<1>4. phase[c] \in {"live", "closed"} /\ base[c] >= 1 /\ Len(log) >= 1
    BY <1>1, <1>3 DEF PhaseInv, RevInv, Phases, Idle
<1>5. \A r \in base[c] + 1 .. Len(log) : log[r].by = c => ~log[r].dirty
    BY <1>1, <1>3, RequestFields DEF OwnInv, TypeInv, Entries
<1>6. ASSUME LogExtends, NEW at \in {"applied", "conflict"}, NEW n \in 1..Len(log'),
             request' = [request EXCEPT ![c] = Answer(c, at, n)]
      PROVE  /\ PhaseInv(c)' /\ RevInv(c)' /\ SeqInv(c)' /\ ShownInv(c)'
             /\ DiskInv(c)'
             /\ request'[c].at = at /\ request'[c].rev = n
             /\ request'[c].base = request[c].base
    <2>1. /\ request'[c].at = at /\ request'[c].rev = n
          /\ request'[c].base = request[c].base
          /\ request'[c].seq = request[c].seq
        BY <1>1, <1>6 DEF Answer
    <2>2. PhaseInv(c)'
        BY <1>1, <1>2, <1>3, <1>4, <2>1 DEF PhaseInv
    <2>3. RevInv(c)'
        <3>1. Len(log') \in Nat /\ Len(log) <= Len(log')
            BY <1>6 DEF LogExtends
        <3>2. base'[c] <= Len(log')
            BY <1>1, <1>2, <3>1 DEF RevInv
        <3>3. save[c].at \in {"write", "written"} /\ save[c].shared =>
                  /\ save[c].rev \in 1..Len(log')
                  /\ save[c].text = log'[save[c].rev].text
            BY <1>1, <1>6 DEF RevInv, LogExtends
        <3>4. save[c].at \in {"synced", "conflict"}
                  => save[c].rev \in 1..Len(log')
            BY <1>1, <1>6 DEF RevInv, LogExtends
        <3>5. QED
            BY <1>2, <1>6, <2>1, <3>2, <3>3, <3>4 DEF RevInv
    <2>4. SeqInv(c)'
        BY <1>1, <1>2, <1>3, <2>1 DEF SeqInv
    <2>5. ShownInv(c)' /\ DiskInv(c)'
        BY <1>1, <1>2, <1>6, ShownKeeps, DiskKeeps
    <2>6. QED
        BY <2>1, <2>2, <2>3, <2>4, <2>5
<1>7. CASE request[c].base = Len(log)
    <2> DEFINE v == [text |-> request[c].text, dirty |-> request[c].dirty,
                     by |-> c]
    <2>1. v \in Entries /\ v.by = c
        BY <1>3 DEF Entries
    <2>2. /\ Commit(v)
          /\ request' = [request EXCEPT ![c] =
                             Answer(c, "applied", Len(log) + 1)]
        BY <1>7 DEF Update
    <2> HIDE DEF v
    <2>3. LogExtends /\ Len(log') = Len(log) + 1
        BY <1>1, <2>1, <2>2, CommitExtends
    <2>4. Len(log) + 1 \in 1..Len(log')
        BY <1>1, <2>3
    <2>5. /\ PhaseInv(c)' /\ RevInv(c)' /\ SeqInv(c)' /\ ShownInv(c)'
          /\ DiskInv(c)'
          /\ request'[c].at = "applied" /\ request'[c].rev = Len(log) + 1
        BY <1>6, <2>2, <2>3, <2>4
    <2>6. OwnInv(c)'
        <3>1. ASSUME NEW r \in base[c] + 1 .. Len(log')
              PROVE  r <= request'[c].rev
            BY <1>1, <2>3, <2>5, <3>1
        <3>2. QED
            BY <1>2, <2>5, <3>1 DEF OwnInv
    <2>7. RefusedInv(c)'
        BY <2>5 DEF RefusedInv
    <2>8. QED
        BY <2>5, <2>6, <2>7 DEF WindowInv
<1>8. CASE request[c].base # Len(log)
    <2>1. /\ log' = log
          /\ request' = [request EXCEPT ![c] = Answer(c, "conflict", Len(log))]
        BY <1>8 DEF Update
    <2>2. LogExtends
        BY <1>1, <2>1, LogSame
    <2>3. Len(log) \in 1..Len(log')
        BY <1>1, <1>4, <2>1
    <2>4. /\ PhaseInv(c)' /\ RevInv(c)' /\ SeqInv(c)' /\ ShownInv(c)'
          /\ DiskInv(c)'
          /\ request'[c].at = "conflict" /\ request'[c].rev = Len(log)
          /\ request'[c].base = request[c].base
        BY <1>6, <2>1, <2>2, <2>3
    <2>5. OwnInv(c)'
        BY <1>2, <1>5, <2>1, <2>4 DEF OwnInv
    <2>6. RefusedInv(c)'
        <3>1. request[c].base + 1 \in request[c].base + 1 .. Len(log)
            BY <1>1, <1>3, <1>8
        <3>2. log[request[c].base + 1].by # c \/ ~log[request[c].base + 1].dirty
            BY <1>1, <1>3, <3>1 DEF OwnInv
        <3>3. QED
            BY <2>1, <2>4, <3>1, <3>2 DEF RefusedInv
    <2>7. QED
        BY <2>4, <2>5, <2>6 DEF WindowInv
<1>9. QED
    BY <1>7, <1>8

\* A client that hears of revision n moves to it if it is later than its own.
LEMMA HearsWindow ==
    ASSUME IInv, NEW c \in Windows, NEW n \in 1..Len(log), log' = log,
           base'[c] = Later(base[c], n),
           save'[c] = save[c] \/ save'[c].at = "idle",
           phase'[c] \in {phase[c], "live"},
           phase'[c] = phase[c] \/ phase[c] = "answered",
           phase[c] \notin {"off", "subscribing"},
           request'[c] = request[c] \/ request'[c] = Idle,
           request'[c].at = "registered" <=> phase'[c] = "answered"
    PROVE  /\ PhaseInv(c)' /\ RevInv(c)'
           /\ base'[c] \in Nat /\ base'[c] >= 1 /\ base'[c] <= Len(log)
           /\ base'[c] >= base[c] /\ base'[c] >= n
<1>1. /\ TypeInv /\ PhaseInv(c) /\ RevInv(c) /\ Len(log) \in Nat
      /\ base[c] \in Nat /\ (request[c].at = "idle" <=> request[c] = Idle)
    BY OwnFacts, RequestFields
<1>2. /\ base'[c] \in Nat /\ base'[c] >= 1 /\ base'[c] <= Len(log)
      /\ base'[c] >= base[c] /\ base'[c] >= n
    <2>1. base[c] <= Len(log)
        BY <1>1 DEF RevInv
    <2>2. n \in Nat /\ n >= 1 /\ n <= Len(log)
        BY <1>1
    <2>3. \/ base[c] > n /\ base'[c] = base[c]
          \/ base[c] <= n /\ base'[c] = n
        BY <1>1, <2>2 DEF Later
    <2>4. QED
        BY <1>1, <2>1, <2>2, <2>3
<1>3. PhaseInv(c)'
    BY <1>1, <1>2 DEF PhaseInv, Idle
<1>4. RevInv(c)'
    BY <1>1, <1>2 DEF RevInv, Idle
<1>5. QED
    BY <1>2, <1>3, <1>4

\* The answer to an update ends what the client has under way: it knows the
\* revision its change became, or the one that came before it.
LEMMA AnswerWindow ==
    ASSUME IInv, NEW c \in Windows, Applied(c) \/ Conflict(c)
    PROVE  WindowInv(c)'
<1>1. /\ TypeInv /\ PhaseInv(c) /\ RevInv(c) /\ SeqInv(c) /\ OwnInv(c)
      /\ DiskInv(c) /\ Len(log) \in Nat
      /\ base \in [Windows -> Nat] /\ request \in [Windows -> Requests]
      /\ queued[c] \in Nat /\ acked \in [Windows -> Nat]
    BY OwnFacts
<1>2. /\ UNCHANGED <<log, disk, writer, phase, queued, inbox, save>>
      /\ phase[c] = "live" /\ request[c].at \in {"applied", "conflict"}
    BY DEF Applied, Conflict, file
<1>3. /\ request[c].rev \in 1..Len(log) /\ request[c].seq \in Nat
      /\ acked[c] < request[c].seq /\ request[c].seq <= queued[c]
    BY <1>1, <1>2, RequestFields DEF RevInv, SeqInv
<1>4. /\ base'[c] = Later(base[c], request[c].rev)
      /\ acked'[c] = Later(acked[c], request[c].seq)
      /\ request'[c] = Idle /\ request'[c].at = "idle"
    BY <1>1 DEF Applied, Conflict, Idle
<1>5. acked'[c] = request[c].seq
    BY <1>1, <1>3, <1>4 DEF Later
<1>6. /\ PhaseInv(c)' /\ RevInv(c)'
      /\ base'[c] \in Nat /\ base'[c] >= 1 /\ base'[c] <= Len(log)
      /\ base'[c] >= base[c] /\ base'[c] >= request[c].rev
    BY <1>2, <1>3, <1>4, HearsWindow
<1>7. SeqInv(c)'
    BY <1>2, <1>3, <1>4, <1>5 DEF SeqInv
<1>8. OwnInv(c)'
    <2>1. ASSUME NEW r \in base'[c] + 1 .. Len(log), log[r].by = c, log[r].dirty
          PROVE  FALSE
        <3>1. r \in base[c] + 1 .. Len(log) /\ r > request[c].rev
            BY <1>1, <1>3, <1>6, <2>1
        <3>2. r <= request[c].rev
            BY <2>1, <3>1, <1>1 DEF OwnInv
        <3>3. QED
            BY <1>3, <3>1, <3>2
    <2>2. QED
        BY <1>2, <1>4, <2>1 DEF OwnInv
<1>9. ShownInv(c)'
    <2>1. CASE queued[c] > request[c].seq
        BY <1>2, <1>5, <2>1 DEF ShownInv, Pending
    <2>2. CASE ~(queued[c] > request[c].seq)
        <3>1. \E status \in Statuses : ShowSnapshot(c, base'[c], status)
            BY <1>4, <2>2 DEF Applied, Conflict, Statuses
        <3>2. base'[c] \in 1..Len(log)
            BY <1>1, <1>6
        <3>3. /\ view'[c].open
              /\ view'[c].rev = base'[c]
              /\ view'[c].text = log[base'[c]].text
            BY <1>1, <3>1, <3>2, SnapshotFacts
        <3>4. QED
            BY <1>2, <3>3 DEF ShownInv
    <2>3. QED
        BY <2>1, <2>2
<1>10. RefusedInv(c)' /\ DiskInv(c)'
    BY <1>1, <1>2, <1>4 DEF RefusedInv, DiskInv
<1>11. QED
    BY <1>6, <1>7, <1>8, <1>9, <1>10 DEF WindowInv

\* An announcement moves the client, and the screen when nothing is pending.
LEMMA ReceiveWindow ==
    ASSUME IInv, NEW c \in Windows, Receive(c)
    PROVE  WindowInv(c)'
<1>1. /\ TypeInv /\ PhaseInv(c) /\ RevInv(c) /\ SeqInv(c) /\ OwnInv(c)
      /\ ShownInv(c) /\ RefusedInv(c) /\ DiskInv(c) /\ Len(log) \in Nat
      /\ base \in [Windows -> Nat] /\ inbox[c] \in Seq(1..Len(log))
    BY OwnFacts
<1>2. UNCHANGED <<log, disk, writer, phase, queued, acked, request, save>>
    BY DEF Receive, file
<1> DEFINE n == Head(inbox[c])
<1>3. n \in 1..Len(log)
    BY <1>1 DEF Receive
<1>4. \/ n <= base[c] /\ UNCHANGED <<base, view>>
      \/ /\ n > base[c]
         /\ base'[c] = n
         /\ \/ Pending(c)
            \/ ShowSnapshot(c, n, "synced")
    BY <1>1 DEF Receive
<1> HIDE DEF n
<1>5. base'[c] = Later(base[c], n)
    BY <1>1, <1>3, <1>4 DEF Later
<1>6. phase[c] \notin {"off", "subscribing"}
    BY <1>1 DEF PhaseInv, Receive
<1>7. /\ PhaseInv(c)' /\ RevInv(c)'
      /\ base'[c] \in Nat /\ base'[c] >= base[c]
    <2>1. request'[c].at = "registered" <=> phase'[c] = "answered"
        BY <1>1, <1>2 DEF PhaseInv
    <2>2. QED
        BY <1>2, <1>3, <1>5, <1>6, <2>1, HearsWindow
<1>8. LogExtends /\ OwnFree(c)
    BY <1>1, <1>2, LogSame
<1>9. SeqInv(c)' /\ OwnInv(c)' /\ RefusedInv(c)' /\ DiskInv(c)'
    BY <1>1, <1>2, <1>7, <1>8, SeqKeeps, OwnKeeps, RefusedKeeps, DiskKeeps
<1>10. ShownInv(c)'
    <2>1. CASE UNCHANGED <<base, view>>
        BY <1>1, <1>2, <2>1 DEF ShownInv, Pending
    <2>2. CASE Pending(c)
        BY <1>2, <2>2 DEF ShownInv, Pending
    <2>3. CASE base'[c] = n /\ ShowSnapshot(c, n, "synced")
        <3>1. view'[c].open /\ view'[c].rev = n /\ view'[c].text = log[n].text
            BY <1>1, <1>3, <2>3, SnapshotFacts DEF Statuses
        <3>2. QED
            BY <1>2, <2>3, <3>1 DEF ShownInv
    <2>4. QED
        BY <1>4, <2>1, <2>2, <2>3
<1>11. QED
    BY <1>7, <1>9, <1>10 DEF WindowInv

\* So does the answer to the registration.
LEMMA JoinedWindow ==
    ASSUME IInv, NEW c \in Windows, Joined(c)
    PROVE  WindowInv(c)'
<1>1. /\ TypeInv /\ PhaseInv(c) /\ RevInv(c) /\ SeqInv(c) /\ OwnInv(c)
      /\ ShownInv(c) /\ DiskInv(c) /\ Len(log) \in Nat
      /\ base \in [Windows -> Nat] /\ request \in [Windows -> Requests]
      /\ phase \in [Windows -> Phases]
    BY OwnFacts
<1>2. UNCHANGED <<log, disk, writer, queued, acked, inbox, save>>
    BY DEF Joined, file
<1> DEFINE n == request[c].rev
<1>3. phase[c] = "answered" /\ request[c].at = "registered" /\ n \in 1..Len(log)
    BY <1>1 DEF Joined, PhaseInv, RevInv
<1>4. \/ n <= base[c] /\ UNCHANGED <<base, view>>
      \/ /\ n > base[c]
         /\ base'[c] = n
         /\ \/ Pending(c)
            \/ ShowSnapshot(c, n, "synced")
    BY <1>1 DEF Joined
<1>5. phase'[c] = "live" /\ request'[c] = Idle /\ request'[c].at = "idle"
    BY <1>1 DEF Joined, Idle
<1>6. base'[c] = Later(base[c], n)
    BY <1>1, <1>3, <1>4 DEF Later
<1>7. /\ PhaseInv(c)' /\ RevInv(c)'
      /\ base'[c] \in Nat /\ base'[c] >= base[c] /\ base'[c] >= n
    BY <1>2, <1>3, <1>5, <1>6, HearsWindow
<1>8. SeqInv(c)' /\ RefusedInv(c)' /\ DiskInv(c)'
    BY <1>1, <1>2, <1>5 DEF SeqInv, RefusedInv, DiskInv
<1>9. OwnInv(c)'
    <2>1. ASSUME NEW r \in base'[c] + 1 .. Len(log), log[r].by = c, log[r].dirty
          PROVE  FALSE
        <3>1. r \in base[c] + 1 .. Len(log) /\ r > n
            BY <1>1, <1>3, <1>7, <2>1
        <3>2. r <= n
            BY <2>1, <3>1, <1>1 DEF OwnInv
        <3>3. QED
            BY <1>3, <3>1, <3>2
    <2>2. QED
        BY <1>2, <1>5, <2>1 DEF OwnInv
<1>10. ShownInv(c)'
    <2>1. CASE UNCHANGED <<base, view>>
        BY <1>1, <1>2, <2>1 DEF ShownInv, Pending
    <2>2. CASE Pending(c)
        BY <1>2, <2>2 DEF ShownInv, Pending
    <2>3. CASE base'[c] = n /\ ShowSnapshot(c, n, "synced")
        <3>1. view'[c].open /\ view'[c].rev = n /\ view'[c].text = log[n].text
            BY <1>1, <1>3, <2>3, SnapshotFacts DEF Statuses
        <3>2. QED
            BY <1>2, <2>3, <3>1 DEF ShownInv
    <2>4. QED
        BY <1>4, <2>1, <2>2, <2>3
<1>11. QED
    BY <1>7, <1>8, <1>9, <1>10 DEF WindowInv

\* The first window that registers makes the first revision.
LEMMA RegisterWindow ==
    ASSUME IInv, NEW c \in Windows, Register(c)
    PROVE  WindowInv(c)'
<1>1. /\ TypeInv /\ PhaseInv(c) /\ RevInv(c) /\ SeqInv(c) /\ ShownInv(c)
      /\ DiskInv(c) /\ Len(log) \in Nat /\ base[c] \in Nat
      /\ request \in [Windows -> Requests] /\ phase \in [Windows -> Phases]
    BY OwnFacts
<1>2. UNCHANGED <<disk, writer, base, queued, acked, inbox, view, save>>
    BY DEF Register, file
<1>3. LogExtends
    BY OthersKeep DEF Acts
<1>4. /\ phase[c] = "registering" /\ phase'[c] = "answered"
      /\ request'[c].at = "registered" /\ request'[c].rev = Len(log')
    BY <1>1 DEF Register
<1>5. Len(log') \in Nat /\ Len(log') >= 1 /\ Len(log) <= Len(log')
    <2>1. Len(log') # 0
        BY <1>1 DEF Register, TypeInv
    <2>2. QED
        BY <1>3, <2>1 DEF LogExtends
<1>6. PhaseInv(c)'
    BY <1>1, <1>2, <1>4 DEF PhaseInv
<1>7. RevInv(c)'
    <2>1. base'[c] <= Len(log') /\ Len(log') \in 1..Len(log')
        BY <1>1, <1>2, <1>5 DEF RevInv
    <2>2. \/ save[c].at \notin {"write", "written", "synced", "conflict"}
          \/ save[c].at \in {"write", "written"} /\ ~save[c].shared
        BY <1>1, <1>4 DEF PhaseInv
    <2>3. QED
        BY <1>2, <1>4, <2>1, <2>2 DEF RevInv
<1>8. SeqInv(c)'
    BY <1>1, <1>2, <1>4 DEF SeqInv
<1>9. OwnInv(c)'
    <2>1. \A r \in base[c] + 1 .. Len(log') : r <= Len(log')
        BY <1>1, <1>5
    <2>2. QED
        BY <1>2, <1>4, <2>1 DEF OwnInv
<1>10. ShownInv(c)' /\ DiskInv(c)'
    BY <1>1, <1>2, <1>3, ShownKeeps, DiskKeeps
<1>11. RefusedInv(c)'
    BY <1>4 DEF RefusedInv
<1>12. QED
    BY <1>6, <1>7, <1>8, <1>9, <1>10, <1>11 DEF WindowInv

\* The authority marks a revision saved only while it is still the last one,
\* which is the one whose text was written.
LEMMA MarkWindow ==
    ASSUME IInv, NEW c \in Windows, MarkSaved(c)
    PROVE  WindowInv(c)'
<1>1. /\ TypeInv /\ PhaseInv(c) /\ RevInv(c) /\ SeqInv(c) /\ OwnInv(c)
      /\ ShownInv(c) /\ RefusedInv(c) /\ DiskInv(c)
      /\ log \in Seq(Entries) /\ Len(log) \in Nat /\ base[c] \in Nat
      /\ save \in [Windows -> Saves]
    BY OwnFacts
<1>2. UNCHANGED <<disk, writer, phase, base, queued, acked, request, view>>
    BY DEF MarkSaved, file
<1>3. /\ save[c].at = "written" /\ save[c].shared /\ phase[c] = "live"
      /\ save[c].rev \in 1..Len(log)
      /\ save[c].text = log[save[c].rev].text
    BY <1>1 DEF MarkSaved, PhaseInv, RevInv
<1>4. /\ LogExtends /\ OwnFree(c)
      /\ save'[c].at \in {"synced", "conflict"}
      /\ save'[c].rev \in 1..Len(log')
      /\ save'[c].at = "synced" => log'[save'[c].rev].text = save[c].text
    <2>1. CASE save[c].rev = Len(log)
        <3> DEFINE v == [text |-> log[Len(log)].text, dirty |-> FALSE, by |-> c]
        <3>1. v \in Entries /\ v.by = c /\ ~v.dirty /\ v.text = save[c].text
            <4>1. log[Len(log)] \in Entries
                BY <1>1, <1>3, <2>1
            <4>2. QED
                BY <1>3, <2>1, <4>1 DEF Entries
        <3>2. /\ Commit(v)
              /\ save' = [save EXCEPT ![c] =
                              [at |-> "synced", rev |-> Len(log) + 1]]
            BY <2>1 DEF MarkSaved
        <3>3. save'[c].at = "synced" /\ save'[c].rev = Len(log) + 1
            BY <1>1, <3>2
        <3> HIDE DEF v
        <3>4. /\ LogExtends /\ OwnFree(c)
              /\ Len(log') = Len(log) + 1 /\ log'[Len(log) + 1] = v
            BY <1>1, <3>1, <3>2, CommitExtends
        <3>5. Len(log) + 1 \in 1..Len(log')
            BY <1>1, <3>4
        <3>6. QED
            BY <3>1, <3>3, <3>4, <3>5
    <2>2. CASE save[c].rev # Len(log)
        <3>1. log' = log /\ save'[c].at = "conflict" /\ save'[c].rev = Len(log)
            BY <1>1, <2>2 DEF MarkSaved
        <3>2. Len(log) \in 1..Len(log)
            BY <1>1, <1>3
        <3>3. QED
            BY <1>1, <3>1, <3>2, LogSame
    <2>3. QED
        BY <2>1, <2>2
<1>5. PhaseInv(c)'
    BY <1>1, <1>2, <1>3, <1>4 DEF PhaseInv
<1>6. RevInv(c)'
    <2>1. Len(log') \in Nat /\ Len(log) <= Len(log')
        BY <1>4 DEF LogExtends
    <2>2. /\ base'[c] <= Len(log')
          /\ request[c].at \in {"registered", "applied", "conflict"}
                 => request[c].rev \in 1..Len(log')
          /\ request[c].at = "sent" => request[c].base <= Len(log')
        BY <1>1, <1>2, <2>1, RequestFields DEF RevInv
    <2>3. QED
        BY <1>2, <1>4, <2>2 DEF RevInv
<1>7. SeqInv(c)' /\ OwnInv(c)' /\ ShownInv(c)' /\ RefusedInv(c)'
    BY <1>1, <1>2, <1>4, SeqKeeps, OwnKeeps, ShownKeeps, RefusedKeeps
<1>8. DiskInv(c)'
    BY <1>1, <1>2, <1>3, <1>4 DEF DiskInv
<1>9. QED
    BY <1>5, <1>6, <1>7, <1>8 DEF WindowInv

\* The answer to the mark ends the save.
LEMMA SavedWindow ==
    ASSUME IInv, NEW c \in Windows, Saved(c)
    PROVE  WindowInv(c)'
<1>1. /\ TypeInv /\ PhaseInv(c) /\ RevInv(c) /\ SeqInv(c) /\ OwnInv(c)
      /\ RefusedInv(c) /\ Len(log) \in Nat
      /\ base \in [Windows -> Nat] /\ save \in [Windows -> Saves]
    BY OwnFacts
<1>2. UNCHANGED <<log, disk, writer, phase, queued, acked, request, inbox>>
    BY DEF Saved, file
<1>3. /\ save[c].at \in {"synced", "conflict"} /\ phase[c] = "live"
      /\ save[c].rev \in 1..Len(log)
    BY <1>1 DEF Saved, PhaseInv, RevInv
<1>4. base'[c] = Later(base[c], save[c].rev) /\ save'[c].at = "idle"
    BY <1>1 DEF Saved, Idle
<1>5. /\ PhaseInv(c)' /\ RevInv(c)'
      /\ base'[c] \in Nat /\ base'[c] >= 1 /\ base'[c] <= Len(log)
      /\ base'[c] >= base[c]
    <2>1. request'[c].at = "registered" <=> phase'[c] = "answered"
        BY <1>1, <1>2 DEF PhaseInv
    <2>2. QED
        BY <1>2, <1>3, <1>4, <2>1, HearsWindow
<1>6. LogExtends /\ OwnFree(c)
    BY <1>1, <1>2, LogSame
<1>7. SeqInv(c)' /\ OwnInv(c)' /\ RefusedInv(c)'
    BY <1>1, <1>2, <1>5, <1>6, SeqKeeps, OwnKeeps, RefusedKeeps
<1>8. ShownInv(c)'
    <2>1. CASE Pending(c)
        BY <1>2, <2>1 DEF ShownInv, Pending
    <2>2. CASE ~Pending(c)
        <3>1. ShowSnapshot(c, base'[c], save[c].at) /\ save[c].at \in Statuses
            BY <1>3, <1>4, <2>2 DEF Saved, Statuses
        <3>2. base'[c] \in 1..Len(log)
            BY <1>1, <1>5
        <3>3. /\ view'[c].open
              /\ view'[c].rev = base'[c]
              /\ view'[c].text = log[base'[c]].text
            BY <1>1, <3>1, <3>2, SnapshotFacts
        <3>4. QED
            BY <1>2, <3>3 DEF ShownInv
    <2>3. QED
        BY <2>1, <2>2
<1>9. DiskInv(c)'
    BY <1>4 DEF DiskInv
<1>10. QED
    BY <1>5, <1>7, <1>8, <1>9 DEF WindowInv

-----------------------------------------------------------------------------
(* The invariant *)

\* It holds at first,
LEMMA InitInvariant == Init => IInv
<1> SUFFICES ASSUME Init PROVE IInv
    OBVIOUS
<1>1. TypeInv
    BY TypeInit
<1>2. ASSUME NEW c \in Windows PROVE WindowInv(c)
    <2>1. /\ phase[c] = "off" /\ base[c] = 0 /\ inbox[c] = <<>>
          /\ queued[c] = 0 /\ acked[c] = 0
          /\ request[c] = Idle /\ save[c] = Idle /\ log = <<>>
        BY DEF Init
    <2>2. PhaseInv(c)
        BY <2>1 DEF PhaseInv, Idle
    <2>3. RevInv(c) /\ SeqInv(c)
        BY <2>1 DEF RevInv, SeqInv, Idle
    <2>4. OwnInv(c) /\ ShownInv(c)
        BY <2>1 DEF OwnInv, ShownInv, Idle
    <2>5. RefusedInv(c) /\ DiskInv(c)
        BY <2>1 DEF RefusedInv, DiskInv, Idle
    <2>6. QED
        BY <2>2, <2>3, <2>4, <2>5 DEF WindowInv
<1>3. QED
    BY <1>1, <1>2 DEF IInv

\* ... and every step keeps it.
LEMMA StepInvariant == IInv /\ [Next]_vars => IInv'
<1> SUFFICES ASSUME IInv, [Next]_vars PROVE IInv'
    OBVIOUS
<1>1. TypeInv'
    BY TypeStep
<1>2. CASE UNCHANGED vars
    <2>1. ASSUME NEW c \in Windows PROVE WindowInv(c)'
        <3>1. UNCHANGED <<log, disk, writer, phase, base, queued, acked, request,
                          inbox, view, save>>
            BY <1>2 DEF vars, client, file
        <3>2. WindowInv(c)
            BY DEF IInv
        <3>3. PhaseInv(c)' /\ RevInv(c)' /\ DiskInv(c)'
            BY <3>1, <3>2 DEF WindowInv, PhaseInv, RevInv, DiskInv
        <3>4. SeqInv(c)' /\ OwnInv(c)' /\ ShownInv(c)' /\ RefusedInv(c)'
            BY <3>1, QuietKeeps
        <3>5. QED
            BY <3>3, <3>4 DEF WindowInv
    <2>2. QED
        BY <1>1, <2>1 DEF IInv
<1>3. ASSUME NEW c \in Windows, Acts(c) PROVE IInv'
    <2>1. WindowInv(c)'
        BY <1>3, TypeWindow, StartWindow, RegisterWindow, JoinedWindow,
           PublishWindow, UpdateWindow, AnswerWindow, FailWindow, ReceiveWindow,
           SaveWindow, FlushedWindow, ClosedWindow, WriteWindow,
           MarkBufferWindow, MarkWindow, SavedWindow DEF Acts
    <2>2. \A d \in Windows \ {c} : WindowInv(d)'
        BY <1>3, OtherWindows
    <2>3. QED
        BY <1>1, <2>1, <2>2 DEF IInv
<1>4. QED
    BY <1>2, <1>3, StepActs

\* The windows and the authority keep to the invariant above: every variable
\* is in its domain, what a client knows of the log is there, its changes are
\* numbered in order, and the file holds what a save is about to mark.
THEOREM SyncInvariant == Spec => []IInv
<1>1. Init => IInv
    BY InitInvariant
<1>2. IInv /\ [Next]_vars => IInv'
    BY StepInvariant
<1>3. QED
    BY <1>1, <1>2, PTL DEF Spec

\* A window with nothing left to send shows a revision of the authority, text
\* and number.
THEOREM ShowsCommitted == Spec => []ShownIsCommitted
<1>1. IInv => ShownIsCommitted
    BY DEF IInv, WindowInv, ShownIsCommitted, ShownInv, PhaseInv
<1>2. QED
    BY <1>1, SyncInvariant, PTL

\* An update is refused only because another window wrote, or a revision was
\* marked saved, since the revision it was made on.
THEOREM NeverCompetesWithItself == Spec => []NoSelfConflict
<1>1. IInv => NoSelfConflict
    BY DEF IInv, WindowInv, NoSelfConflict, RefusedInv
<1>2. QED
    BY <1>1, SyncInvariant, PTL

\* A revision marked saved by the window that wrote the file last is in it.
THEOREM SavedStays == Spec => []SavedIsOnDisk
<1>1. IInv => SavedIsOnDisk
    BY DEF IInv, WindowInv, SavedIsOnDisk, DiskInv
<1>2. QED
    BY <1>1, SyncInvariant, PTL

-----------------------------------------------------------------------------
(* The promise of SharedText *)

\* The texts of the revisions
History == [r \in 1..Len(log) |-> log[r].text]

\* A step that accepts a version writes its text at the end of the history,
LEMMA CommitWrites ==
    ASSUME TypeInv, NEW v \in Entries, log' = Append(log, v), base' = base
    PROVE  \E t \in Texts : Shared!Write(t)
<1>1. log \in Seq(Entries) /\ Len(log) \in Nat
    BY DEF TypeInv
<1>2. v.text \in Texts /\ \A r \in 1..Len(log) : log[r].text \in Texts
    <2>1. \A e \in Entries : e.text \in Texts
        BY DEF Entries
    <2>2. \A r \in 1..Len(log) : log[r] \in Entries
        BY <1>1
    <2>3. QED
        BY <2>1, <2>2
<1>3. History \in Seq(Texts) /\ Len(History) = Len(log)
    BY <1>1, <1>2 DEF History
<1>4. /\ Append(History, v.text) \in Seq(Texts)
      /\ Len(Append(History, v.text)) = Len(log) + 1
      /\ \A r \in 1..Len(log) : Append(History, v.text)[r] = log[r].text
      /\ Append(History, v.text)[Len(log) + 1] = v.text
    <2>1. \A r \in 1..Len(log) : History[r] = log[r].text
        BY DEF History
    <2> HIDE DEF History
    <2>2. QED
        BY <1>2, <1>3, <2>1, AppendProperties
<1>5. /\ Len(log') = Len(log) + 1
      /\ \A r \in 1..Len(log) : log'[r] = log[r]
      /\ log'[Len(log) + 1] = v
    BY <1>1
<1>6. /\ History' \in Seq(Texts) /\ Len(History') = Len(log) + 1
      /\ \A r \in 1..Len(log) + 1 : History'[r] = log'[r].text
    BY <1>1, <1>2, <1>5 DEF History
<1>7. History' = Append(History, v.text)
    <2>1. ASSUME NEW r \in 1..Len(log) + 1
          PROVE  History'[r] = Append(History, v.text)[r]
        <3>1. r \in 1..Len(log) \/ r = Len(log) + 1
            BY <1>1
        <3>2. QED
            BY <1>4, <1>5, <1>6, <3>1
    <2> HIDE DEF History
    <2>2. QED
        BY <1>4, <1>6, <2>1, SeqEqual
<1>8. Shared!Write(v.text)
    BY <1>7 DEF Shared!Write, History
<1>9. QED
    BY <1>2, <1>8

\* ... one that tells a window of a revision moves it forward,
LEMMA HearsLearns ==
    ASSUME TypeInv, NEW c \in Windows, NEW n \in base[c]..Len(log), log' = log,
           base' = [base EXCEPT ![c] = n]
    PROVE  \E d \in Windows : Shared!Learn(d)
<1>1. Len(History) = Len(log) /\ UNCHANGED History
    BY DEF History, TypeInv
<1>2. n \in base[c]..Len(History)
    BY <1>1
<1>3. Shared!Learn(c)
    BY <1>1, <1>2 DEF Shared!Learn, History
<1>4. QED
    BY <1>3

\* ... and the others are not seen in it.
LEMMA SharedStep == IInv /\ [Next]_vars => [Shared!SNext]_Shared!svars
<1> SUFFICES ASSUME IInv, [Next]_vars
             PROVE  Shared!SNext \/ UNCHANGED <<log, base>>
    BY DEF Shared!svars
<1>0. TypeInv /\ \A c \in Windows : RevInv(c) /\ PhaseInv(c)
    BY DEF IInv, WindowInv
<1>01. log \in Seq(Entries) /\ Len(log) \in Nat /\ base \in [Windows -> Nat]
    BY <1>0 DEF TypeInv
<1>02. ASSUME NEW v \in Entries, log' = Append(log, v), base' = base
       PROVE  Shared!SNext
    BY <1>0, <1>02, CommitWrites DEF Shared!SNext
<1>03. ASSUME NEW c \in Windows, NEW n \in 1..Len(log), log' = log,
              base' = base \/ base' = [base EXCEPT ![c] = Later(base[c], n)]
       PROVE  Shared!SNext \/ UNCHANGED <<log, base>>
    <2>1. CASE base' = base
        BY <1>03, <2>1
    <2>2. CASE base' = [base EXCEPT ![c] = Later(base[c], n)]
        <3>1. base[c] \in Nat /\ base[c] <= Len(log)
            BY <1>0, <1>01 DEF RevInv
        <3>2. Later(base[c], n) \in base[c]..Len(log)
            BY <1>01, <3>1, LaterFacts
        <3>3. QED
            BY <1>0, <1>03, <2>2, <3>2, HearsLearns DEF Shared!SNext
    <2>3. QED
        BY <1>03, <2>1, <2>2
<1>1. ASSUME NEW c \in Windows, Register(c)
      PROVE  Shared!SNext \/ UNCHANGED <<log, base>>
    <2>1. CASE log = <<>>
        <3> DEFINE v == [text |-> seed.text, dirty |-> seed.dirty, by |-> c]
        <3>1. v \in Entries
            BY <1>0 DEF TypeInv, Versions, Entries
        <3>2. log' = <<v>> /\ base' = base
            BY <1>1, <2>1 DEF Register
        <3> HIDE DEF v
        <3>3. log' = Append(log, v)
            BY <2>1, <3>1, <3>2
        <3>4. QED
            BY <1>02, <3>1, <3>2, <3>3
    <2>2. CASE log # <<>>
        BY <1>1, <2>2 DEF Register
    <2>3. QED
        BY <2>1, <2>2
<1>2. ASSUME NEW c \in Windows, Update(c)
      PROVE  Shared!SNext \/ UNCHANGED <<log, base>>
    <2>1. CASE request[c].base = Len(log)
        <3> DEFINE v == [text |-> request[c].text, dirty |-> request[c].dirty,
                         by |-> c]
        <3>1. v \in Entries
            BY <1>0, <1>2, RequestFields DEF Entries, Update
        <3>2. log' = Append(log, v) /\ base' = base
            BY <1>2, <2>1 DEF Update, Commit
        <3> HIDE DEF v
        <3>3. QED
            BY <1>02, <3>1, <3>2
    <2>2. CASE request[c].base # Len(log)
        BY <1>2, <2>2 DEF Update
    <2>3. QED
        BY <2>1, <2>2
<1>3. ASSUME NEW c \in Windows, MarkSaved(c)
      PROVE  Shared!SNext \/ UNCHANGED <<log, base>>
    <2>1. CASE save[c].rev = Len(log)
        <3> DEFINE v == [text |-> log[Len(log)].text, dirty |-> FALSE, by |-> c]
        <3>1. v \in Entries
            <4>1. Len(log) \in 1..Len(log)
                BY <1>0, <1>3, <2>1 DEF MarkSaved, RevInv
            <4>2. log[Len(log)] \in Entries
                BY <1>01, <4>1
            <4>3. QED
                BY <4>2 DEF Entries
        <3>2. log' = Append(log, v) /\ base' = base
            BY <1>3, <2>1 DEF MarkSaved, Commit
        <3> HIDE DEF v
        <3>3. QED
            BY <1>02, <3>1, <3>2
    <2>2. CASE save[c].rev # Len(log)
        BY <1>3, <2>2 DEF MarkSaved
    <2>3. QED
        BY <2>1, <2>2
<1>4. ASSUME NEW c \in Windows, Joined(c)
      PROVE  Shared!SNext \/ UNCHANGED <<log, base>>
    <2>1. request[c].rev \in 1..Len(log)
        BY <1>0, <1>4 DEF Joined, PhaseInv, RevInv
    <2>2. log' = log /\ (base' = base
              \/ base' = [base EXCEPT ![c] = Later(base[c], request[c].rev)])
        BY <1>01, <1>4, <2>1 DEF Joined, Later
    <2>3. QED
        BY <1>03, <2>1, <2>2
<1>5. ASSUME NEW c \in Windows, Applied(c) \/ Conflict(c)
      PROVE  Shared!SNext \/ UNCHANGED <<log, base>>
    <2>1. /\ request[c].rev \in 1..Len(log) /\ log' = log
          /\ base' = [base EXCEPT ![c] = Later(base[c], request[c].rev)]
        BY <1>0, <1>5 DEF Applied, Conflict, RevInv
    <2>2. QED
        BY <1>03, <2>1
<1>6. ASSUME NEW c \in Windows, Receive(c)
      PROVE  Shared!SNext \/ UNCHANGED <<log, base>>
    <2>1. inbox[c] \in Seq(1..Len(log)) /\ inbox[c] # <<>>
        BY <1>0, <1>6 DEF Receive, TypeInv
    <2>2. Head(inbox[c]) \in 1..Len(log)
        BY <2>1
    <2>3. log' = log /\ (base' = base
              \/ base' = [base EXCEPT ![c] = Later(base[c], Head(inbox[c]))])
        BY <1>01, <1>6, <2>2 DEF Receive, Later
    <2>4. QED
        BY <1>03, <2>2, <2>3
<1>7. ASSUME NEW c \in Windows, Saved(c)
      PROVE  Shared!SNext \/ UNCHANGED <<log, base>>
    <2>1. /\ save[c].rev \in 1..Len(log) /\ log' = log
          /\ base' = [base EXCEPT ![c] = Later(base[c], save[c].rev)]
        BY <1>0, <1>7 DEF Saved, RevInv
    <2>2. QED
        BY <1>03, <2>1
<1>8. ASSUME NEW c \in Windows,
             \/ Type(c) \/ (c = Main /\ Relabel) \/ Start(c) \/ Subscribed(c)
             \/ Tick(c) \/ UpdateFails(c)
             \/ Save(c) \/ Close(c) \/ Flush(c) \/ FlushPublishes(c)
             \/ Flushed(c) \/ Closed(c) \/ WriteFile(c) \/ SaveFails(c)
             \/ MarkBufferSaved(c)
      PROVE  UNCHANGED <<log, base>>
    BY <1>8 DEF Type, Relabel, Start, Subscribed, Tick, UpdateFails, Save, Close,
       Flush, FlushPublishes, Flushed, Closed, WriteFile, SaveFails,
       MarkBufferSaved, client
<1>9. UNCHANGED vars => UNCHANGED <<log, base>>
    BY DEF vars, client
<1>10. QED
    BY <1>1, <1>2, <1>3, <1>4, <1>5, <1>6, <1>7, <1>8, <1>9, StepActs DEF Acts

\* Whatever is typed, published, refused, received and saved, the buffer has
\* one history, and every window moves only forward along it.
THEOREM ImplementsShared == Spec => ImplementsSharedText
<1>1. Init => Shared!SInit
    BY DEF Init, Shared!SInit
<1>2. IInv /\ [Next]_vars => [Shared!SNext]_Shared!svars
    BY SharedStep
<1>3. QED
    BY <1>1, <1>2, SyncInvariant, PTL
       DEF Spec, ImplementsSharedText, Shared!SSpec
=============================================================================
