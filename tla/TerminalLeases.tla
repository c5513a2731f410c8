---------------------------- MODULE TerminalLeases ----------------------------
(***************************************************************************)
(* TerminalAgentManager of src-tauri/src/terminal_agent/mod.rs and the     *)
(* command loop of gateway.rs: leases on one PTY, the capture of its       *)
(* output, the identity of its child process, and the operator's           *)
(* keystrokes, kills and respawns of that PTY in commands/mod.rs.          *)
(*                                                                         *)
(* The managed SSH terminals of the Windows build are modelled, whose      *)
(* leases carry the identity of the child they were validated for.  A      *)
(* lease belongs to one agent turn, so a lease names its turn too.  One    *)
(* action is one critical section of a lock, or several of which the later *)
(* ones cannot be told apart by the others.                                *)
(***************************************************************************)
EXTENDS Integers

CONSTANTS
    Leases,    \* agent turns that attach the terminal, each with its lease
    Lives,     \* bound on the children the PTY id ever names
    Takeovers, \* bound on keystrokes into one child
    Size,      \* commands of a fix, its verification included
    None

ASSUME LeasesAssumption ==
    /\ Lives \in Nat
    /\ Takeovers \in Nat
    /\ Size \in Nat \ {0}
    /\ None \notin Leases

VARIABLES
    pty,      \* the entry of `ptys`: none, a child that lives, one that died
    child,    \* generation of the last child of this id
    binding,  \* managed_ssh_bindings: who the child is, and whether it logged in
    keeper,   \* who holds pty_spawn_lock across its steps
    lease,    \* leases, with what the turn validated before
    capture,  \* captures: whose command receives the output of the PTY
    call,     \* execute_command, with the commands left of its batch
    removing  \* revocations that have marked a lease and not yet removed the capture

leaseVars == <<pty, child, binding, keeper, lease, capture, call, removing>>

NoOne == [gen |-> 0, epoch |-> 0]
Idle  == [at |-> "idle", left |-> 0]

\* Tasks that revoke in two steps: the end of a turn, Stop, and a rejected fix.
Removers == {"end", "stop", "deny"}

LeasesInit ==
    /\ pty = "absent"
    /\ child = 0
    /\ binding = None
    /\ keeper = "free"
    /\ lease = [l \in Leases |-> [at |-> "none", id |-> NoOne]]
    /\ capture = None
    /\ call = [l \in Leases |-> Idle]
    /\ removing = {}

\* active_lease_mut
Active(l) == lease[l].at = "live"

Issued(l) == lease[l].at \in {"live", "expired", "revoked"}

\* The binding is authenticated and the child the one of `id`.
Is(id) == binding # None /\ binding.auth /\ binding.id = id

\* write_bound_pty
Writable(l) == pty = "alive" /\ lease[l].id.gen = child /\ Is(lease[l].id)

\* A lease without a revoked_reason gets one, expired or not.
Unrevoked(l) == lease[l].at \in {"live", "expired"}
Marked(S) ==
    [l \in Leases |-> IF l \in S /\ Unrevoked(l)
                      THEN [lease[l] EXCEPT !.at = "revoked"] ELSE lease[l]]

\* The map of captures knows the PTY only, not the lease.
EndCapture == capture' = None

At(l, where) == call' = [call EXCEPT ![l].at = where]
Return(l)    == call' = [call EXCEPT ![l] = Idle]

-----------------------------------------------------------------------------
(* The PTY and its operator *)

\* revoke_for_pty, with the lock on the leases held throughout
RevokeForPty ==
    /\ lease' = Marked(Leases)
    /\ binding' = IF binding = None THEN None
                  ELSE [binding EXCEPT !.id.epoch = @ + 1]
    /\ EndCapture

\* Input of the operator revokes before it is written.
Takeover ==
    /\ binding # None => binding.id.epoch < Takeovers
    /\ RevokeForPty
    /\ UNCHANGED <<pty, child, keeper, call, removing>>

KillBegins ==
    /\ keeper = "free"
    /\ keeper' = "kill"
    /\ RevokeForPty
    /\ UNCHANGED <<pty, child, call, removing>>

\* A child that does not die in time is put back, without its binding.
KillEnds ==
    /\ keeper = "kill"
    /\ keeper' = "free"
    /\ binding' = None
    /\ \/ pty' = "absent"
       \/ pty \in {"alive", "dead"} /\ UNCHANGED pty
    /\ UNCHANGED <<child, lease, capture, call, removing>>

\* An id in use is refused.
SpawnBegins ==
    /\ keeper = "free"
    /\ pty = "absent"
    /\ child < Lives
    /\ keeper' = "spawn"
    /\ RevokeForPty
    /\ UNCHANGED <<pty, child, call, removing>>

\* The old binding is cleared, the child inserted and its binding begun.
SpawnEnds ==
    /\ keeper = "spawn"
    /\ keeper' = "free"
    /\ pty' = "alive"
    /\ child' = child + 1
    /\ binding' = [id |-> [gen |-> child + 1, epoch |-> 0], auth |-> FALSE]
    /\ UNCHANGED <<lease, capture, call, removing>>

\* The task that waits for the login of the child, which was alive when it looked.
Authenticated ==
    /\ pty \in {"alive", "dead"}
    /\ binding # None /\ ~binding.auth
    /\ binding' = [binding EXCEPT !.auth = TRUE]
    /\ UNCHANGED <<pty, child, keeper, lease, capture, call, removing>>

AuthFails ==
    /\ binding # None /\ ~binding.auth
    /\ binding' = None
    /\ UNCHANGED <<pty, child, keeper, lease, capture, call, removing>>

ChildDies ==
    /\ pty = "alive"
    /\ pty' = "dead"
    /\ UNCHANGED <<child, binding, keeper, lease, capture, call, removing>>

\* The event loop takes the exit with pty_spawn_lock held; on_managed_pty_exit
\* heeds it only while the binding is that child's.
ExitSeen ==
    /\ pty = "dead" /\ keeper = "free"
    /\ pty' = "ended"
    /\ IF binding # None /\ binding.id.gen = child
       THEN /\ lease' = Marked({l \in Leases : lease[l].id.gen = child})
            /\ binding' = None
            /\ EndCapture
       ELSE UNCHANGED <<lease, binding, capture>>
    /\ UNCHANGED <<child, keeper, call, removing>>

-----------------------------------------------------------------------------
(* Leases *)

\* validate_terminal_attachment
Attach(l) ==
    /\ lease[l].at = "none"
    /\ pty = "alive"
    /\ binding # None /\ binding.auth
    /\ lease' = [lease EXCEPT ![l] = [at |-> "validated", id |-> binding.id]]

\* issue_with_identity refuses an identity that is no longer the current one.
IssueRefused(l) ==
    /\ lease[l].at = "validated"
    /\ ~Is(lease[l].id)
    /\ lease' = [lease EXCEPT ![l] = [at |-> "none", id |-> NoOne]]

\* mutated: what was validated is believed.
Issue_Unchecked(l) ==
    /\ lease[l].at = "validated"
    /\ lease' = [lease EXCEPT ![l].at = "live"]

Issue(l) ==
    /\ lease[l].at = "validated"
    /\ Is(lease[l].id)
    /\ lease' = [lease EXCEPT ![l].at = "live"]

\* The 30 minutes of the lease are over.
Expire(l) ==
    /\ Active(l)
    /\ lease' = [lease EXCEPT ![l].at = "expired"]
    /\ UNCHANGED <<pty, child, binding, keeper, capture, call, removing>>

\* mutated: the capture is removed only while a command runs.
Revoke_Running(l, r) ==
    /\ lease' = Marked({l})
    /\ removing' = IF call[l] = Idle THEN removing ELSE removing \cup {<<l, r>>}

\* revoke: the capture is removed later, whoever had revoked the lease before
Revoke(l, r) ==
    /\ lease' = Marked({l})
    /\ removing' = removing \cup {<<l, r>>}

\* revoke_for_turn: nothing to remove when it was revoked before
RevokeForTurn(l) ==
    /\ lease' = Marked({l})
    /\ removing' = IF Unrevoked(l) THEN removing \cup {<<l, "end">>} ELSE removing

RemoveCapture(l, r) ==
    /\ <<l, r>> \in removing
    /\ removing' = removing \ {<<l, r>>}
    /\ EndCapture
    /\ UNCHANGED <<pty, child, binding, keeper, lease, call>>

-----------------------------------------------------------------------------
(* execute_command.  What the device says is arbitrary. *)

\* begin_capture_and_write, one critical section: a failed write takes the
\* capture back, and an error ends the batch.
Begin(l) ==
    /\ call[l].at = "start"
    /\ IF Active(l) /\ capture = None /\ Writable(l)
       THEN capture' = l /\ At(l, "wait")
       ELSE Return(l) /\ UNCHANGED capture
    /\ UNCHANGED <<pty, child, binding, keeper, lease, removing>>

\* The command's end or a prompt was seen; the result may be an error.
Ends(l) ==
    /\ call[l].at = "wait"
    /\ EndCapture
    /\ \/ Return(l)
       \/ /\ call[l].left > 1
          /\ call' = [call EXCEPT ![l] = [at |-> "start", left |-> @.left - 1]]
    /\ UNCHANGED <<pty, child, binding, keeper, lease, removing>>

\* The pager asks to go on and the lease is over, or the child gone.
PagerRefused(l) ==
    /\ call[l].at = "wait"
    /\ ~(Active(l) /\ Writable(l))
    /\ At(l, "end")
    /\ UNCHANGED <<pty, child, binding, keeper, lease, capture, removing>>

\* revoke within the command; its removal and end_capture's are to follow
GiveUp(l) ==
    /\ lease' = Marked({l})
    /\ At(l, "remove")
    /\ UNCHANGED <<pty, child, binding, keeper, capture, removing>>

\* The device asks for a password or a confirmation.
Asked(l) == call[l].at = "wait" /\ GiveUp(l)

\* mutated: the command looks for a capture of the PTY, anyone's.
Cut_ByKey(l) ==
    /\ call[l].at = "wait"
    /\ capture = None
    /\ GiveUp(l)

\* The sender is gone from the map, so the receiver reads None.
Cut(l) ==
    /\ call[l].at = "wait"
    /\ capture # l
    /\ GiveUp(l)

TimedOut(l) ==
    /\ call[l].at = "wait"
    /\ At(l, "late")
    /\ EndCapture
    /\ UNCHANGED <<pty, child, binding, keeper, lease, removing>>

RevokeLate(l) ==
    /\ call[l].at = "late"
    /\ lease' = Marked({l})
    /\ At(l, "end")
    /\ UNCHANGED <<pty, child, binding, keeper, capture, removing>>

\* The removals a command still owes.
Drop(l) ==
    /\ \/ call[l].at = "remove" /\ At(l, "end")
       \/ call[l].at = "end" /\ Return(l)
    /\ EndCapture
    /\ UNCHANGED <<pty, child, binding, keeper, lease, removing>>

\* The sidecar has given up its request: the server drops the handler where it
\* waits, and nobody ends the capture.
Abandoned(l) ==
    /\ call[l].at = "wait"
    /\ Return(l)
    /\ UNCHANGED <<pty, child, binding, keeper, lease, capture, removing>>

Execute(l) ==
    Begin(l) \/ Ends(l) \/ PagerRefused(l) \/ Asked(l) \/ Cut(l)
        \/ TimedOut(l) \/ RevokeLate(l) \/ Drop(l)

Operate ==
    Takeover \/ KillBegins \/ KillEnds \/ SpawnBegins \/ SpawnEnds
        \/ Authenticated \/ AuthFails \/ ChildDies \/ ExitSeen
=============================================================================
