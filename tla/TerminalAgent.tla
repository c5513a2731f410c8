----------------------------- MODULE TerminalAgent -----------------------------
(***************************************************************************)
(* Agent turns on an attached terminal, over the leases and commands of    *)
(* TerminalLeases: agent_react_code_run and agent_react_resume of          *)
(* commands/ai.rs, the fixes of terminal_agent/mod.rs with the dialog of   *)
(* AgentPanel.tsx that reviews them, and the sidecar, which serves one     *)
(* request at a time and may die.                                          *)
(*                                                                         *)
(* What the agent asks for is up to a language model, so it may ask the    *)
(* gateway to run any fix at any time.  A digest stands for its batch.     *)
(***************************************************************************)
EXTENDS TerminalLeases, Sequences

CONSTANTS
    Batches,   \* fixes the agent proposes or the operator edits one into
    Presses,   \* bound on the decisions of the operator in a turn
    Denied     \* the decision that is no batch

ASSUME AgentAssumption ==
    /\ Presses \in Nat
    /\ None \notin Batches
    /\ Denied \notin Batches

VARIABLES
    turn,      \* the request of a turn, from the panel to its end in the backend
    again,     \* turns whose request is a resume
    serving,   \* the turn the sidecar works on
    plan,      \* leases with an investigation plan
    pending,   \* pending_fix_digest
    approved,  \* approved_fix
    panel,     \* the preview the dialog shows
    edit,      \* a preview of an edited batch, on its way to the dialog
    deciding,  \* agent_terminal_approve_fix between its two locks
    resume,    \* decisions on their way to the sidecar
    presses,   \* decisions made
    credit     \* for each fix, approvals pressed less executions begun

turnVars == <<turn, again, serving, plan>>
fixVars  == <<pending, approved, panel, edit, deciding, resume, presses, credit>>
vars     == <<leaseVars, turnVars, fixVars>>

Init ==
    /\ LeasesInit
    /\ turn = [l \in Leases |-> "off"]
    /\ again = {}
    /\ serving = None
    /\ plan = {}
    /\ pending = [l \in Leases |-> None]
    /\ approved = [l \in Leases |-> None]
    /\ panel = [l \in Leases |-> None]
    /\ edit = [l \in Leases |-> None]
    /\ deciding = None
    /\ resume = [l \in Leases |-> <<>>]
    /\ presses = [l \in Leases |-> 0]
    /\ credit = [l \in Leases |-> [b \in Batches |-> 0]]

-----------------------------------------------------------------------------
(* Requests *)

\* agent_react_code_run: the attachment is validated, then leased.
ValidateTurn(l) ==
    /\ \/ Attach(l)
       \/ IssueRefused(l)
    /\ UNCHANGED <<pty, child, binding, keeper, capture, call, removing, turnVars, fixVars>>

IssueTurn(l) ==
    /\ Issue(l)
    /\ turn' = [turn EXCEPT ![l] = "queued"]
    /\ UNCHANGED <<pty, child, binding, keeper, capture, call, removing>>
    /\ UNCHANGED <<again, serving, plan, fixVars>>

\* The request loop of the sidecar is single-threaded.
ServeRun(l) ==
    /\ serving = None
    /\ turn[l] = "queued"
    /\ turn' = [turn EXCEPT ![l] = "running"]
    /\ serving' = l
    /\ UNCHANGED <<leaseVars, again, plan, fixVars>>

\* Without an interrupted graph the resume fails, and its failure revokes.
ServeResume(l) ==
    /\ serving = None
    /\ resume[l] # <<>>
    /\ resume' = [resume EXCEPT ![l] = Tail(@)]
    /\ IF turn[l] = "paused"
       THEN /\ turn' = [turn EXCEPT ![l] = "running"]
            /\ again' = again \cup {l}
            /\ serving' = l
            /\ UNCHANGED <<lease, removing>>
       ELSE /\ RevokeForTurn(l)
            /\ UNCHANGED <<turn, again, serving>>
    /\ UNCHANGED <<pty, child, binding, keeper, capture, call, plan>>
    /\ UNCHANGED <<pending, approved, panel, edit, deciding, presses, credit>>

\* The sidecar is done with a turn, and free for the next one.
EndTurn(l) ==
    /\ serving = l
    /\ call[l] = Idle
    /\ turn' = [turn EXCEPT ![l] = "done"]
    /\ serving' = None
    /\ UNCHANGED <<leaseVars, again, plan, fixVars>>

\* Requests fail; the graph of a paused turn is lost, which a resume finds out.
SidecarDies ==
    /\ \E l \in Leases : turn[l] \in {"queued", "running", "paused"}
    /\ turn' = [l \in Leases |->
                    CASE turn[l] \in {"queued", "running"} -> "done"
                      [] turn[l] = "paused" -> "lost"
                      [] OTHER -> turn[l]]
    /\ serving' = None
    /\ UNCHANGED <<leaseVars, again, plan, fixVars>>

\* The end of the two commands, when no fix waits for an approval
Finish(l) ==
    /\ turn[l] = "done"
    /\ turn' = [turn EXCEPT ![l] = "over"]
    /\ IF l \in again THEN RevokeForTurn(l) ELSE Revoke(l, "end")
    /\ UNCHANGED <<pty, child, binding, keeper, capture, call>>
    /\ UNCHANGED <<again, serving, plan, fixVars>>

-----------------------------------------------------------------------------
(* The agent at work; command_lock keeps its commands apart. *)

Working(l) == serving = l /\ call[l] = Idle /\ Active(l)

BeginInvestigation(l) ==
    /\ Working(l)
    /\ plan' = plan \cup {l}
    /\ UNCHANGED <<leaseVars, turn, again, serving, fixVars>>

\* run_diagnostic up to its command
Diagnose(l) ==
    /\ Working(l)
    /\ l \in plan
    /\ call' = [call EXCEPT ![l] = [at |-> "start", left |-> 1]]
    /\ UNCHANGED <<pty, child, binding, keeper, lease, capture, removing, turnVars, fixVars>>

\* preview_fix: what was approved before no longer is.
Preview(l, b) ==
    /\ pending' = [pending EXCEPT ![l] = b]
    /\ approved' = [approved EXCEPT ![l] = None]

\* The graph is interrupted: the fix is previewed and shown, the turn pauses.
Propose(l, b) ==
    /\ Working(l)
    /\ l \in plan
    /\ Preview(l, b)
    /\ panel' = [panel EXCEPT ![l] = b]
    /\ turn' = [turn EXCEPT ![l] = "paused"]
    /\ serving' = None
    /\ UNCHANGED <<leaseVars, again, plan, edit, deciding, resume, presses, credit>>

\* mutated: the approval is compared and not taken.
ExecuteFix_Peek(l, b) ==
    /\ Working(l)
    /\ approved[l] = b
    /\ call' = [call EXCEPT ![l] = [at |-> "start", left |-> Size]]
    /\ credit' = [credit EXCEPT ![l][b] = @ - 1]
    /\ UNCHANGED <<pty, child, binding, keeper, lease, capture, removing, turnVars>>
    /\ UNCHANGED <<pending, approved, panel, edit, deciding, resume, presses>>

\* execute_fix: take_approved_fix takes the approval, the batch runs if it is
\* the approved one.
ExecuteFix(l, b) ==
    /\ Working(l)
    /\ approved[l] # None
    /\ approved' = [approved EXCEPT ![l] = None]
    /\ IF approved[l] = b
       THEN /\ call' = [call EXCEPT ![l] = [at |-> "start", left |-> Size]]
            /\ credit' = [credit EXCEPT ![l][b] = @ - 1]
       ELSE UNCHANGED <<call, credit>>
    /\ UNCHANGED <<pty, child, binding, keeper, lease, capture, removing, turnVars>>
    /\ UNCHANGED <<pending, panel, edit, deciding, resume, presses>>

-----------------------------------------------------------------------------
(* The operator.  The commands of the dialog run on the main thread, one     *)
(* after the other; its answers to the panel come later.                     *)

MainFree ==
    /\ deciding = None
    /\ \A l \in Leases : <<l, "stop">> \notin removing /\ <<l, "deny">> \notin removing

\* agent_terminal_preview_fix_edit
Edit(l, b) ==
    /\ MainFree
    /\ panel[l] # None
    /\ edit[l] = None
    /\ Active(l)
    /\ Preview(l, b)
    /\ edit' = [edit EXCEPT ![l] = b]
    /\ UNCHANGED <<leaseVars, turnVars, panel, deciding, resume, presses, credit>>

\* handleTerminalReviewEdit shows the answer, in a closed dialog as well.
EditShown(l) ==
    /\ edit[l] # None
    /\ panel' = [panel EXCEPT ![l] = edit[l]]
    /\ edit' = [edit EXCEPT ![l] = None]
    /\ UNCHANGED <<leaseVars, turnVars, pending, approved, deciding, resume, presses, credit>>

\* "Approve exact batch": agent_terminal_approve_fix previews the batch again.
Approve(l) ==
    /\ MainFree
    /\ panel[l] # None
    /\ presses[l] < Presses
    /\ presses' = [presses EXCEPT ![l] = @ + 1]
    /\ panel' = [panel EXCEPT ![l] = None]
    /\ credit' = [credit EXCEPT ![l][panel[l]] = @ + 1]
    /\ IF Active(l)
       THEN Preview(l, panel[l]) /\ deciding' = <<l, panel[l]>>
       ELSE UNCHANGED <<pending, approved, deciding>>
    /\ UNCHANGED <<leaseVars, turnVars, edit, resume>>

\* approve_fix, and the resume when it went well
Confirm ==
    /\ deciding # None
    /\ deciding' = None
    /\ LET l == deciding[1]
           b == deciding[2]
       IN IF Active(l) /\ pending[l] = b
          THEN /\ approved' = [approved EXCEPT ![l] = b]
               /\ resume' = [resume EXCEPT ![l] = Append(@, b)]
          ELSE UNCHANGED <<approved, resume>>
    /\ UNCHANGED <<leaseVars, turnVars, pending, panel, edit, presses, credit>>

\* "Reject": agent_terminal_cancel, then a resume that denies
Reject(l) ==
    /\ MainFree
    /\ panel[l] # None
    /\ presses[l] < Presses
    /\ presses' = [presses EXCEPT ![l] = @ + 1]
    /\ panel' = [panel EXCEPT ![l] = None]
    /\ Revoke(l, "deny")
    /\ UNCHANGED <<pty, child, binding, keeper, capture, call, turnVars>>
    /\ UNCHANGED <<pending, approved, edit, deciding, resume, credit>>

\* handleStop
Stop(l) ==
    /\ MainFree
    /\ Issued(l)
    /\ turn[l] # "over"
    /\ Revoke(l, "stop")
    /\ UNCHANGED <<pty, child, binding, keeper, capture, call, turnVars, fixVars>>

Remove(l, r) ==
    /\ RemoveCapture(l, r)
    /\ resume' = IF r = "deny" THEN [resume EXCEPT ![l] = Append(@, Denied)] ELSE resume
    /\ UNCHANGED <<turnVars, pending, approved, panel, edit, deciding, presses, credit>>

-----------------------------------------------------------------------------
LeaseStep ==
    /\ \/ Operate
       \/ \E l \in Leases : Expire(l) \/ Execute(l) \/ Abandoned(l)
    /\ UNCHANGED <<turnVars, fixVars>>

Next ==
    \/ LeaseStep
    \/ SidecarDies
    \/ Confirm
    \/ \E l \in Leases :
          \/ ValidateTurn(l) \/ IssueTurn(l)
          \/ ServeRun(l) \/ ServeResume(l) \/ EndTurn(l) \/ Finish(l)
          \/ BeginInvestigation(l) \/ Diagnose(l)
          \/ EditShown(l) \/ Approve(l) \/ Reject(l) \/ Stop(l)
          \/ \E r \in Removers : Remove(l, r)
          \/ \E b \in Batches : Propose(l, b) \/ ExecuteFix(l, b) \/ Edit(l, b)

Spec == Init /\ [][Next]_vars

\* A revocation that has begun is carried out, and a command that can go on
\* without the device does.
Fairness ==
    \A l \in Leases :
        /\ \A r \in Removers : WF_vars(Remove(l, r))
        /\ WF_vars((Begin(l) \/ Cut(l) \/ RevokeLate(l) \/ Drop(l))
                        /\ UNCHANGED <<turnVars, fixVars>>)

FairSpec == Spec /\ Fairness

-----------------------------------------------------------------------------
Identities == [gen : Nat, epoch : Nat]
LeaseRecords == [at : {"none", "validated", "live", "expired", "revoked"}, id : Identities]
Calls == [at : {"idle", "start", "wait", "late", "remove", "end"}, left : 0 .. Size]

LeasesTypeOK ==
    /\ pty \in {"absent", "alive", "dead", "ended"}
    /\ child \in Nat
    /\ binding \in {None} \cup [id : Identities, auth : BOOLEAN]
    /\ keeper \in {"free", "kill", "spawn"}
    /\ lease \in [Leases -> LeaseRecords]
    /\ capture \in Leases \cup {None}
    /\ call \in [Leases -> Calls]
    /\ removing \in SUBSET (Leases \X Removers)

TurnsTypeOK ==
    /\ turn \in [Leases -> {"off", "queued", "running", "paused", "lost", "done", "over"}]
    /\ again \in SUBSET Leases
    /\ serving \in Leases \cup {None}
    /\ plan \in SUBSET Leases

FixesTypeOK ==
    /\ pending \in [Leases -> Batches \cup {None}]
    /\ approved \in [Leases -> Batches \cup {None}]
    /\ panel \in [Leases -> Batches \cup {None}]
    /\ edit \in [Leases -> Batches \cup {None}]
    /\ deciding \in {None} \cup (Leases \X Batches)
    /\ resume \in [Leases -> Seq(Batches \cup {Denied})]
    /\ presses \in [Leases -> 0 .. Presses]
    /\ credit \in [Leases -> [Batches -> Int]]

\* Every variable of the leases, the turns and the fixes stays in its domain.
TypeOK == LeasesTypeOK /\ TurnsTypeOK /\ FixesTypeOK

\* Whatever the agent asks for, a fix runs only after the operator pressed
\* "Approve" on exactly that batch, and one press is good for one run
\* (approve_fix, take_approved_fix; terminal_agent_contract_test.rs:128).
FixesAreApproved == \A l \in Leases, b \in Batches : credit[l][b] >= 0

\* An approval does not outlive a later review of its lease: what may run is
\* what was previewed last (preview_fix resets approved_fix).
ApprovalFitsReview == \A l \in Leases : approved[l] # None => approved[l] = pending[l]

\* A live lease was validated for the child that owns the PTY now, and no key
\* was pressed since: neither the time between validation and issuance nor a
\* kill and respawn in between leaves a lease for another child (mod.rs:627).
LeaseFitsChild ==
    \A l \in Leases : Active(l) /\ binding # None => lease[l].id = binding.id

\* A revoked lease's command has lost its capture, or what is to remove it is
\* under way: the command itself, or the revocation.  So a command left behind by
\* a dead sidecar blocks the PTY no longer than its turn (revoke, mod.rs:661).
RevokedHoldsNoCapture ==
    \A l \in Leases :
        capture = l /\ lease[l].at = "revoked" =>
            \/ call[l].at \in {"remove", "end"}
            \/ \E r \in Removers : <<l, r>> \in removing

\* A command whose lease is revoked returns, though the device stays silent and
\* its timeout is far (execute_command reads None from the channel).
RevokedCommandsEnd ==
    \A l \in Leases :
        (call[l].at = "wait" /\ lease[l].at = "revoked") ~> (call[l] = Idle)

=============================================================================
