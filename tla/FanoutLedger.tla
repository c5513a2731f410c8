----------------------------- MODULE FanoutLedger -----------------------------
(***************************************************************************)
(* What a fan-out run promises to whoever reads its tables: the panel, the *)
(* history drawer and the zip export see fanout_runs.status and the rows   *)
(* of fanout_run_results and nothing of the tasks behind them.             *)
(*                                                                         *)
(* An attempt goes pending -> running -> outcome, written only while a     *)
(* task of this process works on it; a new attempt is a new row; a run is  *)
(* closed once no first attempt is being worked on, with a status its      *)
(* first attempts bear out; what a dead process left open is only ever     *)
(* turned into `failed`.                                                   *)
(***************************************************************************)
EXTENDS Naturals

CONSTANTS Devices, Attempts

VARIABLES
    row,        \* status of every attempt, "none" before it exists
    runStatus,  \* status of the run, "none" before it exists
    live        \* attempts some task of the process works on

lvars == <<row, runStatus, live>>

Slots    == Devices \X Attempts
Outcomes == {"success", "failed", "timeout", "cancelled"}
Settled  == Outcomes \cup {"blocked_by_guardrail"}
Verdicts == {"success", "failed", "cancelled", "partial"}

First(d) == row[<<d, 1>>]

\* a first attempt may still be pending when a cancelled run never reached it
Honest(status) ==
    /\ status = "success" =>
        \A d \in Devices : First(d) \in {"success", "pending"}
    /\ status = "failed" => \A d \in Devices : First(d) # "success"
    /\ status = "cancelled" =>
        \A d \in Devices : First(d) \in {"cancelled", "pending"}

LInit ==
    /\ row = [s \in Slots |-> "none"]
    /\ runStatus = "none"
    /\ live = {}

Open ==
    /\ runStatus = "none"
    /\ runStatus' = "running"
    /\ row' = [s \in Slots |-> IF s[2] = 1 THEN "pending" ELSE "none"]
    /\ UNCHANGED live

Refuse(s) ==
    /\ live = {}
    /\ row[s] = "pending"
    /\ row' = [row EXCEPT ![s] = "blocked_by_guardrail"]
    /\ UNCHANGED <<runStatus, live>>

Admit(s) ==
    /\ s \notin live
    /\ row[s] = "pending"
    /\ live' = live \cup {s}
    /\ UNCHANGED <<row, runStatus>>

\* a retry: a new attempt behind one that is settled
Attempt(s) ==
    /\ s[2] > 1
    /\ row[s] = "none"
    /\ row[<<s[1], s[2] - 1>>] # "none"
    /\ \E a \in Attempts : a < s[2] /\ row[<<s[1], a>>] \in Settled
    /\ row' = [row EXCEPT ![s] = "pending"]
    /\ live' = live \cup {s}
    /\ UNCHANGED runStatus

Reopen ==
    /\ \E s \in live : s[2] > 1 /\ row[s] = "pending"
    /\ runStatus' = "running"
    /\ UNCHANGED <<row, live>>

Begin(s) ==
    /\ s \in live
    /\ row[s] = "pending"
    /\ row' = [row EXCEPT ![s] = "running"]
    /\ UNCHANGED <<runStatus, live>>

Settle(s, outcome) ==
    /\ s \in live
    /\ row[s] = "running"
    /\ row' = [row EXCEPT ![s] = outcome]
    /\ UNCHANGED <<runStatus, live>>

Retire(s) ==
    /\ s \in live
    /\ row[s] \in Outcomes
    /\ live' = live \ {s}
    /\ UNCHANGED <<row, runStatus>>

Close(status) ==
    /\ runStatus = "running"
    /\ \A d \in Devices : <<d, 1>> \notin live
    /\ Honest(status)
    /\ runStatus' = status
    /\ UNCHANGED <<row, live>>

\* the process dies
Die ==
    /\ live' = {}
    /\ UNCHANGED <<row, runStatus>>

\* the next start fails what a run left open, then the run
FailRows ==
    /\ live = {}
    /\ runStatus = "running"
    /\ row' = [s \in Slots |->
                 IF row[s] \in {"pending", "running"} THEN "failed"
                                                      ELSE row[s]]
    /\ UNCHANGED <<runStatus, live>>

FailRun ==
    /\ live = {}
    /\ runStatus = "running"
    /\ \A s \in Slots : row[s] \in Settled \cup {"none"}
    /\ runStatus' = "failed"
    /\ UNCHANGED <<row, live>>

LNext ==
    \/ Open
    \/ \E s \in Slots :
        \/ Refuse(s)
        \/ Admit(s)
        \/ Attempt(s)
        \/ Begin(s)
        \/ \E outcome \in Outcomes : Settle(s, outcome)
        \/ Retire(s)
    \/ Reopen
    \/ \E status \in Verdicts : Close(status)
    \/ Die
    \/ FailRows
    \/ FailRun

LSpec == LInit /\ [][LNext]_lvars
=============================================================================
