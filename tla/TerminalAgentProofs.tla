-------------------------- MODULE TerminalAgentProofs --------------------------
(***************************************************************************)
(* Proofs about agent turns on a terminal, for any number of turns,        *)
(* batches, decisions, children of the PTY and keystrokes into them.       *)
(***************************************************************************)
EXTENDS TerminalAgent, SequenceTheorems, TLAPS

USE LeasesAssumption, AgentAssumption

\* The binding is that of the child in the map, and while a child is being
\* spawned there is no lease that could be taken for its own.
ChildInv ==
    /\ binding # None => binding.id.gen = child /\ pty \in {"alive", "dead"}
    /\ keeper = "spawn" => pty = "absent" /\ \A l \in Leases : ~Active(l)
    /\ LeaseFitsChild

\* An approval, and one on its way, is one that was pressed and not yet used.
FixInv ==
    /\ FixesAreApproved
    /\ ApprovalFitsReview
    /\ \A l \in Leases : approved[l] # None => credit[l][approved[l]] >= 1
    /\ deciding # None =>
          /\ approved[deciding[1]] = None
          /\ credit[deciding[1]][deciding[2]] >= 1

IInv == TypeOK /\ ChildInv /\ FixInv /\ RevokedHoldsNoCapture

\* The queue of decisions with one taken from it
LEMMA ResumeTail ==
    ASSUME NEW S, NEW s \in Seq(S), s # <<>>
    PROVE  Tail(s) \in Seq(S)
  BY HeadTailProperties

\* The queue with one more
LEMMA ResumeAppend ==
    ASSUME NEW S, NEW s \in Seq(S), NEW e \in S
    PROVE  Append(s, e) \in Seq(S)
  BY AppendProperties

\* A revocation keeps the types of the leases.
LEMMA MarkedTyped ==
    ASSUME LeasesTypeOK, NEW S
    PROVE  Marked(S) \in [Leases -> LeaseRecords]
  BY DEF LeasesTypeOK, Marked, Unrevoked, LeaseRecords

\* What revoke_for_pty assigns
LEMMA RevokedTyped ==
    ASSUME LeasesTypeOK, RevokeForPty
    PROVE  /\ lease' \in [Leases -> LeaseRecords]
           /\ binding' \in {None} \cup [id : Identities, auth : BOOLEAN]
           /\ capture' = None
<1>1. lease' \in [Leases -> LeaseRecords]
  BY MarkedTyped DEF RevokeForPty
<1>2. binding' \in {None} \cup [id : Identities, auth : BOOLEAN]
  BY DEF RevokeForPty, LeasesTypeOK, Identities
<1>3. QED
  BY <1>1, <1>2 DEF RevokeForPty, EndCapture

\* Every step keeps the types of the leases.
LEMMA LeasesTypeKeeps ==
    ASSUME LeasesTypeOK, [Next]_vars
    PROVE  LeasesTypeOK'
<1>1. CASE Takeover
  BY <1>1, RevokedTyped DEF Takeover, LeasesTypeOK, Removers, leaseVars,
         turnVars, fixVars
<1>2. CASE KillBegins
  BY <1>2, RevokedTyped DEF KillBegins, LeasesTypeOK, Removers, leaseVars,
         turnVars, fixVars
<1>3. CASE KillEnds
  BY <1>3 DEF KillEnds, LeasesTypeOK, Removers, leaseVars, turnVars, fixVars
<1>4. CASE SpawnBegins
  BY <1>4, RevokedTyped DEF SpawnBegins, LeasesTypeOK, Removers, leaseVars,
         turnVars, fixVars
<1>5. CASE SpawnEnds
  BY <1>5 DEF SpawnEnds, Identities, LeasesTypeOK, Removers, leaseVars,
         turnVars, fixVars
<1>6. CASE Authenticated
  BY <1>6 DEF Authenticated, Identities, LeasesTypeOK, Removers, leaseVars,
         turnVars, fixVars
<1>7. CASE AuthFails
  BY <1>7 DEF AuthFails, LeasesTypeOK, Removers, leaseVars, turnVars, fixVars
<1>8. CASE ChildDies
  BY <1>8 DEF ChildDies, LeasesTypeOK, Removers, leaseVars, turnVars, fixVars
<1>9. CASE ExitSeen
  BY <1>9, MarkedTyped DEF ExitSeen, EndCapture, LeasesTypeOK, Removers,
         leaseVars, turnVars, fixVars
<1>10. ASSUME NEW l \in Leases, Expire(l)
       PROVE  LeasesTypeOK'
  BY <1>10 DEF Expire, LeaseRecords, LeasesTypeOK, Removers, leaseVars,
         turnVars, fixVars
<1>11. ASSUME NEW l \in Leases, Begin(l)
       PROVE  LeasesTypeOK'
  BY <1>11 DEF Begin, At, Return, EndCapture, Calls, Idle, LeasesTypeOK,
         Removers, leaseVars, turnVars, fixVars
<1>12. ASSUME NEW l \in Leases, Ends(l)
       PROVE  LeasesTypeOK'
  BY <1>12 DEF Ends, EndCapture, Return, Calls, Idle, LeasesTypeOK, Removers,
         leaseVars, turnVars, fixVars
<1>13. ASSUME NEW l \in Leases, PagerRefused(l)
       PROVE  LeasesTypeOK'
  BY <1>13 DEF PagerRefused, At, Calls, Idle, LeasesTypeOK, Removers,
         leaseVars, turnVars, fixVars
<1>14. ASSUME NEW l \in Leases, Asked(l)
       PROVE  LeasesTypeOK'
  BY <1>14, MarkedTyped DEF Asked, GiveUp, At, Calls, LeasesTypeOK, Removers,
         leaseVars, turnVars, fixVars
<1>15. ASSUME NEW l \in Leases, Cut(l)
       PROVE  LeasesTypeOK'
  BY <1>15, MarkedTyped DEF Cut, GiveUp, At, Calls, LeasesTypeOK, Removers,
         leaseVars, turnVars, fixVars
<1>16. ASSUME NEW l \in Leases, TimedOut(l)
       PROVE  LeasesTypeOK'
  BY <1>16 DEF TimedOut, At, EndCapture, Calls, Idle, LeasesTypeOK, Removers,
         leaseVars, turnVars, fixVars
<1>17. ASSUME NEW l \in Leases, RevokeLate(l)
       PROVE  LeasesTypeOK'
  BY <1>17, MarkedTyped DEF RevokeLate, At, Calls, LeasesTypeOK, Removers,
         leaseVars, turnVars, fixVars
<1>18. ASSUME NEW l \in Leases, Drop(l)
       PROVE  LeasesTypeOK'
  BY <1>18 DEF Drop, At, Return, EndCapture, Calls, Idle, LeasesTypeOK,
         Removers, leaseVars, turnVars, fixVars
<1>19. ASSUME NEW l \in Leases, Abandoned(l)
       PROVE  LeasesTypeOK'
  BY <1>19 DEF Abandoned, Return, Calls, Idle, LeasesTypeOK, Removers,
         leaseVars, turnVars, fixVars
<1>20. CASE SidecarDies
  BY <1>20 DEF SidecarDies, LeasesTypeOK, Removers, leaseVars, turnVars,
         fixVars
<1>21. CASE Confirm
  BY <1>21 DEF Confirm, LeasesTypeOK, Removers, leaseVars, turnVars, fixVars
<1>22. ASSUME NEW l \in Leases, ValidateTurn(l)
       PROVE  LeasesTypeOK'
  BY <1>22 DEF ValidateTurn, Attach, IssueRefused, LeaseRecords, Identities,
         NoOne, LeasesTypeOK, Removers, leaseVars, turnVars, fixVars
<1>23. ASSUME NEW l \in Leases, IssueTurn(l)
       PROVE  LeasesTypeOK'
  BY <1>23 DEF IssueTurn, Issue, LeaseRecords, LeasesTypeOK, Removers,
         leaseVars, turnVars, fixVars
<1>24. ASSUME NEW l \in Leases, ServeRun(l)
       PROVE  LeasesTypeOK'
  BY <1>24 DEF ServeRun, LeasesTypeOK, Removers, leaseVars, turnVars, fixVars
<1>25. ASSUME NEW l \in Leases, ServeResume(l)
       PROVE  LeasesTypeOK'
  BY <1>25, MarkedTyped DEF ServeResume, RevokeForTurn, LeasesTypeOK,
         Removers, leaseVars, turnVars, fixVars
<1>26. ASSUME NEW l \in Leases, EndTurn(l)
       PROVE  LeasesTypeOK'
  BY <1>26 DEF EndTurn, LeasesTypeOK, Removers, leaseVars, turnVars, fixVars
<1>27. ASSUME NEW l \in Leases, Finish(l)
       PROVE  LeasesTypeOK'
  BY <1>27, MarkedTyped DEF Finish, RevokeForTurn, Revoke, LeasesTypeOK,
         Removers, leaseVars, turnVars, fixVars
<1>28. ASSUME NEW l \in Leases, BeginInvestigation(l)
       PROVE  LeasesTypeOK'
  BY <1>28 DEF BeginInvestigation, LeasesTypeOK, Removers, leaseVars,
         turnVars, fixVars
<1>29. ASSUME NEW l \in Leases, Diagnose(l)
       PROVE  LeasesTypeOK'
  BY <1>29 DEF Diagnose, Calls, Idle, LeasesTypeOK, Removers, leaseVars,
         turnVars, fixVars
<1>30. ASSUME NEW l \in Leases, EditShown(l)
       PROVE  LeasesTypeOK'
  BY <1>30 DEF EditShown, LeasesTypeOK, Removers, leaseVars, turnVars, fixVars
<1>31. ASSUME NEW l \in Leases, Approve(l)
       PROVE  LeasesTypeOK'
  BY <1>31 DEF Approve, Preview, LeasesTypeOK, Removers, leaseVars, turnVars,
         fixVars
<1>32. ASSUME NEW l \in Leases, Reject(l)
       PROVE  LeasesTypeOK'
  BY <1>32, MarkedTyped DEF Reject, Revoke, LeasesTypeOK, Removers, leaseVars,
         turnVars, fixVars
<1>33. ASSUME NEW l \in Leases, Stop(l)
       PROVE  LeasesTypeOK'
  BY <1>33, MarkedTyped DEF Stop, Revoke, LeasesTypeOK, Removers, leaseVars,
         turnVars, fixVars
<1>34. ASSUME NEW l \in Leases, NEW r \in Removers, Remove(l, r)
       PROVE  LeasesTypeOK'
  BY <1>34 DEF Remove, RemoveCapture, EndCapture, LeasesTypeOK, Removers,
         leaseVars, turnVars, fixVars
<1>35. ASSUME NEW l \in Leases, NEW b \in Batches, Propose(l, b)
       PROVE  LeasesTypeOK'
  BY <1>35 DEF Propose, Preview, LeasesTypeOK, Removers, leaseVars, turnVars,
         fixVars
<1>36. ASSUME NEW l \in Leases, NEW b \in Batches, ExecuteFix(l, b)
       PROVE  LeasesTypeOK'
  BY <1>36 DEF ExecuteFix, Calls, Idle, LeasesTypeOK, Removers, leaseVars,
         turnVars, fixVars
<1>37. ASSUME NEW l \in Leases, NEW b \in Batches, Edit(l, b)
       PROVE  LeasesTypeOK'
  BY <1>37 DEF Edit, Preview, LeasesTypeOK, Removers, leaseVars, turnVars,
         fixVars
<1>38. CASE UNCHANGED vars
  BY <1>38 DEF vars, LeasesTypeOK, Removers, leaseVars, turnVars, fixVars
<1>39. QED
  BY <1>1, <1>2, <1>3, <1>4, <1>5, <1>6, <1>7, <1>8, <1>9, <1>10, <1>11,
         <1>12, <1>13, <1>14, <1>15, <1>16, <1>17, <1>18, <1>19, <1>20, <1>21,
         <1>22, <1>23, <1>24, <1>25, <1>26, <1>27, <1>28, <1>29, <1>30, <1>31,
         <1>32, <1>33, <1>34, <1>35, <1>36, <1>37, <1>38 DEF Next, LeaseStep,
         Operate, Execute

\* Every step keeps the types of the turns.
LEMMA TurnsTypeKeeps ==
    ASSUME TurnsTypeOK, [Next]_vars
    PROVE  TurnsTypeOK'
<1>1. CASE LeaseStep
  BY <1>1 DEF LeaseStep, TurnsTypeOK, leaseVars, turnVars, fixVars
<1>2. CASE SidecarDies
  BY <1>2 DEF SidecarDies, TurnsTypeOK, leaseVars, turnVars, fixVars
<1>3. CASE Confirm
  BY <1>3 DEF Confirm, TurnsTypeOK, leaseVars, turnVars, fixVars
<1>4. ASSUME NEW l \in Leases, ValidateTurn(l)
       PROVE  TurnsTypeOK'
  BY <1>4 DEF ValidateTurn, Attach, IssueRefused, TurnsTypeOK, leaseVars,
         turnVars, fixVars
<1>5. ASSUME NEW l \in Leases, IssueTurn(l)
       PROVE  TurnsTypeOK'
  BY <1>5 DEF IssueTurn, Issue, TurnsTypeOK, leaseVars, turnVars, fixVars
<1>6. ASSUME NEW l \in Leases, ServeRun(l)
       PROVE  TurnsTypeOK'
  BY <1>6 DEF ServeRun, TurnsTypeOK, leaseVars, turnVars, fixVars
<1>7. ASSUME NEW l \in Leases, ServeResume(l)
       PROVE  TurnsTypeOK'
  BY <1>7 DEF ServeResume, RevokeForTurn, Marked, Unrevoked, TurnsTypeOK,
         leaseVars, turnVars, fixVars
<1>8. ASSUME NEW l \in Leases, EndTurn(l)
       PROVE  TurnsTypeOK'
  BY <1>8 DEF EndTurn, TurnsTypeOK, leaseVars, turnVars, fixVars
<1>9. ASSUME NEW l \in Leases, Finish(l)
       PROVE  TurnsTypeOK'
  BY <1>9 DEF Finish, RevokeForTurn, Revoke, Marked, Unrevoked, TurnsTypeOK,
         leaseVars, turnVars, fixVars
<1>10. ASSUME NEW l \in Leases, BeginInvestigation(l)
       PROVE  TurnsTypeOK'
  BY <1>10 DEF BeginInvestigation, TurnsTypeOK, leaseVars, turnVars, fixVars
<1>11. ASSUME NEW l \in Leases, Diagnose(l)
       PROVE  TurnsTypeOK'
  BY <1>11 DEF Diagnose, TurnsTypeOK, leaseVars, turnVars, fixVars
<1>12. ASSUME NEW l \in Leases, EditShown(l)
       PROVE  TurnsTypeOK'
  BY <1>12 DEF EditShown, TurnsTypeOK, leaseVars, turnVars, fixVars
<1>13. ASSUME NEW l \in Leases, Approve(l)
       PROVE  TurnsTypeOK'
  BY <1>13 DEF Approve, Preview, TurnsTypeOK, leaseVars, turnVars, fixVars
<1>14. ASSUME NEW l \in Leases, Reject(l)
       PROVE  TurnsTypeOK'
  BY <1>14 DEF Reject, Revoke, Marked, Unrevoked, TurnsTypeOK, leaseVars,
         turnVars, fixVars
<1>15. ASSUME NEW l \in Leases, Stop(l)
       PROVE  TurnsTypeOK'
  BY <1>15 DEF Stop, Revoke, Marked, Unrevoked, TurnsTypeOK, leaseVars,
         turnVars, fixVars
<1>16. ASSUME NEW l \in Leases, NEW r \in Removers, Remove(l, r)
       PROVE  TurnsTypeOK'
  BY <1>16 DEF Remove, RemoveCapture, EndCapture, TurnsTypeOK, leaseVars,
         turnVars, fixVars
<1>17. ASSUME NEW l \in Leases, NEW b \in Batches, Propose(l, b)
       PROVE  TurnsTypeOK'
  BY <1>17 DEF Propose, Preview, TurnsTypeOK, leaseVars, turnVars, fixVars
<1>18. ASSUME NEW l \in Leases, NEW b \in Batches, ExecuteFix(l, b)
       PROVE  TurnsTypeOK'
  BY <1>18 DEF ExecuteFix, TurnsTypeOK, leaseVars, turnVars, fixVars
<1>19. ASSUME NEW l \in Leases, NEW b \in Batches, Edit(l, b)
       PROVE  TurnsTypeOK'
  BY <1>19 DEF Edit, Preview, TurnsTypeOK, leaseVars, turnVars, fixVars
<1>20. CASE UNCHANGED vars
  BY <1>20 DEF vars, TurnsTypeOK, leaseVars, turnVars, fixVars
<1>21. QED
  BY <1>1, <1>2, <1>3, <1>4, <1>5, <1>6, <1>7, <1>8, <1>9, <1>10, <1>11,
         <1>12, <1>13, <1>14, <1>15, <1>16, <1>17, <1>18, <1>19, <1>20 DEF
         Next

\* Every step keeps the types of the fixes.
LEMMA FixesTypeKeeps ==
    ASSUME FixesTypeOK, [Next]_vars
    PROVE  FixesTypeOK'
<1>1. CASE LeaseStep
  BY <1>1 DEF LeaseStep, FixesTypeOK, leaseVars, turnVars, fixVars
<1>2. CASE SidecarDies
  BY <1>2 DEF SidecarDies, FixesTypeOK, leaseVars, turnVars, fixVars
<1>3. CASE Confirm
  <2>1. PICK l \in Leases, b \in Batches : deciding = <<l, b>>
    BY <1>3 DEF Confirm, FixesTypeOK
  <2>2. Append(resume[l], b) \in Seq(Batches \cup {Denied})
    BY ResumeAppend DEF FixesTypeOK
  <2>3. /\ deciding' = None
        /\ UNCHANGED <<pending, panel, edit, presses, credit>>
    BY <1>3 DEF Confirm
  <2>4. approved' \in [Leases -> Batches \cup {None}]
    BY <1>3, <2>1 DEF Confirm, FixesTypeOK
  <2>5. resume' = resume \/ resume' = [resume EXCEPT ![l] = Append(resume[l], b)]
    BY <1>3, <2>1 DEF Confirm
  <2>6. resume' \in [Leases -> Seq(Batches \cup {Denied})]
    BY <2>2, <2>5 DEF FixesTypeOK
  <2>7. QED
    BY <2>3, <2>4, <2>6 DEF FixesTypeOK
<1>4. ASSUME NEW l \in Leases, ValidateTurn(l)
       PROVE  FixesTypeOK'
  BY <1>4 DEF ValidateTurn, Attach, IssueRefused, FixesTypeOK, leaseVars,
         turnVars, fixVars
<1>5. ASSUME NEW l \in Leases, IssueTurn(l)
       PROVE  FixesTypeOK'
  BY <1>5 DEF IssueTurn, Issue, FixesTypeOK, leaseVars, turnVars, fixVars
<1>6. ASSUME NEW l \in Leases, ServeRun(l)
       PROVE  FixesTypeOK'
  BY <1>6 DEF ServeRun, FixesTypeOK, leaseVars, turnVars, fixVars
<1>7. ASSUME NEW l \in Leases, ServeResume(l)
       PROVE  FixesTypeOK'
  BY <1>7, ResumeTail DEF ServeResume, RevokeForTurn, Marked, Unrevoked,
         FixesTypeOK, leaseVars, turnVars, fixVars
<1>8. ASSUME NEW l \in Leases, EndTurn(l)
       PROVE  FixesTypeOK'
  BY <1>8 DEF EndTurn, FixesTypeOK, leaseVars, turnVars, fixVars
<1>9. ASSUME NEW l \in Leases, Finish(l)
       PROVE  FixesTypeOK'
  BY <1>9 DEF Finish, RevokeForTurn, Revoke, Marked, Unrevoked, FixesTypeOK,
         leaseVars, turnVars, fixVars
<1>10. ASSUME NEW l \in Leases, BeginInvestigation(l)
       PROVE  FixesTypeOK'
  BY <1>10 DEF BeginInvestigation, FixesTypeOK, leaseVars, turnVars, fixVars
<1>11. ASSUME NEW l \in Leases, Diagnose(l)
       PROVE  FixesTypeOK'
  BY <1>11 DEF Diagnose, FixesTypeOK, leaseVars, turnVars, fixVars
<1>12. ASSUME NEW l \in Leases, EditShown(l)
       PROVE  FixesTypeOK'
  BY <1>12 DEF EditShown, FixesTypeOK, leaseVars, turnVars, fixVars
<1>13. ASSUME NEW l \in Leases, Approve(l)
       PROVE  FixesTypeOK'
  <2>1. credit' \in [Leases -> [Batches -> Int]]
    BY <1>13 DEF Approve, FixesTypeOK
  <2>2. /\ pending' \in [Leases -> Batches \cup {None}]
        /\ approved' \in [Leases -> Batches \cup {None}]
    BY <1>13 DEF Approve, Preview, FixesTypeOK
  <2>3. /\ panel' \in [Leases -> Batches \cup {None}]
        /\ presses' \in [Leases -> 0 .. Presses]
        /\ deciding' \in {None} \cup (Leases \X Batches)
        /\ UNCHANGED <<edit, resume>>
    BY <1>13 DEF Approve, FixesTypeOK
  <2>4. QED
    BY <2>1, <2>2, <2>3 DEF FixesTypeOK
<1>14. ASSUME NEW l \in Leases, Reject(l)
       PROVE  FixesTypeOK'
  BY <1>14 DEF Reject, Revoke, Marked, Unrevoked, FixesTypeOK, leaseVars,
         turnVars, fixVars
<1>15. ASSUME NEW l \in Leases, Stop(l)
       PROVE  FixesTypeOK'
  BY <1>15 DEF Stop, Revoke, Marked, Unrevoked, FixesTypeOK, leaseVars,
         turnVars, fixVars
<1>16. ASSUME NEW l \in Leases, NEW r \in Removers, Remove(l, r)
       PROVE  FixesTypeOK'
  BY <1>16, ResumeAppend DEF Remove, RemoveCapture, EndCapture, FixesTypeOK,
         leaseVars, turnVars, fixVars
<1>17. ASSUME NEW l \in Leases, NEW b \in Batches, Propose(l, b)
       PROVE  FixesTypeOK'
  BY <1>17 DEF Propose, Preview, FixesTypeOK, leaseVars, turnVars, fixVars
<1>18. ASSUME NEW l \in Leases, NEW b \in Batches, ExecuteFix(l, b)
       PROVE  FixesTypeOK'
  <2>1. credit' \in [Leases -> [Batches -> Int]]
    <3>1. CASE approved[l] = b
      <4>1. credit' = [credit EXCEPT ![l][b] = credit[l][b] - 1]
        BY <1>18, <3>1, Zenon DEF ExecuteFix
      <4>2. QED
        BY <4>1 DEF FixesTypeOK
    <3>2. CASE approved[l] # b
      BY <1>18, <3>2 DEF ExecuteFix, FixesTypeOK
    <3>3. QED
      BY <3>1, <3>2
  <2>2. approved' \in [Leases -> Batches \cup {None}]
    BY <1>18 DEF ExecuteFix, FixesTypeOK
  <2>3. UNCHANGED <<pending, panel, edit, deciding, resume, presses>>
    BY <1>18 DEF ExecuteFix
  <2>4. QED
    BY <2>1, <2>2, <2>3 DEF FixesTypeOK
<1>19. ASSUME NEW l \in Leases, NEW b \in Batches, Edit(l, b)
       PROVE  FixesTypeOK'
  BY <1>19 DEF Edit, Preview, FixesTypeOK, leaseVars, turnVars, fixVars
<1>20. CASE UNCHANGED vars
  BY <1>20 DEF vars, FixesTypeOK, leaseVars, turnVars, fixVars
<1>21. QED
  BY <1>1, <1>2, <1>3, <1>4, <1>5, <1>6, <1>7, <1>8, <1>9, <1>10, <1>11,
         <1>12, <1>13, <1>14, <1>15, <1>16, <1>17, <1>18, <1>19, <1>20 DEF
         Next

\* Every step keeps leases and child together.
LEMMA ChildKeeps ==
    ASSUME LeasesTypeOK, ChildInv, [Next]_vars
    PROVE  ChildInv'
<1>1. CASE Takeover
  BY <1>1 DEF Takeover, RevokeForPty, Marked, Unrevoked, EndCapture, ChildInv,
         LeaseFitsChild, Active, LeasesTypeOK, LeaseRecords, Identities,
         leaseVars, turnVars, fixVars
<1>2. CASE KillBegins
  BY <1>2 DEF KillBegins, RevokeForPty, Marked, Unrevoked, EndCapture,
         ChildInv, LeaseFitsChild, Active, LeasesTypeOK, LeaseRecords,
         Identities, leaseVars, turnVars, fixVars
<1>3. CASE KillEnds
  BY <1>3 DEF KillEnds, ChildInv, LeaseFitsChild, Active, LeasesTypeOK,
         LeaseRecords, Identities, leaseVars, turnVars, fixVars
<1>4. CASE SpawnBegins
  BY <1>4 DEF SpawnBegins, RevokeForPty, Marked, Unrevoked, EndCapture,
         ChildInv, LeaseFitsChild, Active, LeasesTypeOK, LeaseRecords,
         Identities, leaseVars, turnVars, fixVars
<1>5. CASE SpawnEnds
  BY <1>5 DEF SpawnEnds, ChildInv, LeaseFitsChild, Active, LeasesTypeOK,
         LeaseRecords, Identities, leaseVars, turnVars, fixVars
<1>6. CASE Authenticated
  BY <1>6 DEF Authenticated, ChildInv, LeaseFitsChild, Active, LeasesTypeOK,
         LeaseRecords, Identities, leaseVars, turnVars, fixVars
<1>7. CASE AuthFails
  BY <1>7 DEF AuthFails, ChildInv, LeaseFitsChild, Active, LeasesTypeOK,
         LeaseRecords, Identities, leaseVars, turnVars, fixVars
<1>8. CASE ChildDies
  BY <1>8 DEF ChildDies, ChildInv, LeaseFitsChild, Active, LeasesTypeOK,
         LeaseRecords, Identities, leaseVars, turnVars, fixVars
<1>9. CASE ExitSeen
  BY <1>9 DEF ExitSeen, Marked, Unrevoked, EndCapture, ChildInv,
         LeaseFitsChild, Active, LeasesTypeOK, LeaseRecords, Identities,
         leaseVars, turnVars, fixVars
<1>10. ASSUME NEW l \in Leases, Expire(l)
       PROVE  ChildInv'
  BY <1>10 DEF Expire, ChildInv, LeaseFitsChild, Active, LeasesTypeOK,
         LeaseRecords, Identities, leaseVars, turnVars, fixVars
<1>11. ASSUME NEW l \in Leases, Begin(l)
       PROVE  ChildInv'
  BY <1>11 DEF Begin, At, Return, EndCapture, ChildInv, LeaseFitsChild,
         Active, LeasesTypeOK, LeaseRecords, Identities, leaseVars, turnVars,
         fixVars
<1>12. ASSUME NEW l \in Leases, Ends(l)
       PROVE  ChildInv'
  BY <1>12 DEF Ends, EndCapture, Return, ChildInv, LeaseFitsChild, Active,
         LeasesTypeOK, LeaseRecords, Identities, leaseVars, turnVars, fixVars
<1>13. ASSUME NEW l \in Leases, PagerRefused(l)
       PROVE  ChildInv'
  BY <1>13 DEF PagerRefused, At, ChildInv, LeaseFitsChild, Active,
         LeasesTypeOK, LeaseRecords, Identities, leaseVars, turnVars, fixVars
<1>14. ASSUME NEW l \in Leases, Asked(l)
       PROVE  ChildInv'
  BY <1>14 DEF Asked, GiveUp, Marked, Unrevoked, At, ChildInv, LeaseFitsChild,
         Active, LeasesTypeOK, LeaseRecords, Identities, leaseVars, turnVars,
         fixVars
<1>15. ASSUME NEW l \in Leases, Cut(l)
       PROVE  ChildInv'
  BY <1>15 DEF Cut, GiveUp, Marked, Unrevoked, At, ChildInv, LeaseFitsChild,
         Active, LeasesTypeOK, LeaseRecords, Identities, leaseVars, turnVars,
         fixVars
<1>16. ASSUME NEW l \in Leases, TimedOut(l)
       PROVE  ChildInv'
  BY <1>16 DEF TimedOut, At, EndCapture, ChildInv, LeaseFitsChild, Active,
         LeasesTypeOK, LeaseRecords, Identities, leaseVars, turnVars, fixVars
<1>17. ASSUME NEW l \in Leases, RevokeLate(l)
       PROVE  ChildInv'
  BY <1>17 DEF RevokeLate, Marked, Unrevoked, At, ChildInv, LeaseFitsChild,
         Active, LeasesTypeOK, LeaseRecords, Identities, leaseVars, turnVars,
         fixVars
<1>18. ASSUME NEW l \in Leases, Drop(l)
       PROVE  ChildInv'
  BY <1>18 DEF Drop, At, Return, EndCapture, ChildInv, LeaseFitsChild, Active,
         LeasesTypeOK, LeaseRecords, Identities, leaseVars, turnVars, fixVars
<1>19. ASSUME NEW l \in Leases, Abandoned(l)
       PROVE  ChildInv'
  BY <1>19 DEF Abandoned, Return, ChildInv, LeaseFitsChild, Active,
         LeasesTypeOK, LeaseRecords, Identities, leaseVars, turnVars, fixVars
<1>20. CASE SidecarDies
  BY <1>20 DEF SidecarDies, ChildInv, LeaseFitsChild, Active, LeasesTypeOK,
         LeaseRecords, Identities, leaseVars, turnVars, fixVars
<1>21. CASE Confirm
  BY <1>21 DEF Confirm, ChildInv, LeaseFitsChild, Active, LeasesTypeOK,
         LeaseRecords, Identities, leaseVars, turnVars, fixVars
<1>22. ASSUME NEW l \in Leases, ValidateTurn(l)
       PROVE  ChildInv'
  BY <1>22 DEF ValidateTurn, Attach, IssueRefused, ChildInv, LeaseFitsChild,
         Active, LeasesTypeOK, LeaseRecords, Identities, leaseVars, turnVars,
         fixVars
<1>23. ASSUME NEW l \in Leases, IssueTurn(l)
       PROVE  ChildInv'
  BY <1>23 DEF IssueTurn, Issue, Is, ChildInv, LeaseFitsChild, Active,
         LeasesTypeOK, LeaseRecords, Identities, leaseVars, turnVars, fixVars
<1>24. ASSUME NEW l \in Leases, ServeRun(l)
       PROVE  ChildInv'
  BY <1>24 DEF ServeRun, ChildInv, LeaseFitsChild, Active, LeasesTypeOK,
         LeaseRecords, Identities, leaseVars, turnVars, fixVars
<1>25. ASSUME NEW l \in Leases, ServeResume(l)
       PROVE  ChildInv'
  <2>1. /\ UNCHANGED <<pty, child, binding, keeper>>
        /\ lease' = lease \/ lease' = Marked({l})
    BY <1>25 DEF ServeResume, RevokeForTurn, leaseVars
  <2>2. QED
    BY <2>1 DEF Marked, Unrevoked, ChildInv, LeaseFitsChild, Active, LeasesTypeOK,
                LeaseRecords, Identities
<1>26. ASSUME NEW l \in Leases, EndTurn(l)
       PROVE  ChildInv'
  BY <1>26 DEF EndTurn, ChildInv, LeaseFitsChild, Active, LeasesTypeOK,
         LeaseRecords, Identities, leaseVars, turnVars, fixVars
<1>27. ASSUME NEW l \in Leases, Finish(l)
       PROVE  ChildInv'
  <2>1. /\ UNCHANGED <<pty, child, binding, keeper>>
        /\ lease' = lease \/ lease' = Marked({l})
    BY <1>27 DEF Finish, RevokeForTurn, Revoke, leaseVars
  <2>2. QED
    BY <2>1 DEF Marked, Unrevoked, ChildInv, LeaseFitsChild, Active, LeasesTypeOK,
                LeaseRecords, Identities
<1>28. ASSUME NEW l \in Leases, BeginInvestigation(l)
       PROVE  ChildInv'
  BY <1>28 DEF BeginInvestigation, ChildInv, LeaseFitsChild, Active,
         LeasesTypeOK, LeaseRecords, Identities, leaseVars, turnVars, fixVars
<1>29. ASSUME NEW l \in Leases, Diagnose(l)
       PROVE  ChildInv'
  BY <1>29 DEF Diagnose, ChildInv, LeaseFitsChild, Active, LeasesTypeOK,
         LeaseRecords, Identities, leaseVars, turnVars, fixVars
<1>30. ASSUME NEW l \in Leases, EditShown(l)
       PROVE  ChildInv'
  BY <1>30 DEF EditShown, ChildInv, LeaseFitsChild, Active, LeasesTypeOK,
         LeaseRecords, Identities, leaseVars, turnVars, fixVars
<1>31. ASSUME NEW l \in Leases, Approve(l)
       PROVE  ChildInv'
  BY <1>31 DEF Approve, Preview, ChildInv, LeaseFitsChild, Active,
         LeasesTypeOK, LeaseRecords, Identities, leaseVars, turnVars, fixVars
<1>32. ASSUME NEW l \in Leases, Reject(l)
       PROVE  ChildInv'
  BY <1>32 DEF Reject, Revoke, Marked, Unrevoked, ChildInv, LeaseFitsChild,
         Active, LeasesTypeOK, LeaseRecords, Identities, leaseVars, turnVars,
         fixVars
<1>33. ASSUME NEW l \in Leases, Stop(l)
       PROVE  ChildInv'
  BY <1>33 DEF Stop, Revoke, Marked, Unrevoked, ChildInv, LeaseFitsChild,
         Active, LeasesTypeOK, LeaseRecords, Identities, leaseVars, turnVars,
         fixVars
<1>34. ASSUME NEW l \in Leases, NEW r \in Removers, Remove(l, r)
       PROVE  ChildInv'
  BY <1>34 DEF Remove, RemoveCapture, EndCapture, ChildInv, LeaseFitsChild,
         Active, LeasesTypeOK, LeaseRecords, Identities, leaseVars, turnVars,
         fixVars
<1>35. ASSUME NEW l \in Leases, NEW b \in Batches, Propose(l, b)
       PROVE  ChildInv'
  BY <1>35 DEF Propose, Preview, ChildInv, LeaseFitsChild, Active,
         LeasesTypeOK, LeaseRecords, Identities, leaseVars, turnVars, fixVars
<1>36. ASSUME NEW l \in Leases, NEW b \in Batches, ExecuteFix(l, b)
       PROVE  ChildInv'
  BY <1>36 DEF ExecuteFix, ChildInv, LeaseFitsChild, Active, LeasesTypeOK,
         LeaseRecords, Identities, leaseVars, turnVars, fixVars
<1>37. ASSUME NEW l \in Leases, NEW b \in Batches, Edit(l, b)
       PROVE  ChildInv'
  BY <1>37 DEF Edit, Preview, ChildInv, LeaseFitsChild, Active, LeasesTypeOK,
         LeaseRecords, Identities, leaseVars, turnVars, fixVars
<1>38. CASE UNCHANGED vars
  BY <1>38 DEF vars, ChildInv, LeaseFitsChild, Active, LeasesTypeOK,
         LeaseRecords, Identities, leaseVars, turnVars, fixVars
<1>39. QED
  BY <1>1, <1>2, <1>3, <1>4, <1>5, <1>6, <1>7, <1>8, <1>9, <1>10, <1>11,
         <1>12, <1>13, <1>14, <1>15, <1>16, <1>17, <1>18, <1>19, <1>20, <1>21,
         <1>22, <1>23, <1>24, <1>25, <1>26, <1>27, <1>28, <1>29, <1>30, <1>31,
         <1>32, <1>33, <1>34, <1>35, <1>36, <1>37, <1>38 DEF Next, LeaseStep,
         Operate, Execute

\* Every step keeps approvals and presses together.
LEMMA FixKeeps ==
    ASSUME FixesTypeOK, FixInv, [Next]_vars
    PROVE  FixInv'
<1>1. CASE LeaseStep
  BY <1>1 DEF LeaseStep, FixInv, FixesAreApproved, ApprovalFitsReview,
         FixesTypeOK, leaseVars, turnVars, fixVars
<1>2. CASE SidecarDies
  BY <1>2 DEF SidecarDies, FixInv, FixesAreApproved, ApprovalFitsReview,
         FixesTypeOK, leaseVars, turnVars, fixVars
<1>3. CASE Confirm
  <2>1. PICK l \in Leases, b \in Batches : deciding = <<l, b>>
    BY <1>3 DEF Confirm, FixesTypeOK
  <2>2. /\ approved[l] = None
        /\ credit[l][b] >= 1
    BY <1>3, <2>1 DEF Confirm, FixInv
  <2>3. UNCHANGED <<credit, pending>> /\ deciding' = None
    BY <1>3 DEF Confirm, turnVars
  <2>4. \/ approved' = approved
        \/ approved' = [approved EXCEPT ![l] = b] /\ pending[l] = b
    BY <1>3, <2>1 DEF Confirm
  <2>5. approved \in [Leases -> Batches \cup {None}]
    BY DEF FixesTypeOK
  <2>6. QED
    BY <2>2, <2>3, <2>4, <2>5 DEF FixInv, FixesAreApproved, ApprovalFitsReview
<1>4. ASSUME NEW l \in Leases, ValidateTurn(l)
       PROVE  FixInv'
  BY <1>4 DEF ValidateTurn, Attach, IssueRefused, FixInv, FixesAreApproved,
         ApprovalFitsReview, FixesTypeOK, leaseVars, turnVars, fixVars
<1>5. ASSUME NEW l \in Leases, IssueTurn(l)
       PROVE  FixInv'
  BY <1>5 DEF IssueTurn, Issue, FixInv, FixesAreApproved, ApprovalFitsReview,
         FixesTypeOK, leaseVars, turnVars, fixVars
<1>6. ASSUME NEW l \in Leases, ServeRun(l)
       PROVE  FixInv'
  BY <1>6 DEF ServeRun, FixInv, FixesAreApproved, ApprovalFitsReview,
         FixesTypeOK, leaseVars, turnVars, fixVars
<1>7. ASSUME NEW l \in Leases, ServeResume(l)
       PROVE  FixInv'
  BY <1>7 DEF ServeResume, RevokeForTurn, Marked, Unrevoked, FixInv,
         FixesAreApproved, ApprovalFitsReview, FixesTypeOK, leaseVars,
         turnVars, fixVars
<1>8. ASSUME NEW l \in Leases, EndTurn(l)
       PROVE  FixInv'
  BY <1>8 DEF EndTurn, FixInv, FixesAreApproved, ApprovalFitsReview,
         FixesTypeOK, leaseVars, turnVars, fixVars
<1>9. ASSUME NEW l \in Leases, Finish(l)
       PROVE  FixInv'
  BY <1>9 DEF Finish, RevokeForTurn, Revoke, Marked, Unrevoked, FixInv,
         FixesAreApproved, ApprovalFitsReview, FixesTypeOK, leaseVars,
         turnVars, fixVars
<1>10. ASSUME NEW l \in Leases, BeginInvestigation(l)
       PROVE  FixInv'
  BY <1>10 DEF BeginInvestigation, FixInv, FixesAreApproved,
         ApprovalFitsReview, FixesTypeOK, leaseVars, turnVars, fixVars
<1>11. ASSUME NEW l \in Leases, Diagnose(l)
       PROVE  FixInv'
  BY <1>11 DEF Diagnose, FixInv, FixesAreApproved, ApprovalFitsReview,
         FixesTypeOK, leaseVars, turnVars, fixVars
<1>12. ASSUME NEW l \in Leases, EditShown(l)
       PROVE  FixInv'
  BY <1>12 DEF EditShown, FixInv, FixesAreApproved, ApprovalFitsReview,
         FixesTypeOK, leaseVars, turnVars, fixVars
<1>13. ASSUME NEW l \in Leases, Approve(l)
       PROVE  FixInv'
  <2> DEFINE b == panel[l]
  <2>1. b \in Batches /\ deciding = None
    BY <1>13 DEF Approve, MainFree, FixesTypeOK
  <2>2. /\ credit' \in [Leases -> [Batches -> Int]]
        /\ \A k \in Leases, c \in Batches :
              credit'[k][c] = IF k = l /\ c = b THEN credit[k][c] + 1 ELSE credit[k][c]
    BY <1>13, <2>1 DEF Approve, FixesTypeOK
  <2>c. \A k \in Leases, c \in Batches : credit[k][c] \in Int /\ credit[k][c] >= 0
    BY DEF FixesTypeOK, FixInv, FixesAreApproved
  <2>3. /\ \A k \in Leases, c \in Batches : credit'[k][c] >= credit[k][c]
        /\ credit'[l][b] >= 1
    <3> HIDE DEF b
    <3>1. QED
      BY <2>1, <2>2, <2>c
  <2>4. CASE Active(l)
    <3>1. /\ approved' = [approved EXCEPT ![l] = None]
          /\ pending' = [pending EXCEPT ![l] = b]
          /\ deciding' = <<l, b>>
      BY <1>13, <2>4 DEF Approve, Preview
    <3>2. FixesAreApproved'
      BY <2>2, <2>3 DEF FixesTypeOK, FixInv, FixesAreApproved
    <3>3. ApprovalFitsReview'
      BY <3>1 DEF FixesTypeOK, FixInv, ApprovalFitsReview
    <3>4. \A k \in Leases : approved'[k] # None => credit'[k][approved'[k]] >= 1
      <4>1. SUFFICES ASSUME NEW k \in Leases, approved'[k] # None
                     PROVE  credit'[k][approved'[k]] >= 1
        OBVIOUS
      <4>2. approved'[k] = approved[k] /\ approved[k] \in Batches
        BY <3>1, <4>1 DEF FixesTypeOK
      <4>3. credit[k][approved[k]] >= 1 /\ credit'[k][approved[k]] >= credit[k][approved[k]]
        BY <2>3, <4>1, <4>2 DEF FixInv
      <4>4. credit[k][approved[k]] \in Int /\ credit'[k][approved[k]] \in Int
        BY <2>2, <4>2 DEF FixesTypeOK
      <4>5. QED
        BY <4>2, <4>3, <4>4
    <3>5. approved'[deciding'[1]] = None /\ credit'[deciding'[1]][deciding'[2]] >= 1
      BY <2>3, <3>1 DEF FixesTypeOK
    <3>6. QED
      BY <3>2, <3>3, <3>4, <3>5 DEF FixInv
  <2>5. CASE ~Active(l)
    <3>1. UNCHANGED <<approved, pending, deciding>>
      BY <1>13, <2>5 DEF Approve
    <3>2. \A k \in Leases : approved[k] # None => credit'[k][approved[k]] >= 1
      <4>1. SUFFICES ASSUME NEW k \in Leases, approved[k] # None
                     PROVE  credit'[k][approved[k]] >= 1
        OBVIOUS
      <4>2. approved[k] \in Batches
        BY <4>1 DEF FixesTypeOK
      <4>3. credit[k][approved[k]] >= 1 /\ credit'[k][approved[k]] >= credit[k][approved[k]]
        BY <2>3, <4>1, <4>2 DEF FixInv
      <4>4. credit[k][approved[k]] \in Int /\ credit'[k][approved[k]] \in Int
        BY <2>2, <4>2 DEF FixesTypeOK
      <4>5. QED
        BY <4>3, <4>4
    <3>3. FixesAreApproved'
      BY <2>2, <2>3 DEF FixesTypeOK, FixInv, FixesAreApproved
    <3>4. QED
      BY <2>1, <3>1, <3>2, <3>3 DEF FixInv, ApprovalFitsReview
  <2>6. QED
    BY <2>4, <2>5
<1>14. ASSUME NEW l \in Leases, Reject(l)
       PROVE  FixInv'
  BY <1>14 DEF Reject, Revoke, Marked, Unrevoked, FixInv, FixesAreApproved,
         ApprovalFitsReview, FixesTypeOK, leaseVars, turnVars, fixVars
<1>15. ASSUME NEW l \in Leases, Stop(l)
       PROVE  FixInv'
  BY <1>15 DEF Stop, Revoke, Marked, Unrevoked, FixInv, FixesAreApproved,
         ApprovalFitsReview, FixesTypeOK, leaseVars, turnVars, fixVars
<1>16. ASSUME NEW l \in Leases, NEW r \in Removers, Remove(l, r)
       PROVE  FixInv'
  BY <1>16 DEF Remove, RemoveCapture, EndCapture, FixInv, FixesAreApproved,
         ApprovalFitsReview, FixesTypeOK, leaseVars, turnVars, fixVars
<1>17. ASSUME NEW l \in Leases, NEW b \in Batches, Propose(l, b)
       PROVE  FixInv'
  BY <1>17 DEF Propose, Preview, FixInv, FixesAreApproved, ApprovalFitsReview,
         FixesTypeOK, leaseVars, turnVars, fixVars
<1>18. ASSUME NEW l \in Leases, NEW b \in Batches, ExecuteFix(l, b)
       PROVE  FixInv'
  <2>1. /\ approved' = [approved EXCEPT ![l] = None]
        /\ UNCHANGED <<pending, deciding>>
        /\ approved[l] # None
    BY <1>18 DEF ExecuteFix
  <2>a. \A k \in Leases, c \in Batches :
           credit'[k][c] = IF k = l /\ c = b /\ approved[l] = b
                           THEN credit[k][c] - 1 ELSE credit[k][c]
    BY <1>18 DEF ExecuteFix, FixesTypeOK
  <2>b. approved[l] = b => credit[l][b] >= 1
    BY <2>1 DEF FixInv
  <2>2. FixesAreApproved'
    <3>1. SUFFICES ASSUME NEW k \in Leases, NEW c \in Batches PROVE credit'[k][c] >= 0
      BY DEF FixesAreApproved
    <3>2. credit[k][c] \in Int /\ credit[k][c] >= 0
      BY DEF FixesTypeOK, FixInv, FixesAreApproved
    <3>3. QED
      BY <2>a, <2>b, <3>2
  <2>3. ApprovalFitsReview'
    BY <2>1 DEF FixesTypeOK, FixInv, ApprovalFitsReview
  <2>4. \A k \in Leases : approved'[k] = IF k = l THEN None ELSE approved[k]
    BY <2>1 DEF FixesTypeOK
  <2>5. \A k \in Leases : approved'[k] # None => credit'[k][approved'[k]] >= 1
    BY <2>a, <2>4 DEF FixesTypeOK, FixInv
  <2>6. deciding # None => deciding[1] \in Leases /\ deciding[1] # l
    BY <2>1 DEF FixesTypeOK, FixInv
  <2>7. QED
    BY <2>1, <2>2, <2>3, <2>4, <2>5, <2>6, <2>a DEF FixesTypeOK, FixInv
<1>19. ASSUME NEW l \in Leases, NEW b \in Batches, Edit(l, b)
       PROVE  FixInv'
  BY <1>19 DEF Edit, Preview, MainFree, FixInv, FixesAreApproved,
         ApprovalFitsReview, FixesTypeOK, leaseVars, turnVars, fixVars
<1>20. CASE UNCHANGED vars
  BY <1>20 DEF vars, FixInv, FixesAreApproved, ApprovalFitsReview,
         FixesTypeOK, leaseVars, turnVars, fixVars
<1>21. QED
  BY <1>1, <1>2, <1>3, <1>4, <1>5, <1>6, <1>7, <1>8, <1>9, <1>10, <1>11,
         <1>12, <1>13, <1>14, <1>15, <1>16, <1>17, <1>18, <1>19, <1>20 DEF
         Next

\* Every step keeps revocations and captures together.
LEMMA CaptureKeeps ==
    ASSUME LeasesTypeOK, RevokedHoldsNoCapture, [Next]_vars
    PROVE  RevokedHoldsNoCapture'
<1>1. CASE Takeover
  BY <1>1 DEF Takeover, RevokeForPty, Marked, Unrevoked, EndCapture,
         RevokedHoldsNoCapture, LeasesTypeOK, LeaseRecords, Calls, Removers,
         leaseVars, turnVars, fixVars
<1>2. CASE KillBegins
  BY <1>2 DEF KillBegins, RevokeForPty, Marked, Unrevoked, EndCapture,
         RevokedHoldsNoCapture, LeasesTypeOK, LeaseRecords, Calls, Removers,
         leaseVars, turnVars, fixVars
<1>3. CASE KillEnds
  BY <1>3 DEF KillEnds, RevokedHoldsNoCapture, LeasesTypeOK, LeaseRecords,
         Calls, Removers, leaseVars, turnVars, fixVars
<1>4. CASE SpawnBegins
  BY <1>4 DEF SpawnBegins, RevokeForPty, Marked, Unrevoked, EndCapture,
         RevokedHoldsNoCapture, LeasesTypeOK, LeaseRecords, Calls, Removers,
         leaseVars, turnVars, fixVars
<1>5. CASE SpawnEnds
  BY <1>5 DEF SpawnEnds, RevokedHoldsNoCapture, LeasesTypeOK, LeaseRecords,
         Calls, Removers, leaseVars, turnVars, fixVars
<1>6. CASE Authenticated
  BY <1>6 DEF Authenticated, RevokedHoldsNoCapture, LeasesTypeOK,
         LeaseRecords, Calls, Removers, leaseVars, turnVars, fixVars
<1>7. CASE AuthFails
  BY <1>7 DEF AuthFails, RevokedHoldsNoCapture, LeasesTypeOK, LeaseRecords,
         Calls, Removers, leaseVars, turnVars, fixVars
<1>8. CASE ChildDies
  BY <1>8 DEF ChildDies, RevokedHoldsNoCapture, LeasesTypeOK, LeaseRecords,
         Calls, Removers, leaseVars, turnVars, fixVars
<1>9. CASE ExitSeen
  BY <1>9 DEF ExitSeen, Marked, Unrevoked, EndCapture, RevokedHoldsNoCapture,
         LeasesTypeOK, LeaseRecords, Calls, Removers, leaseVars, turnVars,
         fixVars
<1>10. ASSUME NEW l \in Leases, Expire(l)
       PROVE  RevokedHoldsNoCapture'
  BY <1>10 DEF Expire, RevokedHoldsNoCapture, LeasesTypeOK, LeaseRecords,
         Calls, Removers, leaseVars, turnVars, fixVars
<1>11. ASSUME NEW l \in Leases, Begin(l)
       PROVE  RevokedHoldsNoCapture'
  BY <1>11 DEF Begin, At, Return, EndCapture, Active, RevokedHoldsNoCapture,
         LeasesTypeOK, LeaseRecords, Calls, Removers, leaseVars, turnVars,
         fixVars
<1>12. ASSUME NEW l \in Leases, Ends(l)
       PROVE  RevokedHoldsNoCapture'
  BY <1>12 DEF Ends, EndCapture, Return, RevokedHoldsNoCapture, LeasesTypeOK,
         LeaseRecords, Calls, Removers, leaseVars, turnVars, fixVars
<1>13. ASSUME NEW l \in Leases, PagerRefused(l)
       PROVE  RevokedHoldsNoCapture'
  BY <1>13 DEF PagerRefused, At, RevokedHoldsNoCapture, LeasesTypeOK,
         LeaseRecords, Calls, Removers, leaseVars, turnVars, fixVars
<1>14. ASSUME NEW l \in Leases, Asked(l)
       PROVE  RevokedHoldsNoCapture'
  BY <1>14 DEF Asked, GiveUp, Marked, Unrevoked, At, RevokedHoldsNoCapture,
         LeasesTypeOK, LeaseRecords, Calls, Removers, leaseVars, turnVars,
         fixVars
<1>15. ASSUME NEW l \in Leases, Cut(l)
       PROVE  RevokedHoldsNoCapture'
  BY <1>15 DEF Cut, GiveUp, Marked, Unrevoked, At, RevokedHoldsNoCapture,
         LeasesTypeOK, LeaseRecords, Calls, Removers, leaseVars, turnVars,
         fixVars
<1>16. ASSUME NEW l \in Leases, TimedOut(l)
       PROVE  RevokedHoldsNoCapture'
  BY <1>16 DEF TimedOut, At, EndCapture, RevokedHoldsNoCapture, LeasesTypeOK,
         LeaseRecords, Calls, Removers, leaseVars, turnVars, fixVars
<1>17. ASSUME NEW l \in Leases, RevokeLate(l)
       PROVE  RevokedHoldsNoCapture'
  BY <1>17 DEF RevokeLate, Marked, Unrevoked, At, RevokedHoldsNoCapture,
         LeasesTypeOK, LeaseRecords, Calls, Removers, leaseVars, turnVars,
         fixVars
<1>18. ASSUME NEW l \in Leases, Drop(l)
       PROVE  RevokedHoldsNoCapture'
  BY <1>18 DEF Drop, At, Return, EndCapture, RevokedHoldsNoCapture,
         LeasesTypeOK, LeaseRecords, Calls, Removers, leaseVars, turnVars,
         fixVars
<1>19. ASSUME NEW l \in Leases, Abandoned(l)
       PROVE  RevokedHoldsNoCapture'
  BY <1>19 DEF Abandoned, Return, RevokedHoldsNoCapture, LeasesTypeOK,
         LeaseRecords, Calls, Removers, leaseVars, turnVars, fixVars
<1>20. CASE SidecarDies
  BY <1>20 DEF SidecarDies, RevokedHoldsNoCapture, LeasesTypeOK, LeaseRecords,
         Calls, Removers, leaseVars, turnVars, fixVars
<1>21. CASE Confirm
  BY <1>21 DEF Confirm, RevokedHoldsNoCapture, LeasesTypeOK, LeaseRecords,
         Calls, Removers, leaseVars, turnVars, fixVars
<1>22. ASSUME NEW l \in Leases, ValidateTurn(l)
       PROVE  RevokedHoldsNoCapture'
  BY <1>22 DEF ValidateTurn, Attach, IssueRefused, RevokedHoldsNoCapture,
         LeasesTypeOK, LeaseRecords, Calls, Removers, leaseVars, turnVars,
         fixVars
<1>23. ASSUME NEW l \in Leases, IssueTurn(l)
       PROVE  RevokedHoldsNoCapture'
  BY <1>23 DEF IssueTurn, Issue, RevokedHoldsNoCapture, LeasesTypeOK,
         LeaseRecords, Calls, Removers, leaseVars, turnVars, fixVars
<1>24. ASSUME NEW l \in Leases, ServeRun(l)
       PROVE  RevokedHoldsNoCapture'
  BY <1>24 DEF ServeRun, RevokedHoldsNoCapture, LeasesTypeOK, LeaseRecords,
         Calls, Removers, leaseVars, turnVars, fixVars
<1>25. ASSUME NEW l \in Leases, ServeResume(l)
       PROVE  RevokedHoldsNoCapture'
  BY <1>25 DEF ServeResume, RevokeForTurn, Marked, Unrevoked,
         RevokedHoldsNoCapture, LeasesTypeOK, LeaseRecords, Calls, Removers,
         leaseVars, turnVars, fixVars
<1>26. ASSUME NEW l \in Leases, EndTurn(l)
       PROVE  RevokedHoldsNoCapture'
  BY <1>26 DEF EndTurn, RevokedHoldsNoCapture, LeasesTypeOK, LeaseRecords,
         Calls, Removers, leaseVars, turnVars, fixVars
<1>27. ASSUME NEW l \in Leases, Finish(l)
       PROVE  RevokedHoldsNoCapture'
  BY <1>27 DEF Finish, RevokeForTurn, Revoke, Marked, Unrevoked,
         RevokedHoldsNoCapture, LeasesTypeOK, LeaseRecords, Calls, Removers,
         leaseVars, turnVars, fixVars
<1>28. ASSUME NEW l \in Leases, BeginInvestigation(l)
       PROVE  RevokedHoldsNoCapture'
  BY <1>28 DEF BeginInvestigation, RevokedHoldsNoCapture, LeasesTypeOK,
         LeaseRecords, Calls, Removers, leaseVars, turnVars, fixVars
<1>29. ASSUME NEW l \in Leases, Diagnose(l)
       PROVE  RevokedHoldsNoCapture'
  BY <1>29 DEF Diagnose, Working, Active, RevokedHoldsNoCapture, LeasesTypeOK,
         LeaseRecords, Calls, Removers, leaseVars, turnVars, fixVars
<1>30. ASSUME NEW l \in Leases, EditShown(l)
       PROVE  RevokedHoldsNoCapture'
  BY <1>30 DEF EditShown, RevokedHoldsNoCapture, LeasesTypeOK, LeaseRecords,
         Calls, Removers, leaseVars, turnVars, fixVars
<1>31. ASSUME NEW l \in Leases, Approve(l)
       PROVE  RevokedHoldsNoCapture'
  BY <1>31 DEF Approve, Preview, RevokedHoldsNoCapture, LeasesTypeOK,
         LeaseRecords, Calls, Removers, leaseVars, turnVars, fixVars
<1>32. ASSUME NEW l \in Leases, Reject(l)
       PROVE  RevokedHoldsNoCapture'
  BY <1>32 DEF Reject, Revoke, Marked, Unrevoked, RevokedHoldsNoCapture,
         LeasesTypeOK, LeaseRecords, Calls, Removers, leaseVars, turnVars,
         fixVars
<1>33. ASSUME NEW l \in Leases, Stop(l)
       PROVE  RevokedHoldsNoCapture'
  BY <1>33 DEF Stop, Revoke, Marked, Unrevoked, RevokedHoldsNoCapture,
         LeasesTypeOK, LeaseRecords, Calls, Removers, leaseVars, turnVars,
         fixVars
<1>34. ASSUME NEW l \in Leases, NEW r \in Removers, Remove(l, r)
       PROVE  RevokedHoldsNoCapture'
  BY <1>34 DEF Remove, RemoveCapture, EndCapture, RevokedHoldsNoCapture,
         LeasesTypeOK, LeaseRecords, Calls, Removers, leaseVars, turnVars,
         fixVars
<1>35. ASSUME NEW l \in Leases, NEW b \in Batches, Propose(l, b)
       PROVE  RevokedHoldsNoCapture'
  BY <1>35 DEF Propose, Preview, RevokedHoldsNoCapture, LeasesTypeOK,
         LeaseRecords, Calls, Removers, leaseVars, turnVars, fixVars
<1>36. ASSUME NEW l \in Leases, NEW b \in Batches, ExecuteFix(l, b)
       PROVE  RevokedHoldsNoCapture'
  BY <1>36 DEF ExecuteFix, Working, Active, RevokedHoldsNoCapture,
         LeasesTypeOK, LeaseRecords, Calls, Removers, leaseVars, turnVars,
         fixVars
<1>37. ASSUME NEW l \in Leases, NEW b \in Batches, Edit(l, b)
       PROVE  RevokedHoldsNoCapture'
  BY <1>37 DEF Edit, Preview, RevokedHoldsNoCapture, LeasesTypeOK,
         LeaseRecords, Calls, Removers, leaseVars, turnVars, fixVars
<1>38. CASE UNCHANGED vars
  BY <1>38 DEF vars, RevokedHoldsNoCapture, LeasesTypeOK, LeaseRecords, Calls,
         Removers, leaseVars, turnVars, fixVars
<1>39. QED
  BY <1>1, <1>2, <1>3, <1>4, <1>5, <1>6, <1>7, <1>8, <1>9, <1>10, <1>11,
         <1>12, <1>13, <1>14, <1>15, <1>16, <1>17, <1>18, <1>19, <1>20, <1>21,
         <1>22, <1>23, <1>24, <1>25, <1>26, <1>27, <1>28, <1>29, <1>30, <1>31,
         <1>32, <1>33, <1>34, <1>35, <1>36, <1>37, <1>38 DEF Next, LeaseStep,
         Operate, Execute

-----------------------------------------------------------------------------
\* The initial state has it all.
LEMMA InitHolds == Init => IInv
  BY DEF Init, LeasesInit, IInv, TypeOK, LeasesTypeOK, TurnsTypeOK,
         FixesTypeOK, LeaseRecords, Calls, Identities, NoOne, Idle,
         Removers, ChildInv, LeaseFitsChild, Active, FixInv, FixesAreApproved,
         ApprovalFitsReview, RevokedHoldsNoCapture

\* The inductive invariant: types, leases that fit the child, approvals that fit
\* the presses, and captures that revocations will remove.
THEOREM Invariant == Spec => []IInv
<1>1. IInv /\ [Next]_vars => IInv'
  BY LeasesTypeKeeps, TurnsTypeKeeps, FixesTypeKeeps, ChildKeeps, FixKeeps, CaptureKeeps DEF IInv, TypeOK
<1>2. QED
  BY InitHolds, <1>1, PTL DEF Spec

\* Every variable of leases, turns and fixes stays in its domain.
THEOREM TypeCorrect == Spec => []TypeOK
  BY Invariant, PTL DEF IInv

\* Whatever the agent asks for, what runs on the device was approved as it is,
\* and an approval is good for one run (take_approved_fix).
THEOREM OnlyApprovedRuns == Spec => []FixesAreApproved
  BY Invariant, PTL DEF IInv, FixInv

\* What is approved is what was reviewed last (preview_fix).
THEOREM ReviewEndsApproval == Spec => []ApprovalFitsReview
  BY Invariant, PTL DEF IInv, FixInv

\* A live lease is one for the child the PTY has now (issue_with_identity,
\* revoke_for_pty).
THEOREM LeasesFit == Spec => []LeaseFitsChild
  BY Invariant, PTL DEF IInv, ChildInv

\* What a revoked lease's command captured is given back (revoke).
THEOREM RevokedLetsGo == Spec => []RevokedHoldsNoCapture
  BY Invariant, PTL DEF IInv

=============================================================================
