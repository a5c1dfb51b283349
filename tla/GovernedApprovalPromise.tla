----------------------- MODULE GovernedApprovalPromise -----------------------
(***************************************************************************)
(* The life of rows, tokens and held arguments in GovernedApproval, and    *)
(* that the protocol implements HumanApproval, for every number of events, *)
(* callers and restarts.  The premises OneRequestPerEvent and              *)
(* OneExecutorPerCapability are the wiring of the program.                 *)
(***************************************************************************)
EXTENDS GovernedApprovalSafety

-----------------------------------------------------------------------------
(* Rows and tokens, for any wiring.                                        *)

\* A row comes from a request for its event; a token has a row, an approved one
\* once it is redeemed, and only such a token is given away.
RowsAreSound ==
    /\ \A e \in Events : approval[e].state # "NONE" => approval[e].from # {}
    /\ \A e \in Events : \A q \in approval[e].from : EventOf[q] = e
    /\ \A q \in Requests : token[q] # "NONE" => approval[EventOf[q]].state # "NONE"
    /\ \A q \in Requests : token[q] = "REDEEMED" => approval[EventOf[q]].state = "APPROVED"
    /\ \A q \in given : token[q] # "NONE"

\* Who is about to redeem a token began before it expired.
RedeemersAreTimely == \A r \in Resumers : ResumeInTx(r) => resStart[r] < deadline[TokenOf[r]]

RowInv == SafetyInv /\ RowsAreSound /\ RedeemersAreTimely

\* Only these steps touch rows and tokens.
LEMMA RowsFrame ==
  ASSUME [Next]_vars
  PROVE  \/ UNCHANGED <<approval, token, given>>
         \/ \E q \in Requests : RequestIssue(q) \/ RequestCancel(q)
         \/ \E a \in Audits : ResolveCommit(a)
         \/ \E r \in Resumers : ResumeCommit(r)
<1>1. ASSUME NEW q \in Requests, RequestStep(q), ~RequestIssue(q), ~RequestCancel(q)
      PROVE  UNCHANGED <<approval, token, given>>
  BY <1>1 DEF RequestStep, RequestStart, RequestInsert, RequestHold, RequestHoldRefused,
              RequestAbort, dbVars
<1>2. ASSUME NEW a \in Audits, ResolveStep(a), ~ResolveCommit(a)
      PROVE  UNCHANGED <<approval, token, given>>
  BY <1>2 DEF ResolveStep, ResolveBegin, ResolveUpdate, ResolveConflict, ResolveAbort, dbVars, reqVars
<1>3. ASSUME NEW r \in Resumers, ResumeStep(r), ~ResumeCommit(r)
      PROVE  UNCHANGED <<approval, token, given>>
  BY <1>3 DEF ResumeStep, ResumeLocate, ResumeRevalidate, ResumeRequireHold,
              ResumeConsume, ResumeTouch, ResumeRefused, ResumeAbort, dbVars, reqVars
<1>4. ASSUME NEW x \in Executors, ExecStep(x)
      PROVE  UNCHANGED <<approval, token, given>>
  BY <1>4 DEF ExecStep, ExecCheck, ExecReject, ExecClaim, ExecInvoke, ExecPersistSuccess,
              ExecPersistLost, ExecPersistFailed, dbVars, reqVars
<1>5. CASE Tick \/ Restart \/ UNCHANGED vars
  BY <1>5 DEF Tick, Restart, vars, dbVars, reqVars
<1>6. QED
  BY <1>1, <1>2, <1>3, <1>4, <1>5 DEF Next

\* What the commit of each caller writes.
LEMMA IssueWrites ==
  ASSUME TypeOK, NEW q \in Requests, RequestIssue(q)
  PROVE  /\ reqPc[q] = "held"
         /\ approval'[EventOf[q]] = RowInTx(q)
         /\ \A e \in Events : e # EventOf[q] => approval'[e] = approval[e]
         /\ token'[q] = "ACTIVE"
         /\ \A p \in Requests : p # q => token'[p] = token[p]
         /\ given \subseteq given' /\ given' \subseteq given \cup {q}
         /\ UNCHANGED <<clock, deadline, orphaned, hold, resPc, resStart, effects>>
<1>1. approval \in [Events -> ApprovalRow] /\ EventOf[q] \in Events
  BY ApprovalAssumption DEF TypeOK
<1>2. token \in [Requests -> {"NONE", "ACTIVE", "REDEEMED"}]
  BY DEF TypeOK
<1>3. /\ reqPc[q] = "held"
      /\ approval' = [approval EXCEPT ![EventOf[q]] = RowInTx(q)]
      /\ token' = [token EXCEPT ![q] = "ACTIVE"]
      /\ given' = given \/ given' = given \cup {q}
      /\ UNCHANGED <<clock, deadline, orphaned, hold, resPc, resStart, effects>>
  BY DEF RequestIssue, resVars, exeVars
<1>4. QED
  BY <1>1, <1>2, <1>3

LEMMA CancelWrites ==
  ASSUME TypeOK, NEW q \in Requests, RequestCancel(q)
  PROVE  /\ reqPc[q] = "unheld"
         /\ approval'[EventOf[q]] = IF RowInTx(q).state = "PENDING"
                                    THEN [RowInTx(q) EXCEPT !.state = "CANCELLED"]
                                    ELSE RowInTx(q)
         /\ \A e \in Events : e # EventOf[q] => approval'[e] = approval[e]
         /\ UNCHANGED <<clock, deadline, orphaned, hold, token, given, resPc, resStart, effects>>
<1>1. EventOf[q] \in Events /\ approval \in [Events -> ApprovalRow]
  BY ApprovalAssumption DEF TypeOK
<1>2. QED
  BY <1>1 DEF RequestCancel, resVars, exeVars

LEMMA DecisionWrites ==
  ASSUME SafetyInv, NEW a \in Audits, ResolveCommit(a)
  PROVE  /\ approval[AuditEvent[a]].state = "PENDING"
         /\ approval'[AuditEvent[a]].state \in {"APPROVED", "REJECTED"}
         /\ approval'[AuditEvent[a]].from = approval[AuditEvent[a]].from
         /\ \A e \in Events : e # AuditEvent[a] => approval'[e] = approval[e]
         /\ UNCHANGED <<clock, reqPc, deadline, orphaned, hold, token, given, resPc, resStart, effects>>
<1>1. audPc[a] \in {"APPROVED", "REJECTED"} /\ AuditEvent[a] \in Events
  BY ApprovalAssumption DEF ResolveCommit, AuditInTx
<1>2. approval' = [approval EXCEPT ![AuditEvent[a]] =
                     [state |-> audPc[a], from |-> approval[AuditEvent[a]].from, by |-> {a}]]
  BY <1>1 DEF ResolveCommit, SafetyInv, TypeOK
<1>3. QED
  BY <1>1, <1>2 DEF ResolveCommit, SafetyInv, TypeOK, AuditsAreSound, AuditInTx, reqVars, resVars, exeVars

LEMMA RedeemWrites ==
  ASSUME SafetyInv, NEW r \in Resumers, ResumeCommit(r)
  PROVE  /\ resPc[r] = "touched" /\ token[TokenOf[r]] = "ACTIVE"
         /\ approval[EventOf[TokenOf[r]]].state = "APPROVED"
         /\ token' = [token EXCEPT ![TokenOf[r]] = "REDEEMED"]
         /\ resPc'[r] \in {"granted", "idle"}
         /\ \A s \in Resumers : s # r => resPc'[s] = resPc[s] /\ resStart'[s] = resStart[s]
         /\ UNCHANGED <<clock, reqPc, deadline, orphaned, hold, approval, given, effects>>
BY DEF ResumeCommit, SafetyInv, TypeOK, ResumesAreSound, ResumeInTx, reqVars, exeVars

\* Every step keeps rows and tokens together.
LEMMA RowsStep ==
  ASSUME RowInv, [Next]_vars
  PROVE  RowsAreSound'
<1> USE ApprovalAssumption DEF RowInv, SafetyInv
<1>1. ASSUME \A e \in Events :
               \/ approval'[e] = approval[e]
               \/ /\ approval'[e].state # "NONE" /\ approval'[e].from # {}
                  /\ \A q \in approval'[e].from : EventOf[q] = e
                  /\ approval[e].state = "APPROVED" => approval'[e].state = "APPROVED",
             \A q \in Requests :
               \/ token'[q] = token[q]
               \/ token'[q] = "ACTIVE" /\ approval'[EventOf[q]].state # "NONE"
               \/ token'[q] = "REDEEMED" /\ approval'[EventOf[q]].state = "APPROVED",
             \A q \in given' : (q \in given /\ token'[q] = token[q]) \/ token'[q] \in {"ACTIVE", "REDEEMED"}
      PROVE  RowsAreSound'
  <2>1. /\ \A e \in Events : approval'[e].state # "NONE" => approval'[e].from # {}
        /\ \A e \in Events : \A q \in approval'[e].from : EventOf[q] = e
    BY <1>1 DEF RowsAreSound
  <2>2. \A e \in Events : /\ approval[e].state # "NONE" => approval'[e].state # "NONE"
                          /\ approval[e].state = "APPROVED" => approval'[e].state = "APPROVED"
    BY <1>1
  <2>3. \A q \in Requests : token'[q] # "NONE" => approval'[EventOf[q]].state # "NONE"
    BY <1>1, <2>2 DEF RowsAreSound
  <2>4. \A q \in Requests : token'[q] = "REDEEMED" => approval'[EventOf[q]].state = "APPROVED"
    BY <1>1, <2>2 DEF RowsAreSound
  <2>5. \A q \in given' : token'[q] # "NONE"
    BY <1>1 DEF RowsAreSound
  <2>6. QED
    BY <2>1, <2>3, <2>4, <2>5 DEF RowsAreSound
<1>2. ASSUME NEW q \in Requests
      PROVE  /\ RowInTx(q) \in ApprovalRow
             /\ RowInTx(q).state # "NONE" /\ RowInTx(q).from # {}
             /\ \A p \in RowInTx(q).from : EventOf[p] = EventOf[q]
             /\ approval[EventOf[q]].state = "APPROVED" => RowInTx(q).state = "APPROVED"
  BY RowInTxType DEF RowInTx, RowsAreSound
<1>3. ASSUME NEW q \in Requests, RequestIssue(q) PROVE RowsAreSound'
  <2>1. approval'[EventOf[q]] = RowInTx(q) /\ \A e \in Events : e # EventOf[q] => approval'[e] = approval[e]
    BY <1>3, IssueWrites
  <2>2. token'[q] = "ACTIVE" /\ \A p \in Requests : p # q => token'[p] = token[p]
    BY <1>3, IssueWrites
  <2>3. given' \subseteq given \cup {q} /\ given \subseteq Requests
    BY <1>3, IssueWrites DEF TypeOK
  <2>4. QED
    BY <1>1, <1>2, <2>1, <2>2, <2>3
<1>4. ASSUME NEW q \in Requests, RequestCancel(q) PROVE RowsAreSound'
  <2>1. approval'[EventOf[q]] = RowInTx(q) \/ approval'[EventOf[q]] = [RowInTx(q) EXCEPT !.state = "CANCELLED"]
    BY <1>4, CancelWrites
  <2>2. approval[EventOf[q]].state = "APPROVED" => approval'[EventOf[q]] = RowInTx(q)
    BY <1>2, <1>4, CancelWrites
  <2>3. approval'[EventOf[q]].state # "NONE" /\ approval'[EventOf[q]].from = RowInTx(q).from
    BY <1>2, <2>1 DEF ApprovalRow
  <2>4. /\ \A e \in Events : e # EventOf[q] => approval'[e] = approval[e]
        /\ UNCHANGED <<token, given>>
    BY <1>4, CancelWrites
  <2>5. QED
    BY <1>1, <1>2, <2>2, <2>3, <2>4
<1>5. ASSUME NEW a \in Audits, ResolveCommit(a) PROVE RowsAreSound'
  <2>1. /\ approval[AuditEvent[a]].state = "PENDING"
        /\ approval'[AuditEvent[a]].state \in {"APPROVED", "REJECTED"}
        /\ approval'[AuditEvent[a]].from = approval[AuditEvent[a]].from
        /\ \A e \in Events : e # AuditEvent[a] => approval'[e] = approval[e]
        /\ UNCHANGED <<token, given>> /\ AuditEvent[a] \in Events
    BY <1>5, DecisionWrites
  <2>2. QED
    BY <1>1, <2>1 DEF RowsAreSound
<1>6. ASSUME NEW r \in Resumers, ResumeCommit(r) PROVE RowsAreSound'
  <2>1. /\ approval[EventOf[TokenOf[r]]].state = "APPROVED" /\ TokenOf[r] \in Requests
        /\ token' = [token EXCEPT ![TokenOf[r]] = "REDEEMED"]
        /\ UNCHANGED <<approval, given>>
    BY <1>6, RedeemWrites
  <2>2. token'[TokenOf[r]] = "REDEEMED" /\ \A q \in Requests : q # TokenOf[r] => token'[q] = token[q]
    BY <2>1 DEF TypeOK
  <2>3. given \subseteq Requests
    BY DEF TypeOK
  <2>4. QED
    BY <1>1, <2>1, <2>2, <2>3
<1>7. CASE UNCHANGED <<approval, token, given>>
  BY <1>7 DEF RowsAreSound
<1>8. QED
  BY <1>3, <1>4, <1>5, <1>6, <1>7, RowsFrame

\* Every step keeps those who redeem timely: the UPDATE asks for it, and the
\* expiry of a token never moves.
LEMMA TimelyStep ==
  ASSUME RowInv, [Next]_vars
  PROVE  RedeemersAreTimely'
<1> USE ApprovalAssumption DEF RowInv, SafetyInv, RedeemersAreTimely, ResumeInTx
<1>1. ASSUME NEW q \in Requests, RequestStart(q) PROVE RedeemersAreTimely'
  <2>1. \A r \in Resumers : ResumeInTx(r) => TokenOf[r] # q
    BY <1>1 DEF RequestStart, ResumesAreSound
  <2>2. QED
    BY <1>1, <2>1 DEF RequestStart, TypeOK, resVars
<1>2. ASSUME NEW r \in Resumers, ResumeStep(r) PROVE RedeemersAreTimely'
  <2>1. UNCHANGED deadline
    BY <1>2 DEF ResumeStep, ResumeLocate, ResumeRevalidate, ResumeRequireHold, ResumeConsume,
                ResumeTouch, ResumeCommit, ResumeRefused, ResumeAbort, reqVars
  <2>2. \A s \in Resumers : s # r => resPc'[s] = resPc[s] /\ resStart'[s] = resStart[s]
    BY <1>2 DEF ResumeStep, ResumeLocate, ResumeRevalidate, ResumeRequireHold, ResumeConsume,
                ResumeTouch, ResumeCommit, ResumeRefused, ResumeAbort, TypeOK
  <2>3. resPc'[r] \in {"consumed", "touched"} =>
          /\ resStart'[r] = resStart[r]
          /\ resPc[r] \in {"consumed", "touched"} \/ resStart[r] < deadline[TokenOf[r]]
    BY <1>2 DEF ResumeStep, ResumeLocate, ResumeRevalidate, ResumeRequireHold, ResumeConsume,
                ResumeTouch, ResumeCommit, ResumeRefused, ResumeAbort, TypeOK, Consumable
  <2>4. QED
    BY <2>1, <2>2, <2>3
<1>3. ASSUME UNCHANGED <<deadline, resPc, resStart>> PROVE RedeemersAreTimely'
  BY <1>3
<1>4. ASSUME NEW q \in Requests, RequestStep(q), ~RequestStart(q)
      PROVE  UNCHANGED <<deadline, resPc, resStart>>
  BY <1>4 DEF RequestStep, RequestInsert, RequestHold, RequestHoldRefused, RequestIssue,
              RequestCancel, RequestAbort, resVars
<1>5. ASSUME NEW a \in Audits, ResolveStep(a) PROVE UNCHANGED <<deadline, resPc, resStart>>
  BY <1>5 DEF ResolveStep, ResolveBegin, ResolveUpdate, ResolveCommit, ResolveConflict, ResolveAbort,
              reqVars, resVars
<1>6. ASSUME NEW x \in Executors, ExecStep(x) PROVE UNCHANGED <<deadline, resPc, resStart>>
  BY <1>6 DEF ExecStep, ExecCheck, ExecReject, ExecClaim, ExecInvoke, ExecPersistSuccess,
              ExecPersistLost, ExecPersistFailed, reqVars, resVars
<1>7. CASE Restart
  BY <1>7 DEF Restart
<1>8. CASE Tick \/ UNCHANGED vars
  BY <1>3, <1>8 DEF Tick, vars, reqVars, resVars
<1>9. QED
  BY <1>1, <1>2, <1>3, <1>4, <1>5, <1>6, <1>7, <1>8 DEF Next

LEMMA RowInductive ==
  /\ Init => RowInv
  /\ RowInv /\ [Next]_vars => RowInv'
<1>1. Init => RowInv
  BY SafetyInductive DEF Init, RowInv, RowsAreSound, RedeemersAreTimely, ResumeInTx, NoRow
<1>2. RowInv /\ [Next]_vars => RowInv'
  BY SafetyInductive, RowsStep, TimelyStep DEF RowInv
<1>3. QED
  BY <1>1, <1>2

\* A plain token that somebody holds belongs to a committed row, whatever
\* commits are lost (approval_service.py).
THEOREM GivenTokenDurable == Spec => []GivenTokenIsDurable
<1>1. RowInv => GivenTokenIsDurable
  BY DEF RowInv, SafetyInv, TypeOK, RowsAreSound, GivenTokenIsDurable
<1>2. QED
  BY RowInductive, <1>1, PTL DEF Spec

\* The expiry of a request that began is fixed.
LEMMA DeadlineFixed ==
  ASSUME TypeOK, [Next]_vars, NEW p \in Requests, reqPc[p] # "idle"
  PROVE  deadline'[p] = deadline[p]
<1>1. ASSUME NEW q \in Requests, RequestStart(q) PROVE deadline'[p] = deadline[p]
  BY <1>1 DEF RequestStart, TypeOK
<1>2. ASSUME NEW q \in Requests, RequestStep(q), ~RequestStart(q) PROVE UNCHANGED deadline
  BY <1>2 DEF RequestStep, RequestInsert, RequestHold, RequestHoldRefused, RequestIssue,
              RequestCancel, RequestAbort
<1>3. ASSUME NEW a \in Audits, ResolveStep(a) PROVE UNCHANGED deadline
  BY <1>3 DEF ResolveStep, ResolveBegin, ResolveUpdate, ResolveCommit, ResolveConflict,
              ResolveAbort, reqVars
<1>4. ASSUME NEW r \in Resumers, ResumeStep(r) PROVE UNCHANGED deadline
  BY <1>4 DEF ResumeStep, ResumeLocate, ResumeRevalidate, ResumeRequireHold, ResumeConsume,
              ResumeTouch, ResumeCommit, ResumeRefused, ResumeAbort, reqVars
<1>5. ASSUME NEW x \in Executors, ExecStep(x) PROVE UNCHANGED deadline
  BY <1>5 DEF ExecStep, ExecCheck, ExecReject, ExecClaim, ExecInvoke, ExecPersistSuccess,
              ExecPersistLost, ExecPersistFailed, reqVars
<1>6. CASE Tick \/ Restart \/ UNCHANGED vars
  BY <1>6 DEF Tick, Restart, vars, reqVars
<1>7. QED
  BY <1>1, <1>2, <1>3, <1>4, <1>5, <1>6 DEF Next

\* Only its own steps and a restart move a resume.
LEMMA ResumersFrame ==
  ASSUME [Next]_vars
  PROVE  (\E r \in Resumers : ResumeStep(r)) \/ Restart \/ UNCHANGED <<resPc, resStart>>
<1>1. ASSUME NEW q \in Requests, RequestStep(q) PROVE UNCHANGED <<resPc, resStart>>
  BY <1>1 DEF RequestStep, RequestStart, RequestInsert, RequestHold, RequestHoldRefused,
              RequestIssue, RequestCancel, RequestAbort, resVars
<1>2. ASSUME NEW a \in Audits, ResolveStep(a) PROVE UNCHANGED <<resPc, resStart>>
  BY <1>2 DEF ResolveStep, ResolveBegin, ResolveUpdate, ResolveCommit, ResolveConflict,
              ResolveAbort, resVars
<1>3. ASSUME NEW x \in Executors, ExecStep(x) PROVE UNCHANGED <<resPc, resStart>>
  BY <1>3 DEF ExecStep, ExecCheck, ExecReject, ExecClaim, ExecInvoke, ExecPersistSuccess,
              ExecPersistLost, ExecPersistFailed, resVars
<1>4. CASE Tick \/ UNCHANGED vars
  BY <1>4 DEF Tick, vars, resVars
<1>5. QED
  BY <1>1, <1>2, <1>3, <1>4 DEF Next

\* The requests that a row comes from are over: their expiry is fixed.
RowsAreDated == \A e \in Events : \A q \in approval[e].from : reqPc[q] = "done"

\* Who found the approval not expired began before that.
ApprovalsAreTimely ==
    \A r \in Resumers :
        /\ resStart[r] <= clock
        /\ resPc[r] \in {"validated", "argued", "consumed", "touched"} =>
             \A p \in approval[EventOf[TokenOf[r]]].from : resStart[r] <= deadline[p]

TimelyInv == RowInv /\ RowsAreDated /\ ApprovalsAreTimely

\* An approved row does not change.
LEMMA ApprovedRowStays ==
  ASSUME SafetyInv, [Next]_vars, NEW e \in Events, approval[e].state = "APPROVED"
  PROVE  approval'[e] = approval[e]
<1>1. ASSUME NEW q \in Requests, RequestIssue(q) PROVE approval'[e] = approval[e]
  BY <1>1, IssueWrites DEF RowInTx, SafetyInv
<1>2. ASSUME NEW q \in Requests, RequestCancel(q) PROVE approval'[e] = approval[e]
  BY <1>2, CancelWrites DEF RowInTx, SafetyInv
<1>3. ASSUME NEW a \in Audits, ResolveCommit(a) PROVE approval'[e] = approval[e]
  BY <1>3, DecisionWrites
<1>4. ASSUME NEW r \in Resumers, ResumeCommit(r) PROVE approval'[e] = approval[e]
  BY <1>4, RedeemWrites
<1>5. QED
  BY <1>1, <1>2, <1>3, <1>4, RowsFrame

LEMMA DatedStep ==
  ASSUME TimelyInv, [Next]_vars
  PROVE  RowsAreDated'
<1> USE ApprovalAssumption DEF TimelyInv, RowInv, SafetyInv
<1>1. \A q \in Requests : reqPc[q] = "done" => reqPc'[q] = "done"
  <2>1. ASSUME NEW q \in Requests, RequestStep(q)
        PROVE  reqPc[q] # "done" /\ \A p \in Requests : p # q => reqPc'[p] = reqPc[p]
    BY <2>1 DEF RequestStep, RequestStart, RequestInsert, RequestHold, RequestHoldRefused,
                RequestIssue, RequestCancel, RequestAbort, RequestInTx, TypeOK
  <2>2. ASSUME NEW a \in Audits, ResolveStep(a) PROVE UNCHANGED reqPc
    BY <2>2 DEF ResolveStep, ResolveBegin, ResolveUpdate, ResolveCommit, ResolveConflict,
                ResolveAbort, reqVars
  <2>3. ASSUME NEW r \in Resumers, ResumeStep(r) PROVE UNCHANGED reqPc
    BY <2>3 DEF ResumeStep, ResumeLocate, ResumeRevalidate, ResumeRequireHold, ResumeConsume,
                ResumeTouch, ResumeCommit, ResumeRefused, ResumeAbort, reqVars
  <2>4. ASSUME NEW x \in Executors, ExecStep(x) PROVE UNCHANGED reqPc
    BY <2>4 DEF ExecStep, ExecCheck, ExecReject, ExecClaim, ExecInvoke, ExecPersistSuccess,
                ExecPersistLost, ExecPersistFailed, reqVars
  <2>5. CASE Tick \/ UNCHANGED vars
    BY <2>5 DEF Tick, vars, reqVars
  <2>6. CASE Restart
    BY <2>6 DEF Restart
  <2>7. QED
    BY <2>1, <2>2, <2>3, <2>4, <2>5, <2>6 DEF Next
<1>2. approval \in [Events -> ApprovalRow] /\ \A e \in Events : approval[e].from \subseteq Requests
  BY DEF TypeOK, ApprovalRow
<1>3. ASSUME NEW q \in Requests, RequestIssue(q) \/ RequestCancel(q),
             NEW e \in Events, NEW p \in approval'[e].from
      PROVE  p \in approval[e].from \/ (p = q /\ reqPc'[q] = "done")
  <2>1. reqPc'[q] = "done"
    BY <1>3 DEF RequestIssue, RequestCancel, TypeOK
  <2>2. approval'[e] = approval[e] \/ (approval'[e].from = RowInTx(q).from /\ e = EventOf[q])
    <3>1. CASE e = EventOf[q]
      <4>1. RowInTx(q) \in ApprovalRow
        BY RowInTxType
      <4>2. approval'[e] = RowInTx(q) \/ approval'[e] = [RowInTx(q) EXCEPT !.state = "CANCELLED"]
        BY <1>3, <3>1, IssueWrites, CancelWrites, Zenon
      <4>3. QED
        BY <3>1, <4>1, <4>2 DEF ApprovalRow
    <3>2. CASE e # EventOf[q]
      <4>1. \A d \in Events : d # EventOf[q] => approval'[d] = approval[d]
        BY <1>3, IssueWrites, CancelWrites, Zenon
      <4>2. QED
        BY <3>2, <4>1
    <3>3. QED
      BY <3>1, <3>2
  <2>3. RowInTx(q).from \subseteq {q} \/ RowInTx(q).from = approval[EventOf[q]].from
    BY DEF RowInTx
  <2>4. QED
    BY <1>3, <2>1, <2>2, <2>3
<1>4. ASSUME NEW a \in Audits, ResolveCommit(a), NEW e \in Events
      PROVE  approval'[e].from = approval[e].from
  BY <1>4, DecisionWrites
<1>5. ASSUME NEW r \in Resumers, ResumeCommit(r) PROVE UNCHANGED approval
  BY <1>5, RedeemWrites
<1>6. QED
  BY <1>1, <1>2, <1>3, <1>4, <1>5, RowsFrame DEF RowsAreDated

LEMMA ApprovalTimelyStep ==
  ASSUME TimelyInv, [Next]_vars
  PROVE  ApprovalsAreTimely'
<1> USE ApprovalAssumption DEF TimelyInv, RowInv, SafetyInv
<1>1. /\ clock \in Nat /\ resStart \in [Resumers -> Nat] /\ deadline \in [Requests -> Nat]
      /\ \A e \in Events : approval[e].from \subseteq Requests
  BY DEF TypeOK, ApprovalRow
<1>2. clock' \in Nat /\ clock <= clock'
  <2>1. clock' = clock \/ clock' = clock + 1
    BY DEF Next, RequestStep, RequestStart, RequestInsert, RequestHold, RequestHoldRefused,
           RequestIssue, RequestCancel, RequestAbort, ResolveStep, ResolveBegin, ResolveUpdate,
           ResolveCommit, ResolveConflict, ResolveAbort, ResumeStep, ResumeLocate,
           ResumeRevalidate, ResumeRequireHold, ResumeConsume, ResumeTouch, ResumeCommit,
           ResumeRefused, ResumeAbort, ExecStep, ExecCheck, ExecReject, ExecClaim, ExecInvoke,
           ExecPersistSuccess, ExecPersistLost, ExecPersistFailed, Tick, Restart, vars
  <2>2. QED
    BY <1>1, <2>1
\* Who was past the revalidation, and began as before, still is timely.
<1>3. ASSUME NEW r \in Resumers, resPc[r] \in {"validated", "argued", "consumed", "touched"}
      PROVE  \A p \in approval'[EventOf[TokenOf[r]]].from : resStart[r] <= deadline'[p]
  <2>1. approval'[EventOf[TokenOf[r]]] = approval[EventOf[TokenOf[r]]]
    BY <1>3, ApprovedRowStays DEF ResumesAreSound
  <2>2. ASSUME NEW p \in approval[EventOf[TokenOf[r]]].from PROVE deadline'[p] = deadline[p]
    <3>1. p \in Requests /\ reqPc[p] = "done"
      BY <1>1 DEF RowsAreDated
    <3>2. QED
      BY <3>1, DeadlineFixed
  <2>3. QED
    BY <1>3, <2>1, <2>2 DEF ApprovalsAreTimely
<1>4. ASSUME NEW r \in Resumers
      PROVE  \/ resStart'[r] = 0 /\ resPc'[r] \in {"idle", "granted"}
             \/ resStart'[r] = clock /\ resPc'[r] = "located" /\ clock' = clock
             \/ /\ resStart'[r] = resStart[r]
                /\ resPc'[r] \in {"validated", "argued", "consumed", "touched"} =>
                     \/ resPc[r] \in {"validated", "argued", "consumed", "touched"}
                     \/ /\ \A p \in approval[EventOf[TokenOf[r]]].from : clock <= deadline[p]
                        /\ UNCHANGED <<approval, deadline>>
  <2>1. ASSUME NEW s \in Resumers, ResumeStep(s), s # r PROVE resPc'[r] = resPc[r] /\ resStart'[r] = resStart[r]
    BY <2>1 DEF ResumeStep, ResumeLocate, ResumeRevalidate, ResumeRequireHold, ResumeConsume,
                ResumeTouch, ResumeCommit, ResumeRefused, ResumeAbort, TypeOK
  <2>2. CASE ResumeLocate(r)
    BY <2>2 DEF ResumeLocate, TypeOK
  <2>3. CASE ResumeRevalidate(r)
    BY <2>3 DEF ResumeRevalidate, Revalidated, reqVars, dbVars, TypeOK
  <2>4. CASE ResumeRequireHold(r) \/ ResumeConsume(r) \/ ResumeTouch(r)
    BY <2>4 DEF ResumeRequireHold, ResumeConsume, ResumeTouch, TypeOK
  <2>5. CASE ResumeCommit(r) \/ ResumeRefused(r) \/ ResumeAbort(r)
    BY <2>5 DEF ResumeCommit, ResumeRefused, ResumeAbort, TypeOK
  <2>6. CASE Restart
    BY <2>6 DEF Restart
  <2>7. CASE UNCHANGED <<resPc, resStart>>
    BY <2>7
  <2>8. QED
    BY <2>1, <2>2, <2>3, <2>4, <2>5, <2>6, <2>7, ResumersFrame DEF ResumeStep
<1>5. ASSUME NEW r \in Resumers
      PROVE  /\ resStart'[r] <= clock'
             /\ resPc'[r] \in {"validated", "argued", "consumed", "touched"} =>
                  \A p \in approval'[EventOf[TokenOf[r]]].from : resStart'[r] <= deadline'[p]
  <2>1. resStart[r] <= clock /\ resStart[r] \in Nat
    BY <1>1 DEF ApprovalsAreTimely
  <2>2. CASE resStart'[r] = 0 /\ resPc'[r] \in {"idle", "granted"}
    BY <1>2, <2>2
  <2>3. CASE resStart'[r] = clock /\ resPc'[r] = "located" /\ clock' = clock
    BY <1>2, <2>3
  <2>4. CASE /\ resStart'[r] = resStart[r]
             /\ resPc[r] \in {"validated", "argued", "consumed", "touched"}
    BY <1>1, <1>2, <1>3, <2>1, <2>4
  <2>5. CASE /\ resStart'[r] = resStart[r]
             /\ \A p \in approval[EventOf[TokenOf[r]]].from : clock <= deadline[p]
             /\ UNCHANGED <<approval, deadline>>
    <3>1. EventOf[TokenOf[r]] \in Events
      OBVIOUS
    <3>2. \A p \in approval[EventOf[TokenOf[r]]].from : resStart[r] <= deadline[p]
      BY <1>1, <2>1, <2>5, <3>1
    <3>3. QED
      BY <1>1, <1>2, <2>1, <2>5, <3>2
  <2>6. CASE /\ resStart'[r] = resStart[r]
             /\ resPc'[r] \notin {"validated", "argued", "consumed", "touched"}
    BY <1>1, <1>2, <2>1, <2>6
  <2>7. QED
    BY <1>4, <2>2, <2>3, <2>4, <2>5, <2>6
<1>6. QED
  BY <1>5 DEF ApprovalsAreTimely

LEMMA TimelyInductive ==
  /\ Init => TimelyInv
  /\ TimelyInv /\ [Next]_vars => TimelyInv'
<1>1. Init => TimelyInv
  BY RowInductive DEF Init, TimelyInv, RowsAreDated, ApprovalsAreTimely, NoRow
<1>2. TimelyInv /\ [Next]_vars => TimelyInv'
  BY RowInductive, DatedStep, ApprovalTimelyStep DEF TimelyInv
<1>3. QED
  BY <1>1, <1>2

\* A token is only redeemed by a call that began before it and its approval
\* expired (governed_resume.py, _revalidate and _consume_token).
THEOREM RedeemedTimely == Spec => RedeemedByTimelyCall
<1>1. ASSUME TimelyInv, [Next]_vars, NEW q \in Requests, token[q] = "ACTIVE", token'[q] = "REDEEMED"
      PROVE  \E r \in Resumers :
                 /\ TokenOf[r] = q /\ ResumeInTx(r)
                 /\ resStart[r] < deadline[q]
                 /\ \A p \in approval[EventOf[q]].from : resStart[r] <= deadline[p]
  <2>1. PICK r \in Resumers : ResumeCommit(r)
    BY <1>1, RowsFrame, IssueWrites, CancelWrites, DecisionWrites DEF TimelyInv, RowInv, SafetyInv
  <2>2. TokenOf[r] = q /\ ResumeInTx(r) /\ resPc[r] = "touched"
    BY <1>1, <2>1, RedeemWrites DEF TimelyInv, RowInv, SafetyInv, TypeOK, ResumeInTx
  <2>3. QED
    BY <1>1, <2>2 DEF TimelyInv, RowInv, RedeemersAreTimely, ApprovalsAreTimely
<1>2. TimelyInv /\ [Next]_vars =>
        [\A q \in Requests : token[q] = "ACTIVE" /\ token'[q] = "REDEEMED" =>
            \E r \in Resumers :
                /\ TokenOf[r] = q /\ ResumeInTx(r)
                /\ resStart[r] < deadline[q]
                /\ \A p \in approval[EventOf[q]].from : resStart[r] <= deadline[p]]_vars
  BY <1>1, Zenon
<1>3. QED
  BY TimelyInductive, <1>2, PTL DEF Spec, RedeemedByTimelyCall

-----------------------------------------------------------------------------
(* Held arguments, with one request for each event.                        *)

\* Until it is issued a token has no row; then, and before, its arguments are
\* held until it expires; a restart takes them away for good, and no resume
\* that is past the look for them is left.
HoldsAreSound ==
    /\ \A e \in Events : \A p \in hold[e] : EventOf[p] = e
    /\ \A q \in Requests : reqPc[q] # "done" => approval[EventOf[q]].state = "NONE"
    /\ \A q \in Requests :
         (reqPc[q] = "held" \/ token[q] # "NONE") /\ q \notin orphaned /\ clock < deadline[q] =>
           q \in hold[EventOf[q]]
    /\ \A q \in orphaned :
         /\ reqPc[q] = "done" /\ hold[EventOf[q]] = {}
         /\ \A r \in Resumers : TokenOf[r] = q => resPc[r] \notin {"argued", "consumed", "touched"}

HoldInv == RowInv /\ HoldsAreSound /\ CancelledIsNotResumable

\* Only these steps touch the hold and what it depends on.
LEMMA HoldFrame ==
  ASSUME [Next]_vars
  PROVE  \/ UNCHANGED <<clock, reqPc, deadline, orphaned, hold, resPc>>
         \/ \E q \in Requests : RequestStep(q)
         \/ \E r \in Resumers : ResumeStep(r)
         \/ Tick \/ Restart
<1>1. ASSUME NEW a \in Audits, ResolveStep(a)
      PROVE  UNCHANGED <<clock, reqPc, deadline, orphaned, hold, resPc>>
  BY <1>1 DEF ResolveStep, ResolveBegin, ResolveUpdate, ResolveCommit, ResolveConflict, ResolveAbort,
              reqVars, resVars
<1>2. ASSUME NEW x \in Executors, ExecStep(x)
      PROVE  UNCHANGED <<clock, reqPc, deadline, orphaned, hold, resPc>>
  BY <1>2 DEF ExecStep, ExecCheck, ExecReject, ExecClaim, ExecInvoke, ExecPersistSuccess,
              ExecPersistLost, ExecPersistFailed, reqVars, resVars
<1>3. CASE UNCHANGED vars
  BY <1>3 DEF vars, reqVars, resVars
<1>4. QED
  BY <1>1, <1>2, <1>3 DEF Next

\* A resume without the arguments does not get past the look for them, and a
\* look only evicts what expired.
LEMMA ResumeHolds ==
  ASSUME TypeOK, NEW r \in Resumers, ResumeStep(r)
  PROVE  /\ UNCHANGED <<clock, reqPc, deadline, orphaned>>
         /\ hold' = hold \/ hold' = Evicted
         /\ \A s \in Resumers : s # r => resPc'[s] = resPc[s]
         /\ resPc'[r] \in {"argued", "consumed", "touched"} =>
              resPc[r] \in {"argued", "consumed", "touched"} \/ ArgumentsHeld(r)
<1>1. UNCHANGED <<clock, reqPc, deadline, orphaned>>
  BY DEF ResumeStep, ResumeLocate, ResumeRevalidate, ResumeRequireHold, ResumeConsume,
         ResumeTouch, ResumeCommit, ResumeRefused, ResumeAbort, reqVars
<1>2. hold' = hold \/ hold' = Evicted
  BY DEF ResumeStep, ResumeLocate, ResumeRevalidate, ResumeRequireHold, ResumeConsume,
         ResumeTouch, ResumeCommit, ResumeRefused, ResumeAbort
<1>3. \A s \in Resumers : s # r => resPc'[s] = resPc[s]
  BY DEF ResumeStep, ResumeLocate, ResumeRevalidate, ResumeRequireHold, ResumeConsume,
         ResumeTouch, ResumeCommit, ResumeRefused, ResumeAbort, TypeOK
<1>4. resPc'[r] \in {"argued", "consumed", "touched"} =>
        resPc[r] \in {"argued", "consumed", "touched"} \/ ArgumentsHeld(r)
  BY DEF ResumeStep, ResumeLocate, ResumeRevalidate, ResumeRequireHold, ResumeConsume,
         ResumeTouch, ResumeCommit, ResumeRefused, ResumeAbort, TypeOK
<1>5. QED
  BY <1>1, <1>2, <1>3, <1>4

\* With one request for each event, every step keeps the arguments of the
\* tokens that are alive.
LEMMA HoldsStep ==
  ASSUME HoldInv, [Next]_vars, OneRequestPerEvent
  PROVE  HoldsAreSound' /\ CancelledIsNotResumable'
<1> USE ApprovalAssumption DEF HoldInv, RowInv, SafetyInv
<1>1. /\ \A q \in Requests : token[q] # "NONE" => reqPc[q] = "done"
      /\ \A q \in Requests : EventOf[q] \in Events
      /\ \A p, q \in Requests : EventOf[p] = EventOf[q] => p = q
  BY DEF ResumesAreSound, OneRequestPerEvent
<1>2. /\ \A e \in Events : Evicted[e] \subseteq hold[e]
      /\ \A e \in Events : \A p \in hold[e] : clock < deadline[p] => p \in Evicted[e]
  BY DEF Evicted, TypeOK
<1>3. ASSUME NEW q \in Requests, RequestStart(q) PROVE HoldsAreSound' /\ CancelledIsNotResumable'
  <2>1. /\ reqPc[q] = "idle" /\ reqPc' = [reqPc EXCEPT ![q] = "ready"]
        /\ \A p \in Requests : p # q => deadline'[p] = deadline[p]
        /\ UNCHANGED <<clock, orphaned, hold, approval, token, resPc>>
    BY <1>3 DEF RequestStart, dbVars, resVars, TypeOK
  <2>2. QED
    BY <1>1, <2>1 DEF HoldsAreSound, CancelledIsNotResumable, TypeOK
<1>4. ASSUME NEW q \in Requests, RequestInsert(q) \/ RequestAbort(q)
      PROVE  HoldsAreSound' /\ CancelledIsNotResumable'
  <2>1. /\ reqPc[q] # "done" /\ reqPc'[q] \in {"inserted", "done"}
        /\ \A p \in Requests : p # q => reqPc'[p] = reqPc[p]
        /\ UNCHANGED <<clock, deadline, orphaned, hold, approval, token, resPc>>
    BY <1>4 DEF RequestInsert, RequestAbort, RequestInTx, dbVars, resVars, TypeOK
  <2>2. QED
    BY <1>1, <2>1 DEF HoldsAreSound, CancelledIsNotResumable, TypeOK
<1>5. ASSUME NEW q \in Requests, RequestHold(q) PROVE HoldsAreSound' /\ CancelledIsNotResumable'
  <2>1. /\ reqPc[q] = "inserted" /\ reqPc' = [reqPc EXCEPT ![q] = "held"]
        /\ UNCHANGED <<clock, deadline, orphaned, approval, token, resPc>>
    BY <1>5 DEF RequestHold, dbVars, resVars
  <2>2. /\ \A e \in Events : e # EventOf[q] => hold'[e] = Evicted[e]
        /\ hold'[EventOf[q]] = {q}
    <3>1. CASE Evicted[EventOf[q]] = {} /\ hold' = [Evicted EXCEPT ![EventOf[q]] = {q}]
      BY <1>1, <3>1, EvictedType
    <3>2. CASE HoldMatches(Evicted, EventOf[q], q) /\ hold' = Evicted
      <4>1. Evicted[EventOf[q]] \subseteq {q}
        BY <1>1, <1>2 DEF HoldsAreSound, TypeOK
      <4>2. Evicted[EventOf[q]] # {}
        BY <3>2 DEF HoldMatches
      <4>3. QED
        BY <3>2, <4>1, <4>2
    <3>3. QED
      BY <1>5, <3>1, <3>2 DEF RequestHold
  <2>3. \A e \in Events : \A p \in hold'[e] : EventOf[p] = e
    BY <1>2, <2>2 DEF HoldsAreSound
  <2>4. \A p \in Requests :
          (reqPc'[p] = "held" \/ token[p] # "NONE") /\ p \notin orphaned /\ clock < deadline[p] =>
            p \in hold'[EventOf[p]]
    <3> SUFFICES ASSUME NEW p \in Requests, reqPc'[p] = "held" \/ token[p] # "NONE",
                        p \notin orphaned, clock < deadline[p]
                 PROVE  p \in hold'[EventOf[p]]
      OBVIOUS
    <3>1. CASE p = q
      BY <2>2, <3>1
    <3>2. CASE p # q
      <4>1. p \in hold[EventOf[p]] /\ EventOf[p] # EventOf[q]
        BY <1>1, <2>1, <3>2 DEF HoldsAreSound, TypeOK
      <4>2. QED
        BY <1>1, <1>2, <2>2, <4>1
    <3>3. QED
      BY <3>1, <3>2
  <2>5. \A p \in orphaned : /\ reqPc'[p] = "done" /\ hold'[EventOf[p]] = {}
                            /\ \A r \in Resumers : TokenOf[r] = p =>
                                 resPc'[r] \notin {"argued", "consumed", "touched"}
    <3> SUFFICES ASSUME NEW p \in orphaned
                 PROVE  /\ reqPc'[p] = "done" /\ hold'[EventOf[p]] = {}
                        /\ \A r \in Resumers : TokenOf[r] = p =>
                             resPc'[r] \notin {"argued", "consumed", "touched"}
      OBVIOUS
    <3>1. p # q /\ p \in Requests /\ hold[EventOf[p]] = {} /\ reqPc[p] = "done"
      BY <2>1 DEF HoldsAreSound, TypeOK
    <3>2. EventOf[p] # EventOf[q]
      BY <1>1, <3>1
    <3>3. hold'[EventOf[p]] = {}
      BY <1>1, <1>2, <2>2, <3>1, <3>2
    <3>4. reqPc'[p] = "done"
      BY <2>1, <3>1 DEF TypeOK
    <3>5. \A r \in Resumers : TokenOf[r] = p => resPc'[r] \notin {"argued", "consumed", "touched"}
      BY <2>1 DEF HoldsAreSound
    <3>6. QED
      BY <3>3, <3>4, <3>5
  <2>6. \A p \in Requests : reqPc'[p] # "done" => approval[EventOf[p]].state = "NONE"
    BY <2>1 DEF HoldsAreSound, TypeOK
  <2>7. QED
    BY <2>1, <2>3, <2>4, <2>5, <2>6 DEF HoldsAreSound, CancelledIsNotResumable
<1>6. ASSUME NEW q \in Requests, RequestHoldRefused(q) PROVE HoldsAreSound' /\ CancelledIsNotResumable'
  <2>1. /\ reqPc[q] = "inserted" /\ reqPc' = [reqPc EXCEPT ![q] = "unheld"]
        /\ hold' \in {hold, Evicted}
        /\ UNCHANGED <<clock, deadline, orphaned, approval, token, resPc>>
    BY <1>6 DEF RequestHoldRefused, dbVars, resVars
  <2>2. QED
    BY <1>1, <1>2, <2>1 DEF HoldsAreSound, CancelledIsNotResumable, TypeOK
<1>7. ASSUME NEW q \in Requests, RequestIssue(q) PROVE HoldsAreSound' /\ CancelledIsNotResumable'
  <2>1. /\ reqPc[q] = "held" /\ reqPc' = [reqPc EXCEPT ![q] = "done"]
        /\ approval'[EventOf[q]] = RowInTx(q)
        /\ \A e \in Events : e # EventOf[q] => approval'[e] = approval[e]
        /\ \A p \in Requests : p # q => token'[p] = token[p]
        /\ UNCHANGED <<clock, deadline, orphaned, hold, resPc>>
    BY <1>7, IssueWrites DEF RequestIssue
  <2>2. RowInTx(q).state = "PENDING"
    BY <2>1 DEF HoldsAreSound, RowInTx
  <2>3. QED
    BY <1>1, <2>1, <2>2 DEF HoldsAreSound, CancelledIsNotResumable, TypeOK
<1>8. ASSUME NEW q \in Requests, RequestCancel(q) PROVE HoldsAreSound' /\ CancelledIsNotResumable'
  <2>1. /\ reqPc[q] = "unheld" /\ reqPc' = [reqPc EXCEPT ![q] = "done"]
        /\ \A e \in Events : e # EventOf[q] => approval'[e] = approval[e]
        /\ UNCHANGED <<clock, deadline, orphaned, hold, token, resPc>>
    BY <1>8, CancelWrites DEF RequestCancel
  <2>2. QED
    BY <1>1, <2>1 DEF HoldsAreSound, CancelledIsNotResumable, TypeOK
<1>9. ASSUME NEW r \in Resumers, ResumeStep(r) PROVE HoldsAreSound' /\ CancelledIsNotResumable'
  <2>1. /\ UNCHANGED <<clock, reqPc, deadline, orphaned, approval>>
        /\ hold' = hold \/ hold' = Evicted
        /\ \A s \in Resumers : s # r => resPc'[s] = resPc[s]
        /\ resPc'[r] \in {"argued", "consumed", "touched"} =>
             resPc[r] \in {"argued", "consumed", "touched"} \/ ArgumentsHeld(r)
    BY <1>9, ResumeHolds, ResumeFrame
  <2>2. \A q \in Requests : token'[q] = token[q] \/ token[q] # "NONE"
    <3>1. CASE ResumeCommit(r)
      BY <3>1, RedeemWrites DEF TypeOK
    <3>2. CASE ~ResumeCommit(r)
      BY <1>9, <3>2 DEF ResumeStep, ResumeLocate, ResumeRevalidate, ResumeRequireHold,
                        ResumeConsume, ResumeTouch, ResumeRefused, ResumeAbort, dbVars
    <3>3. QED
      BY <3>1, <3>2
  <2>3. ASSUME NEW q \in orphaned, TokenOf[r] = q PROVE ~ArgumentsHeld(r)
    BY <1>2, <2>3 DEF ArgumentsHeld, HoldMatches, HoldsAreSound, TypeOK
  <2>4. CancelledIsNotResumable'
    BY <2>1, <2>2 DEF CancelledIsNotResumable
  <2>5. \A q \in orphaned : /\ reqPc'[q] = "done" /\ hold'[EventOf[q]] = {}
                            /\ \A s \in Resumers : TokenOf[s] = q =>
                                 resPc'[s] \notin {"argued", "consumed", "touched"}
    BY <1>1, <1>2, <2>1, <2>3 DEF HoldsAreSound, TypeOK
  <2>6. HoldsAreSound'
    BY <1>1, <1>2, <2>1, <2>2, <2>5 DEF HoldsAreSound
  <2>7. QED
    BY <2>4, <2>6
<1>10. ASSUME NEW a \in Audits, ResolveCommit(a) PROVE CancelledIsNotResumable'
  BY <1>10, DecisionWrites DEF CancelledIsNotResumable
<1>11. ASSUME NEW a \in Audits, ResolveCommit(a)
       PROVE  \A q \in Requests : reqPc[q] # "done" => approval'[EventOf[q]].state = "NONE"
  BY <1>1, <1>11, DecisionWrites DEF HoldsAreSound
<1>12. CASE UNCHANGED <<clock, reqPc, deadline, orphaned, hold, resPc>>
  <2>1. CASE UNCHANGED <<approval, token>>
    BY <1>12, <2>1 DEF HoldsAreSound, CancelledIsNotResumable
  <2>2. ASSUME NEW a \in Audits, ResolveCommit(a) PROVE HoldsAreSound'
    <3>1. UNCHANGED token
      BY <2>2, DecisionWrites
    <3>2. QED
      BY <1>11, <1>12, <2>2, <3>1 DEF HoldsAreSound
  <2>3. ASSUME NEW q \in Requests PROVE ~RequestIssue(q) /\ ~RequestCancel(q)
    BY <1>12 DEF RequestIssue, RequestCancel, TypeOK
  <2>4. ASSUME NEW r \in Resumers PROVE ~ResumeCommit(r)
    BY <1>12 DEF ResumeCommit, TypeOK
  <2>5. QED
    BY <1>10, <2>1, <2>2, <2>3, <2>4, RowsFrame
<1>13. CASE Tick
  <2>1. clock' = clock + 1 /\ UNCHANGED <<reqPc, deadline, orphaned, hold, approval, token, resPc>>
    BY <1>13 DEF Tick, reqVars, dbVars, resVars
  <2>2. QED
    BY <2>1 DEF HoldsAreSound, CancelledIsNotResumable, TypeOK
<1>14. CASE Restart
  <2>1. /\ \A q \in Requests : reqPc'[q] = IF reqPc[q] = "idle" THEN "idle" ELSE "done"
        /\ orphaned' = {q \in Requests : reqPc[q] # "idle"}
        /\ \A e \in Events : hold'[e] = {}
        /\ \A r \in Resumers : resPc'[r] = "idle"
        /\ UNCHANGED <<clock, deadline, approval, token>>
    BY <1>14 DEF Restart, dbVars
  <2>2. QED
    BY <1>1, <2>1 DEF HoldsAreSound, CancelledIsNotResumable, TypeOK
<1>15. QED
  BY <1>3, <1>4, <1>5, <1>6, <1>7, <1>8, <1>9, <1>12, <1>13, <1>14, HoldFrame DEF RequestStep

LEMMA HoldInductive ==
  ASSUME OneRequestPerEvent
  PROVE  /\ Init => HoldInv
         /\ HoldInv /\ [Next]_vars => HoldInv'
<1>1. Init => HoldInv
  BY RowInductive, ApprovalAssumption DEF Init, HoldInv, HoldsAreSound, CancelledIsNotResumable, NoRow
<1>2. HoldInv /\ [Next]_vars => HoldInv'
  BY RowInductive, HoldsStep DEF HoldInv
<1>3. QED
  BY <1>1, <1>2

\* As long as an event is requested once, a token that can be redeemed finds
\* its arguments in the hold unless the process restarted: nothing evicts them
\* before (approval_service.py, "orden critico").
THEOREM LiveTokenAlwaysHeld ==
  ASSUME OneRequestPerEvent
  PROVE  Spec => []LiveTokenHasArguments
<1>1. HoldInv => LiveTokenHasArguments
  <2> SUFFICES ASSUME HoldInv, NEW q \in Requests, token[q] = "ACTIVE", clock < deadline[q], q \notin orphaned
               PROVE  \E p \in approval[EventOf[q]].from : HoldMatches(hold, EventOf[q], p)
    BY DEF LiveTokenHasArguments
  <2> USE ApprovalAssumption DEF HoldInv, RowInv, SafetyInv
  <2>1. EventOf[q] \in Events /\ approval[EventOf[q]].from \subseteq Requests
    BY DEF TypeOK, ApprovalRow
  <2>2. q \in approval[EventOf[q]].from
    BY <2>1 DEF RowsAreSound, OneRequestPerEvent
  <2>3. q \in hold[EventOf[q]]
    BY DEF HoldsAreSound
  <2>4. QED
    BY <2>2, <2>3 DEF HoldMatches
<1>2. QED
  BY HoldInductive, <1>1, PTL DEF Spec

\* As long as an event is requested once, a cancelled request has no token
\* (approval_service.py, point 2 of its docstring).
THEOREM CancelledNeverResumable ==
  ASSUME OneRequestPerEvent
  PROVE  Spec => []CancelledIsNotResumable
<1>1. HoldInv => CancelledIsNotResumable
  BY DEF HoldInv
<1>2. QED
  BY HoldInductive, <1>1, PTL DEF Spec

\* As long as an event is requested once, the token of a request that lost its
\* arguments in a restart is never redeemed (governed_resume.py).
THEOREM TokenSurvivesRestart ==
  ASSUME OneRequestPerEvent
  PROVE  Spec => RestartKeepsToken
<1>1. HoldInv /\ [Next]_vars =>
        [\A q \in Requests : q \in orphaned /\ token[q] = "ACTIVE" => token'[q] = "ACTIVE"]_vars
  <2> SUFFICES ASSUME HoldInv, [Next]_vars, NEW q \in Requests, q \in orphaned, token[q] = "ACTIVE"
               PROVE  token'[q] = "ACTIVE"
    OBVIOUS
  <2> USE DEF HoldInv, RowInv, SafetyInv
  <2>1. ASSUME NEW p \in Requests, RequestIssue(p) PROVE token'[q] = "ACTIVE"
    BY <2>1, IssueWrites
  <2>2. ASSUME NEW p \in Requests, RequestCancel(p) PROVE token'[q] = "ACTIVE"
    BY <2>2, CancelWrites
  <2>3. ASSUME NEW a \in Audits, ResolveCommit(a) PROVE token'[q] = "ACTIVE"
    BY <2>3, DecisionWrites
  <2>4. ASSUME NEW r \in Resumers, ResumeCommit(r) PROVE token'[q] = "ACTIVE"
    <3>1. TokenOf[r] # q
      BY <2>4 DEF ResumeCommit, HoldsAreSound
    <3>2. QED
      BY <2>4, <3>1, RedeemWrites DEF TypeOK
  <2>5. QED
    BY <2>1, <2>2, <2>3, <2>4, RowsFrame
<1>2. QED
  BY HoldInductive, <1>1, PTL DEF Spec, RestartKeepsToken

-----------------------------------------------------------------------------
(* Results, with one executor for each capability as well.                 *)

\* An event has no result before its effect, nor before the executor whose tool
\* returned has tried to record it; who records has had its effect.
ResultsAreSound ==
    /\ \A e \in Events : effects[e] = 0 => result[e] = "NONE"
    /\ \A x \in Executors : exePc[x] = "ok" =>
         result[EventOfExec(x)] = "NONE" /\ "ok" \in outcomes[EventOfExec(x)]
    /\ \A x \in Executors : exePc[x] \in {"ok", "raised"} => effects[EventOfExec(x)] # 0

ResultInv == EffectInv /\ ResultsAreSound /\ SuccessIsReal

\* Only these steps touch results, effects and what an executor reports.
LEMMA ResultFrame ==
  ASSUME [Next]_vars
  PROVE  \/ UNCHANGED <<result, effects, outcomes, exePc, report>>
         \/ \E x \in Executors : ExecStep(x)
         \/ Restart
<1>1. ASSUME NEW q \in Requests, RequestStep(q)
      PROVE  UNCHANGED <<result, effects, outcomes, exePc, report>>
  BY <1>1 DEF RequestStep, RequestStart, RequestInsert, RequestHold, RequestHoldRefused, RequestIssue,
              RequestCancel, RequestAbort, dbVars, exeVars
<1>2. ASSUME NEW a \in Audits, ResolveStep(a)
      PROVE  UNCHANGED <<result, effects, outcomes, exePc, report>>
  BY <1>2 DEF ResolveStep, ResolveBegin, ResolveUpdate, ResolveCommit, ResolveConflict, ResolveAbort,
              dbVars, exeVars
<1>3. ASSUME NEW r \in Resumers, ResumeStep(r)
      PROVE  UNCHANGED <<result, effects, outcomes, exePc, report>>
  BY <1>3 DEF ResumeStep, ResumeLocate, ResumeRevalidate, ResumeRequireHold, ResumeConsume, ResumeTouch,
              ResumeCommit, ResumeRefused, ResumeAbort, dbVars, exeVars
<1>4. CASE Tick \/ UNCHANGED vars
  BY <1>4 DEF Tick, vars, dbVars, exeVars
<1>5. QED
  BY <1>1, <1>2, <1>3, <1>4 DEF Next

\* What an executor's write of a status does.
LEMMA StatusWrites ==
  ASSUME TypeOK, NEW x \in Executors, NEW status \in {"SUCCESS", "FAILED"}
  PROVE  /\ WithResult(x, status)[EventOfExec(x)] =
              IF result[EventOfExec(x)] = "NONE" THEN status ELSE result[EventOfExec(x)]
         /\ \A e \in Events : e # EventOfExec(x) => WithResult(x, status)[e] = result[e]
BY EventOfExecType DEF WithResult, TypeOK

\* In the program's wiring every step keeps recorded successes real: whoever
\* records for an event is alone, and records after its own effect.
LEMMA ResultsStep ==
  ASSUME ResultInv, [Next]_vars, OneRequestPerEvent, OneExecutorPerCapability
  PROVE  ResultsAreSound' /\ SuccessIsReal'
<1> USE EventOfExecType DEF ResultInv, EffectInv, SafetyInv
<1>1. \A y \in Executors : EventOfExec(y)' = EventOfExec(y)
  BY DEF EventOfExec
<1>2. ASSUME NEW x \in Executors, NEW y \in Executors, y # x, exePc[x] # "idle", exePc[y] # "idle"
      PROVE  EventOfExec(y) # EventOfExec(x)
  BY <1>2, WorkerIsAlone
<1>3. ASSUME NEW x \in Executors, ExecCheck(x) \/ ExecReject(x) \/ ExecClaim(x)
      PROVE  ResultsAreSound' /\ SuccessIsReal'
  <2>1. /\ UNCHANGED <<result, effects, outcomes>>
        /\ \A y \in Executors : exePc'[y] \in {"ok", "raised"} => exePc'[y] = exePc[y]
        /\ \A y \in Executors : report'[y] = "SUCCESS" => report[y] = "SUCCESS"
    BY <1>3 DEF ExecCheck, ExecReject, ExecClaim, dbVars, TypeOK
  <2>2. QED
    BY <1>1, <2>1 DEF ResultsAreSound, SuccessIsReal
<1>4. ASSUME NEW x \in Executors, ExecInvoke(x) PROVE ResultsAreSound' /\ SuccessIsReal'
  <2> DEFINE e == EventOfExec(x)
  <2>1. exePc[x] = "claimed" /\ effects[e] = 0 /\ result[e] = "NONE"
    BY <1>4 DEF ExecInvoke, ArmedIsFirst, ResultsAreSound
  <2>2. PICK o \in {"ok", "raised"} : /\ exePc' = [exePc EXCEPT ![x] = o]
                                      /\ outcomes' = [outcomes EXCEPT ![e] = @ \cup {o}]
    BY <1>4 DEF ExecInvoke
  <2>3. UNCHANGED <<result, report>> /\ \A f \in Events : effects'[f] = 0 => effects[f] = 0
    BY <1>4 DEF ExecInvoke, dbVars, TypeOK
  <2>4. (\A f \in Events : outcomes[f] \subseteq outcomes'[f]) /\ o \in outcomes'[e]
    BY <2>2 DEF TypeOK
  <2>5. \A y \in Executors : exePc'[y] = "ok" =>
          result[EventOfExec(y)] = "NONE" /\ "ok" \in outcomes'[EventOfExec(y)]
    BY <2>1, <2>2, <2>4 DEF ResultsAreSound, TypeOK
  <2>6. \A y \in Executors : exePc'[y] \in {"ok", "raised"} => effects'[EventOfExec(y)] # 0
    <3>1. effects'[e] # 0 /\ \A f \in Events : effects[f] # 0 => effects'[f] # 0
      BY <1>4 DEF ExecInvoke, TypeOK
    <3>2. QED
      BY <2>2, <3>1 DEF ResultsAreSound, TypeOK
  <2>7. QED
    BY <1>1, <2>3, <2>4, <2>5, <2>6 DEF ResultsAreSound, SuccessIsReal
<1>5. ASSUME NEW x \in Executors, ExecPersistSuccess(x) \/ ExecPersistLost(x) \/ ExecPersistFailed(x)
      PROVE  ResultsAreSound' /\ SuccessIsReal'
  <2> DEFINE e == EventOfExec(x)
  <2>1. /\ exePc[x] \in {"ok", "raised"} /\ exePc'[x] \in {"idle", "raised"}
        /\ \A y \in Executors : y # x => exePc'[y] = exePc[y] /\ report'[y] = report[y]
        /\ UNCHANGED <<effects, outcomes>>
    BY <1>5 DEF ExecPersistSuccess, ExecPersistLost, ExecPersistFailed, TypeOK
  <2>2. \A f \in Events : f # e => result'[f] = result[f]
    BY <1>5, StatusWrites DEF ExecPersistSuccess, ExecPersistLost, ExecPersistFailed
  <2>3. result'[e] = "SUCCESS" => result[e] = "SUCCESS" \/ exePc[x] = "ok"
    BY <1>5, StatusWrites DEF ExecPersistSuccess, ExecPersistLost, ExecPersistFailed
  <2>4. report'[x] = "SUCCESS" => report[x] = "SUCCESS" \/ (exePc[x] = "ok" /\ result' = WithResult(x, "SUCCESS"))
    BY <1>5 DEF ExecPersistSuccess, ExecPersistLost, ExecPersistFailed, TypeOK
  <2>5. result[e] = "SUCCESS" => result'[e] = "SUCCESS"
    BY <1>5, StatusWrites DEF ExecPersistSuccess, ExecPersistLost, ExecPersistFailed
  <2>6. \A f \in Events : effects[f] = 0 => result'[f] = "NONE"
    <3>1. effects[e] # 0
      BY <2>1 DEF ResultsAreSound
    <3>2. QED
      BY <2>2, <3>1 DEF ResultsAreSound
  <2>7. \A y \in Executors : exePc'[y] = "ok" =>
          result'[EventOfExec(y)] = "NONE" /\ "ok" \in outcomes[EventOfExec(y)]
    BY <1>2, <2>1, <2>2 DEF ResultsAreSound
  <2>8. \A f \in Events : result'[f] = "SUCCESS" => "ok" \in outcomes[f]
    BY <2>2, <2>3 DEF ResultsAreSound, SuccessIsReal
  <2>9. \A y \in Executors : report'[y] = "SUCCESS" => result'[EventOfExec(y)] = "SUCCESS"
    <3>1. report'[x] = "SUCCESS" => result'[e] = "SUCCESS"
      BY <2>4, <2>5, StatusWrites DEF ResultsAreSound, SuccessIsReal
    <3>2. QED
      BY <2>1, <2>2, <2>5, <3>1 DEF SuccessIsReal
  <2>10. QED
    BY <1>1, <2>1, <2>6, <2>7, <2>8, <2>9 DEF ResultsAreSound, SuccessIsReal
<1>6. CASE UNCHANGED <<result, effects, outcomes, exePc, report>>
  BY <1>1, <1>6 DEF ResultsAreSound, SuccessIsReal
<1>7. CASE Restart
  <2>1. /\ UNCHANGED <<result, effects, outcomes>>
        /\ \A y \in Executors : exePc'[y] = "idle" /\ report'[y] = "none"
    BY <1>7 DEF Restart, dbVars
  <2>2. QED
    BY <1>1, <2>1 DEF ResultsAreSound, SuccessIsReal
<1>8. QED
  BY <1>3, <1>4, <1>5, <1>6, <1>7, ResultFrame DEF ExecStep

\* In the program's wiring a SUCCESS row, and a SUCCESS answer, mean that the
\* tool returned, and that the row says so, whatever failed or was lost in
\* between (hitl/execution.py).
THEOREM SuccessAlwaysReal ==
  ASSUME OneRequestPerEvent, OneExecutorPerCapability
  PROVE  Spec => []SuccessIsReal
<1>1. Init => ResultsAreSound /\ SuccessIsReal
  BY EventOfExecType DEF Init, ResultsAreSound, SuccessIsReal
<1>2. EffectInv /\ ResultsAreSound /\ SuccessIsReal /\ [Next]_vars => ResultsAreSound' /\ SuccessIsReal'
  BY ResultsStep DEF ResultInv
<1>3. QED
  BY <1>1, <1>2, EffectInvariant, PTL DEF Spec

-----------------------------------------------------------------------------
(* The refinement of HumanApproval.                                        *)

Redeemed(e, tok) == \E q \in Requests : EventOf[q] = e /\ tok[q] = "REDEEMED"

\* What PhaseOf says of a row, before and after a step.
LEMMA PhaseNames ==
  ASSUME NEW e \in Events, effects[e] = 0, ~Redeemed(e, token)
  PROVE  /\ approval[e].state = "NONE" => PhaseOf(e) = "unrequested"
         /\ approval[e].state = "PENDING" => PhaseOf(e) = "pending"
         /\ approval[e].state = "APPROVED" => PhaseOf(e) = "approved"
BY DEF PhaseOf, Redeemed

LEMMA PhaseNamesAfter ==
  ASSUME NEW e \in Events, effects'[e] = 0, ~Redeemed(e, token')
  PROVE  /\ approval'[e].state = "PENDING" => PhaseOf(e)' = "pending"
         /\ approval'[e].state = "APPROVED" => PhaseOf(e)' = "approved"
         /\ approval'[e].state = "REJECTED" => PhaseOf(e)' = "rejected"
         /\ approval'[e].state = "CANCELLED" => PhaseOf(e)' = "withdrawn"
BY DEF PhaseOf, Redeemed

LEMMA PhaseNamesRedeemed ==
  ASSUME NEW e \in Events
  PROVE  /\ effects[e] = 0 /\ Redeemed(e, token) => PhaseOf(e) = "redeemed"
         /\ effects'[e] = 0 /\ Redeemed(e, token') => PhaseOf(e)' = "redeemed"
         /\ effects'[e] = 1 => PhaseOf(e)' = "executed"
BY DEF PhaseOf, Redeemed

LEMMA PhaseKept ==
  ASSUME NEW e \in Events, approval'[e] = approval[e], effects'[e] = effects[e],
         Redeemed(e, token') <=> Redeemed(e, token)
  PROVE  PhaseOf(e)' = PhaseOf(e)
<1>1. CASE Redeemed(e, token)
  BY <1>1 DEF PhaseOf, Redeemed
<1>2. CASE ~Redeemed(e, token)
  BY <1>2 DEF PhaseOf, Redeemed
<1>3. QED
  BY <1>1, <1>2

\* A step that moves the phase of one event only is a move of the promise.
LEMMA OneMove ==
  ASSUME NEW e \in Events, NEW from, NEW to, PhaseOf(e) = from, PhaseOf(e)' = to,
         \A f \in Events : f # e => PhaseOf(f)' = PhaseOf(f)
  PROVE  Promise!Move(e, from, to)
<1>1. [f \in Events |-> PhaseOf(f)]' = [[f \in Events |-> PhaseOf(f)] EXCEPT ![e] = to]
  OBVIOUS
<1>2. QED
  BY <1>1 DEF Promise!Move

PromiseInv == HoldInv /\ EffectInv

\* A row that is not approved has no redeemed token and no effect; nor has an
\* approved one whose token is still to be redeemed.
LEMMA Untouched ==
  ASSUME PromiseInv, OneRequestPerEvent, NEW e \in Events,
         \/ approval[e].state # "APPROVED"
         \/ \E q \in Requests : EventOf[q] = e /\ token[q] = "ACTIVE"
  PROVE  effects[e] = 0 /\ ~Redeemed(e, token)
<1>1. ~Redeemed(e, token)
  BY DEF PromiseInv, HoldInv, RowInv, RowsAreSound, Redeemed, OneRequestPerEvent
<1>2. effects[e] = 0
  BY <1>1 DEF PromiseInv, EffectInv, SafetyInv, EffectsAreApproved, TypeOK, Redeemed
<1>3. QED
  BY <1>1, <1>2

\* Each step of the protocol is a step of its promise or changes nothing in it.
LEMMA PromiseStep ==
  ASSUME PromiseInv, [Next]_vars, OneRequestPerEvent
  PROVE  Promise!AbstractNext \/ UNCHANGED Promise!aVars
<1> USE ApprovalAssumption DEF PromiseInv, HoldInv, RowInv, EffectInv, SafetyInv
<1>1. ASSUME NEW q \in Requests, RequestIssue(q) PROVE Promise!AbstractNext
  <2> DEFINE e == EventOf[q]
  <2>1. /\ reqPc[q] = "held" /\ approval'[e] = RowInTx(q)
        /\ \A f \in Events : f # e => approval'[f] = approval[f]
        /\ token'[q] = "ACTIVE" /\ \A p \in Requests : p # q => token'[p] = token[p]
        /\ UNCHANGED effects
    BY <1>1, IssueWrites
  <2>2. approval[e].state = "NONE" /\ approval'[e].state = "PENDING"
    BY <2>1 DEF HoldsAreSound, RowInTx
  <2>3. token[q] # "REDEEMED"
    BY <2>1 DEF ResumesAreSound
  <2>4. \A f \in Events : Redeemed(f, token') <=> Redeemed(f, token)
    BY <2>1, <2>3 DEF Redeemed
  <2>5. effects[e] = 0 /\ ~Redeemed(e, token)
    BY <2>2, Untouched
  <2>6. PhaseOf(e) = "unrequested" /\ PhaseOf(e)' = "pending"
    BY <2>1, <2>2, <2>4, <2>5, PhaseNames, PhaseNamesAfter, PhaseNamesRedeemed
  <2>7. \A f \in Events : f # e => PhaseOf(f)' = PhaseOf(f)
    BY <2>1, <2>4, PhaseKept
  <2>8. Promise!Ask(e)
    BY <2>1, <2>6, <2>7, OneMove DEF Promise!Ask
  <2>9. QED
    BY <2>8 DEF Promise!AbstractNext
<1>2. ASSUME NEW q \in Requests, RequestCancel(q) PROVE Promise!AbstractNext
  <2> DEFINE e == EventOf[q]
  <2>1. /\ reqPc[q] = "unheld"
        /\ approval'[e] = IF RowInTx(q).state = "PENDING"
                          THEN [RowInTx(q) EXCEPT !.state = "CANCELLED"] ELSE RowInTx(q)
        /\ \A f \in Events : f # e => approval'[f] = approval[f]
        /\ UNCHANGED <<token, effects>>
    BY <1>2, CancelWrites
  <2>2. approval[e].state = "NONE" /\ approval'[e].state = "CANCELLED"
    BY <2>1 DEF HoldsAreSound, RowInTx
  <2>3. effects[e] = 0 /\ ~Redeemed(e, token)
    BY <2>2, Untouched
  <2>4. PhaseOf(e) = "unrequested" /\ PhaseOf(e)' = "withdrawn"
    BY <2>1, <2>2, <2>3, PhaseNames, PhaseNamesAfter, PhaseNamesRedeemed
  <2>5. \A f \in Events : f # e => PhaseOf(f)' = PhaseOf(f)
    BY <2>1, PhaseKept
  <2>6. Promise!Withdraw(e)
    BY <2>1, <2>4, <2>5, OneMove DEF Promise!Withdraw
  <2>7. QED
    BY <2>6 DEF Promise!AbstractNext
<1>3. ASSUME NEW a \in Audits, ResolveCommit(a) PROVE Promise!AbstractNext
  <2> DEFINE e == AuditEvent[a]
  <2>1. /\ approval[e].state = "PENDING" /\ approval'[e].state \in {"APPROVED", "REJECTED"}
        /\ \A f \in Events : f # e => approval'[f] = approval[f]
        /\ UNCHANGED <<token, effects>>
    BY <1>3, DecisionWrites
  <2>2. e \in Events /\ effects[e] = 0 /\ ~Redeemed(e, token)
    BY <2>1, Untouched
  <2>3. PhaseOf(e) = "pending" /\ PhaseOf(e)' \in {"approved", "rejected"}
    BY <2>1, <2>2, PhaseNames, PhaseNamesAfter, PhaseNamesRedeemed
  <2>4. \A f \in Events : f # e => PhaseOf(f)' = PhaseOf(f)
    BY <2>1, PhaseKept
  <2>5. \E verdict \in {"approved", "rejected"} : Promise!Move(e, "pending", verdict)
    BY <2>2, <2>3, <2>4, OneMove
  <2>6. Promise!Decide(e)
    BY <2>1, <2>5 DEF Promise!Decide
  <2>7. QED
    BY <2>2, <2>6 DEF Promise!AbstractNext
<1>4. ASSUME NEW r \in Resumers, ResumeCommit(r) PROVE Promise!AbstractNext
  <2> DEFINE e == EventOf[TokenOf[r]]
  <2>1. /\ token[TokenOf[r]] = "ACTIVE" /\ approval[e].state = "APPROVED"
        /\ token' = [token EXCEPT ![TokenOf[r]] = "REDEEMED"]
        /\ UNCHANGED <<approval, effects>> /\ e \in Events /\ TokenOf[r] \in Requests
    BY <1>4, RedeemWrites
  <2>2. effects[e] = 0 /\ ~Redeemed(e, token)
    BY <2>1, Untouched
  <2>3. Redeemed(e, token') /\ \A f \in Events : f # e => (Redeemed(f, token') <=> Redeemed(f, token))
    BY <2>1 DEF Redeemed, TypeOK
  <2>4. PhaseOf(e) = "approved" /\ PhaseOf(e)' = "redeemed"
    BY <2>1, <2>2, <2>3, PhaseNames, PhaseNamesAfter, PhaseNamesRedeemed
  <2>5. \A f \in Events : f # e => PhaseOf(f)' = PhaseOf(f)
    BY <2>1, <2>3, PhaseKept
  <2>6. Promise!Redeem(e)
    BY <2>1, <2>4, <2>5, OneMove DEF Promise!Redeem
  <2>7. QED
    BY <2>1, <2>6 DEF Promise!AbstractNext
<1>5. ASSUME NEW x \in Executors, ExecInvoke(x) PROVE Promise!AbstractNext
  <2> DEFINE e == EventOfExec(x)
  <2>1. /\ exePc[x] = "claimed" /\ e \in Events
        /\ effects' = [effects EXCEPT ![e] = @ + 1] /\ UNCHANGED <<approval, token>>
    BY <1>5, EventOfExecType DEF ExecInvoke, dbVars
  <2>2. effects[e] = 0 /\ effects'[e] = 1 /\ \A f \in Events : f # e => effects'[f] = effects[f]
    BY <2>1 DEF ArmedIsFirst, TypeOK
  <2>3. Redeemed(e, token)
    BY <2>1, EventOfExecType DEF ExecutorsAreSound, ResumesAreSound, EventOfExec, Redeemed
  <2>4. PhaseOf(e) = "redeemed" /\ PhaseOf(e)' = "executed"
    BY <2>1, <2>2, <2>3, PhaseNames, PhaseNamesAfter, PhaseNamesRedeemed
  <2>5. \A f \in Events : f # e => PhaseOf(f)' = PhaseOf(f)
    BY <2>1, <2>2, PhaseKept
  <2>6. Promise!Execute(e)
    BY <2>1, <2>4, <2>5, OneMove DEF Promise!Execute
  <2>7. QED
    BY <2>1, <2>6 DEF Promise!AbstractNext
<1>6. ASSUME UNCHANGED <<approval, token, effects>> PROVE UNCHANGED Promise!aVars
  <2>1. \A e \in Events : PhaseOf(e)' = PhaseOf(e)
    BY <1>6, PhaseKept DEF Redeemed
  <2>2. [e \in Events |-> PhaseOf(e)]' = [e \in Events |-> PhaseOf(e)]
    BY <2>1
  <2>3. QED
    BY <1>6, <2>2 DEF Promise!aVars
<1>7. ASSUME UNCHANGED <<approval, token, given>>, \A x \in Executors : ~ExecInvoke(x)
      PROVE  UNCHANGED effects
  <2>1. ASSUME NEW x \in Executors, ExecStep(x) PROVE UNCHANGED effects
    BY <1>7, <2>1 DEF ExecStep, ExecCheck, ExecReject, ExecClaim, ExecPersistSuccess,
                      ExecPersistLost, ExecPersistFailed
  <2>2. CASE Restart
    BY <2>2 DEF Restart
  <2>3. QED
    BY <2>1, <2>2, ResultFrame
<1>8. QED
  BY <1>1, <1>2, <1>3, <1>4, <1>5, <1>6, <1>7, RowsFrame

\* In the program's wiring the requests, audits, resumes and executions that
\* race over the database, fail and restart do nothing but what HumanApproval
\* promises: ask, decide, redeem and execute once each, in that order (hitl/).
THEOREM ProtocolImplementsPromise ==
  ASSUME OneRequestPerEvent, OneExecutorPerCapability
  PROVE  Spec => ImplementsPromise
<1>1. Init => Promise!AbstractInit
  <2> SUFFICES ASSUME Init PROVE Promise!AbstractInit
    OBVIOUS
  <2>1. \A e \in Events : PhaseOf(e) = "unrequested"
    <3> SUFFICES ASSUME NEW e \in Events PROVE PhaseOf(e) = "unrequested"
      OBVIOUS
    <3>1. approval[e].state = "NONE" /\ effects[e] = 0 /\ ~Redeemed(e, token)
      BY ApprovalAssumption DEF Init, NoRow, Redeemed
    <3>2. QED
      BY <3>1, PhaseNames, PhaseNamesAfter, PhaseNamesRedeemed
  <2>2. QED
    BY <2>1 DEF Init, Promise!AbstractInit
<1>2. HoldInv /\ EffectInv /\ [Next]_vars => [Promise!AbstractNext]_(Promise!aVars)
  BY PromiseStep DEF PromiseInv
<1>3. QED
  BY <1>1, <1>2, HoldInductive, EffectInvariant, PTL
     DEF Spec, ImplementsPromise, Promise!AbstractSpec

=============================================================================
