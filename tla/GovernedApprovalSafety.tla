----------------------- MODULE GovernedApprovalSafety -----------------------
(***************************************************************************)
(* Type correctness and safety of GovernedApproval for every number of     *)
(* events, callers and restarts: SafetyInv is inductive; so is EffectInv,  *)
(* for the wiring under which an event has one request and a capability    *)
(* one executor.                                                           *)
(***************************************************************************)
EXTENDS GovernedApproval, TLAPS

-----------------------------------------------------------------------------
(* What the helpers of the actions return.                                 *)

\* Eviction yields a hold.
LEMMA EvictedType ==
  ASSUME TypeOK
  PROVE  Evicted \in [Events -> SUBSET Requests]
BY DEF TypeOK, Evicted

\* The row a request sees in its own transaction is a row.
LEMMA RowInTxType ==
  ASSUME TypeOK, NEW q \in Requests
  PROVE  RowInTx(q) \in ApprovalRow
BY ApprovalAssumption DEF TypeOK, RowInTx, ApprovalRow, Resolved

\* An executor works for an event.
LEMMA EventOfExecType ==
  ASSUME NEW x \in Executors
  PROVE  /\ CapOf[x] \in Resumers
         /\ TokenOf[CapOf[x]] \in Requests
         /\ EventOfExec(x) \in Events
BY ApprovalAssumption DEF EventOfExec

\* A persisted result is SUCCESS or FAILED.
LEMMA WithResultType ==
  ASSUME TypeOK, NEW x \in Executors, NEW status \in {"SUCCESS", "FAILED"}
  PROVE  WithResult(x, status) \in [Events -> {"NONE", "SUCCESS", "FAILED"}]
BY DEF TypeOK, WithResult

-----------------------------------------------------------------------------

\* The initial state is well typed.
LEMMA InitTypeOK == Init => TypeOK
BY ApprovalAssumption DEF Init, TypeOK, NoRow, NoCap, ApprovalRow, Resolved

\* Every step of a request, a resolve, a resume, an execution, the clock or a
\* restart keeps the types.
LEMMA StepTypeOK == TypeOK /\ [Next]_vars => TypeOK'
<1> USE ApprovalAssumption DEF TypeOK, ApprovalRow, Resolved, dbVars, reqVars, audVars, resVars, exeVars
<1> SUFFICES ASSUME TypeOK, [Next]_vars PROVE TypeOK'
  OBVIOUS
<1>1. ASSUME NEW q \in Requests, RequestStart(q) PROVE TypeOK'
  BY <1>1 DEF RequestStart
<1>2. ASSUME NEW q \in Requests, RequestInsert(q) PROVE TypeOK'
  BY <1>2 DEF RequestInsert
<1>3. ASSUME NEW q \in Requests, RequestHold(q) PROVE TypeOK'
  <2>1. EventOf[q] \in Events /\ Evicted \in [Events -> SUBSET Requests]
    BY EvictedType
  <2>2. [Evicted EXCEPT ![EventOf[q]] = {q}] \in [Events -> SUBSET Requests]
    BY ONLY <2>1
  <2>3. hold' \in [Events -> SUBSET Requests]
    BY <1>3, <2>1, <2>2 DEF RequestHold
  <2>4. QED
    BY <1>3, <2>3 DEF RequestHold
<1>4. ASSUME NEW q \in Requests, RequestHoldRefused(q) PROVE TypeOK'
  <2>1. hold' \in [Events -> SUBSET Requests]
    BY <1>4, EvictedType DEF RequestHoldRefused
  <2>2. QED
    BY <1>4, <2>1 DEF RequestHoldRefused
<1>5. ASSUME NEW q \in Requests, RequestIssue(q) PROVE TypeOK'
  <2>1. approval' \in [Events -> ApprovalRow]
    BY <1>5, RowInTxType DEF RequestIssue
  <2>2. QED
    BY <1>5, <2>1 DEF RequestIssue
<1>6. ASSUME NEW q \in Requests, RequestCancel(q) PROVE TypeOK'
  <2>1. RowInTx(q) \in ApprovalRow
    BY RowInTxType
  <2>2. [RowInTx(q) EXCEPT !.state = "CANCELLED"] \in ApprovalRow
    BY <2>1
  <2>3. approval' \in [Events -> ApprovalRow]
    BY <1>6, <2>1, <2>2 DEF RequestCancel
  <2>4. QED
    BY <1>6, <2>3 DEF RequestCancel
<1>7. ASSUME NEW q \in Requests, RequestAbort(q) PROVE TypeOK'
  BY <1>7 DEF RequestAbort
<1>8. ASSUME NEW a \in Audits, ResolveBegin(a) PROVE TypeOK'
  BY <1>8 DEF ResolveBegin
<1>9. ASSUME NEW a \in Audits, ResolveUpdate(a) PROVE TypeOK'
  BY <1>9 DEF ResolveUpdate
<1>10. ASSUME NEW a \in Audits, ResolveCommit(a) PROVE TypeOK'
  <2>1. audPc[a] \in {"APPROVED", "REJECTED"} /\ AuditEvent[a] \in Events
    BY <1>10 DEF ResolveCommit, AuditInTx
  <2>2. approval' \in [Events -> ApprovalRow]
    BY <1>10, <2>1 DEF ResolveCommit
  <2>3. QED
    BY <1>10, <2>2 DEF ResolveCommit
<1>11. ASSUME NEW a \in Audits, ResolveConflict(a) PROVE TypeOK'
  BY <1>11 DEF ResolveConflict
<1>12. ASSUME NEW a \in Audits, ResolveAbort(a) PROVE TypeOK'
  BY <1>12 DEF ResolveAbort
<1>13. ASSUME NEW r \in Resumers, ResumeLocate(r) PROVE TypeOK'
  BY <1>13 DEF ResumeLocate
<1>14. ASSUME NEW r \in Resumers, ResumeRevalidate(r) PROVE TypeOK'
  BY <1>14 DEF ResumeRevalidate
<1>15. ASSUME NEW r \in Resumers, ResumeRequireHold(r) PROVE TypeOK'
  <2>1. hold' \in [Events -> SUBSET Requests]
    BY <1>15, EvictedType DEF ResumeRequireHold
  <2>2. /\ \/ resPc' = [resPc EXCEPT ![r] = "argued"]
           \/ resPc' = [resPc EXCEPT ![r] = "idle"]
        /\ resStart' = resStart \/ resStart' = [resStart EXCEPT ![r] = 0]
        /\ UNCHANGED <<clock, crashes, reqVars, dbVars, audVars, cap, exeVars>>
    BY <1>15, Zenon DEF ResumeRequireHold
  <2>3. resPc' \in [Resumers -> {"idle", "located", "validated", "argued",
                                 "consumed", "touched", "granted"}]
    <3>1. CASE resPc' = [resPc EXCEPT ![r] = "argued"]
      BY <3>1
    <3>2. CASE resPc' = [resPc EXCEPT ![r] = "idle"]
      BY <3>2
    <3>3. QED
      BY <2>2, <3>1, <3>2
  <2>4. resStart' \in [Resumers -> Nat]
    <3>1. [resStart EXCEPT ![r] = 0] \in [Resumers -> Nat]
      OBVIOUS
    <3>2. QED
      BY <2>2, <3>1
  <2>5. QED
    BY <2>1, <2>2, <2>3, <2>4
<1>16. ASSUME NEW r \in Resumers, ResumeConsume(r) PROVE TypeOK'
  BY <1>16 DEF ResumeConsume
<1>17. ASSUME NEW r \in Resumers, ResumeTouch(r) PROVE TypeOK'
  BY <1>17 DEF ResumeTouch
<1>18. ASSUME NEW r \in Resumers, ResumeCommit(r) PROVE TypeOK'
  <2>1. /\ token' = [token EXCEPT ![TokenOf[r]] = "REDEEMED"]
        /\ \/ resPc' = [resPc EXCEPT ![r] = "granted"]
           \/ resPc' = [resPc EXCEPT ![r] = "idle"]
        /\ resStart' = [resStart EXCEPT ![r] = 0]
        /\ UNCHANGED <<clock, crashes, reqVars, approval, result, hold, audVars, exeVars>>
    BY <1>18, Zenon DEF ResumeCommit
  <2>2. \/ cap' = [cap EXCEPT ![r] = [state |-> "fresh", expires |-> clock + TTL]]
        \/ cap' = cap
    BY <1>18, Zenon DEF ResumeCommit
  <2>3. cap' \in [Resumers -> [state : {"none", "fresh", "consumed"}, expires : Nat]]
    <3>1. [state |-> "fresh", expires |-> clock + TTL]
            \in [state : {"none", "fresh", "consumed"}, expires : Nat]
      OBVIOUS
    <3>2. CASE cap' = cap
      BY <3>2
    <3>3. CASE cap' = [cap EXCEPT ![r] = [state |-> "fresh", expires |-> clock + TTL]]
      BY <3>1, <3>3
    <3>4. QED
      BY <2>2, <3>2, <3>3
  <2>4. token' \in [Requests -> {"NONE", "ACTIVE", "REDEEMED"}]
    BY <2>1
  <2>5. resPc' \in [Resumers -> {"idle", "located", "validated", "argued",
                                 "consumed", "touched", "granted"}]
    <3>1. CASE resPc' = [resPc EXCEPT ![r] = "granted"]
      BY <3>1
    <3>2. CASE resPc' = [resPc EXCEPT ![r] = "idle"]
      BY <3>2
    <3>3. QED
      BY <2>1, <3>1, <3>2
  <2>6. resStart' \in [Resumers -> Nat]
    BY <2>1
  <2>7. QED
    BY <2>1, <2>3, <2>4, <2>5, <2>6
<1>19. ASSUME NEW r \in Resumers, ResumeRefused(r) PROVE TypeOK'
  BY <1>19 DEF ResumeRefused
<1>20. ASSUME NEW r \in Resumers, ResumeAbort(r) PROVE TypeOK'
  BY <1>20 DEF ResumeAbort
<1>21. ASSUME NEW x \in Executors, ExecCheck(x) PROVE TypeOK'
  BY <1>21 DEF ExecCheck
<1>22. ASSUME NEW x \in Executors, ExecReject(x) PROVE TypeOK'
  BY <1>22 DEF ExecReject
<1>23. ASSUME NEW x \in Executors, ExecClaim(x) PROVE TypeOK'
  <2>1. CapOf[x] \in Resumers
    BY EventOfExecType
  <2>2. [cap[CapOf[x]] EXCEPT !.state = "consumed"]
          \in [state : {"none", "fresh", "consumed"}, expires : Nat]
    BY <2>1
  <2>3. cap' = [cap EXCEPT ![CapOf[x]] = [cap[CapOf[x]] EXCEPT !.state = "consumed"]]
    BY <1>23, <2>1 DEF ExecClaim
  <2>4. QED
    BY <1>23, <2>1, <2>2, <2>3 DEF ExecClaim
<1>24. ASSUME NEW x \in Executors, ExecInvoke(x) PROVE TypeOK'
  <2>1. effects' \in [Events -> Nat]
    BY <1>24, EventOfExecType DEF ExecInvoke
  <2>2. outcomes' \in [Events -> SUBSET {"ok", "raised"}]
    BY <1>24, EventOfExecType DEF ExecInvoke
  <2>3. QED
    BY <1>24, <2>1, <2>2 DEF ExecInvoke
<1>25. ASSUME NEW x \in Executors, ExecPersistSuccess(x) PROVE TypeOK'
  <2>1. result' \in [Events -> {"NONE", "SUCCESS", "FAILED"}]
    BY <1>25, WithResultType DEF ExecPersistSuccess
  <2>2. QED
    BY <1>25, <2>1 DEF ExecPersistSuccess
<1>26. ASSUME NEW x \in Executors, ExecPersistLost(x) PROVE TypeOK'
  <2>1. result' \in [Events -> {"NONE", "SUCCESS", "FAILED"}]
    BY <1>26, WithResultType DEF ExecPersistLost
  <2>2. QED
    BY <1>26, <2>1 DEF ExecPersistLost
<1>27. ASSUME NEW x \in Executors, ExecPersistFailed(x) PROVE TypeOK'
  <2>1. result' \in [Events -> {"NONE", "SUCCESS", "FAILED"}]
    BY <1>27, WithResultType DEF ExecPersistFailed
  <2>2. /\ \/ report' = [report EXCEPT ![x] = "FAILED"]
           \/ report' = [report EXCEPT ![x] = "unpersisted"]
        /\ exePc' = [exePc EXCEPT ![x] = "idle"]
        /\ UNCHANGED <<clock, crashes, reqVars, approval, token, hold, audVars,
                       resVars, effects, outcomes>>
    BY <1>27, Zenon DEF ExecPersistFailed
  <2>3. report' \in [Executors -> {"none", "rejected", "SUCCESS", "FAILED", "unpersisted"}]
    <3>1. CASE report' = [report EXCEPT ![x] = "FAILED"]
      BY <3>1
    <3>2. CASE report' = [report EXCEPT ![x] = "unpersisted"]
      BY <3>2
    <3>3. QED
      BY <2>2, <3>1, <3>2
  <2>4. exePc' \in [Executors -> {"idle", "checked", "claimed", "ok", "raised"}]
    BY <2>2
  <2>5. QED
    BY <2>1, <2>2, <2>3, <2>4
<1>28. CASE Tick
  BY <1>28 DEF Tick
<1>29. CASE Restart
  BY <1>29 DEF Restart, NoCap
<1>30. CASE UNCHANGED vars
  BY <1>30 DEF vars
<1>31. QED
  BY <1>1, <1>2, <1>3, <1>4, <1>5, <1>6, <1>7, <1>8, <1>9, <1>10, <1>11, <1>12, <1>13, <1>14, <1>15, <1>16, <1>17, <1>18, <1>19, <1>20, <1>21, <1>22, <1>23, <1>24, <1>25, <1>26, <1>27, <1>28, <1>29, <1>30
     DEF Next, RequestStep, ResolveStep, ResumeStep, ExecStep

\* Every variable keeps its type, for all values of the constants.
THEOREM TypeCorrect == Spec => []TypeOK
BY InitTypeOK, StepTypeOK, PTL DEF Spec

-----------------------------------------------------------------------------
(* What a step of each kind of caller leaves alone.                        *)

\* A request touches neither results nor the work of the other callers.
LEMMA RequestFrame ==
  ASSUME NEW q \in Requests, RequestStep(q)
  PROVE  UNCHANGED <<result, audPc, resPc, cap, exePc, effects>>
BY DEF RequestStep, RequestStart, RequestInsert, RequestHold, RequestHoldRefused,
       RequestIssue, RequestCancel, RequestAbort, dbVars, audVars, resVars, exeVars

\* A resolve touches neither tokens nor the work of the other callers.
LEMMA ResolveFrame ==
  ASSUME NEW a \in Audits, ResolveStep(a)
  PROVE  UNCHANGED <<reqPc, token, result, resPc, cap, exePc, effects>>
BY DEF ResolveStep, ResolveBegin, ResolveUpdate, ResolveCommit, ResolveConflict,
       ResolveAbort, dbVars, reqVars, resVars, exeVars

\* A resume touches neither approvals nor the work of the other callers.
LEMMA ResumeFrame ==
  ASSUME NEW r \in Resumers, ResumeStep(r)
  PROVE  UNCHANGED <<reqPc, approval, result, audPc, exePc, effects>>
BY DEF ResumeStep, ResumeLocate, ResumeRevalidate, ResumeRequireHold, ResumeConsume,
       ResumeTouch, ResumeCommit, ResumeRefused, ResumeAbort,
       dbVars, reqVars, audVars, exeVars

\* An execution touches neither approvals nor tokens nor a resume in flight.
LEMMA ExecFrame ==
  ASSUME NEW x \in Executors, ExecStep(x)
  PROVE  UNCHANGED <<reqPc, approval, token, audPc, resPc>>
BY DEF ExecStep, ExecCheck, ExecReject, ExecClaim, ExecInvoke, ExecPersistSuccess,
       ExecPersistLost, ExecPersistFailed, dbVars, reqVars, audVars, resVars

-----------------------------------------------------------------------------
(* Decisions, redemptions and results are final.                           *)

\* No step changes a row that is APPROVED, REJECTED or CANCELLED: the UPDATEs of
\* resolver.py and approval_service.py ask for PENDING.
LEMMA ApprovalIsFinal ==
  ASSUME SafetyInv, [Next]_vars
  PROVE  \A e \in Events : approval[e].state \in Resolved => approval'[e] = approval[e]
<1> USE ApprovalAssumption DEF SafetyInv, TypeOK
<1>1. ASSUME NEW q \in Requests, RequestIssue(q)
      PROVE  \A e \in Events : approval[e].state \in Resolved => approval'[e] = approval[e]
  BY <1>1 DEF RequestIssue, RowInTx, Resolved
<1>2. ASSUME NEW q \in Requests, RequestCancel(q)
      PROVE  \A e \in Events : approval[e].state \in Resolved => approval'[e] = approval[e]
  BY <1>2 DEF RequestCancel, RowInTx, Resolved
<1>3. ASSUME NEW q \in Requests, RequestStep(q), ~RequestIssue(q), ~RequestCancel(q)
      PROVE  UNCHANGED approval
  BY <1>3 DEF RequestStep, RequestStart, RequestInsert, RequestHold,
              RequestHoldRefused, RequestAbort, dbVars
<1>4. ASSUME NEW a \in Audits, ResolveCommit(a)
      PROVE  \A e \in Events : approval[e].state \in Resolved => approval'[e] = approval[e]
  BY <1>4 DEF ResolveCommit, AuditsAreSound, Resolved
<1>5. ASSUME NEW a \in Audits, ResolveStep(a), ~ResolveCommit(a)
      PROVE  UNCHANGED approval
  BY <1>5 DEF ResolveStep, ResolveBegin, ResolveUpdate, ResolveConflict, ResolveAbort, dbVars
<1>6. CASE Tick \/ Restart \/ UNCHANGED vars
  BY <1>6 DEF Tick, Restart, vars, dbVars
<1>7. QED
  BY <1>1, <1>2, <1>3, <1>4, <1>5, <1>6, ResumeFrame, ExecFrame DEF Next

\* No step takes back a redemption: only _consume_token writes a token that
\* exists, and it writes REDEEMED.
LEMMA RedeemedIsFinal ==
  ASSUME SafetyInv, [Next]_vars
  PROVE  \A q \in Requests : token[q] = "REDEEMED" => token'[q] = "REDEEMED"
<1> USE ApprovalAssumption DEF SafetyInv, TypeOK
<1>1. ASSUME NEW q \in Requests, RequestIssue(q)
      PROVE  \A p \in Requests : token[p] = "REDEEMED" => token'[p] = "REDEEMED"
  BY <1>1 DEF RequestIssue, ResumesAreSound
<1>2. ASSUME NEW q \in Requests, RequestStep(q), ~RequestIssue(q)
      PROVE  UNCHANGED token
  BY <1>2 DEF RequestStep, RequestStart, RequestInsert, RequestHold, RequestCancel,
              RequestHoldRefused, RequestAbort, dbVars
<1>3. ASSUME NEW r \in Resumers, ResumeCommit(r)
      PROVE  \A p \in Requests : token[p] = "REDEEMED" => token'[p] = "REDEEMED"
  BY <1>3 DEF ResumeCommit
<1>4. ASSUME NEW r \in Resumers, ResumeStep(r), ~ResumeCommit(r)
      PROVE  UNCHANGED token
  BY <1>4 DEF ResumeStep, ResumeLocate, ResumeRevalidate, ResumeRequireHold,
              ResumeConsume, ResumeTouch, ResumeRefused, ResumeAbort, dbVars
<1>5. CASE Tick \/ Restart \/ UNCHANGED vars
  BY <1>5 DEF Tick, Restart, vars, dbVars
<1>6. QED
  BY <1>1, <1>2, <1>3, <1>4, <1>5, ResolveFrame, ExecFrame DEF Next

\* No step rewrites an execution result: ON CONFLICT (event_id) DO NOTHING.
LEMMA ResultIsFinal ==
  ASSUME TypeOK, [Next]_vars
  PROVE  \A e \in Events : result[e] # "NONE" => result'[e] = result[e]
<1>1. ASSUME NEW x \in Executors, NEW status
      PROVE  \A e \in Events : result[e] # "NONE" => WithResult(x, status)[e] = result[e]
  BY EventOfExecType DEF WithResult, TypeOK
<1>2. ASSUME NEW x \in Executors, ExecStep(x)
      PROVE  \/ UNCHANGED result
             \/ \E status \in {"SUCCESS", "FAILED"} : result' = WithResult(x, status)
  BY <1>2 DEF ExecStep, ExecCheck, ExecReject, ExecClaim, ExecInvoke,
              ExecPersistSuccess, ExecPersistLost, ExecPersistFailed, dbVars
<1>3. CASE Tick \/ Restart \/ UNCHANGED vars
  BY <1>3 DEF Tick, Restart, vars, dbVars
<1>4. QED
  BY <1>1, <1>2, <1>3, RequestFrame, ResolveFrame, ResumeFrame DEF Next

-----------------------------------------------------------------------------
(* Each part of SafetyInv is preserved.                                    *)

\* Every step keeps decisions authorised and their rows pending until commit.
LEMMA AuditsStep ==
  ASSUME SafetyInv, [Next]_vars
  PROVE  AuditsAreSound'
<1> USE ApprovalAssumption DEF SafetyInv, TypeOK, AuditsAreSound, AuditInTx
<1>1. ASSUME NEW q \in Requests, RequestIssue(q) PROVE AuditsAreSound'
  BY <1>1 DEF RequestIssue, RowInTx, audVars
<1>2. ASSUME NEW q \in Requests, RequestCancel(q) PROVE AuditsAreSound'
  BY <1>2 DEF RequestCancel, RowInTx, audVars, LocksAreExclusive, RequestInTx
<1>3. ASSUME NEW q \in Requests, RequestStep(q), ~RequestIssue(q), ~RequestCancel(q)
      PROVE  AuditsAreSound'
  BY <1>3 DEF RequestStep, RequestStart, RequestInsert, RequestHold,
              RequestHoldRefused, RequestAbort, dbVars, audVars
<1>4. ASSUME NEW a \in Audits, ResolveBegin(a) PROVE AuditsAreSound'
  BY <1>4 DEF ResolveBegin, dbVars
<1>5. ASSUME NEW a \in Audits, ResolveUpdate(a) PROVE AuditsAreSound'
  BY <1>5 DEF ResolveUpdate, Resolvable, dbVars
<1>6. ASSUME NEW a \in Audits, ResolveCommit(a) PROVE AuditsAreSound'
  <2> DEFINE e == AuditEvent[a]
  <2>1. a \in Authorized /\ e \in Events
    BY <1>6 DEF ResolveCommit
  <2>2. approval' = [approval EXCEPT ![e] =
                       [state |-> audPc[a], from |-> approval[e].from, by |-> {a}]]
    BY <1>6, <2>1 DEF ResolveCommit
  <2>3. approval'[e].by = {a}
    BY <2>1, <2>2
  <2>4. \A f \in Events : f # e => approval'[f] = approval[f]
    BY <2>1, <2>2
  <2>5. \A f \in Events : approval'[f].state = "APPROVED" => approval'[f].by \cap Authorized # {}
    <3>1. approval'[e].by \cap Authorized # {}
      BY <2>1, <2>3
    <3>2. ASSUME NEW f \in Events, f # e, approval'[f].state = "APPROVED"
          PROVE  approval'[f].by \cap Authorized # {}
      <4>1. approval'[f] = approval[f]
        BY <2>4, <3>2
      <4>2. approval[f].by \cap Authorized # {}
        BY <3>2, <4>1
      <4>3. QED
        BY <4>1, <4>2
    <3>3. QED
      BY <3>1, <3>2
  <2>6. \A b \in Audits : AuditInTx(b)' => AuditInTx(b) /\ b # a
    BY <1>6 DEF ResolveCommit
  <2>7. \A b \in Audits : AuditInTx(b)' => approval'[AuditEvent[b]].state = "PENDING"
    BY <1>6, <2>4, <2>6 DEF ResolveCommit, LocksAreExclusive
  <2>8. QED
    BY <1>6, <2>5, <2>7 DEF ResolveCommit
<1>7. ASSUME NEW a \in Audits, ResolveConflict(a) \/ ResolveAbort(a) PROVE AuditsAreSound'
  <2>1. audPc' = [audPc EXCEPT ![a] = "idle"] /\ UNCHANGED approval
    BY <1>7, Zenon DEF ResolveConflict, ResolveAbort, dbVars
  <2>2. QED
    BY <2>1
<1>8. CASE Tick \/ Restart \/ UNCHANGED vars
  BY <1>8 DEF Tick, Restart, vars, dbVars, audVars
<1>9. ASSUME UNCHANGED <<approval, audPc>> PROVE AuditsAreSound'
  BY <1>9
<1>10. QED
  BY <1>1, <1>2, <1>3, <1>4, <1>5, <1>6, <1>7, <1>8, <1>9, ResumeFrame, ExecFrame
     DEF Next, ResolveStep

\* Every step keeps each row locked by one transaction at a time.
LEMMA LocksStep ==
  ASSUME SafetyInv, [Next]_vars
  PROVE  LocksAreExclusive'
<1> USE ApprovalAssumption
    DEF SafetyInv, TypeOK, LocksAreExclusive, AuditInTx, RequestInTx, ResumeInTx
<1>1. ASSUME NEW q \in Requests, RequestInsert(q) PROVE LocksAreExclusive'
  BY <1>1 DEF RequestInsert, ApprovalLocked, audVars, resVars
<1>2. ASSUME NEW a \in Audits, ResolveUpdate(a) PROVE LocksAreExclusive'
  BY <1>2 DEF ResolveUpdate, ApprovalLocked, reqVars, resVars
<1>3. ASSUME NEW r \in Resumers, ResumeConsume(r) PROVE LocksAreExclusive'
  BY <1>3 DEF ResumeConsume, TokenLocked, reqVars, audVars
<1>4. ASSUME \A q \in Requests : RequestInTx(q)' => RequestInTx(q),
             \A a \in Audits : AuditInTx(a)' => AuditInTx(a),
             \A r \in Resumers : ResumeInTx(r)' => ResumeInTx(r)
      PROVE  LocksAreExclusive'
  <2>1. ASSUME NEW a \in Audits, NEW b \in Audits,
               AuditInTx(a)', AuditInTx(b)', AuditEvent[a] = AuditEvent[b]
        PROVE  a = b
    BY <1>4, <2>1
  <2>2. ASSUME NEW a \in Audits, NEW q \in Requests,
               AuditInTx(a)', RequestInTx(q)', AuditEvent[a] = EventOf[q]
        PROVE  FALSE
    BY <1>4, <2>2
  <2>3. ASSUME NEW r \in Resumers, NEW s \in Resumers,
               ResumeInTx(r)', ResumeInTx(s)', TokenOf[r] = TokenOf[s]
        PROVE  r = s
    BY <1>4, <2>3
  <2>4. QED
    BY <2>1, <2>2, <2>3
<1>5. ASSUME NEW q \in Requests, RequestStep(q), ~RequestInsert(q)
      PROVE  LocksAreExclusive'
  <2>1. \A p \in Requests : RequestInTx(p)' => RequestInTx(p)
    BY <1>5 DEF RequestStep, RequestStart, RequestHold, RequestHoldRefused,
                RequestIssue, RequestCancel, RequestAbort
  <2>2. QED
    BY <1>4, <1>5, <2>1, RequestFrame
<1>6. ASSUME NEW a \in Audits, ResolveStep(a), ~ResolveUpdate(a)
      PROVE  LocksAreExclusive'
  <2>1. \A b \in Audits : AuditInTx(b)' => AuditInTx(b)
    BY <1>6 DEF ResolveStep, ResolveBegin, ResolveCommit, ResolveConflict, ResolveAbort
  <2>2. QED
    BY <1>4, <1>6, <2>1, ResolveFrame
<1>7. ASSUME NEW r \in Resumers, ResumeStep(r), ~ResumeConsume(r)
      PROVE  LocksAreExclusive'
  <2>1. \A s \in Resumers : ResumeInTx(s)' => ResumeInTx(s)
    BY <1>7 DEF ResumeStep, ResumeLocate, ResumeRevalidate, ResumeRequireHold,
                ResumeTouch, ResumeCommit, ResumeRefused, ResumeAbort
  <2>2. QED
    BY <1>4, <1>7, <2>1, ResumeFrame
<1>8. ASSUME NEW x \in Executors, ExecStep(x) PROVE LocksAreExclusive'
  BY <1>4, <1>8, ExecFrame
<1>9. CASE Tick \/ Restart \/ UNCHANGED vars
  BY <1>9 DEF Tick, Restart, vars, reqVars, audVars, resVars
<1>10. QED
  BY <1>1, <1>2, <1>3, <1>5, <1>6, <1>7, <1>8, <1>9 DEF Next

\* The claim of a capability consumes it and touches no other.
LEMMA ClaimConsumes ==
  ASSUME TypeOK, NEW x \in Executors, ExecClaim(x)
  PROVE  /\ cap'[CapOf[x]].state = "consumed"
         /\ \A r \in Resumers : r # CapOf[x] => cap'[r] = cap[r]
<1>1. CapOf[x] \in Resumers
  BY EventOfExecType
<1>2. cap' = [cap EXCEPT ![CapOf[x]] = [cap[CapOf[x]] EXCEPT !.state = "consumed"]]
  BY <1>1 DEF ExecClaim, TypeOK
<1>3. [cap[CapOf[x]] EXCEPT !.state = "consumed"].state = "consumed"
  BY <1>1 DEF TypeOK
<1>4. QED
  BY <1>1, <1>2, <1>3 DEF TypeOK

\* ResumesAreSound, for one resumer.
ResumeIsSound(r) ==
    /\ resPc[r] \in {"validated", "argued", "consumed", "touched"} =>
         approval[EventOf[TokenOf[r]]].state = "APPROVED"
    /\ ResumeInTx(r) => token[TokenOf[r]] = "ACTIVE"
    /\ cap[r].state # "none" =>
         /\ resPc[r] = "granted"
         /\ token[TokenOf[r]] = "REDEEMED"
         /\ approval[EventOf[TokenOf[r]]].state = "APPROVED"

\* Every step keeps a resume past revalidation approved, and its capability the
\* only one of its token.
LEMMA ResumesStep ==
  ASSUME SafetyInv, [Next]_vars
  PROVE  ResumesAreSound'
<1> USE ApprovalAssumption DEF SafetyInv
<1>1. \A r \in Resumers :
        approval[EventOf[TokenOf[r]]].state = "APPROVED" =>
          approval'[EventOf[TokenOf[r]]].state = "APPROVED"
  BY ApprovalIsFinal DEF Resolved
<1>2. \A r \in Resumers : token[TokenOf[r]] = "REDEEMED" => token'[TokenOf[r]] = "REDEEMED"
  BY RedeemedIsFinal
<1>3. \A q \in Requests : token'[q] # "NONE" => reqPc'[q] = "done"
  <2> USE DEF TypeOK, ResumesAreSound
  <2>1. ASSUME NEW q \in Requests, RequestStep(q)
        PROVE  \A p \in Requests : token'[p] # "NONE" => reqPc'[p] = "done"
    BY <2>1 DEF RequestStep, RequestStart, RequestInsert, RequestHold, RequestHoldRefused,
                RequestIssue, RequestCancel, RequestAbort, RequestInTx, dbVars
  <2>2. ASSUME NEW r \in Resumers, ResumeStep(r)
        PROVE  \A p \in Requests : token'[p] # "NONE" => token[p] # "NONE"
    BY <2>2 DEF ResumeStep, ResumeLocate, ResumeRevalidate, ResumeRequireHold,
                ResumeConsume, ResumeTouch, ResumeCommit, ResumeRefused, ResumeAbort,
                ResumeInTx, dbVars
  <2>3. CASE Tick \/ Restart \/ UNCHANGED vars
    BY <2>3 DEF Tick, Restart, vars, reqVars, dbVars
  <2>4. QED
    BY <2>1, <2>2, <2>3, ResolveFrame, ResumeFrame, ExecFrame DEF Next
<1>4. /\ \A r \in Resumers : ResumeIsSound(r)'
      /\ OneCapabilityPerToken'
  <2> USE DEF TypeOK, ResumeIsSound, ResumesAreSound, OneCapabilityPerToken, ResumeInTx
  <2>1. ASSUME UNCHANGED <<resPc, cap>>,
               \A p \in Requests : token[p] = "ACTIVE" => token'[p] = "ACTIVE"
        PROVE  (\A r \in Resumers : ResumeIsSound(r)') /\ OneCapabilityPerToken'
    BY <1>1, <1>2, <2>1
  <2>2. ASSUME NEW q \in Requests, RequestStep(q)
        PROVE  \A p \in Requests : token[p] = "ACTIVE" => token'[p] = "ACTIVE"
    BY <2>2 DEF RequestStep, RequestStart, RequestInsert, RequestHold, RequestHoldRefused,
                RequestIssue, RequestCancel, RequestAbort, dbVars
  <2>3. ASSUME NEW r \in Resumers, ResumeStep(r), ~ResumeCommit(r)
        PROVE  (\A s \in Resumers : ResumeIsSound(s)') /\ OneCapabilityPerToken'
    <3>1. UNCHANGED <<approval, token, cap>>
      BY <2>3, ResumeFrame
         DEF ResumeStep, ResumeLocate, ResumeRevalidate, ResumeRequireHold,
             ResumeConsume, ResumeTouch, ResumeRefused, ResumeAbort, dbVars
    <3>2. \A s \in Resumers : s # r => resPc'[s] = resPc[s]
      BY <2>3 DEF ResumeStep, ResumeLocate, ResumeRevalidate, ResumeRequireHold,
                  ResumeConsume, ResumeTouch, ResumeRefused, ResumeAbort
    <3>3. cap[r].state = "none"
      BY <2>3 DEF ResumeStep, ResumeLocate, ResumeRevalidate, ResumeRequireHold,
                  ResumeConsume, ResumeTouch, ResumeRefused, ResumeAbort
    <3>4. resPc'[r] \in {"validated", "argued", "consumed", "touched"} =>
            approval[EventOf[TokenOf[r]]].state = "APPROVED"
      BY <2>3 DEF ResumeStep, ResumeLocate, ResumeRevalidate, ResumeRequireHold,
                  ResumeConsume, ResumeTouch, ResumeRefused, ResumeAbort, Revalidated
    <3>5. resPc'[r] \in {"consumed", "touched"} => token[TokenOf[r]] = "ACTIVE"
      BY <2>3 DEF ResumeStep, ResumeLocate, ResumeRevalidate, ResumeRequireHold,
                  ResumeConsume, ResumeTouch, ResumeRefused, ResumeAbort, Consumable
    <3>6. QED
      BY <3>1, <3>2, <3>3, <3>4, <3>5
  <2>4. ASSUME NEW r \in Resumers, ResumeCommit(r)
        PROVE  (\A s \in Resumers : ResumeIsSound(s)') /\ OneCapabilityPerToken'
    <3>1. /\ token' = [token EXCEPT ![TokenOf[r]] = "REDEEMED"]
          /\ token[TokenOf[r]] = "ACTIVE"
          /\ approval[EventOf[TokenOf[r]]].state = "APPROVED"
          /\ UNCHANGED approval
      BY <2>4 DEF ResumeCommit
    <3>2. \A s \in Resumers : s # r => resPc'[s] = resPc[s] /\ cap'[s] = cap[s]
      BY <2>4 DEF ResumeCommit
    <3>3. \/ resPc'[r] = "granted"
          \/ resPc'[r] = "idle" /\ cap'[r].state = "none"
      BY <2>4 DEF ResumeCommit
    <3>4. \A s \in Resumers : s # r /\ TokenOf[s] = TokenOf[r] =>
            ~ResumeInTx(s) /\ cap[s].state = "none"
      BY <2>4, <3>1 DEF ResumeCommit, LocksAreExclusive
    <3>5. \A s \in Resumers : s # r => ResumeIsSound(s)'
      BY <3>1, <3>2, <3>4
    <3>6. ResumeIsSound(r)'
      BY <3>1, <3>3
    <3>7. OneCapabilityPerToken'
      BY <3>2, <3>4
    <3>8. QED
      BY <3>5, <3>6, <3>7
  <2>5. ASSUME NEW x \in Executors, ExecStep(x)
        PROVE  \A r \in Resumers : cap'[r].state # "none" => cap[r].state # "none"
    <3>1. CASE ExecClaim(x)
      BY <3>1, ClaimConsumes, EventOfExecType DEF ExecClaim, ExecutorsAreSound
    <3>2. CASE ~ExecClaim(x)
      BY <2>5, <3>2 DEF ExecStep, ExecCheck, ExecReject, ExecInvoke, ExecPersistSuccess,
                        ExecPersistLost, ExecPersistFailed, resVars
    <3>3. QED
      BY <3>1, <3>2
  <2>6. ASSUME NEW x \in Executors, ExecStep(x)
        PROVE  (\A r \in Resumers : ResumeIsSound(r)') /\ OneCapabilityPerToken'
    BY <2>5, <2>6, ExecFrame
  <2>7. CASE Restart
    BY <2>7 DEF Restart, NoCap
  <2>8. CASE Tick \/ UNCHANGED vars
    BY <2>1, <2>8 DEF Tick, vars, dbVars, resVars
  <2>9. QED
    BY <2>1, <2>2, <2>3, <2>4, <2>6, <2>7, <2>8, RequestFrame, ResolveFrame DEF Next
<1>5. QED
  BY <1>3, <1>4 DEF ResumesAreSound, ResumeIsSound

\* Every step keeps an executor at work with the capability it checked.
LEMMA ExecutorsStep ==
  ASSUME SafetyInv, [Next]_vars
  PROVE  ExecutorsAreSound'
<1> USE ApprovalAssumption, EventOfExecType DEF SafetyInv, TypeOK, ExecutorsAreSound
<1>1. ASSUME NEW r \in Resumers, ResumeStep(r) PROVE ExecutorsAreSound'
  <2>1. \A s \in Resumers : cap[s].state # "none" => cap'[s] = cap[s]
    BY <1>1 DEF ResumeStep, ResumeLocate, ResumeRevalidate, ResumeRequireHold,
                ResumeConsume, ResumeTouch, ResumeCommit, ResumeRefused, ResumeAbort,
                ResumesAreSound
  <2>2. QED
    BY <1>1, <2>1, ResumeFrame
<1>2. ASSUME NEW x \in Executors, ExecClaim(x) PROVE ExecutorsAreSound'
  <2>1. exePc' = [exePc EXCEPT ![x] = "claimed"]
    BY <1>2 DEF ExecClaim
  <2>2. /\ cap'[CapOf[x]].state = "consumed"
        /\ \A r \in Resumers : r # CapOf[x] => cap'[r] = cap[r]
    BY <1>2, ClaimConsumes
  <2>3. ASSUME NEW y \in Executors
        PROVE  /\ exePc'[y] # "idle" => cap'[CapOf[y]].state # "none"
               /\ exePc'[y] = "claimed" => cap'[CapOf[y]].state = "consumed"
    <3>1. CASE CapOf[y] = CapOf[x]
      BY <2>2, <3>1
    <3>2. CASE CapOf[y] # CapOf[x]
      BY <2>1, <2>2, <3>2
    <3>3. QED
      BY <3>1, <3>2
  <2>4. QED
    BY <2>3
<1>3. ASSUME NEW x \in Executors, ExecStep(x), ~ExecClaim(x) PROVE ExecutorsAreSound'
  <2>1. UNCHANGED cap
    BY <1>3 DEF ExecStep, ExecCheck, ExecReject, ExecInvoke, ExecPersistSuccess,
                ExecPersistLost, ExecPersistFailed, resVars
  <2>2. \A y \in Executors : y # x => exePc'[y] = exePc[y]
    BY <1>3 DEF ExecStep, ExecCheck, ExecReject, ExecInvoke, ExecPersistSuccess,
                ExecPersistLost, ExecPersistFailed
  <2>3. /\ exePc'[x] # "claimed" \/ exePc'[x] = exePc[x]
        /\ exePc'[x] # "idle" => cap[CapOf[x]].state # "none"
    BY <1>3 DEF ExecStep, ExecCheck, ExecReject, ExecInvoke, ExecPersistSuccess,
                ExecPersistLost, ExecPersistFailed, Claimable
  <2>4. QED
    BY <2>1, <2>2, <2>3
<1>4. CASE Tick \/ Restart \/ UNCHANGED vars
  BY <1>4 DEF Tick, Restart, vars, resVars, exeVars
<1>5. QED
  BY <1>1, <1>2, <1>3, <1>4, RequestFrame, ResolveFrame DEF Next

\* Every step keeps the effects approved by an authorised auditor and redeemed.
LEMMA EffectsStep ==
  ASSUME SafetyInv, [Next]_vars
  PROVE  EffectsAreApproved'
<1> USE ApprovalAssumption DEF SafetyInv
<1>1. SUFFICES ASSUME NEW e \in Events, effects'[e] > 0
               PROVE  /\ approval[e].state = "APPROVED"
                      /\ approval[e].by \cap Authorized # {}
                      /\ \E q \in Requests : EventOf[q] = e /\ token[q] = "REDEEMED"
  BY ApprovalIsFinal, RedeemedIsFinal DEF EffectsAreApproved, Resolved
<1>2. ASSUME NEW x \in Executors, ExecInvoke(x), effects[e] = 0
      PROVE  /\ approval[e].state = "APPROVED"
             /\ approval[e].by \cap Authorized # {}
             /\ \E q \in Requests : EventOf[q] = e /\ token[q] = "REDEEMED"
  <2>1. e = EventOf[TokenOf[CapOf[x]]]
    BY <1>1, <1>2, EventOfExecType DEF ExecInvoke, EventOfExec, TypeOK
  <2>2. cap[CapOf[x]].state # "none"
    BY <1>2 DEF ExecInvoke, ExecutorsAreSound
  <2>3. QED
    BY <2>1, <2>2, EventOfExecType DEF ResumesAreSound, AuditsAreSound
<1>3. ASSUME NEW x \in Executors, ExecStep(x), ~ExecInvoke(x)
      PROVE  UNCHANGED effects
  BY <1>3 DEF ExecStep, ExecCheck, ExecReject, ExecClaim, ExecPersistSuccess,
              ExecPersistLost, ExecPersistFailed, exeVars
<1>4. ASSUME Tick \/ Restart \/ UNCHANGED vars
      PROVE  UNCHANGED effects
  BY <1>4 DEF Tick, Restart, vars, exeVars
<1>5. CASE effects[e] = 0
  BY <1>1, <1>2, <1>3, <1>4, <1>5, RequestFrame, ResolveFrame, ResumeFrame DEF Next
<1>6. CASE effects[e] # 0
  BY <1>6 DEF EffectsAreApproved, TypeOK
<1>7. QED
  BY <1>5, <1>6

-----------------------------------------------------------------------------
(* The theorems.                                                           *)

\* SafetyInv is inductive.
LEMMA SafetyInductive ==
  /\ Init => SafetyInv
  /\ SafetyInv /\ [Next]_vars => SafetyInv'
<1>1. Init => SafetyInv
  BY InitTypeOK DEF Init, SafetyInv, AuditsAreSound, AuditInTx, LocksAreExclusive,
     RequestInTx, ResumeInTx, ResumesAreSound, OneCapabilityPerToken, ExecutorsAreSound,
     EffectsAreApproved, NoRow, NoCap
<1>2. SafetyInv /\ [Next]_vars => SafetyInv'
  BY StepTypeOK, AuditsStep, LocksStep, ResumesStep, ExecutorsStep, EffectsStep
     DEF SafetyInv
<1>3. QED
  BY <1>1, <1>2

\* The inductive invariant holds in every reachable state, for all values of
\* the constants: authorised decisions, exclusive row locks, resumes that stay
\* approved and executors that hold a capability (hitl/ as a whole).
THEOREM SafetyInvariant == Spec => []SafetyInv
BY SafetyInductive, PTL DEF Spec

\* Nothing is ever invoked for an event that no authorised auditor approved or
\* whose token is not redeemed for good, whatever the requests, the failures
\* and the restarts (hitl/governed_resume.py, hitl/execution.py).
THEOREM EffectsApproved == Spec => []EffectsAreApproved
<1>1. SafetyInv => EffectsAreApproved
  BY DEF SafetyInv
<1>2. QED
  BY <1>1, SafetyInvariant, PTL

\* However many callers resume with one token, one of them at most ever holds
\* a capability (governed_resume.py, _consume_token).
THEOREM CapabilityUnique == Spec => []OneCapabilityPerToken
<1>1. SafetyInv => OneCapabilityPerToken
  BY DEF SafetyInv, ResumesAreSound
<1>2. QED
  BY <1>1, SafetyInvariant, PTL

\* Decisions, redemptions and results never change once committed.
THEOREM HistoryFinal == Spec => HistoryIsFinal
<1>1. SafetyInv /\ [Next]_vars =>
        [/\ \A e \in Events :
              /\ approval[e].state \in Resolved => approval'[e] = approval[e]
              /\ result[e] # "NONE" => result'[e] = result[e]
         /\ \A q \in Requests : token[q] = "REDEEMED" => token'[q] = "REDEEMED"]_vars
  BY ApprovalIsFinal, RedeemedIsFinal, ResultIsFinal DEF SafetyInv
<1>2. QED
  BY <1>1, SafetyInvariant, PTL DEF Spec, HistoryIsFinal

-----------------------------------------------------------------------------
(* One effect per event, for the wiring under which the program runs.      *)

\* With one request per event and one executor per capability, whoever works
\* for an event with a capability works for it alone.
LEMMA WorkerIsAlone ==
  ASSUME SafetyInv, OneRequestPerEvent, OneExecutorPerCapability,
         NEW x \in Executors, exePc[x] # "idle"
  PROVE  /\ \A r \in Resumers :
              cap[r].state # "none" /\ EventOf[TokenOf[r]] = EventOfExec(x) => r = CapOf[x]
         /\ \A y \in Executors :
              exePc[y] # "idle" /\ EventOfExec(y) = EventOfExec(x) => y = x
<1> USE ApprovalAssumption, EventOfExecType DEF SafetyInv
<1>1. cap[CapOf[x]].state # "none"
  BY DEF ExecutorsAreSound
<1>2. ASSUME NEW r \in Resumers, cap[r].state # "none", EventOf[TokenOf[r]] = EventOfExec(x)
      PROVE  r = CapOf[x]
  <2>1. TokenOf[r] = TokenOf[CapOf[x]]
    BY <1>2 DEF OneRequestPerEvent, EventOfExec
  <2>2. QED
    BY <1>1, <1>2, <2>1 DEF ResumesAreSound, OneCapabilityPerToken
<1>3. ASSUME NEW y \in Executors, exePc[y] # "idle", EventOfExec(y) = EventOfExec(x)
      PROVE  y = x
  <2>1. cap[CapOf[y]].state # "none"
    BY <1>3 DEF ExecutorsAreSound
  <2>2. CapOf[y] = CapOf[x]
    BY <1>2, <1>3, <2>1 DEF EventOfExec
  <2>3. QED
    BY <2>2 DEF OneExecutorPerCapability
<1>4. QED
  BY <1>2, <1>3

\* Under the wiring of one request per event and one executor per capability,
\* every step keeps EffectInv.
LEMMA EffectStep ==
  ASSUME EffectInv, [Next]_vars, OneRequestPerEvent, OneExecutorPerCapability
  PROVE  ArmedIsFirst' /\ AtMostOneEffect'
<1> USE ApprovalAssumption, EventOfExecType
        DEF EffectInv, SafetyInv, ArmedIsFirst, AtMostOneEffect
<1>1. ASSUME NEW x \in Executors, ExecInvoke(x)
      PROVE  ArmedIsFirst' /\ AtMostOneEffect'
  <2>1. /\ exePc[x] = "claimed"
        /\ cap[CapOf[x]].state = "consumed"
        /\ effects[EventOfExec(x)] = 0
    BY <1>1 DEF ExecInvoke, ExecutorsAreSound
  <2>2. /\ effects' = [effects EXCEPT ![EventOfExec(x)] = 1]
        /\ UNCHANGED cap
        /\ \A y \in Executors : y # x => exePc'[y] = exePc[y]
        /\ exePc'[x] \notin {"checked", "claimed"}
    BY <1>1, <2>1 DEF ExecInvoke, TypeOK, resVars
  <2>3. ASSUME NEW r \in Resumers, cap[r].state = "fresh"
        PROVE  effects'[EventOf[TokenOf[r]]] = 0
    <3>1. EventOf[TokenOf[r]] # EventOfExec(x)
      BY <2>1, <2>3, WorkerIsAlone
    <3>2. QED
      BY <2>2, <2>3, <3>1 DEF TypeOK
  <2>4. ASSUME NEW y \in Executors, exePc'[y] \in {"checked", "claimed"}
        PROVE  effects'[EventOfExec(y)] = 0
    <3>1. y # x /\ exePc[y] \in {"checked", "claimed"}
      BY <2>2, <2>4
    <3>2. EventOfExec(y) # EventOfExec(x)
      BY <2>1, <3>1, WorkerIsAlone
    <3>3. QED
      BY <2>2, <3>1, <3>2 DEF TypeOK
  <2>5. AtMostOneEffect'
    BY <2>2 DEF TypeOK
  <2>6. \A y \in Executors : EventOfExec(y)' = EventOfExec(y)
    BY DEF EventOfExec
  <2>7. QED
    BY <2>2, <2>3, <2>4, <2>5, <2>6
<1>2. ASSUME UNCHANGED effects,
             \A r \in Resumers : cap'[r].state = "fresh" =>
               cap[r].state = "fresh" \/ effects[EventOf[TokenOf[r]]] = 0,
             \A x \in Executors : exePc'[x] \in {"checked", "claimed"} =>
               exePc[x] \in {"checked", "claimed"} \/ effects[EventOfExec(x)] = 0
      PROVE  ArmedIsFirst' /\ AtMostOneEffect'
  <2>1. \A y \in Executors : EventOfExec(y)' = EventOfExec(y)
    BY DEF EventOfExec
  <2>2. QED
    BY <1>2, <2>1
<1>3. ASSUME NEW r \in Resumers, ResumeStep(r)
      PROVE  ArmedIsFirst' /\ AtMostOneEffect'
  <2>1. \A s \in Resumers : cap'[s] # cap[s] => s = r /\ ResumeCommit(r)
    BY <1>3 DEF ResumeStep, ResumeLocate, ResumeRevalidate, ResumeRequireHold,
                ResumeConsume, ResumeTouch, ResumeCommit, ResumeRefused, ResumeAbort, TypeOK
  <2>2. ASSUME ResumeCommit(r)
        PROVE  effects[EventOf[TokenOf[r]]] = 0
    <3>1. token[TokenOf[r]] = "ACTIVE"
      BY <2>2 DEF ResumeCommit, ResumesAreSound, ResumeInTx
    <3>2. \A q \in Requests : EventOf[q] = EventOf[TokenOf[r]] => token[q] # "REDEEMED"
      BY <3>1 DEF OneRequestPerEvent
    <3>3. QED
      BY <3>2 DEF EffectsAreApproved, TypeOK
  <2>3. QED
    BY <1>2, <1>3, <2>1, <2>2, ResumeFrame
<1>4. ASSUME NEW x \in Executors, ExecStep(x), ~ExecInvoke(x)
      PROVE  ArmedIsFirst' /\ AtMostOneEffect'
  <2>1. UNCHANGED effects
    BY <1>4 DEF ExecStep, ExecCheck, ExecReject, ExecClaim, ExecPersistSuccess,
                ExecPersistLost, ExecPersistFailed, exeVars
  <2>2. \A r \in Resumers : cap'[r].state = "fresh" => cap[r].state = "fresh"
    <3>1. CASE ExecClaim(x)
      BY <3>1, ClaimConsumes
    <3>2. CASE ~ExecClaim(x)
      BY <1>4, <3>2 DEF ExecStep, ExecCheck, ExecReject, ExecPersistSuccess,
                        ExecPersistLost, ExecPersistFailed, resVars
    <3>3. QED
      BY <3>1, <3>2
  <2>3. \A y \in Executors : y # x => exePc'[y] = exePc[y]
    BY <1>4 DEF ExecStep, ExecCheck, ExecReject, ExecClaim, ExecPersistSuccess,
                ExecPersistLost, ExecPersistFailed, TypeOK
  <2>4. exePc'[x] \in {"checked", "claimed"} =>
          exePc[x] \in {"checked", "claimed"} \/ cap[CapOf[x]].state = "fresh"
    BY <1>4 DEF ExecStep, ExecCheck, ExecReject, ExecClaim, ExecPersistSuccess,
                ExecPersistLost, ExecPersistFailed, Claimable, TypeOK
  <2>5. cap[CapOf[x]].state = "fresh" => effects[EventOfExec(x)] = 0
    BY DEF EventOfExec
  <2>6. QED
    BY <1>2, <2>1, <2>2, <2>3, <2>4, <2>5
<1>5. CASE Tick \/ Restart \/ UNCHANGED vars
  BY <1>2, <1>5 DEF Tick, Restart, vars, resVars, exeVars, NoCap
<1>6. ASSUME UNCHANGED <<cap, exePc, effects>>
      PROVE  ArmedIsFirst' /\ AtMostOneEffect'
  BY <1>2, <1>6
<1>7. QED
  BY <1>1, <1>3, <1>4, <1>5, <1>6, RequestFrame, ResolveFrame DEF Next

\* The combined invariant of the program's wiring holds in every reachable state.
THEOREM EffectInvariant ==
  ASSUME OneRequestPerEvent, OneExecutorPerCapability
  PROVE  Spec => []EffectInv
<1>1. Init => EffectInv
  BY SafetyInductive, EventOfExecType, ApprovalAssumption
     DEF EffectInv, ArmedIsFirst, AtMostOneEffect, Init, NoCap
<1>2. EffectInv /\ [Next]_vars => EffectInv'
  BY SafetyInductive, EffectStep DEF EffectInv
<1>3. QED
  BY <1>1, <1>2, PTL DEF Spec

\* A human approval authorises one invocation of the tool, whatever races,
\* failures, lost commits and restarts happen in between, provided that an
\* event is requested once and a capability used by one executor.  Both
\* premises are needed: the runs approval_repeated_request and
\* approval_shared_capability drop one each (hitl/records.py, hitl/execution.py).
THEOREM OneEffect ==
  ASSUME OneRequestPerEvent, OneExecutorPerCapability
  PROVE  Spec => []AtMostOneEffect
<1>1. EffectInv => AtMostOneEffect
  BY DEF EffectInv
<1>2. QED
  BY <1>1, EffectInvariant, PTL

=============================================================================
