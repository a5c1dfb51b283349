-------------------------- MODULE GovernedApproval --------------------------
(***************************************************************************)
(* The durable human approval of a tool call, hitl/ of the repository:     *)
(* ApprovalService, the in-memory argument hold, ApprovalResolver,         *)
(* GovernedResumeService and ExecutionOrchestrator, running concurrently   *)
(* over one PostgreSQL database and one process that may restart.          *)
(*                                                                         *)
(* Granularity: one action per SQL statement, commit, rollback or read of  *)
(* shared memory.  Rows change at commit; between a statement that writes  *)
(* a row and the end of its transaction the row is locked (READ COMMITTED, *)
(* psycopg's default).  now() of a transaction is its start, as in         *)
(* PostgreSQL.  Any call of the database may fail, and a commit may take   *)
(* effect although the caller sees it fail.                                *)
(*                                                                         *)
(* A request q stands for one call of create_pending_and_issue_token and,  *)
(* since a call issues at most one token, also for that token.             *)
(***************************************************************************)
EXTENDS Naturals

CONSTANTS
    Events,      \* logical events: tool calls that a policy sent to a human
    Requests,    \* calls of ApprovalService, and the tokens they issue
    EventOf,     \* the event (so the idempotency key) of each request
    Args,        \* argument payloads, as far as their digests differ
    ArgsOf,      \* the arguments each request carries
    Audits,      \* calls of ApprovalResolver.resolve
    AuditEvent,  \* the event each of them resolves
    Authorized,  \* the audits whose auditor has an authorised role
    Resumers,    \* callers of GovernedResumeService.resume
    TokenOf,     \* the token each of them presents
    Executors,   \* callers of execute_governed
    CapOf,       \* the resumer whose capability each of them uses
    TTL,         \* approval_ttl_seconds
    MaxTime,     \* bound: the clock stops here
    MaxCrashes   \* bound: restarts of the process

ASSUME ApprovalAssumption ==
    /\ EventOf \in [Requests -> Events]
    /\ ArgsOf \in [Requests -> Args]
    /\ AuditEvent \in [Audits -> Events]
    /\ Authorized \subseteq Audits
    /\ TokenOf \in [Resumers -> Requests]
    /\ CapOf \in [Executors -> Resumers]
    /\ TTL \in Nat \ {0}
    /\ MaxTime \in Nat
    /\ MaxCrashes \in Nat

VARIABLES
    clock,     \* the time, of the process and of the database
    crashes,   \* restarts so far
    reqPc,     \* where each request is
    deadline,  \* expires_at of each request, of its token and of its hold entry
    approval,  \* approval_requests: committed row of each event
    token,     \* approval_resume_tokens: committed state of each token
    given,     \* the tokens whose plain value was returned to the caller
    hold,      \* InMemoryArgumentHold: the request whose arguments are held
    orphaned,  \* history: the requests that a restart left without arguments
    audPc,     \* where each audit is
    audStart,  \* now() of its transaction
    resPc,     \* where each resumer is
    resStart,  \* now() of its transaction
    cap,       \* the ExecutionCapability of each resumer
    exePc,     \* where each executor is
    report,    \* what its last execute_governed returned
    result,    \* execution_results: committed status of each event
    effects,   \* history: invocations of the tool of each event
    outcomes   \* history: how those invocations ended

dbVars   == <<approval, token, result>>
reqVars  == <<reqPc, deadline, given, orphaned>>
audVars  == <<audPc, audStart>>
resVars  == <<resPc, resStart, cap>>
exeVars  == <<exePc, report, effects, outcomes>>
vars == <<clock, crashes, reqVars, dbVars, hold, audVars, resVars, exeVars>>

NoRow == [state |-> "NONE", from |-> {}, by |-> {}]

Resolved == {"APPROVED", "REJECTED", "CANCELLED"}

ApprovalRow ==
    [state : {"NONE", "PENDING"} \cup Resolved,  \* NONE: there is no row
     from  : SUBSET Requests,  \* the request that inserted the row
     by    : SUBSET Audits]    \* the audit that resolved it

TypeOK ==
    /\ clock \in Nat
    /\ crashes \in Nat
    /\ reqPc \in [Requests -> {"idle", "ready", "inserted", "held", "unheld", "done"}]
    /\ deadline \in [Requests -> Nat]
    /\ approval \in [Events -> ApprovalRow]
    /\ token \in [Requests -> {"NONE", "ACTIVE", "REDEEMED"}]
    /\ given \in SUBSET Requests
    /\ hold \in [Events -> SUBSET Requests]
    /\ orphaned \in SUBSET Requests
    /\ audPc \in [Audits -> {"idle", "begun", "APPROVED", "REJECTED"}]
    /\ audStart \in [Audits -> Nat]
    /\ resPc \in [Resumers -> {"idle", "located", "validated", "argued",
                               "consumed", "touched", "granted"}]
    /\ resStart \in [Resumers -> Nat]
    /\ cap \in [Resumers -> [state : {"none", "fresh", "consumed"}, expires : Nat]]
    /\ exePc \in [Executors -> {"idle", "checked", "claimed", "ok", "raised"}]
    /\ report \in [Executors -> {"none", "rejected", "SUCCESS", "FAILED", "unpersisted"}]
    /\ result \in [Events -> {"NONE", "SUCCESS", "FAILED"}]
    /\ effects \in [Events -> Nat]
    /\ outcomes \in [Events -> SUBSET {"ok", "raised"}]

NoCap == [state |-> "none", expires |-> 0]

Init ==
    /\ clock = 0
    /\ crashes = 0
    /\ reqPc = [q \in Requests |-> "idle"]
    /\ deadline = [q \in Requests |-> 0]
    /\ approval = [e \in Events |-> NoRow]
    /\ token = [q \in Requests |-> "NONE"]
    /\ given = {}
    /\ hold = [e \in Events |-> {}]
    /\ orphaned = {}
    /\ audPc = [a \in Audits |-> "idle"]
    /\ audStart = [a \in Audits |-> 0]
    /\ resPc = [r \in Resumers |-> "idle"]
    /\ resStart = [r \in Resumers |-> 0]
    /\ cap = [r \in Resumers |-> NoCap]
    /\ exePc = [x \in Executors |-> "idle"]
    /\ report = [x \in Executors |-> "none"]
    /\ result = [e \in Events |-> "NONE"]
    /\ effects = [e \in Events |-> 0]
    /\ outcomes = [e \in Events |-> {}]

-----------------------------------------------------------------------------
(* Row locks of the transactions in flight.                                *)

RequestInTx(q) == reqPc[q] \in {"inserted", "held", "unheld"}
AuditInTx(a)   == audPc[a] \in {"APPROVED", "REJECTED"}
ResumeInTx(r)  == resPc[r] \in {"consumed", "touched"}

\* Mutant: requests and resumes lock the row, decisions do not.
ApprovalLockedWithoutAudits(e) ==
    \/ \E q \in Requests : EventOf[q] = e /\ RequestInTx(q)
    \/ \E r \in Resumers : EventOf[TokenOf[r]] = e /\ resPc[r] = "touched"

\* The approval row of e (or, before its commit, its unique key).
ApprovalLocked(e) ==
    \/ \E q \in Requests : EventOf[q] = e /\ RequestInTx(q)
    \/ \E a \in Audits : AuditEvent[a] = e /\ AuditInTx(a)
    \/ \E r \in Resumers : EventOf[TokenOf[r]] = e /\ resPc[r] = "touched"

\* Mutant: the token is claimed without locking its row.
TokenNeverLocked(q) == FALSE

TokenLocked(q) == \E r \in Resumers : TokenOf[r] = q /\ ResumeInTx(r)

-----------------------------------------------------------------------------
(* The argument hold, as its callers see it.                               *)

\* Mutant: eviction is one time unit early.
EvictedEarly == [e \in Events |-> {q \in hold[e] : deadline[q] > clock + 1}]

\* What is left of the hold after _evict_expired at this time.
Evicted == [e \in Events |-> {q \in hold[e] : deadline[q] > clock}]

\* The hold keeps, for e, arguments with the digest of request q.
HoldMatches(h, e, q) == \E p \in h[e] : ArgsOf[p] = ArgsOf[q]

-----------------------------------------------------------------------------
(* ApprovalService.create_pending_and_issue_token, called by the HITL      *)
(* branch of GovernanceMiddleware.pre_hook.                                *)

\* pre_hook fixes expires_at before it calls the service.
RequestStart(q) ==
    /\ reqPc[q] = "idle"
    /\ reqPc' = [reqPc EXCEPT ![q] = "ready"]
    /\ deadline' = [deadline EXCEPT ![q] = clock + TTL]
    /\ UNCHANGED <<clock, crashes, dbVars, given, orphaned, hold, audVars, resVars, exeVars>>

\* INSERT ... ON CONFLICT (idempotency_key) DO UPDATE: waits for the key, then
\* holds the new or existing row until the transaction ends.
RequestInsert(q) ==
    /\ reqPc[q] = "ready"
    /\ ~ApprovalLocked(EventOf[q])
    /\ reqPc' = [reqPc EXCEPT ![q] = "inserted"]
    /\ UNCHANGED <<clock, crashes, dbVars, deadline, given, orphaned, hold,
                   audVars, resVars, exeVars>>

\* hold_registered() returned True: a new entry, or the one already held for
\* the same arguments, whose expiry stays as it was.
RequestHold(q) ==
    LET e == EventOf[q] IN
    /\ reqPc[q] = "inserted"
    /\ \/ Evicted[e] = {} /\ hold' = [Evicted EXCEPT ![e] = {q}]
       \/ HoldMatches(Evicted, e, q) /\ hold' = Evicted
    /\ reqPc' = [reqPc EXCEPT ![q] = "held"]
    /\ UNCHANGED <<clock, crashes, dbVars, deadline, given, orphaned,
                   audVars, resVars, exeVars>>

\* hold_registered() returned False: an argument over its own limit (refused
\* before eviction), no capacity, other arguments held for the same event, or
\* an eviction that another thread disturbed (ArgumentHold has the details).
RequestHoldRefused(q) ==
    /\ reqPc[q] = "inserted"
    /\ hold' \in {hold, Evicted}
    /\ reqPc' = [reqPc EXCEPT ![q] = "unheld"]
    /\ UNCHANGED <<clock, crashes, dbVars, deadline, given, orphaned,
                   audVars, resVars, exeVars>>

\* The row of q's event as q's own transaction sees it after its INSERT.
RowInTx(q) ==
    IF approval[EventOf[q]].state = "NONE"
    THEN [state |-> "PENDING", from |-> {q}, by |-> {}]
    ELSE approval[EventOf[q]]

\* _issue_token and commit; the plain token reaches the caller only when the
\* caller sees the commit succeed.
RequestIssue(q) ==
    /\ reqPc[q] = "held"
    /\ approval' = [approval EXCEPT ![EventOf[q]] = RowInTx(q)]
    /\ token' = [token EXCEPT ![q] = "ACTIVE"]
    /\ given' \in {given, given \cup {q}}
    /\ reqPc' = [reqPc EXCEPT ![q] = "done"]
    /\ UNCHANGED <<clock, crashes, result, deadline, orphaned, hold,
                   audVars, resVars, exeVars>>

\* Mutant: the token is issued although the arguments could not be held.
RequestCancelWithToken(q) ==
    /\ reqPc[q] = "unheld"
    /\ approval' = [approval EXCEPT ![EventOf[q]] =
                      [state |-> "CANCELLED", from |-> RowInTx(q).from, by |-> RowInTx(q).by]]
    /\ token' = [token EXCEPT ![q] = "ACTIVE"]
    /\ reqPc' = [reqPc EXCEPT ![q] = "done"]
    /\ UNCHANGED <<clock, crashes, result, deadline, given, orphaned, hold,
                   audVars, resVars, exeVars>>

\* _cancel_non_resumable and commit: PENDING becomes CANCELLED, no token.
RequestCancel(q) ==
    /\ reqPc[q] = "unheld"
    /\ approval' = [approval EXCEPT ![EventOf[q]] =
                      IF RowInTx(q).state = "PENDING"
                      THEN [RowInTx(q) EXCEPT !.state = "CANCELLED"]
                      ELSE RowInTx(q)]
    /\ reqPc' = [reqPc EXCEPT ![q] = "done"]
    /\ UNCHANGED <<clock, crashes, token, result, deadline, given, orphaned,
                   hold, audVars, resVars, exeVars>>

\* Mutant: the plain token is handed out before the commit.
RequestAbortGiven(q) ==
    /\ reqPc[q] = "held"
    /\ given' = given \cup {q}
    /\ reqPc' = [reqPc EXCEPT ![q] = "done"]
    /\ UNCHANGED <<clock, crashes, dbVars, deadline, orphaned, hold,
                   audVars, resVars, exeVars>>

\* The connection or a statement fails: rollback.  A hold entry stays behind.
RequestAbort(q) ==
    /\ reqPc[q] = "ready" \/ RequestInTx(q)
    /\ reqPc' = [reqPc EXCEPT ![q] = "done"]
    /\ UNCHANGED <<clock, crashes, dbVars, deadline, given, orphaned, hold,
                   audVars, resVars, exeVars>>

-----------------------------------------------------------------------------
(* ApprovalResolver.resolve.                                               *)

\* The role check, and the start of the transaction, whose now() it fixes.
ResolveBegin(a) ==
    /\ audPc[a] = "idle"
    /\ a \in Authorized
    /\ audPc' = [audPc EXCEPT ![a] = "begun"]
    /\ audStart' = [audStart EXCEPT ![a] = clock]
    /\ UNCHANGED <<clock, crashes, reqVars, dbVars, hold, resVars, exeVars>>

\* Mutant: the UPDATE has no WHERE state = 'PENDING'.
ResolvableTwice(a) ==
    LET row == approval[AuditEvent[a]] IN
    /\ row.state # "NONE"
    /\ \A q \in row.from : deadline[q] > audStart[a]

\* UPDATE ... WHERE state = 'PENDING' AND expires_at > now(), verdict chosen.
Resolvable(a) ==
    LET row == approval[AuditEvent[a]] IN
    /\ row.state = "PENDING"
    /\ \A q \in row.from : deadline[q] > audStart[a]

ResolveUpdate(a) ==
    /\ audPc[a] = "begun"
    /\ ~ApprovalLocked(AuditEvent[a])
    /\ Resolvable(a)
    /\ \E verdict \in {"APPROVED", "REJECTED"} : audPc' = [audPc EXCEPT ![a] = verdict]
    /\ UNCHANGED <<clock, crashes, reqVars, dbVars, hold, audStart, resVars, exeVars>>

ResolveCommit(a) ==
    /\ AuditInTx(a)
    /\ approval' = [approval EXCEPT ![AuditEvent[a]] =
                      [state |-> audPc[a], from |-> @.from, by |-> {a}]]
    /\ audPc' = [audPc EXCEPT ![a] = "idle"]
    /\ audStart' = [audStart EXCEPT ![a] = 0]
    /\ UNCHANGED <<clock, crashes, reqVars, token, result, hold, resVars, exeVars>>

\* Mutant: a row that is pending but expired is not diagnosed.
ResolveConflictIfDecided(a) ==
    /\ audPc[a] = "begun"
    /\ approval[AuditEvent[a]].state \in Resolved
    /\ audPc' = [audPc EXCEPT ![a] = "idle"]
    /\ audStart' = [audStart EXCEPT ![a] = 0]
    /\ UNCHANGED <<clock, crashes, reqVars, dbVars, hold, resVars, exeVars>>

\* No committed row matches, so none is waited for: _diagnose_conflict raises.
ResolveConflict(a) ==
    /\ audPc[a] = "begun"
    /\ ~Resolvable(a)
    /\ audPc' = [audPc EXCEPT ![a] = "idle"]
    /\ audStart' = [audStart EXCEPT ![a] = 0]
    /\ UNCHANGED <<clock, crashes, reqVars, dbVars, hold, resVars, exeVars>>

\* The database failed: rollback.
ResolveAbort(a) ==
    /\ audPc[a] # "idle"
    /\ audPc' = [audPc EXCEPT ![a] = "idle"]
    /\ audStart' = [audStart EXCEPT ![a] = 0]
    /\ UNCHANGED <<clock, crashes, reqVars, dbVars, hold, resVars, exeVars>>

-----------------------------------------------------------------------------
(* GovernedResumeService.resume.                                           *)

\* _locate_token: the transaction starts; the presented value hashes to the
\* stored hash only for who was given it; anything but ACTIVE is refused.
ResumeLocate(r) ==
    /\ resPc[r] = "idle"
    /\ TokenOf[r] \in given
    /\ token[TokenOf[r]] = "ACTIVE"
    /\ resPc' = [resPc EXCEPT ![r] = "located"]
    /\ resStart' = [resStart EXCEPT ![r] = clock]
    /\ UNCHANGED <<clock, crashes, reqVars, dbVars, hold, audVars, cap, exeVars>>

\* Mutant: the expiries are revalidated, the decision is not.
RevalidatedExpiryOnly(r) ==
    \A q \in approval[EventOf[TokenOf[r]]].from \cup {TokenOf[r]} : clock <= deadline[q]

\* Mutant: the expiry of the approval is not revalidated.
RevalidatedTokenOnly(r) ==
    /\ approval[EventOf[TokenOf[r]]].state = "APPROVED"
    /\ clock <= deadline[TokenOf[r]]

\* _load_approval and _revalidate: APPROVED, neither row expired.
Revalidated(r) ==
    LET row == approval[EventOf[TokenOf[r]]] IN
    /\ row.state = "APPROVED"
    /\ \A q \in row.from \cup {TokenOf[r]} : clock <= deadline[q]

ResumeRevalidate(r) ==
    /\ resPc[r] = "located"
    /\ Revalidated(r)
    /\ resPc' = [resPc EXCEPT ![r] = "validated"]
    /\ UNCHANGED <<clock, crashes, reqVars, dbVars, hold, audVars, resStart, cap, exeVars>>

\* Mutant: the token is consumed without looking for the arguments.
ArgumentsAssumed(r) == TRUE

\* The held arguments have the digest of the approval.
ArgumentsHeld(r) ==
    LET e == EventOf[TokenOf[r]]
    IN  \E q \in approval[e].from : HoldMatches(Evicted, e, q)

\* _require_hold, which evicts what expired before it looks.
ResumeRequireHold(r) ==
    /\ resPc[r] = "validated"
    /\ hold' = Evicted
    /\ \/ /\ ArgumentsHeld(r)
          /\ resPc' = [resPc EXCEPT ![r] = "argued"]
          /\ UNCHANGED resStart
       \/ /\ ~ArgumentsHeld(r)
          /\ resPc' = [resPc EXCEPT ![r] = "idle"]
          /\ resStart' = [resStart EXCEPT ![r] = 0]
    /\ UNCHANGED <<clock, crashes, reqVars, dbVars, audVars, cap, exeVars>>

\* Mutant: the UPDATE has no WHERE state = 'ACTIVE'.
ConsumableTwice(r) == deadline[TokenOf[r]] > resStart[r]

\* UPDATE ... SET state = 'REDEEMED' WHERE state = 'ACTIVE' AND expires_at > now().
Consumable(r) ==
    /\ token[TokenOf[r]] = "ACTIVE"
    /\ deadline[TokenOf[r]] > resStart[r]

ResumeConsume(r) ==
    /\ resPc[r] = "argued"
    /\ ~TokenLocked(TokenOf[r])
    /\ Consumable(r)
    /\ resPc' = [resPc EXCEPT ![r] = "consumed"]
    /\ UNCHANGED <<clock, crashes, reqVars, dbVars, hold, audVars, resStart, cap, exeVars>>

\* The second UPDATE of _consume_token rewrites the approval row unchanged.
ResumeTouch(r) ==
    /\ resPc[r] = "consumed"
    /\ ~ApprovalLocked(EventOf[TokenOf[r]])
    /\ resPc' = [resPc EXCEPT ![r] = "touched"]
    /\ UNCHANGED <<clock, crashes, reqVars, dbVars, hold, audVars, resStart, cap, exeVars>>

\* _build_capability and commit; when the caller does not see the commit
\* succeed it gets an exception and no capability.
ResumeCommit(r) ==
    /\ resPc[r] = "touched"
    /\ token' = [token EXCEPT ![TokenOf[r]] = "REDEEMED"]
    /\ \/ /\ resPc' = [resPc EXCEPT ![r] = "granted"]
          /\ cap' = [cap EXCEPT ![r] = [state |-> "fresh", expires |-> clock + TTL]]
       \/ /\ resPc' = [resPc EXCEPT ![r] = "idle"]
          /\ UNCHANGED cap
    /\ resStart' = [resStart EXCEPT ![r] = 0]
    /\ UNCHANGED <<clock, crashes, reqVars, approval, result, hold, audVars, exeVars>>

\* A check refused the resume: rollback.
ResumeRefused(r) ==
    /\ \/ resPc[r] = "located" /\ ~Revalidated(r)
       \/ resPc[r] = "argued" /\ ~Consumable(r)
    /\ resPc' = [resPc EXCEPT ![r] = "idle"]
    /\ resStart' = [resStart EXCEPT ![r] = 0]
    /\ UNCHANGED <<clock, crashes, reqVars, dbVars, hold, audVars, cap, exeVars>>

\* The database failed: rollback.
ResumeAbort(r) ==
    /\ resPc[r] \notin {"idle", "granted"}
    /\ resPc' = [resPc EXCEPT ![r] = "idle"]
    /\ resStart' = [resStart EXCEPT ![r] = 0]
    /\ UNCHANGED <<clock, crashes, reqVars, dbVars, hold, audVars, cap, exeVars>>

-----------------------------------------------------------------------------
(* ExecutionOrchestrator.execute_governed.                                 *)

EventOfExec(x) == EventOf[TokenOf[CapOf[x]]]

Claimable(x) == cap[CapOf[x]].state = "fresh" /\ clock <= cap[CapOf[x]].expires

\* claim(), first half: read consumed and the clock.
ExecCheck(x) ==
    /\ exePc[x] = "idle"
    /\ Claimable(x)
    /\ exePc' = [exePc EXCEPT ![x] = "checked"]
    /\ UNCHANGED <<clock, crashes, reqVars, dbVars, hold, audVars, resVars,
                   report, effects, outcomes>>

ExecReject(x) ==
    /\ exePc[x] = "idle"
    /\ cap[CapOf[x]].state # "none" /\ ~Claimable(x)
    /\ report' = [report EXCEPT ![x] = "rejected"]
    /\ UNCHANGED <<clock, crashes, reqVars, dbVars, hold, audVars, resVars,
                   exePc, effects, outcomes>>

\* Mutant: the capability is not marked consumed.
ExecClaimForgotten(x) ==
    /\ exePc[x] = "checked"
    /\ exePc' = [exePc EXCEPT ![x] = "claimed"]
    /\ UNCHANGED <<clock, crashes, reqVars, dbVars, hold, audVars, resVars,
                   report, effects, outcomes>>

\* claim(), second half: set consumed.
ExecClaim(x) ==
    /\ exePc[x] = "checked"
    /\ cap' = [cap EXCEPT ![CapOf[x]].state = "consumed"]
    /\ exePc' = [exePc EXCEPT ![x] = "claimed"]
    /\ UNCHANGED <<clock, crashes, reqVars, dbVars, hold, audVars, resPc,
                   resStart, report, effects, outcomes>>

\* The tool is invoked: it returns or raises.
ExecInvoke(x) ==
    /\ exePc[x] = "claimed"
    /\ effects' = [effects EXCEPT ![EventOfExec(x)] = @ + 1]
    /\ \E o \in {"ok", "raised"} :
         /\ exePc' = [exePc EXCEPT ![x] = o]
         /\ outcomes' = [outcomes EXCEPT ![EventOfExec(x)] = @ \cup {o}]
    /\ UNCHANGED <<clock, crashes, reqVars, dbVars, hold, audVars, resVars, report>>

\* INSERT ... ON CONFLICT (event_id) DO NOTHING, in autocommit.
WithResult(x, status) ==
    IF result[EventOfExec(x)] = "NONE"
    THEN [result EXCEPT ![EventOfExec(x)] = status]
    ELSE result

ExecPersistSuccess(x) ==
    /\ exePc[x] = "ok"
    /\ result' = WithResult(x, "SUCCESS")
    /\ report' = [report EXCEPT ![x] = "SUCCESS"]
    /\ exePc' = [exePc EXCEPT ![x] = "idle"]
    /\ UNCHANGED <<clock, crashes, reqVars, approval, token, hold, audVars,
                   resVars, effects, outcomes>>

\* Persisting SUCCESS fails, before or after the row was written: the except
\* branch of the executor takes over.
ExecPersistLost(x) ==
    /\ exePc[x] = "ok"
    /\ result' \in {result, WithResult(x, "SUCCESS")}
    /\ exePc' = [exePc EXCEPT ![x] = "raised"]
    /\ UNCHANGED <<clock, crashes, reqVars, approval, token, hold, audVars,
                   resVars, report, effects, outcomes>>

\* Mutant: the except branch reports SUCCESS.
ExecPersistRaisedAsSuccess(x) ==
    /\ exePc[x] = "raised"
    /\ result' = WithResult(x, "SUCCESS")
    /\ report' = [report EXCEPT ![x] = "SUCCESS"]
    /\ exePc' = [exePc EXCEPT ![x] = "idle"]
    /\ UNCHANGED <<clock, crashes, reqVars, approval, token, hold, audVars,
                   resVars, effects, outcomes>>

\* Mutant: a failure that could not be persisted is recorded as UNKNOWN.
ExecPersistUnknown(x) ==
    /\ exePc[x] = "raised"
    /\ result' = WithResult(x, "UNKNOWN")
    /\ report' = [report EXCEPT ![x] = "FAILED"]
    /\ exePc' = [exePc EXCEPT ![x] = "idle"]
    /\ UNCHANGED <<clock, crashes, reqVars, approval, token, hold, audVars,
                   resVars, effects, outcomes>>

\* The except branch: persist FAILED, or give up with a HitlError.
ExecPersistFailed(x) ==
    /\ exePc[x] = "raised"
    /\ \/ /\ result' = WithResult(x, "FAILED")
          /\ report' = [report EXCEPT ![x] = "FAILED"]
       \/ /\ result' \in {result, WithResult(x, "FAILED")}
          /\ report' = [report EXCEPT ![x] = "unpersisted"]
    /\ exePc' = [exePc EXCEPT ![x] = "idle"]
    /\ UNCHANGED <<clock, crashes, reqVars, approval, token, hold, audVars,
                   resVars, effects, outcomes>>

-----------------------------------------------------------------------------
(* The environment.                                                        *)

Tick ==
    /\ clock < MaxTime
    /\ clock' = clock + 1
    /\ UNCHANGED <<crashes, reqVars, dbVars, hold, audVars, resVars, exeVars>>

\* The process restarts: memory is lost, open transactions roll back.
Restart ==
    /\ crashes < MaxCrashes
    /\ crashes' = crashes + 1
    /\ reqPc' = [q \in Requests |-> IF reqPc[q] = "idle" THEN "idle" ELSE "done"]
    /\ orphaned' = {q \in Requests : reqPc[q] # "idle"}
    /\ hold' = [e \in Events |-> {}]
    /\ audPc' = [a \in Audits |-> "idle"]
    /\ audStart' = [a \in Audits |-> 0]
    /\ resPc' = [r \in Resumers |-> "idle"]
    /\ resStart' = [r \in Resumers |-> 0]
    /\ cap' = [r \in Resumers |-> NoCap]
    /\ exePc' = [x \in Executors |-> "idle"]
    /\ report' = [x \in Executors |-> "none"]
    /\ UNCHANGED <<clock, dbVars, deadline, given, effects, outcomes>>

RequestStep(q) ==
    \/ RequestStart(q) \/ RequestInsert(q) \/ RequestHold(q) \/ RequestHoldRefused(q)
    \/ RequestIssue(q) \/ RequestCancel(q) \/ RequestAbort(q)

ResolveStep(a) ==
    \/ ResolveBegin(a) \/ ResolveUpdate(a) \/ ResolveCommit(a)
    \/ ResolveConflict(a) \/ ResolveAbort(a)

ResumeStep(r) ==
    \/ ResumeLocate(r) \/ ResumeRevalidate(r) \/ ResumeRequireHold(r)
    \/ ResumeConsume(r) \/ ResumeTouch(r) \/ ResumeCommit(r)
    \/ ResumeRefused(r) \/ ResumeAbort(r)

ExecStep(x) ==
    \/ ExecCheck(x) \/ ExecReject(x) \/ ExecClaim(x) \/ ExecInvoke(x)
    \/ ExecPersistSuccess(x) \/ ExecPersistLost(x) \/ ExecPersistFailed(x)

Next ==
    \/ \E q \in Requests : RequestStep(q)
    \/ \E a \in Audits : ResolveStep(a)
    \/ \E r \in Resumers : ResumeStep(r)
    \/ \E x \in Executors : ExecStep(x)
    \/ Tick
    \/ Restart

Spec == Init /\ [][Next]_vars

\* The threads that run these calls keep running: a call in flight takes its
\* next step unless it is blocked, and PostgreSQL grants a row lock in turn
\* to whoever waits for it.  Nothing makes anyone start a call, the database
\* fail, the clock advance or the process restart.
Fairness ==
    /\ \A q \in Requests :
         /\ SF_vars(RequestInsert(q))
         /\ WF_vars(\/ RequestHold(q) \/ RequestHoldRefused(q)
                    \/ RequestIssue(q) \/ RequestCancel(q))
    /\ \A a \in Audits :
         /\ SF_vars(ResolveUpdate(a))
         /\ WF_vars(ResolveConflict(a) \/ ResolveCommit(a))
    /\ \A r \in Resumers :
         /\ WF_vars(\/ ResumeRevalidate(r) \/ ResumeRequireHold(r)
                    \/ ResumeCommit(r) \/ ResumeRefused(r))
         /\ SF_vars(ResumeConsume(r) \/ ResumeTouch(r))
    /\ \A x \in Executors :
         WF_vars(ExecClaim(x) \/ ExecInvoke(x) \/ ExecPersistSuccess(x) \/ ExecPersistFailed(x))

FairSpec == Spec /\ Fairness

-----------------------------------------------------------------------------
(* What makes the protocol correct.                                        *)

\* The wiring under which the program runs: pre_hook calls the service once
\* per event (the event id is fresh), and the thread that resumed is the one
\* that executes.
OneRequestPerEvent ==
    \A p, q \in Requests : EventOf[p] = EventOf[q] => p = q

OneExecutorPerCapability ==
    \A x, y \in Executors : CapOf[x] = CapOf[y] => x = y

\* A human approval authorises one invocation of the tool, whatever races,
\* failures, lost commits and restarts happen in between (hitl/execution.py
\* and hitl/records.py: a resume does not authorise two effects).
AtMostOneEffect == \A e \in Events : effects[e] <= 1

\* The tool is only ever invoked for an event that an auditor with an
\* authorised role approved, and after its token was redeemed for good.
EffectsAreApproved ==
    \A e \in Events : effects[e] > 0 =>
        /\ approval[e].state = "APPROVED"
        /\ approval[e].by \cap Authorized # {}
        /\ \E q \in Requests : EventOf[q] = e /\ token[q] = "REDEEMED"

\* Two resumers never hold a capability for the same token, although both may
\* have found it ACTIVE (governed_resume.py: one conditional UPDATE claims it).
OneCapabilityPerToken ==
    \A r, s \in Resumers :
        cap[r].state # "none" /\ cap[s].state # "none" /\ TokenOf[r] = TokenOf[s] => r = s

\* A token that can still be redeemed finds the arguments that were approved
\* in the hold, unless the process restarted: the hold is registered before
\* the token is issued and is not evicted before the token expires
\* (approval_service.py, "orden critico").
LiveTokenHasArguments ==
    \A q \in Requests :
        token[q] = "ACTIVE" /\ clock < deadline[q] /\ q \notin orphaned =>
            \E p \in approval[EventOf[q]].from : HoldMatches(hold, EventOf[q], p)

\* A request whose arguments could not be held is CANCELLED and has no token:
\* nothing can resume it (approval_service.py, point 2 of its docstring).
CancelledIsNotResumable ==
    \A q \in Requests : approval[EventOf[q]].state = "CANCELLED" => token[q] = "NONE"

\* A plain token that somebody holds belongs to a committed row.
GivenTokenIsDurable ==
    \A q \in given : token[q] # "NONE" /\ approval[EventOf[q]].state # "NONE"

\* A SUCCESS row, and a SUCCESS answer, mean that the tool returned, and that
\* the row says so whatever another call recorded.
SuccessIsReal ==
    /\ \A e \in Events : result[e] = "SUCCESS" => "ok" \in outcomes[e]
    /\ \A x \in Executors : report[x] = "SUCCESS" => result[EventOfExec(x)] = "SUCCESS"

\* After a restart no hold is left: the token of a request that lost its
\* arguments stays as it was (governed_resume.py, end of its docstring).
RestartKeepsToken ==
    [][\A q \in Requests :
         q \in orphaned /\ token[q] = "ACTIVE" => token'[q] = "ACTIVE"]_vars

\* A token is only redeemed by a call that began before it expired, and before
\* the approval did, which may be older than the token.  The call may be late by
\* the time it waited for row locks, since now() in the UPDATE is the start of
\* its transaction and the approval is not read again (governed_resume.py:156-158
\* and 192; its line 13 has a token that is not expired).
RedeemedByTimelyCall ==
    [][\A q \in Requests : token[q] = "ACTIVE" /\ token'[q] = "REDEEMED" =>
         \E r \in Resumers :
             /\ TokenOf[r] = q /\ ResumeInTx(r)
             /\ resStart[r] < deadline[q]
             /\ \A p \in approval[EventOf[q]].from : resStart[r] <= deadline[p]]_vars

\* A decision, a redemption and a recorded result are final, and an approval
\* is only decided while it is pending.
HistoryIsFinal ==
    [][/\ \A e \in Events :
            /\ approval[e].state \in Resolved => approval'[e] = approval[e]
            /\ result[e] # "NONE" => result'[e] = result[e]
       /\ \A q \in Requests : token[q] = "REDEEMED" => token'[q] = "REDEEMED"]_vars

\* Every call in flight ends, although calls wait for each other's row locks.
EveryCallReturns ==
    /\ \A q \in Requests : reqPc[q] # "idle" ~> reqPc[q] = "done"
    /\ \A a \in Audits : audPc[a] # "idle" ~> audPc[a] = "idle"
    /\ \A r \in Resumers : resPc[r] # "idle" ~> resPc[r] \in {"idle", "granted"}
    /\ \A x \in Executors : exePc[x] # "idle" ~> exePc[x] = "idle"

\* A FAILED row means that the tool raised (hitl/execution.py:7, "FAILED
\* (efecto conocido)").  The code does not keep this promise.
FailureIsReal ==
    \A e \in Events : result[e] = "FAILED" => "raised" \in outcomes[e]

-----------------------------------------------------------------------------
(* The inductive invariant behind the safety properties.                   *)

\* Who decides a row is authorised, and finds it pending.
AuditsAreSound ==
    /\ \A e \in Events : approval[e].state = "APPROVED" => approval[e].by \cap Authorized # {}
    /\ \A a \in Audits : audPc[a] # "idle" => a \in Authorized
    /\ \A a \in Audits : AuditInTx(a) => approval[AuditEvent[a]].state = "PENDING"

\* A row is locked by one transaction at a time.
LocksAreExclusive ==
    /\ \A a, b \in Audits :
         AuditInTx(a) /\ AuditInTx(b) /\ AuditEvent[a] = AuditEvent[b] => a = b
    /\ \A a \in Audits, q \in Requests :
         ~(AuditInTx(a) /\ RequestInTx(q) /\ AuditEvent[a] = EventOf[q])
    /\ \A r, s \in Resumers :
         ResumeInTx(r) /\ ResumeInTx(s) /\ TokenOf[r] = TokenOf[s] => r = s

\* A resume past revalidation has an approval, and a capability is the only
\* one its redeemed token ever gave.
ResumesAreSound ==
    /\ \A q \in Requests : token[q] # "NONE" => reqPc[q] = "done"
    /\ \A r \in Resumers :
         /\ resPc[r] \in {"validated", "argued", "consumed", "touched"} =>
              approval[EventOf[TokenOf[r]]].state = "APPROVED"
         /\ ResumeInTx(r) => token[TokenOf[r]] = "ACTIVE"
         /\ cap[r].state # "none" =>
              /\ resPc[r] = "granted"
              /\ token[TokenOf[r]] = "REDEEMED"
              /\ approval[EventOf[TokenOf[r]]].state = "APPROVED"
    /\ OneCapabilityPerToken

\* An executor at work has a capability, a consumed one once it claimed it.
ExecutorsAreSound ==
    \A x \in Executors :
        /\ exePc[x] # "idle" => cap[CapOf[x]].state # "none"
        /\ exePc[x] = "claimed" => cap[CapOf[x]].state = "consumed"

SafetyInv ==
    /\ TypeOK
    /\ AuditsAreSound
    /\ LocksAreExclusive
    /\ ResumesAreSound
    /\ ExecutorsAreSound
    /\ EffectsAreApproved

\* Whoever may still invoke the tool does it for an event without an effect.
ArmedIsFirst ==
    /\ \A r \in Resumers : cap[r].state = "fresh" => effects[EventOf[TokenOf[r]]] = 0
    /\ \A x \in Executors : exePc[x] \in {"checked", "claimed"} => effects[EventOfExec(x)] = 0

EffectInv == SafetyInv /\ ArmedIsFirst /\ AtMostOneEffect

-----------------------------------------------------------------------------
(* The protocol implements HumanApproval.                                  *)

PhaseOf(e) ==
    IF effects[e] > 0 THEN "executed"
    ELSE IF \E q \in Requests : EventOf[q] = e /\ token[q] = "REDEEMED" THEN "redeemed"
    ELSE [NONE |-> "unrequested", PENDING |-> "pending", APPROVED |-> "approved",
          REJECTED |-> "rejected", CANCELLED |-> "withdrawn"][approval[e].state]

Promise == INSTANCE HumanApproval WITH phase <- [e \in Events |-> PhaseOf(e)]

ImplementsPromise == Promise!AbstractSpec

=============================================================================
