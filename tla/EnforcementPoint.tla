--------------------------- MODULE EnforcementPoint ---------------------------
(***************************************************************************)
(* One run of the agent: GovernedTool._run around                          *)
(* GovernanceMiddleware.pre_hook and post_hook (module_a), the guardrails  *)
(* (module_c), NewsTool with its two providers (tools) and AuditWriter     *)
(* (db).  The crew is sequential, so there is one tool call at a time;     *)
(* what can happen around it is that time passes, that the database or a   *)
(* provider fails, and that the user interrupts the run.                   *)
(*                                                                         *)
(* The evaluator is a parameter of the middleware and its answer an input  *)
(* here (PolicyStore and PolicyEvaluator model the one the crew wires).    *)
(* A HITL decision asks ApprovalService for a durable approval, which is   *)
(* one step here and the subject of GovernedApproval, and ApprovalNotifier *)
(* to tell a human.                                                        *)
(***************************************************************************)
EXTENDS Naturals, FiniteSets, Sequences

CONSTANTS
    Guards,      \* active_guardrails of the profile, in order
    RateLimit,   \* rate_limit_calls_per_run
    MaxAttempts, \* max_attempts of NewsTool, for each provider
    Lifetimes,   \* how long a decision that expires may last
    MaxCalls,    \* bound: tool calls of the run
    MaxTime      \* bound: the clock stops here

ASSUME EnforcementAssumption ==
    /\ Guards \in Seq({"query_injection", "topic_relevance", "rate_limit"})
    /\ \A i, j \in DOMAIN Guards : Guards[i] = Guards[j] => i = j
    /\ RateLimit \in Nat /\ MaxAttempts \in Nat \ {0}
    /\ Lifetimes \subseteq Nat
    /\ MaxCalls \in Nat /\ MaxTime \in Nat

Events == 1..MaxCalls

VARIABLES
    clock,
    pc,          \* where the current tool call is
    calls,       \* tool calls so far: the current one is the event "calls"
    call,        \* what it asks for
    decision,    \* what the evaluator answered
    called,      \* GuardrailEngine._call_count
    index,       \* GovernanceMiddleware._decision_index: the events in it
    provider,    \* NewsTool: whom it is asking
    attempt,     \* NewsTool: how many attempts with it have failed
    trail,       \* history: the searches of the current call, up to Kept
    fate,        \* history: what became of the tool of each event
    decisions,   \* governance_decisions: the action recorded for each event
    results,     \* governance_events: the result recorded for each event
    unrecorded,  \* history: the events whose decision could not be recorded
    unreported,  \* history: the events whose result could not be recorded
    approval,    \* approval_requests: the row of each event as pre_hook left it
    notice       \* history: what became of the notification of each event

localVars == <<pc, call, decision, provider, attempt, trail>>
auditVars == <<decisions, results, unrecorded, unreported>>
humanVars == <<approval, notice>>
vars == <<clock, localVars, calls, called, index, fate, auditVars, humanVars>>

\* What a call asks for: whether its payload is over the limit and its agent
\* fully identified, and what the guardrails see in the query of a search.
Call ==
    [tool : {"news", "price"}, oversized : BOOLEAN, identified : BOOLEAN,
     query : {"financial", "injection", "offtopic"}]

NoCall == [tool |-> "price", oversized |-> FALSE, identified |-> TRUE, query |-> "financial"]

\* A decision: how many selections of arguments its obligations ask for (two
\* stands for more), and its expiry, empty for None.
PolicyDecision ==
    [action : {"PASS", "BLOCK", "HITL"}, selections : 0..2, expires_at : SUBSET Nat]

NoDecision == [action |-> "BLOCK", selections |-> 0, expires_at |-> {}]

\* What a request may meet: an answer, an error of the client or the server, a
\* host outside the allowlist, a redirect (which the session refuses), or, for
\* the fallback, a client that cannot be imported.
Replies ==
    [gdelt      |-> {"news", "empty", "timeout", "disconnected", "status 429", "status 5xx",
                     "other status", "malformed", "json list", "redirect", "foreign host"},
     duckduckgo |-> {"news", "empty", "client error", "malformed", "no client"}]

\* What search() makes of it: a list of news, empty or not, a ProviderError of
\* some kind, or another exception.
Outcome(reply) ==
    CASE reply \in {"news", "empty"} -> reply
      [] reply \in {"timeout", "disconnected", "status 429", "status 5xx", "client error"} ->
           "transient"
      [] reply \in {"other status", "malformed", "redirect"} -> "permanent"
      [] reply = "foreign host" -> "governance"
      [] reply \in {"json list", "no client"} -> "crash"

Providers == DOMAIN Replies

NoResult == [status |-> "NONE", linked |-> FALSE]

TypeOK ==
    /\ clock \in Nat
    /\ pc \in {"idle", "built", "decided", "issued", "asked", "allowed", "running", "checked",
               "returned", "raised", "over"}
    /\ calls \in 0..MaxCalls
    /\ call \in Call
    /\ decision \in PolicyDecision
    /\ called \in 0..MaxCalls
    /\ index \subseteq Events
    /\ provider \in Providers
    /\ attempt \in 0..(MaxAttempts - 1)
    /\ trail \in Seq([provider : Providers,
                      outcome : {Outcome(r) : r \in UNION {Replies[p] : p \in Providers}},
                      at : Nat])
    /\ fate \in [Events -> {"unused", "started", "returned", "raised"}]
    /\ decisions \in [Events -> {"NONE", "PASS", "BLOCK", "HITL"}]
    /\ results \in [Events -> [status : {"NONE", "SUCCESS", "FAILED"}, linked : BOOLEAN]]
    /\ unrecorded \subseteq Events
    /\ unreported \subseteq Events
    /\ approval \in [Events -> {"NONE", "PENDING", "CANCELLED"}]
    /\ notice \in [Events -> {"none", "delivered", "failed"}]

Init ==
    /\ clock = 0
    /\ pc = "idle"
    /\ calls = 0
    /\ call = NoCall
    /\ decision = NoDecision
    /\ called = 0
    /\ index = {}
    /\ provider = "gdelt"
    /\ attempt = 0
    /\ trail = <<>>
    /\ fate = [e \in Events |-> "unused"]
    /\ decisions = [e \in Events |-> "NONE"]
    /\ results = [e \in Events |-> NoResult]
    /\ unrecorded = {}
    /\ unreported = {}
    /\ approval = [e \in Events |-> "NONE"]
    /\ notice = [e \in Events |-> "none"]

-----------------------------------------------------------------------------
(* AuditWriter: it swallows every failure.                                 *)

record_decision(action) ==
    /\ \/ /\ decisions' = [decisions EXCEPT ![calls] = action]
          /\ UNCHANGED unrecorded
       \/ /\ unrecorded' = unrecorded \cup {calls}
          /\ UNCHANGED decisions
    /\ UNCHANGED <<results, unreported>>

record_result(status) ==
    /\ \/ /\ results' = [results EXCEPT ![calls] = [status |-> status, linked |-> calls \in index]]
          /\ UNCHANGED unreported
       \/ /\ unreported' = unreported \cup {calls}
          /\ UNCHANGED results
    /\ UNCHANGED <<decisions, unrecorded>>

-----------------------------------------------------------------------------
(* GovernedTool._run and pre_hook, up to the tool.                         *)

\* What _run kept in its frame is gone.
Forget ==
    /\ call' = NoCall
    /\ decision' = NoDecision
    /\ provider' = "gdelt"
    /\ attempt' = 0
    /\ trail' = <<>>

\* _run ends.
Leave == pc' = "idle" /\ Forget

\* HookAborted: the tool does not run.
Refuse(action) ==
    /\ record_decision(action)
    /\ Leave
    /\ UNCHANGED <<clock, calls, index, fate, humanVars>>

\* The agent calls a tool: pre_hook builds an envelope with a fresh event.
Receive ==
    /\ pc = "idle"
    /\ calls < MaxCalls
    /\ calls' = calls + 1
    /\ call' \in {c \in Call : c.tool = "price" => c.query = "financial"}
    /\ pc' = "built"
    /\ UNCHANGED <<clock, decision, provider, attempt, trail, called, index, fate, auditVars, humanVars>>

Admissible == ~call.oversized /\ call.identified

PepBlock ==
    /\ pc = "built"
    /\ ~Admissible
    /\ Refuse("BLOCK")
    /\ UNCHANGED called

\* The answer of the evaluator, with its expiry.
Evaluate ==
    /\ pc = "built"
    /\ Admissible
    /\ decision' \in
         [action : {"PASS", "BLOCK", "HITL"}, selections : 0..2,
          expires_at : {{}} \cup {{clock + l} : l \in Lifetimes}]
    /\ pc' = "decided"
    /\ UNCHANGED <<clock, call, provider, attempt, trail, calls, called, index, fate, auditVars, humanVars>>

is_expired == \E t \in decision.expires_at : clock > t

ExpiredBlock ==
    /\ pc = "decided"
    /\ is_expired
    /\ Refuse("BLOCK")
    /\ UNCHANGED called

PolicyBlock ==
    /\ pc = "decided"
    /\ ~is_expired
    /\ decision.action = "BLOCK"
    /\ Refuse("BLOCK")
    /\ UNCHANGED called

\* A HITL that has not expired.
NeedsHuman == pc = "decided" /\ ~is_expired /\ decision.action = "HITL"

\* What is left of the call after an exception that is no HitlError.
Escape ==
    /\ unrecorded' = unrecorded \cup {calls}
    /\ Leave
    /\ UNCHANGED <<clock, calls, called, index, fate, decisions, results, unreported>>

\* Mutant: the notification does not look at the token.
RequestApprovalThenNotify ==
    /\ NeedsHuman
    /\ approval' \in {[approval EXCEPT ![calls] = state] : state \in {"PENDING", "CANCELLED"}}
    /\ pc' = "issued"
    /\ UNCHANGED <<clock, call, decision, provider, attempt, trail, calls, called, index, fate,
                   auditVars, notice>>

\* create_pending_and_issue_token commits a pending approval with its token; or
\* a cancelled one, since the hold refused the arguments; or it fails with a
\* HitlError, since the row could not be inserted.
RequestApproval ==
    /\ NeedsHuman
    /\ \/ approval' = [approval EXCEPT ![calls] = "PENDING"] /\ pc' = "issued"
       \/ approval' \in {approval, [approval EXCEPT ![calls] = "CANCELLED"]} /\ pc' = "asked"
    /\ UNCHANGED <<clock, call, decision, provider, attempt, trail, calls, called, index, fate,
                   auditVars, notice>>

\* Any other error of the database leaves pre_hook, and nothing is recorded;
\* the commit may have taken effect.
RequestEscape ==
    /\ NeedsHuman
    /\ Escape
    /\ approval' \in {approval} \cup
         {[approval EXCEPT ![calls] = state] : state \in {"PENDING", "CANCELLED"}}
    /\ UNCHANGED notice

\* The channel delivers, or refuses: a NotificationError, which pre_hook
\* swallows like every HitlError.
Notify ==
    /\ pc = "issued"
    /\ \E outcome \in {"delivered", "failed"} : notice' = [notice EXCEPT ![calls] = outcome]
    /\ pc' = "asked"
    /\ UNCHANGED <<clock, call, decision, provider, attempt, trail, calls, called, index, fate,
                   auditVars, approval>>

\* The channel raises an error of its own.
NotifyEscape ==
    /\ pc = "issued"
    /\ Escape
    /\ notice' = [notice EXCEPT ![calls] = "failed"]
    /\ UNCHANGED approval

\* Mutant: the decision is recorded without the notification.
HitlBlockSilently ==
    /\ pc \in {"issued", "asked"}
    /\ Refuse("HITL")
    /\ UNCHANGED called

\* Whatever came of the request, the tool does not run.
HitlBlock ==
    /\ pc = "asked"
    /\ Refuse("HITL")
    /\ UNCHANGED called

\* A PASS that has not expired.
Passed == pc = "decided" /\ ~is_expired /\ decision.action = "PASS"

\* select_effective_arguments wants exactly one obligation.
Selected == decision.selections = 1

SelectionBlock ==
    /\ Passed
    /\ ~Selected
    /\ Refuse("BLOCK")
    /\ UNCHANGED called

-----------------------------------------------------------------------------
(* GuardrailEngine.                                                        *)

\* Mutant: the comparison is >=, over the count before this call.
PassesOneMore(guard) ==
    CASE guard = "query_injection" -> call.query # "injection"
      [] guard = "topic_relevance" -> call.tool # "news" \/ call.query # "offtopic"
      [] guard = "rate_limit"      -> called <= RateLimit

\* rate_limit counts this call before it compares.
Passes(guard) ==
    CASE guard = "query_injection" -> call.query # "injection"
      [] guard = "topic_relevance" -> call.tool # "news" \/ call.query # "offtopic"
      [] guard = "rate_limit"      -> called + 1 <= RateLimit

\* run_all stops at the first guardrail that blocks.
RunUpTo(i) == \A j \in 1..(i - 1) : Passes(Guards[j])

Blocking == \E i \in DOMAIN Guards : ~Passes(Guards[i])

\* _call_count after run_all.
Counted ==
    called + Cardinality({i \in DOMAIN Guards : Guards[i] = "rate_limit" /\ RunUpTo(i)})

\* Mutant: the block of a guardrail is recorded with the action of the policy.
GuardrailBlockAsPass ==
    /\ Passed
    /\ Selected
    /\ Blocking
    /\ called' = Counted
    /\ Refuse("PASS")

\* The decision is turned into a BLOCK before it is recorded.
GuardrailBlock ==
    /\ Passed
    /\ Selected
    /\ Blocking
    /\ called' = Counted
    /\ Refuse("BLOCK")

\* Mutant: the PASS is not recorded.
AllowUnrecorded ==
    /\ Passed
    /\ Selected
    /\ ~Blocking
    /\ called' = Counted
    /\ index' = index \cup {calls}
    /\ pc' = "allowed"
    /\ UNCHANGED <<clock, calls, call, decision, provider, attempt, trail, fate, auditVars, humanVars>>

\* Every gate passed: the PASS is recorded, and pre_hook returns to _run.
Allow ==
    /\ Passed
    /\ Selected
    /\ ~Blocking
    /\ called' = Counted
    /\ record_decision("PASS")
    /\ index' = index \cup {calls}
    /\ pc' = "allowed"
    /\ UNCHANGED <<clock, calls, call, decision, provider, attempt, trail, fate, humanVars>>

-----------------------------------------------------------------------------
(* The tools.                                                              *)

\* _run calls _execute.
Start ==
    /\ pc = "allowed"
    /\ pc' = "running"
    /\ fate' = [fate EXCEPT ![calls] = "started"]
    /\ UNCHANGED <<clock, calls, call, decision, provider, attempt, trail, called, index,
                   auditVars, humanVars>>

\* The tool returns or raises.
End(how) ==
    /\ pc' = how
    /\ fate' = [fate EXCEPT ![calls] = how]

\* StockPriceTool and CryptoPriceTool turn every exception into an answer.
AnswerPrice ==
    /\ pc = "running"
    /\ call.tool = "price"
    /\ End("returned")
    /\ UNCHANGED <<clock, calls, call, decision, provider, attempt, trail, called, index,
                   auditVars, humanVars>>

\* The decision expired before an attempt, as during a backoff: no attempt.
AbortSearch ==
    /\ pc = "running"
    /\ call.tool = "news"
    /\ is_expired
    /\ End("raised")
    /\ UNCHANGED <<clock, calls, call, decision, provider, attempt, trail, called, index,
                   auditVars, humanVars>>

\* It has not: the attempt is made.  Time may pass before the request leaves.
BeginAttempt ==
    /\ pc = "running"
    /\ call.tool = "news"
    /\ ~is_expired
    /\ pc' = "checked"
    /\ UNCHANGED <<clock, calls, call, decision, provider, attempt, trail, called, index, fate,
                   auditVars, humanVars>>

\* Mutant: a permanent failure is tried again.
RetriesPermanent(outcome) ==
    outcome \in {"transient", "permanent"} /\ attempt + 1 < MaxAttempts

\* Mutant: one retry more than max_attempts.
RetriesOnceMore(outcome) == outcome = "transient" /\ attempt < MaxAttempts

\* Only a transient failure is tried again, max_attempts times in all.
Retries(outcome) == outcome = "transient" /\ attempt + 1 < MaxAttempts

\* Mutant: the loop does not count the attempt.
RetryUncounted == pc' = "running" /\ UNCHANGED <<attempt, provider, fate>>

\* Mutant: the expiry is only looked at before the loop.
RetryUnchecked == pc' = "checked" /\ attempt' = attempt + 1 /\ UNCHANGED <<provider, fate>>

\* The next turn of the loop, after the backoff.
Retry == pc' = "running" /\ attempt' = attempt + 1 /\ UNCHANGED <<provider, fate>>

\* The provider has nothing to say: the other one is asked, if there is one.
MoveOn ==
    IF provider = "gdelt"
    THEN pc' = "running" /\ provider' = "duckduckgo" /\ attempt' = 0 /\ UNCHANGED fate
    ELSE End("returned") /\ UNCHANGED <<provider, attempt>>

\* Bound: the history keeps one search more than two providers may be asked.
Kept == 2 * MaxAttempts + 1

Remember(search) == trail' = IF Len(trail) < Kept THEN Append(trail, search) ELSE trail

\* The request of one attempt of _search_with_retries, and what _execute does
\* with its outcome.
Search ==
    /\ pc = "checked"
    /\ \E outcome \in {Outcome(reply) : reply \in Replies[provider]} :
         /\ Remember([provider |-> provider, outcome |-> outcome, at |-> clock])
         /\ \/ outcome = "news" /\ End("returned") /\ UNCHANGED <<provider, attempt>>
            \/ /\ outcome \in {"governance", "crash"}
               /\ End("raised")
               /\ UNCHANGED <<provider, attempt>>
            \/ Retries(outcome) /\ Retry
            \/ /\ outcome \in {"empty", "permanent", "transient"}
               /\ ~Retries(outcome)
               /\ MoveOn
    /\ UNCHANGED <<clock, calls, call, decision, called, index, auditVars, humanVars>>

-----------------------------------------------------------------------------
(* post_hook, and the environment.                                         *)

Status == IF pc = "returned" THEN "SUCCESS" ELSE "FAILED"

\* post_hook takes the decision out of the index and records the result; the
\* error of a tool that raised goes on to the agent.
Finish ==
    /\ pc \in {"returned", "raised"}
    /\ record_result(Status)
    /\ index' = index \ {calls}
    /\ Leave
    /\ UNCHANGED <<clock, calls, called, fate, humanVars>>

Tick ==
    /\ clock < MaxTime
    /\ clock' = clock + 1
    /\ UNCHANGED <<localVars, calls, called, index, fate, auditVars, humanVars>>

\* KeyboardInterrupt, or an error that the agent does not survive: main ends.
Interrupt ==
    /\ pc # "over"
    /\ pc' = "over"
    /\ Forget
    /\ UNCHANGED <<clock, calls, called, index, fate, auditVars, humanVars>>

\* What the thread of the agent does once it was given a tool call.
Step ==
    \/ PepBlock \/ Evaluate
    \/ ExpiredBlock \/ PolicyBlock \/ SelectionBlock
    \/ RequestApproval \/ RequestEscape \/ Notify \/ NotifyEscape \/ HitlBlock
    \/ GuardrailBlock \/ Allow \/ Start
    \/ AnswerPrice \/ AbortSearch \/ BeginAttempt \/ Search \/ Finish

Next == Receive \/ Step \/ Tick \/ Interrupt

Spec == Init /\ [][Next]_vars

\* The thread keeps running: every request of a provider has a timeout, and
\* every call of the database returns or raises.
FairSpec == Spec /\ WF_vars(Step)

-----------------------------------------------------------------------------
(* What makes the enforcement point correct.                               *)

\* In a run under rate_limit at most RateLimit tools run, whatever the other
\* gates let through or stop and in whatever order (guardrails.py:69-73).
RateLimitHolds ==
    (\E i \in DOMAIN Guards : Guards[i] = "rate_limit") =>
        Cardinality({e \in Events : fate[e] # "unused"}) <= RateLimit

\* The audit tables tell what happened: a result row belongs to a tool that ran
\* and to the decision of its own event, a BLOCK or HITL row to a tool that did
\* not run, an approval to a HITL decision, and a PASS row to a tool that ran,
\* except the last one of a run that was interrupted between the row and the
\* tool (governance.py:284-287, governed_tool.py:77-79: the guardrail changes
\* the decision before it is recorded, and post_hook finds it in the index).
EvidenceIsTrue ==
    \A e \in Events :
        /\ decisions[e] = "PASS" => fate[e] # "unused" \/ (e = calls /\ pc \in {"allowed", "over"})
        /\ decisions[e] \in {"BLOCK", "HITL"} => fate[e] = "unused"
        /\ approval[e] # "NONE" => decisions[e] \in {"NONE", "HITL"} /\ fate[e] = "unused"
        /\ results[e].status = "SUCCESS" => fate[e] = "returned"
        /\ results[e].status = "FAILED" => fate[e] = "raised"
        /\ results[e].status # "NONE" => results[e].linked

\* Every call has a decision row from the moment its tool starts or it is
\* refused, and every tool that ended has a result row, unless the write
\* failed or an error of the approval service escaped (INV-01; db/audit.py
\* loses evidence only with the database).
EvidenceIsComplete ==
    pc # "over" =>
        /\ \A e \in 1..calls :
             decisions[e] = "NONE" => e \in unrecorded \/ (e = calls /\ pc \in {"built", "decided", "issued", "asked"})
        /\ \A e \in Events :
             fate[e] # "unused" /\ results[e].status = "NONE" =>
                 e \in unreported \/ (e = calls /\ pc \in {"running", "checked", "returned", "raised"})
        /\ \A e \in index :
             e = calls /\ pc \in {"allowed", "running", "checked", "returned", "raised"}

\* A human is told of an approval only after it is committed, and never of one
\* that was cancelled for want of its arguments (governance.py:205;
\* docs/sessions/0005, line 115, "HITL persiste PENDING antes de notificar").
NotifiedIsPending ==
    \A e \in Events : notice[e] = "delivered" => approval[e] = "PENDING"

\* An approval that waits for a human who was not told is one whose
\* notification failed, or whose commit was taken for a failure, unless the run
\* was interrupted between the two: no other order of events hides one.
PendingIsNotified ==
    pc # "over" => \A e \in Events : approval[e] = "PENDING" =>
        \/ notice[e] # "none"
        \/ e = calls /\ pc = "issued"
        \/ e \in unrecorded /\ decisions[e] = "NONE"

\* The failure policy of news_tool.py:8-16.  A search is only followed by
\* another one if it was empty or failed; by one of the same provider only
\* after a transient failure, max_attempts in all; by the fallback after a
\* transient failure only when those are used up; and never by the primary
\* once the fallback was asked.
RetriesFollowPolicy ==
    LET Asked(p) == {i \in DOMAIN trail : trail[i].provider = p} IN
    /\ \A p \in Providers : Cardinality(Asked(p)) <= MaxAttempts
    /\ \A i \in DOMAIN trail : i + 1 \in DOMAIN trail =>
         /\ trail[i].outcome \in {"empty", "permanent", "transient"}
         /\ trail[i + 1].provider = trail[i].provider => trail[i].outcome = "transient"
         /\ trail[i + 1].provider # trail[i].provider =>
              /\ trail[i].provider = "gdelt"
              /\ trail[i].outcome = "transient" => Cardinality(Asked("gdelt")) = MaxAttempts

\* An expired decision stops the searches: of those of a call only the last can
\* have left after the expiry, the one whose check had passed by then, whatever
\* the backoffs, the replies and the change of provider took
\* (governed_tool.py:38-47, news_tool.py:106).
OnlyLastRequestIsLate ==
    \A i \in DOMAIN trail, t \in decision.expires_at : trail[i].at > t => i = Len(trail)

\* Every tool call ends, whatever the providers and the database do.
EveryCallEnds == pc # "idle" ~> pc \in {"idle", "over"}

=============================================================================
