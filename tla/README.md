# A TLA+ model of ArgentGob

ArgentGob puts a governance layer between an LLM agent and its tools: every
tool call goes through an enforcement point that asks a policy engine, runs
guardrails, may require a human approval, and leaves evidence in PostgreSQL.
This directory models the parts of it that carry state, checks them with TLC
and proves with TLAPS what TLC can show to hold without fairness, for every size
of the system. All paths below are
relative to `src/src/argentgob/` unless they start with `src/`.

## 1. The system

| part | state it keeps | operations | talks to |
|---|---|---|---|
| Enforcement point and governed tools (`module_a/governance.py`, `governed_tool.py`) | `_decision_index`, the tool's `_current_envelope` | `_run`, `pre_hook`, `post_hook` | evaluator, guardrails, approval service, hold, notifier, evidence writer, tools |
| Notifier (`hitl/notifier.py`) | none | `notify_approval_pending` | called by `pre_hook` after the approval is committed |
| Guardrails (`module_c/guardrails.py`) | `_call_count` | `run_all` | called by `pre_hook` |
| Evidence writer (`db/audit.py`) | tables `governance_decisions`, `governance_events` | `record_decision`, `record_result` | called by both hooks; swallows errors |
| News tool (`tools/news_tool.py`, `news_providers.py`) | attempt and provider of the current search | `_execute`, `_search_with_retries` | GDELT, DuckDuckGo; reads the decision's expiry |
| Price tools (`tools/stock_tool.py`, `crypto_tool.py`) | none | `_execute` | market data services |
| Policy store (`module_c/policy_store.py`) | one cache entry, a lock | `load_current`, `invalidate` | table `governance_policies` |
| Policy evaluator (`module_c/deterministic_evaluator.py`, `policy.py`) | none | `evaluate` | policy store |
| Policy table (`src/scripts/seed_policies.py`, an administrator) | table `governance_policies` | `seed`, INSERT, UPDATE, DELETE | read by the policy store |
| Approval service (`hitl/approval_service.py`) | tables `approval_requests`, `approval_resume_tokens` | `create_pending_and_issue_token` | hold (callback inside its transaction) |
| Argument hold (`hitl/argument_hold.py`) | two dictionaries, a byte count, a lock | `hold`, `get_with_digest`, eviction | filled by `pre_hook`, read by resume |
| Resolver (`hitl/resolver.py`) | `approval_requests` | `resolve` | called by an auditor |
| Governed resume (`hitl/governed_resume.py`) | `approval_resume_tokens` | `resume` | hold; returns an `ExecutionCapability` |
| Execution (`hitl/execution.py`, `records.py`) | the capability in memory, table `execution_results` | `claim`, `execute_governed` | the tool |
| Audit chain (`audit/append.py`, `verify.py`, `canonical.py`) | table `audit_chain` | `append`, `verify` | `policy_decisions` (read) |
| Tokens, sanitizer, host allowlist, dashboard, CLI, crew | none, or none that changes | | |

What is hard about it, and what makes each part correct:

* **Approval.** Five services work on three tables and one in-memory structure,
  in calls that are minutes or days apart, from different threads, under READ
  COMMITTED and row locks, with three expiries read from two clocks, and with a
  process that may restart and lose the arguments. Correct: one approval, one
  effect; no effect without an authorised approval; decisions and tokens final;
  a token that can be used finds its arguments, or stays unused.
* **Argument hold.** Eviction decides without the lock and releases entries one
  at a time. Correct: the byte count is that of the entries, live entries stay.
* **Audit chain.** Writers race for the head, and may name decisions that do not
  exist. Correct: one unforked chain that verifies and is an append-only log to
  its writers, damage is noticed.
* **Policy store.** A cache with a TTL, a validity and a fallback, overlapping
  loads, edits of the table. Correct: a prohibition is obeyed and a permission
  ends within a bounded time.
* **Policy evaluator and table.** Effects, priorities, specificity, versions,
  conflicting obligations, policies that start or end between the load and the
  evaluation, rows in no particular order that a seed script rewrites. Correct:
  the decision follows the precedence of effects and ranks, whatever the order.
* **Enforcement point.** A dozen gates in order, a counter, an index, retries
  and a fallback, an audit that may lose rows, a decision that may expire while
  the tool backs off, an approval committed before a notification that may fail.
  Correct: what runs was allowed and counted, the evidence tells what happened,
  humans are told of the approvals that wait for them and of no others, an
  expired decision stops the retries, every call ends.

`PROJECT.json` lists all components, the hazards with their lines, and which
property covers each of them.

## 2. The modules

| module | models | instance |
|---|---|---|
| `HumanApproval` | what the approval protocol promises, abstractly: ask, decide, redeem, execute, each at most once | refined by `GovernedApproval` |
| `GovernedApproval` | ApprovalService, ApprovalResolver, GovernedResumeService, ExecutionCapability, ExecutionOrchestrator over one database and one process | `MCGovernedApproval` |
| `GovernedApprovalSafety`, `GovernedApprovalPromise` | proofs: approvals, capabilities and effects; rows, tokens, held arguments, results and the refinement | |
| `ArgumentHold` | InMemoryArgumentHold at the granularity of its lock | `MCArgumentHold` |
| `ArgumentHoldProofs` | proofs: the byte count, live entries, look-ups | |
| `AppendOnlyLog` | what the chain promises its writers, abstractly | refined by `AuditChain` |
| `AuditChain` | append as a transaction, verify as an operator, damage | `MCAuditChain` |
| `AuditChainProofs` | proofs: the chain, damage, the refinement | |
| `PolicyEvaluator` | the decision as a function of a list of policies, an envelope and a time | used by the next two |
| `PolicyEvaluatorProofs` | proofs about that function | |
| `PolicyTable` | the rows of `governance_policies`, the seed script, an administrator | `MCPolicyTable` |
| `PolicyTableProofs` | proofs: the decisions on every table that can come about | |
| `PolicyStore` | load_current and evaluate, the table of policies, the database's failures | `MCPolicyStore` |
| `PolicyStoreProofs` | proofs: how long a decision may rest on the past | |
| `EnforcementPoint` | `_run`, both hooks, guardrails, notifier, evidence, tools, one agent run | `MCEnforcementPoint` |
| `EnforcementPointProofs` | proofs: rate limit, evidence, notifications, retries, expiry | |

### GovernedApproval

One action per SQL statement, commit, rollback or read of shared memory. The
tables `approval`, `token` and `result` are their committed rows; a program
counter per caller says where its call is, and row locks are derived from the
program counters (`ApprovalLocked`, `TokenLocked`) instead of stored. `now()`
of a transaction is its start, as in PostgreSQL (`audStart`, `resStart`), while
`datetime.now()` is the time of the step. A caller of the service is a
`Request` and also stands for the token it issues. Any database call may fail,
`RequestIssue` and the persistence of a result may take effect although the
caller sees an error, and `Restart` loses the hold, the capabilities and the
calls in flight. What the hold does inside is `ArgumentHold`; here it registers,
finds the same arguments, or refuses.

Who calls what is a parameter (`EventOf`, `TokenOf`, `CapOf`, ...): the wiring
of the program is `OneRequestPerEvent` (`pre_hook` takes a fresh event id) and
`OneExecutorPerCapability`, and the runs say what happens with and without it.

### ArgumentHold

`_evict_expired` is an unlocked iteration over the dictionary (two actions, for
its two ends; it raises when the dictionary changed its keys meanwhile), then
one `Release` per expired event, then the critical section of the call.

### AuditChain

A hash is the sequence of the payloads it was computed from, so equal hashes
mean equal histories. `ReadStart` picks the head in the snapshot of the
statement and `ReadHead` gets its lock; the row it returns is the one it picked.
`Acceptable` stands for the unique key and the foreign key of the table: the
event must have a row in `policy_decisions`, the decision need not, since
`decision_id` has no foreign key. `Defect` has the checks of the verifier in
their order, the lookup of both references included; `Orphans` are the rows
whose append named an unknown decision. The rows of `policy_decisions` are
constants (`Decided`, `Known`).

`Damage` changes, moves or removes one committed row: its payload (also to
NULL), its hash, its link, its sequence, its payload together with a hash that
fits, its event or its decision. A link or a hash takes any value of another
row; one that is NULL or no hash at all differs from what is expected in the
same way. Damage happens while no append runs, since a chain rebuilt under the
feet of a writer has no meaning to check. `Shown` says where each kind must
show, and that some show nowhere. `LogOfRows` reads the table in the order of its
sequence; with it, and with what each append answered, the chain implements
`AppendOnlyLog`: a record enters at the end, once, whole, and an append that
answers names its place. An append that raises may still have recorded (its
commit was lost); what it cannot do is answer and not record.

### PolicyEvaluator, PolicyStore and PolicyTable

A policy's profile, tool and operation class are compared for equality only, so
they are one value, its scope; its resource pattern is the set of resources it
matches, and whether it names one. Policies come as a list, in the order the
database returned them: a function from places, so that what the code filters
out of it is a set of places, and no recursion is needed. `max()` and
`sorted(...)[0]` become `Best`: the first place that none outranks; a list in the
order of the database, or sorted, puts each element after as many as precede it
(`Arranged`). Decisions carry the policy they name and the list that explains
them. `FollowsPrecedence` is the precedence that lines 9-13 of the evaluator's
docstring describe, as a relation between a decision and the set of the policies
that apply. It is not the whole docstring: line 5 has a sensitivity evaluated,
and lines 13-14 have incompatible versions conflict, and the code does neither.
Section 4 has both.

`PolicyStore` is about time. It remembers when each policy was inserted and
removed, so that properties can speak about the past of the table.
`load_current` reads the clock, then the cache, then the database, then writes
the cache: one action each. The list it returns may have any order.

`PolicyTable` is about content. Its `rows` are those of the table in physical
order; an insertion or an update puts its row anywhere. `Seed` is one statement
of `seed()`: the first time it inserts the policy of a profile, later it restores
its obligations and its environment, and nothing else. Decisions are taken on
the rows that are current now, up to `MaxDelay` later, which is what a cache
without failures does.

### EnforcementPoint

The crew is sequential, so there is one tool call at a time; the event of a
call is its number. The gates of `pre_hook` are one action each, in the order
of the code, and end the call through `Refuse`; the last one, `Allow`, records the
PASS and returns to `_run`, and `Start` is the call of the tool, so that the run
may be interrupted between the two, with a PASS row and no tool. The evaluator's answer is an input: the middleware takes any
evaluator, and the tests use ones whose decisions expire.

A HITL decision goes through three steps: `RequestApproval` commits a pending or
a cancelled approval or fails, `Notify` tells a human or fails, `HitlBlock`
records the decision. Errors that are no `HitlError` leave `pre_hook` at either
of the first two (`RequestEscape`, `NotifyEscape`). The approval service is one
step here and `GovernedApproval` in detail; `approval` is its row as `pre_hook`
left it.

The price tools are one action. An attempt of the news tool is two: `BeginAttempt`
finds the decision not expired (`AbortSearch` is the other outcome) and `Search`
is the request with what follows from its outcome; time may pass between them.
`trail` keeps the searches of a call, up to `Kept`, one more than the policy
allows, so that a search too many would be seen.
`Replies` are the ways in which a request to each provider can end, and
`Outcome` is the classification of `news_providers.py`. Which arguments reach
the tool is not modelled, only that exactly one selection was obliged.

## 3. The runs

| run | instance and bounds | shows |
|---|---|---|
| `approval_one_event` | 1 request, 3 audits (1 unauthorised), 2 resumes of one token, 2 executors, TTL 1, time 3, 1 restart; 516,090 states | all safety properties, the inductive invariant, the refinement of `HumanApproval` |
| `approval_contended` | 2 requests for one event, 1 audit, a resume of each token, 1 executor, time 2; fair; 79,591 states | every call returns; none that began too late for the token or for its approval redeems it |
| `argument_hold` | 2 threads, 2 events (held twice and once), payloads of 1 to 3 bytes, capacity 2, time 1; 146,744 states | the byte count, live entries, what a read returns |
| `audit_chain` | 4 appends, 2 payloads, 1 append of an unknown event, 1 with an unknown decision, 2 with none, 1 damaged row; fair; 48,772 states | the chain is unforked and verifies up to an unknown decision, implements `AppendOnlyLog`, damage is reported, appends end |
| `policy_store` | 2 calls, 3 policies with different validities and effects, 2 changes, TTL 1, time 3; 1,109,740 states | how long a decision may rest on the past |
| `policy_decision` | 3 policy ids, one with 2 versions, 3 effects, 3 priorities, exact and general resources, all sorts of obligations, 2 environments, 3 rows, time 2, delay 1; 2,022 states, each with every envelope and delay | decisions follow the precedence, the order of the rows changes none, seeding lifts no prohibition |
| `enforcement` | 3 calls, rate limit 1, 3 attempts, decisions that last an instant or for ever, time 1; fair; 498,806 states | rate limit, evidence, approvals and notifications, retries, expiry, termination |
| `approval_result_lost` | 1 of each | violates `FailureIsReal` |
| `approval_repeated_request` | 2 requests for one event | violates `AtMostOneEffect` |
| `approval_shared_capability` | 2 executors with one capability | violates `AtMostOneEffect` |
| `audit_stale_head` | 2 appends | violates `AppendsAreSerialized` |
| `policy_offline_send` | 1 call of class EXTERNAL_SEND | violates `OnlyReadsOffline` |

**Why the bounds are enough.** Every race in the code is between two callers,
so two of each kind that compete are present where they compete: two
authorised auditors, two resumes, two executors, two requests, two threads, two
evaluations. A third append makes a successor of a disputed row, a fourth one a
successor of that. Times only matter before, at and after a limit: the clock
passes a TTL by two in `approval_one_event` and `policy_store`, by one in
`approval_contended`, where the second request may come after the approval
expired, so that its token outlives the approval, and reaches it in
`argument_hold`. A decision that lasts an instant is expired after one tick,
which may come at any step of a call. One restart
reaches every step of the others. The retry loop has 3 attempts here and 4 in
the code (`MAX_ATTEMPTS_PER_PROVIDER`): first, middle and last are distinct
already with 3. Three calls under a limit of one give calls that are counted,
stopped by another gate before the count, and over the limit. Three rows hold a
policy that wins, one that competes with it and one of another effect, and a
version of a policy beside the other.

**Deadlock** is not reported where the system may rightly stop: all calls made,
clock at its bound, run interrupted. `argument_hold` checks it.

**Fairness.** `EveryCallReturns`, `EveryAppendEnds` and `EveryCallEnds` assume
that a thread keeps running: weak fairness of the steps of a call that has
begun. Statements that wait for a row lock get strong fairness in
`GovernedApproval`, since PostgreSQL grants a lock to its waiters in turn and
never leaves a free row waited for. Nothing assumes that anybody starts a call,
that the database fails or recovers, or that time passes. A request of a
provider ends because it has a timeout; a database that accepts a connection
and never answers would block a call for ever, because `db/connection.py` sets
no timeout, and is outside the assumption.

**Mutants.** Every property of a passing run is violated under that run when one
definition is replaced by a plausible mistake: the operators marked "Mutant"
next to the definition they stand for, listed in `PROJECT.json`.

## 4. What the code does not keep

The five violation runs each exhibit one disagreement between the code and what
the repository says about it.

* `hitl/execution.py:63-75`: the tool and the write of its SUCCESS are in one
  `try`. When only the write fails, FAILED is recorded for a tool that
  succeeded; `execution.py:7` says a FAILED has a known effect. UNKNOWN, named
  in the same line, is never produced.
* `hitl/approval_service.py:93`: a repeated request for an event gets the
  existing row and one more token, and nothing looks at `execution_results`
  before the tool is invoked. `src/docs/sessions/0005-resumen-h5-implementado.md:139`
  promises one request per event. Under the program's own wiring, where an
  event id is fresh, `OneEffect` proves the promise.
* `hitl/records.py:68-70`: `claim` checks and then sets, without a lock, against
  line 66. The same theorem covers callers that do not share a capability.
* `audit/append.py:115`: `FOR UPDATE` locks a head that was picked before the
  wait, and an empty table has none; one of two writers is refused by the unique
  key. The chain stays unforked (`ChainVerifies`), but line 3 says that writers
  are serialised.
* `module_c/policy_store.py:81`: the fallback serves every operation class while
  the documents reserve it to explicit reads.

Met while modelling, with no run of their own:

* `audit/append.py:149`: a `decision_id` is written as it is given, and the table
  has no foreign key on it. The row of an append that names an unknown decision
  is committed, and `verify` reports the chain there for ever after, as
  manipulated (`audit/cli.py:6-7` and 74), and looks at nothing behind it. In this
  repository only the tests call `append`. `ChainVerifies` and `DamageIsReported`
  are stated up to such a row, and `audit_chain` has an append that makes one.
* `module_c/deterministic_evaluator.py:13-14` and `policy.py:6-7` promise
  POLICY_CONFLICT for incompatible versions of the same scope; versions only
  count in the rank (lines 143-152), and only obligations conflict (line 231). The
  documents do not say when two versions are incompatible. `FollowsPrecedence`
  therefore says what the code does, not what these lines promise: of two
  versions that both allow, the higher one decides, and `policy_decision` has them.
* `hitl/resolver.py:54-58` says `resolve` returns False for an approval that is
  not pending; `_diagnose_conflict` always raises.
* `hitl/governed_resume.py:8-10` names the policy's validity and version among
  what is revalidated; `_revalidate` checks neither.
* `now()` in the UPDATE that redeems a token is the start of its transaction, so
  a resume that waits for a lock can redeem a token that expired meanwhile;
  `governed_resume.py:13` has "no vencido". Likewise the approval is not read
  again after `_revalidate`. `RedeemedByTimelyCall` gives the bound that does hold:
  the call began before either expired. In `approval_contended` redemptions do
  come late.
* `execute_governed` runs the tool on the `effective_arguments` of an envelope that
  its caller passes (`hitl/execution.py:63`), while line 44 speaks of the
  retained arguments: the capability carries their digest, and nothing compares
  it with what is run.
* `module_c/deterministic_evaluator.py:5` has the sensitivity evaluated; nothing
  reads `sensitivity_limit` (`policy.py:30`). Lines 10-11 have the explanation
  ordered; that of a refusal is in the order of the database (lines
  167, 187 and 224), and `RowOrderIsIrrelevant` says that nothing else is.
* The upsert of `src/scripts/seed_policies.py:59-61` has the environment among
  what it restores and not in its key, so seeding another environment moves a row
  there, and a prohibition written into it leaves the old one.
  `ProhibitionOutlastsSeeding` is stated for the environment that is seeded.
* `module_a/governance.py:190` drops `token_plan`; the notification carries no
  token (`hitl/approval_service.py:166-167` says it is handed to the notifier).
* `hitl/notifier.py:7-8` wants a failed notification to abort with
  NOTIFICATION_FAILED; `pre_hook` swallows it after the commit, the call ends as
  HUMAN_APPROVAL_REQUIRED, and the approval stays pending with a live token.
  `PendingIsNotified` names all the ways in which an approval waits for a human
  who was not told.
* An error of the approval service that is not a `HitlError` leaves `pre_hook`
  with no decision recorded (`governance.py:214`); `EvidenceIsComplete` names it
  as the one exception besides a failed write.
* The tables of the approval flow and the chain reference `policy_decisions`
  (`src/migrations/versions/002_h5_policy_engine.py`), which nothing in the
  source writes; the approval models assume its rows exist, and `AuditChain` has
  both cases (`Decided`, `Known`).
* An event held again while another thread is evicting its expired entry can
  lose the new entry (`hitl/argument_hold.py:165`). `pre_hook` never holds an
  event twice, and `LiveEntryStays` and `FoundIsLive` are stated for that use.
* `verify` does not ask that the first row has sequence 1, and the hash covers
  neither the sequence nor the references. So it does not notice an event id or a
  decision exchanged for another that exists, a decision that is dropped, a chain
  of one row that is moved, nor a last row removed or rewritten with a hash that
  fits. `Shown` lists exactly what is noticed, and where.
* A run that is interrupted between `governance.py:284` and `governed_tool.py:79`
  leaves a PASS row for a tool that never ran. `EvidenceIsTrue` allows it for the
  last call of such a run and for no other.
* The expiry of a decision is looked at before each attempt
  (`tools/news_tool.py:106`), not when its request leaves, so one request may
  leave late; `OnlyLastRequestIsLate` says that no other follows it.
* A prohibition younger than the TTL may be missed, and in an outage an older
  one too; a permission may outlive its withdrawal likewise.
  `ProhibitionIsObeyed` and `PassIsAuthorised` give the bounds. Nothing bounds
  the outage if no cached policy has a `valid_until`.
* `DeterministicEvaluator` sets no `expires_at`, so DECISION_EXPIRED and the abort
  during a backoff cannot happen with the evaluator that the crew wires.
* `GDELTNewsProvider` follows no redirects, so a redirect raises before its check
  at `tools/news_providers.py:143`: it is a permanent failure with a fallback,
  while `tools/news_tool.py:14` wants an abort. A reply that is a JSON list raises
  an `AttributeError` that ends the tool ("crash" in the model).
* `tools/news_tool.py:15-16` tells "no news" from an incomplete search; a search
  whose two providers failed and one whose two providers had nothing end in the
  same answer, a SUCCESS.
* `ABACEvaluator`, which the crew no longer builds, still asks for policies with
  `effect = 'ALLOW'`, which migration 002 no longer admits.

## 5. What is proved

Every invariant, every action property and both refinements that the runs check
are theorems of their specifications: what TLC shows for the instances of
section 3, TLAPS proves for every value of the constants. Only the three liveness
properties are left to TLC. `PROJECT.json` lists the theorems with the property
each of them states.

### Assumptions

What the constants are is in an `ASSUME` of each module, which TLC evaluates in
its runs. Most of it is types. The rest is what the code gives:

* `ApprovalAssumption`: the TTL is positive.
* `EnforcementAssumption`: a profile lists no guardrail twice, as none of
  `module_c/profiles.py` does (`rate_limit` listed twice would count a call twice);
  at least one attempt.
* `HoldAssumption`: `None` is no argument and no entry.
* `ChainAssumption`: the events with a decision are among the events.
* `StoreAssumption`: there are finitely many policies, and two policies with one
  key are one policy.
* `TableAssumption`: policies written have coherent dates, which the database
  checks, and seeded ones allow, without an end.

The bounds `MaxTime`, `MaxCalls`, `MaxCrashes` and so on are any natural number:
no proof uses that they are small. Nothing assumes that the sets of events,
callers, threads or appends are finite.

### GovernedApproval

*For any wiring*, whoever requests, audits, resumes and executes what
(`GovernedApprovalSafety`, then `GovernedApprovalPromise`):

| invariant | carries | for the theorems |
|---|---|---|
| `SafetyInv` | an audit that holds the lock found its row pending (`AuditsAreSound`), which stays true because a row has one writer (`LocksAreExclusive`); a resume past revalidation has an approval, which is final, and one that claimed its token is the only one that did (`ResumesAreSound`); an executor at work has that capability (`ExecutorsAreSound`) | `TypeCorrect`, `EffectsApproved`, `CapabilityUnique`, `HistoryFinal` |
| `RowInv` | rows come from requests for their event, a token has a row, an approved one once it is redeemed; who is about to redeem a token began before it expired | `GivenTokenDurable` |
| `TimelyInv` | the expiry of a row is fixed (`RowsAreDated`), and who found the approval not expired began before that (`ApprovalsAreTimely`), because the row was approved and stays (`ApprovedRowStays`) | `RedeemedTimely` |

*Where an event is requested once* (`OneRequestPerEvent`, which `pre_hook`
guarantees with its fresh event ids): `HoldInv` says that the arguments of a live
token are in the hold from before the token exists, and that a restart takes
them away from every resume, present and future. It gives
`LiveTokenAlwaysHeld`, `CancelledNeverResumable` and `TokenSurvivesRestart`.

*Where a capability has one executor as well* (`OneExecutorPerCapability`):
`EffectInv` adds to `SafetyInv` that whoever may still invoke the tool does so for
an event without an effect (`ArmedIsFirst`), which gives `OneEffect`; `ResultInv`
adds that no result precedes its effect, which gives `SuccessAlwaysReal`. The
two premises are needed: the violation runs drop one of them each.

`ProtocolImplementsPromise` maps each step to a step of `HumanApproval` or to a
stutter. The phase of an event is a function of its row, of its tokens and of
its effects; `PhaseKept` says when it stays, and one lemma for each kind of
caller says which step of the promise a commit is. Under the two premises only:
without them one event has several tokens or effects, and the promise has
one of each.

### ArgumentHold

`TypeInv` has the byte count (`BytesOK`) and what a call in flight carries. The sum
of the sizes is the cardinality of the set of all bytes held (`HeldBytes`: byte
number i of event e), finite whatever the set of events, and two lemmas say what
an added and a removed entry do to it. For
`LiveEntryAlwaysStays` the invariant is `HeldOnce`: until the hold of an event
that is held once registers, no trace of it is anywhere; afterwards each snapshot,
and each list of the doomed, has that entry or nothing of it, and it is doomed
only when it expired. `FoundAlwaysLive` rests on the same.

### AuditChain

`TxInv` is about transactions: what an append wrote is what its head demands, and
nobody else inserted that sequence. On it rests `Chained`: without damage the rows
are sound, without gaps, and every head that was read is still a row, done. A
sound row has no defect but an unknown decision (`SoundDefect`), which gives
`ChainAlwaysVerifies`: what `verify` reports is the first of the `Orphans`, which
exists because sequences are well-founded (`VerifyFinds`). `DamageKept` says what
the damage leaves recognisable at each place of `Shown`, whatever is appended
after it (`SeenAt`): the rows below are a sound chain, and the row at the place is
altered, its link does not fit (`UnlinkedAt`), or a row is missing before it
(`MissingAt`). `DamageIsSeen` shows it for each kind of damage when it is done,
`DamageStaysSeen` for every later commit, and `DamageAlwaysReported` adds that
`verify` then points there, or before it at an orphan.
`ChainImplementsLog` maps the rows to the sequence of their records: a commit is
an append to the log, because its row has the highest sequence, and each other
step leaves the log alone.

### PolicyEvaluator and PolicyTable

`EvaluateFollowsPrecedence`: for every finite list of policies, `evaluate` follows
the precedence. That `Best` has a place to choose is shown by a smallest set of
places that would have none (`SmallestSet`, `BestExists`); what the precedence asks
of it follows from `Outranks`. `EvaluateIgnoresOrder`: two lists of the same
policies, with one row for each key, get the same ruling. The best of them is the
same policy, since `Outranks` is a strict order that compares any two policies with
different keys, and the list that explains a PASS is the same, since the policies
that precede one of them are.

`TableTypes` says that the statements keep one row for each key, by lemmas on a row
put in and one taken out. With it the two theorems on `evaluate` become
`PrecedenceAlwaysDecides` and `RowOrderAlwaysIrrelevant` for every table that can
come about. `ProhibitionAlwaysOutlasts`: a reason of prohibition names a policy
that prohibits; its row, seeded or not, still prohibits in the environment that
is seeded, and the precedence refuses where one policy does.

### PolicyStore

`StoreInv` says as of what time each list of policies in the program is sound, be
it cached, loaded or answered: it has only policies that were in the table and in
force then or later, and all that were published before then and still are in
force. A load is sound as of the start of its call, a cached entry as of its
date, an answer as of some time that is no more than the TTL before its call
unless it was served in an outage. `AnswerAlwaysInForce` is a part of it;
`PassAlwaysAuthorised` and `ProhibitionAlwaysObeyed`, which are about what the
evaluator does with an answer, follow at the step of the decision from
`EvaluateFollowsPrecedence`, and nothing later changes them.

### EnforcementPoint

`TypeInv` says that each call is counted at most once. `RateInv` bounds the tools
that ran by the counter and by the limit: they are fewer than the calls counted,
since a later gate may refuse one. `EvidenceInv` says what the tables hold
of an event that has not begun (`Untouched`), of one that ended (`Closed`), and of
the one in progress at each of its points (`Waiting`, `Executing`), with what they
may never say at any time (`Truthful`); the four theorems on evidence and
notifications are parts of it. `SearchInv` says the same of the trail of searches
and of what is about to be asked, and that once an attempt passed its check no
search of the trail is late: `PolicyAlwaysFollowed`, `OnlyLastRequestEverLate`.
`AllKept` shows that the policy leaves room in the trail for every search, so the
bound on it hides none.

### Layout of the proofs

The proof that a step preserves an invariant has one step for each kind of caller
or action; frame lemmas say what the steps of one kind leave alone. The
invariants that no run lists (`RowInv`, `HoldInv`, `ResultInv`, `BytesOK`,
`HeldOnce`, `TimelyInv`, `TxInv`, `Chained`, `DamageKept`, `StoreInv`, `RateInv`, `EvidenceInv`,
`SearchInv`) are conjunctions of named parts, each with what the next proof
needs.

### Only model-checked

`EveryCallReturns`, `EveryAppendEnds` and `EveryCallEnds`: liveness needs fairness
and ENABLED, which are out of the prover's reach. The five violation runs are
disagreements of the code with its documents, and have nothing to prove. That the
modules agree with one another where they meet, such as the hold of
`GovernedApproval` and `ArgumentHold`, is neither checked nor proved.

## 6. What is not modelled

The bearer tokens (assumed ideal), the sanitizer, the URL parsing of the host
allowlist, the unused YAML evaluator, the crew's wiring, the command line, the
dashboard, configuration and logging, the grants of the database roles, and the
demonstration scripts: they hold no state that changes, or work on characters.
What the modules leave out of the parts they model: backoff durations,
latencies, parsing and messages; the contents of arguments and of their
transformation; risk levels, sensitivity and the text of explanations; what a
notification says. Two processes that seed or edit the table at once are two
orders of the same statements, since each statement is a transaction of its
row; the enforcement point and the approval service meet only in the row that
`approval` stands for.

## 7. Plan

1. *Done*: the approval protocol with its abstract specification, the hold, the
   chain as an append-only log, the policy store, the evaluator on lists of
   policies and the table it decides on, the enforcement point with its HITL
   branch, the notifier and the classification of the providers' replies.
2. *Done*: the proofs of section 5. Every invariant and every action property of
   the runs, and both refinements, are theorems.
3. *Prove further*: the non-temporal half of the liveness properties, which is
   that no step takes a call back and that a call in progress has a step to take
   as long as nobody else holds its lock; that `ArgumentHold` gives
   `GovernedApproval` the hold it assumes.
4. *Left open*: an abstract specification of the hold (a map with expiry), and the
   host allowlist as an operator over abstract URLs.
