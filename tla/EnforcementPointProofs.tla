----------------------- MODULE EnforcementPointProofs -----------------------
(***************************************************************************)
(* The invariants of EnforcementPoint for every profile, rate limit,       *)
(* number of attempts and number of tool calls.                            *)
(***************************************************************************)
EXTENDS EnforcementPoint, FiniteSetTheorems, TLAPS

-----------------------------------------------------------------------------
(* What the operators return.                                              *)

\* There are two providers, and what a search finds is one of their outcomes.
LEMMA ProviderType == Providers = {"gdelt", "duckduckgo"}
BY DEF Providers, Replies

LEMMA OutcomeType ==
  ASSUME NEW p \in Providers, NEW reply \in Replies[p]
  PROVE  Outcome(reply) \in {Outcome(r) : r \in UNION {Replies[q] : q \in Providers}}
OBVIOUS

\* The guardrail rate_limit counts a call once, if nothing stopped it before.
LEMMA CountedType ==
  ASSUME TypeOK
  PROVE  /\ Counted \in {called, called + 1}
         /\ ~Blocking /\ (\E i \in DOMAIN Guards : Guards[i] = "rate_limit") => Counted = called + 1
<1> DEFINE C == {i \in DOMAIN Guards : Guards[i] = "rate_limit" /\ RunUpTo(i)}
<1>1. CASE C = {}
  <2>1. Cardinality(C) = 0
    BY <1>1, FS_EmptySet
  <2>2. ~Blocking => \A i \in DOMAIN Guards : Guards[i] # "rate_limit"
    <3>1. SUFFICES ASSUME ~Blocking, NEW i \in DOMAIN Guards, Guards[i] = "rate_limit" PROVE FALSE
      OBVIOUS
    <3>2. RunUpTo(i)
      BY <3>1, EnforcementAssumption DEF Blocking, RunUpTo
    <3>3. QED
      BY <1>1, <3>1, <3>2
  <2>3. QED
    BY <2>1, <2>2 DEF Counted, TypeOK
<1>2. CASE C # {}
  <2>1. PICK k \in C : TRUE
    BY <1>2
  <2>2. C = {k}
    BY <2>1, EnforcementAssumption
  <2>3. Cardinality(C) = 1
    BY <2>2, FS_Singleton
  <2>4. QED
    BY <2>3 DEF Counted, TypeOK
<1>3. QED
  BY <1>1, <1>2

-----------------------------------------------------------------------------
(* Type correctness.                                                       *)

\* A call in progress is an event, and counted at most once.
CallsAreCounted ==
    /\ pc \notin {"idle", "over"} => calls > 0
    /\ called <= calls
    /\ pc \in {"built", "decided"} => called < calls

TypeInv == TypeOK /\ CallsAreCounted

\* Leaving a call resets its local state.
LEMMA ForgetType ==
  ASSUME Forget
  PROVE  /\ call' \in Call /\ decision' \in PolicyDecision /\ provider' \in Providers
         /\ attempt' \in 0..(MaxAttempts - 1) /\ trail' = << >>
BY ProviderType, EnforcementAssumption DEF Forget, NoCall, NoDecision, Call, PolicyDecision

\* A refusal writes at most a decision row and ends the call.
LEMMA RefuseType ==
  ASSUME TypeInv, NEW action \in {"PASS", "BLOCK", "HITL"}, Refuse(action),
         pc \notin {"idle", "over"}, called' \in {called, called + 1}, called' <= calls
  PROVE  TypeInv'
<1>1. Forget /\ pc' = "idle"
  BY DEF Refuse, Leave
<1>2. UNCHANGED <<clock, calls, index, fate, approval, notice, results, unreported>>
  BY DEF Refuse, record_decision, humanVars
<1>3. calls \in Events /\ called' \in 0..MaxCalls
  BY EnforcementAssumption DEF TypeInv, TypeOK, CallsAreCounted, Events
<1>4. decisions' \in [Events -> {"NONE", "PASS", "BLOCK", "HITL"}]
  <2>1. decisions' \in {decisions, [decisions EXCEPT ![calls] = action]}
    BY DEF Refuse, record_decision
  <2>2. decisions \in [Events -> {"NONE", "PASS", "BLOCK", "HITL"}]
    BY DEF TypeInv, TypeOK
  <2>3. QED
    BY <1>3, <2>1, <2>2
<1>5. unrecorded' \subseteq Events
  <2>1. unrecorded' \in {unrecorded, unrecorded \cup {calls}}
    BY DEF Refuse, record_decision
  <2>2. unrecorded \subseteq Events
    BY DEF TypeInv, TypeOK
  <2>3. QED
    BY <1>3, <2>1, <2>2
<1>6. TypeOK'
  BY <1>1, <1>2, <1>3, <1>4, <1>5, ForgetType DEF TypeInv, TypeOK
<1>7. CallsAreCounted'
  BY <1>1, <1>2 DEF TypeInv, TypeOK, CallsAreCounted
<1>8. QED
  BY <1>6, <1>7 DEF TypeInv

\* The initial state is well typed.
LEMMA InitTypeInv == Init => TypeInv
<1> SUFFICES ASSUME Init PROVE TypeInv
  OBVIOUS
<1>1. TypeOK
  BY ProviderType, EnforcementAssumption
     DEF Init, TypeOK, NoCall, NoDecision, NoResult, Call, PolicyDecision
<1>2. CallsAreCounted
  BY DEF Init, CallsAreCounted
<1>3. QED
  BY <1>1, <1>2 DEF TypeInv

\* Every gate, every attempt of a tool, both hooks and the environment keep the
\* types.
LEMMA StepTypeInv == TypeInv /\ [Next]_vars => TypeInv'
<1> SUFFICES ASSUME TypeInv, [Next]_vars PROVE TypeInv'
  OBVIOUS
<1> USE EnforcementAssumption
        DEF TypeInv, TypeOK, CallsAreCounted, Events, localVars, auditVars, humanVars
<1>1. CASE Receive
  BY <1>1 DEF Receive
<1>2. CASE PepBlock \/ ExpiredBlock \/ PolicyBlock \/ SelectionBlock \/ HitlBlock
  BY <1>2, RefuseType DEF PepBlock, ExpiredBlock, PolicyBlock, SelectionBlock, HitlBlock, Passed
<1>3. CASE GuardrailBlock
  <2>1. called' \in {called, called + 1}
    BY <1>3, CountedType DEF GuardrailBlock
  <2>2. pc = "decided" /\ Refuse("BLOCK")
    BY <1>3 DEF GuardrailBlock, Passed
  <2>3. called' <= calls
    BY <2>1, <2>2
  <2>4. TypeInv
    OBVIOUS
  <2>5. QED
    BY <2>1, <2>2, <2>3, <2>4, RefuseType
<1>4. CASE Evaluate
  BY <1>4 DEF Evaluate, PolicyDecision
<1>5. CASE RequestApproval
  BY <1>5 DEF RequestApproval, NeedsHuman
<1>6. CASE RequestEscape
  BY <1>6, ForgetType DEF RequestEscape, NeedsHuman, Escape, Leave
<1>7. CASE Notify
  BY <1>7 DEF Notify
<1>8. CASE NotifyEscape
  BY <1>8, ForgetType DEF NotifyEscape, Escape, Leave
<1>9. CASE Allow
  <2>1. calls \in Events /\ pc = "decided" /\ called' \in {called, called + 1}
    BY <1>9, CountedType DEF Allow, Passed
  <2>2. /\ decisions' \in [Events -> {"NONE", "PASS", "BLOCK", "HITL"}]
        /\ unrecorded' \subseteq Events
        /\ UNCHANGED <<results, unreported>>
    BY <1>9, <2>1 DEF Allow, record_decision
  <2>3. index' \subseteq Events
    BY <1>9, <2>1 DEF Allow
  <2>4. /\ pc' = "allowed"
        /\ UNCHANGED <<clock, calls, call, decision, provider, attempt, trail, fate, approval, notice>>
    BY <1>9 DEF Allow
  <2>5. QED
    BY <2>1, <2>2, <2>3, <2>4
<1>10. CASE AnswerPrice \/ AbortSearch
  <2>1. PICK how \in {"returned", "raised"} :
          /\ pc' = how /\ fate' = [fate EXCEPT ![calls] = how]
          /\ pc = "running"
          /\ UNCHANGED <<clock, calls, call, decision, provider, attempt, trail, called, index,
                         auditVars, humanVars>>
    BY <1>10, Zenon DEF AnswerPrice, AbortSearch, End
  <2>2. fate' \in [Events -> {"unused", "started", "returned", "raised"}]
    BY <2>1
  <2>3. QED
    BY <2>1, <2>2
<1>11. CASE Search
  <2>1. PICK reply \in Replies[provider] :
          /\ trail' \in {trail, Append(trail, [provider |-> provider, outcome |-> Outcome(reply),
                                               at |-> clock])}
          /\ \/ End("returned") /\ UNCHANGED <<provider, attempt>>
             \/ End("raised") /\ UNCHANGED <<provider, attempt>>
             \/ Retries(Outcome(reply)) /\ Retry
             \/ MoveOn
    <3>1. PICK outcome \in {Outcome(reply) : reply \in Replies[provider]} :
            /\ Remember([provider |-> provider, outcome |-> outcome, at |-> clock])
            /\ \/ End("returned") /\ UNCHANGED <<provider, attempt>>
               \/ End("raised") /\ UNCHANGED <<provider, attempt>>
               \/ Retries(outcome) /\ Retry
               \/ MoveOn
      BY <1>11, Zenon DEF Search
    <3>2. PICK reply \in Replies[provider] : outcome = Outcome(reply)
      BY <3>1
    <3>3. trail' \in {trail, Append(trail, [provider |-> provider, outcome |-> outcome,
                                           at |-> clock])}
      BY <3>1 DEF Remember
    <3>4. QED
      BY <3>1, <3>2, <3>3, Zenon
  <2>2. trail' \in Seq([provider : Providers,
                        outcome : {Outcome(r) : r \in UNION {Replies[p] : p \in Providers}},
                        at : Nat])
    <3>1. CASE trail' = trail
      BY <3>1
    <3>2. CASE trail' = Append(trail, [provider |-> provider, outcome |-> Outcome(reply),
                                       at |-> clock])
      BY <3>2, OutcomeType
    <3>3. QED
      BY <2>1, <3>1, <3>2
  <2>3. /\ provider' \in Providers /\ attempt' \in 0..(MaxAttempts - 1)
        /\ pc' \in {"running", "returned", "raised"}
        /\ fate' \in [Events -> {"unused", "started", "returned", "raised"}]
    <3>1. /\ provider \in Providers /\ attempt \in 0..(MaxAttempts - 1) /\ MaxAttempts \in Nat
          /\ fate \in [Events -> {"unused", "started", "returned", "raised"}]
      BY EnforcementAssumption DEF TypeInv, TypeOK
    <3>2. ASSUME NEW how \in {"returned", "raised"}, End(how), UNCHANGED <<provider, attempt>>
          PROVE  /\ provider' \in Providers /\ attempt' \in 0..(MaxAttempts - 1)
                 /\ pc' \in {"running", "returned", "raised"}
                 /\ fate' \in [Events -> {"unused", "started", "returned", "raised"}]
      BY <3>1, <3>2 DEF End
    <3>3. CASE Retries(Outcome(reply)) /\ Retry
      BY <3>1, <3>3 DEF Retries, Retry
    <3>4. CASE MoveOn
      <4>1. CASE provider = "gdelt"
        BY <3>1, <3>4, <4>1, ProviderType DEF MoveOn
      <4>2. CASE provider # "gdelt"
        BY <3>2, <3>4, <4>2 DEF MoveOn
      <4>3. QED
        BY <4>1, <4>2
    <3>5. QED
      BY <2>1, <3>2, <3>3, <3>4
  <2>4. QED
    BY <1>11, <2>2, <2>3 DEF Search
<1>12. CASE Finish
  <2> DEFINE row == [status |-> Status, linked |-> calls \in index]
             Rows == [status : {"NONE", "SUCCESS", "FAILED"}, linked : BOOLEAN]
  <2>1. Status \in {"NONE", "SUCCESS", "FAILED"}
    BY DEF Status
  <2>2. row \in Rows
    <3>1. \A b \in BOOLEAN : [status |-> Status, linked |-> b] \in Rows
      BY <2>1
    <3>2. (calls \in index) \in BOOLEAN
      OBVIOUS
    <3>3. QED
      BY <3>1, <3>2, Zenon
  <2>3. results' = [results EXCEPT ![calls] = row] \/ results' = results
    BY <1>12, Zenon DEF Finish, record_result
  <2> HIDE DEF row
  <2>4. results' \in [Events -> Rows]
    BY <2>2, <2>3
  <2>5. unreported' \subseteq Events /\ UNCHANGED <<decisions, unrecorded>>
    <3>1. record_result(Status) /\ calls \in Events
      BY <1>12 DEF Finish
    <3>2. unreported' = unreported \cup {calls} \/ unreported' = unreported
      BY <3>1, Zenon DEF record_result
    <3>3. UNCHANGED <<decisions, unrecorded>>
      BY <3>1 DEF record_result
    <3>4. QED
      BY <3>1, <3>2, <3>3
  <2>6. pc' = "idle" /\ index' \subseteq Events /\ UNCHANGED <<clock, calls, called, fate, humanVars>>
    BY <1>12 DEF Finish, Leave
  <2>7. Forget
    BY <1>12 DEF Finish, Leave
  <2>8. QED
    BY <2>4, <2>5, <2>6, <2>7, ForgetType
<1>13. CASE Tick
  BY <1>13 DEF Tick
<1>14. CASE Interrupt
  BY <1>14, ForgetType DEF Interrupt
<1>15. CASE Start
  <2>1. calls \in Events
    BY <1>15 DEF Start
  <2>2. QED
    BY <1>15, <2>1 DEF Start
<1>16. CASE BeginAttempt
  BY <1>16 DEF BeginAttempt
<1>17. CASE UNCHANGED vars
  BY <1>17 DEF vars
<1>18. QED
  BY <1>1, <1>2, <1>3, <1>4, <1>5, <1>6, <1>7, <1>8, <1>9, <1>10, <1>11, <1>12, <1>13, <1>14,
     <1>15, <1>16, <1>17 DEF Next, Step

\* Whatever the profile, the answers and the failures, every variable keeps its
\* type: the attempts stay under max_attempts and the calls under the bound
\* (enforcement.cfg checks it for three calls).
THEOREM EnforcementTypes == Spec => []TypeOK
<1>1. TypeInv => TypeOK
  BY DEF TypeInv
<1>2. QED
  BY InitTypeInv, StepTypeInv, <1>1, PTL DEF Spec

-----------------------------------------------------------------------------
(* The rate limit: under it every tool that runs was counted, the count was *)
(* compared with the limit before, and a call that was let through has a    *)
(* place left for its tool.                                                 *)

Used == {e \in Events : fate[e] # "unused"}

Limited == \E i \in DOMAIN Guards : Guards[i] = "rate_limit"

RateInv ==
    /\ \A e \in Events : e > calls => fate[e] = "unused"
    /\ pc \in {"built", "decided", "allowed"} => fate[calls] = "unused"
    /\ pc \in {"running", "checked", "returned", "raised"} => fate[calls] # "unused"
    /\ Limited => Cardinality(Used) <= called /\ Cardinality(Used) <= RateLimit
    /\ Limited /\ pc = "allowed" => Cardinality(Used) < called /\ Cardinality(Used) < RateLimit

\* The used events are finitely many.
LEMMA UsedFinite ==
  ASSUME TypeOK
  PROVE  IsFiniteSet(Used) /\ Cardinality(Used) \in Nat
<1>1. IsFiniteSet(Events)
  BY EnforcementAssumption, FS_Interval DEF Events
<1>2. IsFiniteSet(Used)
  BY <1>1, FS_Subset DEF Used
<1>3. QED
  BY <1>2, FS_CardinalityType

\* What a step does to the tools: only Start starts one, and only a running one
\* ends.
LEMMA FateStep ==
  ASSUME TypeInv, [Next]_vars
  PROVE  \/ UNCHANGED fate /\ ~Start
         \/ Start
         \/ /\ pc \in {"running", "checked"} /\ pc' \in {"returned", "raised"}
            /\ fate' = [fate EXCEPT ![calls] = pc'] /\ UNCHANGED <<calls, called>>
<1>1. CASE AnswerPrice \/ AbortSearch
  BY <1>1 DEF AnswerPrice, AbortSearch, End
<1>2. CASE Search
  BY <1>2 DEF Search, MoveOn, Retry, End
<1>3. CASE \/ PepBlock \/ ExpiredBlock \/ PolicyBlock \/ SelectionBlock \/ GuardrailBlock \/ HitlBlock
           \/ RequestEscape \/ NotifyEscape
  BY <1>3 DEF PepBlock, ExpiredBlock, PolicyBlock, SelectionBlock, GuardrailBlock, HitlBlock,
              RequestEscape, NotifyEscape, Refuse, Escape
<1>4. CASE Receive \/ Evaluate \/ RequestApproval \/ Notify \/ Finish \/ Tick \/ Interrupt \/ UNCHANGED vars
  BY <1>4 DEF Receive, Evaluate, RequestApproval, Notify, Finish, Tick, Interrupt, vars
<1>5. CASE Allow \/ BeginAttempt
  BY <1>5 DEF Allow, BeginAttempt
<1>6. QED
  BY <1>1, <1>2, <1>3, <1>4, <1>5 DEF Next, Step

\* A step moves the call from one point to the next, and counts no call down.
LEMMA PlaceStep ==
  ASSUME TypeInv, [Next]_vars
  PROVE  /\ calls' \in {calls, calls + 1}
         /\ called' \in {called, called + 1}
         /\ calls' # calls => pc = "idle" /\ pc' = "built" /\ called' = called
         /\ pc' = "built" => pc = "built" \/ calls' = calls + 1
         /\ pc' = "decided" => calls' = calls /\ pc \in {"built", "decided"}
         /\ pc' = "allowed" => calls' = calls /\ (Allow \/ (pc = "allowed" /\ called' = called))
         /\ pc' \in {"running", "checked", "returned", "raised"} =>
              /\ calls' = calls
              /\ Start \/ pc \in {"running", "checked", "returned", "raised"}
<1> USE DEF TypeInv, TypeOK
<1>1. CASE AnswerPrice \/ AbortSearch \/ Allow \/ Start \/ BeginAttempt
  BY <1>1, CountedType DEF AnswerPrice, AbortSearch, End, Allow, Start, BeginAttempt
<1>2. CASE Search
  BY <1>2 DEF Search, MoveOn, Retry, End
<1>3. CASE \/ PepBlock \/ ExpiredBlock \/ PolicyBlock \/ SelectionBlock \/ GuardrailBlock \/ HitlBlock
           \/ RequestEscape \/ NotifyEscape
  BY <1>3, CountedType
     DEF PepBlock, ExpiredBlock, PolicyBlock, SelectionBlock, GuardrailBlock, HitlBlock,
         RequestEscape, NotifyEscape, Refuse, Escape, Leave
<1>4. CASE Receive \/ Evaluate \/ RequestApproval \/ Notify \/ Finish \/ Tick \/ Interrupt \/ UNCHANGED vars
  BY <1>4 DEF Receive, Evaluate, RequestApproval, Notify, Finish, Tick, Interrupt, vars, Leave, localVars
<1>5. QED
  BY <1>1, <1>2, <1>3, <1>4 DEF Next, Step

LEMMA InitRateInv == Init => RateInv
<1> SUFFICES ASSUME Init PROVE RateInv
  OBVIOUS
<1>1. Used = {}
  BY DEF Init, Used
<1>2. Cardinality(Used) = 0
  BY <1>1, FS_EmptySet
<1>3. QED
  BY <1>2, EnforcementAssumption DEF Init, RateInv

LEMMA StepRateInv == TypeInv /\ RateInv /\ [Next]_vars => RateInv'
<1> SUFFICES ASSUME TypeInv, RateInv, [Next]_vars PROVE RateInv'
  OBVIOUS
<1>1. IsFiniteSet(Used) /\ Cardinality(Used) \in Nat
  BY UsedFinite DEF TypeInv
<1>2. calls \in Nat /\ called \in Nat /\ RateLimit \in Nat
  BY EnforcementAssumption DEF TypeInv, TypeOK
<1>3. CASE UNCHANGED fate /\ ~Start
  <2>1. Cardinality(Used') = Cardinality(Used)
    BY <1>3 DEF Used
  <2>2. Limited => Cardinality(Used') <= called' /\ Cardinality(Used') <= RateLimit
    BY <1>1, <1>2, <2>1, PlaceStep DEF RateInv
  <2>3. pc' \in {"built", "decided", "allowed"} => fate'[calls'] = "unused"
    <3>1. CASE calls' = calls
      <4>1. pc' \in {"built", "decided", "allowed"} => pc \in {"built", "decided", "allowed"}
        BY <1>2, <3>1, PlaceStep DEF Allow, Passed
      <4>2. QED
        BY <1>3, <3>1, <4>1 DEF RateInv
    <3>2. CASE calls' = calls + 1
      BY <1>2, <1>3, <3>2, StepTypeInv, EnforcementAssumption DEF RateInv, TypeInv, TypeOK, Events
    <3>3. QED
      BY <3>1, <3>2, PlaceStep
  <2>4. \A e \in Events : e > calls' => fate'[e] = "unused"
    BY <1>2, <1>3, PlaceStep, EnforcementAssumption DEF RateInv, Events
  <2>5. pc' \in {"running", "checked", "returned", "raised"} => fate'[calls'] # "unused"
    BY <1>3, PlaceStep DEF RateInv
  <2>6. Limited /\ pc' = "allowed" => Cardinality(Used') < called' /\ Cardinality(Used') < RateLimit
    <3>1. CASE Allow
      <4>1. called' = Counted /\ ~Blocking
        BY <3>1 DEF Allow
      <4>2. Limited => called' = called + 1 /\ called + 1 <= RateLimit
        BY <4>1, CountedType, EnforcementAssumption DEF Limited, Blocking, Passes, TypeInv
      <4>3. QED
        BY <1>1, <1>2, <2>1, <4>2 DEF RateInv
    <3>2. CASE pc = "allowed" /\ called' = called
      BY <2>1, <3>2 DEF RateInv
    <3>3. QED
      BY <3>1, <3>2, PlaceStep
  <2>7. QED
    BY <2>2, <2>3, <2>4, <2>5, <2>6 DEF RateInv, Limited
<1>4. CASE pc \in {"running", "checked"} /\ pc' \in {"returned", "raised"}
           /\ fate' = [fate EXCEPT ![calls] = pc'] /\ UNCHANGED <<calls, called>>
  <2>1. Used' = Used
    BY <1>4 DEF Used, RateInv, TypeInv, TypeOK
  <2>2. calls \in Events
    BY <1>4, EnforcementAssumption DEF TypeInv, TypeOK, CallsAreCounted, Events
  <2>3. QED
    BY <1>4, <2>1, <2>2 DEF RateInv, TypeInv, TypeOK
<1>5. CASE Start
  <2>1. /\ pc = "allowed" /\ pc' = "running" /\ UNCHANGED <<calls, called>>
        /\ fate' = [fate EXCEPT ![calls] = "started"]
    BY <1>5 DEF Start
  <2>2. calls \in Events /\ calls \notin Used
    BY <2>1, EnforcementAssumption DEF TypeInv, TypeOK, CallsAreCounted, Events, RateInv, Used
  <2>3. Used' = Used \cup {calls}
    BY <2>1, <2>2 DEF Used, TypeInv, TypeOK
  <2>4. Cardinality(Used') = Cardinality(Used) + 1
    BY <1>1, <2>2, <2>3, FS_AddElement
  <2>5. Limited => Cardinality(Used') <= called' /\ Cardinality(Used') <= RateLimit
    BY <1>1, <1>2, <2>1, <2>4 DEF RateInv
  <2>6. QED
    BY <2>1, <2>2, <2>5 DEF RateInv, TypeInv, TypeOK
<1>6. QED
  BY <1>3, <1>4, <1>5, FateStep

\* However many calls the agent makes and whichever of them the gates stop, at
\* most RateLimit tools run (guardrails.py:69-73).
THEOREM RateLimitHeld == Spec => []RateLimitHolds
<1>1. RateInv => RateLimitHolds
  BY DEF RateInv, RateLimitHolds, Limited, Used
<1>2. QED
  BY InitTypeInv, StepTypeInv, InitRateInv, StepRateInv, <1>1, PTL DEF Spec
-----------------------------------------------------------------------------
(* The evidence: what the tables hold of an event that did not begin, of     *)
(* one that is over, and of the one in progress, at each of its points.      *)

Untouched(e) ==
    /\ fate[e] = "unused" /\ decisions[e] = "NONE" /\ results[e] = NoResult
    /\ approval[e] = "NONE" /\ notice[e] = "none"

\* What the tables may never say, at any time.
Truthful(e) ==
    /\ decisions[e] = "PASS" => fate[e] # "unused" \/ (e = calls /\ pc \in {"allowed", "over"})
    /\ decisions[e] \in {"BLOCK", "HITL"} => fate[e] = "unused"
    /\ approval[e] # "NONE" => decisions[e] \in {"NONE", "HITL"} /\ fate[e] = "unused"
    /\ results[e].status = "SUCCESS" => fate[e] = "returned"
    /\ results[e].status = "FAILED" => fate[e] = "raised"
    /\ results[e].status # "NONE" => results[e].linked
    /\ notice[e] = "delivered" => approval[e] = "PENDING"

\* What they say of a call that ended.
Closed(e) ==
    /\ decisions[e] = "NONE" => e \in unrecorded
    /\ fate[e] # "unused" /\ results[e].status = "NONE" => e \in unreported
    /\ approval[e] = "PENDING" => notice[e] # "none" \/ (e \in unrecorded /\ decisions[e] = "NONE")

\* What they say of the call in progress before its tool, when it was let
\* through, and during the tool.
Waiting(e) ==
    /\ fate[e] = "unused" /\ decisions[e] = "NONE" /\ results[e] = NoResult
    /\ pc \in {"built", "decided"} => approval[e] = "NONE" /\ notice[e] = "none"
    /\ pc = "issued" => approval[e] = "PENDING" /\ notice[e] = "none"
    /\ pc = "asked" /\ approval[e] = "PENDING" => notice[e] # "none"

Admitted(e) ==
    /\ decisions[e] = "NONE" => e \in unrecorded
    /\ decisions[e] \in {"NONE", "PASS"}
    /\ results[e] = NoResult
    /\ approval[e] = "NONE" /\ notice[e] = "none"

Executing(e) ==
    /\ fate[e] = IF pc \in {"running", "checked"} THEN "started" ELSE pc
    /\ Admitted(e)

BeforeTool == pc \in {"built", "decided", "issued", "asked"}
InTool == pc \in {"running", "checked", "returned", "raised"}

EvidenceInv ==
    /\ \A e \in Events : Truthful(e)
    /\ \A e \in Events : e > calls => Untouched(e)
    /\ pc # "over" => \A e \in Events : e < calls => Closed(e)
    /\ pc = "idle" /\ calls > 0 => Closed(calls)
    /\ BeforeTool => Waiting(calls)
    /\ pc = "allowed" => Admitted(calls) /\ fate[calls] = "unused"
    /\ InTool => Executing(calls)
    /\ pc # "over" => index = IF InTool \/ pc = "allowed" THEN {calls} ELSE {}

\* A step leaves what the tables say of e alone.
Same(e) ==
    /\ fate'[e] = fate[e] /\ decisions'[e] = decisions[e] /\ results'[e] = results[e]
    /\ approval'[e] = approval[e] /\ notice'[e] = notice[e]
    /\ e \in unrecorded' <=> e \in unrecorded
    /\ e \in unreported' <=> e \in unreported

\* A step writes of no other event than the current one, and of none between
\* two calls.
LEMMA OthersSame ==
  ASSUME TypeInv, [Next]_vars, NEW e \in Events, e # calls \/ pc \in {"idle", "over"}
  PROVE  Same(e)
<1> USE DEF Same, TypeInv, TypeOK
<1>1. CASE PepBlock \/ ExpiredBlock \/ PolicyBlock \/ SelectionBlock \/ GuardrailBlock \/ HitlBlock
  <2>1. PICK action \in {"BLOCK", "HITL"} : Refuse(action) /\ pc \notin {"idle", "over"}
    BY <1>1 DEF PepBlock, ExpiredBlock, PolicyBlock, SelectionBlock, GuardrailBlock, HitlBlock, Passed
  <2>2. QED
    BY <2>1 DEF Refuse, record_decision, humanVars
<1>2. CASE Allow \/ Start
  BY <1>2 DEF Allow, Passed, Start, record_decision, auditVars, humanVars
<1>3. CASE RequestApproval
  BY <1>3 DEF RequestApproval, NeedsHuman, auditVars
<1>4. CASE RequestEscape \/ NotifyEscape
  BY <1>4 DEF RequestEscape, NotifyEscape, NeedsHuman, Escape
<1>5. CASE Notify
  BY <1>5 DEF Notify, auditVars
<1>6. CASE AnswerPrice \/ AbortSearch \/ BeginAttempt
  BY <1>6 DEF AnswerPrice, AbortSearch, BeginAttempt, End, auditVars, humanVars
<1>7. CASE Search
  BY <1>7 DEF Search, MoveOn, Retry, End, auditVars, humanVars
<1>8. CASE Finish
  BY <1>8 DEF Finish, record_result, humanVars
<1>9. CASE Receive \/ Evaluate \/ Tick \/ Interrupt \/ UNCHANGED vars
  BY <1>9 DEF Receive, Evaluate, Tick, Interrupt, vars, auditVars, humanVars
<1>10. QED
  BY <1>1, <1>2, <1>3, <1>4, <1>5, <1>6, <1>7, <1>8, <1>9 DEF Next, Step

\* So for a step inside a call only that call has to be looked at.
LEMMA OnlyTheCall ==
  ASSUME TypeInv, EvidenceInv, [Next]_vars, UNCHANGED calls,
         calls \in Events,
         Truthful(calls)',
         pc' = "idle" => Closed(calls)',
         BeforeTool' => Waiting(calls)',
         pc' = "allowed" => Admitted(calls)' /\ fate'[calls] = "unused",
         InTool' => Executing(calls)',
         pc' # "over" => pc # "over" /\ index' = IF InTool' \/ pc' = "allowed" THEN {calls} ELSE {}
  PROVE  EvidenceInv'
<1>1. ASSUME NEW e \in Events PROVE Truthful(e)'
  <2>1. CASE e = calls
    BY <2>1
  <2>2. CASE e # calls
    BY <2>2, OthersSame DEF Same, Truthful, EvidenceInv
  <2>3. QED
    BY <2>1, <2>2
<1>2. ASSUME NEW e \in Events, e > calls PROVE Untouched(e)'
  <2>1. Same(e)
    BY <1>2, OthersSame, EnforcementAssumption DEF Events
  <2>2. QED
    BY <1>2, <2>1 DEF Same, Untouched, EvidenceInv
<1>3. ASSUME NEW e \in Events, e < calls, pc' # "over" PROVE Closed(e)'
  <2>1. Same(e)
    BY <1>3, OthersSame, EnforcementAssumption DEF Events
  <2>2. QED
    BY <1>3, <2>1 DEF Same, Closed, EvidenceInv
<1>4. QED
  BY <1>1, <1>2, <1>3 DEF EvidenceInv

\* A refusal before the tool.
LEMMA RefuseEvidence ==
  ASSUME TypeInv, EvidenceInv, [Next]_vars, BeforeTool,
         NEW action \in {"BLOCK", "HITL"}, Refuse(action),
         action = "BLOCK" => pc \in {"built", "decided"}, pc # "issued"
  PROVE  EvidenceInv'
<1> USE DEF BeforeTool, InTool
<1>1. calls \in Events /\ calls' = calls /\ pc' = "idle"
  BY EnforcementAssumption DEF TypeInv, TypeOK, CallsAreCounted, Events, Refuse, Leave
<1>2. UNCHANGED <<fate, results, approval, notice, unreported, index>>
  BY DEF Refuse, record_decision, humanVars
<1>3. Waiting(calls) /\ Truthful(calls) /\ index = {}
  BY <1>1 DEF EvidenceInv
<1>4. \/ decisions'[calls] = action
      \/ decisions'[calls] = "NONE" /\ calls \in unrecorded'
  BY <1>1, <1>3 DEF Refuse, record_decision, TypeInv, TypeOK, Waiting
<1>5. Truthful(calls)'
  BY <1>1, <1>2, <1>3, <1>4 DEF Truthful, Waiting, NoResult
<1>6. Closed(calls)'
  BY <1>1, <1>2, <1>3, <1>4 DEF Closed, Waiting, NoResult
<1>7. QED
  BY <1>1, <1>2, <1>3, <1>5, <1>6, OnlyTheCall

LEMMA InitEvidenceInv == Init => EvidenceInv
BY EnforcementAssumption
   DEF Init, EvidenceInv, Truthful, Untouched, Closed, Waiting, Admitted, Executing, BeforeTool, InTool,
       NoResult, Events

LEMMA StepEvidenceInv == TypeInv /\ EvidenceInv /\ [Next]_vars => EvidenceInv'
<1> SUFFICES ASSUME TypeInv, EvidenceInv, [Next]_vars PROVE EvidenceInv'
  OBVIOUS
<1> USE DEF BeforeTool, InTool
<1>0. pc \notin {"idle", "over"} =>
        /\ calls \in Events /\ Truthful(calls)
        /\ BeforeTool => Waiting(calls) /\ index = {}
        /\ pc = "allowed" => Admitted(calls) /\ fate[calls] = "unused" /\ index = {calls}
        /\ InTool => Executing(calls) /\ index = {calls}
  BY EnforcementAssumption DEF TypeInv, TypeOK, CallsAreCounted, Events, EvidenceInv
<1>1. CASE Receive
  <2>1. /\ pc = "idle" /\ calls' = calls + 1 /\ pc' = "built" /\ calls \in Nat /\ calls + 1 \in Events
        /\ UNCHANGED <<fate, decisions, results, approval, notice, unrecorded, unreported, index>>
    BY <1>1, EnforcementAssumption DEF Receive, auditVars, humanVars, TypeInv, TypeOK, Events
  <2>2. Untouched(calls + 1) /\ index = {}
    BY <2>1 DEF EvidenceInv
  <2>3. Waiting(calls)'
    BY <2>1, <2>2 DEF Waiting, Untouched
  <2>4. \A e \in Events : Truthful(e)'
    BY <2>1 DEF EvidenceInv, Truthful
  <2>5. \A e \in Events : e > calls' => Untouched(e)'
    BY <2>1, EnforcementAssumption DEF EvidenceInv, Untouched, Events
  <2>6. \A e \in Events : e < calls' => Closed(e)'
    BY <2>1, EnforcementAssumption DEF EvidenceInv, Closed, Events
  <2>7. QED
    BY <2>1, <2>2, <2>3, <2>4, <2>5, <2>6 DEF EvidenceInv
<1>2. CASE PepBlock \/ ExpiredBlock \/ PolicyBlock \/ SelectionBlock \/ GuardrailBlock
  <2>1. Refuse("BLOCK") /\ pc \in {"built", "decided"}
    BY <1>2 DEF PepBlock, ExpiredBlock, PolicyBlock, SelectionBlock, GuardrailBlock, Passed
  <2>2. QED
    BY <2>1, RefuseEvidence
<1>3. CASE HitlBlock
  BY <1>3, RefuseEvidence DEF HitlBlock
<1>4. CASE Evaluate
  <2>1. /\ pc = "built" /\ pc' = "decided"
        /\ UNCHANGED <<calls, fate, decisions, results, approval, notice, unrecorded, unreported, index>>
    BY <1>4 DEF Evaluate, auditVars, humanVars
  <2>2. Truthful(calls)' /\ Waiting(calls)'
    BY <2>1, <1>0 DEF Truthful, Waiting
  <2>3. QED
    BY <2>1, <2>2, <1>0, OnlyTheCall
<1>5. CASE RequestApproval
  <2>1. /\ pc = "decided" /\ calls \in Events
        /\ UNCHANGED <<calls, fate, decisions, results, notice, unrecorded, unreported, index>>
        /\ \/ approval' = [approval EXCEPT ![calls] = "PENDING"] /\ pc' = "issued"
           \/ approval' \in {approval, [approval EXCEPT ![calls] = "CANCELLED"]} /\ pc' = "asked"
    BY <1>0, <1>5 DEF RequestApproval, NeedsHuman, auditVars
  <2>2. \/ approval'[calls] = "PENDING" /\ pc' = "issued"
        \/ approval'[calls] \in {"NONE", "CANCELLED"} /\ pc' = "asked"
    BY <2>1, <1>0 DEF TypeInv, TypeOK, Waiting
  <2>3. Truthful(calls)' /\ Waiting(calls)'
    BY <2>1, <2>2, <1>0 DEF Truthful, Waiting, NoResult
  <2>4. QED
    BY <2>1, <2>2, <2>3, <1>0, OnlyTheCall
<1>6. CASE RequestEscape
  <2>1. /\ pc = "decided" /\ pc' = "idle" /\ calls \in Events /\ calls \in unrecorded'
        /\ UNCHANGED <<calls, fate, decisions, results, notice, unreported, index>>
    BY <1>0, <1>6 DEF RequestEscape, NeedsHuman, Escape, Leave
  <2>2. Truthful(calls)' /\ Closed(calls)'
    BY <2>1, <1>0 DEF Truthful, Closed, Waiting, NoResult
  <2>3. QED
    BY <2>1, <2>2, <1>0, OnlyTheCall
<1>7. CASE Notify
  <2>1. /\ pc = "issued" /\ pc' = "asked" /\ calls \in Events /\ notice'[calls] # "none"
        /\ UNCHANGED <<calls, fate, decisions, results, approval, unrecorded, unreported, index>>
    BY <1>0, <1>7 DEF Notify, auditVars, TypeInv, TypeOK
  <2>2. Truthful(calls)' /\ Waiting(calls)'
    BY <2>1, <1>0 DEF Truthful, Waiting, NoResult
  <2>3. QED
    BY <2>1, <2>2, <1>0, OnlyTheCall
<1>8. CASE NotifyEscape
  <2>1. /\ pc = "issued" /\ pc' = "idle" /\ calls \in Events /\ calls \in unrecorded'
        /\ notice'[calls] = "failed"
        /\ UNCHANGED <<calls, fate, decisions, results, approval, unreported, index>>
    BY <1>0, <1>8 DEF NotifyEscape, Escape, Leave, TypeInv, TypeOK
  <2>2. Truthful(calls)' /\ Closed(calls)'
    BY <2>1, <1>0 DEF Truthful, Closed, Waiting, NoResult
  <2>3. QED
    BY <2>1, <2>2, <1>0, OnlyTheCall
<1>9. CASE Allow
  <2>1. /\ pc = "decided" /\ pc' = "allowed" /\ calls \in Events
        /\ record_decision("PASS") /\ index' = {calls}
        /\ UNCHANGED <<calls, fate, approval, notice, results, unreported>>
    BY <1>0, <1>9 DEF Allow, Passed, record_decision, humanVars
  <2>2. \/ decisions'[calls] = "PASS"
        \/ decisions'[calls] = "NONE" /\ calls \in unrecorded'
    BY <2>1, <1>0 DEF record_decision, Waiting, TypeInv, TypeOK
  <2>3. Truthful(calls)' /\ Admitted(calls)' /\ fate'[calls] = "unused"
    BY <2>1, <2>2, <1>0 DEF Truthful, Admitted, Waiting, NoResult
  <2>4. QED
    BY <2>1, <2>3, <1>0, OnlyTheCall
<1>10. CASE Start
  <2>1. /\ pc = "allowed" /\ pc' = "running" /\ calls \in Events /\ fate'[calls] = "started"
        /\ UNCHANGED <<calls, approval, notice, decisions, unrecorded, results, unreported, index>>
    BY <1>0, <1>10 DEF Start, auditVars, humanVars, TypeInv, TypeOK
  <2>2. Truthful(calls)' /\ Executing(calls)'
    BY <2>1, <1>0 DEF Truthful, Admitted, Executing, NoResult
  <2>3. QED
    BY <2>1, <2>2, <1>0, OnlyTheCall
<1>11. CASE AnswerPrice \/ AbortSearch \/ BeginAttempt \/ Search
  <2>1. /\ pc \in {"running", "checked"} /\ calls \in Events
        /\ \/ pc' \in {"running", "checked"} /\ fate' = fate
           \/ pc' \in {"returned", "raised"} /\ fate' = [fate EXCEPT ![calls] = pc']
        /\ UNCHANGED <<calls, approval, notice, decisions, unrecorded, results, unreported, index>>
    BY <1>0, <1>11
       DEF AnswerPrice, AbortSearch, BeginAttempt, Search, MoveOn, Retry, End, auditVars, humanVars
  <2>2. fate'[calls] = IF pc' \in {"running", "checked"} THEN "started" ELSE pc'
    BY <2>1, <1>0 DEF Executing, TypeInv, TypeOK
  <2>3. Truthful(calls)' /\ Executing(calls)'
    BY <2>1, <2>2, <1>0 DEF Truthful, Admitted, Executing, NoResult
  <2>4. QED
    BY <2>1, <2>3, <1>0, OnlyTheCall
<1>12. CASE Finish
  <2>1. /\ pc \in {"returned", "raised"} /\ pc' = "idle" /\ calls \in Events /\ index' = {}
        /\ record_result(Status)
        /\ UNCHANGED <<calls, fate, approval, notice, decisions, unrecorded>>
    BY <1>0, <1>12 DEF Finish, Leave, record_result, humanVars
  <2>2. \/ results'[calls].status = Status /\ results'[calls].linked
        \/ results'[calls] = NoResult /\ calls \in unreported'
    <3>1. calls \in index /\ results[calls] = NoResult /\ results \in [Events -> {results[e] : e \in Events}]
      BY <2>1, <1>0 DEF Admitted, Executing, TypeInv, TypeOK
    <3>2. CASE results' = results /\ unreported' = unreported \cup {calls}
      BY <3>1, <3>2
    <3>3. CASE results' = [results EXCEPT ![calls] = [status |-> Status, linked |-> calls \in index]]
      <4>1. results'[calls] = [status |-> Status, linked |-> calls \in index]
        BY <2>1, <3>1, <3>3, Zenon
      <4>2. (calls \in index) = TRUE
        BY <3>1
      <4>3. results'[calls] = [status |-> Status, linked |-> TRUE]
        BY <4>1, <4>2, Zenon
      <4>4. QED
        BY <4>3
    <3>4. QED
      BY <2>1, <3>2, <3>3, Zenon DEF record_result
  <2>3. Truthful(calls)' /\ Closed(calls)'
    BY <2>1, <2>2, <1>0 DEF Truthful, Closed, Admitted, Executing, NoResult, Status
  <2>4. QED
    BY <2>1, <2>3, <1>0, OnlyTheCall
<1>13. CASE Interrupt
  BY <1>13 DEF Interrupt, EvidenceInv, Truthful, Untouched, auditVars, humanVars
<1>14. CASE Tick \/ UNCHANGED vars
  <2>1. UNCHANGED <<pc, calls, fate, approval, notice, decisions, unrecorded, results, unreported, index>>
    BY <1>14 DEF Tick, vars, localVars, auditVars, humanVars
  <2>2. QED
    BY <2>1 DEF EvidenceInv, Truthful, Untouched, Closed, Waiting, Admitted, Executing
<1>15. QED
  BY <1>1, <1>2, <1>3, <1>4, <1>5, <1>6, <1>7, <1>8, <1>9, <1>10, <1>11, <1>12, <1>13, <1>14
     DEF Next, Step

LEMMA EvidenceAlways == Spec => [](TypeInv /\ EvidenceInv)
BY InitTypeInv, StepTypeInv, InitEvidenceInv, StepEvidenceInv, PTL DEF Spec

\* The audit tables never deny a tool that ran, tell of one that did not only in
\* the last PASS row of a run interrupted before its tool started, and link every
\* result to its decision (governance.py).
THEOREM EvidenceAlwaysTrue == Spec => []EvidenceIsTrue
<1>1. TypeInv /\ EvidenceInv => EvidenceIsTrue
  BY DEF EvidenceInv, Truthful, EvidenceIsTrue
<1>2. QED
  BY EvidenceAlways, <1>1, PTL

\* No call and no result goes unrecorded but by a write that failed, whatever
\* the order of refusals, failures and interruptions (INV-01).
THEOREM EvidenceAlwaysComplete == Spec => []EvidenceIsComplete
<1>1. ASSUME TypeInv, EvidenceInv, pc # "over" PROVE EvidenceIsComplete
  <2>0. calls \in 0..MaxCalls /\ pc \in {"idle", "built", "decided", "issued", "asked", "allowed",
                                         "running", "checked", "returned", "raised"}
    BY <1>1 DEF TypeInv, TypeOK
  <2>1. ASSUME NEW e \in 1..calls, decisions[e] = "NONE"
        PROVE  e \in unrecorded \/ (e = calls /\ pc \in {"built", "decided", "issued", "asked"})
    <3>1. e \in Events /\ (e < calls \/ e = calls)
      BY <2>0, EnforcementAssumption DEF Events
    <3>2. CASE e < calls
      BY <1>1, <2>1, <3>1, <3>2 DEF EvidenceInv, Closed
    <3>3. CASE e = calls
      BY <1>1, <2>0, <2>1, <3>1, <3>3 DEF EvidenceInv, Closed, Admitted, Executing, BeforeTool, InTool
    <3>4. QED
      BY <3>1, <3>2, <3>3
  <2>2. ASSUME NEW e \in Events, fate[e] # "unused", results[e].status = "NONE"
        PROVE  e \in unreported \/ (e = calls /\ pc \in {"running", "checked", "returned", "raised"})
    <3>1. e < calls \/ e = calls \/ e > calls
      BY <2>0, EnforcementAssumption DEF Events
    <3>2. CASE e < calls
      BY <1>1, <2>2, <3>2 DEF EvidenceInv, Closed
    <3>3. CASE e = calls
      BY <1>1, <2>0, <2>2, <3>3, EnforcementAssumption
         DEF EvidenceInv, Closed, Waiting, BeforeTool, InTool, Events
    <3>4. CASE e > calls
      BY <1>1, <2>2, <3>4 DEF EvidenceInv, Untouched
    <3>5. QED
      BY <3>1, <3>2, <3>3, <3>4
  <2>3. \A e \in index : e = calls /\ pc \in {"allowed", "running", "checked", "returned", "raised"}
    BY <1>1 DEF EvidenceInv, InTool
  <2>4. QED
    BY <2>1, <2>2, <2>3 DEF EvidenceIsComplete
<1>2. TypeInv /\ EvidenceInv => EvidenceIsComplete
  BY <1>1 DEF EvidenceIsComplete
<1>3. QED
  BY EvidenceAlways, <1>2, PTL

\* A human is told only of an approval that is committed and pending
\* (governance.py:205).
THEOREM NotifiedAlwaysPending == Spec => []NotifiedIsPending
<1>1. TypeInv /\ EvidenceInv => NotifiedIsPending
  BY DEF EvidenceInv, Truthful, NotifiedIsPending
<1>2. QED
  BY EvidenceAlways, <1>1, PTL

\* No approval waits unannounced, but for a failed notification or an
\* interruption.
THEOREM PendingAlwaysNotified == Spec => []PendingIsNotified
<1>1. ASSUME TypeInv, EvidenceInv, pc # "over", NEW e \in Events, approval[e] = "PENDING"
      PROVE  \/ notice[e] # "none"
             \/ e = calls /\ pc = "issued"
             \/ e \in unrecorded /\ decisions[e] = "NONE"
  <2>0. calls \in 0..MaxCalls /\ pc \in {"idle", "built", "decided", "issued", "asked", "allowed",
                                         "running", "checked", "returned", "raised"}
    BY <1>1 DEF TypeInv, TypeOK
  <2>1. e < calls \/ e = calls \/ e > calls
    BY <2>0, EnforcementAssumption DEF Events
  <2>2. CASE e < calls
    BY <1>1, <2>2 DEF EvidenceInv, Closed
  <2>3. CASE e = calls
    BY <1>1, <2>0, <2>3, EnforcementAssumption
       DEF EvidenceInv, Closed, Waiting, Admitted, Executing, BeforeTool, InTool, Events
  <2>4. CASE e > calls
    BY <1>1, <2>4 DEF EvidenceInv, Untouched
  <2>5. QED
    BY <2>1, <2>2, <2>3, <2>4
<1>2. TypeInv /\ EvidenceInv => PendingIsNotified
  BY <1>1 DEF PendingIsNotified
<1>3. QED
  BY EvidenceAlways, <1>2, PTL

-----------------------------------------------------------------------------
(* The searches of a call: what NewsTool is about to ask, with q the        *)
(* provider and a the attempts that failed, agrees with those in t.         *)

SearchRecord ==
    [provider : {"gdelt", "duckduckgo"},
     outcome : {Outcome(r) : r \in UNION {Replies[p] : p \in Providers}}, at : Nat]

Asked(t, p) == {i \in DOMAIN t : t[i].provider = p}

\* The two sides of RetriesFollowPolicy: how often, and after what.
AskedAtMost(t) == \A p \in Providers : Cardinality(Asked(t, p)) <= MaxAttempts

Follows(t, q, last) ==
    /\ last.outcome \in {"empty", "permanent", "transient"}
    /\ q = last.provider => last.outcome = "transient"
    /\ q # last.provider =>
         /\ last.provider = "gdelt"
         /\ last.outcome = "transient" => Cardinality(Asked(t, "gdelt")) = MaxAttempts

InTurn(t) == \A i \in DOMAIN t : i + 1 \in DOMAIN t => Follows(t, t[i + 1].provider, t[i])

Pursues(t, q, a) ==
    /\ Cardinality(Asked(t, q)) = a
    /\ q = "gdelt" => Asked(t, "duckduckgo") = {}
    /\ Len(t) > 0 => Follows(t, q, t[Len(t)])

\* No search of t left after x.
InTime(t, x) == \A i \in DOMAIN t : t[i].at <= x

\* Whoever is about to search passed the check at a time when every earlier
\* search had been in time.
SearchInv ==
    /\ AskedAtMost(trail) /\ InTurn(trail)
    /\ OnlyLastRequestIsLate
    /\ InTime(trail, clock)
    /\ pc = "checked" => \A x \in decision.expires_at : InTime(trail, x)
    /\ ~InTool => trail = << >> /\ provider = "gdelt" /\ attempt = 0
    /\ pc \in {"running", "checked"} => Pursues(trail, provider, attempt)

\* The searches of each provider are finitely many.
LEMMA AskedFinite ==
  ASSUME NEW t \in Seq(SearchRecord), NEW p
  PROVE  IsFiniteSet(Asked(t, p)) /\ Cardinality(Asked(t, p)) \in Nat
<1>1. IsFiniteSet(1..Len(t))
  BY FS_Interval
<1>2. Asked(t, p) \subseteq 1..Len(t)
  BY DEF Asked
<1>3. IsFiniteSet(Asked(t, p))
  BY <1>1, <1>2, FS_Subset
<1>4. QED
  BY <1>3, FS_CardinalityType

\* One more search adds its place to the searches of its provider.
LEMMA AskedAppend ==
  ASSUME NEW t \in Seq(SearchRecord), NEW s \in SearchRecord
  PROVE  /\ Cardinality(Asked(Append(t, s), s.provider)) = Cardinality(Asked(t, s.provider)) + 1
         /\ \A p : p # s.provider => Asked(Append(t, s), p) = Asked(t, p)
<1> DEFINE u == Append(t, s)
<1>1. /\ Len(t) \in Nat /\ DOMAIN t = 1..Len(t) /\ DOMAIN u = 1..(Len(t) + 1)
      /\ \A i \in 1..Len(t) : u[i] = t[i]
      /\ u[Len(t) + 1] = s
  OBVIOUS
<1> HIDE DEF u
<1>2. Asked(u, s.provider) = Asked(t, s.provider) \cup {Len(t) + 1}
  BY <1>1 DEF Asked
<1>3. Len(t) + 1 \notin Asked(t, s.provider)
  BY <1>1 DEF Asked
<1>4. Cardinality(Asked(u, s.provider)) = Cardinality(Asked(t, s.provider)) + 1
  BY <1>2, <1>3, AskedFinite, FS_AddElement
<1>5. \A p : p # s.provider => Asked(u, p) = Asked(t, p)
  BY <1>1 DEF Asked
<1>6. QED
  BY <1>4, <1>5 DEF u

\* With no search made the primary is to be asked for the first time.
LEMMA NothingAsked == AskedAtMost(<< >>) /\ InTurn(<< >>) /\ Pursues(<< >>, "gdelt", 0)
<1>1. \A p : Asked(<< >>, p) = {}
  BY DEF Asked
<1>2. \A p : Cardinality(Asked(<< >>, p)) = 0
  BY <1>1, FS_EmptySet
<1>3. QED
  BY <1>1, <1>2, EnforcementAssumption DEF AskedAtMost, InTurn, Pursues

\* An attempt that NewsTool is about to make keeps the policy.
LEMMA AttemptInTurn ==
  ASSUME NEW t \in Seq(SearchRecord), NEW s \in SearchRecord, NEW a \in 0..(MaxAttempts - 1),
         AskedAtMost(t), InTurn(t), Pursues(t, s.provider, a)
  PROVE  AskedAtMost(Append(t, s)) /\ InTurn(Append(t, s))
<1> DEFINE u == Append(t, s)
           n == Len(t)
<1>1. /\ n \in Nat /\ DOMAIN t = 1..n /\ DOMAIN u = 1..(n + 1)
      /\ \A i \in 1..n : u[i] = t[i] /\ u[i] \in SearchRecord
      /\ u[n + 1] = s
  OBVIOUS
<1>2. /\ Cardinality(Asked(u, s.provider)) = a + 1
      /\ \A p : p # s.provider => Asked(u, p) = Asked(t, p)
  BY AskedAppend DEF Pursues
<1> HIDE DEF u, n
<1>3. AskedAtMost(u)
  <2> SUFFICES ASSUME NEW p \in Providers PROVE Cardinality(Asked(u, p)) <= MaxAttempts
    BY DEF AskedAtMost
  <2>1. CASE p = s.provider
    BY <1>2, <2>1, EnforcementAssumption
  <2>2. CASE p # s.provider
    BY <1>2, <2>2 DEF AskedAtMost
  <2>3. QED
    BY <2>1, <2>2
<1>4. InTurn(u)
  <2> SUFFICES ASSUME NEW i \in 1..n PROVE Follows(u, u[i + 1].provider, u[i])
    BY <1>1 DEF InTurn
  <2>1. CASE i < n
    <3>1. u[i] = t[i] /\ u[i + 1] = t[i + 1] /\ i \in DOMAIN t /\ i + 1 \in DOMAIN t
      BY <1>1, <2>1
    <3>2. Follows(t, t[i + 1].provider, t[i])
      BY <3>1 DEF InTurn
    <3>3. t[i + 1].provider # t[i].provider => Asked(u, "gdelt") = Asked(t, "gdelt")
      <4>1. CASE s.provider = "gdelt"
        <5>1. i \notin Asked(t, "duckduckgo") /\ i + 1 \notin Asked(t, "duckduckgo")
          BY <4>1 DEF Pursues
        <5>2. t[i].provider \in {"gdelt", "duckduckgo"}
          BY <3>1, <1>1 DEF SearchRecord
        <5>3. t[i + 1].provider \in {"gdelt", "duckduckgo"}
          BY <3>1, <1>1 DEF SearchRecord
        <5>4. QED
          BY <3>1, <5>1, <5>2, <5>3 DEF Asked
      <4>2. CASE s.provider # "gdelt"
        BY <1>2, <4>2
      <4>3. QED
        BY <4>1, <4>2
    <3>4. QED
      BY <3>1, <3>2, <3>3 DEF Follows
  <2>2. CASE i = n
    <3>1. u[i] = t[n] /\ u[i + 1] = s /\ Follows(t, s.provider, t[n])
      BY <1>1, <2>2 DEF Pursues, n
    <3>2. s.provider # t[n].provider => Asked(u, "gdelt") = Asked(t, "gdelt")
      BY <1>2, <3>1 DEF Follows
    <3>3. QED
      BY <3>1, <3>2 DEF Follows
  <2>3. QED
    BY <1>1, <2>1, <2>2
<1>5. QED
  BY <1>3, <1>4 DEF u

\* A retry is of the same provider, with one more failed attempt.
LEMMA RetryPursues ==
  ASSUME NEW t \in Seq(SearchRecord), NEW s \in SearchRecord, NEW a \in Nat,
         Pursues(t, s.provider, a), s.outcome = "transient"
  PROVE  Pursues(Append(t, s), s.provider, a + 1)
<1>1. Len(Append(t, s)) = Len(t) + 1 /\ Append(t, s)[Len(t) + 1] = s /\ Len(t) \in Nat
  OBVIOUS
<1>2. Cardinality(Asked(Append(t, s), s.provider)) = a + 1
  BY AskedAppend DEF Pursues
<1>3. s.provider = "gdelt" => Asked(Append(t, s), "duckduckgo") = {}
  BY AskedAppend DEF Pursues
<1>4. QED
  BY <1>1, <1>2, <1>3 DEF Pursues, Follows

\* The fallback comes after the primary, from the first attempt.
LEMMA FallbackPursues ==
  ASSUME NEW t \in Seq(SearchRecord), NEW s \in SearchRecord, NEW a \in Nat,
         Pursues(t, "gdelt", a), s.provider = "gdelt",
         s.outcome \in {"empty", "permanent", "transient"},
         s.outcome = "transient" => a + 1 = MaxAttempts
  PROVE  Pursues(Append(t, s), "duckduckgo", 0)
<1>1. Len(Append(t, s)) = Len(t) + 1 /\ Append(t, s)[Len(t) + 1] = s /\ Len(t) \in Nat
  OBVIOUS
<1>2. Cardinality(Asked(Append(t, s), "gdelt")) = a + 1
  BY AskedAppend DEF Pursues
<1>3. Asked(Append(t, s), "duckduckgo") = {}
  BY AskedAppend DEF Pursues
<1>4. Cardinality(Asked(Append(t, s), "duckduckgo")) = 0
  BY <1>3, FS_EmptySet
<1>5. QED
  BY <1>1, <1>2, <1>4 DEF Pursues, Follows

\* The policy bounds the searches, so that the history keeps them all.
LEMMA AllKept ==
  ASSUME NEW t \in Seq(SearchRecord), AskedAtMost(t)
  PROVE  Len(t) < Kept
<1> DEFINE G == Asked(t, "gdelt")
           D == Asked(t, "duckduckgo")
<1>1. IsFiniteSet(G) /\ IsFiniteSet(D) /\ Cardinality(G) \in Nat /\ Cardinality(D) \in Nat
  BY AskedFinite
<1>2. Cardinality(G) <= MaxAttempts /\ Cardinality(D) <= MaxAttempts
  BY ProviderType DEF AskedAtMost
<1>3. 1..Len(t) = G \cup D /\ G \cap D = {}
  <2>1. ASSUME NEW i \in 1..Len(t) PROVE t[i].provider \in {"gdelt", "duckduckgo"}
    <3>1. t[i] \in SearchRecord
      OBVIOUS
    <3>2. QED
      BY <3>1 DEF SearchRecord
  <2>2. QED
    BY <2>1 DEF Asked
<1> HIDE DEF G, D
<1>4. Cardinality(G \cup D) = Cardinality(G) + Cardinality(D) - Cardinality(G \cap D)
  BY <1>1, FS_Union
<1>5. Cardinality(G \cap D) = 0
  BY <1>3, FS_EmptySet
<1>6. Cardinality(1..Len(t)) = Len(t)
  <2>1. Len(t) \in Nat /\ Len(t) \in Int /\ 1 \in Int
    OBVIOUS
  <2>2. Cardinality(1..Len(t)) = IF 1 > Len(t) THEN 0 ELSE Len(t) - 1 + 1
    BY <2>1, FS_Interval
  <2>3. QED
    BY <2>1, <2>2
<1>7. Len(t) = Cardinality(G) + Cardinality(D) - 0
  BY <1>3, <1>4, <1>5, <1>6
<1>8. PICK g \in Nat, d \in Nat : Cardinality(G) = g /\ Cardinality(D) = d
  BY <1>1
<1>9. Len(t) = g + d /\ g <= MaxAttempts /\ d <= MaxAttempts /\ MaxAttempts \in Nat
  BY <1>2, <1>7, <1>8, EnforcementAssumption
<1>10. QED
  BY <1>9 DEF Kept

LEMMA InitSearchInv == Init => SearchInv
BY NothingAsked DEF Init, SearchInv, OnlyLastRequestIsLate, InTime

\* A search has its time.
LEMMA SearchTimes == TypeInv => \A i \in DOMAIN trail : trail[i].at \in Nat
<1> SUFFICES ASSUME TypeInv, NEW i \in DOMAIN trail PROVE trail[i].at \in Nat
  OBVIOUS
<1>1. trail \in Seq(SearchRecord)
  BY ProviderType DEF TypeInv, TypeOK, SearchRecord
<1>2. trail[i] \in SearchRecord
  BY <1>1
<1>3. QED
  BY <1>2 DEF SearchRecord

\* One attempt, and what it leads to.
LEMMA SearchKeepsPolicy ==
  ASSUME TypeInv, SearchInv, Search
  PROVE  SearchInv'
<1>1. PICK reply \in Replies[provider] :
        /\ Remember([provider |-> provider, outcome |-> Outcome(reply), at |-> clock])
        /\ \/ End("returned") /\ UNCHANGED <<provider, attempt>>
           \/ End("raised") /\ UNCHANGED <<provider, attempt>>
           \/ Retries(Outcome(reply)) /\ Retry
           \/ /\ Outcome(reply) \in {"empty", "permanent", "transient"}
              /\ ~Retries(Outcome(reply))
              /\ MoveOn
  BY DEF Search
<1> DEFINE s == [provider |-> provider, outcome |-> Outcome(reply), at |-> clock]
<1>2. /\ s \in SearchRecord
      /\ s.provider = provider /\ s.outcome = Outcome(reply) /\ s.at = clock
  BY OutcomeType, ProviderType DEF SearchRecord, TypeInv, TypeOK
<1>3. Remember(s)
  BY <1>1
<1> HIDE DEF s
<1>4. /\ pc = "checked" /\ UNCHANGED <<decision, clock>>
      /\ provider \in {"gdelt", "duckduckgo"} /\ attempt \in 0..(MaxAttempts - 1)
      /\ trail \in Seq(SearchRecord) /\ clock \in Nat
      /\ Pursues(trail, provider, attempt) /\ AskedAtMost(trail) /\ InTurn(trail)
  BY ProviderType DEF Search, SearchRecord, TypeInv, TypeOK, SearchInv
<1>5. trail' = Append(trail, s)
  BY <1>3, <1>4, AllKept DEF Remember
<1>6. AskedAtMost(trail') /\ InTurn(trail')
  BY <1>2, <1>4, <1>5, AttemptInTurn
<1>7. /\ DOMAIN trail' = 1..(Len(trail) + 1) /\ Len(trail') = Len(trail) + 1 /\ Len(trail) \in Nat
      /\ \A i \in DOMAIN trail : trail'[i] = trail[i]
      /\ DOMAIN trail = 1..Len(trail) /\ trail'[Len(trail) + 1].at = clock
  BY <1>2, <1>4, <1>5
<1>8. InTime(trail, clock) /\ \A x \in decision.expires_at : x \in Nat /\ InTime(trail, x)
  BY <1>4 DEF SearchInv, TypeInv, TypeOK, PolicyDecision
<1>9. InTime(trail', clock')
  BY <1>4, <1>7, <1>8 DEF InTime
<1>10. OnlyLastRequestIsLate'
  <2>1. ASSUME NEW i \in DOMAIN trail', NEW x \in decision.expires_at, trail'[i].at > x
        PROVE  i = Len(trail')
    <3>1. ASSUME i \in DOMAIN trail PROVE FALSE
      <4>1. trail'[i].at = trail[i].at /\ trail[i].at \in Nat
        BY <1>7, <3>1, SearchTimes
      <4>2. x \in Nat /\ trail[i].at <= x
        BY <1>4, <1>8, <3>1 DEF InTime
      <4>3. QED
        BY <2>1, <4>1, <4>2
    <3>2. QED
      BY <1>7, <3>1
  <2>2. QED
    BY <1>4, <2>1 DEF OnlyLastRequestIsLate
<1>11. pc' = "running" => Pursues(trail', provider', attempt')
  <2>1. CASE Retries(Outcome(reply)) /\ attempt' = attempt + 1 /\ provider' = provider
    BY <1>2, <1>4, <1>5, <2>1, RetryPursues DEF Retries
  <2>2. CASE /\ Outcome(reply) \in {"empty", "permanent", "transient"}
             /\ ~Retries(Outcome(reply))
             /\ provider = "gdelt" /\ provider' = "duckduckgo" /\ attempt' = 0
    <3>1. Outcome(reply) = "transient" => attempt + 1 = MaxAttempts
      BY <1>4, <2>2, EnforcementAssumption DEF Retries
    <3>2. QED
      BY <1>2, <1>4, <1>5, <2>2, <3>1, FallbackPursues
  <2>3. QED
    BY <1>1, <1>4, <2>1, <2>2 DEF End, Retry, MoveOn
<1>12. InTool' /\ pc' # "checked"
  BY <1>1, <1>4 DEF InTool, End, Retry, MoveOn
<1>13. QED
  BY <1>6, <1>9, <1>10, <1>11, <1>12 DEF SearchInv

\* The check that an attempt begins with.
LEMMA CheckKeepsTime ==
  ASSUME TypeInv, SearchInv, BeginAttempt
  PROVE  SearchInv'
<1>1. /\ pc = "running" /\ pc' = "checked" /\ ~is_expired
      /\ UNCHANGED <<trail, provider, attempt, decision, clock>>
  BY DEF BeginAttempt
<1>2. ASSUME NEW x \in decision.expires_at PROVE InTime(trail, x)
  <2>1. x \in Nat /\ clock \in Nat /\ clock <= x
    BY <1>1 DEF is_expired, TypeInv, TypeOK, PolicyDecision
  <2>2. \A i \in DOMAIN trail : trail[i].at \in Nat
    BY SearchTimes
  <2>3. QED
    BY <2>1, <2>2 DEF SearchInv, InTime
<1>3. QED
  BY <1>1, <1>2 DEF SearchInv, OnlyLastRequestIsLate, InTime, InTool

\* A step that is no attempt leaves the searches alone or ends the call.
LEMMA StepSearchInv == TypeInv /\ SearchInv /\ [Next]_vars => SearchInv'
<1> SUFFICES ASSUME TypeInv, SearchInv, [Next]_vars PROVE SearchInv'
  OBVIOUS
<1>1. CASE Search
  BY <1>1, SearchKeepsPolicy
<1>2. CASE BeginAttempt
  BY <1>2, CheckKeepsTime
<1>3. CASE trail' = << >> /\ provider' = "gdelt" /\ attempt' = 0
  BY <1>3, NothingAsked DEF SearchInv, OnlyLastRequestIsLate, InTime
<1>4. CASE UNCHANGED <<trail, provider, attempt, decision, clock>> /\ InTool /\ InTool'
           /\ pc' \notin {"running", "checked"}
  BY <1>4 DEF SearchInv, OnlyLastRequestIsLate, InTime
<1>5. CASE ~InTool /\ UNCHANGED <<trail, provider, attempt>>
  BY <1>3, <1>5 DEF SearchInv
<1>6. CASE PepBlock \/ ExpiredBlock \/ PolicyBlock \/ SelectionBlock \/ GuardrailBlock \/ HitlBlock
           \/ RequestEscape \/ NotifyEscape \/ Finish \/ Interrupt
  BY <1>3, <1>6
     DEF PepBlock, ExpiredBlock, PolicyBlock, SelectionBlock, GuardrailBlock, HitlBlock,
         RequestEscape, NotifyEscape, Finish, Interrupt, Refuse, Escape, Leave, Forget
<1>7. CASE Receive \/ Evaluate \/ RequestApproval \/ Notify \/ Allow \/ Start
  BY <1>5, <1>7 DEF Receive, Evaluate, RequestApproval, NeedsHuman, Notify, Allow, Passed, Start, InTool
<1>8. CASE AnswerPrice \/ AbortSearch
  BY <1>4, <1>8 DEF AnswerPrice, AbortSearch, End, InTool
<1>9. CASE Tick
  <2>1. UNCHANGED <<pc, trail, provider, attempt, decision>> /\ clock' = clock + 1 /\ clock \in Nat
    BY <1>9 DEF Tick, localVars, TypeInv, TypeOK
  <2>2. \A i \in DOMAIN trail : trail[i].at \in Nat
    BY SearchTimes
  <2>3. InTime(trail, clock + 1)
    BY <2>1, <2>2 DEF SearchInv, InTime
  <2>4. QED
    BY <2>1, <2>3 DEF SearchInv, OnlyLastRequestIsLate, InTime, InTool
<1>10. CASE UNCHANGED vars
  <2>1. UNCHANGED <<pc, trail, provider, attempt, decision, clock>>
    BY <1>10 DEF vars, localVars
  <2>2. QED
    BY <2>1 DEF SearchInv, OnlyLastRequestIsLate, InTime, InTool
<1>11. QED
  BY <1>1, <1>2, <1>6, <1>7, <1>8, <1>9, <1>10 DEF Next, Step

LEMMA SearchAlways == Spec => []SearchInv
BY InitTypeInv, StepTypeInv, InitSearchInv, StepSearchInv, PTL DEF Spec

\* The failure policy of news_tool.py:8-16 holds for any max_attempts and any
\* sequence of answers of the two providers.
THEOREM PolicyAlwaysFollowed == Spec => []RetriesFollowPolicy
<1>1. SearchInv => RetriesFollowPolicy
  BY DEF SearchInv, RetriesFollowPolicy, AskedAtMost, InTurn, Follows, Asked
<1>2. QED
  BY SearchAlways, <1>1, PTL

\* Of the searches of a call only the last can leave after the expiry of its
\* decision, however long it lasts and however time passes between a check, its
\* request and the next attempt (governed_tool.py:38-47, news_tool.py:106).
THEOREM OnlyLastRequestEverLate == Spec => []OnlyLastRequestIsLate
<1>1. SearchInv => OnlyLastRequestIsLate
  BY DEF SearchInv
<1>2. QED
  BY SearchAlways, <1>1, PTL

=============================================================================
