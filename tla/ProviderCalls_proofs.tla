------------------------ MODULE ProviderCalls_proofs ------------------------
(***************************************************************************)
(* Proofs about ProviderCalls, for any numbers of retries and any          *)
(* thresholds.                                                             *)
(***************************************************************************)
EXTENDS ProviderCalls, TLAPS

(* A classification leaves triage only when both scores allow it, and with  *)
(* less than high confidence it asks for a human.                           *)
TeamIsEarned(c) ==
  c.team # "triage" =>
    /\ c.classification_confidence >= ConfidenceMedium
    /\ c.routing_confidence >= RoutingConfidenceMin
    /\ c.fallback_reason = NoReason
    /\ c.classification_confidence >= ConfidenceHigh \/ c.requires_human_review

(* The counters before and during each stage's loop: the loop counter is    *)
(* the number of calls that failed in it.                                   *)
LoopInv ==
  /\ stage \in {"lookup", "embed"} =>
       calls["classify"] = 0 /\ errors = 0 /\ malformed = 0 /\ ~json_retried
  /\ stage \in {"lookup", "embed", "classify", "persist", "retrieve"} =>
       calls["suggest"] = 0
  /\ stage = "lookup" => calls["embed"] = 0 /\ attempt = 0
  /\ stage = "embed" => attempt = calls["embed"] /\ attempt <= EmbeddingMaxRetries
  /\ stage = "classify" =>
       /\ attempt = calls["classify"] /\ attempt <= ClassificationMaxRetries
       /\ attempt = errors + malformed
       /\ malformed = IF json_retried THEN 1 ELSE 0
  /\ stage = "suggest" => attempt = calls["suggest"] /\ attempt <= SuggestionMaxRetries

(* What is settled and stored from the end of the loop on.                  *)
OutcomeInv ==
  /\ stage \in {"lookup", "embed", "classify", "persist"} =>
       reason = NoRow /\ route_to["team"] = NoRow
  /\ stage \in {"persist", "retrieve", "suggest", "routed"} =>
       parsed \in ParsedClassification /\ Cause(parsed.fallback_reason) /\ TeamIsEarned(parsed)
  /\ stage \in {"retrieve", "suggest", "routed"} => reason # NoRow
  /\ stage = "retrieve" =>
       /\ route_to["team"] = parsed.team

IInv ==
  /\ TypeOK /\ LoopInv /\ OutcomeInv
  /\ CallsWithinBudget /\ FailsOnlyWhenSpent /\ ReasonTellsCause /\ TeamsGetConfidentTickets

USE RetriesAssumption, ScoresAssumption, TaxonomyAssumption

-----------------------------------------------------------------------------
(* Counting a call disturbs the count of no other operation.                *)
LEMMA CallCounts ==
  ASSUME TypeOK, NEW kind \in Kinds, Call(kind)
  PROVE  /\ calls' \in [Kinds -> Nat]
         /\ calls'[kind] = calls[kind] + 1
         /\ \A k \in Kinds \ {kind} : calls'[k] = calls[k]
BY DEF TypeOK, Call

(* The policy answers with a classification that is typed, tells a reason   *)
(* of its own, and sends to a team only what is confident enough.           *)
LEMMA PolicySound ==
  ASSUME NEW raw \in ClassificationResult
  PROVE  /\ Policy(raw) \in ParsedClassification
         /\ Policy(raw).fallback_reason \in
              {NoReason, "low_classification_confidence", "low_routing_confidence"}
         /\ TeamIsEarned(Policy(raw))
<1> DEFINE c == Policy(raw)
<1>1. /\ raw.category \in TicketCategory /\ raw.team \in SupportTeam
      /\ raw.priority \in TicketPriority
      /\ raw.escalation \in Escalations \cup {""}
      /\ raw.classification_confidence \in Scores /\ raw.routing_confidence \in Scores
  BY DEF ClassificationResult
<1>2. c \in ParsedClassification
  BY <1>1 DEF Policy, ParsedClassification, FallbackReasons, LowConfidence, LowRouting
<1>3. c.fallback_reason \in
        {NoReason, "low_classification_confidence", "low_routing_confidence"}
  BY DEF Policy
<1>4. TeamIsEarned(c)
  <2>1. /\ raw.classification_confidence \in Int /\ raw.routing_confidence \in Int
        /\ c.classification_confidence = raw.classification_confidence
        /\ c.routing_confidence = raw.routing_confidence
    BY <1>1 DEF Policy
  <2>2. CASE LowConfidence(raw) \/ LowRouting(raw)
    BY <2>2 DEF Policy, TeamIsEarned
  <2>3. CASE ~LowConfidence(raw) /\ ~LowRouting(raw)
    <3>1. c.fallback_reason = NoReason
      BY <2>3 DEF Policy
    <3>2. c.requires_human_review \/ ~(raw.classification_confidence < ConfidenceHigh)
      BY DEF Policy
    <3> QED BY <2>1, <2>3, <3>1, <3>2 DEF LowConfidence, LowRouting, TeamIsEarned
  <2> QED BY <2>2, <2>3
<1> QED BY <1>2, <1>3, <1>4

LEMMA FallbackSound ==
  ASSUME NEW why \in FallbackReasons
  PROVE  /\ Fallback(why) \in ParsedClassification
         /\ Fallback(why).fallback_reason = why
         /\ TeamIsEarned(Fallback(why))
BY DEF Fallback, ParsedClassification, TeamIsEarned, FallbackReasons

LEMMA InitIInv == Init => IInv
<1> SUFFICES ASSUME Init PROVE IInv
  OBVIOUS
<1>1. TypeOK
  BY DEF Init, TypeOK, Stages, Kinds
<1>2. LoopInv /\ OutcomeInv
  BY DEF Init, LoopInv, OutcomeInv, Kinds, DecisionTypes
<1>3. CallsWithinBudget /\ FailsOnlyWhenSpent /\ ReasonTellsCause /\ TeamsGetConfidentTickets
  BY DEF Init, CallsWithinBudget, FailsOnlyWhenSpent, ReasonTellsCause,
         TeamsGetConfidentTickets, Kinds, DecisionTypes
<1> QED BY <1>1, <1>2, <1>3 DEF IInv

-----------------------------------------------------------------------------
(* The two stages that share _with_retries.                                 *)
LEMMA EmbedStep ==
  ASSUME IInv,
         CallSucceeds("embed", "classify") \/ CallFails("embed", EmbeddingMaxRetries)
  PROVE  IInv'
<1> USE DEF IInv
<1>1. /\ calls' \in [Kinds -> Nat]
      /\ calls'["embed"] = calls["embed"] + 1
      /\ calls'["classify"] = calls["classify"]
      /\ calls'["suggest"] = calls["suggest"]
  BY CallCounts DEF CallSucceeds, CallFails, Kinds
<1>2. /\ stage = "embed"
      /\ UNCHANGED <<classification, rows>>
      /\ \/ stage' = "classify" /\ attempt' = 0
         \/ stage' = "failed" /\ attempt' = 0 /\ attempt >= EmbeddingMaxRetries
         \/ stage' = "embed" /\ attempt' = attempt + 1 /\ ~(attempt >= EmbeddingMaxRetries)
  BY DEF CallSucceeds, CallFails, Call, MoveOn, Retry
<1>3. TypeOK'
  BY <1>1, <1>2 DEF TypeOK, Stages, Kinds, classification, rows
<1>4. LoopInv'
  BY <1>1, <1>2 DEF LoopInv, TypeOK, Kinds, classification, rows
<1>5. OutcomeInv'
  BY <1>2 DEF OutcomeInv, classification, rows
<1>6. CallsWithinBudget' /\ FailsOnlyWhenSpent'
  BY <1>1, <1>2 DEF CallsWithinBudget, FailsOnlyWhenSpent, LoopInv, TypeOK, Kinds
<1>7. ReasonTellsCause' /\ TeamsGetConfidentTickets'
  BY <1>2 DEF ReasonTellsCause, TeamsGetConfidentTickets, OutcomeInv, classification, rows
<1> QED BY <1>3, <1>4, <1>5, <1>6, <1>7

LEMMA SuggestStep ==
  ASSUME IInv,
         CallSucceeds("suggest", "routed") \/ CallFails("suggest", SuggestionMaxRetries)
  PROVE  IInv'
<1> USE DEF IInv
<1>1. /\ calls' \in [Kinds -> Nat]
      /\ calls'["suggest"] = calls["suggest"] + 1
      /\ calls'["classify"] = calls["classify"]
      /\ calls'["embed"] = calls["embed"]
  BY CallCounts DEF CallSucceeds, CallFails, Kinds
<1>2. /\ stage = "suggest"
      /\ UNCHANGED <<classification, rows>>
      /\ \/ stage' = "routed" /\ attempt' = 0
         \/ stage' = "failed" /\ attempt' = 0 /\ attempt >= SuggestionMaxRetries
         \/ stage' = "suggest" /\ attempt' = attempt + 1 /\ ~(attempt >= SuggestionMaxRetries)
  BY DEF CallSucceeds, CallFails, Call, MoveOn, Retry
<1>3. TypeOK'
  BY <1>1, <1>2 DEF TypeOK, Stages, Kinds, classification, rows
<1>4. LoopInv'
  BY <1>1, <1>2 DEF LoopInv, TypeOK, Kinds, classification, rows
<1>5. OutcomeInv'
  <2>1. UNCHANGED <<parsed, reason, route_to, errors, malformed>> /\ calls'["classify"] = calls["classify"]
    BY <1>1, <1>2 DEF classification, rows
  <2>2. stage' \in {"routed", "failed", "suggest"}
    BY <1>2
  <2> QED BY <1>2, <2>1, <2>2 DEF OutcomeInv, Cause, TeamIsEarned
<1>6. CallsWithinBudget' /\ FailsOnlyWhenSpent'
  BY <1>1, <1>2 DEF CallsWithinBudget, FailsOnlyWhenSpent, LoopInv, OutcomeInv, TypeOK, Kinds, rows
<1>7. ReasonTellsCause' /\ TeamsGetConfidentTickets'
  BY <1>1, <1>2 DEF ReasonTellsCause, Cause, TeamsGetConfidentTickets, classification, rows
<1> QED BY <1>3, <1>4, <1>5, <1>6, <1>7

(* The classification loop ends: with an answer that has a cause and has    *)
(* earned its team, within the budget.                                      *)
LEMMA SettledIInv ==
  ASSUME IInv, NEW answer \in ParsedClassification, TeamIsEarned(answer),
         Call("classify"), Settle(answer),
         NEW why \in FallbackReasons \cup {NoReason},
         answer.fallback_reason = why, Cause(why)',
         json_retried' \in BOOLEAN, malformed' \in Nat, errors' \in Nat,
         UNCHANGED rows
  PROVE  IInv'
<1> USE DEF IInv
<1>1. /\ calls' \in [Kinds -> Nat]
      /\ calls'["classify"] = calls["classify"] + 1
      /\ calls'["embed"] = calls["embed"]
      /\ calls'["suggest"] = calls["suggest"]
  BY CallCounts DEF Kinds
<1>2. /\ stage = "classify" /\ stage' = "persist" /\ attempt' = 0
      /\ parsed' = answer
      /\ UNCHANGED <<route_to, reason>>
  BY DEF Call, Settle, MoveOn, rows
<1>3. TypeOK'
  BY <1>1, <1>2 DEF TypeOK, Stages
<1>4. LoopInv'
  BY <1>1, <1>2 DEF LoopInv
<1>5. OutcomeInv'
  BY <1>2 DEF OutcomeInv, TeamIsEarned, Cause
<1>6. CallsWithinBudget' /\ FailsOnlyWhenSpent'
  BY <1>1, <1>2 DEF CallsWithinBudget, FailsOnlyWhenSpent, LoopInv, TypeOK, Kinds
<1>7. ReasonTellsCause' /\ TeamsGetConfidentTickets'
  BY <1>2 DEF ReasonTellsCause, TeamsGetConfidentTickets, OutcomeInv
<1> QED BY <1>3, <1>4, <1>5, <1>6, <1>7

(* The loop goes around once more, and the failure has been counted.        *)
LEMMA RetriedIInv ==
  ASSUME IInv, Call("classify"), Retry, attempt < ClassificationMaxRetries,
         json_retried' \in BOOLEAN, malformed' \in Nat, errors' \in Nat,
         errors' + malformed' = errors + malformed + 1,
         malformed' = IF json_retried' THEN 1 ELSE 0,
         UNCHANGED parsed, UNCHANGED rows
  PROVE  IInv'
<1> USE DEF IInv
<1>1. /\ calls' \in [Kinds -> Nat]
      /\ calls'["classify"] = calls["classify"] + 1
      /\ calls'["embed"] = calls["embed"]
      /\ calls'["suggest"] = calls["suggest"]
  BY CallCounts DEF Kinds
<1>2. /\ stage = "classify" /\ stage' = "classify" /\ attempt' = attempt + 1
      /\ UNCHANGED <<route_to, reason, parsed>>
  BY DEF Call, Retry, rows
<1>3. TypeOK'
  BY <1>1, <1>2 DEF TypeOK, Stages
<1>4. LoopInv'
  <2>1. /\ attempt = calls["classify"] /\ attempt = errors + malformed
        /\ calls["suggest"] = 0
    BY <1>2 DEF LoopInv
  <2>2. attempt \in Nat /\ calls["classify"] \in Nat
    BY DEF TypeOK, Kinds
  <2>3. attempt' = calls'["classify"] /\ attempt' <= ClassificationMaxRetries
    BY <1>1, <1>2, <2>1, <2>2
  <2>4. attempt' = errors' + malformed'
    BY <1>2, <2>1
  <2>5. malformed' = IF json_retried' THEN 1 ELSE 0
    OBVIOUS
  <2> HIDE DEF IInv
  <2> QED BY <1>1, <1>2, <2>1, <2>3, <2>4, <2>5, Zenon DEF LoopInv
<1>5. OutcomeInv'
  BY <1>2 DEF OutcomeInv
<1>6. CallsWithinBudget' /\ FailsOnlyWhenSpent'
  BY <1>1, <1>2 DEF CallsWithinBudget, FailsOnlyWhenSpent, LoopInv, TypeOK, Kinds
<1>7. ReasonTellsCause' /\ TeamsGetConfidentTickets'
  BY <1>2 DEF ReasonTellsCause, TeamsGetConfidentTickets, OutcomeInv
<1> QED BY <1>3, <1>4, <1>5, <1>6, <1>7

LEMMA ClassifyStep ==
  ASSUME IInv, ClassifyAnswers \/ ClassifyMalformed \/ ClassifyFails
  PROVE  IInv'
<1>1. /\ stage = "classify"
      /\ attempt \in Nat /\ errors \in Nat /\ malformed \in Nat /\ json_retried \in BOOLEAN
      /\ attempt = calls["classify"] /\ attempt <= ClassificationMaxRetries
      /\ attempt = errors + malformed
      /\ malformed = IF json_retried THEN 1 ELSE 0
      /\ malformed <= 1
  BY DEF IInv, TypeOK, LoopInv, ClassifyAnswers, ClassifyMalformed, ClassifyFails, Call
<1>2. Call("classify") /\ calls'["classify"] = attempt + 1
  BY <1>1, CallCounts DEF IInv, Kinds, ClassifyAnswers, ClassifyMalformed, ClassifyFails
<1>3. CASE ClassifyAnswers
  <2>1. PICK raw \in ClassificationResult :
          Settle(Policy(raw)) /\ UNCHANGED <<json_retried, malformed, errors, rows>>
    BY <1>3 DEF ClassifyAnswers
  <2>2. PICK why \in {NoReason, "low_classification_confidence", "low_routing_confidence"} :
          Policy(raw).fallback_reason = why
    BY PolicySound
  <2>3. calls'["classify"] = errors' + malformed' + 1 /\ malformed' < 2
    BY <1>1, <1>2, <2>1
  <2>4. Cause(why)'
    BY <2>3 DEF Cause, NoReason
  <2>5. why \in FallbackReasons \cup {NoReason}
    BY DEF FallbackReasons
  <2> QED BY <1>1, <1>2, <2>1, <2>2, <2>4, <2>5, PolicySound, SettledIInv
<1>4. CASE ClassifyMalformed
  <2>1. /\ malformed' = malformed + 1 /\ json_retried' = TRUE
        /\ errors' = errors /\ UNCHANGED rows
    BY <1>4 DEF ClassifyMalformed
  <2>2. CASE json_retried
    <3> DEFINE why == "malformed_model_output"
           answer == Fallback(why)
    <3>1. Settle(answer)
      BY <1>4, <2>2 DEF ClassifyMalformed
    <3>2. /\ why \in FallbackReasons
          /\ answer \in ParsedClassification /\ TeamIsEarned(answer)
          /\ answer.fallback_reason = why
      BY FallbackSound DEF FallbackReasons
    <3>3. Cause(why)'
      BY <1>1, <2>1, <2>2, <3>1 DEF Cause, NoReason
    <3> QED BY <1>1, <1>2, <2>1, <3>1, <3>2, <3>3, SettledIInv
  <2>3. CASE ~json_retried /\ attempt < ClassificationMaxRetries
    <3>1. Retry /\ UNCHANGED parsed
      BY <1>4, <2>3 DEF ClassifyMalformed, NextAttempt
    <3> QED BY <1>1, <1>2, <2>1, <2>3, <3>1, RetriedIInv
  <2>4. CASE ~json_retried /\ ~(attempt < ClassificationMaxRetries)
    <3> DEFINE why == "classification_exhausted_retries"
           answer == Fallback(why)
    <3>1. Settle(answer)
      BY <1>4, <2>4 DEF ClassifyMalformed, NextAttempt
    <3>2. /\ why \in FallbackReasons
          /\ answer \in ParsedClassification /\ TeamIsEarned(answer)
          /\ answer.fallback_reason = why
      BY FallbackSound DEF FallbackReasons
    <3>3. /\ calls'["classify"] = ClassificationMaxRetries + 1
          /\ errors' = ClassificationMaxRetries /\ malformed' = 1
      BY <1>1, <1>2, <2>1, <2>4
    <3>4. Cause(why)'
      BY <3>3 DEF Cause, NoReason
    <3> QED BY <1>1, <1>2, <2>1, <3>1, <3>2, <3>4, SettledIInv
  <2> QED BY <2>2, <2>3, <2>4
<1>5. CASE ClassifyFails
  <2>1. errors' = errors + 1 /\ UNCHANGED <<json_retried, malformed, rows>>
    BY <1>5 DEF ClassifyFails
  <2>2. CASE attempt >= ClassificationMaxRetries
    <3> DEFINE why == "classification_provider_error"
           answer == Fallback(why)
    <3>1. Settle(answer)
      BY <1>5, <2>2 DEF ClassifyFails
    <3>2. /\ why \in FallbackReasons
          /\ answer \in ParsedClassification /\ TeamIsEarned(answer)
          /\ answer.fallback_reason = why
      BY FallbackSound DEF FallbackReasons
    <3>3. /\ calls'["classify"] = ClassificationMaxRetries + 1
          /\ errors' + malformed' = calls'["classify"]
          /\ errors' > 0 /\ malformed' < 2
      BY <1>1, <1>2, <2>1, <2>2
    <3>4. Cause(why)'
      BY <3>3 DEF Cause, NoReason
    <3> QED BY <1>1, <1>2, <2>1, <3>1, <3>2, <3>4, SettledIInv
  <2>3. CASE ~(attempt >= ClassificationMaxRetries)
    <3>1. Retry /\ UNCHANGED parsed
      BY <1>5, <2>3 DEF ClassifyFails
    <3> QED BY <1>1, <1>2, <2>1, <2>3, <3>1, RetriedIInv
  <2> QED BY <2>2, <2>3
<1> QED BY <1>3, <1>4, <1>5

(* Persisting keeps the cause: asking for a human is no other cause than    *)
(* having no fallback reason.                                               *)
LEMMA PersistStep ==
  ASSUME IInv, Persist
  PROVE  IInv'
<1> USE DEF IInv
<1>1. /\ stage = "persist" /\ stage' = "retrieve" /\ attempt' = 0
      /\ route_to' = [d \in DecisionTypes |-> parsed[d]]
      /\ reason' = IF parsed.fallback_reason = NoReason /\ parsed.requires_human_review
                   THEN "human_review_required" ELSE parsed.fallback_reason
      /\ UNCHANGED <<calls, json_retried, malformed, errors, parsed>>
  BY DEF Persist, MoveOn, classification
<1>2. /\ parsed \in ParsedClassification /\ Cause(parsed.fallback_reason)
      /\ TeamIsEarned(parsed)
  BY <1>1 DEF OutcomeInv
<1>3. /\ parsed.fallback_reason \in FallbackReasons \cup {NoReason}
      /\ parsed.category \in Labels /\ parsed.team \in Labels
      /\ parsed.priority \in Labels /\ parsed.escalation \in Labels
  BY <1>2 DEF ParsedClassification, Labels
<1>4. TypeOK'
  <2>1. route_to' \in [DecisionTypes -> Labels \cup {NoRow}]
    BY <1>1, <1>3 DEF DecisionTypes
  <2>2. reason' \in FallbackReasons \cup {NoReason, "human_review_required", NoRow}
    BY <1>1, <1>3
  <2> QED BY <1>1, <2>1, <2>2 DEF TypeOK, Stages
<1>5. LoopInv'
  BY <1>1 DEF LoopInv
<1>6. route_to'["team"] = parsed.team /\ reason' # NoRow
  BY <1>1, <1>3 DEF DecisionTypes, NoRow, NoReason, FallbackReasons
<1>7. OutcomeInv'
  BY <1>1, <1>2, <1>6 DEF OutcomeInv, Cause, TeamIsEarned
<1>8. CallsWithinBudget' /\ FailsOnlyWhenSpent'
  BY <1>1 DEF CallsWithinBudget, FailsOnlyWhenSpent
<1>9. ReasonTellsCause'
  BY <1>1, <1>2 DEF ReasonTellsCause, Cause, NoReason
<1>10. TeamsGetConfidentTickets'
  BY <1>1, <1>2, <1>6 DEF TeamsGetConfidentTickets, TeamIsEarned
<1> QED BY <1>4, <1>5, <1>7, <1>8, <1>9, <1>10

LEMMA MoveStep ==
  ASSUME IInv, EmbeddingReused \/ EmbeddingNeeded \/ NoDraft \/ DraftWanted
  PROVE  IInv'
<1> USE DEF IInv
<1>1. /\ \/ stage = "lookup" /\ stage' \in {"embed", "classify"}
         \/ stage = "retrieve" /\ stage' \in {"suggest", "routed"}
      /\ attempt' = 0
      /\ UNCHANGED <<calls, json_retried, malformed, errors, parsed, route_to, reason>>
  BY DEF EmbeddingReused, EmbeddingNeeded, NoDraft, DraftWanted, MoveOn, classification, rows
<1>2. TypeOK'
  BY <1>1 DEF TypeOK, Stages, Kinds
<1>3. LoopInv'
  BY <1>1 DEF LoopInv, TypeOK, Kinds
<1>4. OutcomeInv'
  BY <1>1 DEF OutcomeInv, Cause, TeamIsEarned
<1>5. CallsWithinBudget' /\ FailsOnlyWhenSpent'
  BY <1>1 DEF CallsWithinBudget, FailsOnlyWhenSpent
<1>6. ReasonTellsCause' /\ TeamsGetConfidentTickets'
  BY <1>1 DEF ReasonTellsCause, Cause, TeamsGetConfidentTickets
<1> QED BY <1>2, <1>3, <1>4, <1>5, <1>6

LEMMA NextIInv == IInv /\ [Next]_vars => IInv'
<1> SUFFICES ASSUME IInv, [Next]_vars PROVE IInv'
  OBVIOUS
<1>1. CASE EmbeddingReused \/ EmbeddingNeeded \/ NoDraft \/ DraftWanted
  BY <1>1, MoveStep
<1>2. CASE CallSucceeds("embed", "classify") \/ CallFails("embed", EmbeddingMaxRetries)
  BY <1>2, EmbedStep
<1>3. CASE ClassifyAnswers \/ ClassifyMalformed \/ ClassifyFails
  BY <1>3, ClassifyStep
<1>4. CASE Persist
  BY <1>4, PersistStep
<1>5. CASE CallSucceeds("suggest", "routed") \/ CallFails("suggest", SuggestionMaxRetries)
  BY <1>5, SuggestStep
<1>6. CASE UNCHANGED vars
  BY <1>6 DEF vars, IInv, TypeOK, LoopInv, OutcomeInv, CallsWithinBudget,
              FailsOnlyWhenSpent, ReasonTellsCause, Cause, TeamsGetConfidentTickets, TeamIsEarned
<1> QED BY <1>1, <1>2, <1>3, <1>4, <1>5, <1>6 DEF Next

LEMMA AlwaysIInv == Spec => []IInv
BY InitIInv, NextIInv, PTL DEF Spec

-----------------------------------------------------------------------------
(* Whatever the provider answers, what is settled and stored is typed: the  *)
(* rows hold labels of the taxonomy, and never an empty escalation.         *)
THEOREM TypeCorrect == Spec => []TypeOK
<1>1. IInv => TypeOK
  BY DEF IInv
<1> QED BY AlwaysIInv, <1>1, PTL

(* For any numbers of retries, no mixture of errors and malformed answers   *)
(* makes a run ask a provider more often than its setting allows.           *)
THEOREM BudgetsHold == Spec => []CallsWithinBudget
<1>1. IInv => CallsWithinBudget
  BY DEF IInv
<1> QED BY AlwaysIInv, <1>1, PTL

(* A run fails only after every attempt at an embedding or a suggestion;    *)
(* the classification provider can never fail it.                           *)
THEOREM FailuresAreSpent == Spec => []FailsOnlyWhenSpent
<1>1. IInv => FailsOnlyWhenSpent
  BY DEF IInv
<1> QED BY AlwaysIInv, <1>1, PTL

(* The reason in the routing rows is the true history of the calls.         *)
THEOREM ReasonsAreTrue == Spec => []ReasonTellsCause
<1>1. IInv => ReasonTellsCause
  BY DEF IInv
<1> QED BY AlwaysIInv, <1>1, PTL

(* For all thresholds, in any order, only a confident classification leaves *)
(* triage, and one that is not highly confident asks for a human.           *)
THEOREM TeamsAreEarned == Spec => []TeamsGetConfidentTickets
<1>1. IInv => TeamsGetConfidentTickets
  BY DEF IInv
<1> QED BY AlwaysIInv, <1>1, PTL
=============================================================================
