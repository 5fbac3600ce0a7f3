--------------------------- MODULE ProviderCalls ---------------------------
(***************************************************************************)
(* The AI provider calls of one run of the pipeline: how often each stage  *)
(* asks, when it gives up, and what the classification policy makes of the *)
(* answer.  Embedding and suggestion share _with_retries, whose last       *)
(* failure fails the run; classification has a loop of its own, which      *)
(* counts malformed answers apart from errors and ends in a fallback       *)
(* instead.  The database (module TicketTriage) is left out.               *)
(***************************************************************************)
EXTENDS Integers

CONSTANTS
  EmbeddingMaxRetries, ClassificationMaxRetries, SuggestionMaxRetries,
  ConfidenceHigh, ConfidenceMedium, RoutingConfidenceMin,
  Scores,                     \* the confidences a provider may report
  TicketCategory, SupportTeam, TicketPriority,
  Escalations                 \* what a model writes as escalation: any string

ASSUME RetriesAssumption ==
  /\ EmbeddingMaxRetries \in Nat
  /\ ClassificationMaxRetries \in Nat
  /\ SuggestionMaxRetries \in Nat

(* Nothing in the settings orders the two confidence thresholds.            *)
ASSUME ScoresAssumption ==
  /\ Scores \subseteq Int /\ 0 \in Scores
  /\ ConfidenceHigh \in Int /\ ConfidenceMedium \in Int
  /\ RoutingConfidenceMin \in Int

ASSUME TaxonomyAssumption ==
  /\ "unknown" \in TicketCategory
  /\ "triage" \in SupportTeam
  /\ "normal" \in TicketPriority

Kinds == {"embed", "classify", "suggest"}
Stages == Kinds \cup {"lookup", "persist", "retrieve", "routed", "failed"}
FallbackReasons ==
  {"low_classification_confidence", "low_routing_confidence",
   "malformed_model_output", "classification_provider_error",
   "classification_exhausted_retries"}
NoReason == "null"

(* What validate_raw_classification lets through: labels of the taxonomy,   *)
(* and any escalation.                                                      *)
ClassificationResult ==
  [category: TicketCategory,
   team: SupportTeam,
   priority: TicketPriority,
   escalation: Escalations \cup {""},
   classification_confidence: Scores,
   routing_confidence: Scores]

ParsedClassification ==
  [category: TicketCategory, team: SupportTeam, priority: TicketPriority,
   escalation: Escalations \cup {"none"},
   classification_confidence: Scores, routing_confidence: Scores,
   requires_human_review: BOOLEAN,
   fallback_reason: FallbackReasons \cup {NoReason}]

(* The four routing_decisions rows of a run; they share their reason.       *)
DecisionTypes == {"category", "team", "priority", "escalation"}

VARIABLES
  stage,        \* where the run is
  attempt,      \* the loop counter of the stage's retries
  calls,        \* calls[k]: provider calls made so far
  json_retried, \* a malformed classification was already retried
  malformed,    \* classification answers found malformed
  errors,       \* classification calls that raised anything else
  parsed,       \* the classification that was settled on, or NotParsed
  route_to,     \* the four rows' route_to, by decision type
  reason        \* the four rows' reason

vars == <<stage, attempt, calls, json_retried, malformed, errors, parsed,
          route_to, reason>>
classification == <<json_retried, malformed, errors, parsed>>
rows == <<route_to, reason>>

NotParsed == [fallback_reason |-> "not parsed"]
NoRow == "no row"
Labels == TicketCategory \cup SupportTeam \cup TicketPriority
            \cup Escalations \cup {"none"}

TypeOK ==
  /\ stage \in Stages
  /\ attempt \in Nat
  /\ calls \in [Kinds -> Nat]
  /\ json_retried \in BOOLEAN
  /\ malformed \in Nat
  /\ errors \in Nat
  /\ parsed \in ParsedClassification \cup {NotParsed}
  /\ route_to \in [DecisionTypes -> Labels \cup {NoRow}]
  /\ reason \in FallbackReasons \cup {NoReason, "human_review_required", NoRow}

Init ==
  /\ stage = "lookup"
  /\ attempt = 0
  /\ calls = [k \in Kinds |-> 0]
  /\ json_retried = FALSE
  /\ malformed = 0
  /\ errors = 0
  /\ parsed = NotParsed
  /\ route_to = [d \in DecisionTypes |-> NoRow]
  /\ reason = NoRow

-----------------------------------------------------------------------------
(* The classification policy *)

LowConfidence(raw) == raw.classification_confidence < ConfidenceMedium
LowRouting(raw) == raw.routing_confidence < RoutingConfidenceMin

(* Faulty variant: a low routing confidence does not change the team.       *)
PolicyKeepsTeam(raw) ==
  LET low == LowConfidence(raw)
      lowRouting == LowRouting(raw) IN
  [category |-> IF low THEN "unknown" ELSE raw.category,
   team |-> IF low THEN "triage" ELSE raw.team,
   priority |-> IF low THEN "normal" ELSE raw.priority,
   escalation |-> IF raw.escalation = "" THEN "none" ELSE raw.escalation,
   classification_confidence |-> raw.classification_confidence,
   routing_confidence |-> raw.routing_confidence,
   requires_human_review |->
     low \/ lowRouting \/ raw.classification_confidence < ConfidenceHigh,
   fallback_reason |-> IF low THEN "low_classification_confidence"
                       ELSE IF lowRouting THEN "low_routing_confidence"
                       ELSE NoReason]

(* Faulty variant: an empty escalation is stored as it is.                  *)
PolicyKeepsEscalation(raw) ==
  LET low == LowConfidence(raw)
      lowRouting == LowRouting(raw) IN
  [category |-> IF low THEN "unknown" ELSE raw.category,
   team |-> IF low \/ lowRouting THEN "triage" ELSE raw.team,
   priority |-> IF low THEN "normal" ELSE raw.priority,
   escalation |-> raw.escalation,
   classification_confidence |-> raw.classification_confidence,
   routing_confidence |-> raw.routing_confidence,
   requires_human_review |->
     low \/ lowRouting \/ raw.classification_confidence < ConfidenceHigh,
   fallback_reason |-> IF low THEN "low_classification_confidence"
                       ELSE IF lowRouting THEN "low_routing_confidence"
                       ELSE NoReason]

(* apply_classification_policy.  The escalation survives a low confidence.  *)
Policy(raw) ==
  LET low == LowConfidence(raw)
      lowRouting == LowRouting(raw) IN
  [category |-> IF low THEN "unknown" ELSE raw.category,
   team |-> IF low \/ lowRouting THEN "triage" ELSE raw.team,
   priority |-> IF low THEN "normal" ELSE raw.priority,
   escalation |-> IF raw.escalation = "" THEN "none" ELSE raw.escalation,
   classification_confidence |-> raw.classification_confidence,
   routing_confidence |-> raw.routing_confidence,
   requires_human_review |->
     low \/ lowRouting \/ raw.classification_confidence < ConfidenceHigh,
   fallback_reason |-> IF low THEN "low_classification_confidence"
                       ELSE IF lowRouting THEN "low_routing_confidence"
                       ELSE NoReason]

Fallback(why) ==
  [category |-> "unknown", team |-> "triage", priority |-> "normal",
   escalation |-> "none", classification_confidence |-> 0,
   routing_confidence |-> 0, requires_human_review |-> TRUE,
   fallback_reason |-> why]

-----------------------------------------------------------------------------
(* _with_retries *)

Call(kind) == stage = kind /\ calls' = [calls EXCEPT ![kind] = @ + 1]

MoveOn(to) == stage' = to /\ attempt' = 0

Retry == attempt' = attempt + 1 /\ UNCHANGED stage

(* Faulty variant: one attempt too many.                                    *)
FailOneLater(kind, max) ==
  /\ Call(kind)
  /\ IF attempt > max THEN MoveOn("failed") ELSE Retry
  /\ UNCHANGED <<classification, rows>>

(* Faulty variant: one attempt too few.                                     *)
FailOneEarlier(kind, max) ==
  /\ Call(kind)
  /\ IF attempt + 1 >= max THEN MoveOn("failed") ELSE Retry
  /\ UNCHANGED <<classification, rows>>

(* Attempts 0..max; the last failure is raised and the run has failed.      *)
CallFails(kind, max) ==
  /\ Call(kind)
  /\ IF attempt >= max THEN MoveOn("failed") ELSE Retry
  /\ UNCHANGED <<classification, rows>>

CallSucceeds(kind, to) ==
  /\ Call(kind)
  /\ MoveOn(to)
  /\ UNCHANGED <<classification, rows>>

-----------------------------------------------------------------------------
(* The run *)

EmbeddingReused ==
  /\ stage = "lookup" /\ MoveOn("classify")
  /\ UNCHANGED <<calls, classification, rows>>

EmbeddingNeeded ==
  /\ stage = "lookup" /\ MoveOn("embed")
  /\ UNCHANGED <<calls, classification, rows>>

Settle(answer) == parsed' = answer /\ MoveOn("persist")

(* attempt stays below the loop's bound, or the loop has run out.           *)
NextAttempt ==
  IF attempt < ClassificationMaxRetries
  THEN Retry /\ UNCHANGED parsed
  ELSE Settle(Fallback("classification_exhausted_retries"))

ClassifyAnswers ==
  \E raw \in ClassificationResult :
    /\ Call("classify")
    /\ Settle(Policy(raw))
    /\ UNCHANGED <<json_retried, malformed, errors, rows>>

(* Faulty variant: a second malformed answer is retried like the first.     *)
ClassifyMalformedAgain ==
  /\ Call("classify")
  /\ malformed' = malformed + 1
  /\ json_retried' = TRUE
  /\ NextAttempt
  /\ UNCHANGED <<errors, rows>>

(* The answer does not parse, or a label of it is not of the taxonomy.  The *)
(* first such answer is retried while an attempt is left, the second one    *)
(* settles for the fallback at once.                                        *)
ClassifyMalformed ==
  /\ Call("classify")
  /\ malformed' = malformed + 1
  /\ json_retried' = TRUE
  /\ IF json_retried THEN Settle(Fallback("malformed_model_output")) ELSE NextAttempt
  /\ UNCHANGED <<errors, rows>>

ClassifyFails ==
  /\ Call("classify")
  /\ errors' = errors + 1
  /\ IF attempt >= ClassificationMaxRetries
     THEN Settle(Fallback("classification_provider_error"))
     ELSE Retry /\ UNCHANGED parsed
  /\ UNCHANGED <<json_retried, malformed, rows>>

(* Four rows with one reason: the fallback reason, or else that a human     *)
(* should look.                                                             *)
Persist ==
  /\ stage = "persist" /\ MoveOn("retrieve")
  /\ route_to' = [d \in DecisionTypes |-> parsed[d]]
  /\ reason' = IF parsed.fallback_reason = NoReason /\ parsed.requires_human_review
               THEN "human_review_required" ELSE parsed.fallback_reason
  /\ UNCHANGED <<calls, classification>>

(* No usable match, or a draft already pending review.                      *)
NoDraft ==
  /\ stage = "retrieve" /\ MoveOn("routed")
  /\ UNCHANGED <<calls, classification, rows>>

DraftWanted ==
  /\ stage = "retrieve" /\ MoveOn("suggest")
  /\ UNCHANGED <<calls, classification, rows>>

Next ==
  \/ EmbeddingReused \/ EmbeddingNeeded
  \/ CallSucceeds("embed", "classify")
  \/ CallFails("embed", EmbeddingMaxRetries)
  \/ ClassifyAnswers \/ ClassifyMalformed \/ ClassifyFails
  \/ Persist
  \/ NoDraft \/ DraftWanted
  \/ CallSucceeds("suggest", "routed")
  \/ CallFails("suggest", SuggestionMaxRetries)

Spec == Init /\ [][Next]_vars

-----------------------------------------------------------------------------
(* Properties *)

(* However errors and malformed answers alternate, a run asks each provider *)
(* operation at most one time more than its setting allows retries.         *)
CallsWithinBudget ==
  /\ calls["embed"] <= EmbeddingMaxRetries + 1
  /\ calls["classify"] <= ClassificationMaxRetries + 1
  /\ calls["suggest"] <= SuggestionMaxRetries + 1

(* A run fails only when embedding or suggestion has used up its attempts,  *)
(* and a failed embedding is never classified; a provider that cannot       *)
(* classify never fails the run.                                            *)
FailsOnlyWhenSpent ==
  stage = "failed" =>
    \/ calls["embed"] = EmbeddingMaxRetries + 1 /\ calls["classify"] = 0
    \/ calls["suggest"] = SuggestionMaxRetries + 1 /\ reason # NoRow

(* What must have happened for a reason to be given.                        *)
Cause(why) ==
  LET spent == calls["classify"] = ClassificationMaxRetries + 1 IN
  /\ why = "malformed_model_output" => malformed = 2
  /\ why = "classification_provider_error" =>
       spent /\ errors + malformed = calls["classify"] /\ errors > 0 /\ malformed < 2
  /\ why = "classification_exhausted_retries" =>
       spent /\ errors = ClassificationMaxRetries /\ malformed = 1
  /\ why \in {NoReason, "human_review_required", "low_classification_confidence",
             "low_routing_confidence"} =>
       calls["classify"] = errors + malformed + 1 /\ malformed < 2

(* The stored reason tells what went wrong: two malformed answers; or all   *)
(* attempts spent on errors, at most one of them on a malformed answer; or  *)
(* all of them spent with one malformed answer after nothing but errors; in *)
(* every other case the last call brought a usable classification.          *)
ReasonTellsCause == reason # NoRow => Cause(reason)

(* A ticket leaves triage for a team only on a classification confident     *)
(* enough in both scores, and with less than high confidence only when its  *)
(* rows ask for a human, whatever the order of the thresholds.              *)
TeamsGetConfidentTickets ==
  route_to["team"] \notin {NoRow, "triage"} =>
    /\ parsed.classification_confidence >= ConfidenceMedium
    /\ parsed.routing_confidence >= RoutingConfidenceMin
    /\ \/ parsed.classification_confidence >= ConfidenceHigh
       \/ reason = "human_review_required"

=============================================================================
