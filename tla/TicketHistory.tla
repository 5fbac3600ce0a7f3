---------------------------- MODULE TicketHistory ----------------------------
(***************************************************************************)
(* What clients are shown of a ticket's rows that have an order: the audit *)
(* trail and the latest routing decision.  Both are ordered by created_at, *)
(* which is the now() of the transaction that wrote the row: all rows of a *)
(* transaction share it, and transactions commit in any order of it.       *)
(*                                                                         *)
(* How stale an entry of the cache may be is the subject of ReadModelCache *)
(* and left open here: an entry may go at any time.                        *)
(***************************************************************************)
EXTENDS Naturals, Sequences, FiniteSets, SequencesExt

CONSTANTS
  Runs,        \* runs of process_ticket on the ticket
  Requests,    \* POST /tickets/{id}/embeddings/test calls
  Readers,     \* API clients, each with one request at a time
  Appends,     \* [Runs \cup Requests -> events that the transaction appends]
  MaxItems,    \* cache_events_max_items
  DtoMax,      \* max_length of CachedTicketEventsSummary.events
  MaxFaults    \* lost transactions (bound)

Intake == "intake"      \* the transaction of create_ticket
Writers == Runs \cup Requests
Transactions == Writers \cup {Intake}

ASSUME HistoryAssumption ==
  /\ Runs \cap Requests = {} /\ Intake \notin Writers
  /\ Appends \in [Writers -> Nat \ {0}]
  /\ MaxItems \in Nat /\ DtoMax \in Nat
  /\ MaxFaults \in Nat

DecisionTypes == {"category", "team", "priority", "escalation"}
Reasons == {"human_review_required", "other"}

NumEvents(x) == IF x = Intake THEN 1 ELSE Appends[x]

(* An event is the n-th one that its transaction appended.                  *)
Event == UNION {{[by |-> x, n |-> n] : n \in 1..NumEvents(x)} : x \in Transactions}
Decision == [by : Runs, type : DecisionTypes, reason : Reasons]

VARIABLES
  begun,      \* the transactions in the order of their now()
  stage,      \* stage[x]: how far the transaction is
  events,     \* committed ticket_events
  decisions,  \* committed routing_decisions
  overtaken,  \* runs that committed their decisions after those of a later now()
  cache,      \* the trail and the decision in Redis
  asks,       \* asks[r]: what client r reads
  step,       \* step[r]: where its request is
  got,        \* got[r]: what its request read from Postgres
  answer,     \* answer[r]: what its last request was answered
  faults

tables == <<events, decisions, overtaken>>
writer == <<begun, stage>>
reader == <<asks, step, got, answer>>
vars == <<writer, tables, cache, reader, faults>>

(* What is cached, read or answered: rows, or why there are none.           *)
Without(why) == [kind |-> why, rows |-> <<>>]
Empty == Without("empty")      \* no entry, nothing read, not answered
Null == Without("null")        \* there is no decision
NotFound == Without("404")
Failed == Without("500")
Trail(trail) == [kind |-> "trail", rows |-> trail]
Routing(decision) == [kind |-> "routing", rows |-> <<decision>>]

Trails == [kind : {"trail"}, rows : Seq(Event)]
Routings == [kind : {"routing"}, rows : [{1} -> Decision]]

TypeOK ==
  /\ begun \in Seq(Transactions)
  /\ stage \in [Transactions -> {"ready", "looking", "open", "done"}]
  /\ events \subseteq Event
  /\ decisions \subseteq Decision
  /\ overtaken \subseteq Runs
  /\ cache \in [trail : {Empty} \cup Trails, routing : {Empty} \cup Routings]
  /\ Len(cache.trail.rows) <= MaxItems
  /\ asks \in [Readers -> {"trail", "routing"}]
  /\ step \in [Readers -> {"idle", "get", "load", "fill"}]
  /\ got \in [Readers -> {Empty} \cup Trails \cup Routings]
  /\ answer \in [Readers -> {Empty, Null, NotFound, Failed} \cup Trails \cup Routings]
  /\ faults \in 0..MaxFaults

Init ==
  /\ begun = <<>>
  /\ stage = [x \in Transactions |-> "ready"]
  /\ events = {}
  /\ decisions = {}
  /\ overtaken = {}
  /\ cache = [trail |-> Empty, routing |-> Empty]
  /\ asks = [r \in Readers |-> "trail"]
  /\ step = [r \in Readers |-> "idle"]
  /\ got = [r \in Readers |-> Empty]
  /\ answer = [r \in Readers |-> Empty]
  /\ faults = 0

Position(x) == CHOOSE i \in DOMAIN begun : begun[i] = x

Known == stage[Intake] = "done"

-----------------------------------------------------------------------------
(* Transactions *)

(* create_ticket: the first statement fixes now(); commit makes the ticket  *)
(* and its ticket_received event visible.                                   *)
IntakeBegins ==
  /\ stage[Intake] = "ready"
  /\ stage' = [stage EXCEPT ![Intake] = "open"]
  /\ begun' = Append(begun, Intake)
  /\ UNCHANGED <<tables, cache, reader, faults>>

IntakeCommits ==
  /\ stage[Intake] = "open"
  /\ stage' = [stage EXCEPT ![Intake] = "done"]
  /\ events' = events \cup {[by |-> Intake, n |-> 1]}
  /\ UNCHANGED <<begun, decisions, overtaken, cache, reader, faults>>

(* BEGIN goes to Postgres ahead of the first statement.  For a worker that  *)
(* statement is the poll, so its now() may be earlier than that of the      *)
(* intake of a ticket it is about to find; a request names a ticket whose   *)
(* post has been answered, though perhaps not committed.                    *)
Begin(x) ==
  /\ stage[x] = "ready"
  /\ x \in Requests => stage[Intake] # "ready"
  /\ stage' = [stage EXCEPT ![x] = "looking"]
  /\ begun' = Append(begun, x)
  /\ UNCHANGED <<tables, cache, reader, faults>>

Find(x) ==
  /\ stage[x] = "looking"
  /\ Known
  /\ stage' = [stage EXCEPT ![x] = "open"]
  /\ UNCHANGED <<begun, tables, cache, reader, faults>>

WithoutNow(x) == begun' = RemoveAt(begun, Position(x))

(* The worker sleeps and polls again; the request answers 404.              *)
FindNothing(x) ==
  /\ stage[x] = "looking"
  /\ ~Known
  /\ stage' = [stage EXCEPT ![x] = "ready"]
  /\ WithoutNow(x)
  /\ UNCHANGED <<tables, cache, reader, faults>>

(* The four rows of a run have one reason.                                  *)
Rows(x, why) ==
  {[by |-> x, type |-> d, reason |-> why] : d \in DecisionTypes}

(* A run that failed before its classification writes no decision.          *)
Commit(x) ==
  /\ stage[x] = "open" /\ x \in Writers
  /\ stage' = [stage EXCEPT ![x] = "done"]
  /\ events' = events \cup {[by |-> x, n |-> n] : n \in 1..NumEvents(x)}
  /\ \/ UNCHANGED <<decisions, overtaken>>
     \/ /\ x \in Runs
        /\ \E why \in Reasons : decisions' = decisions \cup Rows(x, why)
        /\ overtaken' = IF \E d \in decisions : Position(d.by) > Position(x)
                        THEN overtaken \cup {x} ELSE overtaken
  /\ UNCHANGED <<begun, cache, reader, faults>>

(* A rollback; what starts over gets a new now().                           *)
Lose(x) ==
  /\ faults < MaxFaults
  /\ stage[x] \in {"looking", "open"} /\ x \in Writers
  /\ faults' = faults + 1
  /\ stage' = [stage EXCEPT ![x] = "ready"]
  /\ WithoutNow(x)
  /\ UNCHANGED <<tables, cache, reader>>

-----------------------------------------------------------------------------
(* The two queries.  Where created_at does not decide, any order will do.   *)

(* Faulty variant: no ORDER BY.                                             *)
AnyOrder == SetToSeqs(events)

list_for_ticket ==
  {trail \in SetToSeqs(events) :
     \A i, j \in DOMAIN trail : i < j => Position(trail[i].by) <= Position(trail[j].by)}

(* Faulty variant: the decision that was stored last.                       *)
AnyDecision == decisions

get_latest_for_ticket ==
  {d \in decisions : \A o \in decisions : Position(o.by) <= Position(d.by)}

-----------------------------------------------------------------------------
(* Readers *)

Ask(r, what) ==
  /\ step[r] = "idle"
  /\ asks' = [asks EXCEPT ![r] = what]
  /\ step' = [step EXCEPT ![r] = "get"]
  /\ answer' = [answer EXCEPT ![r] = Empty]
  /\ UNCHANGED <<writer, tables, cache, got, faults>>

Answer(r, with) ==
  /\ step' = [step EXCEPT ![r] = "idle"]
  /\ answer' = [answer EXCEPT ![r] = with]
  /\ got' = [got EXCEPT ![r] = Empty]
  /\ UNCHANGED <<writer, tables, asks, faults>>

TicketUnknown(r) ==
  /\ step[r] = "get" /\ ~Known
  /\ Answer(r, NotFound)
  /\ UNCHANGED cache

(* _event_from_summary, _routing_from_cached: the order and the reason are  *)
(* kept, the payloads are not.                                              *)
Hit(r) ==
  /\ step[r] = "get" /\ Known
  /\ cache[asks[r]] # Empty
  /\ Answer(r, cache[asks[r]])
  /\ UNCHANGED cache

(* No entry, or Redis does not answer.                                      *)
Miss(r) ==
  /\ step[r] = "get" /\ Known
  /\ step' = [step EXCEPT ![r] = "load"]
  /\ UNCHANGED <<writer, tables, cache, asks, got, answer, faults>>

(* Faulty variant: the whole trail goes into the entry.                     *)
WholeTrail(trail) == trail

(* events[:max_items].                                                      *)
Summary(trail) == SubSeq(trail, 1, IF Len(trail) < MaxItems THEN Len(trail) ELSE MaxItems)

(* Faulty variant: the summary is built from all events and cut afterwards. *)
AcceptsBeforeTheCut(trail) == Len(trail) <= DtoMax

(* CachedTicketEventsSummary refuses a longer list, and nobody catches it.  *)
DtoAccepts(trail) == Len(Summary(trail)) <= DtoMax

LoadTrail(r) ==
  /\ step[r] = "load" /\ asks[r] = "trail"
  /\ \E trail \in list_for_ticket :
       \/ /\ DtoAccepts(trail)
          /\ step' = [step EXCEPT ![r] = "fill"]
          /\ got' = [got EXCEPT ![r] = Trail(trail)]
          /\ UNCHANGED <<writer, tables, asks, answer, faults>>
       \/ /\ ~DtoAccepts(trail)
          /\ Answer(r, Failed)
  /\ UNCHANGED cache

LoadRouting(r) ==
  /\ step[r] = "load" /\ asks[r] = "routing"
  /\ \/ /\ decisions = {}
        /\ Answer(r, Null)
     \/ \E d \in get_latest_for_ticket :
          /\ step' = [step EXCEPT ![r] = "fill"]
          /\ got' = [got EXCEPT ![r] = Routing(d)]
          /\ UNCHANGED <<writer, tables, asks, answer, faults>>
  /\ UNCHANGED cache

(* The client is given all that was read; the SET may fail.                 *)
Fill(r) ==
  /\ step[r] = "fill"
  /\ Answer(r, got[r])
  /\ LET entry == IF asks[r] = "trail" THEN Trail(Summary(got[r].rows)) ELSE got[r] IN
     cache' \in {cache, [cache EXCEPT ![asks[r]] = entry]}

(* The TTL, or a writer's DEL.                                              *)
Vanish(f) ==
  /\ cache[f] # Empty
  /\ cache' = [cache EXCEPT ![f] = Empty]
  /\ UNCHANGED <<writer, tables, reader, faults>>

Serve(r) ==
  \/ TicketUnknown(r) \/ Hit(r) \/ Miss(r)
  \/ LoadTrail(r) \/ LoadRouting(r) \/ Fill(r)

Next ==
  \/ IntakeBegins \/ IntakeCommits
  \/ \E x \in Writers : Begin(x) \/ Find(x) \/ FindNothing(x) \/ Commit(x) \/ Lose(x)
  \/ \E r \in Readers : Serve(r) \/ \E what \in {"trail", "routing"} : Ask(r, what)
  \/ \E f \in {"trail", "routing"} : Vanish(f)

Spec == Init /\ [][Next]_vars

-----------------------------------------------------------------------------
(* Properties *)

(* Transactions overlap and share created_at, yet no trail that a client is *)
(* shown mixes two of them, and none shows a transaction in part unless it  *)
(* is the last one, where max_items cuts.                                   *)
TrailsShowWholeTransactions ==
  \A r \in Readers : answer[r].kind = "trail" =>
    LET trail == answer[r].rows IN
    \A i, j \in DOMAIN trail : i < j /\ trail[i].by # trail[j].by =>
      NumEvents(trail[i].by) = Cardinality({k \in 1..(j - 1) : trail[k].by = trail[i].by})

(* However long a trail grows, reading it does not fail, provided that the  *)
(* setting stays within what the DTO takes.                                 *)
LongTrailsAreAnswered ==
  MaxItems <= DtoMax => \A r \in Readers : answer[r] # Failed

(* The decision a client is shown is of a run that no run of a later now()  *)
(* had overtaken; and whichever of its four rows was picked, all of them    *)
(* say the same about human review.                                         *)
DecisionsAreTheLatest ==
  \A r \in Readers : answer[r].kind = "routing" =>
    LET shown == answer[r].rows[1] IN
    /\ shown.by \notin overtaken
    /\ \A d \in decisions : d.by = shown.by => d.reason = shown.reason

=============================================================================
