--------------------------- MODULE ReadModelCache ---------------------------
(***************************************************************************)
(* The Redis read models of one ticket: the API answers reads from the     *)
(* cache, or from Postgres and then fills the cache; worker runs and test  *)
(* embeddings delete keys as they go and commit what they wrote at the     *)
(* end.  Every await of the code is a place where others may step in.      *)
(*                                                                         *)
(* A row is named by the transaction that wrote it: the ticket's status by *)
(* its last update, the audit trail by its last commit, the routing        *)
(* decision and the draft by their author.                                 *)
(***************************************************************************)
EXTENDS Naturals, Sequences, FiniteSets

CONSTANTS
  Workers,         \* runs of process_ticket on the ticket
  Requests,        \* POST /tickets/{id}/embeddings/test calls
  Readers,         \* API clients, each with one request at a time
  DeleteInvalid,   \* cache_delete_invalid_on_read
  MaxFaults        \* lost transactions, Redis outages and unreadable entries (bound)

Writers == Workers \cup Requests

None == "none"          \* no row
Intake == "intake"      \* the transaction of create_ticket
Empty == "empty"        \* no entry in Redis
Corrupt == "corrupt"    \* an entry that is not the DTO's JSON

ASSUME WritersAssumption ==
  /\ Workers \cap Requests = {}
  /\ {None, Intake, Empty, Corrupt, "not_found"} \cap Writers = {}
  /\ DeleteInvalid \in BOOLEAN
  /\ MaxFaults \in Nat

Families == {"status", "routing", "draft", "events"}

Rows == Writers \cup {Intake}

(* Where process_ticket and store_ticket_embedding write, and what they     *)
(* delete after each write, one Redis call per element.                     *)
Stages == {"start", "embed", "classify", "retrieve", "suggest", "complete", "fail"}

Written ==
  [start    |-> {"events"},
   embed    |-> {"status", "events"},
   classify |-> {"routing", "status", "events"},
   retrieve |-> {"events"},
   suggest  |-> {"draft", "events"},
   complete |-> {"status", "events"},
   fail     |-> {"status", "events"}]

(* Faulty variant: the failure handler forgets the audit trail's key.       *)
DeletedWithoutEvents ==
  [start    |-> <<{"events"}>>,
   embed    |-> <<{"status"}, {"events"}>>,
   classify |-> <<{"routing"}, {"status"}, {"events"}>>,
   retrieve |-> <<>>,
   suggest  |-> <<{"draft"}, {"events"}>>,
   complete |-> <<Families>>,
   fail     |-> <<{"status"}>>]

Deleted ==
  [start    |-> <<{"events"}>>,
   embed    |-> <<{"status"}, {"events"}>>,
   classify |-> <<{"routing"}, {"status"}, {"events"}>>,
   retrieve |-> <<>>,
   suggest  |-> <<{"draft"}, {"events"}>>,
   complete |-> <<Families>>,
   fail     |-> <<{"status"}, {"events"}>>]

VARIABLES
  db,          \* db[f]: the committed row a read of f returns
  outcome,     \* outcome[x]: the status that transaction x last wrote
  later,       \* <<x, y>>: the now() of x is later than that of y
  cache,       \* cache[f]: the entry in Redis
  up,          \* Redis answers
  stage,       \* stage[x]: the next stage of x
  left,        \* left[x]: deletes of the last stage still to be made
  wrote,       \* wrote[x]: families x wrote
  dirty,       \* dirty[x]: those it has not deleted since
  asks,        \* asks[r]: the family r reads
  step,        \* step[r]: where its request is
  got,         \* got[r]: the row its request read from Postgres
  answer,      \* answer[r]: what its last request was answered, if it has been
  seenRouted,  \* clients that have been told the ticket is routed
  straddled,   \* families committed while a read of the older row was under way
  faults       \* faults so far

store == <<db, later>>
writer == <<stage, left, wrote, dirty, outcome>>
reader == <<asks, step, got, answer, seenRouted>>
vars == <<store, cache, up, writer, reader, straddled, faults>>

WriterStages == {"ready", "commit", "done"} \cup Stages

TypeOK ==
  /\ db \in [Families -> Rows \cup {None}]
  /\ outcome \in [Rows -> {None, "pending_embedding", "embedded", "routing_pending", "routed", "failed"}]
  /\ later \in SUBSET (Writers \X Writers)
  /\ cache \in [Families -> Rows \cup {Empty, Corrupt}]
  /\ up \in BOOLEAN
  /\ stage \in [Writers -> WriterStages]
  /\ left \in [Writers -> Seq(SUBSET Families)]
  /\ wrote \in [Writers -> SUBSET Families]
  /\ dirty \in [Writers -> SUBSET Families]
  /\ asks \in [Readers -> Families]
  /\ step \in [Readers -> {"idle", "get", "evict", "load", "fill"}]
  /\ got \in [Readers -> Rows \cup {None}]
  /\ answer \in [Readers -> Rows \cup {None, "not_found"}]
  /\ seenRouted \in SUBSET Readers
  /\ straddled \in SUBSET Families
  /\ faults \in 0..MaxFaults

Init ==
  /\ db = [f \in Families |-> None]
  /\ outcome = [x \in Rows |-> None]
  /\ later = {}
  /\ cache = [f \in Families |-> Empty]
  /\ up = TRUE
  /\ stage = [x \in Writers |-> "ready"]
  /\ left = [x \in Writers |-> <<>>]
  /\ wrote = [x \in Writers |-> {}]
  /\ dirty = [x \in Writers |-> {}]
  /\ asks = [r \in Readers |-> "status"]
  /\ step = [r \in Readers |-> "idle"]
  /\ got = [r \in Readers |-> None]
  /\ answer = [r \in Readers |-> None]
  /\ seenRouted = {}
  /\ straddled = {}
  /\ faults = 0

Exists == db["status"] # None

(* create_ticket commits; its own delete finds nothing that could be stale. *)
Create ==
  /\ ~Exists
  /\ db' = [db EXCEPT !["status"] = Intake, !["events"] = Intake]
  /\ outcome' = [outcome EXCEPT ![Intake] = "pending_embedding"]
  /\ UNCHANGED <<later, cache, up, stage, left, wrote, dirty, reader, straddled, faults>>

-----------------------------------------------------------------------------
(* Writers *)

(* The first statement of a transaction fixes its now().                    *)
Begin(x) ==
  /\ stage[x] = "ready"
  /\ Exists
  /\ stage' = [stage EXCEPT ![x] = IF x \in Workers THEN "start" ELSE "embed"]
  /\ later' = later \cup ({x} \X {y \in Writers : stage[y] # "ready"})
  /\ UNCHANGED <<db, cache, up, left, wrote, dirty, outcome, reader, straddled, faults>>

(* Where the code goes after a stage: an embedding may be reused, a draft   *)
(* needs a close match and no pending one, providers may fail for good.     *)
After(x, s) ==
  CASE s = "start"    -> {"embed", "classify", "fail"}
    [] s = "embed"    -> {IF x \in Workers THEN "classify" ELSE "commit"}
    [] s = "classify" -> {"retrieve"}
    [] s = "retrieve" -> {"complete", "fail"} \cup (IF db["draft"] = None THEN {"suggest"} ELSE {})
    [] s = "suggest"  -> {"complete"}
    [] OTHER          -> {"commit"}

StatusAfter(s, before) ==
  CASE s = "embed"    -> "embedded"
    [] s = "classify" -> "routing_pending"
    [] s = "complete" -> "routed"
    [] s = "fail"     -> "failed"
    [] OTHER          -> before

(* Only one open transaction has updated the ticket row.                    *)
TicketRowBusy(x) == \E y \in Writers \ {x} : "status" \in wrote[y] /\ stage[y] # "done"

Write(x) ==
  /\ stage[x] \in Stages
  /\ left[x] = <<>>
  /\ "status" \in Written[stage[x]] => ~TicketRowBusy(x)
  /\ \E s \in After(x, stage[x]) : stage' = [stage EXCEPT ![x] = s]
  /\ left' = [left EXCEPT ![x] = Deleted[stage[x]]]
  /\ wrote' = [wrote EXCEPT ![x] = @ \cup Written[stage[x]]]
  /\ dirty' = [dirty EXCEPT ![x] = @ \cup Written[stage[x]]]
  /\ outcome' = [outcome EXCEPT ![x] = StatusAfter(stage[x], @)]
  /\ UNCHANGED <<store, cache, up, reader, straddled, faults>>

(* Faulty variant: the writer refreshes the entries instead.                *)
RefreshEntries(x) ==
  /\ left[x] # <<>>
  /\ cache' = [f \in Families |-> IF up /\ f \in Head(left[x]) THEN x ELSE cache[f]]
  /\ dirty' = [dirty EXCEPT ![x] = @ \ Head(left[x])]
  /\ left' = [left EXCEPT ![x] = Tail(@)]
  /\ UNCHANGED <<store, up, stage, wrote, outcome, reader, straddled, faults>>

(* One call of the invalidator.  When Redis does not answer the error is    *)
(* counted and the writer goes on.                                          *)
Delete(x) ==
  /\ left[x] # <<>>
  /\ cache' = [f \in Families |-> IF up /\ f \in Head(left[x]) THEN Empty ELSE cache[f]]
  /\ dirty' = [dirty EXCEPT ![x] = @ \ Head(left[x])]
  /\ left' = [left EXCEPT ![x] = Tail(@)]
  /\ UNCHANGED <<store, up, stage, wrote, outcome, reader, straddled, faults>>

(* The latest routing decision is the one with the greatest created_at, the *)
(* now() of its transaction, whichever committed last.                      *)
LatestRouting(x) ==
  IF <<db["routing"], x>> \in later THEN db["routing"] ELSE x

Reading(f) == \E r \in Readers : asks[r] = f /\ step[r] = "fill"

Commit(x) ==
  /\ stage[x] = "commit"
  /\ left[x] = <<>>
  /\ stage' = [stage EXCEPT ![x] = "done"]
  /\ db' = [f \in Families |->
              IF f \notin wrote[x] THEN db[f]
              ELSE IF f = "routing" THEN LatestRouting(x) ELSE x]
  /\ straddled' = straddled \cup {f \in wrote[x] : Reading(f)}
  /\ UNCHANGED <<later, cache, up, left, wrote, dirty, outcome, reader, faults>>

(* The process dies or loses its connection; the deletes it made stay made. *)
Lose(x) ==
  /\ faults < MaxFaults
  /\ stage[x] \notin {"ready", "done"}
  /\ faults' = faults + 1
  /\ stage' = [stage EXCEPT ![x] = "ready"]
  /\ left' = [left EXCEPT ![x] = <<>>]
  /\ wrote' = [wrote EXCEPT ![x] = {}]
  /\ dirty' = [dirty EXCEPT ![x] = {}]
  /\ outcome' = [outcome EXCEPT ![x] = None]
  /\ later' = {o \in later : x \notin {o[1], o[2]}}
  /\ UNCHANGED <<db, cache, up, reader, straddled>>

-----------------------------------------------------------------------------
(* Readers *)

Ask(r, f) ==
  /\ step[r] = "idle"
  /\ asks' = [asks EXCEPT ![r] = f]
  /\ step' = [step EXCEPT ![r] = "get"]
  /\ answer' = [answer EXCEPT ![r] = None]
  /\ UNCHANGED <<store, cache, up, writer, got, seenRouted, straddled, faults>>

Answer(r, row) ==
  /\ step' = [step EXCEPT ![r] = "idle"]
  /\ answer' = [answer EXCEPT ![r] = row]
  /\ got' = [got EXCEPT ![r] = None]
  /\ seenRouted' = IF asks[r] = "status" /\ row \in Rows /\ outcome[row] = "routed"
                   THEN seenRouted \cup {r} ELSE seenRouted
  /\ UNCHANGED <<store, cache, up, writer, asks, straddled, faults>>

(* All reads but the status look the ticket up before they ask the cache.   *)
TicketUnknown(r) ==
  /\ step[r] = "get"
  /\ asks[r] # "status"
  /\ ~Exists
  /\ Answer(r, "not_found")

Readable(r) == step[r] = "get" /\ (asks[r] = "status" \/ Exists)

Hit(r) ==
  /\ Readable(r)
  /\ up
  /\ cache[asks[r]] \notin {Empty, Corrupt}
  /\ Answer(r, cache[asks[r]])

(* Faulty variant: an error of GET goes up to the client.                   *)
MissIfUp(r) ==
  /\ Readable(r)
  /\ up /\ cache[asks[r]] \in {Empty, Corrupt}
  /\ step' = [step EXCEPT ![r] = "load"]
  /\ UNCHANGED <<store, cache, up, writer, asks, got, answer, seenRouted, straddled, faults>>

(* No entry, no answer from Redis, or an entry that does not validate.      *)
Miss(r) ==
  /\ Readable(r)
  /\ \/ ~up
     \/ cache[asks[r]] \in {Empty, Corrupt}
  /\ step' = [step EXCEPT ![r] =
                IF up /\ cache[asks[r]] = Corrupt /\ DeleteInvalid THEN "evict" ELSE "load"]
  /\ UNCHANGED <<store, cache, up, writer, asks, got, answer, seenRouted, straddled, faults>>

(* The entry deleted is whatever is there by now.                           *)
Evict(r) ==
  /\ step[r] = "evict"
  /\ step' = [step EXCEPT ![r] = "load"]
  /\ cache' = [cache EXCEPT ![asks[r]] = IF up THEN Empty ELSE @]
  /\ UNCHANGED <<store, up, writer, asks, got, answer, seenRouted, straddled, faults>>

(* Faulty variant: a read that found nothing is cached too.                 *)
LoadAnything(r) ==
  /\ step[r] = "load"
  /\ step' = [step EXCEPT ![r] = "fill"]
  /\ got' = [got EXCEPT ![r] = db[asks[r]]]
  /\ UNCHANGED <<store, cache, up, writer, asks, answer, seenRouted, straddled, faults>>

Load(r) ==
  /\ step[r] = "load"
  /\ db[asks[r]] # None
  /\ step' = [step EXCEPT ![r] = "fill"]
  /\ got' = [got EXCEPT ![r] = db[asks[r]]]
  /\ UNCHANGED <<store, cache, up, writer, asks, answer, seenRouted, straddled, faults>>

(* No routing decision and no draft are answered but never cached.          *)
LoadNothing(r) ==
  /\ step[r] = "load"
  /\ db[asks[r]] = None
  /\ Answer(r, IF Exists THEN None ELSE "not_found")

(* SET with the family's TTL; an error is counted and the read answered.    *)
Fill(r) ==
  /\ step[r] = "fill"
  /\ cache' = [cache EXCEPT ![asks[r]] = IF up THEN got[r] ELSE @]
  /\ step' = [step EXCEPT ![r] = "idle"]
  /\ answer' = [answer EXCEPT ![r] = got[r]]
  /\ got' = [got EXCEPT ![r] = None]
  /\ seenRouted' = IF asks[r] = "status" /\ got[r] \in Rows /\ outcome[got[r]] = "routed"
                   THEN seenRouted \cup {r} ELSE seenRouted
  /\ UNCHANGED <<store, up, writer, asks, straddled, faults>>

-----------------------------------------------------------------------------
(* Redis *)

(* Faulty variant: SET without a TTL.                                       *)
NeverExpires(f) == FALSE

Expire(f) ==
  /\ cache[f] # Empty
  /\ cache' = [cache EXCEPT ![f] = Empty]
  /\ UNCHANGED <<store, up, writer, reader, straddled, faults>>

RedisStops ==
  /\ up
  /\ faults < MaxFaults
  /\ up' = FALSE
  /\ faults' = faults + 1
  /\ UNCHANGED <<store, cache, writer, reader, straddled>>

(* The entries are lost, or come back from the snapshot of a clean stop.    *)
RedisStarts ==
  /\ ~up
  /\ up' = TRUE
  /\ cache' \in {cache, [f \in Families |-> Empty]}
  /\ UNCHANGED <<store, writer, reader, straddled, faults>>

(* An entry of another release: not the JSON that this one reads.           *)
EntryUnreadable(f) ==
  /\ faults < MaxFaults
  /\ cache[f] \notin {Empty, Corrupt}
  /\ cache' = [cache EXCEPT ![f] = Corrupt]
  /\ faults' = faults + 1
  /\ UNCHANGED <<store, up, writer, reader, straddled>>

-----------------------------------------------------------------------------
WriterStep(x) == Begin(x) \/ Write(x) \/ Delete(x) \/ Commit(x)

Serve(r) ==
  \/ TicketUnknown(r) \/ Hit(r) \/ Miss(r) \/ Evict(r)
  \/ Load(r) \/ LoadNothing(r) \/ Fill(r)

Next ==
  \/ Create
  \/ \E x \in Writers : WriterStep(x) \/ Lose(x)
  \/ \E r \in Readers : Serve(r) \/ \E f \in Families : Ask(r, f)
  \/ \E f \in Families : Expire(f) \/ EntryUnreadable(f)
  \/ RedisStops \/ RedisStarts

Spec == Init /\ [][Next]_vars

(* Requests are served, transactions go on until they end, entries have a   *)
(* TTL.  Nobody has to ask, and Redis may stay down.                        *)
FairSpec ==
  /\ Spec
  /\ \A x \in Writers : WF_vars(WriterStep(x))
  /\ \A r \in Readers : WF_vars(Serve(r))
  /\ \A f \in Families : WF_vars(Expire(f))

-----------------------------------------------------------------------------
(* Properties *)

(* What readers are given was committed: the rows of a transaction that is  *)
(* still open, or was lost, are never in Redis.                             *)
OnlyCommittedRowsCached ==
  \A f \in Families : \A x \in Writers : cache[f] = x => stage[x] = "done"

(* When a transaction comes to its commit it has deleted the key of every   *)
(* family it wrote, after its last write to it, on every path including     *)
(* the failure handler's.                                                   *)
EveryWriteIsFollowedByItsDelete ==
  \A x \in Writers : stage[x] = "commit" /\ left[x] = <<>> => dirty[x] = {}

(* A client that was told the ticket is routed and then asks for the        *)
(* routing decision is never told that there is none.                       *)
RoutedClientsFindADecision ==
  \A r \in Readers :
    r \in seenRouted /\ asks[r] = "routing" /\ step[r] = "idle" =>
      answer[r] \in Rows

(* Every stale entry goes away: once writing stops, readers are served the  *)
(* committed row.                                                           *)
CacheConverges ==
  \A f \in Families : <>[](cache[f] \in {Empty, Corrupt, db[f]})

(* Redis never stands between a client and its answer.                      *)
EveryRequestIsAnswered == \A r \in Readers : step[r] # "idle" ~> step[r] = "idle"

(* "Invalidates API read-model cache keys after durable writes": with no    *)
(* transaction or read under way, nothing lost, and no read that overlapped *)
(* the commit of what it read, the entries are the committed rows.          *)
Quiet ==
  /\ faults = 0
  /\ \A x \in Writers : stage[x] \in {"ready", "done"}
  /\ \A r \in Readers : step[r] = "idle"
DurableWritesReachReaders ==
  Quiet => \A f \in Families \ straddled : cache[f] \in {Empty, db[f]}

=============================================================================
