---------------------------- MODULE TicketTriage ----------------------------
(***************************************************************************)
(* The ticket triage pipeline on its authoritative store.  Worker tasks    *)
(* poll Postgres for pending tickets and take each one through embedding,  *)
(* classification, retrieval and drafting inside one READ COMMITTED        *)
(* transaction; API requests create tickets and store test embeddings.     *)
(* A session's writes stay in tx[s] until its commit.  What sessions see   *)
(* of each other before that is the row locks, the entries of the unique   *)
(* indexes, and nothing else.                                              *)
(*                                                                         *)
(* Tickets are named by the rank of their created_at.  Rows of the         *)
(* embedding, routing and draft tables are named by the session that       *)
(* wrote them.                                                             *)
(***************************************************************************)
EXTENDS Naturals, Sequences, FiniteSets

CONSTANTS
  NumTickets,       \* tickets that can ever be created (bound)
  Workers,          \* ai-worker processes
  Requests,         \* one-shot POST /tickets/{id}/embeddings/test calls (bound)
  Target,           \* the ticket a request names
  SameText,         \* requests whose source_text_hash is the hash of the ticket's text
  BatchSize,        \* worker_batch_size
  Forced,           \* workers that run with force_regenerate_embeddings
  Poison,           \* tickets whose embedding row Postgres refuses to store
  MaxFaults         \* process deaths and lost connections (bound)

Tickets == 1..NumTickets
Sessions == Workers \cup Requests
NoTicket == 0
Intake == 0         \* the author of a ticket_received event

ASSUME NumTicketsAssumption == NumTickets \in Nat \ {0}
ASSUME SessionsAssumption == Workers \cap Requests = {}
ASSUME IntakeAssumption == Intake \notin Sessions
ASSUME TargetAssumption == Target \in [Requests -> Tickets]
ASSUME SameTextAssumption == SameText \subseteq Requests
ASSUME SettingsAssumption ==
  /\ BatchSize \in Nat \ {0}
  /\ Forced \subseteq Workers
  /\ Poison \subseteq Tickets
  /\ MaxFaults \in Nat

Statuses ==
  {"pending_embedding", "embedded", "routing_pending", "routed", "failed"}
DecisionTypes == {"category", "team", "priority", "escalation"}
EventTypes ==
  {"ticket_received", "ai_processing_started", "embedding_stored",
   "classification_completed", "retrieval_completed",
   "draft_suggestion_stored", "ai_processing_completed",
   "ai_processing_failed"}

(* The events one transaction appended and the session that did.            *)
EventGroup == [by: Sessions \cup {Intake}, evs: SUBSET EventTypes]

VARIABLES
  status,     \* status[t]: committed ticket status, "absent" before intake commits
  active,     \* active[t]: sessions whose embedding row is committed and is_active
  decisions,  \* decisions[t]: committed routing_decisions, as <<session, type>>
  drafts,     \* drafts[t]: sessions whose pending_review draft is committed
  audit,      \* audit[t]: committed ticket_events, one group per transaction, in commit order
  pc,         \* where each session is
  cur,        \* the ticket a session's transaction is about
  batch,      \* tickets a worker listed and has not begun
  want,       \* rows an UPDATE ... SET is_active = false found in its snapshot
  tx,         \* a session's uncommitted writes
  faults      \* faults so far

store == <<status, active, decisions, drafts, audit>>
vars == <<status, active, decisions, drafts, audit, pc, cur, batch, want, tx, faults>>

WorkerStates ==
  {"idle", "batch", "lookup", "stale", "drop", "embed", "scan", "replace",
   "store", "mark", "classify", "retrieve", "generate", "finish", "handler",
   "commit", "down"}
RequestStates == {"start", "scan", "replace", "store", "mark", "commit", "done"}

(* A session holds a transaction from its first statement on a ticket to    *)
(* its commit or rollback.                                                  *)
InTransaction(s) == cur[s] # NoTicket

TxType ==
  [status: Statuses \cup {"none"}, deact: SUBSET Sessions, emb: BOOLEAN,
   decs: SUBSET DecisionTypes, evs: SUBSET EventTypes, draft: BOOLEAN]
NoWrites ==
  [status |-> "none", deact |-> {}, emb |-> FALSE,
   decs |-> {}, evs |-> {}, draft |-> FALSE]

TypeOK ==
  /\ status \in [Tickets -> Statuses \cup {"absent"}]
  /\ active \in [Tickets -> SUBSET Sessions]
  /\ decisions \in [Tickets -> SUBSET (Sessions \X DecisionTypes)]
  /\ drafts \in [Tickets -> SUBSET Sessions]
  /\ audit \in [Tickets -> Seq(EventGroup)]
  /\ pc \in [Sessions -> WorkerStates \cup RequestStates]
  /\ \A w \in Workers : pc[w] \in WorkerStates
  /\ \A r \in Requests : pc[r] \in RequestStates
  /\ cur \in [Sessions -> Tickets \cup {NoTicket}]
  /\ batch \in [Sessions -> SUBSET Tickets]
  /\ want \in [Sessions -> SUBSET Sessions]
  /\ tx \in [Sessions -> TxType]
  /\ faults \in 0..MaxFaults

Init ==
  /\ status = [t \in Tickets |-> "absent"]
  /\ active = [t \in Tickets |-> {}]
  /\ decisions = [t \in Tickets |-> {}]
  /\ drafts = [t \in Tickets |-> {}]
  /\ audit = [t \in Tickets |-> <<>>]
  /\ pc = [s \in Sessions |-> IF s \in Workers THEN "idle" ELSE "start"]
  /\ cur = [s \in Sessions |-> NoTicket]
  /\ batch = [s \in Sessions |-> {}]
  /\ want = [s \in Sessions |-> {}]
  /\ tx = [s \in Sessions |-> NoWrites]
  /\ faults = 0

-----------------------------------------------------------------------------
(* Locks and unique indexes *)

(* The other open transactions on the same ticket.                          *)
Rivals(s) == {o \in Sessions \ {s} : cur[o] = cur[s]}

(* UPDATE tickets waits for another transaction's uncommitted UPDATE.       *)
TicketRowBusy(s) == \E o \in Rivals(s) : tx[o].status # "none"

(* UPDATE ticket_embeddings waits while a row it found is being changed.    *)
EmbeddingRowsBusy(s) == \E o \in Rivals(s) : tx[o].deact \cap want[s] # {}

(* Faulty variant: the migration without the unique index.                  *)
NoActiveIndex(s) == FALSE

(* INSERT into the partial unique index waits for a transaction that has    *)
(* inserted a conflicting entry or is retiring one.                         *)
ActiveIndexBusy(s) ==
  \E o \in Rivals(s) : tx[o].emb \/ tx[o].deact # {}

(* uq_ticket_embeddings_one_active_per_ticket: an active row that this      *)
(* transaction has not retired refuses the insert.                          *)
ActiveIndexTaken(s) == active[cur[s]] \ tx[s].deact # {}

(* uq_draft_suggestions_one_pending_review_per_ticket.                      *)
DraftIndexBusy(s) == \E o \in Rivals(s) : tx[o].draft
DraftIndexTaken(s) == drafts[cur[s]] # {}

(* What a run reads of its ticket before it writes: the active embedding,   *)
(* and whether a draft waits for review.                                    *)
ActiveEmbeddings(w) == active[cur[w]]
HasPendingReview(w) == drafts[cur[w]] # {}

(* The source_text_hash of the row that s wrote is the hash of the text.    *)
HasTextHash(s) == s \in Workers \cup SameText

-----------------------------------------------------------------------------
(* Transactions *)

Writes(s, changed) == tx' = [tx EXCEPT ![s] = changed]

Goto(s, from, to) == pc[s] = from /\ pc' = [pc EXCEPT ![s] = to]

Open(s, t, writes) ==
  /\ cur' = [cur EXCEPT ![s] = t]
  /\ Writes(s, writes)
  /\ UNCHANGED <<store, want, faults>>

Closed(s) ==
  /\ cur' = [cur EXCEPT ![s] = NoTicket]
  /\ want' = [want EXCEPT ![s] = {}]
  /\ Writes(s, NoWrites)

(* After a commit a worker takes the next ticket of its batch, or polls     *)
(* again; a request is over.                                                *)
AfterCommit(s) ==
  IF s \in Requests THEN "done" ELSE IF batch[s] = {} THEN "idle" ELSE "batch"

Commit(s) ==
  LET t == cur[s] IN
  /\ Goto(s, "commit", AfterCommit(s))
  /\ status' = [status EXCEPT ![t] = tx[s].status]
  /\ active' = [active EXCEPT ![t] =
                  (@ \ tx[s].deact) \cup (IF tx[s].emb THEN {s} ELSE {})]
  /\ decisions' = [decisions EXCEPT ![t] = @ \cup ({s} \X tx[s].decs)]
  /\ drafts' = [drafts EXCEPT ![t] = @ \cup (IF tx[s].draft THEN {s} ELSE {})]
  /\ audit' = [audit EXCEPT ![t] = Append(@, [by |-> s, evs |-> tx[s].evs])]
  /\ Closed(s)
  /\ UNCHANGED <<batch, faults>>

(* Faulty variant: the error path leaves the transaction open.              *)
RollbackLeavesOpen(s) ==
  /\ pc' = [pc EXCEPT ![s] = IF s \in Workers THEN "down" ELSE "done"]
  /\ batch' = [batch EXCEPT ![s] = {}]
  /\ UNCHANGED <<store, cur, want, tx>>

(* A database error inside process_ticket makes its handler's own UPDATE    *)
(* fail too; run() rolls back, then reads an attribute the rollback         *)
(* expired, which raises out of the loop: the process ends and loses its    *)
(* batch.  A request answers 500.                                           *)
Rollback(s) ==
  /\ pc' = [pc EXCEPT ![s] = IF s \in Workers THEN "down" ELSE "done"]
  /\ batch' = [batch EXCEPT ![s] = {}]
  /\ Closed(s)
  /\ UNCHANGED store

-----------------------------------------------------------------------------
(* API: intake and the test-embedding endpoint *)

(* create_ticket and its commit: invisible to every other session until     *)
(* then, so one step.  Commits may come in any order of created_at.         *)
CreateTicket(t) ==
  /\ status[t] = "absent"
  /\ status' = [status EXCEPT ![t] = "pending_embedding"]
  /\ audit' = [audit EXCEPT ![t] = Append(@, [by |-> Intake, evs |-> {"ticket_received"}])]
  /\ UNCHANGED <<active, decisions, drafts, pc, cur, batch, want, tx, faults>>

RequestFindsNoTicket(r) ==
  /\ Goto(r, "start", "done")
  /\ status[Target[r]] = "absent"
  /\ UNCHANGED <<store, cur, batch, want, tx, faults>>

(* Faulty variant: the request updates the ticket row before the embeddings. *)
RequestLocksTicketFirst(r) ==
  /\ Goto(r, "start", "scan")
  /\ status[Target[r]] # "absent"
  /\ \A o \in Sessions : cur[o] = Target[r] => tx[o].status = "none"
  /\ Open(r, Target[r], [NoWrites EXCEPT !.status = "embedded"])
  /\ UNCHANGED batch

RequestFindsTicket(r) ==
  /\ Goto(r, "start", "scan")
  /\ status[Target[r]] # "absent"
  /\ Open(r, Target[r], NoWrites)
  /\ UNCHANGED batch

-----------------------------------------------------------------------------
(* Statements shared by the worker's and the API's embedding repositories *)

(* UPDATE ... SET is_active = false first finds its rows in a snapshot of   *)
(* what is committed, then locks them one by one, skipping those that are   *)
(* no longer active when it gets the lock.                                  *)
Scan(s, from, to) ==
  /\ Goto(s, from, to)
  /\ want' = [want EXCEPT ![s] = active[cur[s]] \ tx[s].deact]
  /\ UNCHANGED <<store, cur, batch, tx, faults>>

Deactivate(s, from, to) ==
  /\ Goto(s, from, to)
  /\ ~EmbeddingRowsBusy(s)
  /\ Writes(s, [tx[s] EXCEPT !.deact = @ \cup (want[s] \cap active[cur[s]])])
  /\ want' = [want EXCEPT ![s] = {}]
  /\ UNCHANGED <<store, cur, batch, faults>>

StoreEmbedding(s) ==
  /\ Goto(s, "store", "mark")
  /\ ~ActiveIndexBusy(s)
  /\ ~ActiveIndexTaken(s)
  /\ s \in Workers => cur[s] \notin Poison
  /\ Writes(s, [tx[s] EXCEPT !.emb = TRUE])
  /\ UNCHANGED <<store, cur, batch, want, faults>>

(* Faulty variant: no embedding_stored event.                               *)
MarkEmbeddedSilently(s) ==
  /\ Goto(s, "mark", IF s \in Workers THEN "classify" ELSE "commit")
  /\ ~TicketRowBusy(s)
  /\ Writes(s, [tx[s] EXCEPT !.status = "embedded"])
  /\ UNCHANGED <<store, cur, batch, want, faults>>

(* The status goes to embedded whatever it was.                             *)
MarkEmbedded(s) ==
  /\ Goto(s, "mark", IF s \in Workers THEN "classify" ELSE "commit")
  /\ ~TicketRowBusy(s)
  /\ Writes(s, [tx[s] EXCEPT !.status = "embedded",
                             !.evs = @ \cup {"embedding_stored"}])
  /\ UNCHANGED <<store, cur, batch, want, faults>>

(* A unique index or a column type refuses an INSERT.                       *)
Refused(s) ==
  \/ /\ pc[s] = "store"
     /\ ~ActiveIndexBusy(s)
     /\ ActiveIndexTaken(s) \/ (s \in Workers /\ cur[s] \in Poison)
  \/ /\ pc[s] = "generate"
     /\ ~DraftIndexBusy(s)
     /\ DraftIndexTaken(s)

Refuse(s) == Refused(s) /\ Rollback(s) /\ UNCHANGED faults

-----------------------------------------------------------------------------
(* The worker *)

(* Faulty variants: failed tickets, or all tickets, are listed again.       *)
PendingOrFailed == {t \in Tickets : status[t] \in {"pending_embedding", "failed"}}
Existing == {t \in Tickets : status[t] # "absent"}

Pending == {t \in Tickets : status[t] = "pending_embedding"}

(* The BatchSize oldest pending tickets; nothing locks or claims them.      *)
ListPending ==
  {t \in Pending : Cardinality({u \in Pending : u < t}) < BatchSize}

Poll(w) ==
  /\ Goto(w, "idle", IF ListPending = {} THEN "idle" ELSE "batch")
  /\ batch' = [batch EXCEPT ![w] = ListPending]
  /\ UNCHANGED <<store, cur, want, tx, faults>>

(* process_ticket's guard reads the object that Poll loaded, whose status   *)
(* is still the listed one: the session's identity map does not refresh it, *)
(* so what others committed since goes unseen and the guard lets it pass.   *)
Begin(w) ==
  \E t \in batch[w] :
    /\ \A u \in batch[w] : t <= u
    /\ Goto(w, "batch", "lookup")
    /\ batch' = [batch EXCEPT ![w] = @ \ {t}]
    /\ Open(w, t, [NoWrites EXCEPT !.evs = {"ai_processing_started"}])

(* An active embedding of the same text is reused, one of another text is   *)
(* retired before the provider is asked for a new one.                      *)
LookupEmbedding(w) ==
  LET rows == ActiveEmbeddings(w) IN
  /\ Goto(w, "lookup",
          IF w \in Forced \/ rows = {} THEN "embed"
          ELSE IF \E s \in rows : HasTextHash(s) THEN "classify" ELSE "stale")
  /\ UNCHANGED <<store, cur, batch, want, tx, faults>>

(* The provider call and its retries (module ProviderCalls).                *)
EmbedSucceeds(w) ==
  Goto(w, "embed", "scan") /\ UNCHANGED <<store, cur, batch, want, tx, faults>>

(* Faulty variant: the pipeline goes on without an embedding.               *)
EmbedFailureIgnored(w) ==
  Goto(w, "embed", "classify") /\ UNCHANGED <<store, cur, batch, want, tx, faults>>

EmbedFails(w) ==
  Goto(w, "embed", "handler") /\ UNCHANGED <<store, cur, batch, want, tx, faults>>

(* Faulty variant: the decisions are written and the status is not.         *)
ClassifyWithoutStatus(w) ==
  /\ Goto(w, "classify", "retrieve")
  /\ Writes(w, [tx[w] EXCEPT !.decs = DecisionTypes,
                             !.evs = @ \cup {"classification_completed"}])
  /\ UNCHANGED <<store, cur, batch, want, faults>>

(* Whatever the provider answers, four decisions are written: a malformed   *)
(* or failing provider is replaced by the fallback classification.          *)
Classify(w) ==
  /\ Goto(w, "classify", "retrieve")
  /\ ~TicketRowBusy(w)
  /\ Writes(w, [tx[w] EXCEPT !.decs = DecisionTypes,
                             !.status = "routing_pending",
                             !.evs = @ \cup {"classification_completed"}])
  /\ UNCHANGED <<store, cur, batch, want, faults>>

(* Whether another ticket is close enough is left open; a draft is written  *)
(* only with such a match and when none is pending review.                  *)
Retrieve(w) ==
  \E usable \in BOOLEAN :
    /\ Goto(w, "retrieve",
            IF usable /\ ~HasPendingReview(w) THEN "generate" ELSE "finish")
    /\ Writes(w, [tx[w] EXCEPT !.evs = @ \cup {"retrieval_completed"}])
    /\ UNCHANGED <<store, cur, batch, want, faults>>

(* The flush of the new draft waits for its entry in the unique index.      *)
StoreDraft(w) ==
  /\ ~DraftIndexBusy(w)
  /\ ~DraftIndexTaken(w)
  /\ Writes(w, [tx[w] EXCEPT !.draft = TRUE,
                             !.evs = @ \cup {"draft_suggestion_stored"}])

SuggestSucceeds(w) ==
  /\ Goto(w, "generate", "finish")
  /\ StoreDraft(w)
  /\ UNCHANGED <<store, cur, batch, want, faults>>

SuggestFails(w) ==
  Goto(w, "generate", "handler") /\ UNCHANGED <<store, cur, batch, want, tx, faults>>

FinishRouted(w) ==
  /\ Goto(w, "finish", "commit")
  /\ ~TicketRowBusy(w)
  /\ Writes(w, [tx[w] EXCEPT !.status = "routed",
                             !.evs = @ \cup {"ai_processing_completed"}])
  /\ UNCHANGED <<store, cur, batch, want, faults>>

(* Faulty variants: the failure is recorded without the status, without the *)
(* event, or by putting the ticket back in the queue.                       *)
FailWithoutStatus(w) ==
  /\ Goto(w, "handler", "commit")
  /\ Writes(w, [tx[w] EXCEPT !.evs = @ \cup {"ai_processing_failed"}])
  /\ UNCHANGED <<store, cur, batch, want, faults>>
FailWithoutEvent(w) ==
  /\ Goto(w, "handler", "commit")
  /\ ~TicketRowBusy(w)
  /\ Writes(w, [tx[w] EXCEPT !.status = "failed"])
  /\ UNCHANGED <<store, cur, batch, want, faults>>
FailByRequeue(w) ==
  /\ Goto(w, "handler", "commit")
  /\ ~TicketRowBusy(w)
  /\ Writes(w, [tx[w] EXCEPT !.status = "pending_embedding",
                             !.evs = @ \cup {"ai_processing_failed"}])
  /\ UNCHANGED <<store, cur, batch, want, faults>>

(* The except clause keeps what the run wrote so far and commits it with    *)
(* the failure.                                                             *)
MarkFailed(w) ==
  /\ Goto(w, "handler", "commit")
  /\ ~TicketRowBusy(w)
  /\ Writes(w, [tx[w] EXCEPT !.status = "failed",
                             !.evs = @ \cup {"ai_processing_failed"}])
  /\ UNCHANGED <<store, cur, batch, want, faults>>

-----------------------------------------------------------------------------
(* Faults: a process is killed or loses its connection *)

Fault(s) ==
  /\ faults < MaxFaults
  /\ InTransaction(s) \/ batch[s] # {}
  /\ Rollback(s)
  /\ faults' = faults + 1

(* Faulty variant: restart: "no".                                           *)
NeverRestart(w) == FALSE

(* restart: unless-stopped                                                  *)
Restart(w) ==
  /\ Goto(w, "down", "idle")
  /\ UNCHANGED <<store, cur, batch, want, tx, faults>>

-----------------------------------------------------------------------------
EmbeddingStep(s) ==
  \/ Scan(s, "scan", "replace")
  \/ Deactivate(s, "replace", "store")
  \/ StoreEmbedding(s)
  \/ MarkEmbedded(s)
  \/ Refuse(s)
  \/ Commit(s)

WorkerStep(w) ==
  \/ Poll(w) \/ Begin(w)
  \/ LookupEmbedding(w)
  \/ Scan(w, "stale", "drop")
  \/ Deactivate(w, "drop", "embed")
  \/ EmbedSucceeds(w) \/ EmbedFails(w)
  \/ Classify(w)
  \/ Retrieve(w)
  \/ SuggestSucceeds(w) \/ SuggestFails(w)
  \/ FinishRouted(w) \/ MarkFailed(w)
  \/ EmbeddingStep(w)
  \/ Restart(w)

RequestStep(r) ==
  \/ RequestFindsNoTicket(r)
  \/ RequestFindsTicket(r)
  \/ EmbeddingStep(r)

Next ==
  \/ \E t \in Tickets : CreateTicket(t)
  \/ \E w \in Workers : WorkerStep(w)
  \/ \E r \in Requests : RequestStep(r)
  \/ \E s \in Sessions : Fault(s)

Spec == Init /\ [][Next]_vars

(* Every process that runs keeps taking steps: provider clients time out,   *)
(* Compose restarts a dead worker, a request is served or answered 500.     *)
(* Nobody has to create a ticket.                                           *)
FairSpec ==
  /\ Spec
  /\ \A w \in Workers : WF_vars(WorkerStep(w))
  /\ \A r \in Requests : WF_vars(RequestStep(r))

-----------------------------------------------------------------------------
(* Properties *)

(* A ticket never has two active embeddings, however the delete-then-insert *)
(* sequences of workers and requests interleave.                            *)
OneActiveEmbedding == \A t \in Tickets : \A a, b \in active[t] : a = b

(* A transaction that has inserted its active embedding has retired every   *)
(* committed one, and no other transaction on the ticket has retired or     *)
(* inserted any: the retirements of one session and the insert of another   *)
(* are never both pending.                                                  *)
EmbeddingWriterAlone ==
  \A s \in Sessions : InTransaction(s) /\ tx[s].emb =>
    /\ active[cur[s]] \subseteq tx[s].deact
    /\ \A o \in Rivals(s) : ~tx[o].emb /\ tx[o].deact = {}

(* A session about to insert a draft never meets one: the ticket row that   *)
(* Classify locked makes has_pending_review and the insert atomic, and the  *)
(* unique index never has to refuse a draft.                                *)
DraftsNeverCollide ==
  \A w \in Workers : pc[w] = "generate" => ~DraftIndexBusy(w) /\ ~DraftIndexTaken(w)

(* The committed status is the one that the last committed group of events  *)
(* tells of: status and audit trail never disagree.                         *)
StatusMatchesTrail ==
  \A t \in Tickets :
    IF audit[t] = <<>> THEN status[t] = "absent"
    ELSE LET last == audit[t][Len(audit[t])].evs IN
      status[t] = IF "ai_processing_completed" \in last THEN "routed"
                  ELSE IF "ai_processing_failed" \in last THEN "failed"
                  ELSE IF "embedding_stored" \in last THEN "embedded"
                  ELSE "pending_embedding"

(* What is committed of a worker's run is the whole run: it has started, it *)
(* has exactly one outcome, a completed run classified and retrieved, and a *)
(* failed run leaves no draft behind.                                       *)
RunsAreWhole ==
  \A t \in Tickets : \A i \in DOMAIN audit[t] :
    LET run == audit[t][i].evs IN
    "ai_processing_started" \in run =>
      /\ "ai_processing_completed" \in run <=> "ai_processing_failed" \notin run
      /\ "ai_processing_completed" \in run =>
           {"classification_completed", "retrieval_completed"} \subseteq run
      /\ "ai_processing_failed" \in run => "draft_suggestion_stored" \notin run

(* A routed ticket can be found by similarity search and has a decision of  *)
(* every type from one run.                                                 *)
RoutedHasEvidence ==
  \A t \in Tickets : status[t] = "routed" =>
    /\ active[t] # {}
    /\ \E w \in Workers : {w} \X DecisionTypes \subseteq decisions[t]

(* Sessions wait for each other's row locks and index entries...            *)
WaitsFor(s, o) ==
  /\ o \in Rivals(s)
  /\ \/ pc[s] \in {"drop", "replace"} /\ tx[o].deact \cap want[s] # {}
     \/ pc[s] = "store" /\ (tx[o].emb \/ tx[o].deact # {})
     \/ pc[s] \in {"mark", "classify", "finish", "handler"} /\ tx[o].status # "none"
     \/ pc[s] = "generate" /\ tx[o].draft

(* ...but never in a circle: every transaction takes embedding rows before  *)
(* the ticket row and the ticket row before drafts.                         *)
NoLockCycle ==
  \A S \in (SUBSET Sessions) \ {{}} : \E s \in S : \A o \in S : ~WaitsFor(s, o)

(* The workers that have committed a run on t.                              *)
Settlers(t) ==
  {w \in Workers : \E i \in DOMAIN audit[t] : audit[t][i].by = w}

(* A worker commits at most one run on a ticket, whatever crashes and       *)
(* whoever else processes it; with one worker a ticket is processed at most *)
(* once.                                                                    *)
NoWorkerRepeats ==
  \A t \in Tickets : \A i, j \in DOMAIN audit[t] :
    audit[t][i].by = audit[t][j].by /\ audit[t][i].by \in Workers => i = j

(* The pipeline implements the life of a ticket that TicketLifecycle        *)
(* states: every commit is one step of it, everything else is invisible.    *)
Lifecycle == INSTANCE TicketLifecycle WITH
  Processors <- Workers,
  state <- status,
  settledBy <- [t \in Tickets |-> Settlers(t)]

ImplementsLifecycle == Lifecycle!Spec

(* ... and with fairness its liveness: a pending ticket is settled.         *)
ImplementsFairLifecycle == Lifecycle!FairSpec

(* Tickets stay routed after processing.                                    *)
RoutedIsFinal ==
  [][\A t \in Tickets : status[t] = "routed" => status'[t] = "routed"]_status

(* Only a test embedding takes a ticket out of routed, and only to embedded. *)
RoutedLeftOnlyByTestEmbedding ==
  [][\A t \in Tickets : status[t] = "routed" /\ status'[t] # "routed" =>
       /\ status'[t] = "embedded"
       /\ \E r \in Requests : pc[r] = "commit" /\ pc'[r] = "done" /\ cur[r] = t]_vars

(* A pending ticket that Postgres accepts is eventually taken out of        *)
(* pending_embedding.                                                       *)
HealthyTicketsSettle ==
  \A t \in Tickets \ Poison :
    status[t] = "pending_embedding" ~> status[t] \in {"routed", "failed", "embedded"}

(* No transaction stays open: no session waits for a lock forever.          *)
TransactionsEnd == \A s \in Sessions : InTransaction(s) ~> ~InTransaction(s)

=============================================================================
