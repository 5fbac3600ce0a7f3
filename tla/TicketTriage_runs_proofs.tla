---------------------- MODULE TicketTriage_runs_proofs ----------------------
(***************************************************************************)
(* Proofs about what TicketTriage commits of a run: the events match the   *)
(* status, a run is committed whole and once per worker, every step is a   *)
(* step of TicketLifecycle or invisible to it, and routed tickets keep     *)
(* their status and have their evidence as long as one worker runs.        *)
(***************************************************************************)
EXTENDS TicketTriage_proofs

USE DEF Sessions, NoTicket, Intake, InTransaction

-----------------------------------------------------------------------------
(* The uncommitted writes of a session, by where it is.                     *)

RoutedRun(b) ==
  /\ b.status = "routed"
  /\ {"ai_processing_completed", "classification_completed",
      "retrieval_completed"} \subseteq b.evs
  /\ "ai_processing_failed" \notin b.evs

FailedRun(b) ==
  /\ b.status = "failed"
  /\ "ai_processing_failed" \in b.evs
  /\ {"ai_processing_completed", "draft_suggestion_stored"} \cap b.evs = {}

RunBuffer(p, b) ==
  /\ "ai_processing_started" \in b.evs
  /\ p # "commit" => {"ai_processing_completed", "ai_processing_failed"} \cap b.evs = {}
  /\ "draft_suggestion_stored" \in b.evs => p \in {"finish", "commit"}
  /\ p \in {"retrieve", "generate", "finish"} => "classification_completed" \in b.evs
  /\ p \in {"generate", "finish"} => "retrieval_completed" \in b.evs
  /\ p = "commit" => RoutedRun(b) \/ FailedRun(b)

TestBuffer(p, b) ==
  /\ b.evs \subseteq {"embedding_stored"}
  /\ p = "commit" => b.status = "embedded" /\ b.evs = {"embedding_stored"}

BufferInv ==
  /\ \A w \in Workers : InTransaction(w) => RunBuffer(pc[w], tx[w])
  /\ \A r \in Requests : InTransaction(r) => TestBuffer(pc[r], tx[r])

LEMMA InitBufferInv == Init => BufferInv
BY DEF Init, BufferInv

(* A step of s that leaves the other sessions alone keeps the invariant     *)
(* when what it writes fits the state it goes to.                           *)
LEMMA OwnBuffer ==
  ASSUME BufferInv, NEW s \in Sessions,
         \A o \in Sessions \ {s} : pc'[o] = pc[o] /\ tx'[o] = tx[o] /\ cur'[o] = cur[o],
         s \in Workers /\ cur'[s] # NoTicket => RunBuffer(pc'[s], tx'[s]),
         s \in Requests /\ cur'[s] # NoTicket => TestBuffer(pc'[s], tx'[s])
  PROVE  BufferInv'
<1>1. ASSUME NEW w \in Workers, cur'[w] # NoTicket
      PROVE  RunBuffer(pc'[w], tx'[w])
  BY <1>1 DEF BufferInv
<1>2. ASSUME NEW r \in Requests, cur'[r] # NoTicket
      PROVE  TestBuffer(pc'[r], tx'[r])
  BY <1>2 DEF BufferInv
<1> QED BY <1>1, <1>2 DEF BufferInv

(* The same for a step inside a transaction.                                *)
LEMMA InnerBuffer ==
  ASSUME TInv, BufferInv, NEW s \in Sessions,
         NEW from \in TransactionStates, NEW to, NEW changed \in TxType,
         Goto(s, from, to), Writes(s, changed), cur' = cur,
         s \in Workers /\ RunBuffer(from, tx[s]) => RunBuffer(to, changed),
         s \in Requests /\ TestBuffer(from, tx[s]) => TestBuffer(to, changed)
  PROVE  BufferInv'
<1>1. pc[s] = from /\ cur[s] # NoTicket
  BY DEF Goto, TInv, TransactionInv
<1>2. /\ pc'[s] = to /\ tx'[s] = changed
      /\ \A o \in Sessions \ {s} : pc'[o] = pc[o] /\ tx'[o] = tx[o] /\ cur'[o] = cur[o]
  BY WritesOwnBuffer DEF Goto, TInv, TypeOK
<1>3. s \in Workers => RunBuffer(from, tx[s])
  BY <1>1 DEF BufferInv
<1>4. s \in Requests => TestBuffer(from, tx[s])
  BY <1>1 DEF BufferInv
<1> QED BY <1>2, <1>3, <1>4, OwnBuffer

(* Steps that write nothing a reader of the trail would see.                *)
LEMMA SilentBuffer ==
  ASSUME TInv, BufferInv, NEW s \in Sessions,
         NEW from \in TransactionStates \ {"commit", "finish"},
         NEW to \in TransactionStates \ {"commit", "retrieve", "generate"},
         to = "finish" => from = "generate",
         NEW changed \in TxType, changed.evs = tx[s].evs,
         Goto(s, from, to), Writes(s, changed), cur' = cur
  PROVE  BufferInv'
<1>1. RunBuffer(from, tx[s]) => RunBuffer(to, changed)
  BY DEF RunBuffer
<1>2. TestBuffer(from, tx[s]) => TestBuffer(to, changed)
  BY DEF TestBuffer
<1> QED BY <1>1, <1>2, InnerBuffer

LEMMA EmbeddingBuffer ==
  ASSUME TInv, BufferInv, NEW s \in Sessions
  PROVE  /\ Scan(s, "scan", "replace") => BufferInv'
         /\ Scan(s, "stale", "drop") => BufferInv'
         /\ Deactivate(s, "replace", "store") => BufferInv'
         /\ Deactivate(s, "drop", "embed") => BufferInv'
         /\ StoreEmbedding(s) => BufferInv'
         /\ MarkEmbedded(s) => BufferInv'
<1> DEFINE b == tx[s]
<1>0. /\ b \in TxType
      /\ {"scan", "replace", "stale", "drop", "store", "embed", "mark"} \subseteq TransactionStates
      /\ {"classify", "commit"} \subseteq TransactionStates
  BY DEF TInv, TypeOK, TransactionStates
<1>1. ASSUME NEW from \in {"scan", "stale"}, NEW to \in {"replace", "drop"}, Scan(s, from, to)
      PROVE  BufferInv'
  <2>1. Writes(s, b)
    BY <1>1 DEF Scan, Writes, TInv, TypeOK
  <2> QED BY <1>0, <1>1, <2>1, SilentBuffer DEF Scan
<1>2. ASSUME NEW from \in {"replace", "drop"}, NEW to \in {"store", "embed"},
             Deactivate(s, from, to)
      PROVE  BufferInv'
  <2> DEFINE c == [b EXCEPT !.deact = @ \cup (want[s] \cap active[cur[s]])]
  <2>1. want[s] \cap active[cur[s]] \in SUBSET Sessions
    BY DEF TInv, TypeOK
  <2>2. c \in TxType
    BY <1>0, <2>1, RetireTyped
  <2>3. c.evs = b.evs
    BY <1>0 DEF TxType
  <2>4. Writes(s, c) /\ Goto(s, from, to) /\ cur' = cur
    BY <1>2 DEF Deactivate
  <2> HIDE DEF c
  <2> QED BY <1>0, <2>2, <2>3, <2>4, SilentBuffer
<1>3. ASSUME StoreEmbedding(s) PROVE BufferInv'
  <2> DEFINE c == [b EXCEPT !.emb = TRUE]
  <2>1. c \in TxType /\ c.evs = b.evs
    BY <1>0 DEF TxType
  <2>2. Writes(s, c) /\ Goto(s, "store", "mark") /\ cur' = cur
    BY <1>3 DEF StoreEmbedding
  <2> HIDE DEF c
  <2> QED BY <1>0, <2>1, <2>2, SilentBuffer
<1>4. ASSUME MarkEmbedded(s) PROVE BufferInv'
  <2> DEFINE c == [b EXCEPT !.status = "embedded", !.evs = @ \cup {"embedding_stored"}]
             to == IF s \in Workers THEN "classify" ELSE "commit"
  <2>1. c \in TxType /\ c.status = "embedded" /\ c.evs = b.evs \cup {"embedding_stored"}
    BY <1>0 DEF TxType, Statuses, EventTypes
  <2>2. Writes(s, c) /\ Goto(s, "mark", to) /\ cur' = cur
    BY <1>4 DEF MarkEmbedded
  <2>3. s \in Workers /\ RunBuffer("mark", b) => RunBuffer(to, c)
    BY <2>1 DEF RunBuffer
  <2>4. s \in Requests /\ TestBuffer("mark", b) => TestBuffer(to, c)
    BY <2>1, SessionsAssumption DEF TestBuffer
  <2> HIDE DEF c
  <2> QED BY <1>0, <2>1, <2>2, <2>3, <2>4, InnerBuffer
<1> QED BY <1>1, <1>2, <1>3, <1>4

LEMMA WorkerBuffer ==
  ASSUME TInv, BufferInv, NEW w \in Workers
  PROVE  /\ LookupEmbedding(w) => BufferInv'
         /\ EmbedSucceeds(w) => BufferInv'
         /\ EmbedFails(w) => BufferInv'
         /\ Classify(w) => BufferInv'
         /\ Retrieve(w) => BufferInv'
         /\ SuggestSucceeds(w) => BufferInv'
         /\ SuggestFails(w) => BufferInv'
         /\ FinishRouted(w) => BufferInv'
         /\ MarkFailed(w) => BufferInv'
<1> DEFINE b == tx[w]
<1>0. /\ w \in Sessions /\ w \notin Requests /\ b \in TxType
      /\ {"lookup", "embed", "classify", "stale", "scan", "handler", "retrieve",
          "generate", "finish", "commit"} \subseteq TransactionStates
  BY SessionsAssumption DEF TInv, TypeOK, TransactionStates
<1>1. ASSUME NEW from \in {"lookup", "embed", "generate"},
             NEW to \in {"embed", "classify", "stale", "scan", "handler"},
             Goto(w, from, to), UNCHANGED <<tx, cur>>
      PROVE  BufferInv'
  <2>1. Writes(w, b)
    BY <1>1 DEF Writes, TInv, TypeOK
  <2> QED BY <1>0, <1>1, <2>1, SilentBuffer
<1>2. ASSUME LookupEmbedding(w) PROVE BufferInv'
  BY <1>1, <1>2 DEF LookupEmbedding
<1>3. ASSUME EmbedSucceeds(w) PROVE BufferInv'
  BY <1>1, <1>3 DEF EmbedSucceeds
<1>4. ASSUME EmbedFails(w) PROVE BufferInv'
  BY <1>1, <1>4 DEF EmbedFails
<1>5. ASSUME SuggestFails(w) PROVE BufferInv'
  BY <1>1, <1>5 DEF SuggestFails
<1>6. ASSUME Classify(w) PROVE BufferInv'
  <2> DEFINE c == [b EXCEPT !.decs = DecisionTypes, !.status = "routing_pending",
                            !.evs = @ \cup {"classification_completed"}]
  <2>1. c \in TxType /\ c.evs = b.evs \cup {"classification_completed"}
    BY <1>0 DEF TxType, Statuses, EventTypes
  <2>2. Writes(w, c) /\ Goto(w, "classify", "retrieve") /\ cur' = cur
    BY <1>6 DEF Classify
  <2>3. RunBuffer("classify", b) => RunBuffer("retrieve", c)
    BY <2>1 DEF RunBuffer
  <2> HIDE DEF c
  <2> QED BY <1>0, <2>1, <2>2, <2>3, InnerBuffer
<1>7. ASSUME Retrieve(w) PROVE BufferInv'
  <2> DEFINE c == [b EXCEPT !.evs = @ \cup {"retrieval_completed"}]
  <2>1. c \in TxType /\ c.evs = b.evs \cup {"retrieval_completed"}
    BY <1>0 DEF TxType, EventTypes
  <2>2. PICK to \in {"generate", "finish"} : Goto(w, "retrieve", to)
    BY <1>7 DEF Retrieve
  <2>3. Writes(w, c) /\ cur' = cur
    BY <1>7 DEF Retrieve
  <2>4. RunBuffer("retrieve", b) => RunBuffer(to, c)
    BY <2>1 DEF RunBuffer
  <2> HIDE DEF c
  <2> QED BY <1>0, <2>1, <2>2, <2>3, <2>4, InnerBuffer
<1>8. ASSUME SuggestSucceeds(w) PROVE BufferInv'
  <2> DEFINE c == [b EXCEPT !.draft = TRUE, !.evs = @ \cup {"draft_suggestion_stored"}]
  <2>1. c \in TxType /\ c.evs = b.evs \cup {"draft_suggestion_stored"}
    BY <1>0 DEF TxType, EventTypes
  <2>2. Writes(w, c) /\ Goto(w, "generate", "finish") /\ cur' = cur
    BY <1>8 DEF SuggestSucceeds, StoreDraft
  <2>3. RunBuffer("generate", b) => RunBuffer("finish", c)
    BY <2>1 DEF RunBuffer
  <2> HIDE DEF c
  <2> QED BY <1>0, <2>1, <2>2, <2>3, InnerBuffer
<1>9. ASSUME FinishRouted(w) PROVE BufferInv'
  <2> DEFINE c == [b EXCEPT !.status = "routed", !.evs = @ \cup {"ai_processing_completed"}]
  <2>1. /\ c \in TxType /\ c.status = "routed"
        /\ c.evs = b.evs \cup {"ai_processing_completed"}
    BY <1>0 DEF TxType, Statuses, EventTypes
  <2>2. Writes(w, c) /\ Goto(w, "finish", "commit") /\ cur' = cur
    BY <1>9 DEF FinishRouted
  <2>3. RunBuffer("finish", b) => RunBuffer("commit", c)
    BY <2>1 DEF RunBuffer, RoutedRun
  <2> HIDE DEF c
  <2> QED BY <1>0, <2>1, <2>2, <2>3, InnerBuffer
<1>10. ASSUME MarkFailed(w) PROVE BufferInv'
  <2> DEFINE c == [b EXCEPT !.status = "failed", !.evs = @ \cup {"ai_processing_failed"}]
  <2>1. /\ c \in TxType /\ c.status = "failed"
        /\ c.evs = b.evs \cup {"ai_processing_failed"}
    BY <1>0 DEF TxType, Statuses, EventTypes
  <2>2. Writes(w, c) /\ Goto(w, "handler", "commit") /\ cur' = cur
    BY <1>10 DEF MarkFailed
  <2>3. RunBuffer("handler", b) => RunBuffer("commit", c)
    BY <2>1 DEF RunBuffer, FailedRun
  <2> HIDE DEF c
  <2> QED BY <1>0, <2>1, <2>2, <2>3, InnerBuffer
<1> QED BY <1>2, <1>3, <1>4, <1>5, <1>6, <1>7, <1>8, <1>9, <1>10

(* A rolled back session has no ticket.                                     *)
LEMMA RollbackBuffer ==
  ASSUME TInv, BufferInv, NEW s \in Sessions, Rollback(s)
  PROVE  BufferInv'
<1>1. /\ cur'[s] = NoTicket
      /\ \A o \in Sessions \ {s} : pc'[o] = pc[o] /\ tx'[o] = tx[o] /\ cur'[o] = cur[o]
  BY DEF Rollback, Closed, Writes, TInv, TypeOK
<1> QED BY <1>1, OwnBuffer

LEMMA CommitBuffer ==
  ASSUME TInv, BufferInv, NEW s \in Sessions, Commit(s)
  PROVE  BufferInv'
<1>1. /\ cur'[s] = NoTicket
      /\ \A o \in Sessions \ {s} : pc'[o] = pc[o] /\ tx'[o] = tx[o] /\ cur'[o] = cur[o]
  BY DEF Commit, Goto, Closed, Writes, TInv, TypeOK
<1> QED BY <1>1, OwnBuffer

LEMMA OuterBuffer ==
  ASSUME TInv, BufferInv
  PROVE  /\ \A t \in Tickets : CreateTicket(t) => BufferInv'
         /\ \A r \in Requests : RequestFindsNoTicket(r) => BufferInv'
         /\ \A r \in Requests : RequestFindsTicket(r) => BufferInv'
         /\ \A w \in Workers : Poll(w) => BufferInv'
         /\ \A w \in Workers : Begin(w) => BufferInv'
         /\ \A w \in Workers : Restart(w) => BufferInv'
<1>0. /\ tx \in [Sessions -> TxType]
      /\ cur \in [Sessions -> Tickets \cup {NoTicket}]
      /\ pc \in [Sessions -> WorkerStates \cup RequestStates]
      /\ \A s \in Sessions : pc[s] \notin TransactionStates => cur[s] = NoTicket
  BY DEF TInv, TypeOK, TransactionInv
<1>1. ASSUME NEW s \in Sessions, NEW from \in {"start", "idle", "down"}, NEW to,
             Goto(s, from, to), UNCHANGED <<cur, tx>>
      PROVE  BufferInv'
  BY <1>0, <1>1, OwnBuffer DEF Goto, TransactionStates
<1>2. ASSUME NEW t \in Tickets, CreateTicket(t) PROVE BufferInv'
  BY <1>2 DEF CreateTicket, BufferInv
<1>3. ASSUME NEW r \in Requests, RequestFindsNoTicket(r) PROVE BufferInv'
  BY <1>1, <1>3 DEF RequestFindsNoTicket
<1>4. ASSUME NEW w \in Workers, Poll(w) PROVE BufferInv'
  BY <1>1, <1>4 DEF Poll
<1>5. ASSUME NEW w \in Workers, Restart(w) PROVE BufferInv'
  BY <1>1, <1>5 DEF Restart
<1>6. ASSUME NEW r \in Requests, RequestFindsTicket(r) PROVE BufferInv'
  <2>1. /\ pc'[r] = "scan" /\ tx'[r] = NoWrites
        /\ \A o \in Sessions \ {r} : pc'[o] = pc[o] /\ tx'[o] = tx[o] /\ cur'[o] = cur[o]
    BY <1>0, <1>6 DEF RequestFindsTicket, Goto, Open, Writes
  <2>2. TestBuffer("scan", NoWrites)
    BY DEF TestBuffer, NoWrites
  <2> QED BY <2>1, <2>2, OwnBuffer, SessionsAssumption
<1>7. ASSUME NEW w \in Workers, Begin(w) PROVE BufferInv'
  <2> DEFINE first == [NoWrites EXCEPT !.evs = {"ai_processing_started"}]
  <2>1. /\ pc'[w] = "lookup" /\ tx'[w] = first
        /\ \A o \in Sessions \ {w} : pc'[o] = pc[o] /\ tx'[o] = tx[o] /\ cur'[o] = cur[o]
    BY <1>0, <1>7 DEF Begin, Goto, Open, Writes
  <2>2. RunBuffer("lookup", first)
    BY DEF RunBuffer, NoWrites
  <2> HIDE DEF first
  <2> QED BY <2>1, <2>2, OwnBuffer, SessionsAssumption
<1> QED BY <1>2, <1>3, <1>4, <1>5, <1>6, <1>7

LEMMA NextBufferInv == TInv /\ BufferInv /\ [Next]_vars => BufferInv'
<1> SUFFICES ASSUME TInv, BufferInv, [Next]_vars PROVE BufferInv'
  OBVIOUS
<1>1. ASSUME NEW t \in Tickets, CreateTicket(t) PROVE BufferInv'
  BY <1>1, OuterBuffer
<1>2. ASSUME NEW s \in Sessions, EmbeddingStep(s) PROVE BufferInv'
  BY <1>2, EmbeddingBuffer, RollbackBuffer, CommitBuffer DEF EmbeddingStep, Refuse
<1>3. ASSUME NEW w \in Workers, WorkerStep(w) PROVE BufferInv'
  BY <1>2, <1>3, OuterBuffer, EmbeddingBuffer, WorkerBuffer DEF WorkerStep
<1>4. ASSUME NEW r \in Requests, RequestStep(r) PROVE BufferInv'
  BY <1>2, <1>4, OuterBuffer DEF RequestStep
<1>5. ASSUME NEW s \in Sessions, Fault(s) PROVE BufferInv'
  BY <1>5, RollbackBuffer DEF Fault
<1>6. CASE UNCHANGED vars
  BY <1>6 DEF vars, BufferInv
<1> QED BY <1>1, <1>3, <1>4, <1>5, <1>6 DEF Next

-----------------------------------------------------------------------------
(* The steps a reader of the store can see, and the ones that take up a     *)
(* ticket; every other step keeps the store, and at most gives up tickets.  *)

Unseen ==
  /\ UNCHANGED store
  /\ \A s \in Sessions : cur'[s] \in {cur[s], NoTicket} /\ batch'[s] \subseteq batch[s]

LEMMA StepKinds ==
  ASSUME TInv, [Next]_vars
  PROVE  \/ \E t \in Tickets : CreateTicket(t)
         \/ \E s \in Sessions : Commit(s)
         \/ \E w \in Workers : Poll(w) \/ Begin(w)
         \/ \E r \in Requests : RequestFindsTicket(r)
         \/ Unseen
<1> USE DEF Unseen
<1>0. /\ cur \in [Sessions -> Tickets \cup {NoTicket}]
      /\ batch \in [Sessions -> SUBSET Tickets]
  BY DEF TInv, TypeOK
<1>1. ASSUME NEW s \in Sessions, Rollback(s) PROVE Unseen
  BY <1>0, <1>1 DEF Rollback, Closed
<1>2. ASSUME UNCHANGED <<store, cur, batch>> PROVE Unseen
  BY <1>2
<1>3. ASSUME NEW s \in Sessions, EmbeddingStep(s), ~Commit(s) PROVE Unseen
  BY <1>1, <1>2, <1>3
  DEF EmbeddingStep, Scan, Deactivate, StoreEmbedding, MarkEmbedded, Refuse
<1>4. ASSUME NEW w \in Workers, WorkerStep(w), ~EmbeddingStep(w), ~Poll(w), ~Begin(w)
      PROVE  Unseen
  BY <1>2, <1>4
  DEF WorkerStep, LookupEmbedding, Scan, Deactivate, EmbedSucceeds, EmbedFails, Classify,
      Retrieve, SuggestSucceeds, SuggestFails, FinishRouted, MarkFailed, Restart
<1>5. ASSUME NEW r \in Requests, RequestFindsNoTicket(r) PROVE Unseen
  BY <1>2, <1>5 DEF RequestFindsNoTicket
<1>6. ASSUME NEW s \in Sessions, Fault(s) PROVE Unseen
  BY <1>1, <1>6 DEF Fault
<1>7. CASE UNCHANGED vars
  BY <1>2, <1>7 DEF vars, store
<1> QED BY <1>3, <1>4, <1>5, <1>6, <1>7 DEF Next, RequestStep

(* What a commit and an intake add to the trail.                            *)
LEMMA CommitAppends ==
  ASSUME TInv, BufferInv, NEW s \in Sessions, Commit(s)
  PROVE  LET t == cur[s] IN
         /\ t \in Tickets /\ s \in Sessions
         /\ status' = [status EXCEPT ![t] = tx[s].status]
         /\ [by |-> s, evs |-> tx[s].evs] \in EventGroup
         /\ audit' = [audit EXCEPT ![t] = Append(@, [by |-> s, evs |-> tx[s].evs])]
         /\ s \in Workers => RoutedRun(tx[s]) \/ FailedRun(tx[s])
         /\ s \in Workers => "ai_processing_started" \in tx[s].evs
         /\ s \in Requests => tx[s].status = "embedded" /\ tx[s].evs = {"embedding_stored"}
<1>1. cur[s] # NoTicket /\ cur[s] \in Tickets /\ tx[s] \in TxType
  BY DEF Commit, Goto, TInv, TypeOK, TransactionInv, TransactionStates
<1>2. [by |-> s, evs |-> tx[s].evs] \in EventGroup
  BY <1>1 DEF EventGroup, TxType
<1>3. s \in Workers => RunBuffer("commit", tx[s])
  BY <1>1 DEF BufferInv, Commit, Goto
<1>4. s \in Requests => TestBuffer("commit", tx[s])
  BY <1>1 DEF BufferInv, Commit, Goto
<1> QED BY <1>1, <1>2, <1>3, <1>4 DEF Commit, RunBuffer, TestBuffer

(* The status and the trail change together, in one ticket, and agree.      *)
Told(evs) ==
  IF "ai_processing_completed" \in evs THEN "routed"
  ELSE IF "ai_processing_failed" \in evs THEN "failed"
  ELSE IF "embedding_stored" \in evs THEN "embedded"
  ELSE "pending_embedding"

Whole(run) ==
  "ai_processing_started" \in run =>
    /\ "ai_processing_completed" \in run <=> "ai_processing_failed" \notin run
    /\ "ai_processing_completed" \in run =>
         {"classification_completed", "retrieval_completed"} \subseteq run
    /\ "ai_processing_failed" \in run => "draft_suggestion_stored" \notin run

LEMMA TrailStep ==
  ASSUME TInv, BufferInv, [Next]_vars
  PROVE  \/ UNCHANGED <<status, audit>>
         \/ \E t \in Tickets, g \in EventGroup :
              /\ audit' = [audit EXCEPT ![t] = Append(@, g)]
              /\ status' = [status EXCEPT ![t] = Told(g.evs)]
              /\ Whole(g.evs)
<1> USE DEF Told, Whole
<1>1. ASSUME NEW t \in Tickets, CreateTicket(t)
      PROVE  \E g \in EventGroup :
               /\ audit' = [audit EXCEPT ![t] = Append(@, g)]
               /\ status' = [status EXCEPT ![t] = Told(g.evs)]
               /\ Whole(g.evs)
  <2> DEFINE g == [by |-> Intake, evs |-> {"ticket_received"}]
  <2>1. g \in EventGroup
    BY DEF EventGroup, EventTypes
  <2>2. Told(g.evs) = "pending_embedding" /\ Whole(g.evs)
    OBVIOUS
  <2> HIDE DEF Told, Whole
  <2> QED BY <1>1, <2>1, <2>2 DEF CreateTicket
<1>2. ASSUME NEW s \in Sessions, Commit(s)
      PROVE  \E t \in Tickets, g \in EventGroup :
               /\ audit' = [audit EXCEPT ![t] = Append(@, g)]
               /\ status' = [status EXCEPT ![t] = Told(g.evs)]
               /\ Whole(g.evs)
  <2> DEFINE g == [by |-> s, evs |-> tx[s].evs]
  <2>1. tx[s].status = Told(tx[s].evs) /\ Whole(tx[s].evs)
    <3>1. CASE RoutedRun(tx[s])
      BY <3>1 DEF RoutedRun
    <3>2. CASE FailedRun(tx[s])
      BY <3>2 DEF FailedRun
    <3>3. CASE tx[s].status = "embedded" /\ tx[s].evs = {"embedding_stored"}
      BY <3>3
    <3> HIDE DEF Told, Whole
    <3> QED BY <1>2, <3>1, <3>2, <3>3, CommitAppends
  <2> HIDE DEF Told, Whole
  <2>2. /\ cur[s] \in Tickets /\ g \in EventGroup
        /\ audit' = [audit EXCEPT ![cur[s]] = Append(@, g)]
        /\ status' = [status EXCEPT ![cur[s]] = Told(g.evs)]
    BY <1>2, <2>1, CommitAppends
  <2> QED BY <2>1, <2>2
<1> HIDE DEF Told, Whole
<1>3. ASSUME NEW w \in Workers, Poll(w) \/ Begin(w) PROVE UNCHANGED <<status, audit>>
  BY <1>3 DEF Poll, Begin, Open, store
<1>4. ASSUME NEW r \in Requests, RequestFindsTicket(r) PROVE UNCHANGED <<status, audit>>
  BY <1>4 DEF RequestFindsTicket, Open, store
<1>5. CASE Unseen
  BY <1>5 DEF Unseen, store
<1> QED BY <1>1, <1>2, <1>3, <1>4, <1>5, StepKinds

(* Statuses and trails of all tickets agree.                                *)
LEMMA NextStatusMatchesTrail ==
  TInv /\ BufferInv /\ StatusMatchesTrail /\ [Next]_vars => StatusMatchesTrail'
<1> SUFFICES ASSUME TInv, BufferInv, StatusMatchesTrail, [Next]_vars
             PROVE  StatusMatchesTrail'
  OBVIOUS
<1>0. /\ audit \in [Tickets -> Seq(EventGroup)]
      /\ status \in [Tickets -> Statuses \cup {"absent"}]
  BY DEF TInv, TypeOK
<1>1. CASE UNCHANGED <<status, audit>>
  BY <1>1 DEF StatusMatchesTrail
<1>2. ASSUME NEW t \in Tickets, NEW g \in EventGroup,
             audit' = [audit EXCEPT ![t] = Append(@, g)],
             status' = [status EXCEPT ![t] = Told(g.evs)]
      PROVE  StatusMatchesTrail'
  <2> SUFFICES ASSUME NEW u \in Tickets
               PROVE  IF audit'[u] = <<>> THEN status'[u] = "absent"
                      ELSE status'[u] = Told(audit'[u][Len(audit'[u])].evs)
    BY DEF StatusMatchesTrail, Told
  <2>1. CASE u = t
    <3>1. /\ audit'[t] = Append(audit[t], g) /\ status'[t] = Told(g.evs)
          /\ audit[t] \in Seq(EventGroup)
      BY <1>0, <1>2
    <3>2. audit'[t] # <<>> /\ audit'[t][Len(audit'[t])] = g
      BY <3>1
    <3> QED BY <2>1, <3>1, <3>2
  <2>2. CASE u # t
    BY <1>0, <1>2, <2>2 DEF StatusMatchesTrail, Told
  <2> QED BY <2>1, <2>2
<1> QED BY <1>1, <1>2, TrailStep

LEMMA NextRunsAreWhole ==
  TInv /\ BufferInv /\ RunsAreWhole /\ [Next]_vars => RunsAreWhole'
<1> SUFFICES ASSUME TInv, BufferInv, RunsAreWhole, [Next]_vars
             PROVE  RunsAreWhole'
  OBVIOUS
<1>0. audit \in [Tickets -> Seq(EventGroup)]
  BY DEF TInv, TypeOK
<1>1. CASE UNCHANGED <<status, audit>>
  BY <1>1 DEF RunsAreWhole
<1>2. ASSUME NEW t \in Tickets, NEW g \in EventGroup, Whole(g.evs),
             audit' = [audit EXCEPT ![t] = Append(@, g)]
      PROVE  RunsAreWhole'
  <2> SUFFICES ASSUME NEW u \in Tickets, NEW i \in DOMAIN audit'[u]
               PROVE  Whole(audit'[u][i].evs)
    BY DEF RunsAreWhole, Whole
  <2>0. \A v \in Tickets : \A j \in DOMAIN audit[v] : Whole(audit[v][j].evs)
    BY DEF RunsAreWhole, Whole
  <2>1. CASE u = t
    <3>1. audit'[t] = Append(audit[t], g) /\ audit[t] \in Seq(EventGroup)
      BY <1>0, <1>2
    <3>2. audit'[t][i] = g \/ (i \in DOMAIN audit[t] /\ audit'[t][i] = audit[t][i])
      BY <2>1, <3>1
    <3> QED BY <1>2, <2>0, <2>1, <3>2
  <2>2. CASE u # t
    BY <1>0, <1>2, <2>0, <2>2
  <2> QED BY <2>1, <2>2
<1> QED BY <1>1, <1>2, TrailStep

(* What the committed status of a ticket says is what the last group of its *)
(* audit trail tells, whoever commits and whoever crashes: the status and   *)
(* the events of a run are written by one transaction.                      *)
THEOREM StatusAndTrailAgree == Spec => []StatusMatchesTrail
<1>1. Init => StatusMatchesTrail
  BY DEF Init, StatusMatchesTrail
<1> QED
  BY <1>1, InitTInv, NextTInv, InitBufferInv, NextBufferInv, NextStatusMatchesTrail, PTL
  DEF Spec

(* The committed part of a worker's run on a ticket has a beginning, one    *)
(* outcome, and everything between that this outcome needs.                 *)
THEOREM RunsAreCommittedWhole == Spec => []RunsAreWhole
<1>1. Init => RunsAreWhole
  BY DEF Init, RunsAreWhole
<1> QED
  BY <1>1, InitTInv, NextTInv, InitBufferInv, NextBufferInv, NextRunsAreWhole, PTL
  DEF Spec


-----------------------------------------------------------------------------
(* One run per worker and ticket.  NoWorkerRepeats is kept because a worker *)
(* that has settled a ticket has it neither listed nor at hand, and cannot  *)
(* list it again: the ticket never becomes pending a second time.           *)

SettledBy(trail) == {w \in Workers : \E i \in DOMAIN trail : trail[i].by = w}

OnceInv ==
  /\ \A s \in Sessions : InTransaction(s) => status[cur[s]] # "absent"
  /\ \A w \in Workers : \A t \in batch[w] : status[t] # "absent" /\ cur[w] # t
  /\ \A t \in Tickets : \A w \in SettledBy(audit[t]) :
       /\ status[t] \notin {"absent", "pending_embedding"}
       /\ t \notin batch[w]
       /\ cur[w] # t

LEMMA InitOnceInv == Init => OnceInv /\ NoWorkerRepeats
<1> SUFFICES ASSUME Init PROVE OnceInv /\ NoWorkerRepeats
  OBVIOUS
<1>1. \A t \in Tickets : DOMAIN audit[t] = {}
  BY DEF Init
<1>2. \A t \in Tickets : SettledBy(audit[t]) = {}
  BY <1>1 DEF SettledBy
<1>3. /\ \A s \in Sessions : cur[s] = NoTicket
      /\ \A w \in Workers : batch[w] = {}
  BY DEF Init
<1> QED BY <1>1, <1>2, <1>3 DEF OnceInv, NoWorkerRepeats

(* Appending a group to the trail of t adds its author to the settlers of   *)
(* t, when the author is a worker.                                          *)
LEMMA AppendSettles ==
  ASSUME TInv, NEW t \in Tickets, NEW g \in EventGroup,
         audit' = [audit EXCEPT ![t] = Append(@, g)]
  PROVE  /\ \A u \in Tickets \ {t} : audit'[u] = audit[u] /\ SettledBy(audit'[u]) = SettledBy(audit[u])
         /\ SettledBy(audit'[t]) = SettledBy(audit[t]) \cup ({g.by} \cap Workers)
         /\ \A i \in DOMAIN audit'[t] :
              \/ i \in DOMAIN audit[t] /\ audit'[t][i] = audit[t][i]
              \/ i = Len(audit[t]) + 1 /\ audit'[t][i] = g
<1>0. audit[t] \in Seq(EventGroup) /\ audit'[t] = Append(audit[t], g)
  BY DEF TInv, TypeOK
<1>1. \A u \in Tickets \ {t} : audit'[u] = audit[u]
  BY DEF TInv, TypeOK
<1>2. \A i \in DOMAIN audit'[t] :
        \/ i \in DOMAIN audit[t] /\ audit'[t][i] = audit[t][i]
        \/ i = Len(audit[t]) + 1 /\ audit'[t][i] = g
  BY <1>0
<1>3. /\ \A i \in DOMAIN audit[t] : i \in DOMAIN audit'[t] /\ audit'[t][i] = audit[t][i]
      /\ \E i \in DOMAIN audit'[t] : audit'[t][i] = g
  <2>1. Len(audit[t]) + 1 \in DOMAIN audit'[t] /\ audit'[t][Len(audit[t]) + 1] = g
    BY <1>0
  <2>2. \A i \in DOMAIN audit[t] : i \in DOMAIN audit'[t] /\ audit'[t][i] = audit[t][i]
    BY <1>0
  <2> QED BY <2>1, <2>2
<1>4. ASSUME NEW w \in Workers
      PROVE  (\E i \in DOMAIN audit'[t] : audit'[t][i].by = w)
             <=> (\E i \in DOMAIN audit[t] : audit[t][i].by = w) \/ g.by = w
  BY <1>2, <1>3
<1>5. SettledBy(audit'[t]) = SettledBy(audit[t]) \cup ({g.by} \cap Workers)
  BY <1>4 DEF SettledBy
<1>6. \A u \in Tickets \ {t} : SettledBy(audit'[u]) = SettledBy(audit[u])
  BY <1>1 DEF SettledBy
<1> QED BY <1>1, <1>2, <1>5, <1>6

(* The tickets that sessions hold or have listed do not grow, and the store *)
(* stays as it is.                                                          *)
LEMMA FrameOnce ==
  ASSUME TInv, OnceInv, UNCHANGED <<status, audit>>,
         \A s \in Sessions :
           cur'[s] # NoTicket => \/ cur'[s] = cur[s]
                                 \/ s \in Workers /\ cur'[s] \in batch[s] \ batch'[s]
                                 \/ s \in Requests /\ status[cur'[s]] # "absent",
         \A w \in Workers : batch'[w] \subseteq batch[w]
  PROVE  OnceInv'
<1>0. \A t \in Tickets : SettledBy(audit'[t]) = SettledBy(audit[t])
  BY DEF SettledBy
<1>1. ASSUME NEW s \in Sessions, cur'[s] # NoTicket
      PROVE  status[cur'[s]] # "absent"
  BY <1>1 DEF OnceInv
<1>2. ASSUME NEW w \in Workers, NEW t \in batch'[w]
      PROVE  status[t] # "absent" /\ cur'[w] # t
  <2>1. t \in batch[w] /\ w \in Sessions /\ w \notin Requests /\ t # NoTicket
    BY SessionsAssumption, TicketsArePositive DEF TInv, TypeOK
  <2> QED BY <2>1 DEF OnceInv
<1>3. ASSUME NEW t \in Tickets, NEW w \in SettledBy(audit[t])
      PROVE  /\ status[t] \notin {"absent", "pending_embedding"}
             /\ t \notin batch'[w]
             /\ cur'[w] # t
  <2>1. w \in Workers /\ w \notin Requests /\ t # NoTicket
    BY SessionsAssumption, TicketsArePositive DEF SettledBy
  <2> QED BY <2>1 DEF OnceInv
<1> QED BY <1>0, <1>1, <1>2, <1>3 DEF OnceInv

LEMMA PollOnce ==
  ASSUME TInv, OnceInv, NEW w \in Workers, Poll(w)
  PROVE  OnceInv'
<1>0. /\ UNCHANGED <<status, audit, cur>>
      /\ cur[w] = NoTicket
      /\ batch'[w] = ListPending
      /\ \A o \in Sessions \ {w} : batch'[o] = batch[o]
  BY DEF Poll, Goto, store, TInv, TypeOK, TransactionInv, TransactionStates
<1>1. \A t \in ListPending : t \in Tickets /\ t # NoTicket /\ status[t] = "pending_embedding"
  BY TicketsArePositive DEF ListPending, Pending
<1>2. \A t \in Tickets : SettledBy(audit'[t]) = SettledBy(audit[t])
  BY <1>0 DEF SettledBy
<1>3. \A v \in Workers : \A t \in batch'[v] : status[t] # "absent" /\ cur[v] # t
  BY <1>0, <1>1 DEF OnceInv
<1>4. ASSUME NEW t \in Tickets, NEW v \in SettledBy(audit[t])
      PROVE  /\ status[t] \notin {"absent", "pending_embedding"}
             /\ t \notin batch'[v]
             /\ cur[v] # t
  <2>1. v \in Workers
    BY DEF SettledBy
  <2> QED BY <1>0, <1>1, <2>1 DEF OnceInv
<1> QED BY <1>0, <1>2, <1>3, <1>4 DEF OnceInv

LEMMA CreateOnce ==
  ASSUME TInv, OnceInv, NoWorkerRepeats, NEW t \in Tickets, CreateTicket(t)
  PROVE  OnceInv' /\ NoWorkerRepeats'
<1> DEFINE g == [by |-> Intake, evs |-> {"ticket_received"}]
<1>0. /\ g \in EventGroup /\ g.by \notin Workers
      /\ status[t] = "absent"
      /\ audit' = [audit EXCEPT ![t] = Append(@, g)]
      /\ UNCHANGED <<cur, batch>>
  BY IntakeAssumption DEF CreateTicket, EventGroup, EventTypes
<1>1. /\ status'[t] = "pending_embedding"
      /\ \A u \in Tickets \ {t} : status'[u] = status[u]
  BY DEF CreateTicket, TInv, TypeOK
<1> HIDE DEF g
<1>2. \A u \in Tickets : SettledBy(audit'[u]) = SettledBy(audit[u])
  <2>1. SettledBy(audit'[t]) = SettledBy(audit[t]) \cup ({g.by} \cap Workers)
    BY <1>0, AppendSettles
  <2>2. {g.by} \cap Workers = {}
    BY <1>0
  <2>3. SettledBy(audit'[t]) = SettledBy(audit[t])
    BY <2>1, <2>2
  <2>4. \A u \in Tickets \ {t} : SettledBy(audit'[u]) = SettledBy(audit[u])
    BY <1>0, AppendSettles
  <2> QED BY <2>3, <2>4
<1>3. SettledBy(audit[t]) = {}
  BY <1>0 DEF OnceInv
<1>4. OnceInv'
  <2>1. \A s \in Sessions : cur[s] # NoTicket => status'[cur[s]] # "absent"
    BY <1>1 DEF OnceInv, TInv, TypeOK
  <2>2. \A w \in Workers : \A u \in batch[w] : status'[u] # "absent" /\ cur[w] # u
    BY <1>1 DEF OnceInv, TInv, TypeOK
  <2>3. \A u \in Tickets : \A w \in SettledBy(audit[u]) :
          /\ status'[u] \notin {"absent", "pending_embedding"}
          /\ u \notin batch[w]
          /\ cur[w] # u
    BY <1>1, <1>3 DEF OnceInv
  <2> QED BY <1>0, <1>2, <2>1, <2>2, <2>3 DEF OnceInv
<1>5. NoWorkerRepeats'
  <2>1. \A i \in DOMAIN audit'[t] :
          \/ i \in DOMAIN audit[t] /\ audit'[t][i] = audit[t][i]
          \/ i = Len(audit[t]) + 1 /\ audit'[t][i] = g
    BY <1>0, AppendSettles
  <2>2. \A u \in Tickets \ {t} : audit'[u] = audit[u]
    BY <1>0, AppendSettles
  <2> QED BY <1>0, <2>1, <2>2 DEF NoWorkerRepeats
<1> QED BY <1>4, <1>5

LEMMA CommitOnce ==
  ASSUME TInv, BufferInv, OnceInv, NoWorkerRepeats, NEW s \in Sessions, Commit(s)
  PROVE  OnceInv' /\ NoWorkerRepeats'
<1> DEFINE g == [by |-> s, evs |-> tx[s].evs]
<1>t. PICK t \in Tickets : t = cur[s]
  BY CommitAppends
<1>0. /\ t = cur[s] /\ t \in Tickets /\ t # NoTicket
      /\ g \in EventGroup /\ g.by = s
      /\ audit' = [audit EXCEPT ![t] = Append(@, g)]
  BY <1>t, CommitAppends, TicketsArePositive
<1>1. /\ status'[t] = tx[s].status
      /\ \A u \in Tickets \ {t} : status'[u] = status[u]
  <2>1. status' = [status EXCEPT ![t] = tx[s].status]
    BY <1>t, CommitAppends
  <2> QED BY <2>1 DEF TInv, TypeOK
<1>2. tx[s].status \notin {"absent", "pending_embedding"}
  BY CommitAppends DEF RoutedRun, FailedRun
<1>3. /\ cur'[s] = NoTicket /\ batch' = batch
      /\ \A o \in Sessions \ {s} : cur'[o] = cur[o]
  BY DEF Commit, Closed, TInv, TypeOK
<1>4. \A u \in Tickets : SettledBy(audit[u]) \subseteq Workers
  BY DEF SettledBy
<1>5. s \in Workers => s \notin SettledBy(audit[t]) /\ t \notin batch[s]
  BY <1>0 DEF OnceInv
<1> HIDE DEF g
<1>6. /\ \A u \in Tickets \ {t} : audit'[u] = audit[u] /\ SettledBy(audit'[u]) = SettledBy(audit[u])
      /\ SettledBy(audit'[t]) = SettledBy(audit[t]) \cup ({s} \cap Workers)
      /\ \A i \in DOMAIN audit'[t] :
           \/ i \in DOMAIN audit[t] /\ audit'[t][i] = audit[t][i]
           \/ i = Len(audit[t]) + 1 /\ audit'[t][i] = g
  BY <1>0, AppendSettles
<1>7. OnceInv'
  <2>1. \A o \in Sessions : cur'[o] # NoTicket => status'[cur'[o]] # "absent"
    <3> SUFFICES ASSUME NEW o \in Sessions, cur'[o] # NoTicket
                 PROVE  status'[cur'[o]] # "absent"
      OBVIOUS
    <3>1. o # s /\ cur'[o] = cur[o] /\ cur[o] \in Tickets
      BY <1>3 DEF TInv, TypeOK
    <3>2. status[cur[o]] # "absent"
      BY <3>1 DEF OnceInv
    <3> QED BY <1>1, <1>2, <3>1, <3>2
  <2>2. \A w \in Workers : \A u \in batch'[w] : status'[u] # "absent" /\ cur'[w] # u
    <3> SUFFICES ASSUME NEW w \in Workers, NEW u \in batch[w]
                 PROVE  status'[u] # "absent" /\ cur'[w] # u
      BY <1>3
    <3>1. u \in Tickets /\ u # NoTicket /\ status[u] # "absent" /\ cur[w] # u
      BY TicketsArePositive DEF OnceInv, TInv, TypeOK
    <3> QED BY <1>1, <1>2, <1>3, <3>1
  <2>3. ASSUME NEW u \in Tickets, NEW w \in SettledBy(audit'[u])
        PROVE  /\ status'[u] \notin {"absent", "pending_embedding"}
               /\ u \notin batch'[w]
               /\ cur'[w] # u
    <3>1. CASE w \in SettledBy(audit[u])
      <4>1. /\ status[u] \notin {"absent", "pending_embedding"}
            /\ u \notin batch[w] /\ cur[w] # u
            /\ w \in Workers /\ u # NoTicket
        BY <1>4, <3>1, TicketsArePositive DEF OnceInv
      <4> QED BY <1>1, <1>2, <1>3, <4>1
    <3>2. CASE w \notin SettledBy(audit[u])
      <4>1. u = t /\ w = s /\ s \in Workers
        BY <1>6, <3>2
      <4> QED BY <1>0, <1>1, <1>2, <1>3, <1>5, <4>1
    <3> QED BY <3>1, <3>2
  <2> QED BY <2>1, <2>2, <2>3 DEF OnceInv
<1>8. NoWorkerRepeats'
  <2> SUFFICES ASSUME NEW u \in Tickets, NEW i \in DOMAIN audit'[u], NEW j \in DOMAIN audit'[u],
                      audit'[u][i].by = audit'[u][j].by, audit'[u][i].by \in Workers
               PROVE  i = j
    BY DEF NoWorkerRepeats
  <2>1. CASE u # t
    BY <1>6, <2>1 DEF NoWorkerRepeats
  <2>2. CASE u = t
    <3>1. s \in Workers => \A k \in DOMAIN audit[t] : audit[t][k].by # s
      BY <1>0, <1>5 DEF SettledBy
    <3> QED BY <1>0, <1>6, <2>2, <3>1 DEF NoWorkerRepeats
  <2> QED BY <2>1, <2>2
<1> QED BY <1>7, <1>8

LEMMA NextOnceInv ==
  TInv /\ BufferInv /\ OnceInv /\ NoWorkerRepeats /\ [Next]_vars => OnceInv' /\ NoWorkerRepeats'
<1> SUFFICES ASSUME TInv, BufferInv, OnceInv, NoWorkerRepeats, [Next]_vars
             PROVE  OnceInv' /\ NoWorkerRepeats'
  OBVIOUS
<1>0. /\ cur \in [Sessions -> Tickets \cup {NoTicket}]
      /\ batch \in [Sessions -> SUBSET Tickets]
  BY DEF TInv, TypeOK
<1>1. UNCHANGED audit => NoWorkerRepeats'
  BY DEF NoWorkerRepeats
<1>2. ASSUME NEW t \in Tickets, CreateTicket(t) PROVE OnceInv' /\ NoWorkerRepeats'
  BY <1>2, CreateOnce
<1>3. ASSUME NEW s \in Sessions, Commit(s) PROVE OnceInv' /\ NoWorkerRepeats'
  BY <1>3, CommitOnce
<1>4. ASSUME NEW w \in Workers, Poll(w) PROVE OnceInv' /\ NoWorkerRepeats'
  BY <1>1, <1>4, PollOnce DEF Poll, store
<1>5. ASSUME NEW w \in Workers, Begin(w) PROVE OnceInv' /\ NoWorkerRepeats'
  <2>1. /\ UNCHANGED <<status, audit>>
        /\ cur'[w] \in batch[w] \ batch'[w]
        /\ batch'[w] \subseteq batch[w]
        /\ \A o \in Sessions \ {w} : cur'[o] = cur[o] /\ batch'[o] = batch[o]
    BY <1>0, <1>5 DEF Begin, Open, store
  <2> QED BY <1>1, <2>1, FrameOnce
<1>6. ASSUME NEW r \in Requests, RequestFindsTicket(r) PROVE OnceInv' /\ NoWorkerRepeats'
  <2>1. /\ UNCHANGED <<status, audit, batch>>
        /\ status[cur'[r]] # "absent"
        /\ \A o \in Sessions \ {r} : cur'[o] = cur[o]
    BY <1>0, <1>6 DEF RequestFindsTicket, Open, store
  <2> QED BY <1>1, <2>1, FrameOnce
<1>7. CASE Unseen
  BY <1>1, <1>7, FrameOnce DEF Unseen, store
<1> QED BY <1>2, <1>3, <1>4, <1>5, <1>6, <1>7, StepKinds

(* A worker commits at most one run on a ticket, although polling claims    *)
(* nothing and a crashed worker polls again.                                *)
THEOREM WorkersNeverRepeat == Spec => []NoWorkerRepeats
<1> QED
  BY InitTInv, NextTInv, InitBufferInv, NextBufferInv, InitOnceInv, NextOnceInv, PTL
  DEF Spec


-----------------------------------------------------------------------------
(* The refinement of TicketLifecycle.                                       *)

LEMMA SettlersOfTrail == \A t \in Tickets : Settlers(t) = SettledBy(audit[t])
BY DEF Settlers, SettledBy

LEMMA LifecycleInit == Init => Lifecycle!Init
<1> SUFFICES ASSUME Init PROVE Lifecycle!Init
  OBVIOUS
<1>1. \A t \in Tickets : Settlers(t) = {}
  BY DEF Init, Settlers
<1> QED BY <1>1 DEF Init, Lifecycle!Init

LEMMA LifecycleStep ==
  ASSUME TInv, BufferInv, OnceInv, [Next]_vars
  PROVE  [Lifecycle!Next]_(Lifecycle!vars)
<1> DEFINE by == [t \in Tickets |-> SettledBy(audit[t])]
<1>0. [t \in Tickets |-> Settlers(t)] = by
  BY SettlersOfTrail
<1>a. [t \in Tickets |-> Settlers(t)]' = by'
  BY DEF Settlers, SettledBy
<1>1. CASE UNCHANGED <<status, audit>>
  BY <1>0, <1>1, <1>a DEF Lifecycle!vars
<1>2. ASSUME NEW t \in Tickets, NEW g \in EventGroup,
             audit' = [audit EXCEPT ![t] = Append(@, g)]
      PROVE  by' = [by EXCEPT ![t] = @ \cup ({g.by} \cap Workers)]
  <2>1. /\ SettledBy(audit'[t]) = SettledBy(audit[t]) \cup ({g.by} \cap Workers)
        /\ \A u \in Tickets \ {t} : SettledBy(audit'[u]) = SettledBy(audit[u])
    BY <1>2, AppendSettles
  <2> QED BY <2>1
<1>3. ASSUME NEW t \in Tickets, CreateTicket(t) PROVE Lifecycle!Next
  <2> DEFINE g == [by |-> Intake, evs |-> {"ticket_received"}]
  <2>1. /\ g \in EventGroup /\ {g.by} \cap Workers = {}
        /\ audit' = [audit EXCEPT ![t] = Append(@, g)]
    BY <1>3, IntakeAssumption DEF CreateTicket, EventGroup, EventTypes
  <2> HIDE DEF g
  <2>2. by' = by
    <3>1. by' = [by EXCEPT ![t] = @ \cup ({g.by} \cap Workers)]
      BY <1>2, <2>1
    <3> QED BY <2>1, <3>1
  <2>3. Lifecycle!Receive(t)
    BY <1>0, <1>3, <1>a, <2>2 DEF CreateTicket, Lifecycle!Receive
  <2> QED BY <2>3 DEF Lifecycle!Next
<1>4. ASSUME NEW s \in Sessions, Commit(s) PROVE Lifecycle!Next
  <2> DEFINE g == [by |-> s, evs |-> tx[s].evs]
  <2>t. PICK t \in Tickets : t = cur[s]
    BY <1>4, CommitAppends
  <2>1. /\ g \in EventGroup /\ g.by = s
        /\ audit' = [audit EXCEPT ![t] = Append(@, g)]
        /\ status' = [status EXCEPT ![t] = tx[s].status]
    BY <1>4, <2>t, CommitAppends
  <2>2. t # NoTicket /\ status[t] # "absent"
    BY <2>t, TicketsArePositive DEF OnceInv
  <2> HIDE DEF g
  <2>3. by' = [by EXCEPT ![t] = @ \cup ({s} \cap Workers)]
    BY <1>2, <2>1
  <2>4. CASE s \in Workers
    <3>1. s \notin by[t]
      BY <2>2, <2>t, <2>4 DEF OnceInv
    <3>2. {s} \cap Workers = {s}
      BY <2>4
    <3>3. tx[s].status \in {"routed", "failed"}
      BY <1>4, <2>4, CommitAppends DEF RoutedRun, FailedRun
    <3>4. by' = [by EXCEPT ![t] = @ \cup {s}]
      BY <2>3, <3>2
    <3> HIDE DEF by
    <3>5. Lifecycle!Settle(t, s)
      BY <1>0, <1>a, <2>1, <2>2, <3>1, <3>3, <3>4 DEF Lifecycle!Settle, Lifecycle!Outcomes
    <3> QED BY <2>4, <3>5 DEF Lifecycle!Next
  <2>5. CASE s \in Requests
    <3>1. {s} \cap Workers = {} /\ tx[s].status = "embedded"
      BY <1>4, <2>5, CommitAppends, SessionsAssumption
    <3>2. by' = by
      BY <2>3, <3>1
    <3> HIDE DEF by
    <3>3. Lifecycle!StoreTestEmbedding(t)
      BY <1>0, <1>a, <2>1, <2>2, <3>1, <3>2 DEF Lifecycle!StoreTestEmbedding
    <3> QED BY <3>3 DEF Lifecycle!Next
  <2> QED BY <2>4, <2>5
<1>5. ASSUME NEW w \in Workers, Poll(w) \/ Begin(w) PROVE UNCHANGED <<status, audit>>
  BY <1>5 DEF Poll, Begin, Open, store
<1>6. ASSUME NEW r \in Requests, RequestFindsTicket(r) PROVE UNCHANGED <<status, audit>>
  BY <1>6 DEF RequestFindsTicket, Open, store
<1>7. CASE Unseen
  BY <1>1, <1>7 DEF Unseen, store
<1> QED BY <1>1, <1>3, <1>4, <1>5, <1>6, <1>7, StepKinds

(* Every step of the pipeline, transactions, batches, crashes and all, is   *)
(* for a reader of the store a step of the life of a ticket, or no step.    *)
THEOREM PipelineImplementsLifecycle == Spec => ImplementsLifecycle
<1> DEFINE AllInv == TInv /\ BufferInv /\ OnceInv /\ NoWorkerRepeats
<1>1. Spec => []AllInv
  BY InitTInv, NextTInv, InitBufferInv, NextBufferInv, InitOnceInv, NextOnceInv, PTL
  DEF Spec
<1>2. AllInv /\ [Next]_vars => [Lifecycle!Next]_(Lifecycle!vars)
  BY LifecycleStep
<1> QED BY <1>1, <1>2, LifecycleInit, PTL DEF Spec, ImplementsLifecycle, Lifecycle!Spec


-----------------------------------------------------------------------------
(* With one worker, the ticket of a routed status has been settled by it.   *)

RoutedIsSettled == \A t \in Tickets : status[t] = "routed" => SettledBy(audit[t]) # {}

LEMMA NextRoutedIsSettled ==
  TInv /\ BufferInv /\ RoutedIsSettled /\ [Next]_vars => RoutedIsSettled'
<1> SUFFICES ASSUME TInv, BufferInv, RoutedIsSettled, [Next]_vars
             PROVE  RoutedIsSettled'
  OBVIOUS
<1>1. CASE UNCHANGED <<status, audit>>
  BY <1>1 DEF RoutedIsSettled
<1>2. ASSUME NEW t \in Tickets, NEW g \in EventGroup, NEW st,
             audit' = [audit EXCEPT ![t] = Append(@, g)],
             status' = [status EXCEPT ![t] = st],
             st = "routed" => g.by \in Workers
      PROVE  RoutedIsSettled'
  <2>1. /\ SettledBy(audit'[t]) = SettledBy(audit[t]) \cup ({g.by} \cap Workers)
        /\ \A u \in Tickets \ {t} : SettledBy(audit'[u]) = SettledBy(audit[u])
    BY <1>2, AppendSettles
  <2>2. status'[t] = st /\ \A u \in Tickets \ {t} : status'[u] = status[u]
    BY <1>2 DEF TInv, TypeOK
  <2> QED BY <1>2, <2>1, <2>2 DEF RoutedIsSettled
<1>3. ASSUME NEW t \in Tickets, CreateTicket(t) PROVE RoutedIsSettled'
  <2>1. [by |-> Intake, evs |-> {"ticket_received"}] \in EventGroup
    BY DEF EventGroup, EventTypes
  <2> QED BY <1>2, <1>3, <2>1 DEF CreateTicket
<1>4. ASSUME NEW s \in Sessions, Commit(s) PROVE RoutedIsSettled'
  <2>t. PICK t \in Tickets : t = cur[s]
    BY <1>4, CommitAppends
  <2>1. /\ [by |-> s, evs |-> tx[s].evs] \in EventGroup
        /\ audit' = [audit EXCEPT ![t] = Append(@, [by |-> s, evs |-> tx[s].evs])]
        /\ status' = [status EXCEPT ![t] = tx[s].status]
        /\ s \in Requests => tx[s].status = "embedded"
    BY <1>4, <2>t, CommitAppends
  <2> QED BY <1>2, <2>1
<1>5. ASSUME NEW w \in Workers, Poll(w) \/ Begin(w) PROVE UNCHANGED <<status, audit>>
  BY <1>5 DEF Poll, Begin, Open, store
<1>6. ASSUME NEW r \in Requests, RequestFindsTicket(r) PROVE UNCHANGED <<status, audit>>
  BY <1>6 DEF RequestFindsTicket, Open, store
<1>7. CASE Unseen
  BY <1>1, <1>7 DEF Unseen, store
<1> QED BY <1>1, <1>3, <1>4, <1>5, <1>6, <1>7, StepKinds

LEMMA RoutedStep ==
  ASSUME \A v, w \in Workers : v = w,
         TInv, BufferInv, OnceInv, RoutedIsSettled, [Next]_vars,
         NEW t \in Tickets, status[t] = "routed", status'[t] # "routed"
  PROVE  /\ status'[t] = "embedded"
         /\ \E r \in Requests : pc[r] = "commit" /\ pc'[r] = "done" /\ cur[r] = t
<1>1. ASSUME NEW u \in Tickets, CreateTicket(u) PROVE FALSE
  BY <1>1 DEF CreateTicket, TInv, TypeOK
<1>2. ASSUME NEW s \in Sessions, Commit(s)
      PROVE  /\ status'[t] = "embedded"
             /\ \E r \in Requests : pc[r] = "commit" /\ pc'[r] = "done" /\ cur[r] = t
  <2>1. /\ status' = [status EXCEPT ![cur[s]] = tx[s].status]
        /\ s \in Requests => tx[s].status = "embedded"
    BY <1>2, CommitAppends
  <2>2. cur[s] = t /\ status'[t] = tx[s].status
    BY <2>1 DEF TInv, TypeOK
  <2>3. PICK w \in SettledBy(audit[t]) : TRUE
    BY DEF RoutedIsSettled
  <2>4. w \in Workers /\ cur[w] # t
    BY DEF SettledBy, OnceInv
  <2>5. s \in Requests
    BY <2>2, <2>4
  <2>6. pc[s] = "commit" /\ pc'[s] = "done"
    BY <1>2, <2>5 DEF Commit, Goto, AfterCommit, TInv, TypeOK
  <2> QED BY <2>1, <2>2, <2>5, <2>6
<1>3. ASSUME NEW w \in Workers, Poll(w) \/ Begin(w) PROVE UNCHANGED status
  BY <1>3 DEF Poll, Begin, Open, store
<1>4. ASSUME NEW r \in Requests, RequestFindsTicket(r) PROVE UNCHANGED status
  BY <1>4 DEF RequestFindsTicket, Open, store
<1>5. CASE Unseen
  BY <1>5 DEF Unseen, store
<1> QED BY <1>1, <1>2, <1>3, <1>4, <1>5, StepKinds

(* When one worker runs, as docker-compose.yml starts it, only the commit   *)
(* of a test embedding takes a ticket out of routed, whatever crashes.      *)
THEOREM RoutedLeftByTestsOnly ==
  ASSUME \A v, w \in Workers : v = w
  PROVE  Spec => RoutedLeftOnlyByTestEmbedding
<1> DEFINE AllInv == TInv /\ BufferInv /\ OnceInv /\ NoWorkerRepeats /\ RoutedIsSettled
           Left == \A t \in Tickets : status[t] = "routed" /\ status'[t] # "routed" =>
                     /\ status'[t] = "embedded"
                     /\ \E r \in Requests : pc[r] = "commit" /\ pc'[r] = "done" /\ cur[r] = t
<1>1. Init => RoutedIsSettled
  BY DEF Init, RoutedIsSettled
<1>2. Spec => []AllInv
  BY <1>1, InitTInv, NextTInv, InitBufferInv, NextBufferInv, InitOnceInv, NextOnceInv,
     NextRoutedIsSettled, PTL DEF Spec
<1>3. AllInv /\ [Next]_vars => [Left]_vars
  BY RoutedStep
<1> QED BY <1>2, <1>3, PTL DEF Spec, RoutedLeftOnlyByTestEmbedding


-----------------------------------------------------------------------------
(* What a run has of the evidence for a routed ticket, by where it is: it   *)
(* goes past the embedding steps only with a row of its own or with the     *)
(* committed row that it found and leaves in place.  RoutedHasEvidence is   *)
(* kept because a request retires that row only in a transaction that       *)
(* commits another; so does a worker, when every embedding is of the        *)
(* ticket's text and none is dropped for being stale.                       *)

RunEvidence(p, b, rows) ==
  /\ "classification_completed" \in b.evs => b.decs = DecisionTypes
  /\ p = "lookup" => b.deact = {}
  /\ p = "mark" => b.emb
  /\ \/ p \in {"classify", "retrieve", "generate", "finish"}
     \/ p = "commit" /\ b.status = "routed"
     => b.emb \/ (b.deact = {} /\ rows # {})
  /\ Requests \subseteq SameText =>
       /\ p \notin {"stale", "drop"}
       /\ p # "store" => b.emb \/ b.deact = {}

TestEvidence(p, b) == p \in {"mark", "commit"} => b.emb

EvidenceInv ==
  /\ \A w \in Workers : InTransaction(w) => RunEvidence(pc[w], tx[w], active[cur[w]])
  /\ \A r \in Requests : InTransaction(r) => TestEvidence(pc[r], tx[r])

LEMMA InitEvidence == Init => EvidenceInv /\ RoutedHasEvidence
BY DEF Init, EvidenceInv, RoutedHasEvidence

(* A step of s keeps the evidence when the active rows stay, the other      *)
(* sessions too, and what s has fits the state it goes to.                  *)
LEMMA OwnEvidence ==
  ASSUME EvidenceInv, NEW s \in Sessions, active' = active,
         \A o \in Sessions \ {s} : pc'[o] = pc[o] /\ tx'[o] = tx[o] /\ cur'[o] = cur[o],
         s \in Workers /\ cur'[s] # NoTicket =>
           RunEvidence(pc'[s], tx'[s], active[cur'[s]]),
         s \in Requests /\ cur'[s] # NoTicket => TestEvidence(pc'[s], tx'[s])
  PROVE  EvidenceInv'
<1>1. ASSUME NEW w \in Workers, cur'[w] # NoTicket
      PROVE  RunEvidence(pc'[w], tx'[w], active[cur'[w]])
  BY <1>1 DEF EvidenceInv
<1>2. ASSUME NEW r \in Requests, cur'[r] # NoTicket
      PROVE  TestEvidence(pc'[r], tx'[r])
  BY <1>2 DEF EvidenceInv
<1> QED BY <1>1, <1>2 DEF EvidenceInv

(* The same for a step inside a transaction.                                *)
LEMMA InnerEvidence ==
  ASSUME TInv, EvidenceInv, NEW s \in Sessions, active' = active,
         NEW from \in TransactionStates, NEW to, NEW changed \in TxType,
         Goto(s, from, to), Writes(s, changed), cur' = cur,
         s \in Workers /\ RunEvidence(from, tx[s], active[cur[s]]) =>
           RunEvidence(to, changed, active[cur[s]]),
         s \in Requests /\ TestEvidence(from, tx[s]) => TestEvidence(to, changed)
  PROVE  EvidenceInv'
<1>1. pc[s] = from /\ cur[s] # NoTicket
  BY DEF Goto, TInv, TransactionInv
<1>2. /\ pc'[s] = to /\ tx'[s] = changed
      /\ \A o \in Sessions \ {s} : pc'[o] = pc[o] /\ tx'[o] = tx[o] /\ cur'[o] = cur[o]
  BY WritesOwnBuffer DEF Goto, TInv, TypeOK
<1>3. s \in Workers => RunEvidence(from, tx[s], active[cur[s]])
  BY <1>1 DEF EvidenceInv
<1>4. s \in Requests => TestEvidence(from, tx[s])
  BY <1>1 DEF EvidenceInv
<1> QED BY <1>2, <1>3, <1>4, OwnEvidence

(* Steps that write neither the row nor decisions, and retire rows at most  *)
(* when the insert comes next or the text is another.                       *)
LEMMA EarlyEvidence ==
  ASSUME TInv, EvidenceInv, NEW s \in Sessions, active' = active,
         NEW from \in TransactionStates \ {"store"},
         NEW to \in {"stale", "drop", "embed", "scan", "replace", "store", "handler"},
         NEW changed \in TxType, changed.evs = tx[s].evs, changed.decs = tx[s].decs,
         changed.emb = tx[s].emb,
         to = "store" \/ from = "drop" \/ changed.deact = tx[s].deact,
         s \in Workers /\ to \in {"stale", "drop"} =>
           from = "stale" \/ ~(Requests \subseteq SameText),
         Goto(s, from, to), Writes(s, changed), cur' = cur
  PROVE  EvidenceInv'
<1>1. s \in Workers /\ RunEvidence(from, tx[s], active[cur[s]]) =>
        RunEvidence(to, changed, active[cur[s]])
  BY DEF RunEvidence
<1>2. TestEvidence(to, changed)
  BY DEF TestEvidence
<1> QED BY <1>1, <1>2, InnerEvidence

LEMMA EmbeddingEvidence ==
  ASSUME TInv, EvidenceInv, NEW s \in Sessions
  PROVE  /\ Scan(s, "scan", "replace") => EvidenceInv'
         /\ Scan(s, "stale", "drop") => EvidenceInv'
         /\ Deactivate(s, "replace", "store") => EvidenceInv'
         /\ Deactivate(s, "drop", "embed") => EvidenceInv'
         /\ StoreEmbedding(s) => EvidenceInv'
         /\ MarkEmbedded(s) => EvidenceInv'
<1> DEFINE b == tx[s]
<1>0. /\ b \in TxType
      /\ {"scan", "replace", "stale", "drop", "store", "embed", "mark"} \subseteq TransactionStates
  BY DEF TInv, TypeOK, TransactionStates
<1>1. ASSUME NEW from \in {"scan", "stale"}, NEW to \in {"replace", "drop"}, Scan(s, from, to),
             to = "drop" => from = "stale"
      PROVE  EvidenceInv'
  <2>1. Writes(s, b)
    BY <1>1 DEF Scan, Writes, TInv, TypeOK
  <2>2. active' = active
    BY <1>1 DEF Scan, store
  <2> QED BY <1>0, <1>1, <2>1, <2>2, EarlyEvidence DEF Scan
<1>2. ASSUME NEW from \in {"replace", "drop"}, NEW to \in {"store", "embed"},
             Deactivate(s, from, to), to = "store" \/ from = "drop"
      PROVE  EvidenceInv'
  <2> DEFINE c == [b EXCEPT !.deact = @ \cup (want[s] \cap active[cur[s]])]
  <2>1. want[s] \cap active[cur[s]] \in SUBSET Sessions
    BY DEF TInv, TypeOK
  <2>2. c \in TxType
    BY <1>0, <2>1, RetireTyped
  <2>3. c.evs = b.evs /\ c.decs = b.decs /\ c.emb = b.emb
    BY <1>0 DEF TxType
  <2>4. Writes(s, c) /\ Goto(s, from, to) /\ cur' = cur /\ active' = active
    BY <1>2 DEF Deactivate, store
  <2> HIDE DEF c
  <2> QED BY <1>0, <1>2, <2>2, <2>3, <2>4, EarlyEvidence
<1>3. ASSUME StoreEmbedding(s) PROVE EvidenceInv'
  <2> DEFINE c == [b EXCEPT !.emb = TRUE]
  <2>1. c \in TxType /\ c.evs = b.evs /\ c.decs = b.decs
    BY <1>0 DEF TxType
  <2>2. c.emb
    BY <1>0 DEF TxType
  <2>3. Writes(s, c) /\ Goto(s, "store", "mark") /\ cur' = cur /\ active' = active
    BY <1>3 DEF StoreEmbedding, store
  <2> HIDE DEF c
  <2>4. RunEvidence("store", b, active[cur[s]]) => RunEvidence("mark", c, active[cur[s]])
    BY <2>1, <2>2 DEF RunEvidence
  <2>5. TestEvidence("mark", c)
    BY <2>2 DEF TestEvidence
  <2> QED BY <1>0, <2>1, <2>3, <2>4, <2>5, InnerEvidence
<1>4. ASSUME MarkEmbedded(s) PROVE EvidenceInv'
  <2> DEFINE c == [b EXCEPT !.status = "embedded", !.evs = @ \cup {"embedding_stored"}]
             to == IF s \in Workers THEN "classify" ELSE "commit"
  <2>1. /\ c \in TxType /\ c.evs = b.evs \cup {"embedding_stored"}
        /\ c.emb = b.emb /\ c.decs = b.decs /\ c.deact = b.deact
    BY <1>0 DEF TxType, Statuses, EventTypes
  <2>2. Writes(s, c) /\ Goto(s, "mark", to) /\ cur' = cur /\ active' = active
    BY <1>4 DEF MarkEmbedded, store
  <2> HIDE DEF c
  <2>3. s \in Workers /\ RunEvidence("mark", b, active[cur[s]]) =>
          RunEvidence(to, c, active[cur[s]])
    BY <2>1 DEF RunEvidence
  <2>4. s \in Requests /\ TestEvidence("mark", b) => TestEvidence(to, c)
    BY <2>1 DEF TestEvidence
  <2> QED BY <1>0, <2>1, <2>2, <2>3, <2>4, InnerEvidence
<1> QED BY <1>1, <1>2, <1>3, <1>4

LEMMA WorkerEvidence ==
  ASSUME TInv, EvidenceInv, NEW w \in Workers
  PROVE  /\ LookupEmbedding(w) => EvidenceInv'
         /\ EmbedSucceeds(w) => EvidenceInv'
         /\ EmbedFails(w) => EvidenceInv'
         /\ Classify(w) => EvidenceInv'
         /\ Retrieve(w) => EvidenceInv'
         /\ SuggestSucceeds(w) => EvidenceInv'
         /\ SuggestFails(w) => EvidenceInv'
         /\ FinishRouted(w) => EvidenceInv'
         /\ MarkFailed(w) => EvidenceInv'
<1> DEFINE b == tx[w]
           rows == active[cur[w]]
<1>0. /\ w \in Sessions /\ w \notin Requests /\ b \in TxType
      /\ {"lookup", "embed", "classify", "stale", "scan", "handler", "retrieve",
          "generate", "finish", "commit"} \subseteq TransactionStates
  BY SessionsAssumption DEF TInv, TypeOK, TransactionStates
<1>1. ASSUME NEW from \in {"lookup", "embed", "generate"},
             NEW to \in {"embed", "stale", "scan", "handler"},
             to = "stale" => ~(Requests \subseteq SameText),
             Goto(w, from, to), UNCHANGED <<active, tx, cur>>
      PROVE  EvidenceInv'
  <2>1. Writes(w, b)
    BY <1>1 DEF Writes, TInv, TypeOK
  <2> QED BY <1>0, <1>1, <2>1, EarlyEvidence
<1>2. ASSUME LookupEmbedding(w) PROVE EvidenceInv'
  <2>1. UNCHANGED <<active, tx, cur>> /\ Writes(w, b)
    BY <1>2 DEF LookupEmbedding, store, Writes, TInv, TypeOK
  <2>2. \/ Goto(w, "lookup", "embed")
        \/ /\ Goto(w, "lookup", "stale")
           /\ rows # {} /\ \A o \in rows : ~HasTextHash(o)
        \/ Goto(w, "lookup", "classify") /\ rows # {}
    BY <1>2 DEF LookupEmbedding, ActiveEmbeddings
  <2>3. rows # {} /\ (\A o \in rows : ~HasTextHash(o)) => ~(Requests \subseteq SameText)
    <3>1. cur[w] \in Tickets
      BY <1>0, <1>2 DEF LookupEmbedding, Goto, TInv, TypeOK, TransactionInv
    <3>2. rows \subseteq Sessions
      BY <3>1 DEF TInv, TypeOK
    <3> QED BY <3>2 DEF HasTextHash
  <2>4. rows # {} /\ RunEvidence("lookup", b, rows) => RunEvidence("classify", b, rows)
    BY DEF RunEvidence
  <2> QED BY <1>0, <1>1, <2>1, <2>2, <2>3, <2>4, InnerEvidence
<1>3. ASSUME EmbedSucceeds(w) PROVE EvidenceInv'
  BY <1>1, <1>3 DEF EmbedSucceeds, store
<1>4. ASSUME EmbedFails(w) PROVE EvidenceInv'
  BY <1>1, <1>4 DEF EmbedFails, store
<1>5. ASSUME SuggestFails(w) PROVE EvidenceInv'
  BY <1>1, <1>5 DEF SuggestFails, store
<1>6. ASSUME Classify(w) PROVE EvidenceInv'
  <2> DEFINE c == [b EXCEPT !.decs = DecisionTypes, !.status = "routing_pending",
                            !.evs = @ \cup {"classification_completed"}]
  <2>1. c \in TxType /\ c.decs = DecisionTypes /\ c.deact = b.deact /\ c.emb = b.emb
    BY <1>0 DEF TxType, Statuses, EventTypes
  <2>2. Writes(w, c) /\ Goto(w, "classify", "retrieve") /\ cur' = cur /\ active' = active
    BY <1>6 DEF Classify, store
  <2> HIDE DEF c
  <2>3. RunEvidence("classify", b, rows) => RunEvidence("retrieve", c, rows)
    BY <2>1 DEF RunEvidence
  <2> QED BY <1>0, <2>1, <2>2, <2>3, InnerEvidence
<1>7. ASSUME Retrieve(w) PROVE EvidenceInv'
  <2> DEFINE c == [b EXCEPT !.evs = @ \cup {"retrieval_completed"}]
  <2>1. /\ c \in TxType /\ c.evs = b.evs \cup {"retrieval_completed"}
        /\ c.decs = b.decs /\ c.deact = b.deact /\ c.emb = b.emb
    BY <1>0 DEF TxType, EventTypes
  <2>2. PICK to \in {"generate", "finish"} : Goto(w, "retrieve", to)
    BY <1>7 DEF Retrieve
  <2>3. Writes(w, c) /\ cur' = cur /\ active' = active
    BY <1>7 DEF Retrieve, store
  <2> HIDE DEF c
  <2>4. RunEvidence("retrieve", b, rows) => RunEvidence(to, c, rows)
    BY <2>1 DEF RunEvidence
  <2> QED BY <1>0, <2>1, <2>2, <2>3, <2>4, InnerEvidence
<1>8. ASSUME SuggestSucceeds(w) PROVE EvidenceInv'
  <2> DEFINE c == [b EXCEPT !.draft = TRUE, !.evs = @ \cup {"draft_suggestion_stored"}]
  <2>1. /\ c \in TxType /\ c.evs = b.evs \cup {"draft_suggestion_stored"}
        /\ c.decs = b.decs /\ c.deact = b.deact /\ c.emb = b.emb
    BY <1>0 DEF TxType, EventTypes
  <2>2. Writes(w, c) /\ Goto(w, "generate", "finish") /\ cur' = cur /\ active' = active
    BY <1>8 DEF SuggestSucceeds, StoreDraft, store
  <2> HIDE DEF c
  <2>3. RunEvidence("generate", b, rows) => RunEvidence("finish", c, rows)
    BY <2>1 DEF RunEvidence
  <2> QED BY <1>0, <2>1, <2>2, <2>3, InnerEvidence
<1>9. ASSUME FinishRouted(w) PROVE EvidenceInv'
  <2> DEFINE c == [b EXCEPT !.status = "routed", !.evs = @ \cup {"ai_processing_completed"}]
  <2>1. /\ c \in TxType /\ c.evs = b.evs \cup {"ai_processing_completed"}
        /\ c.decs = b.decs /\ c.deact = b.deact /\ c.emb = b.emb
    BY <1>0 DEF TxType, Statuses, EventTypes
  <2>2. Writes(w, c) /\ Goto(w, "finish", "commit") /\ cur' = cur /\ active' = active
    BY <1>9 DEF FinishRouted, store
  <2> HIDE DEF c
  <2>3. RunEvidence("finish", b, rows) => RunEvidence("commit", c, rows)
    BY <2>1 DEF RunEvidence
  <2> QED BY <1>0, <2>1, <2>2, <2>3, InnerEvidence
<1>10. ASSUME MarkFailed(w) PROVE EvidenceInv'
  <2> DEFINE c == [b EXCEPT !.status = "failed", !.evs = @ \cup {"ai_processing_failed"}]
  <2>1. /\ c \in TxType /\ c.evs = b.evs \cup {"ai_processing_failed"}
        /\ c.decs = b.decs /\ c.deact = b.deact /\ c.emb = b.emb /\ c.status = "failed"
    BY <1>0 DEF TxType, Statuses, EventTypes
  <2>2. Writes(w, c) /\ Goto(w, "handler", "commit") /\ cur' = cur /\ active' = active
    BY <1>10 DEF MarkFailed, store
  <2> HIDE DEF c
  <2>3. RunEvidence("handler", b, rows) => RunEvidence("commit", c, rows)
    BY <2>1 DEF RunEvidence
  <2> QED BY <1>0, <2>1, <2>2, <2>3, InnerEvidence
<1> QED BY <1>2, <1>3, <1>4, <1>5, <1>6, <1>7, <1>8, <1>9, <1>10

LEMMA RollbackEvidence ==
  ASSUME TInv, EvidenceInv, NEW s \in Sessions, Rollback(s)
  PROVE  EvidenceInv'
<1>1. /\ cur'[s] = NoTicket /\ active' = active
      /\ \A o \in Sessions \ {s} : pc'[o] = pc[o] /\ tx'[o] = tx[o] /\ cur'[o] = cur[o]
  BY DEF Rollback, Closed, Writes, store, TInv, TypeOK
<1> QED BY <1>1, OwnEvidence

LEMMA OuterEvidence ==
  ASSUME TInv, EvidenceInv
  PROVE  /\ \A t \in Tickets : CreateTicket(t) => EvidenceInv'
         /\ \A r \in Requests : RequestFindsNoTicket(r) => EvidenceInv'
         /\ \A r \in Requests : RequestFindsTicket(r) => EvidenceInv'
         /\ \A w \in Workers : Poll(w) => EvidenceInv'
         /\ \A w \in Workers : Begin(w) => EvidenceInv'
         /\ \A w \in Workers : Restart(w) => EvidenceInv'
<1>0. /\ tx \in [Sessions -> TxType]
      /\ cur \in [Sessions -> Tickets \cup {NoTicket}]
      /\ pc \in [Sessions -> WorkerStates \cup RequestStates]
      /\ \A s \in Sessions : pc[s] \notin TransactionStates => cur[s] = NoTicket
  BY DEF TInv, TypeOK, TransactionInv
<1>1. ASSUME NEW s \in Sessions, NEW from \in {"start", "idle", "down"}, NEW to,
             Goto(s, from, to), UNCHANGED <<active, cur, tx>>
      PROVE  EvidenceInv'
  BY <1>0, <1>1, OwnEvidence DEF Goto, TransactionStates
<1>2. ASSUME NEW t \in Tickets, CreateTicket(t) PROVE EvidenceInv'
  BY <1>2 DEF CreateTicket, EvidenceInv
<1>3. ASSUME NEW r \in Requests, RequestFindsNoTicket(r) PROVE EvidenceInv'
  BY <1>1, <1>3 DEF RequestFindsNoTicket, store
<1>4. ASSUME NEW w \in Workers, Poll(w) PROVE EvidenceInv'
  BY <1>1, <1>4 DEF Poll, store
<1>5. ASSUME NEW w \in Workers, Restart(w) PROVE EvidenceInv'
  BY <1>1, <1>5 DEF Restart, store
<1>6. ASSUME NEW r \in Requests, RequestFindsTicket(r) PROVE EvidenceInv'
  <2>1. /\ pc'[r] = "scan" /\ active' = active
        /\ \A o \in Sessions \ {r} : pc'[o] = pc[o] /\ tx'[o] = tx[o] /\ cur'[o] = cur[o]
    BY <1>0, <1>6 DEF RequestFindsTicket, Goto, Open, Writes, store
  <2>2. TestEvidence("scan", tx'[r])
    BY DEF TestEvidence
  <2> QED BY <2>1, <2>2, OwnEvidence, SessionsAssumption
<1>7. ASSUME NEW w \in Workers, Begin(w) PROVE EvidenceInv'
  <2> DEFINE first == [NoWrites EXCEPT !.evs = {"ai_processing_started"}]
  <2>1. /\ pc'[w] = "lookup" /\ tx'[w] = first /\ active' = active
        /\ \A o \in Sessions \ {w} : pc'[o] = pc[o] /\ tx'[o] = tx[o] /\ cur'[o] = cur[o]
    BY <1>0, <1>7 DEF Begin, Goto, Open, Writes, store
  <2>2. \A rows : RunEvidence("lookup", first, rows)
    BY DEF RunEvidence, NoWrites
  <2> HIDE DEF first
  <2> QED BY <2>1, <2>2, OwnEvidence, SessionsAssumption
<1> QED BY <1>2, <1>3, <1>4, <1>5, <1>6, <1>7

(* A commit that routes its ticket leaves it with an active row and the     *)
(* decisions of its run.  Any other commit leaves an active row where there *)
(* was one, at least when another worker has a run under way.               *)
LEMMA CommitEvidence ==
  ASSUME (\A v, w \in Workers : v = w) \/ Requests \subseteq SameText,
         TInv, BufferInv, EvidenceInv, RoutedHasEvidence, NEW s \in Sessions, Commit(s)
  PROVE  EvidenceInv' /\ RoutedHasEvidence'
<1>t. PICK t \in Tickets : t = cur[s]
  BY CommitAppends
<1> DEFINE b == tx[s]
           left == (active[t] \ b.deact) \cup (IF b.emb THEN {s} ELSE {})
<1>0. /\ pc[s] = "commit" /\ cur[s] = t /\ t # NoTicket /\ b \in TxType
      /\ s \in Workers => RunEvidence("commit", b, active[t])
      /\ s \in Requests => TestEvidence("commit", b)
  BY <1>t, TicketsArePositive DEF Commit, Goto, EvidenceInv, TInv, TypeOK
<1>1. /\ cur'[s] = NoTicket
      /\ \A o \in Sessions \ {s} : pc'[o] = pc[o] /\ tx'[o] = tx[o] /\ cur'[o] = cur[o]
  BY DEF Commit, Goto, Closed, Writes, TInv, TypeOK
<1>2. /\ active'[t] = left /\ status'[t] = b.status
      /\ decisions'[t] = decisions[t] \cup ({s} \X b.decs)
      /\ \A u \in Tickets \ {t} :
           active'[u] = active[u] /\ status'[u] = status[u] /\ decisions'[u] = decisions[u]
  BY <1>t DEF Commit, TInv, TypeOK
<1>3. \/ \A w \in Workers : w = s
      \/ active[t] # {} => left # {}
  <2>1. s \in Requests => b.emb
    BY <1>0 DEF TestEvidence
  <2>2. s \in Workers /\ Requests \subseteq SameText => b.emb \/ b.deact = {}
    BY <1>0 DEF RunEvidence
  <2> QED BY <2>1, <2>2
<1>4. b.status = "routed" => s \in Workers /\ left # {} /\ b.decs = DecisionTypes
  <2> SUFFICES ASSUME b.status = "routed"
               PROVE  s \in Workers /\ left # {} /\ b.decs = DecisionTypes
    OBVIOUS
  <2>1. s \in Workers /\ "classification_completed" \in b.evs
    BY CommitAppends DEF RoutedRun, FailedRun
  <2>2. b.decs = DecisionTypes /\ (b.emb \/ (b.deact = {} /\ active[t] # {}))
    BY <1>0, <2>1 DEF RunEvidence
  <2> QED BY <2>1, <2>2
<1> HIDE DEF b, left
<1>5. ASSUME NEW w \in Workers, cur'[w] # NoTicket
      PROVE  RunEvidence(pc'[w], tx'[w], active'[cur'[w]])
  <2>1. w # s
    BY <1>1, <1>5
  <2>2. /\ RunEvidence(pc[w], tx[w], active[cur[w]])
        /\ pc'[w] = pc[w] /\ tx'[w] = tx[w] /\ cur'[w] = cur[w]
    BY <1>1, <1>5, <2>1 DEF EvidenceInv
  <2>3. active[cur[w]] # {} => active'[cur[w]] # {}
    BY <1>2, <1>3, <1>5, <2>1, <2>2 DEF TInv, TypeOK
  <2>4. RunEvidence(pc[w], tx[w], active'[cur[w]])
    BY <2>2, <2>3 DEF RunEvidence
  <2> QED BY <2>2, <2>4
<1>6. ASSUME NEW r \in Requests, cur'[r] # NoTicket
      PROVE  TestEvidence(pc'[r], tx'[r])
  BY <1>1, <1>6 DEF EvidenceInv
<1>7. ASSUME NEW u \in Tickets, status'[u] = "routed"
      PROVE  active'[u] # {} /\ \E w \in Workers : {w} \X DecisionTypes \subseteq decisions'[u]
  BY <1>2, <1>4, <1>7 DEF RoutedHasEvidence
<1> QED BY <1>5, <1>6, <1>7 DEF EvidenceInv, RoutedHasEvidence

(* Between commits no ticket becomes routed and no evidence is lost.        *)
LEMMA KeptEvidence ==
  ASSUME TInv, RoutedHasEvidence, [Next]_vars, \A s \in Sessions : ~Commit(s)
  PROVE  RoutedHasEvidence'
<1>1. ASSUME NEW t \in Tickets, CreateTicket(t) PROVE RoutedHasEvidence'
  BY <1>1 DEF CreateTicket, RoutedHasEvidence, TInv, TypeOK
<1>2. ASSUME NEW w \in Workers, Poll(w) \/ Begin(w) PROVE UNCHANGED store
  BY <1>2 DEF Poll, Begin, Open
<1>3. ASSUME NEW r \in Requests, RequestFindsTicket(r) PROVE UNCHANGED store
  BY <1>3 DEF RequestFindsTicket, Open
<1>4. CASE UNCHANGED store
  BY <1>4 DEF store, RoutedHasEvidence
<1> QED BY <1>1, <1>2, <1>3, <1>4, StepKinds DEF Unseen

LEMMA NextEvidence ==
  ASSUME (\A v, w \in Workers : v = w) \/ Requests \subseteq SameText
  PROVE  TInv /\ BufferInv /\ EvidenceInv /\ RoutedHasEvidence /\ [Next]_vars
         => EvidenceInv' /\ RoutedHasEvidence'
<1> SUFFICES ASSUME TInv, BufferInv, EvidenceInv, RoutedHasEvidence, [Next]_vars,
                    \A s \in Sessions : ~Commit(s)
             PROVE  EvidenceInv'
  BY CommitEvidence, KeptEvidence
<1>1. ASSUME NEW t \in Tickets, CreateTicket(t) PROVE EvidenceInv'
  BY <1>1, OuterEvidence
<1>2. ASSUME NEW s \in Sessions, EmbeddingStep(s) PROVE EvidenceInv'
  BY <1>2, EmbeddingEvidence, RollbackEvidence DEF EmbeddingStep, Refuse
<1>3. ASSUME NEW w \in Workers, WorkerStep(w) PROVE EvidenceInv'
  BY <1>2, <1>3, OuterEvidence, EmbeddingEvidence, WorkerEvidence DEF WorkerStep
<1>4. ASSUME NEW r \in Requests, RequestStep(r) PROVE EvidenceInv'
  BY <1>2, <1>4, OuterEvidence DEF RequestStep
<1>5. ASSUME NEW s \in Sessions, Fault(s) PROVE EvidenceInv'
  BY <1>5, RollbackEvidence DEF Fault
<1>6. CASE UNCHANGED vars
  BY <1>6 DEF vars, EvidenceInv
<1> QED BY <1>1, <1>3, <1>4, <1>5, <1>6 DEF Next

(* A routed ticket has an active embedding and a full set of decisions by   *)
(* one run, wherever processes die, when one worker runs, or when the test  *)
(* embeddings of POST /tickets/{id}/embeddings/test are of the ticket's     *)
(* text.                                                                    *)
THEOREM RoutedTicketsHaveEvidence ==
  ASSUME (\A v, w \in Workers : v = w) \/ Requests \subseteq SameText
  PROVE  Spec => []RoutedHasEvidence
<1> DEFINE AllInv == TInv /\ BufferInv /\ EvidenceInv /\ RoutedHasEvidence
<1>1. Init => AllInv
  BY InitTInv, InitBufferInv, InitEvidence
<1>2. AllInv /\ [Next]_vars => AllInv'
  BY NextTInv, NextBufferInv, NextEvidence
<1> QED BY <1>1, <1>2, PTL DEF Spec

=============================================================================
