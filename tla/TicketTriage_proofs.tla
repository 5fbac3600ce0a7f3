------------------------ MODULE TicketTriage_proofs ------------------------
(***************************************************************************)
(* Proofs about TicketTriage, for any number of tickets, workers and       *)
(* requests and any settings: its types, the embeddings of a ticket, the   *)
(* lock on the ticket row and the order of all locks.                      *)
(***************************************************************************)
EXTENDS TicketTriage, TLAPS

TransactionStates ==
  {"lookup", "stale", "drop", "embed", "scan", "replace", "store", "mark",
   "classify", "retrieve", "generate", "finish", "handler", "commit"}

(* A session has a ticket exactly in the states of a transaction, and when  *)
(* it comes to its commit it has decided the ticket's status.               *)
TransactionInv ==
  \A s \in Sessions :
    /\ InTransaction(s) <=> pc[s] \in TransactionStates
    /\ pc[s] = "commit" => tx[s].status # "none"

TInv == TypeOK /\ TransactionInv

USE DEF Sessions, NoTicket, Intake, InTransaction

-----------------------------------------------------------------------------
LEMMA TicketsArePositive == Tickets \subseteq Nat \ {0}
BY NumTicketsAssumption DEF Tickets

LEMMA NoWritesType == NoWrites \in TxType
BY DEF NoWrites, TxType

(* A write replaces the session's own buffer and no other.                  *)
LEMMA WritesOwnBuffer ==
  ASSUME tx \in [Sessions -> TxType],
         NEW s \in Sessions, NEW changed \in TxType, Writes(s, changed)
  PROVE  /\ tx' \in [Sessions -> TxType]
         /\ tx'[s] = changed
         /\ \A o \in Sessions \ {s} : tx'[o] = tx[o]
BY DEF Writes

LEMMA InitTInv == Init => TInv
<1> SUFFICES ASSUME Init PROVE TInv
  OBVIOUS
<1>1. audit \in [Tickets -> Seq(EventGroup)]
  <2>1. <<>> \in Seq(EventGroup)
    OBVIOUS
  <2> QED BY <2>1 DEF Init
<1>2. tx \in [Sessions -> TxType]
  BY NoWritesType DEF Init
<1>3. pc \in [Sessions -> WorkerStates \cup RequestStates]
  BY DEF Init, WorkerStates, RequestStates
<1>4. \A w \in Workers : pc[w] \in WorkerStates
  BY DEF Init, WorkerStates
<1>5. \A r \in Requests : pc[r] \in RequestStates
  BY SessionsAssumption DEF Init, RequestStates
<1>6. faults \in 0..MaxFaults
  BY SettingsAssumption DEF Init
<1>7. TransactionInv
  BY DEF Init, TransactionInv, TransactionStates
<1> QED BY <1>1, <1>2, <1>3, <1>4, <1>5, <1>6, <1>7 DEF Init, TInv, TypeOK

(* A step inside a transaction keeps the typing when what it writes is      *)
(* typed and the state it goes to is one of the session's own.              *)
LEMMA InnerStepTInv ==
  ASSUME TInv, NEW s \in Sessions, NEW changed \in TxType,
         NEW from \in TransactionStates, NEW to \in TransactionStates,
         s \in Workers => to \in WorkerStates,
         s \in Requests => to \in RequestStates,
         to = "commit" => changed.status # "none",
         Goto(s, from, to), Writes(s, changed),
         want' \in [Sessions -> SUBSET Sessions],
         UNCHANGED <<store, cur, batch, faults>>
  PROVE  TInv'
<1> USE DEF TInv, TypeOK, store
<1>1. /\ tx' \in [Sessions -> TxType]
      /\ tx'[s] = changed
      /\ \A o \in Sessions \ {s} : tx'[o] = tx[o]
  BY WritesOwnBuffer
<1>2. pc' = [pc EXCEPT ![s] = to] /\ pc[s] = from
  BY DEF Goto
<1>3. pc' \in [Sessions -> WorkerStates \cup RequestStates]
  BY <1>2
<1>4. \A w \in Workers : pc'[w] \in WorkerStates
  BY <1>2
<1>5. \A r \in Requests : pc'[r] \in RequestStates
  BY <1>2
<1>6. TransactionInv'
  <2> SUFFICES ASSUME NEW o \in Sessions
               PROVE /\ cur'[o] # NoTicket <=> pc'[o] \in TransactionStates
                     /\ pc'[o] = "commit" => tx'[o].status # "none"
    BY DEF TransactionInv
  <2>1. CASE o = s
    BY <1>1, <1>2, <2>1 DEF TransactionInv
  <2>2. CASE o # s
    BY <1>1, <1>2, <2>2 DEF TransactionInv
  <2> QED BY <2>1, <2>2
<1> QED BY <1>1, <1>3, <1>4, <1>5, <1>6

(* Buffers stay typed when the writes of one statement are added.           *)
LEMMA RetireTyped ==
  ASSUME NEW b \in TxType, NEW rows \in SUBSET Sessions
  PROVE  [b EXCEPT !.deact = @ \cup rows] \in TxType
BY DEF TxType

LEMMA InsertTyped ==
  ASSUME NEW b \in TxType
  PROVE  [b EXCEPT !.emb = TRUE] \in TxType
BY DEF TxType

LEMMA AppendTyped ==
  ASSUME NEW b \in TxType, NEW e \in EventTypes
  PROVE  [b EXCEPT !.evs = @ \cup {e}] \in TxType
BY DEF TxType

LEMMA MarkTyped ==
  ASSUME NEW b \in TxType, NEW st \in Statuses, NEW e \in EventTypes
  PROVE  LET c == [b EXCEPT !.status = st, !.evs = @ \cup {e}] IN
         c \in TxType /\ c.status = st
BY DEF TxType

LEMMA DecideTyped ==
  ASSUME NEW b \in TxType, NEW st \in Statuses, NEW e \in EventTypes
  PROVE  [b EXCEPT !.decs = DecisionTypes, !.status = st, !.evs = @ \cup {e}] \in TxType
BY DEF TxType

LEMMA DraftTyped ==
  ASSUME NEW b \in TxType, NEW e \in EventTypes
  PROVE  [b EXCEPT !.draft = TRUE, !.evs = @ \cup {e}] \in TxType
BY DEF TxType

LEMMA InnerTInv ==
  ASSUME TInv, NEW s \in Sessions
  PROVE  /\ Scan(s, "scan", "replace") => TInv'
         /\ s \in Workers /\ Scan(s, "stale", "drop") => TInv'
         /\ Deactivate(s, "replace", "store") => TInv'
         /\ s \in Workers /\ Deactivate(s, "drop", "embed") => TInv'
         /\ StoreEmbedding(s) => TInv'
         /\ MarkEmbedded(s) => TInv'
<1> USE DEF TInv, TypeOK, store
<1> DEFINE b == tx[s]
<1>0. b \in TxType
  OBVIOUS
<1>1. /\ "replace" \in TransactionStates /\ "drop" \in TransactionStates
      /\ "store" \in TransactionStates /\ "embed" \in TransactionStates
      /\ "scan" \in TransactionStates /\ "stale" \in TransactionStates
      /\ "mark" \in TransactionStates /\ "classify" \in TransactionStates
      /\ "commit" \in TransactionStates
  BY DEF TransactionStates
<1>2. /\ "replace" \in WorkerStates \cap RequestStates
      /\ "store" \in WorkerStates \cap RequestStates
      /\ "mark" \in WorkerStates \cap RequestStates
      /\ "commit" \in WorkerStates \cap RequestStates
      /\ "drop" \in WorkerStates /\ "embed" \in WorkerStates
      /\ "classify" \in WorkerStates
  BY DEF WorkerStates, RequestStates
<1>3. s \in Workers => s \notin Requests
  BY SessionsAssumption
<1>4. cur[s] \in Tickets => active[cur[s]] \subseteq Sessions
  OBVIOUS
<1>5. pc[s] \in TransactionStates => cur[s] \in Tickets
  BY DEF TransactionInv
<1>6. ASSUME NEW from \in TransactionStates, NEW to \in TransactionStates,
             s \in Workers => to \in WorkerStates,
             s \in Requests => to \in RequestStates, to # "commit",
             Scan(s, from, to)
      PROVE  TInv'
  <2>1. Writes(s, b)
    BY <1>6 DEF Scan, Writes
  <2>2. want' \in [Sessions -> SUBSET Sessions]
    BY <1>4, <1>5, <1>6 DEF Scan, Goto
  <2> QED BY <1>0, <1>6, <2>1, <2>2, InnerStepTInv DEF Scan
<1>7. ASSUME NEW from \in TransactionStates, NEW to \in TransactionStates,
             s \in Workers => to \in WorkerStates,
             s \in Requests => to \in RequestStates, to # "commit",
             Deactivate(s, from, to)
      PROVE  TInv'
  <2>1. [b EXCEPT !.deact = @ \cup (want[s] \cap active[cur[s]])] \in TxType
    BY <1>0, RetireTyped
  <2>2. want' \in [Sessions -> SUBSET Sessions]
    BY <1>7 DEF Deactivate
  <2> QED BY <1>7, <2>1, <2>2, InnerStepTInv DEF Deactivate
<1>8. ASSUME StoreEmbedding(s) PROVE TInv'
  <2>1. [b EXCEPT !.emb = TRUE] \in TxType
    BY <1>0, InsertTyped
  <2> QED BY <1>1, <1>2, <1>8, <2>1, InnerStepTInv DEF StoreEmbedding
<1>9. ASSUME MarkEmbedded(s) PROVE TInv'
  <2>1. "embedded" \in Statuses /\ "embedding_stored" \in EventTypes
    BY DEF Statuses, EventTypes
  <2>2. LET c == [b EXCEPT !.status = "embedded", !.evs = @ \cup {"embedding_stored"}]
        IN  c \in TxType /\ c.status = "embedded"
    BY <1>0, <2>1, MarkTyped
  <2>3. CASE s \in Workers
    BY <1>1, <1>2, <1>3, <1>9, <2>1, <2>2, <2>3, InnerStepTInv DEF MarkEmbedded
  <2>4. CASE s \in Requests
    BY <1>1, <1>2, <1>3, <1>9, <2>1, <2>2, <2>4, InnerStepTInv DEF MarkEmbedded
  <2> QED BY <2>3, <2>4
<1> QED BY <1>1, <1>2, <1>3, <1>6, <1>7, <1>8, <1>9

LEMMA WorkerInnerTInv ==
  ASSUME TInv, NEW w \in Workers
  PROVE  /\ LookupEmbedding(w) => TInv'
         /\ EmbedSucceeds(w) => TInv'
         /\ EmbedFails(w) => TInv'
         /\ Classify(w) => TInv'
         /\ Retrieve(w) => TInv'
         /\ SuggestSucceeds(w) => TInv'
         /\ SuggestFails(w) => TInv'
         /\ FinishRouted(w) => TInv'
         /\ MarkFailed(w) => TInv'
<1> USE DEF TInv, TypeOK, store
<1> DEFINE b == tx[w]
<1>0. w \in Sessions /\ w \notin Requests /\ b \in TxType
  BY SessionsAssumption
<1>1. {"lookup", "embed", "classify", "stale", "scan", "handler", "retrieve",
       "generate", "finish", "commit"} \subseteq TransactionStates \cap WorkerStates
  BY DEF TransactionStates, WorkerStates
<1>2. /\ {"routing_pending", "routed", "failed"} \subseteq Statuses
      /\ {"classification_completed", "retrieval_completed", "draft_suggestion_stored",
          "ai_processing_completed", "ai_processing_failed"} \subseteq EventTypes
  BY DEF Statuses, EventTypes
<1>3. ASSUME NEW from \in TransactionStates, NEW to \in TransactionStates \cap WorkerStates,
             to # "commit", Goto(w, from, to),
             UNCHANGED <<store, cur, batch, want, tx, faults>>
      PROVE  TInv'
  <2>1. Writes(w, b)
    BY <1>3 DEF Writes
  <2> QED BY <1>0, <1>3, <2>1, InnerStepTInv
<1>4. ASSUME LookupEmbedding(w) PROVE TInv'
  BY <1>1, <1>3, <1>4 DEF LookupEmbedding
<1>5. ASSUME EmbedSucceeds(w) PROVE TInv'
  BY <1>1, <1>3, <1>5 DEF EmbedSucceeds
<1>6. ASSUME EmbedFails(w) PROVE TInv'
  BY <1>1, <1>3, <1>6 DEF EmbedFails
<1>7. ASSUME SuggestFails(w) PROVE TInv'
  BY <1>1, <1>3, <1>7 DEF SuggestFails
<1>8. ASSUME Classify(w) PROVE TInv'
  <2>1. [b EXCEPT !.decs = DecisionTypes, !.status = "routing_pending",
                  !.evs = @ \cup {"classification_completed"}] \in TxType
    BY <1>0, <1>2, DecideTyped
  <2> QED BY <1>0, <1>1, <1>8, <2>1, InnerStepTInv DEF Classify
<1>9. ASSUME Retrieve(w) PROVE TInv'
  <2>1. [b EXCEPT !.evs = @ \cup {"retrieval_completed"}] \in TxType
    BY <1>0, <1>2, AppendTyped
  <2> QED BY <1>0, <1>1, <1>9, <2>1, InnerStepTInv DEF Retrieve
<1>10. ASSUME SuggestSucceeds(w) PROVE TInv'
  <2>1. [b EXCEPT !.draft = TRUE, !.evs = @ \cup {"draft_suggestion_stored"}] \in TxType
    BY <1>0, <1>2, DraftTyped
  <2> QED BY <1>0, <1>1, <1>10, <2>1, InnerStepTInv DEF SuggestSucceeds, StoreDraft
<1>11. ASSUME FinishRouted(w) PROVE TInv'
  <2>1. LET c == [b EXCEPT !.status = "routed", !.evs = @ \cup {"ai_processing_completed"}]
        IN  c \in TxType /\ c.status = "routed"
    BY <1>0, <1>2, MarkTyped
  <2> QED BY <1>0, <1>1, <1>11, <2>1, InnerStepTInv DEF FinishRouted
<1>12. ASSUME MarkFailed(w) PROVE TInv'
  <2>1. LET c == [b EXCEPT !.status = "failed", !.evs = @ \cup {"ai_processing_failed"}]
        IN  c \in TxType /\ c.status = "failed"
    BY <1>0, <1>2, MarkTyped
  <2> QED BY <1>0, <1>1, <1>12, <2>1, InnerStepTInv DEF MarkFailed
<1> QED BY <1>4, <1>5, <1>6, <1>7, <1>8, <1>9, <1>10, <1>11, <1>12

(* Rolling back leaves the session without a ticket and without writes.     *)
LEMMA RollbackTInv ==
  ASSUME TInv, NEW s \in Sessions, Rollback(s), faults' \in 0..MaxFaults
  PROVE  TInv'
<1> USE DEF TInv, TypeOK, store, Rollback, Closed
<1>1. tx' \in [Sessions -> TxType]
  BY NoWritesType, WritesOwnBuffer
<1>2. /\ pc' \in [Sessions -> WorkerStates \cup RequestStates]
      /\ \A w \in Workers : pc'[w] \in WorkerStates
      /\ \A r \in Requests : pc'[r] \in RequestStates
  BY SessionsAssumption DEF WorkerStates, RequestStates
<1>3. TransactionInv'
  <2> SUFFICES ASSUME NEW o \in Sessions
               PROVE /\ cur'[o] # NoTicket <=> pc'[o] \in TransactionStates
                     /\ pc'[o] = "commit" => tx'[o].status # "none"
    BY DEF TransactionInv
  <2>1. CASE o = s
    BY <2>1 DEF TransactionStates
  <2>2. CASE o # s
    BY <2>2, NoWritesType, WritesOwnBuffer DEF TransactionInv
  <2> QED BY <2>1, <2>2
<1> QED BY <1>1, <1>2, <1>3

LEMMA CommitTInv ==
  ASSUME TInv, NEW s \in Sessions, Commit(s)
  PROVE  TInv'
<1> USE DEF TInv, TypeOK, store, Commit, Closed, Goto
<1> DEFINE t == cur[s]
<1>1. t \in Tickets /\ tx[s] \in TxType /\ tx[s].status \in Statuses
  BY DEF TransactionInv, TransactionStates, TxType
<1>2. tx' \in [Sessions -> TxType]
  BY NoWritesType, WritesOwnBuffer
<1>3. status' \in [Tickets -> Statuses \cup {"absent"}]
  BY <1>1
<1>4. active' \in [Tickets -> SUBSET Sessions]
  BY <1>1
<1>5. decisions' \in [Tickets -> SUBSET (Sessions \X DecisionTypes)]
  <2>1. {s} \X tx[s].decs \subseteq Sessions \X DecisionTypes
    BY <1>1 DEF TxType
  <2> QED BY <1>1, <2>1
<1>6. drafts' \in [Tickets -> SUBSET Sessions]
  BY <1>1
<1>7. audit' \in [Tickets -> Seq(EventGroup)]
  <2>1. [by |-> s, evs |-> tx[s].evs] \in EventGroup
    BY <1>1 DEF EventGroup, TxType
  <2> QED BY <1>1, <2>1
<1>8. /\ pc' \in [Sessions -> WorkerStates \cup RequestStates]
      /\ \A w \in Workers : pc'[w] \in WorkerStates
      /\ \A r \in Requests : pc'[r] \in RequestStates
  BY SessionsAssumption DEF WorkerStates, RequestStates, AfterCommit
<1>9. TransactionInv'
  <2> SUFFICES ASSUME NEW o \in Sessions
               PROVE /\ cur'[o] # NoTicket <=> pc'[o] \in TransactionStates
                     /\ pc'[o] = "commit" => tx'[o].status # "none"
    BY DEF TransactionInv
  <2>1. CASE o = s
    BY <2>1 DEF TransactionStates, AfterCommit
  <2>2. CASE o # s
    BY <2>2, NoWritesType, WritesOwnBuffer DEF TransactionInv
  <2> QED BY <2>1, <2>2
<1> QED BY <1>2, <1>3, <1>4, <1>5, <1>6, <1>7, <1>8, <1>9

(* A step between transactions, or one that begins a transaction.           *)
LEMMA OuterTInv ==
  ASSUME TInv
  PROVE  /\ \A t \in Tickets : CreateTicket(t) => TInv'
         /\ \A r \in Requests : RequestFindsNoTicket(r) => TInv'
         /\ \A r \in Requests : RequestFindsTicket(r) => TInv'
         /\ \A w \in Workers : Poll(w) => TInv'
         /\ \A w \in Workers : Begin(w) => TInv'
         /\ \A w \in Workers : Restart(w) => TInv'
<1> USE DEF TInv, TypeOK, store, Goto
<1>1. ASSUME NEW t \in Tickets, CreateTicket(t) PROVE TInv'
  <2>1. status' \in [Tickets -> Statuses \cup {"absent"}]
    BY <1>1 DEF CreateTicket, Statuses
  <2>2. audit' \in [Tickets -> Seq(EventGroup)]
    <3>1. [by |-> Intake, evs |-> {"ticket_received"}] \in EventGroup
      BY DEF EventGroup, EventTypes
    <3> QED BY <1>1, <3>1 DEF CreateTicket
  <2> QED BY <1>1, <2>1, <2>2 DEF CreateTicket, TransactionInv
<1>2. ASSUME NEW r \in Requests, RequestFindsNoTicket(r) PROVE TInv'
  BY <1>2, SessionsAssumption
  DEF RequestFindsNoTicket, TransactionInv, TransactionStates, WorkerStates, RequestStates
<1>3. ASSUME NEW r \in Requests, RequestFindsTicket(r) PROVE TInv'
  <2>1. Target[r] \in Tickets /\ Target[r] # NoTicket
    BY TargetAssumption, TicketsArePositive
  <2>2. tx' \in [Sessions -> TxType] /\ (\A o \in Sessions \ {r} : tx'[o] = tx[o])
    BY <1>3, NoWritesType, WritesOwnBuffer DEF RequestFindsTicket, Open
  <2>3. /\ pc' \in [Sessions -> WorkerStates \cup RequestStates]
        /\ \A w \in Workers : pc'[w] \in WorkerStates
        /\ \A q \in Requests : pc'[q] \in RequestStates
    BY <1>3, SessionsAssumption DEF RequestFindsTicket, WorkerStates, RequestStates
  <2>4. TransactionInv'
    BY <1>3, <2>1, <2>2 DEF RequestFindsTicket, Open, TransactionInv, TransactionStates
  <2> QED BY <1>3, <2>1, <2>2, <2>3, <2>4 DEF RequestFindsTicket, Open
<1>4. ASSUME NEW w \in Workers, Poll(w) PROVE TInv'
  BY <1>4, SessionsAssumption
  DEF Poll, ListPending, Pending, TransactionInv, TransactionStates, WorkerStates, RequestStates
<1>5. ASSUME NEW w \in Workers, Begin(w) PROVE TInv'
  <2> DEFINE first == [NoWrites EXCEPT !.evs = {"ai_processing_started"}]
  <2>1. PICK t \in batch[w] : Open(w, t, first)
    BY <1>5 DEF Begin
  <2>2. t \in Tickets /\ t # NoTicket
    BY TicketsArePositive
  <2>3. first \in TxType
    BY DEF NoWrites, TxType, EventTypes
  <2>4. tx' \in [Sessions -> TxType] /\ (\A o \in Sessions \ {w} : tx'[o] = tx[o])
    BY <2>1, <2>3, WritesOwnBuffer DEF Open
  <2>5. pc' = [pc EXCEPT ![w] = "lookup"] /\ pc[w] = "batch"
    BY <1>5 DEF Begin
  <2>6. batch' \in [Sessions -> SUBSET Tickets]
    BY <1>5 DEF Begin
  <2>7. TransactionInv'
    BY <2>1, <2>2, <2>4, <2>5 DEF Open, TransactionInv, TransactionStates
  <2> QED
    BY <2>1, <2>2, <2>4, <2>5, <2>6, <2>7, SessionsAssumption
    DEF Open, WorkerStates, RequestStates
<1>6. ASSUME NEW w \in Workers, Restart(w) PROVE TInv'
  BY <1>6, SessionsAssumption
  DEF Restart, TransactionInv, TransactionStates, WorkerStates, RequestStates
<1> QED BY <1>1, <1>2, <1>3, <1>4, <1>5, <1>6

LEMMA NextTInv == TInv /\ [Next]_vars => TInv'
<1> SUFFICES ASSUME TInv, [Next]_vars PROVE TInv'
  OBVIOUS
<1>1. ASSUME NEW t \in Tickets, CreateTicket(t) PROVE TInv'
  BY <1>1, OuterTInv
<1>2. ASSUME NEW s \in Sessions, EmbeddingStep(s) PROVE TInv'
  <2>1. CASE Refuse(s)
    BY <2>1, RollbackTInv DEF Refuse, TInv, TypeOK
  <2> QED BY <1>2, <2>1, InnerTInv, CommitTInv DEF EmbeddingStep
<1>3. ASSUME NEW w \in Workers, WorkerStep(w) PROVE TInv'
  BY <1>2, <1>3, OuterTInv, InnerTInv, WorkerInnerTInv DEF WorkerStep
<1>4. ASSUME NEW r \in Requests, RequestStep(r) PROVE TInv'
  BY <1>2, <1>4, OuterTInv DEF RequestStep
<1>5. ASSUME NEW s \in Sessions, Fault(s) PROVE TInv'
  <2>1. faults' \in 0..MaxFaults
    BY <1>5, SettingsAssumption DEF Fault, TInv, TypeOK
  <2> QED BY <1>5, <2>1, RollbackTInv DEF Fault
<1>6. CASE UNCHANGED vars
  BY <1>6 DEF vars, TInv, TypeOK, TransactionInv
<1> QED BY <1>1, <1>3, <1>4, <1>5, <1>6 DEF Next

(* Every state of the pipeline is typed, and a session has a ticket exactly *)
(* while it has a transaction.                                              *)
THEOREM TypeCorrect == Spec => []TypeOK
<1>1. TInv => TypeOK
  BY DEF TInv
<1> QED BY <1>1, InitTInv, NextTInv, PTL DEF Spec

-----------------------------------------------------------------------------
(* One active embedding.  OneActiveEmbedding alone is not inductive: what   *)
(* keeps a commit from adding a second active row is that its transaction   *)
(* is alone with the ticket's embeddings and has retired the committed one. *)

EInv == OneActiveEmbedding /\ EmbeddingWriterAlone

LEMMA InitEInv == Init => EInv
<1> SUFFICES ASSUME Init PROVE EInv
  OBVIOUS
<1>1. OneActiveEmbedding
  BY DEF Init, OneActiveEmbedding
<1>2. EmbeddingWriterAlone
  BY DEF Init, EmbeddingWriterAlone
<1> QED BY <1>1, <1>2 DEF EInv

(* A step that leaves the committed embeddings alone, and gives no session  *)
(* embedding writes it did not have on that ticket, keeps the invariant.    *)
LEMMA FrameEInv ==
  ASSUME EInv, active' = active,
         \A s \in Sessions :
           \/ cur'[s] = NoTicket
           \/ ~tx'[s].emb /\ tx'[s].deact = {}
           \/ cur'[s] = cur[s] /\ tx'[s].emb = tx[s].emb /\ tx'[s].deact = tx[s].deact
  PROVE  EInv'
<1>1. OneActiveEmbedding'
  BY DEF EInv, OneActiveEmbedding
<1>2. EmbeddingWriterAlone'
  <2> SUFFICES ASSUME NEW s \in Sessions, cur'[s] # NoTicket, tx'[s].emb
               PROVE  /\ active'[cur'[s]] \subseteq tx'[s].deact
                      /\ \A o \in Sessions \ {s} :
                           cur'[o] = cur'[s] => ~tx'[o].emb /\ tx'[o].deact = {}
    BY DEF EmbeddingWriterAlone, Rivals
  <2>1. cur[s] = cur'[s] /\ tx[s].emb /\ tx'[s].deact = tx[s].deact
    OBVIOUS
  <2>2. /\ active[cur[s]] \subseteq tx[s].deact
        /\ \A o \in Sessions \ {s} : cur[o] = cur[s] => ~tx[o].emb /\ tx[o].deact = {}
    BY <2>1 DEF EInv, EmbeddingWriterAlone, Rivals
  <2> QED BY <2>1, <2>2
<1> QED BY <1>1, <1>2 DEF EInv

LEMMA StoreEInv ==
  ASSUME TInv, EInv, NEW s \in Sessions, StoreEmbedding(s)
  PROVE  EInv'
<1> DEFINE t == cur[s]
<1>1. /\ tx[s] \in TxType
      /\ active' = active
      /\ cur' = cur
      /\ Writes(s, [tx[s] EXCEPT !.emb = TRUE])
  BY DEF StoreEmbedding, TInv, TypeOK, store
<1>2. /\ tx'[s].deact = tx[s].deact
      /\ \A o \in Sessions \ {s} : tx'[o] = tx[o]
  <2> DEFINE b == [tx[s] EXCEPT !.emb = TRUE]
  <2>1. b \in TxType /\ b.deact = tx[s].deact
    BY <1>1 DEF TxType
  <2>2. tx'[s] = b /\ \A o \in Sessions \ {s} : tx'[o] = tx[o]
    BY <1>1, <2>1, WritesOwnBuffer DEF TInv, TypeOK
  <2> QED BY <2>1, <2>2
<1>3. active[t] \subseteq tx[s].deact
  BY DEF StoreEmbedding, ActiveIndexTaken
<1>4. \A o \in Sessions \ {s} : cur[o] = t => ~tx[o].emb /\ tx[o].deact = {}
  BY DEF StoreEmbedding, ActiveIndexBusy, Rivals
<1>5. OneActiveEmbedding'
  BY <1>1 DEF EInv, OneActiveEmbedding
<1>6. EmbeddingWriterAlone'
  <2> SUFFICES ASSUME NEW p \in Sessions, cur'[p] # NoTicket, tx'[p].emb
               PROVE  /\ active'[cur'[p]] \subseteq tx'[p].deact
                      /\ \A o \in Sessions \ {p} :
                           cur'[o] = cur'[p] => ~tx'[o].emb /\ tx'[o].deact = {}
    BY DEF EmbeddingWriterAlone, Rivals
  <2>1. CASE p = s
    BY <1>1, <1>2, <1>3, <1>4, <2>1
  <2>2. CASE p # s
    <3>1. tx'[p] = tx[p] /\ cur[p] # NoTicket /\ tx[p].emb
      BY <1>1, <1>2, <2>2
    <3>2. cur[p] # t
      BY <1>4, <2>2, <3>1
    <3>3. /\ active[cur[p]] \subseteq tx[p].deact
          /\ \A o \in Sessions \ {p} : cur[o] = cur[p] => ~tx[o].emb /\ tx[o].deact = {}
      BY <3>1 DEF EInv, EmbeddingWriterAlone, Rivals
    <3> QED BY <1>1, <1>2, <3>1, <3>2, <3>3
  <2> QED BY <2>1, <2>2
<1> QED BY <1>5, <1>6 DEF EInv

(* While another transaction has its active row inserted, the rows that an  *)
(* UPDATE could still retire are ones it must wait for: it retires none.    *)
LEMMA DeactivateEInv ==
  ASSUME TInv, EInv, NEW s \in Sessions,
         ~EmbeddingRowsBusy(s), cur[s] # NoTicket,
         Writes(s, [tx[s] EXCEPT !.deact = @ \cup (want[s] \cap active[cur[s]])]),
         UNCHANGED <<store, cur>>
  PROVE  EInv'
<1> DEFINE t == cur[s]
           gone == want[s] \cap active[t]
<1>1. /\ tx[s] \in TxType
      /\ gone \in SUBSET Sessions
      /\ active' = active
      /\ cur' = cur
  BY DEF TInv, TypeOK, store
<1> DEFINE b == [tx[s] EXCEPT !.deact = @ \cup gone]
<1>2. b \in TxType /\ b.deact = tx[s].deact \cup gone /\ b.emb = tx[s].emb
  BY <1>1 DEF TxType
<1>3. /\ tx'[s].deact = tx[s].deact \cup gone
      /\ tx'[s].emb = tx[s].emb
      /\ \A o \in Sessions \ {s} : tx'[o] = tx[o]
  <2>1. tx'[s] = b /\ \A o \in Sessions \ {s} : tx'[o] = tx[o]
    BY <1>2, WritesOwnBuffer DEF TInv, TypeOK
  <2> QED BY <1>2, <2>1
<1>4. OneActiveEmbedding'
  BY <1>1 DEF EInv, OneActiveEmbedding
<1>5. EmbeddingWriterAlone'
  <2> SUFFICES ASSUME NEW p \in Sessions, cur'[p] # NoTicket, tx'[p].emb
               PROVE  /\ active'[cur'[p]] \subseteq tx'[p].deact
                      /\ \A o \in Sessions \ {p} :
                           cur'[o] = cur'[p] => ~tx'[o].emb /\ tx'[o].deact = {}
    BY DEF EmbeddingWriterAlone, Rivals
  <2>1. cur[p] # NoTicket /\ tx[p].emb
    BY <1>1, <1>3
  <2>2. /\ active[cur[p]] \subseteq tx[p].deact
        /\ \A o \in Sessions \ {p} : cur[o] = cur[p] => ~tx[o].emb /\ tx[o].deact = {}
    BY <2>1 DEF EInv, EmbeddingWriterAlone, Rivals
  <2>3. CASE p = s
    BY <1>1, <1>3, <2>2, <2>3
  <2>4. CASE p # s /\ cur[p] = t
    <3>1. tx[p].deact \cap want[s] = {}
      BY <2>4 DEF EmbeddingRowsBusy, Rivals
    <3>2. gone = {}
      BY <2>2, <2>4, <3>1
    <3> QED BY <1>1, <1>3, <2>2, <2>4, <3>2
  <2>5. CASE cur[p] # t
    BY <1>1, <1>3, <2>2, <2>5
  <2> QED BY <2>3, <2>4, <2>5
<1> QED BY <1>4, <1>5 DEF EInv

LEMMA CommitEInv ==
  ASSUME TInv, EInv, NEW s \in Sessions, Commit(s)
  PROVE  EInv'
<1> USE DEF Commit, Closed, Goto
<1> DEFINE t == cur[s]
<1>1. /\ t \in Tickets /\ t # NoTicket
      /\ active \in [Tickets -> SUBSET Sessions]
  BY TicketsArePositive DEF TInv, TypeOK, TransactionInv, TransactionStates
<1>2. /\ \A u \in Tickets \ {t} : active'[u] = active[u]
      /\ active'[t] = (active[t] \ tx[s].deact) \cup (IF tx[s].emb THEN {s} ELSE {})
  BY <1>1
<1>3. /\ \A o \in Sessions \ {s} : tx'[o] = tx[o] /\ cur'[o] = cur[o]
      /\ cur'[s] = NoTicket
  BY NoWritesType, WritesOwnBuffer DEF TInv, TypeOK
<1>4. tx[s].emb => active'[t] = {s}
  <2> SUFFICES ASSUME tx[s].emb PROVE active'[t] = {s}
    OBVIOUS
  <2>1. active[t] \subseteq tx[s].deact
    BY <1>1 DEF EInv, EmbeddingWriterAlone
  <2> QED BY <1>2, <2>1
<1>5. ~tx[s].emb => active'[t] \subseteq active[t]
  BY <1>2
<1>6. OneActiveEmbedding'
  <2> SUFFICES ASSUME NEW u \in Tickets, NEW a \in active'[u], NEW b \in active'[u]
               PROVE  a = b
    BY DEF OneActiveEmbedding
  <2>1. CASE u # t
    BY <1>2, <2>1 DEF EInv, OneActiveEmbedding
  <2>2. CASE u = t /\ tx[s].emb
    BY <1>4, <2>2
  <2>3. CASE u = t /\ ~tx[s].emb
    BY <1>5, <2>3 DEF EInv, OneActiveEmbedding
  <2> QED BY <2>1, <2>2, <2>3
<1>7. EmbeddingWriterAlone'
  <2> SUFFICES ASSUME NEW p \in Sessions, cur'[p] # NoTicket, tx'[p].emb
               PROVE  /\ active'[cur'[p]] \subseteq tx'[p].deact
                      /\ \A o \in Sessions \ {p} :
                           cur'[o] = cur'[p] => ~tx'[o].emb /\ tx'[o].deact = {}
    BY DEF EmbeddingWriterAlone, Rivals
  <2>1. p # s /\ tx'[p] = tx[p] /\ cur'[p] = cur[p] /\ tx[p].emb /\ cur[p] # NoTicket
    BY <1>3
  <2>2. /\ active[cur[p]] \subseteq tx[p].deact
        /\ \A o \in Sessions \ {p} : cur[o] = cur[p] => ~tx[o].emb /\ tx[o].deact = {}
    BY <2>1 DEF EInv, EmbeddingWriterAlone, Rivals
  <2>3. cur[p] \in Tickets
    BY <2>1 DEF TInv, TypeOK
  <2>4. active'[cur[p]] \subseteq tx[p].deact
    <3>1. CASE cur[p] = t
      BY <1>5, <2>1, <2>2, <3>1
    <3>2. CASE cur[p] # t
      BY <1>2, <2>2, <2>3, <3>2
    <3> QED BY <3>1, <3>2
  <2> QED BY <1>3, <2>1, <2>2, <2>4
<1> QED BY <1>6, <1>7 DEF EInv

(* Adding events or a draft to a buffer leaves what it says of embeddings   *)
(* as it was.                                                               *)
LEMMA OtherWritesKeepEmbeddings ==
  ASSUME NEW b \in TxType, NEW evs
  PROVE  /\ LET c == [b EXCEPT !.evs = evs]
            IN  c.emb = b.emb /\ c.deact = b.deact
         /\ LET c == [b EXCEPT !.draft = TRUE, !.evs = evs]
            IN  c.emb = b.emb /\ c.deact = b.deact
BY DEF TxType

(* What any other step does to the embeddings of a ticket: nothing.         *)
LEMMA WorkerFrameEInv ==
  ASSUME TInv, EInv, NEW w \in Workers,
         \/ Poll(w) \/ Begin(w) \/ LookupEmbedding(w) \/ EmbedSucceeds(w)
         \/ EmbedFails(w) \/ Classify(w) \/ Retrieve(w) \/ SuggestSucceeds(w)
         \/ SuggestFails(w) \/ FinishRouted(w) \/ MarkFailed(w) \/ Restart(w)
  PROVE  EInv'
<1> USE DEF store
<1>0. w \in Sessions /\ tx \in [Sessions -> TxType] /\ cur \in [Sessions -> Tickets \cup {NoTicket}]
  BY DEF TInv, TypeOK
<1>1. CASE UNCHANGED <<active, cur, tx>>
  BY <1>1, FrameEInv
<1>2. ASSUME NEW changed,
             tx' = [tx EXCEPT ![w] = changed],
             changed.emb = tx[w].emb, changed.deact = tx[w].deact,
             UNCHANGED <<active, cur>>
      PROVE  EInv'
  BY <1>0, <1>2, FrameEInv
<1>3. CASE Begin(w)
  <2> DEFINE first == [NoWrites EXCEPT !.evs = {"ai_processing_started"}]
  <2>1. PICK t \in batch[w] : Open(w, t, first)
    BY <1>3 DEF Begin
  <2>2. ~first.emb /\ first.deact = {}
    BY DEF NoWrites
  <2>3. \A o \in Sessions \ {w} : cur'[o] = cur[o] /\ tx'[o] = tx[o]
    BY <1>0, <2>1 DEF Open, Writes
  <2>4. tx'[w] = first /\ active' = active
    BY <1>0, <2>1 DEF Open, Writes
  <2> QED BY <2>2, <2>3, <2>4, FrameEInv
<1>4. CASE Classify(w)
  <2> DEFINE c == [tx[w] EXCEPT !.decs = DecisionTypes, !.status = "routing_pending",
                         !.evs = @ \cup {"classification_completed"}]
  <2>1. c.emb = tx[w].emb /\ c.deact = tx[w].deact
    BY <1>0 DEF TxType
  <2>2. tx' = [tx EXCEPT ![w] = c] /\ UNCHANGED <<active, cur>>
    BY <1>4 DEF Classify, Writes
  <2> QED BY <1>2, <2>1, <2>2
<1>5. CASE Retrieve(w)
  BY <1>0, <1>2, <1>5, OtherWritesKeepEmbeddings DEF Retrieve, Writes
<1>6. CASE SuggestSucceeds(w)
  BY <1>0, <1>2, <1>6, OtherWritesKeepEmbeddings DEF SuggestSucceeds, StoreDraft, Writes
<1>7. CASE FinishRouted(w)
  <2> DEFINE c == [tx[w] EXCEPT !.status = "routed", !.evs = @ \cup {"ai_processing_completed"}]
  <2>1. c.emb = tx[w].emb /\ c.deact = tx[w].deact
    BY <1>0 DEF TxType
  <2>2. tx' = [tx EXCEPT ![w] = c] /\ UNCHANGED <<active, cur>>
    BY <1>7 DEF FinishRouted, Writes
  <2> QED BY <1>2, <2>1, <2>2
<1>8. CASE MarkFailed(w)
  <2> DEFINE c == [tx[w] EXCEPT !.status = "failed", !.evs = @ \cup {"ai_processing_failed"}]
  <2>1. c.emb = tx[w].emb /\ c.deact = tx[w].deact
    BY <1>0 DEF TxType
  <2>2. tx' = [tx EXCEPT ![w] = c] /\ UNCHANGED <<active, cur>>
    BY <1>8 DEF MarkFailed, Writes
  <2> QED BY <1>2, <2>1, <2>2
<1>9. CASE Poll(w) \/ LookupEmbedding(w) \/ EmbedSucceeds(w) \/ EmbedFails(w)
             \/ SuggestFails(w) \/ Restart(w)
  BY <1>1, <1>9
  DEF Poll, LookupEmbedding, EmbedSucceeds, EmbedFails, SuggestFails, Restart
<1> QED BY <1>3, <1>4, <1>5, <1>6, <1>7, <1>8, <1>9

LEMMA RollbackEInv ==
  ASSUME TInv, EInv, NEW s \in Sessions, Rollback(s)
  PROVE  EInv'
<1>1. /\ tx \in [Sessions -> TxType]
      /\ cur \in [Sessions -> Tickets \cup {NoTicket}]
  BY DEF TInv, TypeOK
<1>2. /\ active' = active
      /\ cur'[s] = NoTicket
      /\ \A o \in Sessions \ {s} : cur'[o] = cur[o] /\ tx'[o] = tx[o]
  BY <1>1 DEF Rollback, Closed, Writes, store
<1> QED BY <1>2, FrameEInv

LEMMA EmbeddingStepEInv ==
  ASSUME TInv, EInv, NEW s \in Sessions, EmbeddingStep(s)
  PROVE  EInv'
<1> USE DEF store
<1>0. /\ tx \in [Sessions -> TxType]
      /\ \A o \in Sessions : pc[o] \in TransactionStates => cur[o] # NoTicket
  BY DEF TInv, TypeOK, TransactionInv
<1>1. CASE Scan(s, "scan", "replace")
  BY <1>1, FrameEInv DEF Scan
<1>2. CASE Deactivate(s, "replace", "store")
  BY <1>0, <1>2, DeactivateEInv DEF Deactivate, Goto, TransactionStates
<1>3. CASE MarkEmbedded(s)
  <2>1. /\ active' = active /\ cur' = cur
        /\ tx'[s].emb = tx[s].emb /\ tx'[s].deact = tx[s].deact
        /\ \A o \in Sessions \ {s} : tx'[o] = tx[o]
    BY <1>0, <1>3 DEF MarkEmbedded, Writes, TxType
  <2> QED BY <2>1, FrameEInv
<1>4. CASE Refuse(s)
  BY <1>4, RollbackEInv DEF Refuse
<1> QED BY <1>1, <1>2, <1>3, <1>4, StoreEInv, CommitEInv DEF EmbeddingStep

LEMMA NextEInv == TInv /\ EInv /\ [Next]_vars => EInv'
<1> SUFFICES ASSUME TInv, EInv, [Next]_vars PROVE EInv'
  OBVIOUS
<1> USE DEF store
<1>0. /\ tx \in [Sessions -> TxType]
      /\ cur \in [Sessions -> Tickets \cup {NoTicket}]
      /\ \A o \in Sessions : pc[o] \in TransactionStates => cur[o] # NoTicket
  BY DEF TInv, TypeOK, TransactionInv
<1>1. ASSUME NEW t \in Tickets, CreateTicket(t) PROVE EInv'
  BY <1>1, FrameEInv DEF CreateTicket
<1>2. ASSUME NEW w \in Workers, WorkerStep(w) PROVE EInv'
  <2>1. CASE Scan(w, "stale", "drop")
    BY <2>1, FrameEInv DEF Scan
  <2>2. CASE Deactivate(w, "drop", "embed")
    BY <1>0, <2>2, DeactivateEInv DEF Deactivate, Goto, TransactionStates
  <2>3. CASE EmbeddingStep(w)
    BY <2>3, EmbeddingStepEInv
  <2> QED BY <1>2, <2>1, <2>2, <2>3, WorkerFrameEInv DEF WorkerStep
<1>3. ASSUME NEW r \in Requests, RequestStep(r) PROVE EInv'
  <2>1. CASE RequestFindsNoTicket(r)
    BY <2>1, FrameEInv DEF RequestFindsNoTicket
  <2>2. CASE RequestFindsTicket(r)
    <3>1. /\ active' = active
          /\ tx'[r] = NoWrites
          /\ \A o \in Sessions \ {r} : cur'[o] = cur[o] /\ tx'[o] = tx[o]
      BY <1>0, <2>2 DEF RequestFindsTicket, Open, Writes
    <3>2. ~NoWrites.emb /\ NoWrites.deact = {}
      BY DEF NoWrites
    <3> QED BY <3>1, <3>2, FrameEInv
  <2> QED BY <1>3, <2>1, <2>2, EmbeddingStepEInv DEF RequestStep
<1>4. ASSUME NEW s \in Sessions, Fault(s) PROVE EInv'
  BY <1>4, RollbackEInv DEF Fault
<1>5. CASE UNCHANGED vars
  BY <1>5, FrameEInv DEF vars
<1> QED BY <1>1, <1>2, <1>3, <1>4, <1>5 DEF Next

(* However many workers and test-embedding requests replace the embedding   *)
(* of a ticket, and whoever dies meanwhile, at most one is active.          *)
THEOREM AtMostOneActive == Spec => []OneActiveEmbedding
<1>1. EInv => OneActiveEmbedding
  BY DEF EInv
<1> QED BY <1>1, InitTInv, NextTInv, InitEInv, NextEInv, PTL DEF Spec

(* A transaction that has inserted an active embedding is alone with the    *)
(* embeddings of its ticket.                                                *)
THEOREM WriterIsAlone == Spec => []EmbeddingWriterAlone
<1>1. EInv => EmbeddingWriterAlone
  BY DEF EInv
<1> QED BY <1>1, InitTInv, NextTInv, InitEInv, NextEInv, PTL DEF Spec

-----------------------------------------------------------------------------
(* The lock on the ticket row.  A session that has written the status holds *)
(* it alone, from classification to commit, and only its holder drafts.     *)

OwnRow(p, b) ==
  /\ b.status # "none" =>
       p \in {"classify", "retrieve", "generate", "finish", "handler", "commit"}
  /\ p \in {"retrieve", "generate", "finish"} => b.status # "none"
  /\ b.draft => b.status # "none"

RowInv ==
  \A s \in Sessions : InTransaction(s) =>
    /\ OwnRow(pc[s], tx[s])
    /\ tx[s].status # "none" => \A o \in Rivals(s) : tx[o].status = "none"
    /\ pc[s] = "generate" => drafts[cur[s]] = {}

LEMMA InitRowInv == Init => RowInv
BY DEF Init, RowInv

(* A step of s outside its commit leaves the committed drafts alone.  It    *)
(* keeps the invariant when s has given up its ticket, or holds no row lock *)
(* it did not hold, unless nobody else did.                                 *)
LEMMA StepRow ==
  ASSUME TInv, RowInv, NEW s \in Sessions, drafts' = drafts,
         \A o \in Sessions \ {s} : pc'[o] = pc[o] /\ tx'[o] = tx[o] /\ cur'[o] = cur[o],
         \/ cur'[s] = NoTicket
         \/ /\ OwnRow(pc'[s], tx'[s])
            /\ tx'[s].status = "none"
            /\ pc'[s] # "generate"
         \/ /\ cur'[s] = cur[s]
            /\ OwnRow(pc'[s], tx'[s])
            /\ tx[s].status # "none" \/ ~TicketRowBusy(s)
            /\ pc'[s] = "generate" => drafts[cur[s]] = {}
  PROVE  RowInv'
<1> SUFFICES ASSUME NEW p \in Sessions, cur'[p] # NoTicket
             PROVE  /\ OwnRow(pc'[p], tx'[p])
                    /\ tx'[p].status # "none" =>
                         \A o \in Sessions \ {p} : cur'[o] = cur'[p] => tx'[o].status = "none"
                    /\ pc'[p] = "generate" => drafts'[cur'[p]] = {}
  BY DEF RowInv, Rivals
<1>0. \A q \in Sessions : cur[q] # NoTicket =>
        /\ OwnRow(pc[q], tx[q])
        /\ tx[q].status # "none" =>
             \A o \in Sessions \ {q} : cur[o] = cur[q] => tx[o].status = "none"
        /\ pc[q] = "generate" => drafts[cur[q]] = {}
  BY DEF RowInv, Rivals
<1>1. ~TicketRowBusy(s) => \A o \in Sessions \ {s} : cur[o] = cur[s] => tx[o].status = "none"
  BY DEF TicketRowBusy, Rivals
<1>2. CASE p = s
  <2>1. CASE OwnRow(pc'[s], tx'[s]) /\ tx'[s].status = "none" /\ pc'[s] # "generate"
    BY <1>2, <2>1
  <2>2. CASE /\ cur'[s] = cur[s]
             /\ OwnRow(pc'[s], tx'[s])
             /\ tx[s].status # "none" \/ ~TicketRowBusy(s)
             /\ pc'[s] = "generate" => drafts[cur[s]] = {}
    <3>1. \A o \in Sessions \ {s} : cur[o] = cur[s] => tx[o].status = "none"
      BY <1>0, <1>1, <1>2, <2>2
    <3> QED BY <1>2, <2>2, <3>1
  <2> QED BY <1>2, <2>1, <2>2
<1>3. CASE p # s
  <2>1. /\ pc'[p] = pc[p] /\ tx'[p] = tx[p] /\ cur'[p] = cur[p]
        /\ OwnRow(pc[p], tx[p])
        /\ pc[p] = "generate" => drafts[cur[p]] = {}
    BY <1>0, <1>3
  <2>2. ASSUME tx[p].status # "none", NEW o \in Sessions \ {p}, cur'[o] = cur[p]
        PROVE  tx'[o].status = "none"
    <3>1. cur[o] = cur[p] => tx[o].status = "none"
      BY <1>0, <2>1, <2>2
    <3>2. CASE o # s
      BY <2>2, <3>1, <3>2
    <3>3. CASE o = s
      BY <1>1, <1>3, <2>1, <2>2, <3>1, <3>3
    <3> QED BY <3>2, <3>3
  <2> QED BY <2>1, <2>2
<1> QED BY <1>2, <1>3

(* The same for a step inside a transaction.                                *)
LEMMA InnerRow ==
  ASSUME TInv, RowInv, NEW s \in Sessions,
         NEW from \in TransactionStates, NEW to, NEW changed \in TxType,
         Goto(s, from, to), Writes(s, changed), cur' = cur, drafts' = drafts,
         OwnRow(from, tx[s]) => OwnRow(to, changed),
         tx[s].status # "none" \/ changed.status = "none" \/ ~TicketRowBusy(s),
         to = "generate" => drafts[cur[s]] = {} /\ tx[s].status # "none"
  PROVE  RowInv'
<1>1. pc[s] = from /\ cur[s] # NoTicket
  BY DEF Goto, TInv, TransactionInv
<1>2. /\ pc'[s] = to /\ tx'[s] = changed
      /\ \A o \in Sessions \ {s} : pc'[o] = pc[o] /\ tx'[o] = tx[o] /\ cur'[o] = cur[o]
  BY WritesOwnBuffer DEF Goto, TInv, TypeOK
<1>3. OwnRow(to, changed)
  BY <1>1 DEF RowInv
<1>4. to = "generate" => tx[s].status # "none"
  OBVIOUS
<1> QED BY <1>2, <1>3, <1>4, StepRow

(* Steps that leave the row lock as it is.                                  *)
LEMMA SilentRow ==
  ASSUME TInv, RowInv, NEW s \in Sessions,
         NEW from \in TransactionStates, NEW to \in TransactionStates,
         from \in {"retrieve", "generate"} \/ to \notin {"generate", "finish"},
         to \notin {"generate", "retrieve"},
         tx[s].status # "none" /\ OwnRow(from, tx[s]) =>
           to \in {"classify", "finish", "handler"},
         NEW changed \in TxType, changed.status = tx[s].status,
         changed.draft = tx[s].draft,
         Goto(s, from, to), Writes(s, changed), cur' = cur, drafts' = drafts
  PROVE  RowInv'
<1>1. OwnRow(from, tx[s]) => OwnRow(to, changed)
  BY DEF OwnRow
<1> QED BY <1>1, InnerRow

LEMMA EmbeddingRow ==
  ASSUME TInv, RowInv, NEW s \in Sessions
  PROVE  /\ Scan(s, "scan", "replace") => RowInv'
         /\ Scan(s, "stale", "drop") => RowInv'
         /\ Deactivate(s, "replace", "store") => RowInv'
         /\ Deactivate(s, "drop", "embed") => RowInv'
         /\ StoreEmbedding(s) => RowInv'
         /\ MarkEmbedded(s) => RowInv'
<1> USE DEF store
<1> DEFINE b == tx[s]
<1>0. /\ b \in TxType
      /\ {"scan", "replace", "stale", "drop", "store", "embed", "mark"} \subseteq TransactionStates
      /\ {"classify", "commit"} \subseteq TransactionStates
  BY DEF TInv, TypeOK, TransactionStates
<1>1. ASSUME NEW from \in {"scan", "stale"}, NEW to \in {"replace", "drop"}, Scan(s, from, to)
      PROVE  RowInv'
  <2>1. Writes(s, b) /\ Goto(s, from, to) /\ cur' = cur /\ drafts' = drafts
    BY <1>1 DEF Scan, Writes, TInv, TypeOK
  <2>2. ~(b.status # "none" /\ OwnRow(from, b))
    BY <1>1 DEF OwnRow
  <2> QED BY <1>0, <2>1, <2>2, SilentRow
<1>2. ASSUME NEW from \in {"replace", "drop"}, NEW to \in {"store", "embed"},
             Deactivate(s, from, to)
      PROVE  RowInv'
  <2> DEFINE c == [b EXCEPT !.deact = @ \cup (want[s] \cap active[cur[s]])]
  <2>1. want[s] \cap active[cur[s]] \in SUBSET Sessions
    BY DEF TInv, TypeOK
  <2>2. c \in TxType
    BY <1>0, <2>1, RetireTyped
  <2>3. c.status = b.status /\ c.draft = b.draft
    BY <1>0 DEF TxType
  <2>4. Writes(s, c) /\ Goto(s, from, to) /\ cur' = cur /\ drafts' = drafts
    BY <1>2 DEF Deactivate
  <2>5. ~(b.status # "none" /\ OwnRow(from, b))
    BY <1>2 DEF OwnRow
  <2> HIDE DEF c
  <2> QED BY <1>0, <2>2, <2>3, <2>4, <2>5, SilentRow
<1>3. ASSUME StoreEmbedding(s) PROVE RowInv'
  <2> DEFINE c == [b EXCEPT !.emb = TRUE]
  <2>1. c \in TxType /\ c.status = b.status /\ c.draft = b.draft
    BY <1>0 DEF TxType
  <2>2. Writes(s, c) /\ Goto(s, "store", "mark") /\ cur' = cur /\ drafts' = drafts
    BY <1>3 DEF StoreEmbedding
  <2>3. ~(b.status # "none" /\ OwnRow("store", b))
    BY DEF OwnRow
  <2> HIDE DEF c
  <2> QED BY <1>0, <2>1, <2>2, <2>3, SilentRow
<1>4. ASSUME MarkEmbedded(s) PROVE RowInv'
  <2> DEFINE c == [b EXCEPT !.status = "embedded", !.evs = @ \cup {"embedding_stored"}]
             to == IF s \in Workers THEN "classify" ELSE "commit"
  <2>1. c \in TxType /\ c.status = "embedded"
    BY <1>0 DEF TxType, Statuses, EventTypes
  <2>2. Writes(s, c) /\ Goto(s, "mark", to) /\ cur' = cur /\ drafts' = drafts
    BY <1>4 DEF MarkEmbedded
  <2>3. ~TicketRowBusy(s)
    BY <1>4 DEF MarkEmbedded
  <2>4. OwnRow(to, c)
    BY <2>1 DEF OwnRow
  <2> HIDE DEF c
  <2> QED BY <1>0, <2>1, <2>2, <2>3, <2>4, InnerRow
<1> QED BY <1>1, <1>2, <1>3, <1>4

LEMMA WorkerRow ==
  ASSUME TInv, RowInv, NEW w \in Workers
  PROVE  /\ LookupEmbedding(w) => RowInv'
         /\ EmbedSucceeds(w) => RowInv'
         /\ EmbedFails(w) => RowInv'
         /\ Classify(w) => RowInv'
         /\ Retrieve(w) => RowInv'
         /\ SuggestSucceeds(w) => RowInv'
         /\ SuggestFails(w) => RowInv'
         /\ FinishRouted(w) => RowInv'
         /\ MarkFailed(w) => RowInv'
<1> USE DEF store
<1> DEFINE b == tx[w]
<1>0. /\ w \in Sessions /\ b \in TxType
      /\ {"lookup", "embed", "classify", "stale", "scan", "handler", "retrieve",
          "generate", "finish", "commit"} \subseteq TransactionStates
  BY DEF TInv, TypeOK, TransactionStates
<1>1. ASSUME NEW from \in {"lookup", "embed"},
             NEW to \in {"embed", "classify", "stale", "scan", "handler"},
             Goto(w, from, to), UNCHANGED <<store, tx, cur>>
      PROVE  RowInv'
  <2>1. Writes(w, b)
    BY <1>1 DEF Writes, TInv, TypeOK
  <2>2. ~(b.status # "none" /\ OwnRow(from, b))
    BY <1>1 DEF OwnRow
  <2> QED BY <1>0, <1>1, <2>1, <2>2, SilentRow
<1>2. ASSUME LookupEmbedding(w) PROVE RowInv'
  BY <1>1, <1>2 DEF LookupEmbedding
<1>3. ASSUME EmbedSucceeds(w) PROVE RowInv'
  BY <1>1, <1>3 DEF EmbedSucceeds
<1>4. ASSUME EmbedFails(w) PROVE RowInv'
  BY <1>1, <1>4 DEF EmbedFails
<1>5. ASSUME SuggestFails(w) PROVE RowInv'
  <2>1. Writes(w, b) /\ Goto(w, "generate", "handler") /\ cur' = cur /\ drafts' = drafts
    BY <1>5 DEF SuggestFails, Writes, TInv, TypeOK
  <2> QED BY <1>0, <2>1, SilentRow
<1>6. ASSUME Classify(w) PROVE RowInv'
  <2> DEFINE c == [b EXCEPT !.decs = DecisionTypes, !.status = "routing_pending",
                            !.evs = @ \cup {"classification_completed"}]
  <2>1. c \in TxType /\ c.status = "routing_pending"
    BY <1>0 DEF TxType, Statuses, EventTypes
  <2>2. /\ Writes(w, c) /\ Goto(w, "classify", "retrieve")
        /\ cur' = cur /\ drafts' = drafts /\ ~TicketRowBusy(w)
    BY <1>6 DEF Classify
  <2>3. OwnRow("retrieve", c)
    BY <2>1 DEF OwnRow
  <2> HIDE DEF c
  <2> QED BY <1>0, <2>1, <2>2, <2>3, InnerRow
<1>7. ASSUME Retrieve(w) PROVE RowInv'
  <2> DEFINE c == [b EXCEPT !.evs = @ \cup {"retrieval_completed"}]
  <2>1. c \in TxType /\ c.status = b.status /\ c.draft = b.draft
    BY <1>0 DEF TxType, EventTypes
  <2>2. PICK to \in {"generate", "finish"} :
          /\ Goto(w, "retrieve", to)
          /\ to = "generate" => drafts[cur[w]] = {}
    BY <1>7 DEF Retrieve, HasPendingReview
  <2>3. Writes(w, c) /\ cur' = cur /\ drafts' = drafts
    BY <1>7 DEF Retrieve
  <2>4. OwnRow("retrieve", b) => OwnRow(to, c)
    BY <2>1 DEF OwnRow
  <2>5. b.status # "none"
    BY <1>0, <2>2 DEF Goto, RowInv, OwnRow, TInv, TransactionInv
  <2> HIDE DEF c
  <2> QED BY <1>0, <2>1, <2>2, <2>3, <2>4, <2>5, InnerRow
<1>8. ASSUME SuggestSucceeds(w) PROVE RowInv'
  <2> DEFINE c == [b EXCEPT !.draft = TRUE, !.evs = @ \cup {"draft_suggestion_stored"}]
  <2>1. c \in TxType /\ c.status = b.status
    BY <1>0 DEF TxType, EventTypes
  <2>2. Writes(w, c) /\ Goto(w, "generate", "finish") /\ cur' = cur /\ drafts' = drafts
    BY <1>8 DEF SuggestSucceeds, StoreDraft
  <2>3. OwnRow("generate", b) => OwnRow("finish", c)
    BY <2>1 DEF OwnRow
  <2> HIDE DEF c
  <2> QED BY <1>0, <2>1, <2>2, <2>3, InnerRow
<1>9. ASSUME FinishRouted(w) PROVE RowInv'
  <2> DEFINE c == [b EXCEPT !.status = "routed", !.evs = @ \cup {"ai_processing_completed"}]
  <2>1. c \in TxType /\ c.status = "routed"
    BY <1>0 DEF TxType, Statuses, EventTypes
  <2>2. /\ Writes(w, c) /\ Goto(w, "finish", "commit")
        /\ cur' = cur /\ drafts' = drafts /\ ~TicketRowBusy(w)
    BY <1>9 DEF FinishRouted
  <2>3. OwnRow("commit", c)
    BY <2>1 DEF OwnRow
  <2> HIDE DEF c
  <2> QED BY <1>0, <2>1, <2>2, <2>3, InnerRow
<1>10. ASSUME MarkFailed(w) PROVE RowInv'
  <2> DEFINE c == [b EXCEPT !.status = "failed", !.evs = @ \cup {"ai_processing_failed"}]
  <2>1. c \in TxType /\ c.status = "failed"
    BY <1>0 DEF TxType, Statuses, EventTypes
  <2>2. /\ Writes(w, c) /\ Goto(w, "handler", "commit")
        /\ cur' = cur /\ drafts' = drafts /\ ~TicketRowBusy(w)
    BY <1>10 DEF MarkFailed
  <2>3. OwnRow("commit", c)
    BY <2>1 DEF OwnRow
  <2> HIDE DEF c
  <2> QED BY <1>0, <2>1, <2>2, <2>3, InnerRow
<1> QED BY <1>2, <1>3, <1>4, <1>5, <1>6, <1>7, <1>8, <1>9, <1>10

LEMMA RollbackRow ==
  ASSUME TInv, RowInv, NEW s \in Sessions, Rollback(s)
  PROVE  RowInv'
<1>1. /\ cur'[s] = NoTicket /\ drafts' = drafts
      /\ \A o \in Sessions \ {s} : pc'[o] = pc[o] /\ tx'[o] = tx[o] /\ cur'[o] = cur[o]
  BY DEF Rollback, Closed, Writes, store, TInv, TypeOK
<1> QED BY <1>1, StepRow

(* The holder of the row lock is the one that commits: nobody else on the   *)
(* ticket is about to draft.                                                *)
LEMMA CommitRow ==
  ASSUME TInv, RowInv, NEW s \in Sessions, Commit(s)
  PROVE  RowInv'
<1>1. /\ cur[s] \in Tickets /\ cur[s] # NoTicket
      /\ tx[s].status # "none"
      /\ cur'[s] = NoTicket
      /\ \A o \in Sessions \ {s} : pc'[o] = pc[o] /\ tx'[o] = tx[o] /\ cur'[o] = cur[o]
  BY TicketsArePositive
  DEF Commit, Goto, Closed, Writes, TInv, TypeOK, TransactionInv, TransactionStates
<1>2. \A t \in Tickets \ {cur[s]} : drafts'[t] = drafts[t]
  BY DEF Commit, TInv, TypeOK
<1> SUFFICES ASSUME NEW p \in Sessions, cur'[p] # NoTicket
             PROVE  /\ OwnRow(pc'[p], tx'[p])
                    /\ tx'[p].status # "none" =>
                         \A o \in Sessions \ {p} : cur'[o] = cur'[p] => tx'[o].status = "none"
                    /\ pc'[p] = "generate" => drafts'[cur'[p]] = {}
  BY DEF RowInv, Rivals
<1>3. /\ p # s /\ cur[p] # NoTicket /\ cur[p] \in Tickets
      /\ pc'[p] = pc[p] /\ tx'[p] = tx[p] /\ cur'[p] = cur[p]
  BY <1>1 DEF TInv, TypeOK
<1>4. /\ OwnRow(pc[p], tx[p])
      /\ tx[p].status # "none" =>
           \A o \in Sessions \ {p} : cur[o] = cur[p] => tx[o].status = "none"
      /\ pc[p] = "generate" => drafts[cur[p]] = {}
  BY <1>3 DEF RowInv, Rivals
<1>5. tx'[p].status # "none" =>
        \A o \in Sessions \ {p} : cur'[o] = cur'[p] => tx'[o].status = "none"
  BY <1>1, <1>3, <1>4
<1>6. ASSUME pc[p] = "generate" PROVE drafts'[cur[p]] = {}
  <2>1. tx[p].status # "none"
    BY <1>4, <1>6 DEF OwnRow
  <2>2. cur[p] # cur[s]
    BY <1>1, <1>3, <1>4, <2>1
  <2> QED BY <1>2, <1>3, <1>4, <1>6, <2>2
<1> QED BY <1>3, <1>4, <1>5, <1>6

LEMMA OuterRow ==
  ASSUME TInv, RowInv
  PROVE  /\ \A t \in Tickets : CreateTicket(t) => RowInv'
         /\ \A r \in Requests : RequestFindsNoTicket(r) => RowInv'
         /\ \A r \in Requests : RequestFindsTicket(r) => RowInv'
         /\ \A w \in Workers : Poll(w) => RowInv'
         /\ \A w \in Workers : Begin(w) => RowInv'
         /\ \A w \in Workers : Restart(w) => RowInv'
<1> USE DEF store
<1>0. /\ tx \in [Sessions -> TxType]
      /\ cur \in [Sessions -> Tickets \cup {NoTicket}]
      /\ pc \in [Sessions -> WorkerStates \cup RequestStates]
      /\ \A s \in Sessions : pc[s] \notin TransactionStates => cur[s] = NoTicket
  BY DEF TInv, TypeOK, TransactionInv
<1>1. ASSUME NEW s \in Sessions, NEW from \in {"start", "idle", "down"}, NEW to,
             Goto(s, from, to), UNCHANGED <<cur, tx, drafts>>
      PROVE  RowInv'
  BY <1>0, <1>1, StepRow DEF Goto, TransactionStates
<1>2. ASSUME NEW t \in Tickets, CreateTicket(t) PROVE RowInv'
  BY <1>2 DEF CreateTicket, RowInv, Rivals
<1>3. ASSUME NEW r \in Requests, RequestFindsNoTicket(r) PROVE RowInv'
  BY <1>1, <1>3 DEF RequestFindsNoTicket
<1>4. ASSUME NEW w \in Workers, Poll(w) PROVE RowInv'
  BY <1>1, <1>4 DEF Poll
<1>5. ASSUME NEW w \in Workers, Restart(w) PROVE RowInv'
  BY <1>1, <1>5 DEF Restart
<1>6. ASSUME NEW s \in Sessions, NEW to \in {"scan", "lookup"},
             NEW t \in Tickets, NEW first, first.status = "none", ~first.draft,
             pc' = [pc EXCEPT ![s] = to], Open(s, t, first)
      PROVE  RowInv'
  <2>1. /\ pc'[s] = to /\ tx'[s] = first /\ drafts' = drafts
        /\ \A o \in Sessions \ {s} : pc'[o] = pc[o] /\ tx'[o] = tx[o] /\ cur'[o] = cur[o]
    BY <1>0, <1>6 DEF Open, Writes
  <2>2. OwnRow(to, first) /\ to # "generate"
    BY <1>6 DEF OwnRow
  <2> QED BY <1>6, <2>1, <2>2, StepRow
<1>7. ASSUME NEW r \in Requests, RequestFindsTicket(r) PROVE RowInv'
  <2>1. NoWrites.status = "none" /\ ~NoWrites.draft /\ Target[r] \in Tickets
    BY TargetAssumption DEF NoWrites
  <2> QED BY <1>6, <1>7, <2>1 DEF RequestFindsTicket, Goto
<1>8. ASSUME NEW w \in Workers, Begin(w) PROVE RowInv'
  <2> DEFINE first == [NoWrites EXCEPT !.evs = {"ai_processing_started"}]
  <2>1. PICK t \in batch[w] : pc' = [pc EXCEPT ![w] = "lookup"] /\ Open(w, t, first)
    BY <1>8 DEF Begin, Goto
  <2>2. t \in Tickets /\ first.status = "none" /\ ~first.draft
    BY DEF TInv, TypeOK, NoWrites
  <2> HIDE DEF first
  <2> QED BY <1>6, <2>1, <2>2
<1> QED BY <1>2, <1>3, <1>4, <1>5, <1>7, <1>8

LEMMA NextRowInv == TInv /\ RowInv /\ [Next]_vars => RowInv'
<1> SUFFICES ASSUME TInv, RowInv, [Next]_vars PROVE RowInv'
  OBVIOUS
<1>1. ASSUME NEW t \in Tickets, CreateTicket(t) PROVE RowInv'
  BY <1>1, OuterRow
<1>2. ASSUME NEW s \in Sessions, EmbeddingStep(s) PROVE RowInv'
  BY <1>2, EmbeddingRow, RollbackRow, CommitRow DEF EmbeddingStep, Refuse
<1>3. ASSUME NEW w \in Workers, WorkerStep(w) PROVE RowInv'
  BY <1>2, <1>3, OuterRow, EmbeddingRow, WorkerRow DEF WorkerStep
<1>4. ASSUME NEW r \in Requests, RequestStep(r) PROVE RowInv'
  BY <1>2, <1>4, OuterRow DEF RequestStep
<1>5. ASSUME NEW s \in Sessions, Fault(s) PROVE RowInv'
  BY <1>5, RollbackRow DEF Fault
<1>6. CASE UNCHANGED vars
  BY <1>6 DEF vars, store, RowInv, Rivals
<1> QED BY <1>1, <1>3, <1>4, <1>5, <1>6 DEF Next

(* has_pending_review and the insert that follows it are atomic: the ticket *)
(* row is locked since classification, so the unique index of drafts never  *)
(* makes a worker wait and never refuses its draft.                         *)
THEOREM DraftInsertsNeverCollide == Spec => []DraftsNeverCollide
<1>1. TInv /\ RowInv => DraftsNeverCollide
  <2> SUFFICES ASSUME TInv, RowInv, NEW w \in Workers, pc[w] = "generate"
               PROVE  drafts[cur[w]] = {} /\ \A o \in Rivals(w) : ~tx[o].draft
    BY DEF DraftsNeverCollide, DraftIndexBusy, DraftIndexTaken
  <2>1. cur[w] # NoTicket
    BY DEF TInv, TransactionInv, TransactionStates
  <2>2. tx[w].status # "none" /\ drafts[cur[w]] = {}
    BY <2>1 DEF RowInv, OwnRow
  <2>3. ASSUME NEW o \in Rivals(w) PROVE ~tx[o].draft
    <3>1. o \in Sessions /\ cur[o] # NoTicket /\ tx[o].status = "none"
      BY <2>1, <2>2 DEF RowInv, Rivals
    <3> QED BY <3>1 DEF RowInv, OwnRow
  <2> QED BY <2>2, <2>3
<1> QED BY <1>1, InitTInv, NextTInv, InitRowInv, NextRowInv, PTL DEF Spec

-----------------------------------------------------------------------------
(* The embedding rows.  What a session has retired is still active for the  *)
(* others until it commits, and no two sessions have retired the same row.  *)

RetireInv ==
  \A s \in Sessions : InTransaction(s) =>
    /\ tx[s].deact \subseteq active[cur[s]]
    /\ \A o \in Rivals(s) : tx[o].deact \cap tx[s].deact = {}

LEMMA InitRetireInv == Init => RetireInv
BY DEF Init, RetireInv

LEMMA FrameRetire ==
  ASSUME RetireInv, active' = active,
         \A s \in Sessions :
           \/ cur'[s] = NoTicket
           \/ tx'[s].deact = {}
           \/ cur'[s] = cur[s] /\ tx'[s].deact = tx[s].deact
  PROVE  RetireInv'
<1> SUFFICES ASSUME NEW s \in Sessions, cur'[s] # NoTicket
             PROVE  /\ tx'[s].deact \subseteq active'[cur'[s]]
                    /\ \A o \in Sessions \ {s} :
                         cur'[o] = cur'[s] => tx'[o].deact \cap tx'[s].deact = {}
  BY DEF RetireInv, Rivals
<1>1. CASE tx'[s].deact = {}
  BY <1>1
<1>2. CASE cur'[s] = cur[s] /\ tx'[s].deact = tx[s].deact
  <2>1. /\ tx[s].deact \subseteq active[cur[s]]
        /\ \A o \in Sessions \ {s} : cur[o] = cur[s] => tx[o].deact \cap tx[s].deact = {}
    BY <1>2 DEF RetireInv, Rivals
  <2>2. ASSUME NEW o \in Sessions \ {s}, cur'[o] = cur'[s]
        PROVE  tx'[o].deact \cap tx'[s].deact = {}
    BY <1>2, <2>1, <2>2
  <2> QED BY <1>2, <2>1, <2>2
<1> QED BY <1>1, <1>2

LEMMA DeactivateRetire ==
  ASSUME TInv, RetireInv, NEW s \in Sessions,
         ~EmbeddingRowsBusy(s), cur[s] # NoTicket,
         Writes(s, [tx[s] EXCEPT !.deact = @ \cup (want[s] \cap active[cur[s]])]),
         UNCHANGED <<store, cur>>
  PROVE  RetireInv'
<1> DEFINE gone == want[s] \cap active[cur[s]]
           b == [tx[s] EXCEPT !.deact = @ \cup gone]
<1>1. /\ tx[s] \in TxType /\ gone \in SUBSET Sessions
      /\ active' = active /\ cur' = cur
  BY DEF TInv, TypeOK, store
<1>2. b \in TxType /\ b.deact = tx[s].deact \cup gone
  BY <1>1 DEF TxType
<1>3. /\ tx'[s].deact = tx[s].deact \cup gone
      /\ \A o \in Sessions \ {s} : tx'[o] = tx[o]
  <2>1. tx'[s] = b /\ \A o \in Sessions \ {s} : tx'[o] = tx[o]
    BY <1>2, WritesOwnBuffer DEF TInv, TypeOK
  <2> QED BY <1>2, <2>1
<1>4. \A o \in Sessions \ {s} : cur[o] = cur[s] => tx[o].deact \cap gone = {}
  BY DEF EmbeddingRowsBusy, Rivals
<1>5. gone \subseteq active[cur[s]]
  OBVIOUS
<1> HIDE DEF gone, b
<1> SUFFICES ASSUME NEW p \in Sessions, cur[p] # NoTicket
             PROVE  /\ tx'[p].deact \subseteq active[cur[p]]
                    /\ \A o \in Sessions \ {p} :
                         cur[o] = cur[p] => tx'[o].deact \cap tx'[p].deact = {}
  BY <1>1 DEF RetireInv, Rivals
<1>6. /\ tx[p].deact \subseteq active[cur[p]]
      /\ \A o \in Sessions \ {p} : cur[o] = cur[p] => tx[o].deact \cap tx[p].deact = {}
  BY DEF RetireInv, Rivals
<1>7. tx'[p].deact \subseteq active[cur[p]]
  BY <1>3, <1>5, <1>6
<1>8. ASSUME NEW o \in Sessions \ {p}, cur[o] = cur[p]
      PROVE  tx'[o].deact \cap tx'[p].deact = {}
  <2>1. tx[o].deact \cap tx[p].deact = {}
    BY <1>6, <1>8
  <2>2. CASE p = s
    BY <1>3, <1>4, <1>8, <2>1, <2>2
  <2>3. CASE o = s
    BY <1>3, <1>4, <1>8, <2>1, <2>3
  <2>4. CASE p # s /\ o # s
    BY <1>3, <2>1, <2>4
  <2> QED BY <2>2, <2>3, <2>4
<1> QED BY <1>7, <1>8

LEMMA CommitRetire ==
  ASSUME TInv, RetireInv, NEW s \in Sessions, Commit(s)
  PROVE  RetireInv'
<1>1. /\ cur[s] \in Tickets /\ cur[s] # NoTicket /\ cur'[s] = NoTicket
      /\ \A o \in Sessions \ {s} : tx'[o] = tx[o] /\ cur'[o] = cur[o]
  BY TicketsArePositive
  DEF Commit, Goto, Closed, Writes, TInv, TypeOK, TransactionInv, TransactionStates
<1>2. /\ active[cur[s]] \ tx[s].deact \subseteq active'[cur[s]]
      /\ \A t \in Tickets \ {cur[s]} : active'[t] = active[t]
  BY <1>1 DEF Commit, TInv, TypeOK
<1> SUFFICES ASSUME NEW p \in Sessions, cur'[p] # NoTicket
             PROVE  /\ tx'[p].deact \subseteq active'[cur'[p]]
                    /\ \A o \in Sessions \ {p} :
                         cur'[o] = cur'[p] => tx'[o].deact \cap tx'[p].deact = {}
  BY DEF RetireInv, Rivals
<1>3. /\ p # s /\ cur[p] # NoTicket /\ cur[p] \in Tickets
      /\ tx'[p] = tx[p] /\ cur'[p] = cur[p]
  BY <1>1 DEF TInv, TypeOK
<1>4. /\ tx[p].deact \subseteq active[cur[p]]
      /\ \A o \in Sessions \ {p} : cur[o] = cur[p] => tx[o].deact \cap tx[p].deact = {}
  BY <1>3 DEF RetireInv, Rivals
<1>5. tx[p].deact \subseteq active'[cur[p]]
  <2>1. CASE cur[p] = cur[s]
    <3>1. tx[s].deact \cap tx[p].deact = {}
      BY <1>3, <1>4, <2>1
    <3> QED BY <1>2, <1>4, <2>1, <3>1
  <2>2. CASE cur[p] # cur[s]
    BY <1>2, <1>3, <1>4, <2>2
  <2> QED BY <2>1, <2>2
<1>6. \A o \in Sessions \ {p} : cur'[o] = cur[p] => tx'[o].deact \cap tx[p].deact = {}
  BY <1>1, <1>3, <1>4
<1> QED BY <1>3, <1>5, <1>6

(* Every other step retires nothing.                                        *)
LEMMA WorkerRetire ==
  ASSUME TInv, RetireInv, NEW w \in Workers,
         \/ Poll(w) \/ Begin(w) \/ LookupEmbedding(w) \/ EmbedSucceeds(w)
         \/ EmbedFails(w) \/ Classify(w) \/ Retrieve(w) \/ SuggestSucceeds(w)
         \/ SuggestFails(w) \/ FinishRouted(w) \/ MarkFailed(w) \/ Restart(w)
  PROVE  RetireInv'
<1> USE DEF store
<1>0. /\ w \in Sessions /\ tx \in [Sessions -> TxType]
      /\ cur \in [Sessions -> Tickets \cup {NoTicket}]
  BY DEF TInv, TypeOK
<1>1. CASE UNCHANGED <<active, cur, tx>>
  BY <1>1, FrameRetire
<1>2. ASSUME NEW changed, Writes(w, changed), changed.deact = tx[w].deact,
             UNCHANGED <<active, cur>>
      PROVE  RetireInv'
  BY <1>0, <1>2, FrameRetire DEF Writes
<1>3. CASE Begin(w)
  <2> DEFINE first == [NoWrites EXCEPT !.evs = {"ai_processing_started"}]
  <2>1. first.deact = {}
    BY DEF NoWrites
  <2>2. /\ tx'[w] = first /\ active' = active
        /\ \A o \in Sessions \ {w} : cur'[o] = cur[o] /\ tx'[o] = tx[o]
    BY <1>0, <1>3 DEF Begin, Open, Writes
  <2> QED BY <2>1, <2>2, FrameRetire
<1>4. CASE Classify(w)
  <2> DEFINE c == [tx[w] EXCEPT !.decs = DecisionTypes, !.status = "routing_pending",
                                !.evs = @ \cup {"classification_completed"}]
  <2>1. c.deact = tx[w].deact
    BY <1>0 DEF TxType
  <2> QED BY <1>2, <1>4, <2>1 DEF Classify
<1>5. CASE Retrieve(w)
  <2> DEFINE c == [tx[w] EXCEPT !.evs = @ \cup {"retrieval_completed"}]
  <2>1. c.deact = tx[w].deact
    BY <1>0 DEF TxType
  <2> QED BY <1>2, <1>5, <2>1 DEF Retrieve
<1>6. CASE SuggestSucceeds(w)
  <2> DEFINE c == [tx[w] EXCEPT !.draft = TRUE, !.evs = @ \cup {"draft_suggestion_stored"}]
  <2>1. c.deact = tx[w].deact
    BY <1>0 DEF TxType
  <2> QED BY <1>2, <1>6, <2>1 DEF SuggestSucceeds, StoreDraft
<1>7. CASE FinishRouted(w)
  <2> DEFINE c == [tx[w] EXCEPT !.status = "routed", !.evs = @ \cup {"ai_processing_completed"}]
  <2>1. c.deact = tx[w].deact
    BY <1>0 DEF TxType
  <2> QED BY <1>2, <1>7, <2>1 DEF FinishRouted
<1>8. CASE MarkFailed(w)
  <2> DEFINE c == [tx[w] EXCEPT !.status = "failed", !.evs = @ \cup {"ai_processing_failed"}]
  <2>1. c.deact = tx[w].deact
    BY <1>0 DEF TxType
  <2> QED BY <1>2, <1>8, <2>1 DEF MarkFailed
<1>9. CASE Poll(w) \/ LookupEmbedding(w) \/ EmbedSucceeds(w) \/ EmbedFails(w)
             \/ SuggestFails(w) \/ Restart(w)
  BY <1>1, <1>9
  DEF Poll, LookupEmbedding, EmbedSucceeds, EmbedFails, SuggestFails, Restart
<1> QED BY <1>3, <1>4, <1>5, <1>6, <1>7, <1>8, <1>9

LEMMA RollbackRetire ==
  ASSUME TInv, RetireInv, NEW s \in Sessions, Rollback(s)
  PROVE  RetireInv'
<1>1. /\ active' = active
      /\ cur'[s] = NoTicket
      /\ \A o \in Sessions \ {s} : cur'[o] = cur[o] /\ tx'[o] = tx[o]
  BY DEF Rollback, Closed, Writes, store, TInv, TypeOK
<1> QED BY <1>1, FrameRetire

LEMMA NextRetireInv == TInv /\ RetireInv /\ [Next]_vars => RetireInv'
<1> SUFFICES ASSUME TInv, RetireInv, [Next]_vars PROVE RetireInv'
  OBVIOUS
<1> USE DEF store
<1>0. /\ tx \in [Sessions -> TxType]
      /\ cur \in [Sessions -> Tickets \cup {NoTicket}]
      /\ \A o \in Sessions : pc[o] \in TransactionStates => cur[o] # NoTicket
  BY DEF TInv, TypeOK, TransactionInv
<1>1. ASSUME NEW t \in Tickets, CreateTicket(t) PROVE RetireInv'
  BY <1>1, FrameRetire DEF CreateTicket
<1>2. ASSUME NEW s \in Sessions, EmbeddingStep(s) PROVE RetireInv'
  <2>1. CASE Scan(s, "scan", "replace")
    BY <2>1, FrameRetire DEF Scan
  <2>2. CASE Deactivate(s, "replace", "store")
    BY <1>0, <2>2, DeactivateRetire DEF Deactivate, Goto, TransactionStates
  <2>3. CASE StoreEmbedding(s)
    <3> DEFINE c == [tx[s] EXCEPT !.emb = TRUE]
    <3>1. c.deact = tx[s].deact
      BY <1>0 DEF TxType
    <3>2. /\ tx'[s] = c /\ UNCHANGED <<active, cur>>
          /\ \A o \in Sessions \ {s} : tx'[o] = tx[o]
      BY <1>0, <2>3 DEF StoreEmbedding, Writes
    <3> QED BY <3>1, <3>2, FrameRetire
  <2>4. CASE MarkEmbedded(s)
    <3> DEFINE c == [tx[s] EXCEPT !.status = "embedded", !.evs = @ \cup {"embedding_stored"}]
    <3>1. c.deact = tx[s].deact
      BY <1>0 DEF TxType
    <3>2. /\ tx'[s] = c /\ UNCHANGED <<active, cur>>
          /\ \A o \in Sessions \ {s} : tx'[o] = tx[o]
      BY <1>0, <2>4 DEF MarkEmbedded, Writes
    <3> QED BY <3>1, <3>2, FrameRetire
  <2> QED BY <1>2, <2>1, <2>2, <2>3, <2>4, RollbackRetire, CommitRetire
          DEF EmbeddingStep, Refuse
<1>3. ASSUME NEW w \in Workers, WorkerStep(w) PROVE RetireInv'
  <2>1. CASE Scan(w, "stale", "drop")
    BY <2>1, FrameRetire DEF Scan
  <2>2. CASE Deactivate(w, "drop", "embed")
    BY <1>0, <2>2, DeactivateRetire DEF Deactivate, Goto, TransactionStates
  <2> QED BY <1>2, <1>3, <2>1, <2>2, WorkerRetire DEF WorkerStep
<1>4. ASSUME NEW r \in Requests, RequestStep(r) PROVE RetireInv'
  <2>1. CASE RequestFindsNoTicket(r)
    BY <2>1, FrameRetire DEF RequestFindsNoTicket
  <2>2. CASE RequestFindsTicket(r)
    <3>1. /\ active' = active /\ tx'[r] = NoWrites /\ NoWrites.deact = {}
          /\ \A o \in Sessions \ {r} : cur'[o] = cur[o] /\ tx'[o] = tx[o]
      BY <1>0, <2>2 DEF RequestFindsTicket, Open, Writes, NoWrites
    <3> QED BY <3>1, FrameRetire
  <2> QED BY <1>2, <1>4, <2>1, <2>2 DEF RequestStep
<1>5. ASSUME NEW s \in Sessions, Fault(s) PROVE RetireInv'
  BY <1>5, RollbackRetire DEF Fault
<1>6. CASE UNCHANGED vars
  BY <1>6, FrameRetire DEF vars
<1> QED BY <1>1, <1>3, <1>4, <1>5, <1>6 DEF Next

-----------------------------------------------------------------------------
(* Who waits for whom.  On each ticket at most one session has embedding    *)
(* writes pending and at most one holds the row; the latter waits for       *)
(* nobody, the former at most for the latter, the others for these two.     *)

OwnsEmbeddings(s) == tx[s].emb \/ tx[s].deact # {}
HoldsRow(s) == tx[s].status # "none"

LEMMA OneOwner ==
  ASSUME TInv, EInv, RetireInv, NEW s \in Sessions, cur[s] # NoTicket,
         OwnsEmbeddings(s), NEW o \in Rivals(s)
  PROVE  ~OwnsEmbeddings(o)
<1> USE DEF OwnsEmbeddings
<1>1. /\ o \in Sessions /\ o # s /\ cur[o] = cur[s] /\ s \in Rivals(o)
      /\ cur[s] \in Tickets
  BY DEF Rivals, TInv, TypeOK
<1>2. tx[s].emb => ~tx[o].emb /\ tx[o].deact = {}
  BY DEF EInv, EmbeddingWriterAlone
<1>3. tx[o].emb => tx[s].deact = {} /\ ~tx[s].emb
  BY <1>1 DEF EInv, EmbeddingWriterAlone
<1>4. tx[s].deact = {} \/ tx[o].deact = {}
  <2>1. /\ tx[s].deact \subseteq active[cur[s]] /\ tx[o].deact \subseteq active[cur[s]]
        /\ tx[o].deact \cap tx[s].deact = {}
    BY <1>1 DEF RetireInv
  <2>2. \A a, b \in active[cur[s]] : a = b
    BY <1>1 DEF EInv, OneActiveEmbedding
  <2> QED BY <2>1, <2>2
<1> QED BY <1>2, <1>3, <1>4

(* A session waits for the owner of the embeddings or the holder of the row.*)
LEMMA WaitedFor ==
  ASSUME TInv, RowInv, EInv, RetireInv,
         NEW s \in Sessions, NEW o \in Sessions, WaitsFor(s, o)
  PROVE  /\ ~HoldsRow(s) /\ o \in Rivals(s) /\ cur[s] # NoTicket
         /\ HoldsRow(o) \/ (OwnsEmbeddings(o) /\ ~OwnsEmbeddings(s))
<1> USE DEF HoldsRow, OwnsEmbeddings
<1>1. /\ o \in Rivals(s) /\ cur[o] = cur[s] /\ s \in Rivals(o)
      /\ cur[s] # NoTicket /\ cur[o] # NoTicket
  BY DEF WaitsFor, Rivals, TInv, TransactionInv, TransactionStates
<1>2. OwnRow(pc[s], tx[s]) /\ OwnRow(pc[o], tx[o])
  BY <1>1 DEF RowInv, Rivals
<1>3. HoldsRow(s) => ~HoldsRow(o)
  BY <1>1 DEF RowInv
<1>4. OwnsEmbeddings(o) => ~OwnsEmbeddings(s)
  BY <1>1, OneOwner
<1>5. CASE pc[s] \in {"drop", "replace"} /\ tx[o].deact \cap want[s] # {}
  BY <1>1, <1>2, <1>4, <1>5 DEF OwnRow
<1>6. CASE pc[s] = "store" /\ (tx[o].emb \/ tx[o].deact # {})
  BY <1>1, <1>2, <1>4, <1>6 DEF OwnRow
<1>7. CASE pc[s] \in {"mark", "classify", "finish", "handler"} /\ tx[o].status # "none"
  BY <1>1, <1>3, <1>7
<1>8. CASE pc[s] = "generate" /\ tx[o].draft
  BY <1>1, <1>2, <1>3, <1>8 DEF OwnRow
<1> QED BY <1>5, <1>6, <1>7, <1>8 DEF WaitsFor

(* Sessions never wait for each other in a circle, so Postgres never has a  *)
(* deadlock of this pipeline to break: in any set of sessions one waits for *)
(* none of the others.                                                      *)
THEOREM LocksNeverCycle == Spec => []NoLockCycle
<1> DEFINE AllInv == TInv /\ RowInv /\ EInv /\ RetireInv
<1>1. AllInv => NoLockCycle
  <2> SUFFICES ASSUME TInv, RowInv, EInv, RetireInv,
                      NEW S \in SUBSET Sessions, S # {},
                      \A s \in S : \E o \in S : WaitsFor(s, o)
               PROVE  FALSE
    BY DEF NoLockCycle
  <2>1. PICK a \in S : TRUE
    OBVIOUS
  <2>2. PICK b \in S : WaitsFor(a, b)
    OBVIOUS
  <2>3. PICK c \in S : WaitsFor(b, c)
    OBVIOUS
  <2>4. PICK d \in S : WaitsFor(c, d)
    OBVIOUS
  <2>5. ~HoldsRow(b) /\ ~HoldsRow(c)
    BY <2>3, <2>4, WaitedFor
  <2>6. OwnsEmbeddings(b)
    BY <2>2, <2>5, WaitedFor
  <2> QED BY <2>3, <2>5, <2>6, WaitedFor
<1>2. Spec => []AllInv
  BY InitTInv, NextTInv, InitRowInv, NextRowInv, InitEInv, NextEInv,
     InitRetireInv, NextRetireInv, PTL DEF Spec
<1> QED BY <1>1, <1>2, PTL

=============================================================================
