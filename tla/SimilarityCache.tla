--------------------------- MODULE SimilarityCache --------------------------
(***************************************************************************)
(* POST /tickets/similar: result sets cached under a key made of the query *)
(* and the filters, never invalidated, and gone only with their TTL.       *)
(*                                                                         *)
(* A query is named by the order of its distances to the tickets: of two   *)
(* tickets the one that comes first in Order[q] is the closer one.         *)
(***************************************************************************)
EXTENDS Naturals, FiniteSets

CONSTANTS
  Tickets,
  Models, DefaultModel,    \* embedding models, and the one an absent model stands for
  Queries, Order,          \* Order[q]: the rank of each ticket's distance to q
  Limits,                  \* limits that clients ask for
  AskedModels,             \* models that clients name; NoModel when they name none
  Clients,
  MaxStores,               \* embeddings stored (bound)
  MaxEntries               \* result sets in Redis at a time (bound)

NoModel == "no model"
NoTicket == "no ticket"

ASSUME ModelsAssumption ==
  /\ DefaultModel \in Models
  /\ NoModel \notin Models
  /\ AskedModels \subseteq Models \cup {NoModel}
ASSUME QueriesAssumption == Order \in [Queries -> [Tickets -> Nat]]
ASSUME BoundsAssumption ==
  /\ Limits \subseteq Nat \ {0}
  /\ MaxStores \in Nat
  /\ MaxEntries \in Nat

(* SimilarTicketsRequest; the embedding dimension is treated as the model   *)
(* is and is left out, and no route sets max_ticket_age_days.               *)
SearchRequests ==
  [query: Queries, limit: Limits, exclude: Tickets \cup {NoTicket}, model: AskedModels]

(* Faulty variant: the key has the query and the model only.                *)
KeyWithoutFilters(q) ==
  [query |-> q.query,
   model |-> IF q.model = NoModel THEN DefaultModel ELSE q.model,
   limit |-> 0, exclude |-> NoTicket]

(* similarity_key: both hashes are over the defaulted model.                *)
Key(q) ==
  [query |-> q.query,
   model |-> IF q.model = NoModel THEN DefaultModel ELSE q.model,
   limit |-> q.limit, exclude |-> q.exclude]

Keys == {Key(q) : q \in SearchRequests}

VARIABLES
  emb,      \* emb[t]: the model of t's active embedding
  past,     \* every value that emb has had
  cache,    \* cache[k]: the result set in Redis, one or none
  step,     \* step[c]: where c's request is
  ask,      \* ask[c]: the request
  rows,     \* rows[c]: what it read, and what it was answered
  stores    \* embeddings stored so far

vars == <<emb, past, cache, step, ask, rows, stores>>

Init ==
  /\ emb = [t \in Tickets |-> NoModel]
  /\ past = {emb}
  /\ cache = [k \in Keys |-> {}]
  /\ step = [c \in Clients |-> "idle"]
  /\ ask = [c \in Clients |-> CHOOSE q \in SearchRequests : TRUE]
  /\ rows = [c \in Clients |-> {}]
  /\ stores = 0

-----------------------------------------------------------------------------
(* search_similar on a store: the filters, then the closest limit rows.     *)
Matching(q, store) ==
  {t \in Tickets :
     /\ store[t] # NoModel
     /\ t # q.exclude
     /\ q.model # NoModel => store[t] = q.model}

Search(q, store) ==
  {t \in Matching(q, store) :
     Cardinality({u \in Matching(q, store) : Order[q.query][u] < Order[q.query][t]}) < q.limit}

(* A worker or a test embedding commits; no similarity key is deleted.      *)
StoreEmbedding(t) ==
  /\ stores < MaxStores
  /\ \E m \in Models :
       /\ emb' = [emb EXCEPT ![t] = m]
       /\ past' = past \cup {emb'}
  /\ stores' = stores + 1
  /\ UNCHANGED <<cache, step, ask, rows>>

Ask(c) ==
  /\ step[c] \in {"idle", "answered"}
  /\ \E q \in SearchRequests : ask' = [ask EXCEPT ![c] = q]
  /\ step' = [step EXCEPT ![c] = "get"]
  /\ rows' = [rows EXCEPT ![c] = {}]
  /\ UNCHANGED <<emb, past, cache, stores>>

Hit(c) ==
  /\ step[c] = "get"
  /\ \E set \in cache[Key(ask[c])] : rows' = [rows EXCEPT ![c] = set]
  /\ step' = [step EXCEPT ![c] = "answered"]
  /\ UNCHANGED <<emb, past, cache, ask, stores>>

(* Also the outcome when Redis does not answer.                             *)
Miss(c) ==
  /\ step[c] = "get"
  /\ step' = [step EXCEPT ![c] = "load"]
  /\ UNCHANGED <<emb, past, cache, ask, rows, stores>>

Load(c) ==
  /\ step[c] = "load"
  /\ rows' = [rows EXCEPT ![c] = Search(ask[c], emb)]
  /\ step' = [step EXCEPT ![c] = "fill"]
  /\ UNCHANGED <<emb, past, cache, ask, stores>>

Entries == {k \in Keys : cache[k] # {}}

(* The entry may not be written: Redis does not answer.                     *)
Fill(c) ==
  /\ step[c] = "fill"
  /\ \/ /\ Cardinality(Entries \cup {Key(ask[c])}) <= MaxEntries
        /\ cache' = [cache EXCEPT ![Key(ask[c])] = {rows[c]}]
     \/ UNCHANGED cache
  /\ step' = [step EXCEPT ![c] = "answered"]
  /\ UNCHANGED <<emb, past, ask, rows, stores>>

Expire(k) ==
  /\ k \in Entries
  /\ cache' = [cache EXCEPT ![k] = {}]
  /\ UNCHANGED <<emb, past, step, ask, rows, stores>>

Next ==
  \/ \E t \in Tickets : StoreEmbedding(t)
  \/ \E c \in Clients : Ask(c) \/ Hit(c) \/ Miss(c) \/ Load(c) \/ Fill(c)
  \/ \E k \in Keys : Expire(k)

Spec == Init /\ [][Next]_vars

-----------------------------------------------------------------------------
(* Properties *)

(* The cache is transparent but for its age: an answer, from the cache or   *)
(* not, is what its own request would have found in Postgres at some time.  *)
AnswersWereOnceTrue ==
  \A c \in Clients :
    step[c] = "answered" => \E store \in past : rows[c] = Search(ask[c], store)

(* A similarity key changes with the filters: a client that names a model   *)
(* is answered with embeddings that have been of that model.                *)
AnswersAreOfTheModelAsked ==
  \A c \in Clients : \A t \in rows[c] :
    step[c] = "answered" /\ ask[c].model # NoModel =>
      \E store \in past : store[t] = ask[c].model

=============================================================================
