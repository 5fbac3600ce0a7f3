----------------------- MODULE SimilarityCache_proofs -----------------------
(***************************************************************************)
(* Proofs about SimilarityCache, for any tickets, queries, filters, clients *)
(* and bounds.                                                             *)
(***************************************************************************)
EXTENDS SimilarityCache, TLAPS

(* Either every client names the model, or none names the default one.      *)
KeysTellModelsApart == ~({NoModel, DefaultModel} \subseteq AskedModels)

(* What is in Redis, on its way there or answered was found in Postgres by  *)
(* a search of the very request that its key is made of.                    *)
EntriesWereOnceTrue ==
  \A q \in SearchRequests : \A set \in cache[Key(q)] :
    \E store \in past : set = Search(q, store)
RowsWereOnceTrue ==
  \A c \in Clients :
    step[c] \in {"fill", "answered"} => \E store \in past : rows[c] = Search(ask[c], store)

SInv ==
  /\ cache \in [Keys -> SUBSET SUBSET Tickets]
  /\ step \in [Clients -> {"idle", "get", "load", "fill", "answered"}]
  /\ ask \in [Clients -> SearchRequests]
  /\ rows \in [Clients -> SUBSET Tickets]
  /\ emb \in past
  /\ EntriesWereOnceTrue
  /\ RowsWereOnceTrue

(* Different requests have different keys.                                  *)
LEMMA KeyInjective ==
  ASSUME KeysTellModelsApart, NEW p \in SearchRequests, NEW q \in SearchRequests,
         Key(p) = Key(q)
  PROVE  p = q
<1>1. /\ p = [query |-> p.query, limit |-> p.limit, exclude |-> p.exclude, model |-> p.model]
      /\ q = [query |-> q.query, limit |-> q.limit, exclude |-> q.exclude, model |-> q.model]
      /\ p.model \in AskedModels /\ q.model \in AskedModels
  BY DEF SearchRequests
<1>2. /\ Key(p).query = p.query /\ Key(p).limit = p.limit /\ Key(p).exclude = p.exclude
      /\ Key(q).query = q.query /\ Key(q).limit = q.limit /\ Key(q).exclude = q.exclude
      /\ Key(p).model = IF p.model = NoModel THEN DefaultModel ELSE p.model
      /\ Key(q).model = IF q.model = NoModel THEN DefaultModel ELSE q.model
  BY DEF Key
<1>3. p.model = q.model
  BY <1>1, <1>2 DEF KeysTellModelsApart
<1> QED BY <1>1, <1>2, <1>3

LEMMA KeyIsKey == \A q \in SearchRequests : Key(q) \in Keys
BY DEF Keys

LEMMA SearchFindsTickets == \A q, store : Search(q, store) \in SUBSET Tickets
BY DEF Search, Matching

LEMMA InitSInv == ASSUME SearchRequests # {}, Init PROVE SInv
BY DEF Init, SInv, EntriesWereOnceTrue, RowsWereOnceTrue, Keys

(* A step that keeps the history of the store keeps what was true once.     *)
LEMMA StoreSInv ==
  ASSUME SInv, NEW t \in Tickets, StoreEmbedding(t)
  PROVE  SInv'
<1>1. past \subseteq past' /\ emb' \in past' /\ UNCHANGED <<cache, step, ask, rows>>
  BY DEF StoreEmbedding
<1>2. EntriesWereOnceTrue'
  BY <1>1 DEF SInv, EntriesWereOnceTrue
<1>3. RowsWereOnceTrue'
  BY <1>1 DEF SInv, RowsWereOnceTrue
<1> QED BY <1>1, <1>2, <1>3 DEF SInv

LEMMA ClientSInv ==
  ASSUME KeysTellModelsApart, SInv, NEW c \in Clients,
         Ask(c) \/ Hit(c) \/ Miss(c) \/ Load(c) \/ Fill(c)
  PROVE  SInv'
<1> USE DEF SInv
<1>1. CASE Ask(c)
  BY <1>1 DEF Ask, EntriesWereOnceTrue, RowsWereOnceTrue
<1>2. CASE Hit(c)
  <2>1. PICK set \in cache[Key(ask[c])] : rows' = [rows EXCEPT ![c] = set]
    BY <1>2 DEF Hit
  <2>2. set \in SUBSET Tickets
    BY KeyIsKey
  <2>3. PICK store \in past : set = Search(ask[c], store)
    BY DEF EntriesWereOnceTrue
  <2>4. RowsWereOnceTrue'
    BY <1>2, <2>1, <2>3 DEF Hit, RowsWereOnceTrue
  <2> QED BY <1>2, <2>1, <2>2, <2>4 DEF Hit, EntriesWereOnceTrue
<1>3. CASE Miss(c)
  BY <1>3 DEF Miss, EntriesWereOnceTrue, RowsWereOnceTrue
<1>4. CASE Load(c)
  <2>1. rows' = [rows EXCEPT ![c] = Search(ask[c], emb)]
    BY <1>4 DEF Load
  <2>2. RowsWereOnceTrue'
    BY <1>4, <2>1 DEF Load, RowsWereOnceTrue
  <2> QED BY <1>4, <2>1, <2>2, SearchFindsTickets DEF Load, EntriesWereOnceTrue
<1>5. CASE Fill(c)
  <2>1. RowsWereOnceTrue'
    BY <1>5 DEF Fill, RowsWereOnceTrue
  <2>2. CASE UNCHANGED cache
    BY <1>5, <2>1, <2>2 DEF Fill, EntriesWereOnceTrue
  <2>3. CASE cache' = [cache EXCEPT ![Key(ask[c])] = {rows[c]}]
    <3>1. cache' \in [Keys -> SUBSET SUBSET Tickets]
      <4>1. {rows[c]} \in SUBSET SUBSET Tickets
        OBVIOUS
      <4> QED BY <2>3, <4>1
    <3>2. EntriesWereOnceTrue'
      <4> SUFFICES ASSUME NEW q \in SearchRequests, NEW set \in cache'[Key(q)]
                   PROVE  \E store \in past' : set = Search(q, store)
        BY DEF EntriesWereOnceTrue
      <4>1. CASE Key(q) = Key(ask[c])
        <5>1. q = ask[c]
          BY <4>1, KeyInjective
        <5>2. set = rows[c]
          BY <2>3, <4>1, KeyIsKey
        <5> QED BY <1>5, <5>1, <5>2 DEF Fill, RowsWereOnceTrue
      <4>2. CASE Key(q) # Key(ask[c])
        <5>1. cache'[Key(q)] = cache[Key(q)]
          BY <2>3, <4>2, KeyIsKey
        <5> QED BY <1>5, <5>1 DEF Fill, EntriesWereOnceTrue
      <4> QED BY <4>1, <4>2
    <3> QED BY <1>5, <2>1, <3>1, <3>2 DEF Fill
  <2> QED BY <1>5, <2>2, <2>3 DEF Fill
<1> QED BY <1>1, <1>2, <1>3, <1>4, <1>5

LEMMA NextSInv == ASSUME KeysTellModelsApart, SInv, [Next]_vars PROVE SInv'
<1>1. ASSUME NEW k \in Keys, Expire(k) PROVE SInv'
  BY <1>1 DEF Expire, SInv, EntriesWereOnceTrue, RowsWereOnceTrue
<1>2. CASE UNCHANGED vars
  BY <1>2 DEF vars, SInv, EntriesWereOnceTrue, RowsWereOnceTrue
<1> QED BY <1>1, <1>2, StoreSInv, ClientSInv DEF Next

(* When no two requests that a client can send differ only in naming the    *)
(* default model or no model, the cache of result sets is transparent but   *)
(* for its age.  SimilarityDefault shows that the condition is needed.      *)
THEOREM TransparentWhenKeysTellModelsApart ==
  ASSUME KeysTellModelsApart, SearchRequests # {}
  PROVE  Spec => []AnswersWereOnceTrue
<1>1. Init => SInv
  BY InitSInv
<1>2. SInv /\ [Next]_vars => SInv'
  BY NextSInv
<1>3. SInv => AnswersWereOnceTrue
  BY DEF SInv, RowsWereOnceTrue, AnswersWereOnceTrue
<1> QED BY <1>1, <1>2, <1>3, PTL DEF Spec

=============================================================================
