------------------------ MODULE ReadModelCache_proofs ------------------------
(***************************************************************************)
(* Proofs about ReadModelCache, for any number of runs, requests and       *)
(* clients, with and without DeleteInvalid, whatever fails.                *)
(***************************************************************************)
EXTENDS ReadModelCache, TLAPS

(* The rows that may be seen outside their transaction.                     *)
Committed(row) == row \in Writers => stage[row] = "done"

SeenRowsAreCommitted ==
  /\ \A f \in Families : Committed(db[f]) /\ Committed(cache[f])
  /\ \A r \in Readers : Committed(got[r])

(* The families whose keys the deletes still to be made are about.          *)
Pending(l) == UNION {l[i] : i \in DOMAIN l}

(* Only retrieve leaves a key to a later stage: the audit trail's.          *)
Postponed(x) == IF stage[x] \in {"suggest", "complete", "fail"} THEN {"events"} ELSE {}

DirtyKeysArePending ==
  \A x \in Writers : stage[x] # "done" => dirty[x] \subseteq Pending(left[x]) \cup Postponed(x)

(* A run that says routed has written its decisions in the same transaction. *)
RoutedRunsDecided ==
  \A x \in Writers :
    /\ stage[x] \in {"retrieve", "suggest", "complete"} => "routing" \in wrote[x]
    /\ outcome[x] = "routed" => "routing" \in wrote[x] /\ stage[x] \in {"commit", "done"}
    /\ stage[x] = "done" /\ "routing" \in wrote[x] => db["routing"] # None
    /\ stage[x] # "ready" => Exists

ReadersSawDecisions ==
  /\ outcome[Intake] # "routed"
  /\ db["routing"] # None => Exists
  /\ \A r \in Readers :
       /\ step[r] = "fill" => got[r] # None
       /\ r \in seenRouted => db["routing"] # None

IInv ==
  /\ TypeOK
  /\ SeenRowsAreCommitted
  /\ DirtyKeysArePending
  /\ RoutedRunsDecided
  /\ ReadersSawDecisions
  /\ RoutedClientsFindADecision

-----------------------------------------------------------------------------
(* How the deletes of a stage cover what it wrote.                          *)
LEMMA PendingTail ==
  ASSUME NEW l \in Seq(SUBSET Families), l # <<>>
  PROVE  Pending(l) \subseteq Head(l) \cup Pending(Tail(l))
<1>1. SUFFICES ASSUME NEW i \in DOMAIN l, NEW f \in l[i], f \notin l[1]
               PROVE  \E j \in DOMAIN Tail(l) : f \in Tail(l)[j]
  BY DEF Pending
<1>2. i \in 2..Len(l)
  BY <1>1
<1>3. i - 1 \in DOMAIN Tail(l) /\ Tail(l)[i - 1] = l[i]
  BY <1>2
<1> QED
  BY <1>1, <1>3

LEMMA PendingOne ==
  ASSUME NEW a PROVE Pending(<<a>>) = a
BY DEF Pending

LEMMA PendingTwo ==
  ASSUME NEW a, NEW b PROVE Pending(<<a, b>>) = a \cup b
<1>1. DOMAIN <<a, b>> = {1, 2}
  OBVIOUS
<1> QED
  BY <1>1 DEF Pending

LEMMA PendingThree ==
  ASSUME NEW a, NEW b, NEW c PROVE Pending(<<a, b, c>>) = a \cup b \cup c
<1>1. DOMAIN <<a, b, c>> = {1, 2, 3}
  OBVIOUS
<1> QED
  BY <1>1 DEF Pending

LEMMA PendingNone == Pending(<<>>) = {}
BY DEF Pending

LEMMA DeletedTyped ==
  ASSUME NEW s \in Stages PROVE Deleted[s] \in Seq(SUBSET Families)
<1>1. CASE s = "start"
  BY <1>1 DEF Deleted, Families
<1>2. CASE s = "embed"
  BY <1>2 DEF Deleted, Families
<1>3. CASE s = "classify"
  BY <1>3 DEF Deleted, Families
<1>4. CASE s = "retrieve"
  BY <1>4 DEF Deleted
<1>5. CASE s = "suggest"
  BY <1>5 DEF Deleted, Families
<1>6. CASE s = "complete"
  BY <1>6 DEF Deleted
<1>7. CASE s = "fail"
  BY <1>7 DEF Deleted, Families
<1> QED
  BY <1>1, <1>2, <1>3, <1>4, <1>5, <1>6, <1>7 DEF Stages

LEMMA WrittenTyped ==
  ASSUME NEW s \in Stages PROVE Written[s] \subseteq Families
BY DEF Stages, Written, Families

(* Every stage but retrieve deletes what it wrote; the last ones also what  *)
(* retrieve did not.                                                        *)
LEMMA DeletesCover ==
  ASSUME NEW s \in Stages
  PROVE  /\ s # "retrieve" => Written[s] \subseteq Pending(Deleted[s])
         /\ s \in {"suggest", "complete", "fail"} => "events" \in Pending(Deleted[s])
         /\ s = "retrieve" => Written[s] = {"events"}
<1>1. CASE s = "start"
  BY <1>1, PendingOne DEF Written, Deleted
<1>2. CASE s = "embed"
  BY <1>2, PendingTwo DEF Written, Deleted
<1>3. CASE s = "classify"
  BY <1>3, PendingThree DEF Written, Deleted
<1>4. CASE s = "retrieve"
  BY <1>4 DEF Written
<1>5. CASE s = "suggest"
  BY <1>5, PendingTwo DEF Written, Deleted
<1>6. CASE s = "complete"
  BY <1>6, PendingOne DEF Written, Deleted, Families
<1>7. CASE s = "fail"
  BY <1>7, PendingTwo DEF Written, Deleted
<1> QED
  BY <1>1, <1>2, <1>3, <1>4, <1>5, <1>6, <1>7 DEF Stages

-----------------------------------------------------------------------------
LEMMA InitInv == Init => IInv
<1> SUFFICES ASSUME Init PROVE IInv
  OBVIOUS
<1>1. TypeOK
  BY WritersAssumption DEF Init, TypeOK, Rows, WriterStages, Families
<1>2. SeenRowsAreCommitted
  BY WritersAssumption DEF Init, SeenRowsAreCommitted, Committed
<1> QED
  BY <1>1, <1>2 DEF Init, IInv, DirtyKeysArePending, RoutedRunsDecided, ReadersSawDecisions,
     RoutedClientsFindADecision, Rows, None, Families

-----------------------------------------------------------------------------
LEMMA TypeKept == IInv /\ [Next]_vars => TypeOK'
<1> SUFFICES ASSUME IInv, TypeOK, [Next]_vars PROVE TypeOK'
  BY DEF IInv
<1> USE DEF store, writer, reader
<1>1. CASE Create
  BY <1>1 DEF Create, TypeOK, Families, Rows
<1>2. ASSUME NEW x \in Writers, Begin(x) PROVE TypeOK'
  <2>1. later' \in SUBSET (Writers \X Writers)
    BY <1>2 DEF Begin, TypeOK
  <2>2. stage' \in [Writers -> WriterStages]
    BY <1>2 DEF Begin, TypeOK, WriterStages, Stages
  <2> QED
    BY <1>2, <2>1, <2>2 DEF Begin, TypeOK
<1>3. ASSUME NEW x \in Writers, Write(x) PROVE TypeOK'
  <2>1. stage[x] \in Stages
    BY <1>3 DEF Write
  <2>2. After(x, stage[x]) \subseteq WriterStages
    BY DEF After, WriterStages, Stages
  <2>3. stage' \in [Writers -> WriterStages]
    BY <1>3, <2>2 DEF Write, TypeOK
  <2>4. left' \in [Writers -> Seq(SUBSET Families)]
    BY <1>3, <2>1, DeletedTyped DEF Write, TypeOK
  <2>5. /\ wrote' \in [Writers -> SUBSET Families]
        /\ dirty' \in [Writers -> SUBSET Families]
    BY <1>3, <2>1, WrittenTyped DEF Write, TypeOK
  <2>6. outcome' \in [Rows -> {None, "pending_embedding", "embedded", "routing_pending",
                              "routed", "failed"}]
    BY <1>3 DEF Write, TypeOK, StatusAfter, Rows
  <2> QED
    BY <1>3, <2>3, <2>4, <2>5, <2>6 DEF Write, TypeOK
<1>4. ASSUME NEW x \in Writers, Delete(x) PROVE TypeOK'
  <2>1. cache' \in [Families -> Rows \cup {Empty, Corrupt}]
    BY <1>4 DEF Delete, TypeOK
  <2>2. Tail(left[x]) \in Seq(SUBSET Families)
    BY <1>4 DEF Delete, TypeOK
  <2>3. left' \in [Writers -> Seq(SUBSET Families)]
    BY <1>4, <2>2 DEF Delete, TypeOK
  <2> QED
    BY <1>4, <2>1, <2>3 DEF Delete, TypeOK
<1>5. ASSUME NEW x \in Writers, Commit(x) PROVE TypeOK'
  <2>1. db' \in [Families -> Rows \cup {None}]
    BY <1>5 DEF Commit, TypeOK, LatestRouting, Rows
  <2>2. straddled' \in SUBSET Families
    BY <1>5 DEF Commit, TypeOK
  <2> QED
    BY <1>5, <2>1, <2>2 DEF Commit, TypeOK, WriterStages
<1>6. ASSUME NEW x \in Writers, Lose(x) PROVE TypeOK'
  <2>1. faults' \in 0..MaxFaults
    BY <1>6, WritersAssumption DEF Lose, TypeOK
  <2>2. later' \in SUBSET (Writers \X Writers)
    BY <1>6 DEF Lose, TypeOK
  <2>3. /\ stage' \in [Writers -> WriterStages]
        /\ left' \in [Writers -> Seq(SUBSET Families)]
    BY <1>6 DEF Lose, TypeOK, WriterStages
  <2>4. /\ wrote' \in [Writers -> SUBSET Families]
        /\ dirty' \in [Writers -> SUBSET Families]
    BY <1>6 DEF Lose, TypeOK
  <2>5. outcome' \in [Rows -> {None, "pending_embedding", "embedded", "routing_pending",
                              "routed", "failed"}]
    BY <1>6 DEF Lose, TypeOK, Rows
  <2> QED
    BY <1>6, <2>1, <2>2, <2>3, <2>4, <2>5 DEF Lose, TypeOK
<1>7. ASSUME NEW r \in Readers, NEW f \in Families, Ask(r, f) PROVE TypeOK'
  BY <1>7 DEF Ask, TypeOK
<1>8. ASSUME NEW r \in Readers, NEW row \in Rows \cup {None, "not_found"}, Answer(r, row)
      PROVE TypeOK'
  BY <1>8 DEF Answer, TypeOK
<1>9. ASSUME NEW r \in Readers, TicketUnknown(r) \/ LoadNothing(r) PROVE TypeOK'
  BY <1>9, <1>8 DEF TicketUnknown, LoadNothing
<1>10. ASSUME NEW r \in Readers, Hit(r) PROVE TypeOK'
  <2>1. cache[asks[r]] \in Rows
    BY <1>10 DEF Hit, TypeOK
  <2> QED
    BY <1>10, <1>8, <2>1 DEF Hit
<1>11. ASSUME NEW r \in Readers, Miss(r) PROVE TypeOK'
  BY <1>11 DEF Miss, TypeOK
<1>12. ASSUME NEW r \in Readers, Evict(r) PROVE TypeOK'
  BY <1>12 DEF Evict, TypeOK
<1>13. ASSUME NEW r \in Readers, Load(r) PROVE TypeOK'
  BY <1>13 DEF Load, TypeOK
<1>14. ASSUME NEW r \in Readers, Fill(r) PROVE TypeOK'
  <2>1. got[r] \in Rows
    BY <1>14 DEF Fill, TypeOK, IInv, ReadersSawDecisions
  <2> QED
    BY <1>14, <2>1 DEF Fill, TypeOK
<1>15. ASSUME NEW f \in Families, Expire(f) PROVE TypeOK'
  BY <1>15 DEF Expire, TypeOK
<1>16. ASSUME NEW f \in Families, EntryUnreadable(f) PROVE TypeOK'
  BY <1>16, WritersAssumption DEF EntryUnreadable, TypeOK
<1>17. CASE RedisStops
  <2>1. faults' \in 0..MaxFaults
    BY <1>17, WritersAssumption DEF RedisStops, TypeOK
  <2>2. up' \in BOOLEAN
    BY <1>17 DEF RedisStops
  <2> QED
    BY <1>17, <2>1, <2>2 DEF RedisStops, TypeOK
<1>18. CASE RedisStarts
  BY <1>18 DEF RedisStarts, TypeOK
<1>19. CASE UNCHANGED vars
  BY <1>19 DEF vars, TypeOK
<1> QED
  BY <1>1, <1>2, <1>3, <1>4, <1>5, <1>6, <1>7, <1>9, <1>10, <1>11, <1>12, <1>13, <1>14,
     <1>15, <1>16, <1>17, <1>18, <1>19 DEF Next, WriterStep, Serve

(* No step undoes a commit.                                                 *)
LEMMA DoneIsFinal ==
  ASSUME IInv, [Next]_vars, NEW x \in Writers, stage[x] = "done"
  PROVE  stage'[x] = "done"
<1> USE DEF IInv, TypeOK
<1>1. ASSUME NEW y \in Writers, WriterStep(y) PROVE stage'[x] = "done"
  BY <1>1 DEF WriterStep, Begin, Write, Delete, Commit, Stages
<1>2. ASSUME NEW y \in Writers, Lose(y) PROVE stage'[x] = "done"
  BY <1>2 DEF Lose
<1>3. CASE UNCHANGED stage
  BY <1>3
<1>4. ASSUME NEW r \in Readers, Serve(r) PROVE UNCHANGED stage
  BY <1>4 DEF Serve, TicketUnknown, Hit, Miss, Evict, Load, LoadNothing, Fill, Answer, writer
<1> QED
  BY <1>1, <1>2, <1>3, <1>4 DEF Next, Create, Ask, Expire, EntryUnreadable, RedisStops,
     RedisStarts, vars, writer

(* A step moves rows only from Postgres to a reader and from there to the   *)
(* cache, and the rows that come into Postgres come with their commit.      *)
LEMMA SeenKept == IInv /\ [Next]_vars => SeenRowsAreCommitted'
<1> SUFFICES ASSUME IInv, [Next]_vars PROVE SeenRowsAreCommitted'
  OBVIOUS
<1> USE DEF IInv, TypeOK, store, writer, reader
<1>1. \A x \in Writers : stage[x] = "done" => stage'[x] = "done"
  BY DoneIsFinal
<1>2. ASSUME \A f \in Families :
               db'[f] \in {db[f], Intake} \/ (db'[f] \in Writers /\ stage'[db'[f]] = "done")
      PROVE  \A f \in Families : Committed(db[f])'
  BY <1>1, <1>2, WritersAssumption DEF SeenRowsAreCommitted, Committed
<1>3. ASSUME \A f \in Families :
               \/ cache'[f] \in {cache[f], Empty, Corrupt}
               \/ \E r \in Readers : cache'[f] = got[r]
      PROVE  \A f \in Families : Committed(cache[f])'
  BY <1>1, <1>3, WritersAssumption DEF SeenRowsAreCommitted, Committed
<1>4. ASSUME \A r \in Readers :
               got'[r] \in {got[r], None} \/ \E f \in Families : got'[r] = db[f]
      PROVE  \A r \in Readers : Committed(got[r])'
  <2> TAKE r \in Readers
  <2>1. None \notin Writers
    BY WritersAssumption
  <2>2. CASE got'[r] \in {got[r], None}
    BY <1>1, <2>1, <2>2 DEF SeenRowsAreCommitted, Committed
  <2>3. CASE \E f \in Families : got'[r] = db[f]
    BY <1>1, <2>3 DEF SeenRowsAreCommitted, Committed
  <2> QED
    BY <1>4, <2>2, <2>3
<1>5. ASSUME NEW x \in Writers, Commit(x) PROVE SeenRowsAreCommitted'
  <2>1. stage'[x] = "done"
    BY <1>5 DEF Commit
  <2>2. \A f \in Families : db'[f] \in {db[f], x}
    BY <1>5 DEF Commit, LatestRouting
  <2> QED
    BY <1>2, <1>3, <1>4, <1>5, <2>1, <2>2 DEF Commit, SeenRowsAreCommitted
<1>6. CASE Create
  <2>1. \A f \in Families : db'[f] \in {db[f], Intake}
    BY <1>6 DEF Create
  <2> QED
    BY <1>2, <1>3, <1>4, <1>6, <2>1 DEF Create, SeenRowsAreCommitted
<1>7. ASSUME UNCHANGED db, UNCHANGED got,
             \A f \in Families : cache'[f] \in {cache[f], Empty, Corrupt}
      PROVE  SeenRowsAreCommitted'
  BY <1>2, <1>3, <1>4, <1>7 DEF SeenRowsAreCommitted
<1>8. ASSUME NEW x \in Writers, Begin(x) \/ Write(x) \/ Delete(x) \/ Lose(x)
      PROVE  SeenRowsAreCommitted'
  <2>1. \A f \in Families : cache'[f] \in {cache[f], Empty, Corrupt}
    BY <1>8 DEF Begin, Write, Delete, Lose
  <2> QED
    BY <1>7, <1>8, <2>1 DEF Begin, Write, Delete, Lose
<1>9. ASSUME NEW r \in Readers, NEW f \in Families, Ask(r, f) PROVE SeenRowsAreCommitted'
  BY <1>7, <1>9 DEF Ask
<1>10. ASSUME NEW r \in Readers, TicketUnknown(r) \/ Hit(r) \/ LoadNothing(r)
       PROVE  SeenRowsAreCommitted'
  <2>1. /\ UNCHANGED db /\ UNCHANGED cache
        /\ got' = [got EXCEPT ![r] = None]
    BY <1>10 DEF TicketUnknown, Hit, LoadNothing, Answer
  <2> QED
    BY <1>2, <1>3, <1>4, <2>1 DEF SeenRowsAreCommitted
<1>11. ASSUME NEW r \in Readers, Miss(r) \/ Evict(r) PROVE SeenRowsAreCommitted'
  BY <1>7, <1>11 DEF Miss, Evict
<1>12. ASSUME NEW r \in Readers, Load(r) PROVE SeenRowsAreCommitted'
  BY <1>2, <1>3, <1>4, <1>12 DEF Load, SeenRowsAreCommitted
<1>13. ASSUME NEW r \in Readers, Fill(r) PROVE SeenRowsAreCommitted'
  <2>1. \A f \in Families : cache'[f] \in {cache[f], got[r]}
    BY <1>13 DEF Fill
  <2> QED
    BY <1>2, <1>3, <1>4, <1>13, <2>1 DEF Fill, SeenRowsAreCommitted
<1>14. ASSUME NEW f \in Families, Expire(f) \/ EntryUnreadable(f) PROVE SeenRowsAreCommitted'
  BY <1>7, <1>14 DEF Expire, EntryUnreadable
<1>15. CASE RedisStops \/ RedisStarts
  BY <1>7, <1>15 DEF RedisStops, RedisStarts
<1>16. CASE UNCHANGED vars
  BY <1>7, <1>16 DEF vars
<1> QED
  BY <1>5, <1>6, <1>8, <1>9, <1>10, <1>11, <1>12, <1>13, <1>14, <1>15, <1>16
     DEF Next, WriterStep, Serve

(* Writing adds its keys to the deletes still to be made; a delete takes    *)
(* them off both; commit is reached with none of either.                    *)
LEMMA DirtyKept == IInv /\ [Next]_vars => DirtyKeysArePending'
<1> SUFFICES ASSUME IInv, [Next]_vars, NEW x \in Writers, stage'[x] # "done"
             PROVE  dirty'[x] \subseteq (Pending(left[x]) \cup Postponed(x))'
  BY DEF DirtyKeysArePending
<1> USE DEF IInv, TypeOK, store, writer, reader
<1>1. CASE stage'[x] = stage[x] /\ left'[x] = left[x] /\ dirty'[x] = dirty[x]
  BY <1>1 DEF DirtyKeysArePending, Postponed
<1>2. CASE Begin(x)
  BY <1>2 DEF Begin, DirtyKeysArePending, Postponed
<1>3. CASE Write(x)
  <2> DEFINE s == stage[x]
  <2>1. /\ s \in Stages /\ left[x] = <<>>
        /\ dirty'[x] = dirty[x] \cup Written[s]
        /\ left'[x] = Deleted[s]
        /\ stage'[x] \in After(x, s)
    BY <1>3 DEF Write
  <2>2. dirty[x] \subseteq Postponed(x)
    BY <2>1, PendingNone DEF DirtyKeysArePending, Stages
  <2>3. CASE s = "retrieve"
    <3>1. stage'[x] \in {"suggest", "complete", "fail"}
      BY <2>1, <2>3 DEF After
    <3> QED
      BY <2>1, <2>2, <2>3, <3>1, DeletesCover DEF Postponed
  <2>4. CASE s # "retrieve"
    BY <2>1, <2>2, <2>4, DeletesCover DEF Postponed
  <2> QED
    BY <2>3, <2>4
<1>4. CASE Delete(x)
  <2>1. /\ left[x] # <<>> /\ left[x] \in Seq(SUBSET Families)
        /\ dirty'[x] = dirty[x] \ Head(left[x])
        /\ left'[x] = Tail(left[x])
        /\ stage'[x] = stage[x]
    BY <1>4 DEF Delete
  <2>2. Pending(left[x]) \subseteq Head(left[x]) \cup Pending(left'[x])
    BY <2>1, PendingTail
  <2>3. dirty[x] \subseteq Pending(left[x]) \cup Postponed(x)
    BY <2>1 DEF DirtyKeysArePending
  <2>4. Postponed(x)' = Postponed(x)
    BY <2>1 DEF Postponed
  <2>5. dirty'[x] \subseteq Pending(left'[x]) \cup Postponed(x)'
    BY <2>1, <2>2, <2>3, <2>4
  <2> QED
    BY <2>5 DEF Pending
<1>5. CASE Commit(x)
  BY <1>5 DEF Commit
<1>6. CASE Lose(x)
  BY <1>6 DEF Lose
<1>7. ASSUME NEW y \in Writers \ {x}, WriterStep(y) \/ Lose(y)
      PROVE  stage'[x] = stage[x] /\ left'[x] = left[x] /\ dirty'[x] = dirty[x]
  BY <1>7 DEF WriterStep, Begin, Write, Delete, Commit, Lose
<1>8. ASSUME NEW r \in Readers, Serve(r) PROVE UNCHANGED <<stage, left, dirty>>
  BY <1>8 DEF Serve, TicketUnknown, Hit, Miss, Evict, Load, LoadNothing, Fill, Answer
<1> QED
  BY <1>1, <1>2, <1>3, <1>4, <1>5, <1>6, <1>7, <1>8 DEF Next, WriterStep, Create, Ask, Expire,
     EntryUnreadable, RedisStops, RedisStarts, vars

(* The row of the routing family, once there, stays, as does the ticket.    *)
LEMMA RowsStay ==
  ASSUME IInv, [Next]_vars
  PROVE  /\ Exists => Exists'
         /\ db["routing"] # None => db'["routing"] # None
<1> USE DEF IInv, TypeOK, store, writer, reader, Families
<1>1. None \notin Writers /\ None # Intake
  BY WritersAssumption DEF None, Intake
<1>2. CASE Create
  BY <1>1, <1>2 DEF Create, Exists
<1>3. ASSUME NEW x \in Writers, Commit(x)
      PROVE  /\ Exists => Exists'
             /\ db["routing"] # None => db'["routing"] # None
  BY <1>1, <1>3 DEF Commit, LatestRouting, Exists
<1>4. CASE UNCHANGED db
  BY <1>4 DEF Exists
<1>5. ASSUME NEW x \in Writers, Begin(x) \/ Write(x) \/ Delete(x) \/ Lose(x) PROVE UNCHANGED db
  BY <1>5 DEF Begin, Write, Delete, Lose
<1>6. ASSUME NEW r \in Readers, Serve(r) PROVE UNCHANGED db
  BY <1>6 DEF Serve, TicketUnknown, Hit, Miss, Evict, Load, LoadNothing, Fill, Answer
<1> QED
  BY <1>2, <1>3, <1>4, <1>5, <1>6 DEF Next, WriterStep, Ask, Expire, EntryUnreadable,
     RedisStops, RedisStarts, vars

(* A transaction that says routed, and any that is done, keeps the relation *)
(* of its status, its decisions and the committed decision.                 *)
LEMMA RoutedKept == IInv /\ [Next]_vars => RoutedRunsDecided'
<1> SUFFICES ASSUME IInv, [Next]_vars, NEW x \in Writers
             PROVE  /\ stage'[x] \in {"retrieve", "suggest", "complete"} => "routing" \in wrote'[x]
                    /\ outcome'[x] = "routed" =>
                         "routing" \in wrote'[x] /\ stage'[x] \in {"commit", "done"}
                    /\ stage'[x] = "done" /\ "routing" \in wrote'[x] => db'["routing"] # None
                    /\ stage'[x] # "ready" => Exists'
  BY DEF RoutedRunsDecided
<1> DEFINE Goal == /\ stage'[x] \in {"retrieve", "suggest", "complete"} => "routing" \in wrote'[x]
                   /\ outcome'[x] = "routed" =>
                        "routing" \in wrote'[x] /\ stage'[x] \in {"commit", "done"}
                   /\ stage'[x] = "done" /\ "routing" \in wrote'[x] => db'["routing"] # None
                   /\ stage'[x] # "ready" => Exists'
<1> USE DEF IInv, TypeOK, store, writer, reader
<1>1. /\ Exists => Exists'
      /\ db["routing"] # None => db'["routing"] # None
  BY RowsStay
<1>2. /\ x # Intake /\ None # "routed" /\ x \in Rows
      /\ None \notin Writers
  BY WritersAssumption DEF None, Rows
<1>3. CASE stage'[x] = stage[x] /\ wrote'[x] = wrote[x] /\ outcome'[x] = outcome[x]
  BY <1>1, <1>3 DEF RoutedRunsDecided
<1>4. CASE Begin(x)
  BY <1>1, <1>4 DEF Begin, RoutedRunsDecided
<1>5. CASE Write(x)
  <2> DEFINE s == stage[x]
  <2>1. /\ s \in Stages /\ stage'[x] \in After(x, s)
        /\ wrote'[x] = wrote[x] \cup Written[s]
        /\ outcome'[x] = StatusAfter(s, outcome[x])
        /\ outcome[x] # "routed" /\ Exists
    BY <1>2, <1>5 DEF Write, RoutedRunsDecided, Stages
  <2>2. stage'[x] # "done"
    BY <2>1 DEF After
  <2>3. stage'[x] \in {"retrieve", "suggest", "complete"} => "routing" \in wrote'[x]
    <3>1. CASE s = "classify"
      BY <2>1, <3>1 DEF Written
    <3>2. CASE s \in {"retrieve", "suggest", "complete"}
      BY <2>1, <3>2 DEF RoutedRunsDecided
    <3>3. CASE s \in {"start", "embed", "fail"}
      BY <2>1, <3>3 DEF After
    <3> QED
      BY <2>1, <3>1, <3>2, <3>3 DEF Stages
  <2>4. outcome'[x] = "routed" => s = "complete"
    BY <2>1 DEF StatusAfter
  <2>5. s = "complete" => stage'[x] = "commit" /\ "routing" \in wrote'[x]
    BY <2>1 DEF After, RoutedRunsDecided
  <2> QED
    BY <1>1, <2>1, <2>2, <2>3, <2>4, <2>5
<1>6. CASE Commit(x)
  BY <1>1, <1>2, <1>6 DEF Commit, RoutedRunsDecided, LatestRouting, Families
<1>7. CASE Lose(x)
  BY <1>2, <1>7 DEF Lose
<1>8. CASE Delete(x)
  BY <1>3, <1>8 DEF Delete
<1>9. ASSUME NEW y \in Writers \ {x}, WriterStep(y) \/ Lose(y) PROVE Goal
  BY <1>2, <1>3, <1>9 DEF WriterStep, Begin, Write, Delete, Commit, Lose
<1>10. ASSUME NEW r \in Readers, Serve(r) PROVE UNCHANGED <<stage, wrote, outcome>>
  BY <1>10 DEF Serve, TicketUnknown, Hit, Miss, Evict, Load, LoadNothing, Fill, Answer
<1>11. CASE Create
  BY <1>2, <1>3, <1>11 DEF Create
<1> QED
  BY <1>3, <1>4, <1>5, <1>6, <1>7, <1>8, <1>9, <1>10, <1>11 DEF Next, WriterStep, Ask, Expire,
     EntryUnreadable, RedisStops, RedisStarts, vars

(* A client is told routed by a committed row, whose run had decided.       *)
LEMMA SawKept == IInv /\ [Next]_vars => ReadersSawDecisions'
<1> SUFFICES ASSUME IInv, [Next]_vars PROVE ReadersSawDecisions'
  OBVIOUS
<1> USE DEF IInv, TypeOK, store, writer, reader
<1>1. /\ Exists => Exists'
      /\ db["routing"] # None => db'["routing"] # None
  BY RowsStay
<1>2. Intake \in Rows /\ Intake \notin Writers /\ None \notin Rows
      /\ "not_found" \notin Rows
  BY WritersAssumption DEF Rows, Intake, None
<1>3. outcome'[Intake] # "routed"
  <2>1. ASSUME NEW x \in Writers, WriterStep(x) \/ Lose(x) PROVE outcome'[Intake] = outcome[Intake]
    BY <1>2, <2>1 DEF WriterStep, Begin, Write, Delete, Commit, Lose
  <2>2. ASSUME NEW r \in Readers, Serve(r) PROVE UNCHANGED outcome
    BY <2>2 DEF Serve, TicketUnknown, Hit, Miss, Evict, Load, LoadNothing, Fill, Answer
  <2> QED
    BY <1>2, <2>1, <2>2 DEF Next, Create, Ask, Expire, EntryUnreadable, RedisStops,
       RedisStarts, vars, ReadersSawDecisions
<1>4. db'["routing"] # None => Exists'
  <2>1. ASSUME NEW x \in Writers, Commit(x) PROVE Exists'
    BY <1>1, <2>1 DEF Commit, RoutedRunsDecided
  <2>2. CASE Create
    BY <1>2, <2>2 DEF Create, Exists, Families
  <2>3. CASE UNCHANGED db
    BY <2>3 DEF ReadersSawDecisions, Exists
  <2>4. ASSUME NEW x \in Writers, Begin(x) \/ Write(x) \/ Delete(x) \/ Lose(x) PROVE UNCHANGED db
    BY <2>4 DEF Begin, Write, Delete, Lose
  <2>5. ASSUME NEW r \in Readers, Serve(r) PROVE UNCHANGED db
    BY <2>5 DEF Serve, TicketUnknown, Hit, Miss, Evict, Load, LoadNothing, Fill, Answer
  <2> QED
    BY <2>1, <2>2, <2>3, <2>4, <2>5 DEF Next, WriterStep, Ask, Expire, EntryUnreadable,
       RedisStops, RedisStarts, vars
<1>5. ASSUME NEW r \in Readers, step'[r] = "fill" PROVE got'[r] # None
  <2>1. CASE step'[r] = step[r] /\ got'[r] = got[r]
    BY <1>5, <2>1 DEF ReadersSawDecisions
  <2>2. ASSUME NEW q \in Readers, Serve(q) PROVE got'[r] # None
    <3>1. CASE Load(q)
      BY <1>5, <3>1 DEF Load, ReadersSawDecisions
    <3>2. CASE Hit(q) \/ TicketUnknown(q) \/ LoadNothing(q) \/ Fill(q)
      BY <1>5, <3>2 DEF Hit, TicketUnknown, LoadNothing, Fill, Answer, ReadersSawDecisions
    <3>3. CASE Miss(q) \/ Evict(q)
      BY <1>5, <3>3 DEF Miss, Evict, ReadersSawDecisions
    <3> QED
      BY <2>2, <3>1, <3>2, <3>3 DEF Serve
  <2>3. ASSUME NEW q \in Readers, NEW f \in Families, Ask(q, f) PROVE got'[r] # None
    BY <1>5, <2>3 DEF Ask, ReadersSawDecisions
  <2>4. ASSUME NEW x \in Writers, WriterStep(x) \/ Lose(x) PROVE UNCHANGED <<step, got>>
    BY <2>4 DEF WriterStep, Begin, Write, Delete, Commit, Lose
  <2> QED
    BY <2>1, <2>2, <2>3, <2>4 DEF Next, Create, Expire, EntryUnreadable, RedisStops,
       RedisStarts, vars
<1>6. ASSUME NEW row \in Rows, outcome[row] = "routed", Committed(row)
      PROVE  db["routing"] # None
  BY <1>2, <1>6 DEF Rows, Committed, RoutedRunsDecided, ReadersSawDecisions
<1>7. ASSUME NEW r \in Readers, r \in seenRouted' PROVE db'["routing"] # None
  <2>1. CASE r \in seenRouted
    BY <1>1, <2>1 DEF ReadersSawDecisions
  <2>2. ASSUME NEW q \in Readers, Hit(q), r \notin seenRouted PROVE db["routing"] # None
    <3>1. /\ cache[asks[q]] \in Rows /\ outcome[cache[asks[q]]] = "routed"
          /\ Committed(cache[asks[q]])
      BY <1>7, <2>2 DEF Hit, Answer, SeenRowsAreCommitted
    <3> QED
      BY <1>6, <3>1
  <2>3. ASSUME NEW q \in Readers, Fill(q), r \notin seenRouted PROVE db["routing"] # None
    <3>1. got[q] \in Rows /\ outcome[got[q]] = "routed" /\ Committed(got[q])
      BY <1>7, <2>3 DEF Fill, SeenRowsAreCommitted
    <3> QED
      BY <1>6, <3>1
  <2>4. ASSUME NEW q \in Readers, TicketUnknown(q) PROVE UNCHANGED seenRouted
    BY <2>4 DEF TicketUnknown, Answer
  <2>5. ASSUME NEW q \in Readers, LoadNothing(q) PROVE UNCHANGED seenRouted
    BY <1>2, <2>5 DEF LoadNothing, Answer
  <2>6. ASSUME NEW x \in Writers, WriterStep(x) \/ Lose(x) PROVE UNCHANGED seenRouted
    BY <2>6 DEF WriterStep, Begin, Write, Delete, Commit, Lose
  <2>7. ASSUME NEW q \in Readers, Miss(q) \/ Evict(q) \/ Load(q) PROVE UNCHANGED seenRouted
    BY <2>7 DEF Miss, Evict, Load
  <2> QED
    BY <1>1, <1>7, <2>1, <2>2, <2>3, <2>4, <2>5, <2>6, <2>7 DEF Next, Serve, Create, Ask, Expire,
       EntryUnreadable, RedisStops, RedisStarts, vars
<1> QED
  BY <1>3, <1>4, <1>5, <1>7 DEF ReadersSawDecisions

(* A request for the decision that such a client makes finds the row, which *)
(* is there by then and stays, in the cache or in Postgres.                 *)
LEMMA FindKept == IInv /\ [Next]_vars => RoutedClientsFindADecision'
<1> SUFFICES ASSUME IInv, [Next]_vars, NEW r \in Readers,
                    r \in seenRouted', asks'[r] = "routing", step'[r] = "idle"
             PROVE  answer'[r] \in Rows
  BY DEF RoutedClientsFindADecision
<1> USE DEF IInv, TypeOK, store, writer, reader
<1>1. CASE UNCHANGED <<asks, step, answer, seenRouted>>
  BY <1>1 DEF RoutedClientsFindADecision
<1>2. ASSUME NEW q \in Readers, NEW f \in Families, Ask(q, f) PROVE answer'[r] \in Rows
  BY <1>2 DEF Ask, RoutedClientsFindADecision
<1>3. ASSUME NEW q \in Readers, q # r, Serve(q) PROVE answer'[r] \in Rows
  <2>1. /\ asks'[r] = asks[r] /\ step'[r] = step[r] /\ answer'[r] = answer[r]
        /\ r \in seenRouted
    BY <1>3 DEF Serve, TicketUnknown, Hit, Miss, Evict, Load, LoadNothing, Fill, Answer
  <2> QED
    BY <2>1 DEF RoutedClientsFindADecision
<1>4. ASSUME Serve(r) PROVE answer'[r] \in Rows
  <2>1. asks[r] = "routing"
    BY <1>4 DEF Serve, TicketUnknown, Hit, Miss, Evict, Load, LoadNothing, Fill, Answer
  <2>2. r \in seenRouted
    BY <1>4, <2>1 DEF Serve, TicketUnknown, Hit, Miss, Evict, Load, LoadNothing, Fill, Answer
  <2>3. db["routing"] # None /\ Exists
    BY <2>2 DEF ReadersSawDecisions
  <2>4. CASE Hit(r)
    BY <2>4 DEF Hit, Answer
  <2>5. CASE Fill(r)
    BY <2>5 DEF Fill, ReadersSawDecisions
  <2>6. CASE TicketUnknown(r) \/ LoadNothing(r)
    BY <2>1, <2>3, <2>6 DEF TicketUnknown, LoadNothing
  <2>7. CASE Miss(r) \/ Evict(r) \/ Load(r)
    BY <2>7 DEF Miss, Evict, Load
  <2> QED
    BY <1>4, <2>4, <2>5, <2>6, <2>7 DEF Serve
<1>5. ASSUME NEW x \in Writers, WriterStep(x) \/ Lose(x)
      PROVE  UNCHANGED <<asks, step, answer, seenRouted>>
  BY <1>5 DEF WriterStep, Begin, Write, Delete, Commit, Lose
<1> QED
  BY <1>1, <1>2, <1>3, <1>4, <1>5 DEF Next, Create, Expire, EntryUnreadable, RedisStops,
     RedisStarts, vars

LEMMA Invariant == Spec => []IInv
<1>1. IInv /\ [Next]_vars => IInv'
  BY TypeKept, SeenKept, DirtyKept, RoutedKept, SawKept, FindKept DEF IInv
<1> QED
  BY <1>1, InitInv, PTL DEF Spec

-----------------------------------------------------------------------------
(* Every reachable state is typed.                                          *)
THEOREM TypeCorrect == Spec => []TypeOK
<1>1. IInv => TypeOK
  BY DEF IInv
<1> QED
  BY <1>1, Invariant, PTL

(* Nothing a transaction has not committed ever gets into Redis, because    *)
(* writers only delete and readers fill with what Postgres showed them.     *)
THEOREM CachedRowsAreCommitted == Spec => []OnlyCommittedRowsCached
<1>1. IInv => OnlyCommittedRowsCached
  BY DEF IInv, OnlyCommittedRowsCached, SeenRowsAreCommitted, Committed
<1> QED
  BY <1>1, Invariant, PTL

(* No path through the pipeline comes to its commit with a key still to be  *)
(* deleted of a family it wrote.                                            *)
THEOREM WritesAreFollowedByDeletes == Spec => []EveryWriteIsFollowedByItsDelete
<1>1. IInv => EveryWriteIsFollowedByItsDelete
  BY PendingNone DEF IInv, EveryWriteIsFollowedByItsDelete, DirtyKeysArePending, Postponed
<1> QED
  BY <1>1, Invariant, PTL

(* However stale the cache may be, routed is never shown ahead of the       *)
(* decision.                                                                *)
THEOREM RoutedMeansDecided == Spec => []RoutedClientsFindADecision
<1>1. IInv => RoutedClientsFindADecision
  BY DEF IInv
<1> QED
  BY <1>1, Invariant, PTL
=============================================================================
