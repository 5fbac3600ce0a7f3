------------------------ MODULE TicketHistory_proofs ------------------------
(***************************************************************************)
(* Proofs about TicketHistory, for any number of runs, requests, clients   *)
(* and events, any limits and any number of lost transactions.             *)
(***************************************************************************)
EXTENDS TicketHistory, FiniteSetTheorems, FunctionTheorems, SequenceTheorems, TLAPS

(* A transaction has one now(), from its first statement until it is lost.  *)
BegunInv ==
  /\ \A i, j \in DOMAIN begun : begun[i] = begun[j] => i = j
  /\ \A x \in Transactions : stage[x] # "ready" <=> \E i \in DOMAIN begun : begun[i] = x

(* A commit makes all the events of its transaction visible, or none.       *)
EventsInv ==
  /\ events = {e \in Event : stage[e.by] = "done"}
  /\ IsFiniteSet(events)

(* The decisions of a run are of one transaction and agree; a run that was  *)
(* overtaken, was so by a run whose decisions stay.                         *)
DecisionsInv ==
  /\ \A d \in decisions : stage[d.by] = "done"
  /\ \A d, o \in decisions : d.by = o.by => d.reason = o.reason
  /\ \A x \in overtaken :
       stage[x] = "done" /\ \E d \in decisions : Position(d.by) > Position(x)

(* What is read is of the kind that was asked for.                          *)
AsksInv ==
  \A r \in Readers : step[r] = "fill" =>
    /\ asks[r] = "trail" => got[r] \in Trails
    /\ asks[r] = "routing" => got[r] \in Routings

(* The rows in front of a transaction's successor are all that it has.      *)
Whole(trail) ==
  \A i, j \in DOMAIN trail : i < j /\ trail[i].by # trail[j].by =>
    NumEvents(trail[i].by) = Cardinality({k \in 1..(j - 1) : trail[k].by = trail[i].by})

Latest(d, D, O) == d \in D /\ d.by \notin O

(* What clients may be shown, wherever it is kept on its way to them.       *)
Sound(view, D, O) ==
  /\ view.kind = "trail" => Whole(view.rows)
  /\ view.kind = "routing" => Latest(view.rows[1], D, O)

ViewsInv ==
  /\ Sound(cache.trail, decisions, overtaken) /\ Sound(cache.routing, decisions, overtaken)
  /\ \A r \in Readers : /\ Sound(got[r], decisions, overtaken)
                        /\ Sound(answer[r], decisions, overtaken)

IInv ==
  /\ TypeOK /\ BegunInv /\ EventsInv /\ DecisionsInv /\ AsksInv /\ ViewsInv
  /\ LongTrailsAreAnswered

-----------------------------------------------------------------------------
(* Where a transaction is among those that have begun.                      *)
At(b, x) == CHOOSE i \in DOMAIN b : b[i] = x

LEMMA AtIs ==
  ASSUME NEW b, NEW x, \E i \in DOMAIN b : b[i] = x
  PROVE  At(b, x) \in DOMAIN b /\ b[At(b, x)] = x
BY DEF At

LEMMA AtUnique ==
  ASSUME NEW b, NEW i \in DOMAIN b, \A j, k \in DOMAIN b : b[j] = b[k] => j = k
  PROVE  At(b, b[i]) = i
BY AtIs

(* A sequence without repetitions stays one when an element is added or     *)
(* removed, and the other elements keep their order.                        *)
LEMMA AppendKeepsOrder ==
  ASSUME NEW S, NEW b \in Seq(S), NEW z \in S, \A i \in DOMAIN b : b[i] # z,
         \A j, k \in DOMAIN b : b[j] = b[k] => j = k
  PROVE  LET c == Append(b, z) IN
         /\ c \in Seq(S)
         /\ \A j, k \in DOMAIN c : c[j] = c[k] => j = k
         /\ \A x : (\E i \in DOMAIN c : c[i] = x) <=> x = z \/ \E i \in DOMAIN b : b[i] = x
         /\ \A i \in DOMAIN b : At(c, b[i]) = i /\ At(b, b[i]) = i
<1> DEFINE c == Append(b, z)
<1>1. c \in Seq(S) /\ DOMAIN b = 1..Len(b) /\ DOMAIN c = 1..(Len(b) + 1) /\ Len(b) \in Nat
  OBVIOUS
<1>2. c[Len(b) + 1] = z /\ \A i \in DOMAIN b : i \in DOMAIN c /\ c[i] = b[i]
  BY <1>1
<1> HIDE DEF c
<1>3. \A j, k \in DOMAIN c : c[j] = c[k] => j = k
  <2> SUFFICES ASSUME NEW j \in DOMAIN c, NEW k \in DOMAIN c, c[j] = c[k] PROVE j = k
    OBVIOUS
  <2>1. (j \in DOMAIN b \/ j = Len(b) + 1) /\ (k \in DOMAIN b \/ k = Len(b) + 1)
    BY <1>1
  <2> QED
    BY <1>2, <2>1
<1>4. \A x : (\E i \in DOMAIN c : c[i] = x) <=> x = z \/ \E i \in DOMAIN b : b[i] = x
  <2>1. \A i \in DOMAIN c : i \in DOMAIN b \/ i = Len(b) + 1
    BY <1>1
  <2>2. Len(b) + 1 \in DOMAIN c
    BY <1>1
  <2> QED
    BY <1>2, <2>1, <2>2
<1>5. \A i \in DOMAIN b : At(c, b[i]) = i /\ At(b, b[i]) = i
  BY <1>2, <1>3, AtUnique
<1> QED
  BY <1>1, <1>3, <1>4, <1>5 DEF c

LEMMA RemoveKeepsOrder ==
  ASSUME NEW S, NEW b \in Seq(S), NEW p \in DOMAIN b,
         \A j, k \in DOMAIN b : b[j] = b[k] => j = k
  PROVE  LET c == RemoveAt(b, p) IN
         /\ c \in Seq(S)
         /\ \A j, k \in DOMAIN c : c[j] = c[k] => j = k
         /\ \A x : (\E i \in DOMAIN c : c[i] = x) <=> x # b[p] /\ \E i \in DOMAIN b : b[i] = x
         /\ \A i \in DOMAIN b \ {p} :
              At(c, b[i]) = (IF i < p THEN i ELSE i - 1) /\ At(b, b[i]) = i
<1> DEFINE c == RemoveAt(b, p)
           n == Len(b)
<1>1. n \in Nat /\ p \in 1..n /\ DOMAIN b = 1..n /\ DOMAIN b \subseteq Nat
  OBVIOUS
<1> DEFINE front == SubSeq(b, 1, p - 1)
           back == SubSeq(b, p + 1, n)
<1>2. /\ front \in Seq(S) /\ Len(front) = p - 1
      /\ \A i \in 1..(p - 1) : front[i] = b[i]
  BY <1>1
<1>3. /\ back \in Seq(S) /\ Len(back) = n - p
      /\ \A i \in 1..(n - p) : back[i] = b[i + p]
  BY <1>1
<1>c. c = front \o back
  BY DEF RemoveAt
<1> HIDE DEF c, n, front, back
<1>4. /\ c \in Seq(S) /\ DOMAIN c = 1..(n - 1)
      /\ \A i \in 1..(n - 1) : c[i] = IF i < p THEN b[i] ELSE b[i + 1]
  <2>1. c \in Seq(S) /\ Len(c) = n - 1
    <3>1. c \in Seq(S) /\ Len(c) = Len(front) + Len(back)
      BY <1>2, <1>3, <1>c, ConcatProperties
    <3>2. (p - 1) + (n - p) = n - 1
      BY <1>1
    <3> QED
      BY <1>2, <1>3, <3>1, <3>2
  <2>2. ASSUME NEW i \in 1..(n - 1), i < p PROVE c[i] = b[i]
    BY <1>1, <1>2, <1>3, <1>c, <2>2
  <2>3. ASSUME NEW i \in 1..(n - 1), ~(i < p) PROVE c[i] = b[i + 1]
    <3>1. c[i] = back[i - (p - 1)] /\ i - (p - 1) \in 1..(n - p)
      <4>1. \A k \in 1..(Len(front) + Len(back)) :
              (front \o back)[k] = IF k <= Len(front) THEN front[k] ELSE back[k - Len(front)]
        BY <1>2, <1>3, ConcatProperties
      <4>2. i \in 1..(Len(front) + Len(back)) /\ ~(i <= Len(front))
        BY <1>1, <1>2, <1>3, <2>3
      <4>3. c[i] = back[i - Len(front)]
        BY <1>c, <4>1, <4>2
      <4> QED
        BY <1>1, <1>2, <2>3, <4>3
    <3>2. (i - (p - 1)) + p = i + 1
      BY <1>1
    <3> QED
      BY <1>3, <3>1, <3>2
  <2> QED
    BY <2>1, <2>2, <2>3
<1>5. \A j, k \in DOMAIN c : c[j] = c[k] => j = k
  <2> SUFFICES ASSUME NEW j \in DOMAIN c, NEW k \in DOMAIN c, c[j] = c[k] PROVE j = k
    OBVIOUS
  <2>1. PICK u \in DOMAIN b : c[j] = b[u] /\ u = IF j < p THEN j ELSE j + 1
    BY <1>1, <1>4
  <2>2. PICK v \in DOMAIN b : c[k] = b[v] /\ v = IF k < p THEN k ELSE k + 1
    BY <1>1, <1>4
  <2>3. u = v
    BY <2>1, <2>2
  <2> QED
    BY <1>1, <1>4, <2>1, <2>2, <2>3
<1>6. \A i \in DOMAIN b \ {p} :
        /\ (IF i < p THEN i ELSE i - 1) \in DOMAIN c
        /\ c[IF i < p THEN i ELSE i - 1] = b[i]
  BY <1>1, <1>4
<1>7. \A x : (\E i \in DOMAIN c : c[i] = x) <=> x # b[p] /\ \E i \in DOMAIN b : b[i] = x
  <2> SUFFICES ASSUME NEW x
               PROVE  (\E i \in DOMAIN c : c[i] = x) <=> x # b[p] /\ \E i \in DOMAIN b : b[i] = x
    OBVIOUS
  <2>1. ASSUME NEW i \in DOMAIN c, c[i] = x PROVE x # b[p] /\ \E u \in DOMAIN b : b[u] = x
    <3>1. PICK u \in DOMAIN b : c[i] = b[u] /\ u = IF i < p THEN i ELSE i + 1
      BY <1>1, <1>4
    <3>2. u # p
      BY <1>1, <1>4, <3>1
    <3> QED
      BY <2>1, <3>1, <3>2
  <2>2. ASSUME NEW u \in DOMAIN b, b[u] = x, x # b[p] PROVE \E i \in DOMAIN c : c[i] = x
    BY <1>6, <2>2
  <2> QED
    BY <2>1, <2>2
<1>8. \A i \in DOMAIN b \ {p} :
        At(c, b[i]) = (IF i < p THEN i ELSE i - 1) /\ At(b, b[i]) = i
  <2> TAKE i \in DOMAIN b \ {p}
  <2> DEFINE u == IF i < p THEN i ELSE i - 1
  <2>1. u \in DOMAIN c /\ c[u] = b[i]
    BY <1>6
  <2> HIDE DEF u
  <2>2. At(c, c[u]) = u /\ At(b, b[i]) = i
    BY <1>5, <2>1, AtUnique
  <2> QED
    BY <2>1, <2>2 DEF u
<1> QED
  BY <1>4, <1>5, <1>7, <1>8 DEF c

-----------------------------------------------------------------------------
(* The rows of a trail.                                                     *)
LEMMA EventFields ==
  ASSUME NEW e \in Event
  PROVE  /\ e.by \in Transactions /\ e.n \in 1..NumEvents(e.by)
         /\ e = [by |-> e.by, n |-> e.n]
BY DEF Event

LEMMA EventOf ==
  ASSUME NEW x \in Transactions, NEW n \in 1..NumEvents(x)
  PROVE  [by |-> x, n |-> n] \in Event
BY DEF Event

LEMMA NumEventsTyped ==
  ASSUME NEW x \in Transactions PROVE NumEvents(x) \in Nat
BY HistoryAssumption DEF NumEvents, Transactions

(* However many rows share a created_at: in a trail ordered by it, nothing  *)
(* of another transaction is between the rows of one.                       *)
LEMMA ListedTrails ==
  ASSUME TypeOK, BegunInv, EventsInv, NEW trail \in list_for_ticket
  PROVE  trail \in Seq(Event) /\ Whole(trail)
<1> DEFINE N == Cardinality(events)
<1>1. N \in Nat /\ IsFiniteSet(events) /\ events \subseteq Event
  BY FS_CardinalityType DEF EventsInv, TypeOK
<1>2. /\ trail \in [1..N -> events]
      /\ \A i, j \in 1..N : i # j => trail[i] # trail[j]
      /\ \A i, j \in 1..N : i < j => Position(trail[i].by) <= Position(trail[j].by)
  BY DEF list_for_ticket, SetToSeqs
<1> HIDE DEF N
<1>3. trail \in Seq(Event) /\ DOMAIN trail = 1..N
  BY <1>1, <1>2
<1>4. \A e \in events : \E k \in 1..N : trail[k] = e
  <2>1. trail \in Injection(1..N, events)
    BY <1>2 DEF Injection, IsInjective
  <2>2. Cardinality(1..N) = Cardinality(events)
    BY <1>1, FS_Interval DEF N
  <2>3. trail \in Surjection(1..N, events)
    BY <1>1, <2>1, <2>2, FS_Injection
  <2> QED
    BY <2>3 DEF Surjection
<1>5. ASSUME NEW i \in 1..N, NEW j \in 1..N, i < j, trail[i].by # trail[j].by
      PROVE  NumEvents(trail[i].by) = Cardinality({k \in 1..(j - 1) : trail[k].by = trail[i].by})
  <2> DEFINE x == trail[i].by
             y == trail[j].by
             K == {k \in 1..(j - 1) : trail[k].by = x}
             n == NumEvents(x)
  <2>1. /\ x \in Transactions /\ y \in Transactions /\ n \in Nat
        /\ stage[x] = "done" /\ stage[y] = "done"
    BY <1>1, <1>2, EventFields, NumEventsTyped DEF EventsInv
  <2>2. Position(x) < Position(y)
    <3>1. /\ Position(x) \in DOMAIN begun /\ begun[Position(x)] = x
          /\ Position(y) \in DOMAIN begun /\ begun[Position(y)] = y
      BY <2>1, AtIs DEF BegunInv, Position, At
    <3>2. Position(x) <= Position(y)
      BY <1>2, <1>5
    <3>3. DOMAIN begun \subseteq Nat
      BY DEF TypeOK
    <3> HIDE DEF x, y
    <3> QED
      BY <1>5, <3>1, <3>2, <3>3 DEF x, y
  <2>3. \A k \in 1..N : trail[k].by = x => k \in K
    <3> SUFFICES ASSUME NEW k \in 1..N, trail[k].by = x, ~(k < j) PROVE FALSE
      BY <1>1
    <3>1. k # j
      BY <1>5
    <3>2. j < k
      BY <1>1, <3>1
    <3>3. Position(y) <= Position(x)
      BY <1>2, <3>2
    <3>4. Position(x) \in Nat /\ Position(y) \in Nat
      BY <2>1, AtIs DEF BegunInv, Position, At, TypeOK
    <3> QED
      BY <2>2, <3>3, <3>4
  <2>4. K \subseteq 1..N
    BY <1>1
  <2> DEFINE g == [k \in K |-> trail[k].n]
  <2>5. g \in [K -> 1..n]
    <3> SUFFICES ASSUME NEW k \in K PROVE trail[k].n \in 1..n
      OBVIOUS
    <3> QED
      BY <1>1, <1>2, <2>4, EventFields
  <2>6. IsInjective(g)
    <3> SUFFICES ASSUME NEW k \in K, NEW l \in K, trail[k].n = trail[l].n PROVE k = l
      BY DEF IsInjective
    <3>1. trail[k] = [by |-> x, n |-> trail[k].n] /\ trail[l] = [by |-> x, n |-> trail[l].n]
      BY <1>1, <1>2, <2>4, EventFields
    <3> QED
      BY <1>2, <2>4, <3>1
  <2>7. \A m \in 1..n : \E k \in K : g[k] = m
    <3> SUFFICES ASSUME NEW m \in 1..n PROVE \E k \in K : trail[k].n = m
      OBVIOUS
    <3>1. [by |-> x, n |-> m] \in events
      BY <2>1, EventOf DEF EventsInv
    <3>2. PICK k \in 1..N : trail[k] = [by |-> x, n |-> m]
      BY <1>4, <3>1
    <3> QED
      BY <2>3, <3>2
  <2> HIDE DEF g, K, n, x
  <2>8. ExistsBijection(K, 1..n)
    BY <2>5, <2>6, <2>7 DEF ExistsBijection, Bijection, Injection, Surjection
  <2>9. Cardinality(K) = n
    BY <2>1, <2>8, Fun_ExistsBijSymmetric, FS_CountingElements
  <2> QED
    BY <2>9 DEF K, n, x
<1> QED
  BY <1>3, <1>5 DEF Whole

LEMMA SummaryKeepsWhole ==
  ASSUME NEW trail \in Seq(Event), Whole(trail)
  PROVE  /\ Summary(trail) \in Seq(Event) /\ Whole(Summary(trail))
         /\ Len(Summary(trail)) <= MaxItems
<1> DEFINE m == IF Len(trail) < MaxItems THEN Len(trail) ELSE MaxItems
           t == Summary(trail)
<1>1. m \in Nat /\ m <= Len(trail) /\ m <= MaxItems /\ Len(trail) \in Nat
  BY HistoryAssumption
<1>2. t \in Seq(Event) /\ Len(t) = m /\ \A i \in 1..m : t[i] = trail[i]
  BY <1>1 DEF Summary
<1>3. ASSUME NEW i \in 1..m, NEW j \in 1..m, i < j, t[i].by # t[j].by
      PROVE  NumEvents(t[i].by) = Cardinality({k \in 1..(j - 1) : t[k].by = t[i].by})
  <2>1. t[i] = trail[i] /\ t[j] = trail[j] /\ i \in DOMAIN trail /\ j \in DOMAIN trail
    BY <1>1, <1>2
  <2>2. \A k \in 1..(j - 1) : t[k] = trail[k]
    BY <1>1, <1>2
  <2>3. {k \in 1..(j - 1) : t[k].by = t[i].by} = {k \in 1..(j - 1) : trail[k].by = trail[i].by}
    BY <2>1, <2>2
  <2> QED
    BY <1>3, <2>1, <2>3 DEF Whole
<1> HIDE DEF m, t
<1>4. DOMAIN t = 1..m
  BY <1>2
<1>5. Whole(t)
  BY <1>3, <1>4 DEF Whole
<1> QED
  BY <1>1, <1>2, <1>5 DEF t


-----------------------------------------------------------------------------
LEMMA InitInv == Init => IInv
<1> SUFFICES ASSUME Init PROVE IInv
  OBVIOUS
<1>1. DOMAIN begun = {} /\ begun \in Seq(Transactions)
  BY DEF Init
<1>2. TypeOK
  <2>1. cache \in [trail : {Empty} \cup Trails, routing : {Empty} \cup Routings]
    BY DEF Init
  <2>2. Len(cache.trail.rows) <= MaxItems
    BY HistoryAssumption DEF Init, Empty, Without
  <2>3. 0 \in 0..MaxFaults
    BY HistoryAssumption
  <2> QED
    BY <1>1, <2>1, <2>2, <2>3 DEF Init, TypeOK
<1>3. BegunInv
  BY <1>1 DEF Init, BegunInv
<1>4. EventsInv
  <2>1. \A e \in Event : stage[e.by] # "done"
    BY EventFields DEF Init
  <2> QED
    BY <2>1, FS_EmptySet DEF Init, EventsInv
<1>5. DecisionsInv /\ AsksInv
  BY DEF Init, DecisionsInv, AsksInv
<1>6. ViewsInv /\ LongTrailsAreAnswered
  BY DEF Init, ViewsInv, Sound, LongTrailsAreAnswered, Empty, Failed, Without
<1> QED
  BY <1>2, <1>3, <1>4, <1>5, <1>6 DEF IInv

-----------------------------------------------------------------------------
(* How a step changes the transactions that have begun: not at all, by one  *)
(* that begins, or by one that is rolled back or finds nothing.             *)
Stays ==
  /\ begun' = begun
  /\ \A x \in Transactions : /\ stage'[x] = "ready" <=> stage[x] = "ready"
                             /\ stage[x] = "done" => stage'[x] = "done"
Begins(z) ==
  /\ stage[z] = "ready" /\ begun' = Append(begun, z)
  /\ \E how \in {"looking", "open"} : stage' = [stage EXCEPT ![z] = how]
Leaves(z) ==
  /\ stage[z] \in {"looking", "open"} /\ begun' = RemoveAt(begun, At(begun, z))
  /\ stage' = [stage EXCEPT ![z] = "ready"]

LEMMA BegunSteps ==
  ASSUME TypeOK, [Next]_vars
  PROVE  Stays \/ \E z \in Transactions : Begins(z) \/ Leaves(z)
<1> USE DEF writer, Stays
<1>1. CASE IntakeBegins
  BY <1>1 DEF IntakeBegins, Begins, Transactions
<1>2. CASE IntakeCommits
  BY <1>2 DEF IntakeCommits, TypeOK, Transactions
<1>3. ASSUME NEW x \in Writers, Begin(x) PROVE Begins(x)
  BY <1>3 DEF Begin, Begins
<1>4. ASSUME NEW x \in Writers, FindNothing(x) \/ Lose(x) PROVE Leaves(x)
  BY <1>4 DEF FindNothing, Lose, Leaves, WithoutNow, Position, At
<1>5. ASSUME NEW x \in Writers, Find(x) \/ Commit(x) PROVE Stays
  BY <1>5 DEF Find, Commit, TypeOK, Transactions
<1>6. ASSUME NEW r \in Readers, Serve(r) \/ \E what \in {"trail", "routing"} : Ask(r, what)
      PROVE  Stays
  BY <1>6 DEF Serve, Ask, TicketUnknown, Hit, Miss, LoadTrail, LoadRouting, Fill, Answer
<1>7. ASSUME NEW f \in {"trail", "routing"}, Vanish(f) PROVE Stays
  BY <1>7 DEF Vanish
<1>8. CASE UNCHANGED vars
  BY <1>8 DEF vars
<1> QED
  BY <1>1, <1>2, <1>3, <1>4, <1>5, <1>6, <1>7, <1>8 DEF Next, Transactions

(* Transactions that are done keep their order.                             *)
LEMMA BegunKept ==
  ASSUME IInv, [Next]_vars
  PROVE  /\ begun' \in Seq(Transactions) /\ BegunInv'
         /\ \A x \in Transactions : stage[x] = "done" => stage'[x] = "done"
         /\ \A x, y \in Transactions : stage[x] = "done" /\ stage[y] = "done" =>
              (Position(x)' > Position(y)' <=> Position(x) > Position(y))
<1> USE DEF IInv, BegunInv
<1>t. begun \in Seq(Transactions) /\ stage \in [Transactions -> {"ready", "looking", "open", "done"}]
  BY DEF TypeOK
<1>p. \A x : Position(x) = At(begun, x) /\ Position(x)' = At(begun', x)
  BY DEF Position, At
<1>d. \A x \in Transactions : stage[x] = "done" => \E i \in DOMAIN begun : begun[i] = x
  OBVIOUS
<1>1. CASE Stays
  BY <1>1, <1>t, <1>p DEF Stays
<1>2. ASSUME NEW z \in Transactions, Begins(z)
      PROVE  /\ begun' \in Seq(Transactions) /\ BegunInv'
             /\ \A x \in Transactions : stage[x] = "done" => stage'[x] = "done"
             /\ \A x, y \in Transactions : stage[x] = "done" /\ stage[y] = "done" =>
                  (Position(x)' > Position(y)' <=> Position(x) > Position(y))
  <2>1. \A i \in DOMAIN begun : begun[i] # z
    BY <1>2 DEF Begins
  <2>2. /\ begun' \in Seq(Transactions)
        /\ \A j, k \in DOMAIN begun' : begun'[j] = begun'[k] => j = k
        /\ \A x : (\E i \in DOMAIN begun' : begun'[i] = x)
                     <=> x = z \/ \E i \in DOMAIN begun : begun[i] = x
        /\ \A i \in DOMAIN begun : At(begun', begun[i]) = i /\ At(begun, begun[i]) = i
    BY <1>2, <1>t, <2>1, AppendKeepsOrder DEF Begins
  <2>3. \A x \in Transactions : stage'[x] # "ready" <=> x = z \/ stage[x] # "ready"
    BY <1>2, <1>t DEF Begins
  <2>4. \A x \in Transactions : stage[x] = "done" => stage'[x] = "done"
    BY <1>2, <1>t DEF Begins
  <2>5. BegunInv'
    BY <2>2, <2>3
  <2>6. \A x \in Transactions : stage[x] = "done" => Position(x)' = Position(x)
    BY <1>d, <1>p, <2>2
  <2> QED
    BY <2>2, <2>4, <2>5, <2>6
<1>3. ASSUME NEW z \in Transactions, Leaves(z)
      PROVE  /\ begun' \in Seq(Transactions) /\ BegunInv'
             /\ \A x \in Transactions : stage[x] = "done" => stage'[x] = "done"
             /\ \A x, y \in Transactions : stage[x] = "done" /\ stage[y] = "done" =>
                  (Position(x)' > Position(y)' <=> Position(x) > Position(y))
  <2> DEFINE p == At(begun, z)
  <2>1. p \in DOMAIN begun /\ begun[p] = z
    BY <1>3, AtIs DEF Leaves
  <2>2. /\ begun' \in Seq(Transactions)
        /\ \A j, k \in DOMAIN begun' : begun'[j] = begun'[k] => j = k
        /\ \A x : (\E i \in DOMAIN begun' : begun'[i] = x)
                     <=> x # z /\ \E i \in DOMAIN begun : begun[i] = x
        /\ \A i \in DOMAIN begun \ {p} :
             At(begun', begun[i]) = (IF i < p THEN i ELSE i - 1) /\ At(begun, begun[i]) = i
    <3>1. begun' = RemoveAt(begun, p)
      BY <1>3 DEF Leaves
    <3>2. \A j, k \in DOMAIN begun : begun[j] = begun[k] => j = k
      OBVIOUS
    <3> HIDE DEF p, IInv
    <3> DEFINE c == RemoveAt(begun, p)
    <3>3. /\ c \in Seq(Transactions)
          /\ \A j, k \in DOMAIN c : c[j] = c[k] => j = k
          /\ \A x : (\E i \in DOMAIN c : c[i] = x)
                       <=> x # begun[p] /\ \E i \in DOMAIN begun : begun[i] = x
          /\ \A i \in DOMAIN begun \ {p} :
               At(c, begun[i]) = (IF i < p THEN i ELSE i - 1) /\ At(begun, begun[i]) = i
      BY <1>t, <2>1, <3>2, RemoveKeepsOrder
    <3> HIDE DEF c
    <3>4. begun' = c
      BY <3>1 DEF c
    <3> QED
      BY <2>1, <3>3, <3>4
  <2> HIDE DEF p
  <2>3. \A x \in Transactions : stage'[x] # "ready" <=> x # z /\ stage[x] # "ready"
    BY <1>3, <1>t DEF Leaves
  <2>4. \A x \in Transactions : stage[x] = "done" => stage'[x] = "done" /\ x # z
    BY <1>3, <1>t DEF Leaves
  <2>5. BegunInv'
    BY <2>2, <2>3
  <2>6. ASSUME NEW x \in Transactions, NEW y \in Transactions, stage[x] = "done", stage[y] = "done"
        PROVE  Position(x)' > Position(y)' <=> Position(x) > Position(y)
    <3>1. PICK i \in DOMAIN begun \ {p} : begun[i] = x
      BY <1>d, <2>1, <2>4, <2>6
    <3>2. PICK j \in DOMAIN begun \ {p} : begun[j] = y
      BY <1>d, <2>1, <2>4, <2>6
    <3>3. /\ Position(x)' = (IF i < p THEN i ELSE i - 1) /\ Position(x) = i
          /\ Position(y)' = (IF j < p THEN j ELSE j - 1) /\ Position(y) = j
      BY <1>p, <2>2, <3>1, <3>2
    <3>4. i \in Nat /\ j \in Nat /\ p \in Nat /\ i # p /\ j # p
      BY <1>t, <2>1
    <3> QED
      BY <3>3, <3>4
  <2> QED
    BY <2>2, <2>4, <2>5, <2>6
<1> QED
  BY <1>1, <1>2, <1>3, BegunSteps


-----------------------------------------------------------------------------
LEMMA EventsKept == IInv /\ [Next]_vars => EventsInv'
<1> SUFFICES ASSUME TypeOK, EventsInv, [Next]_vars PROVE EventsInv'
  BY DEF IInv
<1> USE DEF EventsInv, tables, writer
<1>t. stage \in [Transactions -> {"ready", "looking", "open", "done"}]
  BY DEF TypeOK
<1>b. \A e \in Event : e.by \in Transactions
  BY EventFields
<1>1. CASE IntakeBegins
  BY <1>1, <1>t, <1>b DEF IntakeBegins
<1>2. CASE IntakeCommits
  <2>1. IsFiniteSet(events')
    BY <1>2, FS_AddElement DEF IntakeCommits
  <2>2. \A e \in Event : e.by = Intake <=> e = [by |-> Intake, n |-> 1]
    <3>1. NumEvents(Intake) = 1 /\ Intake \in Transactions
      BY DEF NumEvents, Transactions
    <3>2. [by |-> Intake, n |-> 1] \in Event
      BY <3>1, EventOf
    <3>3. ASSUME NEW e \in Event, e.by = Intake PROVE e = [by |-> Intake, n |-> 1]
      BY <3>1, <3>3, EventFields
    <3> QED
      BY <3>3
  <2>3. [by |-> Intake, n |-> 1] \in Event
    BY EventOf DEF NumEvents, Transactions
  <2>4. \A e \in Event : stage'[e.by] = "done" <=> stage[e.by] = "done" \/ e.by = Intake
    BY <1>2, <1>t, <1>b DEF IntakeCommits, Transactions
  <2>5. events' = events \cup {[by |-> Intake, n |-> 1]}
    BY <1>2 DEF IntakeCommits
  <2> QED
    BY <2>1, <2>2, <2>3, <2>4, <2>5
<1>3. ASSUME NEW x \in Writers, Begin(x) \/ Find(x) \/ FindNothing(x) \/ Lose(x) PROVE EventsInv'
  <2>1. events' = events
    BY <1>3 DEF Begin, Find, FindNothing, Lose
  <2>2. \A y \in Transactions : stage'[y] = "done" <=> stage[y] = "done"
    BY <1>3, <1>t DEF Begin, Find, FindNothing, Lose
  <2> QED
    BY <1>b, <2>1, <2>2
<1>4. ASSUME NEW x \in Writers, Commit(x) PROVE EventsInv'
  <2> DEFINE rows == {[by |-> x, n |-> n] : n \in 1..NumEvents(x)}
  <2>1. x \in Transactions /\ NumEvents(x) \in Nat
    BY NumEventsTyped DEF Transactions
  <2>2. rows = {e \in Event : e.by = x}
    <3>1. rows \subseteq {e \in Event : e.by = x}
      BY <2>1, EventOf
    <3>2. ASSUME NEW e \in Event, e.by = x PROVE e \in rows
      BY <3>2, EventFields
    <3> QED
      BY <3>1, <3>2
  <2>3. IsFiniteSet(rows)
    <3> DEFINE f == [n \in 1..NumEvents(x) |-> [by |-> x, n |-> n]]
    <3>1. f \in Surjection(1..NumEvents(x), rows)
      BY DEF Surjection
    <3>2. IsFiniteSet(1..NumEvents(x))
      BY <2>1, FS_Interval
    <3> QED
      BY <3>1, <3>2, FS_Surjection
  <2>4. events' = events \cup rows
    BY <1>4 DEF Commit
  <2> HIDE DEF rows
  <2>5. IsFiniteSet(events')
    BY <2>3, <2>4, FS_Union
  <2>6. \A e \in Event : stage'[e.by] = "done" <=> stage[e.by] = "done" \/ e.by = x
    BY <1>4, <1>t, <1>b DEF Commit
  <2> QED
    BY <2>2, <2>4, <2>5, <2>6
<1>5. ASSUME NEW r \in Readers, Serve(r) \/ \E what \in {"trail", "routing"} : Ask(r, what)
      PROVE  EventsInv'
  BY <1>5 DEF Serve, Ask, TicketUnknown, Hit, Miss, LoadTrail, LoadRouting, Fill, Answer
<1>6. ASSUME NEW f \in {"trail", "routing"}, Vanish(f) PROVE EventsInv'
  BY <1>6 DEF Vanish
<1>7. CASE UNCHANGED vars
  BY <1>7 DEF vars
<1> QED
  BY <1>1, <1>2, <1>3, <1>4, <1>5, <1>6, <1>7 DEF Next

(* Decisions stay, and what is overtaken later has not committed yet.       *)
LEMMA DecisionSteps ==
  ASSUME TypeOK, [Next]_vars
  PROVE  \/ UNCHANGED <<decisions, overtaken>>
         \/ \E x \in Runs, why \in Reasons :
              /\ stage[x] = "open" /\ stage'[x] = "done"
              /\ decisions' = decisions \cup Rows(x, why)
              /\ overtaken' = IF \E d \in decisions : Position(d.by) > Position(x)
                              THEN overtaken \cup {x} ELSE overtaken
<1> USE DEF tables
<1>1. CASE IntakeBegins \/ IntakeCommits
  BY <1>1 DEF IntakeBegins, IntakeCommits
<1>2. ASSUME NEW x \in Writers, Begin(x) \/ Find(x) \/ FindNothing(x) \/ Lose(x)
      PROVE  UNCHANGED <<decisions, overtaken>>
  BY <1>2 DEF Begin, Find, FindNothing, Lose
<1>3. ASSUME NEW x \in Writers, Commit(x), ~UNCHANGED <<decisions, overtaken>>
      PROVE  \E why \in Reasons :
               /\ x \in Runs /\ stage[x] = "open" /\ stage'[x] = "done"
               /\ decisions' = decisions \cup Rows(x, why)
               /\ overtaken' = IF \E d \in decisions : Position(d.by) > Position(x)
                               THEN overtaken \cup {x} ELSE overtaken
  BY <1>3 DEF Commit, TypeOK, Transactions
<1>4. ASSUME NEW r \in Readers, Serve(r) \/ \E what \in {"trail", "routing"} : Ask(r, what)
      PROVE  UNCHANGED <<decisions, overtaken>>
  BY <1>4 DEF Serve, Ask, TicketUnknown, Hit, Miss, LoadTrail, LoadRouting, Fill, Answer
<1>5. ASSUME NEW f \in {"trail", "routing"}, Vanish(f) PROVE UNCHANGED <<decisions, overtaken>>
  BY <1>5 DEF Vanish
<1>6. CASE UNCHANGED vars
  BY <1>6 DEF vars
<1> QED
  BY <1>1, <1>2, <1>3, <1>4, <1>5, <1>6 DEF Next

LEMMA RowsAre ==
  ASSUME NEW x \in Runs, NEW why \in Reasons
  PROVE  /\ Rows(x, why) \subseteq Decision
         /\ \A d \in Rows(x, why) : d.by = x /\ d.reason = why
BY DEF Rows, Decision, DecisionTypes

LEMMA DecisionsKept == IInv /\ [Next]_vars => DecisionsInv'
<1> SUFFICES ASSUME IInv, [Next]_vars PROVE DecisionsInv'
  OBVIOUS
<1> USE DEF IInv
<1>b. /\ \A x \in Transactions : stage[x] = "done" => stage'[x] = "done"
      /\ \A x, y \in Transactions : stage[x] = "done" /\ stage[y] = "done" =>
           (Position(x)' > Position(y)' <=> Position(x) > Position(y))
  BY BegunKept
<1>t. /\ \A d \in decisions : d.by \in Transactions
      /\ overtaken \subseteq Transactions /\ Runs \subseteq Transactions
  BY DEF TypeOK, Decision, Transactions, Writers
<1>1. CASE UNCHANGED <<decisions, overtaken>>
  BY <1>1, <1>b, <1>t DEF DecisionsInv
<1>2. ASSUME NEW x \in Runs, NEW why \in Reasons,
             stage[x] = "open", stage'[x] = "done",
             decisions' = decisions \cup Rows(x, why),
             overtaken' = IF \E d \in decisions : Position(d.by) > Position(x)
                          THEN overtaken \cup {x} ELSE overtaken
      PROVE  DecisionsInv'
  <2>1. \A d \in decisions : d.by # x
    BY <1>2 DEF DecisionsInv
  <2>2. \A d \in decisions' : stage'[d.by] = "done"
    BY <1>2, <1>b, <1>t, RowsAre DEF DecisionsInv
  <2>3. \A d, o \in decisions' : d.by = o.by => d.reason = o.reason
    BY <1>2, <2>1, RowsAre DEF DecisionsInv
  <2>4. ASSUME NEW y \in overtaken
        PROVE  stage'[y] = "done" /\ \E d \in decisions' : Position(d.by)' > Position(y)'
    BY <1>2, <1>b, <1>t DEF DecisionsInv
  <2>5. ASSUME NEW d \in decisions, Position(d.by) > Position(x)
        PROVE  \E o \in decisions' : Position(o.by)' > Position(x)'
    <3>1. begun' = begun
      <4>1. Stays
        <5>1. ASSUME NEW z \in Transactions, Begins(z) \/ Leaves(z) PROVE FALSE
          BY <1>2, <1>t, <5>1 DEF Begins, Leaves, TypeOK
        <5> QED
          BY <5>1, BegunSteps
      <4> QED
        BY <4>1 DEF Stays
    <3>2. Position(d.by)' = Position(d.by) /\ Position(x)' = Position(x)
      BY <3>1 DEF Position
    <3> QED
      BY <1>2, <2>5, <3>2
  <2> QED
    BY <1>2, <2>2, <2>3, <2>4, <2>5 DEF DecisionsInv
<1> QED
  BY <1>1, <1>2, DecisionSteps

(* A decision that may be shown may be shown for ever.                      *)
LEMMA LatestKept ==
  ASSUME IInv, [Next]_vars, NEW d, Latest(d, decisions, overtaken)
  PROVE  Latest(d, decisions', overtaken')
BY DecisionSteps DEF IInv, Latest, DecisionsInv

LEMMA SoundKept ==
  ASSUME IInv, [Next]_vars, NEW view, Sound(view, decisions, overtaken)
  PROVE  Sound(view, decisions', overtaken')
BY LatestKept DEF Sound

(* The latest decision is of no run that was overtaken.                     *)
LEMMA ListedDecisions ==
  ASSUME IInv, NEW d \in get_latest_for_ticket
  PROVE  d \in Decision /\ Latest(d, decisions, overtaken)
<1> USE DEF IInv
<1>1. d \in decisions /\ \A o \in decisions : Position(o.by) <= Position(d.by)
  BY DEF get_latest_for_ticket
<1>2. \A o \in decisions : Position(o.by) \in Nat
  <2> TAKE o \in decisions
  <2>1. o.by \in Transactions /\ stage[o.by] = "done"
    BY DEF TypeOK, Decision, DecisionsInv, Transactions, Writers
  <2> QED
    BY <2>1, AtIs DEF BegunInv, Position, At, TypeOK
<1>3. d.by \notin overtaken
  <2> SUFFICES ASSUME NEW o \in decisions, Position(o.by) > Position(d.by) PROVE FALSE
    BY DEF DecisionsInv
  <2> QED
    BY <1>1, <1>2
<1> QED
  BY <1>1, <1>3 DEF TypeOK, Latest


-----------------------------------------------------------------------------
(* What the steps of a request put where a client sees it.                  *)
LEMMA ViewFields ==
  /\ \A t : Trail(t).kind = "trail" /\ Trail(t).rows = t
  /\ \A d : Routing(d).kind = "routing" /\ Routing(d).rows = <<d>> /\ Routing(d).rows[1] = d
  /\ \A t \in Seq(Event) : Trail(t) \in Trails
  /\ \A d \in Decision : Routing(d) \in Routings
  /\ \A why : Without(why).kind = why /\ Without(why).rows = <<>>
<1>1. \A d \in Decision : <<d>> \in [{1} -> Decision]
  OBVIOUS
<1> QED
  BY <1>1 DEF Trail, Routing, Trails, Routings, Without

LEMMA CacheFields ==
  ASSUME TypeOK
  PROVE  /\ cache.trail \in {Empty} \cup Trails
         /\ cache.routing \in {Empty} \cup Routings
         /\ \A f \in {"trail", "routing"} : cache[f] \in {Empty} \cup Trails \cup Routings
BY DEF TypeOK

LEMMA EntrySound ==
  ASSUME IInv, NEW f \in {"trail", "routing"}
  PROVE  Sound(cache[f], decisions, overtaken)
BY DEF IInv, ViewsInv

(* Answer gives one client a view and leaves the others theirs.             *)
LEMMA Answered ==
  ASSUME TypeOK, NEW r \in Readers, NEW with, Answer(r, with),
         with \in {Empty, Null, NotFound, Failed} \cup Trails \cup Routings
  PROVE  /\ answer' \in [Readers -> {Empty, Null, NotFound, Failed} \cup Trails \cup Routings]
         /\ got' \in [Readers -> {Empty} \cup Trails \cup Routings]
         /\ step' \in [Readers -> {"idle", "get", "load", "fill"}]
         /\ asks' = asks /\ step'[r] = "idle"
         /\ \A q \in Readers :
              /\ answer'[q] = IF q = r THEN with ELSE answer[q]
              /\ got'[q] = IF q = r THEN Empty ELSE got[q]
              /\ q # r => step'[q] = step[q]
BY DEF Answer, TypeOK

(* Load puts what was read where Fill finds it.                             *)
LEMMA Loaded ==
  ASSUME TypeOK, NEW r \in Readers, NEW view \in Trails \cup Routings,
         step' = [step EXCEPT ![r] = "fill"], got' = [got EXCEPT ![r] = view]
  PROVE  /\ got' \in [Readers -> {Empty} \cup Trails \cup Routings]
         /\ step' \in [Readers -> {"idle", "get", "load", "fill"}]
         /\ got'[r] = view /\ step'[r] = "fill"
         /\ \A q \in Readers : q # r => got'[q] = got[q] /\ step'[q] = step[q]
BY DEF TypeOK

(* The entry that Fill writes.                                              *)
LEMMA EntryTyped ==
  ASSUME IInv, NEW r \in Readers, step[r] = "fill",
         NEW entry, entry = IF asks[r] = "trail" THEN Trail(Summary(got[r].rows)) ELSE got[r]
  PROVE  LET c == [cache EXCEPT ![asks[r]] = entry] IN
         /\ c \in [trail : {Empty} \cup Trails, routing : {Empty} \cup Routings]
         /\ Len(c.trail.rows) <= MaxItems
         /\ Sound(c.trail, decisions, overtaken) /\ Sound(c.routing, decisions, overtaken)
<1> USE DEF IInv
<1>1. CASE asks[r] = "trail"
  <2>1. got[r] \in Trails /\ got[r].kind = "trail" /\ got[r].rows \in Seq(Event)
    BY <1>1 DEF AsksInv, Trails
  <2>2. Whole(got[r].rows)
    BY <2>1 DEF ViewsInv, Sound
  <2> DEFINE t == Summary(got[r].rows)
             c == [cache EXCEPT !["trail"] = Trail(t)]
  <2>3. t \in Seq(Event) /\ Whole(t) /\ Len(t) <= MaxItems
    BY <2>1, <2>2, SummaryKeepsWhole
  <2> HIDE DEF t
  <2>4. Trail(t) \in Trails /\ Trail(t).rows = t /\ Sound(Trail(t), decisions, overtaken)
    BY <2>3, ViewFields DEF Sound
  <2>5. /\ c \in [trail : {Empty} \cup Trails, routing : {Empty} \cup Routings]
        /\ c.trail = Trail(t) /\ c.routing = cache.routing
    BY <2>4 DEF TypeOK
  <2>6. [cache EXCEPT ![asks[r]] = entry] = c
    BY <1>1 DEF t
  <2> HIDE DEF c
  <2> QED
    BY <2>3, <2>4, <2>5, <2>6 DEF ViewsInv
<1>2. CASE asks[r] = "routing"
  <2>1. got[r] \in Routings /\ Sound(got[r], decisions, overtaken)
    BY <1>2 DEF AsksInv, ViewsInv
  <2> DEFINE c == [cache EXCEPT !["routing"] = got[r]]
  <2>2. /\ c \in [trail : {Empty} \cup Trails, routing : {Empty} \cup Routings]
        /\ c.trail = cache.trail /\ c.routing = got[r]
    BY <2>1 DEF TypeOK
  <2>3. [cache EXCEPT ![asks[r]] = entry] = c
    BY <1>2
  <2> HIDE DEF c
  <2> QED
    BY <2>1, <2>2, <2>3 DEF ViewsInv, TypeOK
<1> QED
  BY <1>1, <1>2 DEF TypeOK

(* The entry that is gone leaves the other one.                             *)
LEMMA EntryGone ==
  ASSUME TypeOK, NEW f \in {"trail", "routing"}
  PROVE  LET c == [cache EXCEPT ![f] = Empty] IN
         /\ c \in [trail : {Empty} \cup Trails, routing : {Empty} \cup Routings]
         /\ Len(c.trail.rows) <= MaxItems
         /\ c.trail \in {cache.trail, Empty} /\ c.routing \in {cache.routing, Empty}
<1>1. Len(Empty.rows) <= MaxItems
  BY HistoryAssumption, ViewFields DEF Empty
<1>2. CASE f = "trail"
  BY <1>1, <1>2 DEF TypeOK
<1>3. CASE f = "routing"
  BY <1>3 DEF TypeOK
<1> QED
  BY <1>2, <1>3

LEMMA EmptySound ==
  \A view \in {Empty, Null, NotFound, Failed} : Sound(view, decisions, overtaken)
BY ViewFields DEF Empty, Null, NotFound, Failed, Sound

-----------------------------------------------------------------------------
(* What a request does to what clients may see.                             *)
ReaderInv ==
  /\ asks \in [Readers -> {"trail", "routing"}]
  /\ step \in [Readers -> {"idle", "get", "load", "fill"}]
  /\ got \in [Readers -> {Empty} \cup Trails \cup Routings]
  /\ answer \in [Readers -> {Empty, Null, NotFound, Failed} \cup Trails \cup Routings]
  /\ cache \in [trail : {Empty} \cup Trails, routing : {Empty} \cup Routings]
  /\ Len(cache.trail.rows) <= MaxItems
  /\ AsksInv /\ ViewsInv /\ LongTrailsAreAnswered

LEMMA FailedIsNoView == Failed \notin {Empty, Null, NotFound} \cup Trails \cup Routings
BY ViewFields DEF Failed, Empty, Null, NotFound, Trails, Routings

LEMMA LongTrails ==
  ASSUME NEW trail \in Seq(Event), MaxItems <= DtoMax PROVE DtoAccepts(trail)
<1> DEFINE m == IF Len(trail) < MaxItems THEN Len(trail) ELSE MaxItems
<1>1. m \in Nat /\ m <= Len(trail) /\ m <= MaxItems /\ MaxItems \in Nat /\ DtoMax \in Nat
  BY HistoryAssumption
<1>2. Len(SubSeq(trail, 1, m)) = m
  BY <1>1
<1> QED
  BY <1>1, <1>2 DEF DtoAccepts, Summary

(* The steps that are of no request leave every view as it is.              *)
LEMMA ViewsOnlyChangeByRequests ==
  ASSUME IInv, [Next]_vars, UNCHANGED reader,
         \/ UNCHANGED cache
         \/ \E f \in {"trail", "routing"} : cache' = [cache EXCEPT ![f] = Empty]
  PROVE  ReaderInv'
<1> USE DEF reader
<1>1. TypeOK
  BY DEF IInv
<1>2. /\ cache' \in [trail : {Empty} \cup Trails, routing : {Empty} \cup Routings]
      /\ Len(cache'.trail.rows) <= MaxItems
      /\ cache'.trail \in {cache.trail, Empty} /\ cache'.routing \in {cache.routing, Empty}
  BY <1>1, EntryGone DEF TypeOK
<1>3. /\ Sound(cache'.trail, decisions, overtaken)
      /\ Sound(cache'.routing, decisions, overtaken)
  BY <1>2, EmptySound DEF IInv, ViewsInv
<1>4. ViewsInv'
  BY <1>3, SoundKept DEF IInv, ViewsInv
<1>5. AsksInv' /\ LongTrailsAreAnswered'
  BY DEF IInv, AsksInv, LongTrailsAreAnswered
<1> QED
  BY <1>1, <1>2, <1>4, <1>5 DEF TypeOK, ReaderInv

(* The steps that are.                                                      *)
LEMMA AnswersAreSound ==
  ASSUME IInv, [Next]_vars, UNCHANGED <<decisions, overtaken>>,
         NEW r \in Readers, NEW with, Answer(r, with),
         with \in {Empty, Null, NotFound} \cup Trails \cup Routings
           \/ (with = Failed /\ ~(MaxItems <= DtoMax)),
         Sound(with, decisions, overtaken),
         /\ cache' \in [trail : {Empty} \cup Trails, routing : {Empty} \cup Routings]
         /\ Len(cache'.trail.rows) <= MaxItems
         /\ Sound(cache'.trail, decisions, overtaken)
         /\ Sound(cache'.routing, decisions, overtaken)
  PROVE  ReaderInv'
<1>1. TypeOK
  BY DEF IInv
<1>2. /\ answer' \in [Readers -> {Empty, Null, NotFound, Failed} \cup Trails \cup Routings]
      /\ got' \in [Readers -> {Empty} \cup Trails \cup Routings]
      /\ step' \in [Readers -> {"idle", "get", "load", "fill"}]
      /\ asks' = asks /\ step'[r] = "idle"
      /\ \A q \in Readers :
           /\ answer'[q] = IF q = r THEN with ELSE answer[q]
           /\ got'[q] = IF q = r THEN Empty ELSE got[q]
           /\ q # r => step'[q] = step[q]
  BY <1>1, Answered
<1>3. ViewsInv'
  <2>1. \A q \in Readers : /\ Sound(answer'[q], decisions, overtaken)
                           /\ Sound(got'[q], decisions, overtaken)
    BY <1>2, EmptySound DEF IInv, ViewsInv
  <2> QED
    BY <2>1 DEF ViewsInv
<1>4. AsksInv'
  BY <1>2 DEF IInv, AsksInv
<1>5. LongTrailsAreAnswered'
  <2>1. MaxItems <= DtoMax => with # Failed
    BY FailedIsNoView
  <2> QED
    BY <1>2, <2>1 DEF IInv, LongTrailsAreAnswered
<1> QED
  BY <1>1, <1>2, <1>3, <1>4, <1>5 DEF TypeOK, ReaderInv

LEMMA ReadsAreSound ==
  ASSUME IInv, [Next]_vars, UNCHANGED <<decisions, overtaken, cache, asks, answer>>,
         NEW r \in Readers, NEW view \in Trails \cup Routings,
         step' = [step EXCEPT ![r] = "fill"], got' = [got EXCEPT ![r] = view],
         asks[r] = "trail" => view \in Trails,
         asks[r] = "routing" => view \in Routings,
         Sound(view, decisions, overtaken)
  PROVE  ReaderInv'
<1>1. TypeOK
  BY DEF IInv
<1>2. /\ got' \in [Readers -> {Empty} \cup Trails \cup Routings]
      /\ step' \in [Readers -> {"idle", "get", "load", "fill"}]
      /\ got'[r] = view /\ step'[r] = "fill"
      /\ \A q \in Readers : q # r => got'[q] = got[q] /\ step'[q] = step[q]
  BY <1>1, Loaded
<1>3. ViewsInv'
  <2>1. \A q \in Readers : Sound(got'[q], decisions, overtaken)
    BY <1>2 DEF IInv, ViewsInv
  <2> QED
    BY <2>1 DEF IInv, ViewsInv
<1>4. AsksInv' /\ LongTrailsAreAnswered'
  BY <1>2 DEF IInv, AsksInv, LongTrailsAreAnswered
<1> QED
  BY <1>1, <1>2, <1>3, <1>4 DEF TypeOK, ReaderInv

LEMMA ReaderKept == IInv /\ [Next]_vars => ReaderInv'
<1> SUFFICES ASSUME IInv, [Next]_vars PROVE ReaderInv'
  OBVIOUS
<1> USE DEF tables
<1>t. TypeOK /\ BegunInv /\ EventsInv
  BY DEF IInv
<1>c. /\ cache \in [trail : {Empty} \cup Trails, routing : {Empty} \cup Routings]
      /\ Len(cache.trail.rows) <= MaxItems
      /\ Sound(cache.trail, decisions, overtaken)
      /\ Sound(cache.routing, decisions, overtaken)
  BY DEF IInv, TypeOK, ViewsInv
<1>1. CASE IntakeBegins \/ IntakeCommits
  BY <1>1, ViewsOnlyChangeByRequests DEF IntakeBegins, IntakeCommits
<1>2. ASSUME NEW x \in Writers, Begin(x) \/ Find(x) \/ FindNothing(x) \/ Commit(x) \/ Lose(x)
      PROVE  ReaderInv'
  BY <1>2, ViewsOnlyChangeByRequests DEF Begin, Find, FindNothing, Commit, Lose
<1>3. ASSUME NEW r \in Readers, NEW what \in {"trail", "routing"}, Ask(r, what)
      PROVE  ReaderInv'
  <2>1. /\ asks' \in [Readers -> {"trail", "routing"}]
        /\ step' \in [Readers -> {"idle", "get", "load", "fill"}]
        /\ answer' \in [Readers -> {Empty, Null, NotFound, Failed} \cup Trails \cup Routings]
        /\ UNCHANGED <<got, cache, decisions, overtaken>>
        /\ step'[r] = "get"
        /\ \A q \in Readers :
             /\ answer'[q] = IF q = r THEN Empty ELSE answer[q]
             /\ q # r => step'[q] = step[q] /\ asks'[q] = asks[q]
    BY <1>3, <1>t DEF Ask, TypeOK
  <2>2. \A q \in Readers : Sound(answer'[q], decisions, overtaken)
    BY <2>1, EmptySound DEF IInv, ViewsInv
  <2>3. ViewsInv'
    BY <2>1, <2>2 DEF IInv, ViewsInv
  <2>4. AsksInv'
    BY <2>1 DEF IInv, AsksInv
  <2>5. LongTrailsAreAnswered'
    BY <2>1, FailedIsNoView DEF IInv, LongTrailsAreAnswered
  <2> QED
    BY <1>c, <1>t, <2>1, <2>3, <2>4, <2>5 DEF TypeOK, ReaderInv
<1>4. ASSUME NEW r \in Readers, TicketUnknown(r) PROVE ReaderInv'
  <2>1. Answer(r, NotFound) /\ cache' = cache /\ UNCHANGED <<decisions, overtaken>>
    BY <1>4 DEF TicketUnknown, Answer
  <2> QED
    BY <1>c, <2>1, EmptySound, AnswersAreSound
<1>5. ASSUME NEW r \in Readers, Hit(r) PROVE ReaderInv'
  <2>1. /\ Answer(r, cache[asks[r]]) /\ cache' = cache /\ UNCHANGED <<decisions, overtaken>>
        /\ asks[r] \in {"trail", "routing"}
    BY <1>5, <1>t DEF Hit, Answer, TypeOK
  <2>2. /\ cache[asks[r]] \in {Empty} \cup Trails \cup Routings
        /\ Sound(cache[asks[r]], decisions, overtaken)
    BY <1>t, <2>1, CacheFields, EntrySound
  <2> QED
    BY <1>c, <2>1, <2>2, AnswersAreSound
<1>6. ASSUME NEW r \in Readers, Miss(r) PROVE ReaderInv'
  <2>1. /\ step' \in [Readers -> {"idle", "get", "load", "fill"}]
        /\ UNCHANGED <<got, answer, asks, cache, decisions, overtaken>>
        /\ \A q \in Readers : step'[q] = "fill" => step[q] = "fill"
    BY <1>6, <1>t DEF Miss, TypeOK
  <2>2. ViewsInv' /\ AsksInv' /\ LongTrailsAreAnswered'
    BY <2>1 DEF IInv, ViewsInv, AsksInv, LongTrailsAreAnswered
  <2> QED
    BY <1>c, <1>t, <2>1, <2>2 DEF TypeOK, ReaderInv
<1>7. ASSUME NEW r \in Readers, LoadTrail(r) PROVE ReaderInv'
  <2>1. PICK trail \in list_for_ticket :
          \/ /\ DtoAccepts(trail)
             /\ step' = [step EXCEPT ![r] = "fill"]
             /\ got' = [got EXCEPT ![r] = Trail(trail)]
             /\ UNCHANGED <<writer, tables, asks, answer, faults>>
          \/ /\ ~DtoAccepts(trail)
             /\ Answer(r, Failed)
    BY <1>7 DEF LoadTrail
  <2>2. trail \in Seq(Event) /\ Whole(trail)
    BY <1>t, ListedTrails
  <2>3. Trail(trail) \in Trails /\ Sound(Trail(trail), decisions, overtaken)
    BY <2>2, ViewFields DEF Sound
  <2>4. asks[r] = "trail" /\ cache' = cache
    BY <1>7 DEF LoadTrail
  <2>5. CASE Answer(r, Failed) /\ ~DtoAccepts(trail)
    <3>1. UNCHANGED <<decisions, overtaken>>
      BY <2>5 DEF Answer
    <3>2. ~(MaxItems <= DtoMax)
      BY <2>2, <2>5, LongTrails
    <3> QED
      BY <1>c, <2>4, <2>5, <3>1, <3>2, EmptySound, AnswersAreSound
  <2>6. CASE /\ step' = [step EXCEPT ![r] = "fill"]
             /\ got' = [got EXCEPT ![r] = Trail(trail)]
             /\ UNCHANGED <<writer, tables, asks, answer, faults>>
    BY <2>3, <2>4, <2>6, ReadsAreSound
  <2> QED
    BY <2>1, <2>5, <2>6
<1>8. ASSUME NEW r \in Readers, LoadRouting(r) PROVE ReaderInv'
  <2>1. asks[r] = "routing" /\ cache' = cache
    BY <1>8 DEF LoadRouting
  <2>2. CASE Answer(r, Null)
    <3>1. UNCHANGED <<decisions, overtaken>>
      BY <2>2 DEF Answer
    <3> QED
      BY <1>c, <2>1, <2>2, <3>1, EmptySound, AnswersAreSound
  <2>3. ASSUME NEW d \in get_latest_for_ticket,
               step' = [step EXCEPT ![r] = "fill"],
               got' = [got EXCEPT ![r] = Routing(d)],
               UNCHANGED <<writer, tables, asks, answer, faults>>
        PROVE  ReaderInv'
    <3>1. d \in Decision /\ Latest(d, decisions, overtaken)
      BY ListedDecisions
    <3>2. Routing(d) \in Routings /\ Sound(Routing(d), decisions, overtaken)
      BY <3>1, ViewFields DEF Sound
    <3> QED
      BY <2>1, <2>3, <3>2, ReadsAreSound
  <2> QED
    BY <1>8, <2>2, <2>3 DEF LoadRouting
<1>9. ASSUME NEW r \in Readers, Fill(r) PROVE ReaderInv'
  <2> DEFINE entry == IF asks[r] = "trail" THEN Trail(Summary(got[r].rows)) ELSE got[r]
             c == [cache EXCEPT ![asks[r]] = entry]
  <2>1. /\ step[r] = "fill" /\ Answer(r, got[r]) /\ cache' \in {cache, c}
        /\ UNCHANGED <<decisions, overtaken>>
    BY <1>9 DEF Fill, Answer
  <2>2. /\ c \in [trail : {Empty} \cup Trails, routing : {Empty} \cup Routings]
        /\ Len(c.trail.rows) <= MaxItems
        /\ Sound(c.trail, decisions, overtaken) /\ Sound(c.routing, decisions, overtaken)
    BY <2>1, EntryTyped
  <2>3. got[r] \in {Empty} \cup Trails \cup Routings /\ Sound(got[r], decisions, overtaken)
    BY <1>t DEF TypeOK, IInv, ViewsInv
  <2> HIDE DEF c
  <2> QED
    BY <1>c, <2>1, <2>2, <2>3, AnswersAreSound
<1>10. ASSUME NEW f \in {"trail", "routing"}, Vanish(f) PROVE ReaderInv'
  BY <1>10, ViewsOnlyChangeByRequests DEF Vanish
<1>11. CASE UNCHANGED vars
  BY <1>11, ViewsOnlyChangeByRequests DEF vars
<1> QED
  BY <1>1, <1>2, <1>3, <1>4, <1>5, <1>6, <1>7, <1>8, <1>9, <1>10, <1>11 DEF Next, Serve

LEMMA TypeKept == IInv /\ [Next]_vars => TypeOK'
<1> SUFFICES ASSUME IInv, [Next]_vars PROVE TypeOK'
  OBVIOUS
<1>1. begun' \in Seq(Transactions)
  BY BegunKept
<1>2. events' \subseteq Event
  BY EventsKept DEF EventsInv
<1>3. decisions' \subseteq Decision /\ overtaken' \subseteq Runs
  BY DecisionSteps, RowsAre DEF IInv, TypeOK
<1>4. stage' \in [Transactions -> {"ready", "looking", "open", "done"}] /\ faults' \in 0..MaxFaults
  <2> USE DEF writer, TypeOK, IInv
  <2>1. CASE IntakeBegins \/ IntakeCommits
    BY <2>1 DEF IntakeBegins, IntakeCommits
  <2>2. ASSUME NEW x \in Writers, Begin(x) \/ Find(x) \/ FindNothing(x) \/ Commit(x) \/ Lose(x)
        PROVE  /\ stage' \in [Transactions -> {"ready", "looking", "open", "done"}]
               /\ faults' \in 0..MaxFaults
    <3>1. CASE Lose(x)
      <4>1. stage' \in [Transactions -> {"ready", "looking", "open", "done"}]
        BY <3>1 DEF Lose
      <4>2. faults < MaxFaults /\ faults' = faults + 1 /\ faults \in 0..MaxFaults
        BY <3>1 DEF Lose
      <4> QED
        BY <4>1, <4>2, HistoryAssumption
    <3>2. CASE Begin(x) \/ Find(x) \/ FindNothing(x) \/ Commit(x)
      <4>1. faults' = faults
        BY <3>2 DEF Begin, Find, FindNothing, Commit
      <4>2. \E how \in {"ready", "looking", "open", "done"} : stage' = [stage EXCEPT ![x] = how]
        BY <3>2 DEF Begin, Find, FindNothing, Commit
      <4> QED
        BY <4>1, <4>2
    <3> QED
      BY <2>2, <3>1, <3>2
  <2>3. ASSUME NEW r \in Readers, Serve(r) \/ \E what \in {"trail", "routing"} : Ask(r, what)
        PROVE  UNCHANGED <<stage, faults>>
    BY <2>3 DEF Serve, Ask, TicketUnknown, Hit, Miss, LoadTrail, LoadRouting, Fill, Answer
  <2>4. ASSUME NEW f \in {"trail", "routing"}, Vanish(f) PROVE UNCHANGED <<stage, faults>>
    BY <2>4 DEF Vanish
  <2>5. CASE UNCHANGED vars
    BY <2>5 DEF vars
  <2> QED
    BY <2>1, <2>2, <2>3, <2>4, <2>5 DEF Next
<1> QED
  BY <1>1, <1>2, <1>3, <1>4, ReaderKept DEF ReaderInv, TypeOK

-----------------------------------------------------------------------------
LEMMA Invariant == Spec => []IInv
<1>1. IInv /\ [Next]_vars => IInv'
  BY TypeKept, BegunKept, EventsKept, DecisionsKept, ReaderKept DEF IInv, ReaderInv
<1> QED
  BY <1>1, InitInv, PTL DEF Spec

(* Every variable keeps its type; in particular an entry of the cache never *)
(* holds more of a trail than the cap.                                      *)
THEOREM TypeCorrect == Spec => []TypeOK
<1>1. IInv => TypeOK
  BY DEF IInv
<1> QED
  BY <1>1, Invariant, PTL

(* ORDER BY created_at is enough to keep transactions apart: rows that      *)
(* share a created_at are of one transaction, all of them are committed     *)
(* together, and max_items can only cut the last transaction that is shown. *)
THEOREM WholeTransactionsShown == Spec => []TrailsShowWholeTransactions
<1>1. IInv => TrailsShowWholeTransactions
  BY DEF IInv, ViewsInv, Sound, Whole, TrailsShowWholeTransactions
<1> QED
  BY <1>1, Invariant, PTL

(* With cache_events_max_items at most the DTO's max_length, the DTO takes  *)
(* every trail, however many events a ticket has.                           *)
THEOREM LongTrailsAnswered == Spec => []LongTrailsAreAnswered
<1>1. IInv => LongTrailsAreAnswered
  BY DEF IInv
<1> QED
  BY <1>1, Invariant, PTL

(* Neither a read that overlaps a commit nor an entry of the cache brings   *)
(* back a decision that was overtaken: a run is overtaken at its own commit *)
(* or never, so what a query may select stays fit to be shown.              *)
THEOREM LatestDecisionsShown == Spec => []DecisionsAreTheLatest
<1>1. IInv => DecisionsAreTheLatest
  BY DEF IInv, ViewsInv, Sound, Latest, DecisionsInv, DecisionsAreTheLatest
<1> QED
  BY <1>1, Invariant, PTL

=============================================================================
