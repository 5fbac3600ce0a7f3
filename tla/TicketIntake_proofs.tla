------------------------- MODULE TicketIntake_proofs -------------------------
(***************************************************************************)
(* Proofs about TicketIntake, for any posts and keys, any size of the pool *)
(* and any number of faults.                                               *)
(***************************************************************************)
EXTENDS TicketIntake, FiniteSetTheorems, TLAPS

(* The transactions of two posts of one key are never open at once, nor is  *)
(* one open beside the other's committed ticket.                            *)
KeysAreExclusive ==
  \A p, q \in Posts :
    SameTicket(p, q) /\ (step[p] \in Uncommitted \/ p \in tickets) =>
      step[q] \notin Uncommitted /\ q \notin tickets

(* A committed ticket was answered 201 by a request that is over.           *)
TicketsWereAnswered ==
  \A p \in tickets : step[p] = "over" /\ reply[p] = "201" /\ p \notin lost

(* What a status code says of the request.                                  *)
RepliesTell ==
  \A p \in Posts :
    /\ reply[p] = "500" => step[p] = "over"
    /\ reply[p] = "201" => step[p] = "answered" \/ p \in tickets \/ p \in lost
    /\ step[p] = "answered" => reply[p] = "201"
    /\ p \in lost => step[p] = "over"

IInv ==
  /\ TypeOK
  /\ tickets = received
  /\ KeysAreExclusive
  /\ TicketsWereAnswered
  /\ RepliesTell
  /\ RefusedOnlyForAStoredTicket

-----------------------------------------------------------------------------
LEMMA HoldersFinite == IsFiniteSet(Holders) /\ Cardinality(Holders) \in Nat
<1>1. IsFiniteSet(Posts \cup Probes) /\ Holders \subseteq Posts \cup Probes
  BY IntakeAssumption, FS_Union DEF Holders
<1> QED
  BY <1>1, FS_Subset, FS_CardinalityType

(* The pool's count grows by at most one, and only where there is room.     *)
LEMMA PoolKept ==
  ASSUME TypeOK,
         \/ Holders' \subseteq Holders
         \/ HasRoom /\ \E p \in Posts \cup Probes : Holders' \subseteq Holders \cup {p}
  PROVE  Cardinality(Holders') <= PoolSize
<1>1. CASE Holders' \subseteq Holders
  BY <1>1, HoldersFinite, FS_Subset, FS_CardinalityType, IntakeAssumption DEF TypeOK
<1>2. CASE HasRoom /\ \E p \in Posts \cup Probes : Holders' \subseteq Holders \cup {p}
  <2>1. PICK p \in Posts \cup Probes : Holders' \subseteq Holders \cup {p}
    BY <1>2
  <2> DEFINE H == Holders
  <2>0. IsFiniteSet(H) /\ Cardinality(H) \in Nat
    BY HoldersFinite
  <2> HIDE DEF H
  <2>2. /\ IsFiniteSet(H \cup {p})
        /\ Cardinality(H \cup {p}) <= Cardinality(H) + 1
    <3>1. /\ IsFiniteSet(H \cup {p})
          /\ Cardinality(H \cup {p}) =
               IF p \in H THEN Cardinality(H) ELSE Cardinality(H) + 1
      BY <2>0, FS_AddElement
    <3> QED
      BY <2>0, <3>1
  <2> USE DEF H
  <2>3. Cardinality(Holders') <= Cardinality(Holders \cup {p})
    BY <2>1, <2>2, FS_Subset
  <2>4. Cardinality(Holders') \in Nat /\ Cardinality(Holders \cup {p}) \in Nat
    BY <2>1, <2>2, FS_Subset, FS_CardinalityType
  <2> QED
    BY <1>2, <2>2, <2>3, <2>4, HoldersFinite, IntakeAssumption DEF HasRoom
<1> QED
  BY <1>1, <1>2

LEMMA InitInv == Init => IInv
<1> SUFFICES ASSUME Init PROVE IInv
  OBVIOUS
<1>1. Holders = {}
  BY DEF Init, Holders, Connected
<1>2. TypeOK
  BY <1>1, FS_EmptySet, IntakeAssumption DEF Init, TypeOK, Steps, Replies, Gets,
     Verdicts
<1> QED
  BY <1>2 DEF Init, IInv, KeysAreExclusive, TicketsWereAnswered, RepliesTell,
     RefusedOnlyForAStoredTicket, Uncommitted

(* A step that changes nothing but the last answer to a read.               *)
LEMMA ReadKeeps ==
  ASSUME IInv, TypeOK', UNCHANGED <<request, store, refused, lost>>
  PROVE  IInv'
BY DEF IInv, request, store, KeysAreExclusive, TicketsWereAnswered, RepliesTell,
   RefusedOnlyForAStoredTicket

(* Every step keeps the invariant.                                          *)
LEMMA NextInv == IInv /\ [Next]_vars => IInv'
<1> SUFFICES ASSUME IInv, [Next]_vars PROVE IInv'
  OBVIOUS
<1> USE DEF IInv, Goto, Fail, store, request
<1>1. ASSUME NEW p \in Posts, Acquire(p) PROVE IInv'
  <2>1. HasRoom /\ Holders' \subseteq Holders \cup {p}
    BY <1>1 DEF Acquire, Holders, Connected, TypeOK
  <2>2. TypeOK'
    BY <1>1, <2>1, PoolKept DEF Acquire, TypeOK, Steps
  <2> QED
    BY <1>1, <2>2 DEF Acquire, TypeOK, KeysAreExclusive, TicketsWereAnswered, RepliesTell,
       RefusedOnlyForAStoredTicket, Uncommitted
<1>2. ASSUME NEW p \in Posts, PoolTimeout(p) PROVE IInv'
  <2>1. Holders' \subseteq Holders
    BY <1>2 DEF PoolTimeout, Holders, Connected, TypeOK
  <2>2. TypeOK'
    BY <1>2, <2>1, PoolKept DEF PoolTimeout, TypeOK, Steps, Replies
  <2> QED
    BY <1>2, <2>2 DEF PoolTimeout, TypeOK, KeysAreExclusive, TicketsWereAnswered, RepliesTell,
       RefusedOnlyForAStoredTicket, Uncommitted
<1>3. ASSUME NEW p \in Posts, Insert(p) PROVE IInv'
  <2>1. Holders' \subseteq Holders
    BY <1>3 DEF Insert, Holders, Connected, TypeOK
  <2>2. TypeOK'
    BY <1>3, <2>1, PoolKept DEF Insert, TypeOK, Steps
  <2>3. KeysAreExclusive'
    BY <1>3 DEF Insert, TypeOK, KeysAreExclusive, Uncommitted, KeyBusy, KeyTaken, SameTicket,
       TicketsWereAnswered
  <2> QED
    BY <1>3, <2>2, <2>3 DEF Insert, TypeOK, TicketsWereAnswered, RepliesTell,
       RefusedOnlyForAStoredTicket
<1>4. ASSUME NEW p \in Posts, Refuse(p) PROVE IInv'
  <2>1. Holders' \subseteq Holders
    BY <1>4 DEF Refuse, Holders, Connected, TypeOK
  <2>2. TypeOK'
    BY <1>4, <2>1, PoolKept DEF Refuse, TypeOK, Steps, Replies
  <2>3. RefusedOnlyForAStoredTicket'
    BY <1>4 DEF Refuse, RefusedOnlyForAStoredTicket, KeyTaken
  <2> QED
    BY <1>4, <2>2, <2>3 DEF Refuse, TypeOK, KeysAreExclusive, TicketsWereAnswered, RepliesTell,
       Uncommitted
<1>5. ASSUME NEW p \in Posts, AppendEvent(p) PROVE IInv'
  <2>1. Holders' \subseteq Holders
    BY <1>5 DEF AppendEvent, Holders, Connected, TypeOK
  <2>2. TypeOK'
    BY <1>5, <2>1, PoolKept DEF AppendEvent, TypeOK, Steps
  <2> QED
    BY <1>5, <2>2 DEF AppendEvent, TypeOK, KeysAreExclusive, TicketsWereAnswered, RepliesTell,
       RefusedOnlyForAStoredTicket, Uncommitted
<1>6. ASSUME NEW p \in Posts, Respond(p) PROVE IInv'
  <2>1. Holders' \subseteq Holders
    BY <1>6 DEF Respond, Holders, Connected, TypeOK
  <2>2. TypeOK'
    BY <1>6, <2>1, PoolKept DEF Respond, TypeOK, Steps, Replies
  <2> QED
    BY <1>6, <2>2 DEF Respond, TypeOK, KeysAreExclusive, TicketsWereAnswered, RepliesTell,
       RefusedOnlyForAStoredTicket, Uncommitted
<1>7. ASSUME NEW p \in Posts, Commit(p) PROVE IInv'
  <2>1. Holders' \subseteq Holders
    BY <1>7 DEF Commit, Holders, Connected, TypeOK
  <2>2. TypeOK'
    BY <1>7, <2>1, PoolKept DEF Commit, TypeOK, Steps
  <2>3. KeysAreExclusive'
    BY <1>7 DEF Commit, TypeOK, KeysAreExclusive, Uncommitted
  <2> QED
    BY <1>7, <2>2, <2>3 DEF Commit, TypeOK, TicketsWereAnswered, RepliesTell,
       RefusedOnlyForAStoredTicket
<1>8. ASSUME NEW p \in Posts, Lose(p) PROVE IInv'
  <2>1. Holders' \subseteq Holders
    BY <1>8 DEF Lose, Holders, Connected, TypeOK
  <2>2. TypeOK'
    BY <1>8, <2>1, PoolKept, IntakeAssumption DEF Lose, TypeOK, Steps, Replies
  <2> QED
    BY <1>8, <2>2 DEF Lose, TypeOK, KeysAreExclusive, TicketsWereAnswered, RepliesTell,
       RefusedOnlyForAStoredTicket, Uncommitted
<1>9. ASSUME NEW p \in Posts, Get(p) PROVE IInv'
  <2>1. TypeOK'
    BY <1>9 DEF Get, TypeOK, Gets, Holders
  <2> QED
    BY <1>9, <2>1, ReadKeeps DEF Get
<1>10. ASSUME Crash PROVE IInv'
  <2>1. PICK waiting \in SUBSET ({p \in Posts : step[p] = "arrived"} \cup
                              {q \in Probes : probe[q] = "sent"}) :
          /\ step' = [p \in Posts |->
                       IF p \in waiting \/ step[p] \in Connected THEN "over" ELSE step[p]]
          /\ probe' = [q \in Probes |->
                        IF q \in waiting \/ probe[q] = "pinged" THEN "gone" ELSE probe[q]]
    BY <1>10 DEF Crash
  <2>2. \A p \in Posts : p \in waiting => step[p] = "arrived"
    BY <2>1, IntakeAssumption
  <2>3. Holders' \subseteq Holders
    BY <2>1 DEF Holders, Connected, TypeOK
  <2>4. probe' \in [Probes -> Verdicts]
    BY <2>1 DEF TypeOK, Verdicts
  <2>5. TypeOK'
    BY <1>10, <2>1, <2>3, <2>4, PoolKept, IntakeAssumption DEF Crash, TypeOK, Steps
  <2>6. /\ \A p \in Posts : step'[p] \notin Uncommitted
        /\ \A p \in Posts : step[p] = "over" => step'[p] = "over"
        /\ \A p \in Posts : step[p] = "answered" => step'[p] = "over" /\ p \in lost'
    BY <1>10, <2>1, <2>2 DEF Crash, TypeOK, Steps, Uncommitted, Connected
  <2>7. KeysAreExclusive'
    BY <1>10, <2>6 DEF Crash, KeysAreExclusive
  <2>8. TicketsWereAnswered' /\ RepliesTell'
    BY <1>10, <2>1, <2>2, <2>6 DEF Crash, TypeOK, TicketsWereAnswered, RepliesTell, Uncommitted, Connected
  <2> QED
    BY <1>10, <2>5, <2>7, <2>8 DEF Crash, RefusedOnlyForAStoredTicket
<1>11. ASSUME NEW q \in Probes, Ping(q) PROVE IInv'
  <2>1. HasRoom /\ Holders' \subseteq Holders \cup {q}
    BY <1>11 DEF Ping, Told, Holders, TypeOK
  <2>2. TypeOK'
    BY <1>11, <2>1, PoolKept DEF Ping, Told, TypeOK, Verdicts
  <2> QED
    BY <1>11, <2>2, ReadKeeps DEF Ping
<1>12. ASSUME NEW q \in Probes, PingFails(q) \/ PingRedis(q) PROVE IInv'
  <2>1. Holders' \subseteq Holders
    BY <1>12 DEF PingFails, PingRedis, Told, Holders, TypeOK
  <2>2. TypeOK'
    BY <1>12, <2>1, PoolKept, IntakeAssumption DEF PingFails, PingRedis, Told, TypeOK, Verdicts
  <2> QED
    BY <1>12, <2>2, ReadKeeps DEF PingFails, PingRedis
<1>13. CASE UNCHANGED vars
  <2>1. TypeOK'
    BY <1>13 DEF vars, TypeOK, Holders
  <2> QED
    BY <1>13, <2>1, ReadKeeps DEF vars
<1> QED
  BY <1>1, <1>2, <1>3, <1>4, <1>5, <1>6, <1>7, <1>8, <1>9, <1>10, <1>11, <1>12, <1>13 DEF Next, Proceed, Probe

LEMMA Invariant == Spec => []IInv
BY InitInv, NextInv, PTL DEF Spec

-----------------------------------------------------------------------------
(* Every reachable state is typed and within the pool's size.               *)
THEOREM TypeCorrect == Spec => []TypeOK
<1>1. IInv => TypeOK
  BY DEF IInv
<1> QED
  BY <1>1, Invariant, PTL

(* The index keeps posts of one external id apart, from their INSERT to the *)
(* end of their transaction, however requests interleave and fail.          *)
THEOREM OneTicket == Spec => []OneTicketPerExternalId
<1>1. IInv => OneTicketPerExternalId
  BY DEF IInv, OneTicketPerExternalId, KeysAreExclusive, RepliesTell, Uncommitted, TypeOK
<1> QED
  BY <1>1, Invariant, PTL

(* No failure leaves a ticket or an event, and no ticket lacks its event.   *)
THEOREM NothingLeft == Spec => []FailuresLeaveNothing
<1>1. IInv => FailuresLeaveNothing
  BY DEF IInv, FailuresLeaveNothing, TicketsWereAnswered
<1> QED
  BY <1>1, Invariant, PTL

(* A duplicate is refused for the sake of a ticket that is there to stay.   *)
THEOREM RefusalsAreTrue == Spec => []RefusedOnlyForAStoredTicket
<1>1. IInv => RefusedOnlyForAStoredTicket
  BY DEF IInv
<1> QED
  BY <1>1, Invariant, PTL

(* A ticket that a client has read stays readable: reads see committed rows *)
(* only, and no step of the API removes one.                                *)
FoundAreStored == \A p \in Posts : got[p] = "200" => p \in tickets

THEOREM FoundStays == Spec => FoundStaysFound
<1>1. Init => FoundAreStored
  BY DEF Init, FoundAreStored
<1>2. TypeOK /\ FoundAreStored /\ [Next]_vars => FoundAreStored'
  <2> SUFFICES ASSUME TypeOK, FoundAreStored, [Next]_vars PROVE FoundAreStored'
    OBVIOUS
  <2>1. ASSUME NEW p \in Posts, Get(p) PROVE FoundAreStored'
    BY <2>1 DEF Get, TypeOK, FoundAreStored, store
  <2>2. CASE UNCHANGED got /\ tickets \subseteq tickets'
    BY <2>2 DEF FoundAreStored
  <2>3. ASSUME NEW p \in Posts, Proceed(p) \/ Lose(p)
        PROVE  UNCHANGED got /\ tickets \subseteq tickets'
    BY <2>3 DEF Proceed, Acquire, PoolTimeout, Insert, Refuse, AppendEvent, Respond, Commit,
       Lose, store
  <2>4. ASSUME NEW q \in Probes, Probe(q)
        PROVE  UNCHANGED got /\ tickets \subseteq tickets'
    BY <2>4 DEF Probe, Ping, PingFails, PingRedis, store
  <2> QED
    BY <2>1, <2>2, <2>3, <2>4 DEF Next, Crash, vars, store
<1>3. TypeOK /\ FoundAreStored /\ [Next]_vars =>
        [\A p \in Posts : got[p] = "200" => got'[p] # "404"]_vars
  <2> SUFFICES ASSUME TypeOK, FoundAreStored, [Next]_vars, NEW p \in Posts, got[p] = "200"
               PROVE  got'[p] # "404"
    OBVIOUS
  <2>1. ASSUME NEW q \in Posts, Get(q) PROVE got'[p] # "404"
    BY <2>1 DEF Get, TypeOK, FoundAreStored
  <2>2. CASE UNCHANGED got
    BY <2>2
  <2>3. ASSUME NEW q \in Posts, Proceed(q) \/ Lose(q) PROVE UNCHANGED got
    BY <2>3 DEF Proceed, Acquire, PoolTimeout, Insert, Refuse, AppendEvent, Respond, Commit, Lose
  <2>4. ASSUME NEW q \in Probes, Probe(q) PROVE UNCHANGED got
    BY <2>4 DEF Probe, Ping, PingFails, PingRedis
  <2> QED
    BY <2>1, <2>2, <2>3, <2>4 DEF Next, Crash, vars
<1> QED
  BY <1>1, <1>2, <1>3, TypeCorrect, PTL DEF Spec, FoundStaysFound
=============================================================================
