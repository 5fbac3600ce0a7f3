---------------------------- MODULE TicketIntake ----------------------------
(***************************************************************************)
(* POST /tickets, GET /tickets/{id} and GET /ready: requests that share    *)
(* the API's pool of Postgres connections and the unique index on (source, *)
(* external_id), each with one transaction that get_db_session commits     *)
(* when the request is over, that is, after the response has been sent.    *)
(***************************************************************************)
EXTENDS Naturals, FiniteSets

CONSTANTS
  Posts,         \* requests to create a ticket, each sent once
  Probes,        \* requests to /ready, each sent once
  NoKey,         \* the key of a request without an external id
  ExternalKey,   \* [Posts -> (source, external_id) or NoKey]
  BadPriority,   \* posts with a priority the table does not allow
  PoolSize,      \* db_pool_size + db_max_overflow
  MaxFaults      \* lost connections and deaths of the process (bound)

ASSUME IntakeAssumption ==
  /\ IsFiniteSet(Posts) /\ IsFiniteSet(Probes) /\ Posts \cap Probes = {}
  /\ BadPriority \subseteq Posts
  /\ PoolSize \in Nat \ {0}
  /\ MaxFaults \in Nat

VARIABLES
  step,      \* [Posts -> Steps]: how far the request's handler is
  reply,     \* [Posts -> Replies]: the status code the client was sent
  tickets,   \* posts whose ticket is committed
  received,  \* posts whose ticket_received event is committed
  refused,   \* posts whose INSERT failed on the unique index
  lost,      \* posts answered 201 whose transaction ended without a commit
  got,       \* [Posts -> Gets]: the last answer to a GET of the post's ticket
  probe,     \* [Probes -> Verdicts]: how far a probe is, or what it was told
  faults

request == <<step, reply>>
store == <<tickets, received>>
vars == <<request, store, refused, lost, got, probe, faults>>

Steps == {"arrived", "connected", "inserted", "logged", "answered", "over"}
Replies == {"none", "201", "500"}
Gets == {"none", "200", "404"}
Verdicts == {"sent", "pinged", "ready", "degraded", "unavailable", "gone"}

Connected == {"connected", "inserted", "logged", "answered"}
Uncommitted == {"inserted", "logged", "answered"}

Init ==
  /\ step = [p \in Posts |-> "arrived"]
  /\ reply = [p \in Posts |-> "none"]
  /\ tickets = {}
  /\ received = {}
  /\ refused = {}
  /\ lost = {}
  /\ got = [p \in Posts |-> "none"]
  /\ probe = [q \in Probes |-> "sent"]
  /\ faults = 0

(* Requests that hold a connection of the pool.                             *)
Holders ==
  {p \in Posts : step[p] \in Connected} \cup {q \in Probes : probe[q] = "pinged"}

(* Everything is of its type, and the pool never lends more than it has.    *)
TypeOK ==
  /\ step \in [Posts -> Steps]
  /\ reply \in [Posts -> Replies]
  /\ tickets \subseteq Posts
  /\ received \subseteq Posts
  /\ refused \subseteq Posts
  /\ lost \subseteq Posts
  /\ got \in [Posts -> Gets]
  /\ probe \in [Probes -> Verdicts]
  /\ faults \in 0..MaxFaults
  /\ Cardinality(Holders) <= PoolSize

-----------------------------------------------------------------------------
(* The partial unique index uq_tickets_source_external_id.                  *)
SameTicket(p, q) == p # q /\ ExternalKey[p] = ExternalKey[q] /\ ExternalKey[p] # NoKey

KeyBusy(p) == \E q \in Posts : SameTicket(p, q) /\ step[q] \in Uncommitted

(* Faulty variants: a plain index; a check that sees uncommitted rows.      *)
NeverTaken(p) == FALSE
TakenOrBusy(p) == KeyBusy(p) \/ \E q \in tickets : SameTicket(p, q)

KeyTaken(p) == \E q \in tickets : SameTicket(p, q)

(* Faulty variant: the overflow is counted one too many.                    *)
RoomForOneMore == Cardinality(Holders) <= PoolSize

HasRoom == Cardinality(Holders) < PoolSize

Goto(p, s) == step' = [step EXCEPT ![p] = s]

(* Any exception before the response: get_db_session rolls back and the     *)
(* catch-all handler answers 500.                                           *)
Fail(p) ==
  /\ Goto(p, "over")
  /\ reply' = [reply EXCEPT ![p] = "500"]

-----------------------------------------------------------------------------
(* The session takes its connection with its first statement, the INSERT.   *)
Acquire(p) ==
  /\ step[p] = "arrived"
  /\ HasRoom
  /\ Goto(p, "connected")
  /\ UNCHANGED <<reply, store, refused, lost, got, probe, faults>>

PoolTimeout(p) ==
  /\ step[p] = "arrived"
  /\ ~HasRoom
  /\ Fail(p)
  /\ UNCHANGED <<store, refused, lost, got, probe, faults>>

(* Faulty variant: the row is committed at once.                            *)
InsertCommits(p) ==
  /\ step[p] = "connected"
  /\ p \notin BadPriority /\ ~KeyBusy(p) /\ ~KeyTaken(p)
  /\ Goto(p, "inserted")
  /\ tickets' = tickets \cup {p}
  /\ UNCHANGED <<reply, received, refused, lost, got, probe, faults>>

(* tickets.create: the flush sends the INSERT, which waits as long as a     *)
(* transaction that inserted the same key is open.                          *)
Insert(p) ==
  /\ step[p] = "connected"
  /\ p \notin BadPriority /\ ~KeyBusy(p) /\ ~KeyTaken(p)
  /\ Goto(p, "inserted")
  /\ UNCHANGED <<reply, store, refused, lost, got, probe, faults>>

(* Faulty variant: an INSERT that waits for ever for a committed row's key. *)
RefusePriorityOnly(p) ==
  /\ step[p] = "connected"
  /\ p \in BadPriority
  /\ Fail(p)
  /\ UNCHANGED <<store, refused, lost, got, probe, faults>>

(* The INSERT fails on the priority check, which comes first, or on the     *)
(* unique index: nothing in the API turns either into a 4xx.                *)
Refuse(p) ==
  /\ step[p] = "connected"
  /\ \/ p \in BadPriority /\ UNCHANGED refused
     \/ /\ p \notin BadPriority /\ KeyTaken(p)
        /\ refused' = refused \cup {p}
  /\ Fail(p)
  /\ UNCHANGED <<store, lost, got, probe, faults>>

(* The ticket_received event, and the delete of the events key in Redis,    *)
(* whose failure the cache store swallows.                                  *)
AppendEvent(p) ==
  /\ step[p] = "inserted"
  /\ Goto(p, "logged")
  /\ UNCHANGED <<reply, store, refused, lost, got, probe, faults>>

(* The response leaves while get_db_session is still inside its yield.      *)
Respond(p) ==
  /\ step[p] = "logged"
  /\ Goto(p, "answered")
  /\ reply' = [reply EXCEPT ![p] = "201"]
  /\ UNCHANGED <<store, refused, lost, got, probe, faults>>

(* Faulty variant: the session is closed without a commit.                  *)
CloseOnly(p) ==
  /\ step[p] = "answered"
  /\ Goto(p, "over")
  /\ UNCHANGED <<reply, store, refused, lost, got, probe, faults>>

Commit(p) ==
  /\ step[p] = "answered"
  /\ Goto(p, "over")
  /\ tickets' = tickets \cup {p}
  /\ received' = received \cup {p}
  /\ UNCHANGED <<reply, refused, lost, got, probe, faults>>

-----------------------------------------------------------------------------
(* Postgres drops the connection of a request.  After the response there is *)
(* nobody left to tell.                                                     *)
Lose(p) ==
  /\ faults < MaxFaults
  /\ faults' = faults + 1
  /\ \/ /\ step[p] \in {"connected", "inserted", "logged"}
        /\ Fail(p)
        /\ UNCHANGED lost
     \/ /\ step[p] = "answered"
        /\ Goto(p, "over")
        /\ lost' = lost \cup {p}
        /\ UNCHANGED reply
  /\ UNCHANGED <<store, refused, got, probe>>

(* The process dies with every open request; one that waited for a          *)
(* connection may or may not have reached it.                               *)
Crash ==
  /\ faults < MaxFaults
  /\ faults' = faults + 1
  /\ \E waiting \in SUBSET ({p \in Posts : step[p] = "arrived"} \cup
                           {q \in Probes : probe[q] = "sent"}) :
       /\ step' = [p \in Posts |->
                    IF p \in waiting \/ step[p] \in Connected THEN "over" ELSE step[p]]
       /\ probe' = [q \in Probes |->
                     IF q \in waiting \/ probe[q] = "pinged" THEN "gone" ELSE probe[q]]
  /\ lost' = lost \cup {p \in Posts : step[p] = "answered"}
  /\ UNCHANGED <<reply, store, refused, got>>

(* Faulty variant: a read that sees uncommitted rows.                       *)
GetDirty(p) ==
  /\ reply[p] = "201"
  /\ HasRoom
  /\ got' = [got EXCEPT ![p] =
       IF p \in tickets \/ step[p] = "answered" THEN "200" ELSE "404"]
  /\ UNCHANGED <<request, store, refused, lost, probe, faults>>

(* GET /tickets/{id} by a client that was told the id.  It is one statement *)
(* on a connection of its own; without one it fails and changes nothing.    *)
Get(p) ==
  /\ reply[p] = "201"
  /\ HasRoom
  /\ got' = [got EXCEPT ![p] = IF p \in tickets THEN "200" ELSE "404"]
  /\ UNCHANGED <<request, store, refused, lost, probe, faults>>

-----------------------------------------------------------------------------
(* GET /ready: SELECT 1, which takes a connection, then a PING of Redis     *)
(* with the connection still in hand; it goes back with the request.        *)
Told(q, verdict) == probe' = [probe EXCEPT ![q] = verdict]

Ping(q) ==
  /\ probe[q] = "sent"
  /\ HasRoom
  /\ Told(q, "pinged")
  /\ UNCHANGED <<request, store, refused, lost, got, faults>>

(* Any exception counts as Postgres being away: a pool that stays empty     *)
(* for db_pool_timeout_seconds as well as a connection that breaks.         *)
PingFails(q) ==
  /\ probe[q] = "sent"
  /\ \/ ~HasRoom /\ UNCHANGED faults
     \/ HasRoom /\ faults < MaxFaults /\ faults' = faults + 1
  /\ Told(q, "unavailable")
  /\ UNCHANGED <<request, store, refused, lost, got>>

(* Redis only decides between ready and degraded.                           *)
PingRedis(q) ==
  /\ probe[q] = "pinged"
  /\ \E verdict \in {"ready", "degraded"} : Told(q, verdict)
  /\ UNCHANGED <<request, store, refused, lost, got, faults>>

Probe(q) == Ping(q) \/ PingFails(q) \/ PingRedis(q)

-----------------------------------------------------------------------------
Proceed(p) ==
  \/ Acquire(p)
  \/ PoolTimeout(p)
  \/ Insert(p)
  \/ Refuse(p)
  \/ AppendEvent(p)
  \/ Respond(p)
  \/ Commit(p)

Next ==
  \/ \E p \in Posts : Proceed(p) \/ Lose(p) \/ Get(p)
  \/ \E q \in Probes : Probe(q)
  \/ Crash

Spec == Init /\ [][Next]_vars
FairSpec ==
  /\ Spec
  /\ \A p \in Posts : WF_vars(Proceed(p))
  /\ \A q \in Probes : WF_vars(Probe(q))

-----------------------------------------------------------------------------
(* At most one of the posts with one source and external id is told 201,    *)
(* apart from those whose commit failed behind the client's back, and at    *)
(* most one has a ticket: the index makes the second INSERT wait for the    *)
(* end of the first transaction, not only for its row.                      *)
OneTicketPerExternalId ==
  \A p, q \in Posts :
    SameTicket(p, q) =>
      /\ ~(p \in tickets /\ q \in tickets)
      /\ ~(reply[p] = "201" /\ reply[q] = "201" /\ p \notin lost /\ q \notin lost)

(* A client that was told 500 left nothing behind, whatever step of the     *)
(* request failed, so that it may send the same post again; and a ticket is *)
(* never in the table without the first event of its trail.                 *)
FailuresLeaveNothing ==
  /\ \A p \in Posts : reply[p] = "500" => p \notin tickets \cup received
  /\ tickets = received

(* A post is refused as a duplicate only when the other ticket is durably   *)
(* there, never for a transaction that is later rolled back.                *)
RefusedOnlyForAStoredTicket ==
  \A p \in refused : \E q \in tickets : SameTicket(p, q)

(* A client that has read its ticket never again gets 404 for it, although  *)
(* it may well have got 404 before, between the 201 and the commit.         *)
FoundStaysFound ==
  [][\A p \in Posts : got[p] = "200" => got'[p] # "404"]_vars

(* A 201 is followed by the ticket unless the connection or the process is  *)
(* lost in between.                                                         *)
AnsweredTicketsAppear ==
  \A p \in Posts : reply[p] = "201" ~> (p \in tickets \/ p \in lost)

(* Every post and every probe ends, although inserts wait for each other's  *)
(* transactions while holding connections that others wait for.             *)
EveryRequestEnds ==
  /\ \A p \in Posts : <>(step[p] = "over")
  /\ \A q \in Probes : <>(probe[q] \notin {"sent", "pinged"})
=============================================================================
