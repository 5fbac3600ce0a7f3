-------------------------- MODULE TicketLifecycle --------------------------
(***************************************************************************)
(* What readers of the store may rely on: the life of a ticket, without    *)
(* transactions, batches or locks.  A received ticket is pending until a   *)
(* processor settles it as routed or failed or a test embedding marks it   *)
(* embedded, it never becomes pending again, and each processor settles it *)
(* at most once.                                                           *)
(***************************************************************************)
CONSTANTS Tickets, Processors

VARIABLES
  state,      \* state[t]: the status of t
  settledBy   \* settledBy[t]: the processors that have settled t

vars == <<state, settledBy>>

Outcomes == {"routed", "failed"}

Init ==
  /\ state = [t \in Tickets |-> "absent"]
  /\ settledBy = [t \in Tickets |-> {}]

Receive(t) ==
  /\ state[t] = "absent"
  /\ state' = [state EXCEPT ![t] = "pending_embedding"]
  /\ UNCHANGED settledBy

Settle(t, p) ==
  /\ state[t] # "absent"
  /\ p \notin settledBy[t]
  /\ \E o \in Outcomes : state' = [state EXCEPT ![t] = o]
  /\ settledBy' = [settledBy EXCEPT ![t] = @ \cup {p}]

StoreTestEmbedding(t) ==
  /\ state[t] # "absent"
  /\ state' = [state EXCEPT ![t] = "embedded"]
  /\ UNCHANGED settledBy

Next ==
  \E t \in Tickets :
    \/ Receive(t)
    \/ \E p \in Processors : Settle(t, p)
    \/ StoreTestEmbedding(t)

Spec == Init /\ [][Next]_vars

(* A ticket that stays pending is settled.                                  *)
SettlePending(t) ==
  state[t] = "pending_embedding" /\ \E p \in Processors : Settle(t, p)

FairSpec == Spec /\ \A t \in Tickets : WF_vars(SettlePending(t))

=============================================================================
