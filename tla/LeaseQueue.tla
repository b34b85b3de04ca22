----------------------------- MODULE LeaseQueue -----------------------------
(***************************************************************************)
(* The durable event queue (table events, src/pre_active/store.py) without  *)
(* a clock: an event is claimed under a lease, the lease may lapse, and     *)
(* whoever still owns the event may acknowledge or release it, lapsed or    *)
(* not.  Time, priorities and retry delays only decide when a claim is      *)
(* possible and in which order; here any claimable event may be next.       *)
(***************************************************************************)
CONSTANTS Events, Workers, None

VARIABLES
  status,  \* event -> "ABSENT" (no row), "PENDING", "CLAIMED" or "DONE"
  owner,   \* event -> lease_owner
  lapsed   \* event -> lease_until has passed

vars == <<status, owner, lapsed>>

Init ==
  /\ status = [e \in Events |-> "ABSENT"]
  /\ owner = [e \in Events |-> None]
  /\ lapsed = [e \in Events |-> FALSE]

(* enqueue_event under a dedup key: a second request for the same event     *)
(* reuses the row.                                                          *)
Enqueue(e) ==
  /\ status' = [status EXCEPT ![e] = IF @ = "ABSENT" THEN "PENDING" ELSE @]
  /\ UNCHANGED <<owner, lapsed>>

BugClaimable(e) == status[e] \in {"PENDING", "CLAIMED"}
Claimable(e) == status[e] = "PENDING" \/ (status[e] = "CLAIMED" /\ lapsed[e])

Claim(w, e) ==
  /\ Claimable(e)
  /\ status' = [status EXCEPT ![e] = "CLAIMED"]
  /\ owner' = [owner EXCEPT ![e] = w]
  /\ lapsed' = [lapsed EXCEPT ![e] = FALSE]

(* A claim made with a clock reading so old that the lease has passed        *)
(* already.                                                                 *)
ClaimLate(w, e) ==
  /\ Claimable(e)
  /\ status' = [status EXCEPT ![e] = "CLAIMED"]
  /\ owner' = [owner EXCEPT ![e] = w]
  /\ lapsed' = [lapsed EXCEPT ![e] = TRUE]

Owns(w, e) == status[e] = "CLAIMED" /\ owner[e] = w

Settle(e, state) ==
  /\ status' = [status EXCEPT ![e] = state]
  /\ owner' = [owner EXCEPT ![e] = None]
  /\ lapsed' = [lapsed EXCEPT ![e] = FALSE]

(* ack_event and fail_event: the condition is on the owner alone. *)
Ack(w, e) == Owns(w, e) /\ Settle(e, "DONE")
Release(w, e) == Owns(w, e) /\ Settle(e, "PENDING")

(* lease_until passes. *)
Lapse(e) ==
  /\ status[e] = "CLAIMED" /\ ~lapsed[e]
  /\ lapsed' = [lapsed EXCEPT ![e] = TRUE]
  /\ UNCHANGED <<status, owner>>

(* Time passes, and with it any number of leases at once. *)
Lapses(E) ==
  /\ \A e \in E : status[e] = "CLAIMED" /\ ~lapsed[e]
  /\ lapsed' = [e \in Events |-> lapsed[e] \/ e \in E]
  /\ UNCHANGED <<status, owner>>

Next ==
  \/ \E e \in Events : Enqueue(e)
  \/ \E e \in Events, w \in Workers :
       Claim(w, e) \/ ClaimLate(w, e) \/ Ack(w, e) \/ Release(w, e)
  \/ \E E \in SUBSET Events : Lapses(E)

Spec == Init /\ [][Next]_vars

TypeOK ==
  /\ status \in [Events -> {"ABSENT", "PENDING", "CLAIMED", "DONE"}]
  /\ owner \in [Events -> Workers \cup {None}]
  /\ lapsed \in [Events -> BOOLEAN]
=============================================================================
