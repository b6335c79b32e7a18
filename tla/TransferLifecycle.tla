------------------------- MODULE TransferLifecycle -------------------------
(***************************************************************************)
(* What the transfer queue promises about its tasks, without threads,       *)
(* locks, flags or connections: the life of each task as the queue dialog   *)
(* shows it, and which tasks a worker is still carrying out.                *)
(*                                                                          *)
(*  - A task is launched only from Queued, never while the queue is held    *)
(*    and never while an earlier attempt at it is still in flight.          *)
(*  - Only the end of an attempt completes or fails a task.  An attempt     *)
(*    that ends without success never overrides what the user asked for     *)
(*    meanwhile: a cancelled task stays Cancelled, a requeued one Queued.   *)
(*  - Completed is final, and a removed record never comes back.            *)
(*                                                                          *)
(* TransferQueue implements this specification.                             *)
(***************************************************************************)
CONSTANT Tasks

VARIABLES
  phase,     \* what the dialog shows for each task
  inFlight,  \* tasks with an attempt that has not settled
  held,      \* the whole queue is paused
  halted     \* the manager has died of a panic

vars == <<phase, inFlight, held, halted>>

Live == {"Queued", "Active", "Paused"}
Terminal == {"Completed", "Failed", "Cancelled"}
Phases == Live \cup Terminal \cup {"New", "Gone"}

Become(S, p) == phase' = [t \in Tasks |-> IF t \in S THEN p ELSE phase[t]]
AllIn(S, P) == \A t \in S : phase[t] \in P

Init ==
  /\ phase = [t \in Tasks |-> "New"]
  /\ inFlight = {}
  /\ held = FALSE
  /\ halted = FALSE

Submit(t) ==
  /\ phase[t] = "New"
  /\ Become({t}, "Queued")
  /\ UNCHANGED <<inFlight, held, halted>>

Launch(t) ==
  /\ phase[t] = "Queued"
  /\ t \notin inFlight
  /\ ~held
  /\ Become({t}, "Active")
  /\ inFlight' = inFlight \cup {t}
  /\ UNCHANGED <<held, halted>>

(* The attempt at t ends, and its verdict meets what the user has asked. *)
Settle(t) ==
  /\ t \in inFlight
  /\ inFlight' = inFlight \ {t}
  /\ \/ phase[t] # "Gone" /\ Become({t}, "Completed")
     \/ phase[t] = "Active" /\ Become({t}, "Failed")
     \/ phase[t] \in {"Active", "Queued"} /\ held /\ Become({t}, "Paused")
     \/ phase[t] # "Active" /\ UNCHANGED phase
  /\ UNCHANGED <<held, halted>>

Cancel(S) == AllIn(S, Live) /\ Become(S, "Cancelled") /\ UNCHANGED <<inFlight, held, halted>>
Pause(S) == AllIn(S, {"Queued", "Active"}) /\ Become(S, "Paused") /\ UNCHANGED <<inFlight, held, halted>>
Requeue(S) ==
  /\ AllIn(S, {"Paused"}) \/ AllIn(S, {"Failed", "Cancelled"})
  /\ Become(S, "Queued")
  /\ UNCHANGED <<inFlight, held, halted>>
Clear(S) == AllIn(S, Terminal) /\ Become(S, "Gone") /\ UNCHANGED <<inFlight, held, halted>>

Hold == held' = TRUE /\ UNCHANGED <<phase, inFlight, halted>>
Release == held' = FALSE /\ UNCHANGED <<phase, inFlight, halted>>

(* Only a second launch of a task still in flight brings the manager down. *)
Halt(t) ==
  /\ phase[t] = "Queued"
  /\ t \in inFlight
  /\ ~held
  /\ halted' = TRUE
  /\ Become({t}, "Active")
  /\ UNCHANGED <<inFlight, held>>

Next ==
  /\ ~halted
  /\ \/ \E t \in Tasks : Submit(t) \/ Launch(t) \/ Settle(t) \/ Halt(t)
     \/ \E S \in SUBSET Tasks : Cancel(S) \/ Pause(S) \/ Requeue(S) \/ Clear(S)
     \/ Hold \/ Release

Spec == Init /\ [][Next]_vars
=============================================================================
