----------------------------- MODULE RunRecord -----------------------------
(***************************************************************************)
(* What the database promises of one workflow run, whatever the two threads *)
(* that handle it do: it is created once, and then given a final status at  *)
(* most once on behalf of the worker (its result) and at most once on       *)
(* behalf of the listener (a stop or a timeout), in either order.  It never *)
(* runs again, and a third status never replaces the second.                *)
(*                                                                          *)
(* Abstract specification of WorkflowRun.status as AppTask writes it.       *)
(***************************************************************************)
VARIABLES
    status,   \* the status of the run, "none" before it is created
    writers   \* who has given it a final status

Results == {"succeeded", "partial-succeeded", "failed"}

Create ==
    /\ status = "none"
    /\ status' = "running"
    /\ UNCHANGED writers

WorkerFinishes ==
    /\ status # "none"
    /\ "app" \notin writers
    /\ status' \in Results
    /\ writers' = writers \cup {"app"}

ListenerStops ==
    /\ status # "none"
    /\ "pipeline" \notin writers
    /\ status' = "stopped"
    /\ writers' = writers \cup {"pipeline"}

Init == status = "none" /\ writers = {}
Next == Create \/ WorkerFinishes \/ ListenerStops
Spec == Init /\ [][Next]_<<status, writers>>
=============================================================================
