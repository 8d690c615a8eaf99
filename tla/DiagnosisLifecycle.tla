-------------------------- MODULE DiagnosisLifecycle --------------------------
(***************************************************************************)
(* What the diagnosis service promises to whoever reads a diagnosis and    *)
(* its audit trail, whatever requests run at the same time: each diagnosis *)
(* is one journal of finished operations, and its status is the state the  *)
(* last of them left.  An operation happens in one step or not at all.     *)
(***************************************************************************)
EXTENDS Sequences, Naturals

CONSTANT Id

VARIABLES journal,  \* per diagnosis, its operations and the state each one left
          status    \* per diagnosis, its current state, "absent" before creation

lifecycleVars == <<journal, status>>

Runnable      == {"created", "waiting_for_input"}
RunResults    == {"waiting_for_confirmation", "waiting_for_input", "inconclusive"}
Closed        == {"absent", "confirmed", "rejected", "inconclusive"}

Init == /\ journal = [i \in Id |-> <<>>]
        /\ status = [i \in Id |-> "absent"]

Record(i, operation, left) ==
  /\ journal' = [journal EXCEPT ![i] = Append(@, [operation |-> operation, left |-> left])]
  /\ status' = [status EXCEPT ![i] = left]

Create(i) == status[i] = "absent" /\ Record(i, "create", "created")

\* A run reports what it found; only a runnable diagnosis is run.
Run(i) == /\ status[i] \in Runnable
          /\ \E left \in RunResults : Record(i, "run", left)

\* A human confirms what the last run offered.
Confirm(i) == /\ status[i] = "waiting_for_confirmation"
              /\ Record(i, "confirm", "confirmed")

Reject(i) == status[i] \notin Closed /\ Record(i, "reject", "rejected")

AskForMore(i) == /\ status[i] \notin Closed
                 /\ Record(i, "request_more_info", "waiting_for_input")

Next == \E i \in Id : Create(i) \/ Run(i) \/ Confirm(i) \/ Reject(i) \/ AskForMore(i)

Spec == Init /\ [][Next]_lifecycleVars
=============================================================================
