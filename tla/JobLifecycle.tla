---------------------------- MODULE JobLifecycle ----------------------------
(***************************************************************************)
(* What the job store promises of one job record, whoever writes it: the   *)
(* life that ADR 0003 and ADR 0005 give jobs/<id>.json.  A record runs from *)
(* queued to running to one final outcome, is never sent back, keeps its    *)
(* outcome as long as it is on disk, and is removed only once it is over.   *)
(* A record without a status is what a late patch leaves of a removed one.  *)
(***************************************************************************)
VARIABLES
  status,    \* "absent" for no file, "none" for a file without a status
  endedBy    \* who gave the record its final status

Active == {"queued", "running"}
Terminal == {"completed", "failed", "cancelled"}
Statuses == {"absent", "none"} \cup Active \cup Terminal
Enders == {"worker", "launcher", "reconciler", "canceller", "session"}

Init == status = "absent" /\ endedBy = "nobody"

\* The launcher's queued record, the running record of a foreground run, or
\* the patch of somebody who has not seen that the record was removed.
Create ==
  /\ status = "absent"
  /\ status' \in {"none"} \cup Active
  /\ UNCHANGED endedBy

Run ==
  /\ status \in {"none", "queued"}
  /\ status' = "running"
  /\ UNCHANGED endedBy

End ==
  /\ status \notin Terminal
  /\ status' \in Terminal
  /\ endedBy' \in Enders

Remove ==
  /\ status \in {"none"} \cup Terminal
  /\ status' = "absent"
  /\ endedBy' = "nobody"

Next == Create \/ Run \/ End \/ Remove

Spec == Init /\ [][Next]_<<status, endedBy>>
=============================================================================
