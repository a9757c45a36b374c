----------------------------- MODULE TaskGraph -----------------------------
(***************************************************************************)
(* What a phase promises about the order of its tasks, with no event,      *)
(* goroutine or status in sight: a job is taken up at most once, after     *)
(* every job it comes after is settled, and never once the phase is over.  *)
(* Jobs taken up in time may settle later than that.                       *)
(***************************************************************************)
CONSTANT Job

VARIABLES
  after,  \* the jobs each job comes after, fixed
  job,    \* "waiting", "active" (its command runs or is about to) or "settled"
  over    \* the phase is over

vars == <<after, job, over>>

Init ==
  /\ after \in [Job -> SUBSET Job]
  /\ job = [j \in Job |-> "waiting"]
  /\ over = FALSE

MayTakeUp(j) ==
  /\ ~over
  /\ job[j] = "waiting"
  /\ \A k \in after[j] : job[k] = "settled"

\* The job is run ...
Start(j) ==
  /\ MayTakeUp(j)
  /\ job' = [job EXCEPT ![j] = "active"]
  /\ UNCHANGED <<after, over>>

\* ... or skipped, or found impossible to run.
Drop(j) ==
  /\ MayTakeUp(j)
  /\ job' = [job EXCEPT ![j] = "settled"]
  /\ UNCHANGED <<after, over>>

Settle(j) ==
  /\ job[j] = "active"
  /\ job' = [job EXCEPT ![j] = "settled"]
  /\ UNCHANGED <<after, over>>

End ==
  /\ ~over
  /\ over' = TRUE
  /\ UNCHANGED <<after, job>>

Next ==
  \/ End
  \/ \E j \in Job : Start(j) \/ Drop(j) \/ Settle(j)

Spec == Init /\ [][Next]_vars
=============================================================================
