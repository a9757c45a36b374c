------------------------------ MODULE MCBuild ------------------------------
(* Instances of Build for TLC. *)
EXTENDS Build

Alone ==
  [name   |-> [t \in Tasks |-> t],
   dep    |-> [t \in Tasks |-> {}],
   script |-> [t \in Tasks |-> FALSE],
   kind   |-> [t \in Tasks |-> "exec"],
   fail   |-> "default",
   named  |-> TRUE]

\* Each task after the one listed next.
Against == [Alone EXCEPT !.dep = [t \in Tasks |-> IF t = N THEN {} ELSE {t + 1}]]

MCNames == Tasks

\* Tasks on their own, with a fail condition of the user's as well.
AloneConfigs == {Alone, [Alone EXCEPT !.fail = "custom"]}
AgainstConfigs == {Against}
=============================================================================
