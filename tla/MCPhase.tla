------------------------------ MODULE MCPhase ------------------------------
(* Instances of Phase for TLC: sets of configurations. *)
EXTENDS Phase

\* Every task has a name of its own, runs a command and depends on deps[t].
Plain(deps) ==
  [name   |-> [t \in Tasks |-> t],
   dep    |-> deps,
   script |-> [t \in Tasks |-> FALSE],
   kind   |-> [t \in Tasks |-> "exec"],
   fail   |-> "default",
   named  |-> TRUE]

NoDeps == [t \in Tasks |-> {}]

\* Names 1 .. N, and N + 1 that no task has.
MCNames == 1 .. N + 1

\* Every graph of dependencies, cycles and unknown names included.
AllGraphs == {Plain(d) : d \in [Tasks -> SUBSET MCNames]}

\* The same, with scripts, tasks of type http and conditions of the user's.
AllConfigs ==
  {c \in [name   : {[t \in Tasks |-> t], [t \in Tasks |-> 1]},
          dep    : [Tasks -> SUBSET MCNames],
          script : [Tasks -> BOOLEAN],
          kind   : {[t \in Tasks |-> "exec"],
                    [t \in Tasks |-> IF t = 1 THEN "http" ELSE "exec"]},
          fail   : {"default", "custom"},
          named  : {TRUE}] :
     \A t \in Tasks : c.script[t] \/ c.fail = "custom" => c.dep[t] = {}}

Unnamed == {[Plain(NoDeps) EXCEPT !.named = FALSE]}

\* Three tasks: a chain listed in order and against it, a join, a fork, no
\* dependency at all, with and without a name for the phase, and two tasks of
\* one name with a third after both.
Shapes ==
  {Plain(d) : d \in {<<{}, {1}, {2}>>, <<{2}, {3}, {}>>, <<{}, {}, {1, 2}>>,
                     <<{}, {1}, {1}>>, NoDeps}}
    \cup Unnamed \cup {[Plain(<<{}, {}, {1}>>) EXCEPT !.name = <<1, 1, 2>>]}

Isolated == {Plain(NoDeps)}
HTTPOnly == {[Plain(NoDeps) EXCEPT !.kind = [t \in Tasks |-> "http"]]}
InOrder  == {Plain([t \in Tasks |-> IF t = 1 THEN {} ELSE {t - 1}])}
Reversed == {Plain([t \in Tasks |-> IF t = N THEN {} ELSE {t + 1}])}
Unknown  == {Plain([t \in Tasks |-> {N + 1}])}
Join     == {Plain([t \in Tasks |-> IF t = N THEN 1 .. N - 1 ELSE {}])}
=============================================================================
