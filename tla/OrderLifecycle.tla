--------------------------- MODULE OrderLifecycle ---------------------------
(***************************************************************************)
(* What the engine promises about the life of every order, whatever the    *)
(* divergences, order lists, amends and tape walks do around it.           *)
(*                                                                         *)
(* An order is placed once; it waits for its parent or works; only a       *)
(* working order executes; a waiting one starts to work only when its      *)
(* parent has executed; and an order that is done is done.  One handler of *)
(* the engine moves many orders at once, so a step of this specification   *)
(* is any combination of steps of single orders.                           *)
(***************************************************************************)
EXTENDS Integers

CONSTANTS
  Id,      \* client order ids
  NoId,    \* "no parent", not in Id
  Parent   \* a function from Id: the parent of each order, or NoId

VARIABLES
  phase,      \* where each order stands
  executed    \* how much of it has executed

vars == <<phase, executed>>

Phases == {"new", "waiting", "working", "done"}

TypeOK == /\ phase \in [Id -> Phases]
          /\ executed \in [Id -> Nat]

Init == /\ phase = [id \in Id |-> "new"]
        /\ executed = [id \in Id |-> 0]

\* What the order waits for has happened, by the end of this step.
ParentExecuted(id) == Parent[id] = NoId \/ executed'[Parent[id]] > 0

Keeps(id) == executed'[id] = executed[id]

\* A new order waits, or works and may execute, or is done, at once.
Place(id) ==
  /\ phase[id] = "new"
  /\ \/ phase'[id] = "waiting" /\ Keeps(id) /\ ~ParentExecuted(id)
     \/ /\ phase'[id] \in {"working", "done"}
        /\ executed'[id] >= executed[id]
        /\ ParentExecuted(id)

Release(id) ==
  /\ phase[id] = "waiting" /\ phase'[id] = "working"
  /\ ParentExecuted(id) /\ Keeps(id)

Work(id) ==
  /\ phase[id] = "working" /\ phase'[id] \in {"working", "done"}
  /\ executed'[id] >= executed[id]

Abandon(id) ==
  phase[id] = "waiting" /\ phase'[id] = "done" /\ Keeps(id)

Rests(id) == phase'[id] = phase[id] /\ Keeps(id)

Next == \A id \in Id : \/ Place(id)
                       \/ Release(id)
                       \/ Work(id)
                       \/ Abandon(id)
                       \/ Rests(id)

Spec == Init /\ [][Next]_vars
============================================================================
