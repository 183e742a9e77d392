--------------------------- MODULE MCErrorSystem ---------------------------
(***************************************************************************)
(* Two categories, one register that is never reached, and a request of    *)
(* each kind.                                                              *)
(***************************************************************************)
EXTENDS ErrorSystem

E(g, k, m) == [category |-> g, code |-> k, message |-> m]
TheRegisters == <<[category |-> "DATABASE", limit |-> 2],
                  [category |-> "NETWORK", limit |-> 1],
                  [category |-> "NETWORK", limit |-> 1]>>
Ask(op, e, target) == [op |-> op, error |-> e, target |-> target]
Net(k, m) == E("NETWORK", k, m)
TheRequests ==
  {Ask("add", e, 0) : e \in {Net(1, "a"), E("NONE", 1, "a")}} \cup
  {Ask("remove", e, 0) : e \in {Net(1, "a"), Net(1, "b")}} \cup
  {Ask("add", e, 2) : e \in {Net(2, "a"), E("DATABASE", 1, "a")}} \cup
  {Ask(op, Net(1, "a"), 2) :
     op \in {"remove_code", "clear", "contains", "find", "snapshot"}}
=============================================================================
