---------------------------- MODULE MCDefinitions ----------------------------
(* Instances of Definitions: two fibers, a durable headers exchange with an *)
(* argument that deletes itself, a direct exchange that is durable or       *)
(* deletes itself, and a durable queue that may delete itself.              *)
EXTENDS Definitions

CONSTANTS f1, f2

MCFibers == {f1, f2}
Symmetry == Permutations(MCFibers)

Lasting(kind, auto_delete, args) ==
  [durable |-> TRUE, auto_delete |-> auto_delete, kind |-> kind, args |-> args]
Transient(kind, auto_delete) ==
  [durable |-> FALSE, auto_delete |-> auto_delete, kind |-> kind, args |-> {}]

MCAttributes ==
  [x \in {"h", "d", "q"} |->
     CASE x = "h" -> {Lasting("headers", TRUE, {"a"})}
       [] x = "d" -> {Lasting("direct", FALSE, {}), Transient("direct", TRUE)}
       [] x = "q" -> {Lasting("queue", TRUE, {})}]

Wiring(src, dst, args) == [src |-> src, dst |-> dst, args |-> args]

MCWirings == {Wiring("h", "d", {"b"}), Wiring("d", "q", {}), Wiring("d", "q", {"b"})}

=============================================================================
