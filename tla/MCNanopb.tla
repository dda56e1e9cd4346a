------------------------------ MODULE MCNanopb ------------------------------
(* A schema with every label, kind and allocation, and messages that differ *)
(* from a plain one in a field or two.                                      *)
EXTENDS Nanopb

F(tag, label, kind, size) ==
  [tag |-> tag, label |-> label, kind |-> kind, size |-> size, alloc |-> "static"]
WithMax(f, max) == [max |-> max] @@ f
OfType(f, type) == [type |-> type] @@ f
InGroup(f, group) == [group |-> group] @@ f
ByCallback(f) == [f EXCEPT !.alloc = "callback"]

MCTypes ==
  [root |-> <<F(1, "required", "int", 10),
              F(2, "optional", "sint", 18),
              WithMax(F(3, "repeated", "uint", 8), 2),
              InGroup(F(4, "oneof", "fixed32", 0), 20),
              InGroup(OfType(F(5, "oneof", "message", 0), "sub"), 20),
              OfType(WithMax(F(6, "repeated", "message", 0), 2), "sub"),
              F(7, "singular", "string", 3),
              ByCallback(F(8, "repeated", "uint", 18)),
              F(12, "singular", "fixedbytes", 2),
              [tag |-> 10, label |-> "optional", kind |-> "extension", size |-> 0, alloc |-> "static",
               extensions |-> <<F(11, "required", "fixed64", 0), F(13, "required", "bytes", 2)>>]>>,
   sub  |-> <<F(1, "singular", "int", 8), ByCallback(F(2, "repeated", "uint", 18))>>]

Called(sized, written) == [linked |-> TRUE, size |-> sized, write |-> written]
Sub(n, sized, written) == (1 :> n) @@ (2 :> Called(sized, written))
Plain == [SetToDefaults("root", TRUE) EXCEPT ![1] = 1]

\* A foreign message begins with the required field and has no extensions.
MCOpening == EncodeTag(1, 0) \o EncodeVarint(1)

MCMessage ==
  {Plain, [Plain EXCEPT ![1] = -1], [Plain EXCEPT ![1] = 511, ![12] = <<0, 7>>]}
  \cup {[Plain EXCEPT ![2] = [has |-> TRUE, v |-> n]] : n \in {0, -1, 64, -131072, 131071}}
  \cup {[Plain EXCEPT ![3] = q, ![7] = t] : q \in {<<>>, <<255>>, <<128, 0>>}, t \in {<<>>, <<65, 66>>}}
  \cup {[Plain EXCEPT ![20] = u] : u \in {4 :> 515, 5 :> Sub(0, <<>>, <<>>),
                                          5 :> Sub(-2, <<1>>, <<2>>),
                                          5 :> Sub(0, <<1>>, <<300>>),
                                          5 :> Sub(0, <<1, 2>>, <<2>>)}}
  \cup {[Plain EXCEPT ![6] = q] : q \in {<<Sub(1, <<>>, <<>>)>>, <<Sub(0, <<>>, <<>>), Sub(3, <<4>>, <<4>>)>>}}
  \cup {[Plain EXCEPT ![8] = Called(q, q)] : q \in {<<7>>, <<0, 1000>>}}
  \cup {[Plain EXCEPT ![10][1].v = 70000], [Plain EXCEPT ![10][2] = [found |-> TRUE, v |-> <<0, 9>>]]}
=============================================================================
