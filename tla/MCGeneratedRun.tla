--------------------------- MODULE MCGeneratedRun ---------------------------
(* The registry, limits and fragments for the instances of GeneratedRun. *)
EXTENDS GeneratedRun

Entry(module, inputs, grant, approvals, calls, cost, time) ==
  [module |-> module, inputs |-> inputs, type |-> Head(inputs), output |-> "s",
   grant |-> grant, approvals |-> approvals, calls |-> calls, cost |-> cost, time |-> time]

\* One and two inputs, a quick one of two; with a capability, with an effect that needs
\* approval, of more than the region may have, of high cost, of long time, without a
\* bound on the time, on the calls, on the cost, of another type, and a module whose
\* declared input is a tuple of one.
MCCatalog ==
  [one |-> Entry("One", <<"s">>, {}, {}, 2, 1, 1),
   two |-> Entry("Two", <<"s", "s">>, {}, {}, 1, 1, 2),
   join |-> Entry("Join", <<"s", "s">>, {}, {}, 1, 1, 1),
   read |-> Entry("Read", <<"s">>, {"read"}, {}, 1, 2, 1),
   look |-> Entry("Look", <<"s">>, {}, {}, 1, 1, 1),
   pay |-> Entry("Pay", <<"s">>, {"pay"}, {"pay"}, 1, 3, 1),
   admin |-> Entry("Admin", <<"s">>, {"admin"}, {}, 1, 1, 1),
   dear |-> Entry("Dear", <<"s">>, {}, {}, 1, 8, 1),
   slow |-> Entry("Slow", <<"s">>, {}, {}, 1, 1, 4),
   free |-> Entry("Free", <<"s">>, {}, {}, 1, 1, Unbounded),
   open |-> Entry("Open", <<"s">>, {}, {}, Unbounded, 1, 1),
   any |-> Entry("Any", <<"s">>, {}, {}, 1, Unbounded, 3),
   other |-> [Entry("Other", <<"s">>, {}, {}, 1, 1, 1) EXCEPT !.output = "t"],
   tuple |-> [Entry("Tuple", <<"s">>, {}, {}, 1, 1, 1) EXCEPT !.type = "t"]]

MCLimits ==
  [nodes |-> 4, depth |-> 3, fanout |-> 2, budget |-> [calls |-> 5, cost |-> 4, time |-> 4]]

\* Floats of two binary digits up to 12, where half of the way goes to the even one, and
\* decimals that are exact up to 8 and even above.  A sum of 14 would round to 16.
MCDouble == [n \in 0 .. 13 |-> <<0, 1, 2, 3, 4, 4, 6, 8, 8, 8, 8, 12, 12, 12>>[n + 1]]

MCDecimalOf(n) == IF n <= 8 \/ n % 2 = 0 THEN n ELSE 4 * ((n + 1) \div 4)

MCPolicy == [max |-> [depth |-> 2], forbidden |-> {"Read"}]

MCOutputs == <<"s">>

Node(key, alias, deps) == [key |-> key, alias |-> alias, deps |-> deps]

Arity(deps) == IF Len(deps) = 1 THEN "one" ELSE "two"

Fragment(nodes, outputs) == [nodes |-> nodes, outputs |-> outputs]

Deps == SeqOf(0 .. 3, 2) \ {<<>>}

\* Graphs of three modules of one or two inputs, the first of one.
Shapes ==
  {Fragment(<<Node(1, "one", <<a>>), Node(2, Arity(b), b), Node(3, Arity(c), c)>>, <<3>>) :
     a \in 0 .. 3, b, c \in Deps}

\* Small graphs with every alias, wrong arities, and wrong outputs.
Contracts ==
  {Fragment(<<Node(1, x, <<0>>), Node(2, y, d)>>, o) :
     x \in {"one", "pay", "other"}, y \in DOMAIN MCCatalog \cup {"unknown"},
     d \in {<<1>>, <<1, 0>>, <<9>>}, o \in {<<2>>, <<1, 2>>, <<2, 2>>, <<9>>, <<>>}}

\* A chain of quick nodes.
Chain(n) == Fragment([i \in 1 .. n |-> Node(i, "look", <<i - 1>>)], <<n>>)

\* A fragment of no node, one that is not canonical, one with a chain that is too long,
\* one that only has too many nodes, one in which only the region's input has too many
\* consumers, and two with a node and an output named as the region's input.
Odd ==
  {Fragment(<<>>, <<1>>), Fragment(<<Node(1, "one", <<0>>)>>, <<0>>),
   Fragment(<<Node(0, "one", <<0>>), Node(1, "one", <<0>>)>>, <<1>>),
   Fragment(<<Node(2, "one", <<0>>), Node(1, "one", <<2>>)>>, <<1>>),
   Chain(4),
   Fragment(<<Node(1, "look", <<0>>), Node(2, "join", <<0, 1>>), Node(3, "join", <<0, 2>>)>>, <<3>>),
   Fragment([i \in 1 .. 5 |-> IF i = 5 THEN Node(5, "two", <<3, 4>>)
                              ELSE Node(i, "look", <<Max({0, i - 2})>>)], <<5>>)}

\* Budgets of which only a sum or a path is out of range, next to a node of a dimension
\* without a bound.
Large ==
  {Fragment(<<Node(1, x, <<0>>), Node(2, y, <<1>>)>>, <<2>>) :
     x, y \in {"dear", "slow", "free", "open", "any"}}

MCFragments == Shapes \cup Contracts \cup Odd \cup Large
=============================================================================
