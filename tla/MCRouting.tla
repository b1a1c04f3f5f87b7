----------------------------- MODULE MCRouting -----------------------------
(* A small instance of Routing: two rule sources that share a condition    *)
(* with a manual rule, and three policy groups that can form a diamond.    *)
EXTENDS Routing, TLC

CONSTANTS c1, c2, s1, s2, p1, p2, p3

MCIds == <<s1, s2>>
MCHolds == [s \in {s1, s2} |-> IF s = s1 THEN <<c1>> ELSE <<c2, c1>>]

Text(match, to) == [match |-> match, to |-> to, on |-> TRUE]
MCTexts == {Text({}, p1), Text({c1}, Direct), Text({c1, c2}, p1)}

NoPolicies == [p \in Policies |-> Absent]
\* Nothing yet but nodes and one group.
Fresh == [rules |-> <<>>, order |-> <<>>, docs |-> [s \in {s1, s2} |-> Absent],
          pol |-> [NoPolicies EXCEPT ![p1] = {Node}], nodes |-> TRUE]
\* Two manual rules below a source, and groups that name each other.
Used == [rules |-> <<Text({c1}, p1), Text({}, Direct)>>, order |-> <<s1, Manual>>,
         docs |-> [s \in {s1, s2} |-> IF s = s1 THEN [to |-> p1, on |-> TRUE] ELSE Absent],
         pol |-> (p1 :> {p2, p3} @@ p2 :> {p3} @@ p3 :> {Node}), nodes |-> TRUE]
\* No node source: everything goes direct.
Plain == [Fresh EXCEPT !.pol = NoPolicies, !.nodes = FALSE,
                       !.rules = <<Text({c1}, Direct)>>, !.order = <<Manual>>]
MCSaved == {Fresh, Used, Plain}
=============================================================================
