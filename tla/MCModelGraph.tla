----------------------------- MODULE MCModelGraph ----------------------------
EXTENDS ModelGraphProofs

Drawn(kind, case, a, b, qi, qj, meta) ==
    [kind |-> kind, case |-> case, a |-> a, b |-> b, qi |-> qi, qj |-> qj, meta |-> meta]

\* A trapezoidal load on a part of a bar, in the second case; a load on all of it; a force;
\* a 3D load.
DrawnShapes ==
    {Drawn("distributed", 2, 1, 4, 24, 48, "global"),
     Drawn("distributed", None, 0, None, 24, 48, None),
     Drawn("point", 1, 2, None, 5, 5, None),
     Drawn("bar3d", 2, 0, None, 6, 6, None)}

\* A bar of length 4 that carries loads, a shorter one that is a column on a footing, and one
\* of everything that refers to them.
Project == [
    nodes       |-> <<0, 4, 2>>,
    elements    |-> <<[i |-> 1, j |-> 2, material |-> 1, hinges |-> {"i", "j"}],
                      [i |-> 3, j |-> 2, material |-> 2, hinges |-> {"j"}]>>,
    supports    |-> <<1, 3>>,
    loads       |-> <<Drawn("distributed", 2, 1, 4, 24, 48, "global") @@ ("on" :> 1),
                      Drawn("thermal", None, 0, None, 7, 7, None) @@ ("on" :> 1),
                      Drawn("nodal", 1, 0, None, 3, 3, None) @@ ("on" :> 2),
                      Drawn("surface", 2, 0, None, 3, 3, None) @@ ("on" :> 1)>>,
    quads       |-> <<[corners |-> {1, 2, 3}, material |-> 1]>>,
    connectors  |-> <<[i |-> 1, j |-> 3]>>,
    footings    |-> <<[node |-> 3, column |-> 2, soil |-> 1, revision |-> 0]>>,
    constraints |-> <<[kind |-> "diaphragm", master |-> 2, slaves |-> {1, 3}],
                      [kind |-> "equation", master |-> 1, slaves |-> {3}]>>,
    profiles    |-> <<1, 2>>,
    defaultProfile |-> 1,
    materials   |-> {1, 2},
    cases       |-> {1, 2},
    combinations |-> <<{1, 2}>>,
    nextId      |-> [nodes |-> 4, elements |-> 3, supports |-> 3, loads |-> 5, quads |-> 2,
                     connectors |-> 2, footings |-> 2, profiles |-> 3, materials |-> 3,
                     cases |-> 3, combinations |-> 2]]

=============================================================================
