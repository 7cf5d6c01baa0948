------------------------------ MODULE MCAiBuild ------------------------------
EXTENDS AiBuildProofs, TLC

Known(f) == [f EXCEPT !.cases = <<1, 2, 3, 4>>, !.nextId.cases = 5]

\* A loaded portal frame; the other tab holds a structure with nothing in it yet.
Portal == Known(PortalFrame(1, 1, 1, 1))

At(x, y) == [x |-> x, y |-> y]

\* A triangle with gaps in its ids, as create_model is given it.
Triangle ==
    [nodes |-> (1 :> At(0, 0) @@ 3 :> At(2, 0) @@ 4 :> At(1, 1)),
     elements |-> (2 :> Frame(1, 4, 1) @@ 3 :> Frame(3, 4, 1)),
     supports |-> (1 :> Fixed(1) @@ 3 :> Fixed(3)),
     loads |-> <<Nodal(4, 1), Distributed(3, 1)>>, sections |-> <<"IPE">>]
Drafted == {Triangle}

Beside == {At(2, 1)}

=============================================================================
