------------------------------ MODULE MCRecords ------------------------------
EXTENDS Views

Nest(bounds, strides) == [bounds |-> bounds, strides |-> strides]
ThreeNests == {Nest(<<2>>, <<2>>), Nest(<<2, 2>>, <<0, 3>>), Nest(<<2, 2>>, <<4, 2>>)}
OneCopy == {[at |-> 4, waits |-> {7}, to |-> 3, words |-> 18]}
Region(base, shape, strides, moved) == [base |-> base, shape |-> shape, strides |-> strides, moved |-> moved]
InTilesOut == <<Region(0, <<22>>, <<1>>, TRUE), Region(44, <<2, 2, 2>>, <<4, 8, 1>>, FALSE),
                Region(40, <<4>>, <<1>>, TRUE)>>
===============================================================================
