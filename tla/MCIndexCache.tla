---- MODULE MCIndexCache ----
EXTENDS IndexCache
Leaf(ks, next) == [BT!NewNode(TRUE, 0) EXCEPT !.keys = ks, !.vals = [i \in DOMAIN ks |-> 0], !.next = next]
Inner(level, ks, vs, edge, next) ==
    [BT!NewNode(FALSE, level) EXCEPT !.keys = ks, !.vals = vs, !.edge = edge, !.next = next]
Two == [root |-> 1, node |-> <<Inner(1, <<4>>, <<2>>, 3, 0), Leaf(<<2,3,4>>, 3), Leaf(<<6,8>>, 0)>>]
Three == [root |-> 1, node |-> <<Inner(2, <<10>>, <<2>>, 3, 0),
            Inner(1, <<4, 10>>, <<4, 5>>, 0, 3), Inner(1, <<14>>, <<6>>, 7, 0),
            Leaf(<<2, 4>>, 5), Leaf(<<8>>, 6), Leaf(<<12>>, 7), Leaf(<<16>>, 0)>>]
Full == [root |-> 1, node |-> <<Inner(1, <<4, 8, 12>>, <<2, 3, 4>>, 5, 0), Leaf(<<2, 4>>, 3), Leaf(<<6, 8>>, 4),
            Leaf(<<10, 12>>, 5), Leaf(<<14, 16>>, 0)>>]
One == [root |-> 1, node |-> <<Leaf(<<2, 4, 6>>, 0)>>]
Thin == [root |-> 1, node |-> <<Inner(1, <<>>, <<>>, 2, 0), Leaf(<<2, 8>>, 0)>>]
Lean == [root |-> 1, node |-> <<Inner(2, <<4>>, <<2>>, 3, 0), Inner(1, <<4>>, <<4>>, 0, 3), Inner(1, <<8>>, <<5>>, 6, 0),
            Leaf(<<2, 3>>, 5), Leaf(<<7, 8>>, 6), Leaf(<<10, 12>>, 0)>>]
MCTrees == {Two, Three, Lean, Full, One, Thin}
====
