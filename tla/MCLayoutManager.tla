--------------------------- MODULE MCLayoutManager ---------------------------
EXTENDS LayoutManager, TLC

CONSTANTS a, b
MCExisting == <<a, b>>
MCStartArea == [x |-> 0, width |-> 40, height |-> 40]
MCAreas == {MCStartArea, [x |-> 8, width |-> 32, height |-> 40]}
MCSizes == {<<20, 20>>}
MCTransientSize == <<10, 10>>
MCTransientKinds ==
  {[modal |-> TRUE, focused |-> FALSE, bubble |-> None], [modal |-> FALSE, focused |-> TRUE, bubble |-> 12],
   [modal |-> FALSE, focused |-> FALSE, bubble |-> None]}
MCPlaces == {12}
MCTabPoints == {<<20, 38>>, <<2, 2>>}
MCTabOffset == <<1, 1>>
MCSummary == [x |-> 10, y |-> 10, width |-> 20, height |-> 10]
MCUsedKeys == {<<"F12", "">>, <<"Tab", "alt">>, <<"1", "alt">>, <<"Return", "">>, <<"h", "alt">>}
Symmetry == Permutations(Transients)
=============================================================================
