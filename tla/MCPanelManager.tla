--------------------------- MODULE MCPanelManager ---------------------------
EXTENDS PanelManager, TLC

MCStartScreen == [width |-> 16, height |-> 12]
MCScreens == {MCStartScreen, [width |-> 20, height |-> 10]}
MCStartSize == <<4, 4>>
MCPoints == {<<9, 9>>, <<9, 1>>, <<4, 2>>, <<16, 2>>}
MCSizes == {<<4, 5>>, <<4, 3>>}
MCMotions == {<<-1, 0>>}
Symmetry == Permutations(Panels)
=============================================================================
