----------------------------- MODULE MCServices -----------------------------
(* Services with few and small records, samples, maps, pictures, messages    *)
(* and declarations.                                                         *)
EXTENDS Services

Plain(block, length) == [ptr |-> block, len |-> length, select |-> {}, disconnect |-> {}]
Mapped(block, select, disconnect) ==
  [ptr |-> block, len |-> 0, select |-> select, disconnect |-> disconnect]
MCMaps ==
  {<<>>, <<Plain(Null, 2)>>, <<Plain("a", 1), Plain("b", 2)>>, <<Plain(Null, 1), Plain("b", 2)>>,
   <<Plain("a", 1), Plain(Null, 2), Plain("b", 1)>>, <<Plain(Null, 3)>>,
   <<Mapped("a", {3}, {0, 2}), Plain("b", 1)>>,
   <<Mapped("a", {2, 3}, {1}), Plain(Null, 1), Mapped("c", {2}, {0})>>,
   <<Plain("a", 1), Plain(Null, 1), Plain("b", 1), Plain(Null, 1), Plain("c", 1)>>}
MCBits == 0..3

MCGeometries ==
  {[base |-> <<2, 2>>, max |-> <<2, 2>>, aspect |-> <<4, 3>>],
   [base |-> <<3, 2>>, max |-> <<3, 4>>, aspect |-> <<1, 2>>]}
MCFrames == {<<3, 2>>, <<2, 4>>}
MCWindows == {<<5, 5>>}
MCFirstWindow == <<6, 4>>

SystemOf(fullPath, zips, blocks) == [fullPath |-> fullPath, zips |-> zips, blocks |-> blocks]
OverrideOf(types, fullPath, persistent) ==
  [of |-> types, fullPath |-> fullPath, persistent |-> persistent]
MCSystems ==
  {SystemOf(FALSE, FALSE, FALSE), SystemOf(TRUE, TRUE, FALSE), SystemOf(TRUE, TRUE, TRUE)}
MCOverrides ==
  {<<OverrideOf({"md"}, FALSE, TRUE)>>,
   <<OverrideOf({"md"}, FALSE, TRUE), OverrideOf({"sg"}, FALSE, FALSE)>>}
=============================================================================
