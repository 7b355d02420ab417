--------------------------- MODULE MCInventorySvc ---------------------------
(***************************************************************************)
(* Instances of InventorySvc for TLC.                                       *)
(***************************************************************************)
EXTENDS InventorySvc

CONSTANTS h1, h2, w1, r1, unseen

TwoStates   == {unseen, {w1}}
ThreeStates == {unseen, {}, {w1}}

TwoHosts == <<h1, h2>>
Labelled == [h \in {h1, h2} |-> {<<"env", "dev">>, <<"role", h>>}]
NoFilter == {}
ByRole   == {<<"env", "dev">>, <<"role", h2>>}
BothFilters == {NoFilter, ByRole}
==============================================================================
