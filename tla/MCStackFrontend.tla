-------------------------- MODULE MCStackFrontend --------------------------
(* Small frontends: which module, AXI identifier and page each read has.   *)
EXTENDS StackFrontend, TLC

CONSTANTS page1, page2, page3, page4

(* A host module has banks of its own: one bank each, three pages for the  *)
(* first module and one for the second.                                    *)
OneModule == [r \in Reads |-> 1]
OneBank == [k \in Keys |-> 1]
TwoModules == <<1, 1, 1, 2>>
TwoBanks == [k \in Keys |-> IF k = page4 THEN 2 ELSE 1]

PairedIds == [r \in Reads |-> r \div 3]
OwnIds == [r \in Reads |-> r]

(* Three pages, and the first one read twice.                              *)
Pages == <<page1, page2, page3, page1>>
PagesApart == <<page1, page2, page3, page4>>
=============================================================================
