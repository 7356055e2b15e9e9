-------------------------------- MODULE MCPages --------------------------------
(* Instances of Pages for TLC: up to three ids a day. *)
EXTENDS PagesProperties

MCDay == [i \in Ids |-> i \div 3]
=============================================================================
