--------------------------- MODULE MCSubgraphSync ---------------------------
(***************************************************************************)
(* Small instances of SubgraphSync: two orders and pages of two, so that   *)
(* the first fetch takes one or two pages and a sync may take several.     *)
(***************************************************************************)
EXTENDS SubgraphSync

CONSTANTS o1, o2
=============================================================================
