----------------------------- MODULE MCCatalog -----------------------------
(***************************************************************************)
(* Catalog on one snapshot, two row ids (a row that is deleted may come    *)
(* back under the next id) and two rebuilds, which may overlap each other  *)
(* and everything else.                                                    *)
(***************************************************************************)
EXTENDS Catalog

=============================================================================
