----------------------------- MODULE MCLibrary -----------------------------
(* Library on a small instance: the masks, which may rely on other masks, and*)
(* a page with a guichet of this category.                                   *)
EXTENDS Library

CONSTANTS mask, a, b, w

MCCoordinates ==
    {[cat |-> mask, confname |-> n] : n \in {a, b}}

MCRelies == [k \in {mask} |-> {mask}]

MCCategoryOf == [x \in {w} |-> mask]
=============================================================================
