------------------------- MODULE MCCollectionIndexing -------------------------
(***************************************************************************)
(* Instances of CollectionIndexing for TLC.                                *)
(***************************************************************************)
EXTENDS CollectionIndexing

CONSTANTS a, b, nofeatures, noimage

ImageOrder == <<a, nofeatures, noimage, b>>
=============================================================================
