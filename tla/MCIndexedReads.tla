--------------------------- MODULE MCIndexedReads ----------------------------
(* The instance of IndexedReads on its own: a table of two rows with   *)
(* one value of a plain column, or with two of an identity.               *)
EXTENDS IndexedReads

PlainColumn == {<<FALSE, <<1, 1>>>>}
IdentityColumn == {<<TRUE, <<1, 2>>>>}
=============================================================================
