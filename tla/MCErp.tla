-------------------------------- MODULE MCErp --------------------------------
(* An organization of two supplies that seed inserts, the shells first.        *)
EXTENDS ErpApp

CONSTANTS shell, potion

Items == <<<<shell, 2>>, <<potion, 1>>>>
Change == {-1}
=============================================================================
