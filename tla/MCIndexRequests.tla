--------------------------- MODULE MCIndexRequests ---------------------------
(* IndexRequests on batches that end inside a unit, fail in one, or fail at   *)
(* their first document.                                                      *)
EXTENDS IndexRequests

CONSTANTS a, b, c, bad

MCBatches == {<<a>>, <<bad>>, <<a, b, c, bad>>, <<b, a>>}
==============================================================================
