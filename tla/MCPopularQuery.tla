--------------------------- MODULE MCPopularQuery ---------------------------
EXTENDS PopularQuery
CONSTANTS s1, r1, r2, k1, k2
==============================================================================
