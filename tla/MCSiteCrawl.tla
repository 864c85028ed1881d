----------------------------- MODULE MCSiteCrawl -----------------------------
(* SiteCrawl on one crawl.                                                    *)
EXTENDS SiteCrawl
==============================================================================
