--------------------------- MODULE MCRateLimiter ---------------------------
(* The rate limiter alone; the addresses of the ledger are not used. *)
EXTENDS RateLimiterLog
=============================================================================
