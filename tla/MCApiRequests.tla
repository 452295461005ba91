---------------------------- MODULE MCApiRequests ----------------------------
(* A small instance of the requests to the API server.                     *)
EXTENDS ApiRequests

CONSTANTS r1, r2, c1
=============================================================================
