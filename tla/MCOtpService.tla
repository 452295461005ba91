---------------------------- MODULE MCOtpService ----------------------------
(* A small instance of OtpService: two requests are interchangeable, and    *)
(* so are the codes.                                                        *)
EXTENDS OtpService, TLC

Interchangeable == Permutations(Codes) \cup Permutations(Handlers)
=============================================================================
