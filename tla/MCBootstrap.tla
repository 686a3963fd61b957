----------------------------- MODULE MCBootstrap -----------------------------
(* Start-up of a development build followed by two page handlers calling  *)
(* getAccessToken.                                                          *)
EXTENDS Bootstrap

CONSTANTS c1, c2

MCCallers == {c1, c2}
=============================================================================
