----------------------------- MODULE MCSessions -----------------------------
(***************************************************************************)
(* One browser, two requests at the same time, and tokens for a second     *)
(* sign-in or for two rotations in a row.                                  *)
(***************************************************************************)
EXTENDS Sessions
CONSTANTS b1, r1, r2
MCBrowsers == {b1}
MCRequests == {r1, r2}
=============================================================================
