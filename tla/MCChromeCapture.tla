--------------------------- MODULE MCChromeCapture ---------------------------
(***************************************************************************)
(* A small instance of ChromeCapture for TLC.                              *)
(***************************************************************************)
EXTENDS ChromeCapture
=============================================================================
