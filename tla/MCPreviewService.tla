-------------------------- MODULE MCPreviewService --------------------------
(* Captures of nothing, of one screenshot of two units, or of two of one.   *)
EXTENDS PreviewService, TLC

MCScreenshots == {<<>>, <<2>>, <<1, 1>>}
=============================================================================
