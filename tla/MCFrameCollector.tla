--------------------------- MODULE MCFrameCollector ---------------------------
(* Small instances of FrameCollector for TLC.                                  *)
EXTENDS FrameCollector

CONSTANTS h1, h2, h3, h4
===============================================================================
