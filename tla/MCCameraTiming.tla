---------------------------- MODULE MCCameraTiming ----------------------------
(* Small instances of CameraTiming for TLC.                                    *)
EXTENDS CameraTiming

CONSTANTS c1, c2, c3
===============================================================================
