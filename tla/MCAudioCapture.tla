---------------------------- MODULE MCAudioCapture ----------------------------
(* Small instances of AudioCapture for TLC.                                    *)
EXTENDS AudioCapture

CONSTANTS c1, c2, c3

MCNonce == [c \in Call |-> IF c = c1 THEN 1000 ELSE IF c = c2 THEN 1255 ELSE 1513]
MCChunkSizes == [worklet |-> 1, script |-> 2]
===============================================================================
