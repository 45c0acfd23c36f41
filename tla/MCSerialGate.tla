---------------------------- MODULE MCSerialGate ----------------------------
(* An instance of SerialGate for TLC. *)
EXTENDS SerialGate

CONSTANTS a1, a2, b1, ka, kb

AllCalls == {a1, a2, b1}
KeyOfCall == [c \in AllCalls |-> IF c = b1 THEN kb ELSE ka]
=============================================================================
