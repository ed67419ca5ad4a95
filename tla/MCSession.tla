----------------------------- MODULE MCSession -----------------------------
(* Small instances of Session: two writes under one key, and reads with     *)
(* payload types of their own or shared.                                    *)
EXTENDS Session

CONSTANTS w1, w2, g1, g2

MCkey == [r \in Requests |-> IF r \in {w1, w2} THEN "noise" ELSE ""]
MCexpect == [r \in Requests |->
               IF r = g1 THEN "battery" ELSE IF r = g2 THEN "codec" ELSE ""]
\* Records that share the payload type of their answers, as 0xf7 is shared.
SharedExpect == [r \in Requests |-> IF r \in {g1, g2} THEN "f7" ELSE ""]
=============================================================================
