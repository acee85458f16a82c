----------------------------- MODULE MCAckFlow -----------------------------
(* Instances of AckFlow, and of the X10Transmit it observes, for TLC.      *)
EXTENDS AckFlow, TLC

(* A slot of the ring is written before it is read, so what a slot outside *)
(* the queue holds makes no difference.                                    *)
View == <<[tx EXCEPT !.Outrecs = Queued], inUrb, decoding, loop, Do_exit, owed,
          waited, slipped>>
=============================================================================
