-------------------------- MODULE MCSerialBridge --------------------------
(***************************************************************************)
(* A small instance of the serial line: readings and sequence counts with  *)
(* the bytes of the marker among them.                                     *)
(***************************************************************************)
EXTENDS SerialBridge

\* 14.5 C and 40.1 % are the bytes 05 AA 0F AA; 23.89 C and 35.84 % are
\* 09 55 0E 00, the second half of a marker and a length that is accepted.
MarkedReadings == <<[temp |-> 1450, humid |-> 4010], [temp |-> 2389, humid |-> 3584],
                    [temp |-> 1450, humid |-> 4010]>>

=============================================================================
