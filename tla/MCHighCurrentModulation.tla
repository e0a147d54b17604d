---------------------- MODULE MCHighCurrentModulation ----------------------
(***************************************************************************)
(* A small instance of HighCurrentModulation for TLC.                      *)
(***************************************************************************)
EXTENDS HighCurrentModulation

\* What the thread asks for is a byte shifted by at most 7.  The largest and the smallest
\* values, the weights of high planes, where the strict comparison decides, and others.
Boundaries == <<32640, 1, 16384, 64, 0, 21760, 16256, 63, 255, 32512, 129, 4096>>
=============================================================================
