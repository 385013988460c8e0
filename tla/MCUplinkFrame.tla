---------------------------- MODULE MCUplinkFrame ----------------------------
(* A small instance of UplinkFrame, with the exclusive or of numbers.        *)
EXTENDS UplinkFrame, Bitwise

BitXor(a, b) == a ^^ b

\* The instance has one argument byte, which is then the milliseconds.
OnlyByte(args) == args[1]
==============================================================================
