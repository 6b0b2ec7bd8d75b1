---------------------------- MODULE MCNativeStream ----------------------------
(* Small instances of the stream.                                          *)
EXTENDS NativeStream, TLC

CONSTANTS w1, w2, i1, i2
=============================================================================
