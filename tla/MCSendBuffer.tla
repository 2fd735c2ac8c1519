---------------------------- MODULE MCSendBuffer ----------------------------
(* TLC instance of SendBuffer.                                             *)
EXTENDS SendBuffer
=============================================================================
