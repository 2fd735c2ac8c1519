---------------------------- MODULE MCAsyncTimer ----------------------------
(* TLC instance of AsyncTimer.                                             *)
EXTENDS AsyncTimer
=============================================================================
