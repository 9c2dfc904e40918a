-------------------------- MODULE MCFaceExpression --------------------------
(* FaceExpression for TLC: each method of the threads that a request calls *)
(* is called by one of these or by a vocab.                                *)
EXTENDS FaceExpression

Request(command, value) == [command |-> command, value |-> value]
SomeRequests ==
  {Request("start_ears", TRUE),
   Request("start_blinking", FALSE), Request("enable_draw_eyes", FALSE),
   Request("emotion", TRUE)}
==============================================================================
