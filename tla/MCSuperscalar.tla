----------------------------- MODULE MCSuperscalar -----------------------------
(* Few registers and a short schedule.                                          *)
EXTENDS Superscalar
=============================================================================
