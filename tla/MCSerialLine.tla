----------------------------- MODULE MCSerialLine --------------------------
(* What is played, and what is requested: within MIDI's ranges and beyond. *)
EXTENDS SerialLine

MCBeats    == {<<176, 44, 0>>}
MCControls == {<<1, 7, 100>>, <<64, 200, 9>>, <<256, 7, 9>>}
============================================================================
