----------------------------- MODULE UsbAudioMC -----------------------------
(* The clock of the codec is the faster or the slower one. *)
EXTENDS UsbAudio

MCDrifts == {-1, 0, 1}
=============================================================================
