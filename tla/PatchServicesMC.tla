--------------------------- MODULE PatchServicesMC ---------------------------
(* A message of one event and an exclusive message of two. *)
EXTENDS PatchServices

MCMessages == {<<"note">>, <<"start", "end">>}
MCSizes    == {5}
=============================================================================
