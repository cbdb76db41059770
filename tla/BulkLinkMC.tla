----------------------------- MODULE BulkLinkMC -----------------------------
(* The sizes of bulk_usb.c; commands of each kind the patcher sends. *)
EXTENDS BulkLink

Run(n) == [i \in 1..n |-> i % 256]

Ping   == Command("p", <<>>, <<>>)
Param  == Command("P", <<1, 0, 0, 0, 65, 120, 111, 83, 2, 0>>, <<>>)
Midi   == Command("M", <<144, 60, 120>>, <<>>)
Preset == Command("R", <<>>, Run(16))
\* The file has attributes, and a name that makes the command a whole packet.
Create == Command("C", <<9, 0, 0, 0, 0, 102, 0, 0, 65, 0>> \o [i \in 1..49 |-> 65] \o <<0>>, <<>>)
Block(n) == Command("W", <<0, 0, 1, 32>>, Run(n))

MCPlayed == {Midi}
MCAsked == {Ping, Param, Create, Preset, Block(128), Block(270)}

ASSUME AllComplete == \A cmd \in MCAsked \cup MCPlayed : Complete(cmd)
=============================================================================
