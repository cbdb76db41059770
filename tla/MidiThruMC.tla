----------------------------- MODULE MidiThruMC -----------------------------
(***************************************************************************)
(* The clock within a note from the serial input; from the host, transfers *)
(* of up to three events, one of them longer than a packet.  The patch     *)
(* sends notes and pressure on, but not the clock.                         *)
(***************************************************************************)
EXTENDS MidiThru, SequencesExt

MCSerialInputs == {<<144, 60, 248, 100>>}

On    == <<9, 145, 64, 90>>
Touch == <<13, 209, 7, 0>>
Off   == <<8, 129, 64, 0>>
Clock == <<15, 248, 0, 0>>

MCHostEvents    == {On, Touch, Off, Clock}
MCHostTransfers == {<<On, Touch, Off>>, <<On, Clock>>, <<Clock>>}
MCSentOn        == {<<144, 60, 100>>, Tail(On), Tail(Touch), Tail(Off)}

(***************************************************************************)
(* The parser agrees with the reference on every sequence of up to five of:*)
(* a note, a program change, the start and the end of an exclusive         *)
(* message, a song position, the clock, and two data.  What the run leaves *)
(* out of SerialInputs is in these: cut off messages, running status and   *)
(* data before any status.                                                 *)
(***************************************************************************)
Sample == {144, 192, 240, 247, 242, 248, 60, 100}

Parse(bytes) ==
    FoldLeft(LAMBDA p, b : LET q == InByte(p.parser, b)
                           IN  Parsed(q.parser, p.messages \o q.messages),
             Parsed(ParserInit, <<>>), bytes)

ASSUME ParserAgrees ==
    \A n \in 0..5 : \A bytes \in [1..n -> Sample] :
        Parse(bytes).messages = MessagesIn(bytes)
=============================================================================
