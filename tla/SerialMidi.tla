----------------------------- MODULE SerialMidi -----------------------------
(***************************************************************************)
(* The parser of the serial MIDI input (serial_MidiInByteHandler) and,     *)
(* beside it, the messages that are in a sequence of bytes: what the       *)
(* parser has to find.                                                     *)
(***************************************************************************)
EXTENDS Integers, Sequences, FiniteSets

Byte == 0..255

\* The length of a message with its status byte; -1 if it varies.
StatusLength(status) ==
    CASE status \div 16 \in {8, 9, 10, 11, 14} -> 3
      [] status \div 16 \in {12, 13}           -> 2
      [] status \in {242, 255}                 -> 3
      [] status \in {241, 243}                 -> 2
      [] status \in {240, 247}                 -> -1
      [] OTHER                                 -> 1

IsStatus(b) == b >= 128
IsSingle(b) == IsStatus(b) /\ StatusLength(b) = 1

Message(status, data1, data2) == <<status, data1, data2>>
-----------------------------------------------------------------------------
(* The parser: MidiByte0, MidiByte1, MidiCurData and MidiNumData *)

ParserInit == [byte0 |-> 0, byte1 |-> 0, cur |-> 0, num |-> 0]

\* uint8_t num = len - 1
NewStatus(p, b) ==
    [p EXCEPT !.byte0 = b, !.num = (StatusLength(b) - 1) % 256, !.cur = 0]

\* The parser after a byte, and the messages it hands to MidiInMsgHandler.
Parsed(p, messages) == [parser |-> p, messages |-> messages]

InByte(p, b) ==
    IF IsSingle(b) THEN Parsed(p, <<Message(b, 0, 0)>>)
    ELSE IF IsStatus(b) THEN Parsed(NewStatus(p, b), <<>>)
    ELSE IF p.cur = 0
      THEN IF p.num = 1 THEN Parsed([p EXCEPT !.byte1 = b], <<Message(p.byte0, b, 0)>>)
           ELSE Parsed([p EXCEPT !.byte1 = b, !.cur = 1], <<>>)
    ELSE IF p.num = 2
      THEN Parsed([p EXCEPT !.cur = 0], <<Message(p.byte0, p.byte1, b)>>)
      ELSE Parsed(p, <<>>)
-----------------------------------------------------------------------------
(* The messages in a sequence of bytes.  A byte that is a message by       *)
(* itself may come anywhere, also within another message.  Apart from      *)
(* these, data belong to the last status byte, as many at a time as its    *)
(* messages have.                                                          *)

\* The positions of the data that follow the status byte at i, up to position j.
DataBetween(bytes, i, j) == {k \in i + 1..j : ~IsStatus(bytes[k])}

\* The status byte that the byte at j belongs to, or 0.
StatusBefore(bytes, j) ==
    LET before == {i \in 1..j - 1 : IsStatus(bytes[i]) /\ ~IsSingle(bytes[i])}
    IN  IF before = {} THEN 0 ELSE CHOOSE i \in before : \A k \in before : k <= i

Latest(S) == CHOOSE i \in S : \A k \in S : k <= i

\* The messages that end with the byte at j.
EndingAt(bytes, j) ==
    LET b == bytes[j]  i == StatusBefore(bytes, j)
    IN  IF IsSingle(b) THEN <<Message(b, 0, 0)>>
        ELSE IF IsStatus(b) \/ i = 0 THEN <<>>
        ELSE LET data == DataBetween(bytes, i, j)
                 len  == StatusLength(bytes[i])
             IN  CASE len = 2 -> <<Message(bytes[i], b, 0)>>
                   [] len = 3 /\ Cardinality(data) % 2 = 0
                          -> <<Message(bytes[i], bytes[Latest(data \ {j})], b)>>
                   [] OTHER -> <<>>

\* The messages in a sequence of bytes.
MessagesIn(bytes) ==
    LET upTo[n \in 0..Len(bytes)] ==
            IF n = 0 THEN <<>> ELSE upTo[n - 1] \o EndingAt(bytes, n)
    IN  upTo[Len(bytes)]
=============================================================================
