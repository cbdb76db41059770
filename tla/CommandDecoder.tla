--------------------------- MODULE CommandDecoder ---------------------------
(***************************************************************************)
(* PExReceiveByte, which takes the commands of the patcher apart byte by   *)
(* byte, and the packets the patcher makes of them.  A command is "Axo", a *)
(* letter, fields of a fixed size and, for some, data of a given length.   *)
(***************************************************************************)
EXTENDS Integers, Sequences

Byte == 0..255

\* The letters of the commands, with their codes.
Code == [A |-> 65, B |-> 66, C |-> 67, D |-> 68, F |-> 70, M |-> 77, P |-> 80, R |-> 82,
         S |-> 83, T |-> 84, U |-> 85, V |-> 86, W |-> 87, Y |-> 89, c |-> 99, d |-> 100,
         p |-> 112, r |-> 114, s |-> 115, w |-> 119, y |-> 121]

Axo == <<65, 120, 111>>

Letters == DOMAIN Code
Known(b) == \E l \in Letters : Code[l] = b
LetterOf(b) == CHOOSE l \in Letters : Code[l] = b

\* How many bytes of fields follow the letter.
Fields == [l \in Letters |->
    CASE l = "P" -> 10 [] l = "U" -> 3  [] l = "W" -> 8  [] l = "w" -> 20
      [] l = "T" -> 1  [] l = "M" -> 3  [] l = "A" -> 4  [] l = "R" -> 4
      [] l = "B" -> 12 [] l = "r" -> 8  [] l = "y" -> 4  [] l = "C" -> 5
      [] OTHER -> 0]

WithData == {"W", "w", "A", "R"}   \* data follow the fields
Named    == "C"                    \* a name follows the fields

\* Those that PExReceiveByte acknowledges when it has carried them out.
Acknowledged == Letters \ {"P", "M", "B", "D", "d"}

Int4(b) == b[1] + 256 * (b[2] + 256 * (b[3] + 256 * b[4]))
Bytes4(n) == <<n % 256, (n \div 256) % 256, (n \div 65536) % 256, (n \div 16777216) % 256>>

\* The length of the data, within the fields.
LengthAt == [W |-> 5, w |-> 5, A |-> 1, R |-> 1]
DataLength(l, fields) == Int4(SubSeq(fields, LengthAt[l], LengthAt[l] + 3))

\* A command: its letter, its fields without the length of the data, the data.
Command(l, args, data) == [letter |-> l, args |-> args, data |-> data]

WithoutLength(l, fields) ==
    SubSeq(fields, 1, LengthAt[l] - 1) \o SubSeq(fields, LengthAt[l] + 4, Len(fields))
-----------------------------------------------------------------------------
(* The patcher: a packet for the letter and the fields, one for the data *)

HeaderOf(cmd) ==
    Axo \o <<Code[cmd.letter]>>
        \o IF cmd.letter \in WithData
             THEN SubSeq(cmd.args, 1, LengthAt[cmd.letter] - 1) \o Bytes4(Len(cmd.data))
                    \o SubSeq(cmd.args, LengthAt[cmd.letter], Len(cmd.args))
             ELSE cmd.args
-----------------------------------------------------------------------------
(* The board *)

\* header: the letter, "" before it, "?" for an unknown one.  state counts the
\* bytes of "Axo" that match; buf holds the fields, data what follows them.
Idle == [header |-> "", state |-> 0, buf |-> <<>>, data |-> <<>>]

\* What a byte does: the decoder after it, the command it completes (if any),
\* and whether it makes AckPending true.
On(dec)            == [dec |-> dec, done |-> <<>>, ack |-> FALSE]
Completed(l, a, d) == [dec |-> Idle, done |-> <<Command(l, a, d)>>,
                       ack |-> l \in Acknowledged]
\* Data were announced with a length of 0: the byte is taken for data.
Emptied(l)         == [dec |-> Idle, done |-> <<>>, ack |-> l \in {"W", "R"}]

Match(dec, b) ==
    IF dec.state < 3
      THEN On([dec EXCEPT !.state = IF b = Axo[dec.state + 1] THEN @ + 1 ELSE 0])
    ELSE IF ~Known(b)
      THEN On(IF b = 0 THEN Idle ELSE [Idle EXCEPT !.header = "?"])
    ELSE IF Fields[LetterOf(b)] = 0
      THEN Completed(LetterOf(b), <<>>, <<>>)
      ELSE On([Idle EXCEPT !.header = LetterOf(b)])

Field(dec, b) ==
    LET l == dec.header  buf == Append(dec.buf, b)
    IN  IF Len(buf) = Fields[l] /\ l \notin WithData \cup {Named}
          THEN Completed(l, buf, <<>>)
          ELSE On([dec EXCEPT !.buf = buf])

\* Mutant: one byte more than the length.
DatumOver(dec, b) ==
    LET l == dec.header  data == Append(dec.data, b)
    IN  IF Len(data) > DataLength(l, dec.buf)
          THEN Completed(l, WithoutLength(l, dec.buf), data)
          ELSE On([dec EXCEPT !.data = data])

Datum(dec, b) ==
    LET l == dec.header  data == Append(dec.data, b)  length == DataLength(l, dec.buf)
    IN  IF length = 0 THEN Emptied(l)
        ELSE IF Len(data) = length THEN Completed(l, WithoutLength(l, dec.buf), data)
        ELSE On([dec EXCEPT !.data = data])

\* FileName starts at the fifth field of "C".  It ends with the first zero,
\* unless it starts with one: then five bytes of attributes come before.
NameByte(dec, b) ==
    LET buf == Append(dec.buf, b)
    IN  IF b # 0 \/ (dec.buf[5] = 0 /\ Len(dec.buf) < 10)
          THEN On([dec EXCEPT !.buf = buf])
          ELSE Completed(Named, buf, <<>>)

PExReceiveByte(dec, b) ==
    IF dec.header = "" THEN Match(dec, b)
    ELSE IF dec.header = "?" THEN On(Idle)
    ELSE IF Len(dec.buf) < Fields[dec.header] THEN Field(dec, b)
    ELSE IF dec.header = Named THEN NameByte(dec, b)
    ELSE Datum(dec, b)
=============================================================================
