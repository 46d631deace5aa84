---------------------------- MODULE XmlLocations ----------------------------
(***************************************************************************)
(* tinyxml: the row and column that LogModule or any other user is told    *)
(* for a node or an error. A file is a sequence of characters, each the    *)
(* sequence of its bytes; Stamp walks through the bytes from where it      *)
(* stopped before. The encoding is the caller's, or that of the byte order *)
(* mark or of the declaration, which comes before all that is not ASCII.   *)
(***************************************************************************)
EXTENDS Naturals, FiniteSets, SequencesExt

CONSTANTS
  TabSize,   \* TiXmlDocument's tabsize; with 0 nothing is located
  MaxLength  \* bound: the characters of a file

ASSUME LocationAssumption == TabSize \in Nat \ {0} /\ MaxLength \in Nat

VARIABLES
  file,      \* what the file holds
  chars,     \* the characters that are parsed
  cut,       \* the bytes of the last one that are missing
  encoding,  \* "UTF8", or "LEGACY" for one character a byte
  stamp,     \* how many bytes have been walked through
  row, col,
  hung       \* Stamp does not return

locationVars == <<file, chars, cut, encoding, stamp, row, col, hung>>

CR == <<"CR">>
LF == <<"LF">>
Breaks == {CR, LF}
Invisible == {<<"EF", "BB", "BF">>, <<"EF", "BF", "BE">>, <<"EF", "BF", "BF">>}
FileCharacters == Breaks \cup {<<"x">>, <<"TAB">>, <<"C2", "BB">>, <<"EF", "BB", "BB">>} \cup Invisible
-----------------------------------------------------------------------------
\* Forgets that the LF behind a CR belongs to it.
NormalisedEach(s) == [i \in DOMAIN s |-> IF s[i] = CR THEN LF ELSE s[i]]

\* LoadFile: CR LF and CR become LF.
Normalised(s) ==
  FlattenSeq([i \in DOMAIN s |->
    CASE s[i] = LF /\ i > 1 /\ s[i - 1] = CR -> <<>>
      [] s[i] = CR -> <<LF>>
      [] OTHER -> <<s[i]>>])

bytes == SubSeq(FlattenSeq(chars), 1, Len(FlattenSeq(chars)) - cut)
Byte(q) == IF q \in DOMAIN bytes THEN bytes[q] ELSE "zero"

utf8Length(byte) == CASE byte = "C2" -> 2 [] byte = "EF" -> 3 [] OTHER -> 1

\* The character would go on behind the end, and the loop stays where it is.
Stuck(c) ==
  encoding = "UTF8" /\ Byte(c.p) = "EF" /\ "zero" \in {Byte(c.p + 1), Byte(c.p + 2)}

\* One turn of the loop of Stamp: a line break with the other half of a pair, a tab, or a
\* character, which has a width unless it is a mark.
Past(c) ==
  LET b == Byte(c.p)
      pair == (b = "CR" /\ Byte(c.p + 1) = "LF") \/ (b = "LF" /\ Byte(c.p + 1) = "CR")
  IN  CASE b \in {"CR", "LF"} ->
             [p |-> c.p + (IF pair THEN 2 ELSE 1), row |-> c.row + 1, col |-> 0]
        [] b = "TAB" -> [c EXCEPT !.p = @ + 1, !.col = (@ \div TabSize + 1) * TabSize]
        [] encoding = "UTF8" /\ <<b, Byte(c.p + 1), Byte(c.p + 2)>> \in Invisible ->
             [c EXCEPT !.p = @ + 3]
        [] OTHER ->
             [c EXCEPT !.p = @ + (IF encoding = "UTF8" THEN utf8Length(b) ELSE 1), !.col = @ + 1]

\* A turn of the loop up to the byte at now, while it goes on.
Turn(c, now) == IF c.p >= now \/ Byte(c.p) = "zero" \/ Stuck(c) THEN c ELSE Past(c)

\* The loop. A turn passes a byte at least, so no more than now of them do anything.
Walked(now) ==
  LET walk[n \in 0..now] ==
        IF n = 0 THEN [p |-> stamp + 1, row |-> row, col |-> col] ELSE Turn(walk[n - 1], now)
  IN  walk[now]

\* Stamp. A place it has passed leaves everything as it is. At the terminating zero the
\* function returns without a change, and no place behind it is asked for.
Stamp(now) ==
  LET c == Walked(now)
  IN  /\ ~hung
      /\ IF c.p < now
         THEN hung' = TRUE /\ UNCHANGED <<stamp, row, col>>
         ELSE stamp' = c.p - 1 /\ row' = c.row /\ col' = c.col /\ UNCHANGED hung
      /\ UNCHANGED <<file, chars, cut, encoding>>

\* Where a lexeme can start: at a character, or at the end.
Stamped ==
  {1 + Len(FlattenSeq(SubSeq(chars, 1, i))) : i \in 0..Len(chars) - 1} \cup {Len(bytes) + 1}

\* What is parsed: the file that LoadFile has read, which may have been cut off anywhere,
\* or a text that the program gives to Parse as it is.
LocationInit ==
  /\ file \in UNION {[1..n -> FileCharacters] : n \in 0..MaxLength}
  /\ chars \in {file, Normalised(file)}
  /\ cut \in 0..(IF chars = <<>> THEN 0 ELSE Len(Last(chars)) - 1)
  /\ encoding \in {"UTF8", "LEGACY"}
  /\ stamp = 0 /\ row = 0 /\ col = 0 /\ hung = FALSE

LocationNext == \E now \in Stamped : Stamp(now)

LocationSpec == LocationInit /\ [][LocationNext]_locationVars
-----------------------------------------------------------------------------
(***************************************************************************)
(* ConvertUTF32ToUTF8: the character of a reference like &#xE9;            *)
(***************************************************************************)
CodePoints == {1, 127, 128, 233, 2047, 2048, 65279, 65535, 65536, 1114111, 1310719, 2097152}

FirstByteMark == <<0, 192, 224, 240>>

EncodedLength(n) ==
  IF n < 128 THEN 1 ELSE IF n < 2048 THEN 2 ELSE IF n < 65536 THEN 3
  ELSE IF n < 2097152 THEN 4 ELSE 0

\* input >>= 6, as often as there are bytes behind.
Shifted(n, behind) == n \div <<1, 64, 4096, 262144>>[behind + 1]

\* The last bytes take six bits each, the first one the rest.
ConvertUTF32ToUTF8(n) ==
  LET length == EncodedLength(n)
  IN  [i \in 1..length |->
        IF i = 1 THEN Shifted(n, length - 1) + FirstByteMark[length]
        ELSE 128 + (Shifted(n, length - i) % 64)]

utf8ByteTable(byte) ==
  CASE byte \in 194..223 -> 2 [] byte \in 224..239 -> 3 [] byte \in 240..244 -> 4 [] OTHER -> 1
-----------------------------------------------------------------------------
(***************************************************************************)
(* Correctness                                                             *)
(***************************************************************************)
\* The text as its reader sees it, and the part that was walked through.
Seen == IF encoding = "UTF8" THEN chars ELSE [i \in DOMAIN bytes |-> <<bytes[i]>>]
Passed == {i \in DOMAIN Seen : Len(FlattenSeq(SubSeq(Seen, 1, i - 1))) < stamp}

\* A break ends a line unless it is the second half of a pair.
EndsLine(i) ==
  LET alternate == {j \in 1..i : \A k \in j..i : Seen[k] \in Breaks
                                                  /\ (k > j => Seen[k] # Seen[k - 1])}
  IN  Seen[i] \in Breaks /\ Cardinality(alternate) % 2 = 1

Width(before, char) ==
  CASE char = <<"TAB">> -> TabSize - (before % TabSize)
    [] char \in Invisible -> 0
    [] OTHER -> 1

\* How wide the line is behind each character.
Columns ==
  LET column[i \in 0..Len(Seen)] ==
        IF i = 0 \/ Seen[i] \in Breaks THEN 0
        ELSE column[i - 1] + Width(column[i - 1], Seen[i])
  IN  column

FileLines == {i \in DOMAIN file : file[i] = CR \/ (file[i] = LF /\ ~(i > 1 /\ file[i - 1] = CR))}

\* Every line end of a file is counted once, in whatever style it is written.
RowIsLine ==
  /\ row = Cardinality({i \in Passed : EndsLine(i)})
  /\ chars = Normalised(file) /\ stamp >= Len(bytes) => row = Cardinality(FileLines)

\* The column is that of the last line.
ColumnInLine == col = Columns[Cardinality(Passed)]

\* A call returns unless the text breaks off inside of a character of three bytes that
\* starts like a mark.
StampReturns == hung => cut > 0 /\ Head(Last(chars)) = "EF"

\* The number that a reader makes of the bytes of a character.
Value(encoded) ==
  LET value[i \in 1..Len(encoded)] ==
        IF i = 1 THEN encoded[1] - FirstByteMark[Len(encoded)]
        ELSE 64 * value[i - 1] + (encoded[i] % 64)
  IN  value[Len(encoded)]

\* The last character there is, by its number.
LastCharacter == 1114111

\* A character given by its number is read again as one character with that number.
ReadAgain(n) ==
  LET encoded == ConvertUTF32ToUTF8(n)
  IN  utf8ByteTable(encoded[1]) = Len(encoded) /\ Value(encoded) = n

\* Through any number of calls the row and column are those of the place in the whole
\* text, and characters keep their numbers, up to the last one there is.
Located ==
  /\ RowIsLine /\ ColumnInLine
  /\ StampReturns
  /\ \A n \in {m \in CodePoints : m <= LastCharacter} : ReadAgain(n)
=============================================================================
