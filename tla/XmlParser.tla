----------------------------- MODULE XmlParser -----------------------------
(***************************************************************************)
(* tinyxml: parsing a document.                                            *)
(*                                                                         *)
(* A text is a sequence of lexemes: a bracket, a quote, a piece of a name, *)
(* white space, a reference.  The parser is recursive; the stack holds the *)
(* elements and the declaration under construction, below them the         *)
(* document.  p is the parser's pointer: 0 is the null pointer, which is   *)
(* how a parse function fails, and one past the text is its terminating    *)
(* zero.  Of the bytes above 127 there are the two of one character, which *)
(* stands for all that have more than one.                                 *)
(***************************************************************************)
EXTENDS Naturals, SequencesExt

CONSTANTS Texts  \* the files that are loaded

\* A byte order mark stands at the start.
ASSUME TextsAssumption ==
  \A t \in Texts : t \in Seq(STRING) /\ \A i \in DOMAIN t : t[i] = "BOM" => i = 1

VARIABLES
  text,   \* what is being parsed
  p,      \* where the parser is
  stack,  \* the document and what is under construction in it
  error,  \* the first error, "none" without one
  coding  \* how characters are encoded: "unknown", "utf8" or "legacy"

parser == <<text, p, stack, error, coding>>
-----------------------------------------------------------------------------
(***************************************************************************)
(* Characters and references                                               *)
(***************************************************************************)
BOM == "BOM"      \* the byte order mark
Lead == "C3"      \* the first byte of a character
Trail == "A9"     \* ... and its second

NameStart == {"a", "b", "version", "encoding", "utf-8", Lead, Trail}
NameChars == NameStart \cup {"--"}

Space == " "
Quote == "\""

At(q) == IF q \in 1..Len(text) THEN text[q] ELSE "end"
Ended(q) == At(q) = "end"

\* StringEqual: the text goes on with these lexemes.
StringEqual(q, lexemes) ==
  \A i \in 1..Len(lexemes) : At(q + i - 1) = lexemes[i]

Places(lexemes) == {i \in DOMAIN text : text[i] \in lexemes}

\* The first of the places from q on; the end of the text if there is none.
First(q, places) == Min({i \in q..Len(text) : i \in places} \cup {Len(text) + 1})

SkipWhiteSpace(q) ==
  IF Ended(q) THEN 0 ELSE First(q, DOMAIN text \ Places({Space, BOM}))

\* The characters of a lexeme that opens a tag or a reference.
Characters(lexeme) ==
  CASE lexeme = "<!--" -> <<"<", "!--">>
    [] lexeme = "<![CDATA[" -> <<"<", "![CDATA[">>
    [] lexeme = "<?xml" -> <<"<", "?xml">>
    [] lexeme = "&lt;" -> <<"&", "lt;">>
    [] lexeme = "&amp;" -> <<"&", "amp;">>
    [] lexeme = "&#x;" -> <<"&", "#x;">>
    [] lexeme = "&#" -> <<"&", "#">>
    [] OTHER -> <<lexeme>>

\* GetChar with GetEntity: a reference becomes its character, an & that starts
\* no known reference is dropped.
GetChar(lexeme) ==
  CASE lexeme = "&lt;" -> <<"<">>
    [] lexeme = "&amp;" -> <<"&">>
    [] lexeme = "&#x;" -> <<"@">>
    [] lexeme = "&" -> <<>>
    [] lexeme = "&#" -> <<"#">>
    [] OTHER -> Characters(lexeme)

\* GetEntity gives null: a number that is none. An &# that ends the text is no number.
NoReference(q) == At(q) = "&#" /\ ~Ended(q + 1)

\* GetChar, reading from here on, takes the byte at i as the second of the character
\* before it, whatever it is: every other one behind a row of first bytes.
Swallowed(from, i) ==
  /\ coding = "utf8"
  /\ \E k \in from..i - 1 :
       /\ (i - k) % 2 = 1
       /\ \A j \in k..i - 1 : text[j] = Lead
       /\ k = from \/ text[k - 1] # Lead

\* Where ReadText ends: at one of the tags or at what cannot be read.
ReadTo(from, tags) ==
  First(from, {i \in DOMAIN text :
    /\ text[i] \in tags \/ NoReference(i)
    /\ ~Swallowed(from, i)})

\* The text breaks off inside of its last character, and ReadText has stepped over the
\* terminating zero.
Overruns(from, end) ==
  /\ coding = "utf8" /\ Ended(end) /\ from \in 1..Len(text)
  /\ text[Len(text)] = Lead /\ ~Swallowed(from, Len(text))

\* Any place behind the terminating zero.
Outside == Len(text) + 2

\* ReadText's pointers: if memory goes on with a zero behind the text that of the end of
\* the text, if with anything else the parser has left the text.
Pointers(from, end, q) == {q} \cup {o \in {Outside} : Overruns(from, end)}

Lexemes(from, to) == SubSeq(text, from, to - 1)
Raw(from, to) == FlattenSeq([i \in 1..to - from |-> Characters(text[from + i - 1])])

Character(from, i) ==
  IF Swallowed(from, i) THEN Characters(text[i]) ELSE GetChar(text[i])
Decoded(from, to) == FlattenSeq([i \in 1..to - from |-> Character(from, from + i - 1)])

\* White space condensed: none in front and at the end, one space in between.
Condensed(from, to) ==
  LET Blank(q) == text[q] = Space /\ ~Swallowed(from, q)
  IN  FlattenSeq([i \in 1..to - from |->
        LET q == from + i - 1
        IN  CASE Blank(q) -> <<>>
              [] ~Blank(q) /\ q > from /\ Blank(q - 1) /\ \E j \in from..q - 1 : ~Blank(j)
                   -> <<Space>> \o Character(from, q)
              [] OTHER -> Character(from, q)])
-----------------------------------------------------------------------------
(***************************************************************************)
(* Leaves: each parse function returns the node and the pointer, ReadText  *)
(* may leave more than one.                                                *)
(***************************************************************************)
Leaf(kind, value) == [kind |-> kind, value |-> value]

\* ReadText goes on past the end tag; null if there is none or the text ends there.
PastTag(q, tag) ==
  IF Ended(q) \/ NoReference(q) \/ Ended(q + Len(tag)) THEN 0 ELSE q + Len(tag)

\* TiXmlComment::Parse; a comment that does not end is no error.
ParseComment(q) ==
  LET end == First(q + 1, {i \in DOMAIN text : StringEqual(i, <<"--", ">">>)})
  IN  [node |-> Leaf("comment", Lexemes(q + 1, end)),
       p |-> IF Ended(end) THEN end ELSE end + 2]

\* TiXmlText::Parse for CDATA: a section at the end of the text gives null.
ParseCData(q) ==
  LET end == First(q + 1, {i \in DOMAIN text : StringEqual(i, <<"]]", ">">>)})
  IN  [node |-> Leaf("cdata", Lexemes(q + 1, end)), p |-> PastTag(end, <<"]]", ">">>)]

\* TiXmlUnknown::Parse.
ParseUnknown(q) ==
  LET end == First(q + 1, Places({">"}))
  IN  [node |-> Leaf("unknown", Lexemes(q + 1, end)),
       p |-> IF Ended(end) THEN end ELSE end + 1]

\* ReadName: null without a name.
ReadName(q) ==
  IF At(q) \in NameStart THEN First(q, DOMAIN text \ Places(NameChars)) ELSE 0

\* TiXmlAttribute::Parse: name, =, and a value in quotes or without. A value whose
\* quotes or whose text end too soon is no error of its own.
ParseAttribute(q) ==
  LET start == SkipWhiteSpace(q)
      named == ReadName(start)
      equals == SkipWhiteSpace(named)
      value == SkipWhiteSpace(equals + 1)
      quoted == At(value) = Quote
      close == ReadTo(value + 1, {Quote})
      bare == First(value, Places({Space, "/", ">", Quote}))
      Read(chars, r, e) == [name |-> Lexemes(start, named), value |-> chars, p |-> r, error |-> e]
  IN  IF named = 0 \/ At(equals) # "=" \/ Ended(value)
      THEN {[name |-> <<>>, value |-> <<>>, p |-> 0, error |-> "READING_ATTRIBUTES"]}
      ELSE CASE quoted ->
                  {Read(Decoded(value + 1, close), r, "none") :
                     r \in Pointers(value + 1, close, PastTag(close, <<Quote>>))}
             [] ~quoted /\ At(bare) = Quote -> {Read(Raw(value, bare), 0, "READING_ATTRIBUTES")}
             [] ~quoted /\ At(bare) # Quote -> {Read(Raw(value, bare), bare, "none")}

\* What ends a text, and is not identified in one.
TagStarts == {"<", "<!--", "<![CDATA[", "<?xml"}

\* TiXmlText::Parse; the < that ends it is not consumed.
ParseText(q) ==
  LET end == ReadTo(q, TagStarts)
      past == IF Ended(end) \/ NoReference(end) \/ (At(end) = "<" /\ Ended(end + 1))
              THEN 0 ELSE end
  IN  {[node |-> Leaf("text", Condensed(q, end)), p |-> r] : r \in Pointers(q, end, past)}

\* TiXmlNode::Identify.
Identify(q) ==
  CASE At(q) = "<?xml" -> "declaration"
    [] At(q) = "<!--" -> "comment"
    [] At(q) = "<![CDATA[" -> "cdata"
    [] At(q) = "<" /\ At(q + 1) \in NameStart -> "element"
    [] At(q) = "<" /\ At(q + 1) \notin NameStart -> "unknown"
    [] OTHER -> "none"

ParseLeaf(q) ==
  CASE Identify(q) = "comment" -> ParseComment(q)
    [] Identify(q) = "cdata" -> ParseCData(q)
    [] Identify(q) = "unknown" -> ParseUnknown(q)
-----------------------------------------------------------------------------
(***************************************************************************)
(* The parser                                                              *)
(***************************************************************************)
Frame(name, mode) == [name |-> name, attrs |-> <<>>, kids |-> <<>>, mode |-> mode]
Document == Frame(<<>>, "document")

Top == Last(stack)

\* The element is whole if its own end was read and that of all in it.
AllWhole(nodes) == \A i \in DOMAIN nodes : nodes[i].kind = "element" => nodes[i].whole
Element(frame, ended) ==
  [kind |-> "element", name |-> frame.name, attrs |-> frame.attrs, kids |-> frame.kids,
   whole |-> ended /\ AllWhole(frame.kids)]

WithTop(frame) == [stack EXCEPT ![Len(stack)] = frame]
Linked(frames, node) ==  \* LinkEndChild at the last of the frames
  [frames EXCEPT ![Len(frames)].kids = Append(@, node)]

EndTag(name) == <<"<", "/">> \o name

\* A slip, once in the code: an element without its end tag is no error.
SetErrorButEndTag(e) ==
  error' = IF error = "none" /\ e \notin {"READING_ELEMENT_VALUE", "READING_END_TAG"}
           THEN e ELSE error

SetError(e) == error' = IF error = "none" THEN e ELSE error

\* Where the parser goes on, if it is still in the text.
GoOn(q) == IF q = Outside THEN Outside ELSE SkipWhiteSpace(q)

\* A node of the top frame is parsed; the parser goes on at q.
LinkEndChild(node, q) ==
  /\ stack' = Linked(stack, node)
  /\ p' = GoOn(q)
  /\ UNCHANGED error

\* The element on top returns: complete at q, or null with an error.
Close(q) ==
  /\ stack' = Linked(Front(stack), Element(Top, TRUE))
  /\ p' = SkipWhiteSpace(q)
  /\ UNCHANGED error

Fail(frames, e) ==
  /\ stack' = Linked(Front(frames), Element(Last(frames), FALSE))
  /\ p' = 0
  /\ SetError(e)

\* A leaf that is not text, in the document or in an element.
ParseNode ==
  /\ Top.mode \in {"document", "value"}
  /\ Identify(p) \in {"comment", "cdata", "unknown"}
  /\ ~(Top.mode = "value" /\ StringEqual(p, <<"<", "/">>))
  /\ \E parsed \in {ParseLeaf(p)} : LinkEndChild(parsed.node, parsed.p)
  /\ UNCHANGED <<text, coding>>

OpenDeclaration ==
  /\ Top.mode \in {"document", "value"}
  /\ Identify(p) = "declaration"
  /\ stack' = Append(stack, Frame(<<>>, "declaration"))
  /\ p' = p + 1
  /\ UNCHANGED <<text, error, coding>>

\* TiXmlDeclaration::Parse, a turn of the loop: reads over what it does not know; an
\* attribute that fails makes the pointer null, and nobody sets an error.
ReadDeclaration ==
  /\ Top.mode = "declaration" /\ At(p) \notin {"end", ">"}
  /\ LET next == SkipWhiteSpace(p)
     IN  \/ /\ At(next) \in {"version", "encoding"}
            /\ \E attribute \in ParseAttribute(next) :
                 /\ stack' = WithTop([Top EXCEPT !.attrs =
                      Append(@, [name |-> At(next), value |-> attribute.value])])
                 /\ p' = attribute.p
         \/ /\ At(next) \notin {"version", "encoding"}
            /\ p' = First(next, Places({">", Space}))
            /\ UNCHANGED stack
  /\ UNCHANGED <<text, error, coding>>

\* The last value of an attribute of the declaration.
Declared(name) ==
  LET places == {i \in DOMAIN Top.attrs : Top.attrs[i].name = name}
  IN  IF places = {} THEN <<>> ELSE Top.attrs[Max(places)].value

\* ... which returns behind the >, and null at the end of the text. The document takes
\* its encoding from the first declaration of its own.
EndDeclaration ==
  /\ Top.mode = "declaration" /\ At(p) \in {"end", ">"}
  /\ stack' = Linked(Front(stack),
                     Leaf("declaration", <<Declared("version"), Declared("encoding")>>))
  /\ p' = SkipWhiteSpace(IF Ended(p) THEN 0 ELSE p + 1)
  /\ LET encoding == Declared("encoding")
     IN  coding' = IF coding # "unknown" \/ Len(stack) # 2 THEN coding
                   ELSE IF encoding = <<>> \/ Head(encoding) = "utf-8" THEN "utf8"
                   ELSE "legacy"
  /\ UNCHANGED <<text, error>>

\* TiXmlElement::Parse up to the name.
OpenElement ==
  /\ Top.mode \in {"document", "value"}
  /\ Identify(p) = "element"
  /\ LET named == ReadName(p + 1)
         opened == Append(stack, Frame(Lexemes(p + 1, named), "attributes"))
     IN  IF Ended(named)
         THEN Fail(opened, "FAILED_TO_READ_ELEMENT_NAME")
         ELSE stack' = opened /\ p' = named /\ UNCHANGED error
  /\ UNCHANGED <<text, coding>>

\* TiXmlElement::Parse, the loop over attributes: what ends the tag.
EndAttributes ==
  /\ Top.mode = "attributes"
  /\ LET q == SkipWhiteSpace(p)
     IN  \/ /\ Ended(q)
            /\ Fail(stack, "READING_ATTRIBUTES")
         \/ /\ At(q) = "/" /\ At(q + 1) # ">"
            /\ Fail(stack, "PARSING_EMPTY")
         \/ /\ At(q) = "/" /\ At(q + 1) = ">"
            /\ Close(q + 2)
         \/ /\ At(q) = ">"
            /\ stack' = WithTop([Top EXCEPT !.mode = "value"])
            /\ p' = SkipWhiteSpace(q + 1)
            /\ UNCHANGED error
  /\ UNCHANGED <<text, coding>>

ReadAttribute ==
  /\ Top.mode = "attributes"
  /\ At(SkipWhiteSpace(p)) \notin {"end", "/", ">"}
  /\ \E attribute \in ParseAttribute(SkipWhiteSpace(p)) :
       \/ /\ attribute.p = Outside
          /\ p' = Outside
          /\ UNCHANGED <<stack, error>>
       \/ /\ attribute.p # Outside
          /\ \/ Ended(attribute.p)
             \/ \E i \in DOMAIN Top.attrs : Top.attrs[i].name = attribute.name
          /\ Fail(stack, IF attribute.error = "none" THEN "PARSING_ELEMENT" ELSE attribute.error)
       \/ /\ ~Ended(attribute.p)
          /\ \A i \in DOMAIN Top.attrs : Top.attrs[i].name # attribute.name
          /\ stack' = WithTop([Top EXCEPT !.attrs =
               Append(@, [name |-> attribute.name, value |-> attribute.value])])
          /\ p' = attribute.p
          /\ UNCHANGED error
  /\ UNCHANGED <<text, coding>>

\* A slip: the parser does not go on behind the text.
ReadTextStays ==
  /\ Top.mode = "value"
  /\ ~Ended(p) /\ At(p) \notin TagStarts
  /\ \E parsed \in ParseText(p) : LinkEndChild(parsed.node, p)
  /\ UNCHANGED <<text, coding>>

\* TiXmlElement::ReadValue: text; what is blank is not kept.
ReadText ==
  /\ Top.mode = "value"
  /\ ~Ended(p) /\ At(p) \notin TagStarts
  /\ \E parsed \in ParseText(p) :
         IF \A i \in DOMAIN parsed.node.value : parsed.node.value[i] = Space
         THEN p' = GoOn(parsed.p) /\ UNCHANGED <<stack, error>>
         ELSE LinkEndChild(parsed.node, parsed.p)
  /\ UNCHANGED <<text, coding>>

\* ... an end tag, or the end of the text.
EndValue ==
  /\ Top.mode = "value"
  /\ \/ /\ Ended(p)
        /\ Fail(stack, IF p = 0 THEN "READING_ELEMENT_VALUE" ELSE "READING_END_TAG")
     \/ /\ StringEqual(p, <<"<", "/">>)
        /\ LET past == SkipWhiteSpace(p + 2 + Len(Top.name))
           IN  IF StringEqual(p, EndTag(Top.name)) /\ At(past) = ">"
               THEN Close(past + 1)
               ELSE Fail(stack, "READING_END_TAG")
  /\ UNCHANGED <<text, coding>>
-----------------------------------------------------------------------------
\* TiXmlDocument::Parse returns; what the loop did not identify is left unread.
Returned == p # Outside /\ Top.mode = "document" /\ Identify(p) = "none"
Nodes == stack[1].kids
Failure == IF error = "none" /\ Nodes = <<>> THEN "DOCUMENT_EMPTY" ELSE error

\* A byte order mark tells the encoding, or else the declaration.
InitialCoding(t) == IF t # <<>> /\ Head(t) = BOM THEN "utf8" ELSE "unknown"

ParserInit ==
  /\ text \in Texts
  /\ coding = InitialCoding(text)
  /\ p = SkipWhiteSpace(1)
  /\ stack = <<Document>>
  /\ error = "none"

\* What a parser does that has left the text is not said.
ParserNext ==
  /\ p # Outside
  /\ \/ ParseNode \/ OpenDeclaration \/ ReadDeclaration \/ EndDeclaration
     \/ OpenElement \/ EndAttributes \/ ReadAttribute \/ ReadText \/ EndValue

ParserSpec == ParserInit /\ [][ParserNext]_parser
-----------------------------------------------------------------------------
(***************************************************************************)
(* Correctness                                                             *)
(***************************************************************************)
\* The parser stands in the text or is null, unless a text in UTF-8 breaks off inside
\* of a character; and the stack starts at the document.
ParserTyped ==
  /\ p \in 0..Len(text) + 1 \/ (p = Outside /\ coding = "utf8" /\ Last(text) = Lead)
  /\ coding \in {"unknown", "utf8", "legacy"}
  /\ stack # <<>>
  /\ \A i \in DOMAIN stack :
       stack[i].mode \in
         (IF i = 1 THEN {"document"} ELSE {"declaration", "attributes", "value"})

\* A document without an error holds no element whose end was not read, however
\* deep: not in a file cut off anywhere, nor when a parse function returns null
\* without an error of its own. tinyxmlparser.cpp notes "Failure to report error on
\* bad XML" as a bug that was fixed.
WholeElements ==
  error = "none" => \A f \in DOMAIN stack : AllWhole(stack[f].kids)

\* Every step reads on, returns from an element after the parser has become null, or
\* leaves the text, which takes one that breaks off inside of a character: with no state
\* that has no step, whatever else the file holds its parsing comes to its end.
Left == IF p = 0 THEN 0 ELSE 2 * (Len(text) + 2 - p)

Advances ==
  [][Returned \/ Left' + Len(stack') < Left + Len(stack)]_parser
=============================================================================
