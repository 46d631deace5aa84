------------------------------ MODULE XmlSaves ------------------------------
(***************************************************************************)
(* tinyxml: loading a document, saving it, and loading what was saved, as  *)
(* LogModule does with configure.xml each time it ends.                    *)
(***************************************************************************)
EXTENDS XmlParser

VARIABLES
  phase,   \* "load", "reload" after a save, "torn" after a save cut short, "done"
  saved,   \* history: the nodes that were saved
  printer  \* how a document is printed: TiXmlDocument::Print or a TiXmlPrinter

vars == <<text, p, stack, error, coding, phase, saved, printer>>
-----------------------------------------------------------------------------
(***************************************************************************)
(* Printing: what SaveFile writes. A break and the indentation after it    *)
(* are one piece of white space.                                           *)
(***************************************************************************)
\* EncodeString: the inverse of GetChar, except that what already looks like a
\* character reference is passed through.
EncodeString(chars) ==
  LET Passed(i) == chars[i] = "&" /\ i < Len(chars) /\ chars[i + 1] = "#x;"
  IN  FlattenSeq([i \in DOMAIN chars |->
        CASE Passed(i) -> <<"&#x;">>
          [] i > 1 /\ chars[i] = "#x;" /\ Passed(i - 1) -> <<>>
          [] chars[i] = "<" -> <<"&lt;">>
          [] chars[i] = "&" /\ ~Passed(i) -> <<"&amp;">>
          [] OTHER -> <<chars[i]>>])

IsText(node) == node.kind \in {"text", "cdata"}

PrintDeclared(name, value) ==
  IF value = <<>> THEN <<>> ELSE <<name, "=", Quote>> \o value \o <<Quote, Space>>

PrintLeaf(node) ==
  CASE node.kind = "text" -> EncodeString(node.value)
    [] node.kind = "cdata" -> <<Space, "<![CDATA[">> \o node.value \o <<"]]", ">", Space>>
    [] node.kind = "comment" -> <<"<!--">> \o node.value \o <<"--", ">">>
    [] node.kind = "unknown" -> <<"<">> \o node.value \o <<">">>
    [] node.kind = "declaration" ->
         <<"<?xml", Space>>
           \o PrintDeclared("version", node.value[1])
           \o PrintDeclared("encoding", node.value[2])
           \o <<"?", ">">>

\* TiXmlPrinter prints each node on a line of its own, TiXmlElement::Print has no break
\* in front of a text.
Break(node) == IF printer = "file" /\ IsText(node) THEN <<>> ELSE <<Space>>

\* ... and neither has one around a text that is the only child; for TiXmlPrinter CDATA
\* is no such text.
Alone(kids) ==
  /\ Len(kids) = 1
  /\ Head(kids).kind = "text" \/ (printer = "file" /\ IsText(Head(kids)))

\* TiXmlAttribute::Print.
PrintAttribute(attribute) ==
  <<Space>> \o attribute.name \o <<"=", Quote>> \o EncodeString(attribute.value) \o <<Quote>>

\* TiXmlElement::Print.
RECURSIVE PrintNode(_)
PrintNode(node) ==
  LET opened == <<"<">> \o node.name
                  \o FlattenSeq([i \in DOMAIN node.attrs |-> PrintAttribute(node.attrs[i])])
      inside == FlattenSeq([i \in DOMAIN node.kids |->
                  Break(node.kids[i]) \o PrintNode(node.kids[i])])
      closed == EndTag(node.name) \o <<">">>
  IN  CASE node.kind # "element" -> PrintLeaf(node)
        [] node.kind = "element" /\ node.kids = <<>> -> opened \o <<Space, "/", ">">>
        [] node.kind = "element" /\ Alone(node.kids) ->
             opened \o <<">">> \o PrintNode(Head(node.kids)) \o closed
        [] OTHER -> opened \o <<">">> \o inside \o <<Space>> \o closed

\* SaveFile puts a byte order mark in front if the document was loaded with one.
PrintDocument(nodes) ==
  (IF printer = "file" /\ Head(text) = BOM THEN <<BOM>> ELSE <<>>)
  \o FlattenSeq([i \in DOMAIN nodes |->
    PrintNode(nodes[i]) \o <<Space>>])
-----------------------------------------------------------------------------
Parse == ParserNext /\ UNCHANGED <<phase, saved, printer>>

\* TiXmlDocument::LoadFile, with nothing parsed.
Load(t) ==
  /\ text' = t
  /\ coding' = InitialCoding(t)
  /\ p' = SkipWhiteSpace(1)'
  /\ stack' = <<Document>>
  /\ error' = "none"

\* The document is saved and the file loaded again.
SaveFile ==
  /\ phase = "load" /\ Returned /\ Failure = "none"
  /\ saved' = Nodes
  /\ phase' = "reload"
  /\ Load(PrintDocument(Nodes))
  /\ UNCHANGED printer

\* What there is of a lexeme that was written in part; of one that is a byte nothing, and
\* of a name a shorter name.
Pieces(lexeme) ==
  CASE lexeme \in {"<!--", "<![CDATA["} -> {<<"<">>, <<"<", "!">>}
    [] lexeme = "<?xml" -> {<<"<">>, <<"<", "?">>}
    [] lexeme = "--" -> {<<"-">>}
    [] lexeme = "]]" -> {<<"]">>}
    [] lexeme \in {"&lt;", "&amp;"} -> {<<"&">>, <<"&", "a">>}
    [] lexeme = "&#x;" -> {<<"&">>, <<"&#">>, <<"&#", "x">>}
    [] lexeme \in {"version", "encoding", "utf-8"} -> {<<"a">>}
    [] lexeme = BOM -> {<<Lead>>, <<Lead, Trail>>}
    [] OTHER -> {}

\* The process dies while it saves: the file was truncated when it was opened, and
\* holds what was written by then, up to any byte.
SaveFileCutShort ==
  /\ phase = "load" /\ Returned /\ Failure = "none"
  /\ saved' = Nodes
  /\ phase' = "torn"
  /\ LET printed == PrintDocument(Nodes)
     IN  \E written \in 0..Len(printed) :
           \E piece \in {<<>>} \cup
                (IF written < Len(printed) THEN Pieces(printed[written + 1]) ELSE {}) :
             Load(SubSeq(printed, 1, written) \o piece)
  /\ UNCHANGED printer

Finish ==
  /\ \/ phase \in {"reload", "torn"}
     \/ phase = "load" /\ Failure # "none"
  /\ Returned
  /\ error' = Failure
  /\ phase' = "done"
  /\ UNCHANGED <<text, p, stack, coding, saved, printer>>

\* The parser has left the text.
Lost ==
  /\ phase # "done" /\ p = Outside
  /\ phase' = "done"
  /\ UNCHANGED <<text, p, stack, error, coding, saved, printer>>

Init ==
  /\ ParserInit
  /\ phase = "load"
  /\ saved = <<>>
  /\ printer \in {"file", "printer"}

Done == phase = "done" /\ UNCHANGED vars

Next == Parse \/ SaveFile \/ SaveFileCutShort \/ Finish \/ Lost \/ Done

Spec == Init /\ [][Next]_vars
-----------------------------------------------------------------------------
(***************************************************************************)
(* Correctness                                                             *)
(***************************************************************************)
TypeOK ==
  /\ ParserTyped
  /\ phase \in {"load", "reload", "torn", "done"}
  /\ printer \in {"file", "printer"}

\* What printing cannot keep apart: an & in front of what looks like the rest of a
\* character reference, the first byte of a character in front of something else than
\* its second, the white space an unknown reference leaves behind, and a declaration's
\* values, which are printed as they are.
Kept(value) ==
  \A i \in DOMAIN value :
    LET next == IF i < Len(value) THEN value[i + 1] ELSE "end"
    IN  /\ ~(value[i] = "&" /\ next = "#x;")
        /\ value[i] = Lead => next = Trail

Trimmed(value) ==
  \A i \in DOMAIN value : value[i] = Space =>
    i > 1 /\ i < Len(value) /\ value[i + 1] # Space

RECURSIVE Printable(_)
Printable(node) ==
  CASE node.kind = "element" ->
         /\ \A i \in DOMAIN node.attrs : Kept(node.attrs[i].value)
         /\ \A i \in DOMAIN node.kids : Printable(node.kids[i])
    [] node.kind = "text" -> Kept(node.value) /\ Trimmed(node.value)
    [] node.kind = "declaration" ->
         \A i \in {1, 2} : Kept(node.value[i]) /\ "&" \notin Range(node.value[i])
    [] OTHER -> TRUE

\* A document that was loaded and saved loads again, without an error, as the same tree
\* and without leaving the text: LogModule saves the configuration it loaded each time it
\* ends.
ReloadStable ==
  /\ TypeOK
  /\ phase = "reload" /\ (\A i \in DOMAIN saved : Printable(saved[i]))
       => p # Outside /\ (Returned => Failure = "none" /\ Nodes = saved)

Elements(nodes) == SelectSeq(nodes, LAMBDA node : node.kind = "element")

\* What loads without an error is there in full: its elements are whole, and a file whose
\* save was cut short holds the first of the elements that were saved, in their order.
TornSaveDetected ==
  /\ WholeElements
  /\ phase = "torn" /\ Returned /\ Failure = "none" /\ (\A i \in DOMAIN saved : Printable(saved[i]))
       => IsPrefix(Elements(Nodes), Elements(saved))

\* A configuration that is loaded is the one that was saved, or what there is of it, and
\* one of which part is missing inside of an element is not taken for whole.
LoadedAsSaved == ReloadStable /\ TornSaveDetected
=============================================================================
