---------------------------- MODULE MCXmlSaves -----------------------------
(***************************************************************************)
(* The files XmlSaves loads: every short text over the markup characters,  *)
(* and documents whose content, attributes or declaration is any short     *)
(* text over the lexemes that matter there.                                *)
(***************************************************************************)
EXTENDS XmlSaves

CONSTANTS ShortLen, ContentLen, AttributeLen, CodedLen

Upto(lexemes, n) == UNION {[1..k -> lexemes] : k \in 0..n}

\* An & directly before what ends a reference would be the reference.
Lexed(t) == \A i \in 1..Len(t) - 1 : t[i] = "&" => t[i + 1] # "#x;"

Markup == Upto({"<", ">", "/", "=", "a", " "}, ShortLen)

Contents ==
  {<<"<", "a", ">">> \o t \o <<"<", "/", "a", ">">> :
     t \in Upto({"<", "/", ">", "a", "b", " ", "&", "&amp;", "&lt;", "&#x;", "&#", "<!--",
                 "--", "<![CDATA[", "]]", Lead}, ContentLen)}

Attributes ==
  {<<"<", "a", " ">> \o t \o <<"/", ">">> :
     t \in Upto({"a", "b", "=", "\"", " ", "&amp;", "&#x;"}, AttributeLen)}

Declarations ==
  {<<"<?xml", " ">> \o t \o <<"<", "a", ">", "b", "<", "b", "/", ">", "<", "/", "a", ">">> :
     t \in Upto({"version", "=", "\"", "a", "?", ">"}, AttributeLen)}
  \cup {<<"<?xml", " ", "version", "=", "\"", "a", "\"", "?", ">", "<", "a", "/", ">">>}

\* What tells the encoding of what follows: nothing, a byte order mark, declarations.
Codings ==
  {<<>>, <<BOM>>, <<"<?xml", " ", "?", ">">>}
  \cup {<<"<?xml", " ", "encoding", "=", "\"", name, "\"", ">">> : name \in {"utf-8", "a", Lead}}

Coded ==
  {c \o <<"<", "a", ">">> \o t \o <<"<", "/", "a", ">">> :
     c \in Codings, t \in Upto({Lead, Trail, "&#", "&amp;", "<", ">", " ", "]]"}, CodedLen)}
  \cup {c \o <<"<", "a", " ", "b", "=", "\"">> \o t \o <<"/", ">">> :
     c \in Codings, t \in Upto({Lead, Trail, "&#", "&#x;", "\"", ">"}, CodedLen)}
  \cup {c \o t : c \in Codings, t \in Upto({Lead, "<", "a", ">"}, CodedLen)}

MCTexts == {t \in Markup \cup Contents \cup Attributes \cup Declarations \cup Coded : Lexed(t)}
=============================================================================
