---------------------------- MODULE MCXmlValues ----------------------------
(***************************************************************************)
(* What a node of tinyxml is made of: attributes, strings and a location.  *)
(* They share nothing, as strings are values in the model of attributes: a *)
(* behaviour is one of the attributes of two elements, of strings, or of   *)
(* the location while a text is parsed.                                    *)
(***************************************************************************)
EXTENDS XmlAttributes, XmlStrings, XmlLocations, TLC

VARIABLES part

\* The empty name and value, a number, a word and a value of neither kind.
MCNames == {<<>>, <<"k">>, <<"l">>}
MCValues == {<<>>, <<"1">>, <<"n">>}

Init ==
  /\ part \in {"attributes", "strings", "location"}
  /\ AttributesInit /\ StringInit
  /\ IF part = "location" THEN LocationInit
     ELSE /\ file = <<>> /\ chars = <<>> /\ cut = 0 /\ encoding = "UTF8"
          /\ stamp = 0 /\ row = 0 /\ col = 0 /\ hung = FALSE

RingsNext == part = "attributes" /\ AttributesNext /\ UNCHANGED <<part, stringVars, locationVars>>
StringsNext == part = "strings" /\ StringNext /\ UNCHANGED <<part, ring, locationVars>>
LocatesNext == part = "location" /\ LocationNext /\ UNCHANGED <<part, ring, stringVars>>
Next == RingsNext \/ StringsNext \/ LocatesNext

Spec == Init /\ [][Next]_<<part, ring, stringVars, locationVars>>

Symmetry == Permutations(Attrs) \cup Permutations(Elements)
=============================================================================
