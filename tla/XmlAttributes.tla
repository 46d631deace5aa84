--------------------------- MODULE XmlAttributes ---------------------------
(***************************************************************************)
(* tinyxml: the attributes of an element, a ring of TiXmlAttribute objects *)
(* through a sentinel that is part of the element. Names and values are    *)
(* short sequences of characters.                                          *)
(***************************************************************************)
EXTENDS Naturals, FiniteSets, SequencesExt

CONSTANTS
  Elements,  \* elements, each its own sentinel
  Attrs,     \* the attribute objects there may be
  None,      \* the null pointer
  Names,     \* names a caller may give; <<>> is legal for SetAttribute
  AttrValues \* values a caller may give

\* Elements, attributes and the null pointer are different, a text is no pointer, and any name
\* and any value may be empty.
ASSUME AttributesAssumption ==
  /\ IsFiniteSet(Attrs) /\ Elements \cap Attrs = {} /\ None \notin Elements \cup Attrs
  /\ <<>> \in Names /\ <<>> \in AttrValues /\ None \notin AttrValues

VARIABLE ring  \* the fields of each object

Objects == Elements \cup Attrs
AttrLinks == Objects \cup {None}
FreeAttribute == [name |-> <<>>, value |-> <<>>, next |-> None, prev |-> None]
LiveAttributes == {a \in Attrs : ring[a].next # None}

Rings == [Objects -> [name : Names, value : AttrValues, next : AttrLinks, prev : AttrLinks]]
AttributesTyped == ring \in Rings
-----------------------------------------------------------------------------
(***************************************************************************)
(* TiXmlAttributeSet                                                       *)
(***************************************************************************)
\* The objects that a loop from start visits, step by step; it ends at null.
Visited(start, step) ==
  LET longer == [s \in Seq(Objects) |->
        IF s = <<>> \/ step[Last(s)] = None THEN s ELSE Append(s, step[Last(s)])]
      walk[k \in Nat] ==
        IF k = 0 THEN IF start = None THEN <<>> ELSE <<start>> ELSE longer[walk[k - 1]]
  IN  walk[Cardinality(Attrs)]

\* The loop of Find and of Remove: every object up to the sentinel.
Linked(r, e) ==
  LET ahead == [o \in Objects |-> IF r[o].next = e THEN None ELSE r[o].next]
  IN  Visited(ahead[e], ahead)

Find(r, e, name) ==
  LET s == Linked(r, e)
      found == {i \in DOMAIN s : r[s[i]].name = name}
  IN  IF found = {} THEN None ELSE s[Min(found)]

\* A slip: the attribute that was last does not lead to the new one.
AddedBehindNothing(r, e, a, name, value) ==
  [r EXCEPT ![a] = [name |-> name, value |-> value, next |-> e, prev |-> r[e].prev],
            ![e].prev = a]

\* Add links a at the end.
Added(r, e, a, name, value) ==
  [r EXCEPT ![a] = [name |-> name, value |-> value, next |-> e, prev |-> r[e].prev],
            ![r[e].prev].next = a,
            ![e].prev = a]

\* A slip: only the forward links close.
RemovedOneWay(r, a) == [r EXCEPT ![r[a].prev].next = r[a].next, ![a] = FreeAttribute]

\* Remove, and the deletion that follows.
Removed(r, a) ==
  [r EXCEPT ![r[a].prev].next = r[a].next, ![r[a].next].prev = r[a].prev, ![a] = FreeAttribute]

\* FindOrCreate, then SetValue; a is the object that is created if there is none yet.
Stored(r, e, a, name, value) ==
  LET found == Find(r, e, name)
  IN  IF found = None THEN Added(r, e, a, name, value) ELSE [r EXCEPT ![found].value = value]

First(e) == IF ring[e].next = e THEN None ELSE ring[e].next
LastAttribute(e) == IF ring[e].prev = e THEN None ELSE ring[e].prev

\* The sentinel is known by its name and value, as it is to Next and Previous.
IsSentinel(r, o) == r[o].name = <<>> /\ r[o].value = <<>>
NextAttribute(r, a) == IF IsSentinel(r, r[a].next) THEN None ELSE r[a].next
PreviousAttribute(r, a) == IF IsSentinel(r, r[a].prev) THEN None ELSE r[a].prev

Forward(e) == Visited(First(e), [a \in Objects |-> NextAttribute(ring, a)])
Backward(e) == Visited(LastAttribute(e), [a \in Objects |-> PreviousAttribute(ring, a)])
-----------------------------------------------------------------------------
(***************************************************************************)
(* The calls on an element                                                 *)
(***************************************************************************)
Fresh == Attrs \ LiveAttributes

\* SetAttribute of a text; of a number it is that of the number's text.
SetAttribute(e, name, value) ==
  \E a \in IF Find(ring, e, name) = None THEN Fresh ELSE {None} :
    ring' = Stored(ring, e, a, name, value)

\* What TiXmlElement::Parse does with an attribute it has read: a second one of the name is
\* an error, and is deleted.
ParsedAttribute(e, name, value) ==
  /\ name # <<>>
  /\ \E a \in Fresh :
       ring' = IF Find(ring, e, name) # None THEN ring ELSE Added(ring, e, a, name, value)

RemoveAttribute(e, name) ==
  /\ Find(ring, e, name) # None
  /\ ring' = Removed(ring, Find(ring, e, name))

\* The first one is removed until there is none.
ClearedRing(r, e) ==
  LET next == [q \in Rings |-> IF q[e].next = e THEN q ELSE Removed(q, q[e].next)]
      at[k \in Nat] == IF k = 0 THEN r ELSE next[at[k - 1]]
  IN  at[Cardinality(Attrs)]

\* ClearThis, which is also what the destructor of an element does.
ClearThis(e) == ring' = ClearedRing(ring, e)

\* CopyTo: the loop over the attributes from a on sets each on e. If an object is created for
\* one, fresh has it.
Copied(r, e, a, fresh) ==
  LET next == [c \in Rings \X AttrLinks |->
        IF c[2] \notin DOMAIN fresh THEN c
        ELSE LET stored == Stored(c[1], e, fresh[c[2]], c[1][c[2]].name, c[1][c[2]].value)
             IN  <<stored, NextAttribute(stored, c[2])>>]
      at[k \in Nat] == IF k = 0 THEN <<r, a>> ELSE next[at[k - 1]]
  IN  at[Cardinality(Attrs)][1]

\* Every way to allocate an object for each of those in S.
NewAttributes(S, unused) == {f \in [S -> unused] : \A a, b \in S : f[a] = f[b] => a = b}

\* operator=: the attributes of e are deleted, then copied from x. A clone is assigned to a
\* new element in the same way.
AssignAttributes(e, x) ==
  /\ e # x
  /\ \E fresh \in NewAttributes(ToSet(Forward(x)), Fresh \cup ToSet(Linked(ring, e))) :
       ring' = Copied(ClearedRing(ring, e), e, First(x), fresh)

AttributesInit ==
  ring = [o \in Objects |-> IF o \in Elements THEN [FreeAttribute EXCEPT !.next = o, !.prev = o]
                            ELSE FreeAttribute]

AttributesNext ==
  \/ \E e \in Elements, name \in Names, value \in AttrValues : SetAttribute(e, name, value)
  \/ \E e \in Elements, name \in Names, value \in AttrValues : ParsedAttribute(e, name, value)
  \/ \E e \in Elements, name \in Names : RemoveAttribute(e, name)
  \/ \E e \in Elements : ClearThis(e)
  \/ \E e, x \in Elements : AssignAttributes(e, x)

AttributesSpec == AttributesInit /\ [][AttributesNext]_ring
-----------------------------------------------------------------------------
(***************************************************************************)
(* Asking for a value: what each call returns and leaves in its argument,  *)
(* which held before                                                       *)
(***************************************************************************)
Success(out) == <<"TIXML_SUCCESS", out>>
WrongType(out) == <<"TIXML_WRONG_TYPE", out>>
NoAttribute(out) == <<"TIXML_NO_ATTRIBUTE", out>>

\* sscanf reads a number from the front of a value; the value stands for that number.
StartsAsNumber(value) == value # <<>> /\ value[1] \in {"0", "1"}
QueryNumber(value, before) ==
  IF StartsAsNumber(value) THEN Success(value) ELSE WrongType(before)

QueryNumberAttribute(e, name, before) ==
  IF Find(ring, e, name) = None THEN NoAttribute(before)
  ELSE QueryNumber(ring[Find(ring, e, name)].value, before)

\* The argument is set from a local variable whatever the result is.
QueryUnsignedAttribute(e, name, before) ==
  IF Find(ring, e, name) = None THEN NoAttribute(before)
  ELSE QueryNumber(ring[Find(ring, e, name)].value, <<"0">>)

\* StringEqual asks only that the value starts with the word.
TrueWords == {<<"y">>, <<"1">>}
FalseWords == {<<"n">>, <<"0">>}
StartsWith(value, words) == \E w \in words : IsPrefix(w, value)

QueryBoolAttribute(e, name, before) ==
  IF Find(ring, e, name) = None THEN NoAttribute(before)
  ELSE LET value == ring[Find(ring, e, name)].value
       IN  IF StartsWith(value, TrueWords) THEN Success(<<"true">>)
           ELSE IF StartsWith(value, FalseWords) THEN Success(<<"false">>)
           ELSE WrongType(before)

\* Attribute(name, i): the text, and the number if it is one.
Attribute(e, name, before) ==
  IF Find(ring, e, name) = None THEN <<None, before>>
  ELSE <<ring[Find(ring, e, name)].value, QueryNumberAttribute(e, name, before)[2]>>
-----------------------------------------------------------------------------
(***************************************************************************)
(* Correctness                                                             *)
(***************************************************************************)
Pair(a) == <<ring[a].name, ring[a].value>>
Listed(e) == [i \in DOMAIN Linked(ring, e) |-> Pair(Linked(ring, e)[i])]
Unnamed == <<<<>>, <<>>>>
NamesOf(list) == {list[i][1] : i \in DOMAIN list}

\* After any additions and removals at either end, each element's ring closes in both
\* directions, and every attribute in use is in just one of them.
RingConsistent ==
  /\ \A o \in Elements \cup LiveAttributes :
       ring[ring[o].next].prev = o /\ ring[ring[o].prev].next = o
  /\ \A a \in LiveAttributes : Cardinality({e \in Elements : a \in ToSet(Linked(ring, e))}) = 1

\* An element never has two attributes of one name, whether they come from the file, from
\* a copy or from calls, so Find, Remove and the saved file agree on which one is meant.
UniqueNames ==
  \A e \in Elements : Cardinality(NamesOf(Listed(e))) = Len(Listed(e))

\* First and Next, Last and Previous visit every attribute of an element in its order,
\* unless one has neither name nor value and so looks like the sentinel.
Iteration ==
  \A e \in Elements :
    \/ Unnamed \in ToSet(Listed(e))
    \/ Forward(e) = Linked(ring, e) /\ Backward(e) = Reverse(Linked(ring, e))

\* A list of pairs with the value of a name replaced, or the pair added at the end.
Put(list, name, value) ==
  IF name \in NamesOf(list)
  THEN [i \in DOMAIN list |-> IF list[i][1] = name THEN <<name, value>> ELSE list[i]]
  ELSE Append(list, <<name, value>>)

\* The part of a list that a loop with Next sees.
UpToUnnamed(list) ==
  LET hidden == {i \in DOMAIN list : i > 1 /\ list[i] = Unnamed}
  IN  IF hidden = {} THEN list ELSE SubSeq(list, 1, Min(hidden) - 1)

\* A list without the pair at place i.
Without(list, i) == [k \in 1..(Len(list) - 1) |-> list[IF k < i THEN k ELSE k + 1]]

\* Each call has the effect its name promises on the list of the element it is made on,
\* and none on that of another: a copy has the order and the values of its source.
Becomes(e, list) ==
  \A x \in Elements : Listed(x)' = IF x = e THEN list ELSE Listed(x)

Dictionary ==
  [][\A e \in Elements :
       /\ \A name \in Names, value \in AttrValues :
            /\ SetAttribute(e, name, value) => Becomes(e, Put(Listed(e), name, value))
            /\ ParsedAttribute(e, name, value) /\ name \notin NamesOf(Listed(e))
                 => Becomes(e, Append(Listed(e), <<name, value>>))
       /\ \A name \in Names :
            RemoveAttribute(e, name)
              => \E i \in DOMAIN Listed(e) :
                   Listed(e)[i][1] = name /\ Becomes(e, Without(Listed(e), i))
       /\ ClearThis(e) => Becomes(e, <<>>)
       /\ \A x \in Elements : AssignAttributes(e, x) => Becomes(e, UpToUnnamed(Listed(x)))]_ring

\* Whoever gives a default and asks keeps it unless there is a value of the type: what a
\* configuration without an entry, or with a wrong one, relies on. (Not of
\* QueryUnsignedAttribute.)
QueryKeepsValue ==
  \A e \in Elements, name \in Names :
    /\ LET r == QueryNumberAttribute(e, name, <<"default">>)
       IN  r[1] # "TIXML_SUCCESS" <=> r[2] = <<"default">>
    /\ LET r == QueryBoolAttribute(e, name, <<"default">>)
       IN  r[1] # "TIXML_SUCCESS" <=> r[2] = <<"default">>
    /\ LET r == QueryUnsignedAttribute(e, name, <<"default">>)
       IN  r[1] = "TIXML_NO_ATTRIBUTE" <=> r[2] = <<"default">>
    /\ LET r == Attribute(e, name, <<"default">>)
       IN  r[1] = None => r[2] = <<"default">>

\* What holds between any two calls.
AttributesConsistent ==
  AttributesTyped /\ RingConsistent /\ UniqueNames /\ Iteration /\ QueryKeepsValue
=============================================================================
