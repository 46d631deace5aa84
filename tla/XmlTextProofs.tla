--------------------------- MODULE XmlTextProofs ---------------------------
(***************************************************************************)
(* Proofs about XmlParser, for texts of any length and any nesting: the    *)
(* parser stays in the text, comes to its end, and takes no document for   *)
(* whole of which an element was cut off. And about XmlLocations, for      *)
(* files of any length: Stamp finds the row and the column of each place.  *)
(***************************************************************************)
EXTENDS XmlParser, XmlLocations, Recursion, FiniteSetTheorems, SequenceTheorems

TextTyped == text \in Seq(STRING)
Beyond == Len(text) + 1  \* the place of the terminating zero

LEMMA EndsText ==
  ASSUME TextTyped, NEW q \in Int
  PROVE  At(q) # "end" => q \in 1..Len(text) /\ At(q) = text[q]
BY DEF TextTyped, At

\* What is looked for is found from q on, with nothing of it in front, or the text ends.
LEMMA FirstPlace ==
  ASSUME TextTyped, NEW q \in 1..Beyond, NEW places
  PROVE  /\ First(q, places) \in q..Beyond
         /\ First(q, places) # Beyond => First(q, places) \in places
         /\ \A j \in q..First(q, places) - 1 : j \notin places
<1> DEFINE found == {i \in q..Len(text) : i \in places} \cup {Beyond}
           least == Min(found)
<1>1. Len(text) \in Nat /\ found \subseteq Nat /\ found # {}
  BY DEF TextTyped, Beyond
<1>2. \E x \in found : \A y \in found : x <= y
  <2> HIDE DEF found
  <2> QED BY <1>1, LeastOne
<1>3. least \in found /\ \A y \in found : least <= y
  <2> HIDE DEF found
  <2> QED BY <1>2 DEF Min
<1>4. First(q, places) = least
  BY DEF First, Beyond
<1> HIDE DEF least
<1>5. least \in q..Beyond /\ (least # Beyond => least \in places)
  BY <1>1, <1>3 DEF Beyond
<1>6. ASSUME NEW j \in q..least - 1 PROVE j \notin places
  <2>1. j \in q..Len(text) /\ ~ (least <= j)
    BY <1>1, <1>5 DEF Beyond
  <2> QED BY <1>3, <2>1
<1> QED BY <1>4, <1>5, <1>6

\* White space is skipped forward, up to what is none; at the end of the text the
\* pointer becomes null.
LEMMA Skips ==
  ASSUME TextTyped, NEW q \in Nat
  PROVE  /\ SkipWhiteSpace(q) \in 0..Beyond
         /\ Ended(q) => SkipWhiteSpace(q) = 0
         /\ ~ Ended(q) => SkipWhiteSpace(q) \in q..Beyond
         /\ SkipWhiteSpace(q) \in 1..Len(text) => At(SkipWhiteSpace(q)) # Space
<1>1. Len(text) \in Nat
  BY DEF TextTyped
<1>2. CASE Ended(q)
  BY <1>1, <1>2 DEF SkipWhiteSpace, Beyond
<1>3. CASE ~ Ended(q)
  <2>1. q \in 1..Len(text)
    BY <1>3, EndsText DEF Ended
  <2> DEFINE other == DOMAIN text \ Places({Space, BOM})
             s == First(q, other)
  <2>2. SkipWhiteSpace(q) = s
    BY <1>3 DEF SkipWhiteSpace
  <2>3. s \in q..Beyond /\ (s # Beyond => s \in other)
    <3>1. q \in 1..Beyond
      BY <1>1, <2>1 DEF Beyond
    <3> HIDE DEF other
    <3> QED BY <3>1, FirstPlace
  <2> HIDE DEF s
  <2>4. s \in 1..Len(text) => At(s) # Space
    <3>1. s \in 1..Len(text) => s \in other /\ s \in DOMAIN text
      BY <1>1, <2>3 DEF Beyond, TextTyped
    <3> QED BY <1>1, <3>1 DEF Places, At
  <2>5. s \in 0..Beyond
    BY <1>1, <2>1, <2>3 DEF Beyond
  <2> QED BY <1>3, <2>2, <2>3, <2>4, <2>5
<1> QED BY <1>2, <1>3

\* A name has a character, so that the pointer behind it has moved.
LEMMA NameMoves ==
  ASSUME TextTyped, NEW q \in Nat
  PROVE  /\ ReadName(q) \in 0..Beyond
         /\ ReadName(q) # 0 => ReadName(q) > q
         /\ At(q) \in NameStart => ReadName(q) # 0
<1>1. Len(text) \in Nat
  BY DEF TextTyped
<1>2. CASE At(q) \in NameStart
  <2>1. At(q) # "end" /\ At(q) \in NameChars
    BY <1>2 DEF NameStart, NameChars, Lead, Trail
  <2>2. q \in 1..Len(text) /\ At(q) = text[q]
    BY <2>1, EndsText
  <2> DEFINE other == DOMAIN text \ Places(NameChars)
             n == First(q, other)
  <2>3. n \in q..Beyond /\ (n # Beyond => n \in other)
    <3>1. q \in 1..Beyond
      BY <1>1, <2>2 DEF Beyond
    <3> HIDE DEF other
    <3> QED BY <3>1, FirstPlace
  <2>4. q \in Places(NameChars)
    BY <2>1, <2>2 DEF Places, TextTyped
  <2>5. n # q
    BY <1>1, <2>2, <2>3, <2>4 DEF Beyond
  <2>6. ReadName(q) = n
    BY <1>2 DEF ReadName
  <2> HIDE DEF n
  <2> QED BY <1>1, <2>2, <2>3, <2>5, <2>6 DEF Beyond
<1>3. CASE At(q) \notin NameStart
  BY <1>1, <1>3 DEF ReadName, Beyond
<1> QED BY <1>2, <1>3

\* A closing tag is passed as a whole.
LEMMA TagPassed ==
  ASSUME TextTyped, NEW q \in 0..Beyond, NEW tag, Len(tag) \in Nat
  PROVE  PastTag(q, tag) = 0 \/ PastTag(q, tag) \in q..Len(text)
<1>1. Len(text) \in Nat
  BY DEF TextTyped
<1>2. CASE ~ Ended(q + Len(tag))
  <2>1. q + Len(tag) \in 1..Len(text) /\ q \in Nat
    BY <1>1, <1>2, EndsText DEF Ended, Beyond
  <2> QED BY <2>1, <1>1 DEF PastTag
<1> QED BY <1>2 DEF PastTag

\* A text in UTF-8 breaks off inside of its last character.
CutOff == coding = "utf8" /\ Last(text) = Lead

\* ReadText returns what it should, or has left a text that is cut off.
LEMMA PointersAre ==
  ASSUME TextTyped, NEW from, NEW end, NEW q, NEW r \in Pointers(from, end, q)
  PROVE  r = q \/ (r = Outside /\ CutOff)
BY DEF Pointers, Overruns, CutOff, Last

LEMMA ReadToPlace ==
  ASSUME TextTyped, NEW q \in 1..Beyond, NEW tags
  PROVE  /\ ReadTo(q, tags) \in q..Beyond
         /\ ReadTo(q, tags) # Beyond =>
              text[ReadTo(q, tags)] \in tags \/ NoReference(ReadTo(q, tags))
<1> DEFINE places == {i \in DOMAIN text : /\ text[i] \in tags \/ NoReference(i)
                                         /\ ~Swallowed(q, i)}
<1>1. ReadTo(q, tags) = First(q, places)
  BY DEF ReadTo
<1>2. \A i \in places : text[i] \in tags \/ NoReference(i)
  OBVIOUS
<1> HIDE DEF places
<1> QED BY <1>1, <1>2, FirstPlace

\* An attribute is read forward, or fails, or leaves the text.
LEMMA AttributeMoves ==
  ASSUME TextTyped, NEW q \in Nat, NEW attribute \in ParseAttribute(q)
  PROVE  \/ attribute.p = 0
         \/ attribute.p \in q + 1..Beyond
         \/ attribute.p = Outside /\ CutOff
<1> DEFINE start == SkipWhiteSpace(q)
           named == ReadName(start)
           equals == SkipWhiteSpace(named)
           value == SkipWhiteSpace(equals + 1)
           quoted == At(value) = Quote
           close == ReadTo(value + 1, {Quote})
           bare == First(value, Places({Space, "/", ">", Quote}))
           fails == named = 0 \/ At(equals) # "=" \/ Ended(value)
           past == PastTag(close, <<Quote>>)
<1>0. Len(text) \in Nat
  BY DEF TextTyped
<1>1. /\ fails => attribute.p = 0
      /\ ~fails => \/ quoted /\ attribute.p \in Pointers(value + 1, close, past)
                  \/ attribute.p \in {0, bare}
  <2> DEFINE Read(cs, r, e) == [name |-> Lexemes(start, named), value |-> cs, p |-> r, error |-> e]
             failed == {[name |-> <<>>, value |-> <<>>, p |-> 0, error |-> "READING_ATTRIBUTES"]}
             inQuotes == {Read(Decoded(value + 1, close), r, "none") : r \in Pointers(value + 1, close, past)}
             wrong == {Read(Raw(value, bare), 0, "READING_ATTRIBUTES")}
             plain == {Read(Raw(value, bare), bare, "none")}
  <2>1. ParseAttribute(q) = IF fails THEN failed
                            ELSE CASE quoted -> inQuotes
                                   [] ~quoted /\ At(bare) = Quote -> wrong
                                   [] ~quoted /\ At(bare) # Quote -> plain
    BY DEF ParseAttribute
  <2>2. \A a \in failed : a.p = 0
    OBVIOUS
  <2>3. \A a \in inQuotes : a.p \in Pointers(value + 1, close, past)
    OBVIOUS
  <2>4. \A a \in wrong \cup plain : a.p \in {0, bare}
    OBVIOUS
  <2> HIDE DEF failed, inQuotes, wrong, plain, fails, quoted, past, close, bare, value
  <2>5. CASE fails
    BY <2>1, <2>2, <2>5
  <2>6. CASE ~fails /\ quoted
    BY <2>1, <2>3, <2>6
  <2>7. CASE ~fails /\ ~quoted
    BY <2>1, <2>4, <2>7
  <2> QED BY <2>5, <2>6, <2>7
<1>2. start \in Nat /\ named \in Nat /\ equals \in Nat /\ value \in Nat
  <2>1. 0..Beyond \subseteq Nat
    BY <1>0 DEF Beyond
  <2>2. start \in Nat
    BY <2>1, Skips
  <2> HIDE DEF start
  <2>3. named \in Nat
    BY <2>1, <2>2, NameMoves
  <2> HIDE DEF named
  <2>4. equals \in Nat /\ equals + 1 \in Nat
    BY <2>1, <2>3, Skips
  <2> HIDE DEF equals
  <2>5. value \in Nat
    BY <2>1, <2>4, Skips
  <2> QED BY <2>2, <2>3, <2>4, <2>5
<1>3. CASE fails
  BY <1>1, <1>3
<1>4. CASE ~ fails
  <2>1. named > start /\ named # 0
    BY <1>2, <1>4, NameMoves
  <2>2. At(start) \in NameStart
    BY <2>1 DEF ReadName
  <2>3. start # 0
    BY <2>2, <1>0 DEF At, NameStart, Lead, Trail
  <2>4. start >= q
    BY <1>0, <2>3, Skips DEF Beyond
  <2>5. equals >= named /\ equals \in 1..Len(text)
    <3>1. equals \in 1..Len(text)
      BY <1>2, <1>4, EndsText
    <3>2. equals # 0
      BY <3>1, <1>0
    <3> QED BY <1>0, <1>2, <3>1, <3>2, Skips DEF Beyond
  <2>6. value \in equals + 1..Len(text)
    <3>1. value \in 1..Len(text)
      BY <1>2, <1>4, EndsText DEF Ended
    <3>2. value >= equals + 1
      <4>1. equals + 1 \in Nat /\ value # 0
        BY <1>2, <3>1, <1>0
      <4> HIDE DEF equals
      <4> QED BY <1>0, <4>1, Skips DEF Beyond
    <3> QED BY <1>0, <1>2, <3>1, <3>2
  <2> HIDE DEF start, named, equals, value
  <2>7. value > q
    BY <1>0, <1>2, <2>1, <2>4, <2>5, <2>6
  <2>8. close \in value + 1..Beyond /\ bare \in value..Beyond
    <3>1. value + 1 \in 1..Beyond /\ value \in 1..Beyond
      BY <1>0, <1>2, <2>6, <2>7 DEF Beyond
    <3> QED BY <3>1, FirstPlace, ReadToPlace
  <2> HIDE DEF close, bare
  <2>9. PastTag(close, <<Quote>>) = 0 \/ PastTag(close, <<Quote>>) \in close..Len(text)
    <3>1. close \in 0..Beyond /\ Len(<<Quote>>) \in Nat
      BY <1>0, <1>2, <2>8 DEF Beyond
    <3> QED BY <3>1, TagPassed
  <2>10. past = 0 \/ past \in q + 1..Beyond
    BY <2>9, <2>8, <2>7, <1>0, <1>2 DEF Beyond
  <2>11. bare \in q + 1..Beyond
    BY <2>8, <2>7, <1>0, <1>2 DEF Beyond
  <2> HIDE DEF past, quoted, fails
  <2>12. CASE attribute.p \in Pointers(value + 1, close, past)
    <3>1. attribute.p = past \/ (attribute.p = Outside /\ CutOff)
      BY <2>12, PointersAre
    <3> QED BY <2>10, <3>1
  <2> QED BY <1>1, <1>4, <2>11, <2>12
<1> QED BY <1>3, <1>4

\* So are the leaves that are not text, from their < on.
LEMMA LeafMoves ==
  ASSUME TextTyped, NEW q \in Nat, Identify(q) \in {"comment", "cdata", "unknown"}
  PROVE  /\ ParseLeaf(q).p = 0 \/ ParseLeaf(q).p \in q + 1..Beyond
         /\ ParseLeaf(q).node.kind # "element"
<1>1. Len(text) \in Nat
  BY DEF TextTyped
<1>2. q \in 1..Len(text)
  <2>1. At(q) # "end"
    BY DEF Identify
  <2> QED BY <2>1, EndsText
<1>3. q + 1 \in 1..Beyond
  BY <1>1, <1>2 DEF Beyond
<1>4. CASE Identify(q) = "comment"
  <2> DEFINE places == {i \in DOMAIN text : StringEqual(i, <<"--", ">">>)}
             end == First(q + 1, places)
  <2>1. end \in q + 1..Beyond /\ (end # Beyond => end \in places)
    <3> HIDE DEF places
    <3> QED BY <1>3, FirstPlace
  <2>2. ParseLeaf(q).p = (IF Ended(end) THEN end ELSE end + 2)
    BY <1>4 DEF ParseLeaf, ParseComment
  <2>3. ParseLeaf(q).node.kind = "comment"
    BY <1>4 DEF ParseLeaf, ParseComment, Leaf
  <2>4. CASE Ended(end)
    BY <2>1, <2>2, <2>3, <2>4
  <2>5. CASE ~ Ended(end)
    <3>1. end \in 1..Len(text)
      BY <1>1, <1>2, <2>1, <2>5, EndsText DEF Ended, Beyond
    <3>2. StringEqual(end, <<"--", ">">>)
      BY <1>1, <2>1, <3>1 DEF Beyond
    <3>3. At(end + 1) = ">"
      <4>1. At(end + 2 - 1) = <<"--", ">">>[2]
        BY <3>2 DEF StringEqual
      <4>2. end + 2 - 1 = end + 1
        BY <3>1, <1>1
      <4> QED BY <4>1, <4>2
    <3>4. end + 1 \in 1..Len(text)
      BY <1>1, <3>1, <3>3, EndsText
    <3> QED BY <1>1, <1>2, <2>1, <2>2, <2>3, <2>5, <3>4 DEF Beyond
  <2> QED BY <2>4, <2>5
<1>5. CASE Identify(q) = "cdata"
  <2> DEFINE places == {i \in DOMAIN text : StringEqual(i, <<"]]", ">">>)}
             end == First(q + 1, places)
  <2>1. end \in q + 1..Beyond
    <3> HIDE DEF places
    <3> QED BY <1>3, FirstPlace
  <2>2. ParseLeaf(q).p = PastTag(end, <<"]]", ">">>)
    BY <1>5 DEF ParseLeaf, ParseCData
  <2>3. ParseLeaf(q).node.kind = "cdata"
    BY <1>5 DEF ParseLeaf, ParseCData, Leaf
  <2> HIDE DEF end
  <2>4. PastTag(end, <<"]]", ">">>) = 0 \/ PastTag(end, <<"]]", ">">>) \in end..Len(text)
    <3>1. end \in 0..Beyond /\ Len(<<"]]", ">">>) \in Nat
      BY <1>1, <1>2, <2>1 DEF Beyond
    <3> QED BY <3>1, TagPassed
  <2>5. end..Len(text) \subseteq q + 1..Beyond
    BY <1>1, <1>2, <2>1 DEF Beyond
  <2> QED BY <2>2, <2>3, <2>4, <2>5
<1>6. CASE Identify(q) = "unknown"
  <2> DEFINE end == First(q + 1, Places({">"}))
  <2>1. end \in q + 1..Beyond
    BY <1>3, FirstPlace
  <2>2. ParseLeaf(q).p = IF Ended(end) THEN end ELSE end + 1
    BY <1>6 DEF ParseLeaf, ParseUnknown
  <2>3. ParseLeaf(q).node.kind = "unknown"
    BY <1>6 DEF ParseLeaf, ParseUnknown, Leaf
  <2> HIDE DEF end
  <2>4. ~ Ended(end) => end \in 1..Len(text)
    BY <1>1, <1>2, <2>1, EndsText DEF Ended, Beyond
  <2> QED BY <1>1, <1>2, <2>1, <2>2, <2>3, <2>4 DEF Beyond
<1> QED BY <1>4, <1>5, <1>6

\* A text that starts here goes up to the tag behind it, or leaves the whole text.
LEMMA TextMoves ==
  ASSUME TextTyped, NEW q \in 1..Len(text), At(q) \notin TagStarts, NEW parsed \in ParseText(q)
  PROVE  /\ \/ parsed.p = 0
            \/ parsed.p \in q + 1..Beyond
            \/ parsed.p = Outside /\ CutOff
         /\ parsed.node.kind # "element"
<1> DEFINE end == ReadTo(q, TagStarts)
           past == IF Ended(end) \/ NoReference(end) \/ (At(end) = "<" /\ Ended(end + 1))
                   THEN 0 ELSE end
<1>1. Len(text) \in Nat
  BY DEF TextTyped
<1>2. end \in q..Beyond /\ (end # Beyond => text[end] \in TagStarts \/ NoReference(end))
  <2>1. q \in 1..Beyond
    BY <1>1 DEF Beyond
  <2> QED BY <2>1, ReadToPlace
<1>3. parsed.p \in Pointers(q, end, past) /\ parsed.node.kind = "text"
  BY DEF ParseText, Leaf
<1>4. past \in {0, end} /\ (past = end => ~NoReference(end) \/ past = 0)
  OBVIOUS
<1> HIDE DEF end, past
<1>5. past = 0 \/ past \in q + 1..Beyond
  <2>1. text[q] \notin TagStarts
    BY DEF At
  <2> QED BY <1>1, <1>2, <1>4, <2>1 DEF Beyond
<1>6. parsed.p = past \/ (parsed.p = Outside /\ CutOff)
  BY <1>3, PointersAre
<1> QED BY <1>3, <1>5, <1>6
-----------------------------------------------------------------------------
(***************************************************************************)
(* The frames on the stack: the document, and in it what is under          *)
(* construction. What their attributes and nodes are does not matter.      *)
(***************************************************************************)
Inner == {"declaration", "attributes", "value"}

Frames(A, N) ==
  [name : Seq(STRING), attrs : A, kids : Seq(N), mode : Inner \cup {"document"}]

Stacked(frames) ==
  /\ \E A, N : frames \in Seq(Frames(A, N))
  /\ frames # <<>>
  /\ \A i \in DOMAIN frames : frames[i].mode \in (IF i = 1 THEN {"document"} ELSE Inner)

Wholes(frames) == \A f \in DOMAIN frames : AllWhole(frames[f].kids)

LEMMA SeqMore ==
  ASSUME NEW S, NEW T, S \subseteq T, NEW s \in Seq(S)
  PROVE  s \in Seq(T)
OBVIOUS

LEMMA SeqPut ==
  ASSUME NEW S, NEW s \in Seq(S), NEW i \in 1..Len(s), NEW x \in S
  PROVE  LET t == [s EXCEPT ![i] = x]
         IN  /\ t \in Seq(S) /\ Len(t) = Len(s) /\ DOMAIN t = 1..Len(s) /\ t[i] = x
             /\ \A j \in 1..Len(s) : j # i => t[j] = s[j]
<1> DEFINE t == [s EXCEPT ![i] = x]
<1>1. s \in [1..Len(s) -> S] /\ Len(s) \in Nat
  OBVIOUS
<1>2. t \in [1..Len(s) -> S]
  BY <1>1
<1>3. t \in Seq(S) /\ DOMAIN t = 1..Len(s)
  BY <1>1, <1>2
<1>4. Len(t) = Len(s)
  BY <1>1, <1>3
<1>5. t[i] = x /\ \A j \in 1..Len(s) : j # i => t[j] = s[j]
  BY <1>1
<1> QED BY <1>3, <1>4, <1>5

LEMMA LastFrame ==
  ASSUME NEW frames, Stacked(frames)
  PROVE  /\ Len(frames) \in Nat \ {0} /\ DOMAIN frames = 1..Len(frames)
         /\ Last(frames) = frames[Len(frames)]
         /\ Last(frames).name \in Seq(STRING)
         /\ Last(frames).mode \in Inner \cup {"document"}
         /\ Last(frames).mode \in Inner <=> Len(frames) > 1
<1>1. PICK A, N : frames \in Seq(Frames(A, N))
  BY DEF Stacked
<1>2. Len(frames) \in Nat \ {0} /\ DOMAIN frames = 1..Len(frames)
  BY <1>1 DEF Stacked
<1>3. frames[Len(frames)] \in Frames(A, N)
  BY <1>1, <1>2
<1>4. Last(frames) = frames[Len(frames)]
  BY DEF Last
<1>5. Last(frames).name \in Seq(STRING) /\ Last(frames).mode \in Inner \cup {"document"}
  BY <1>3, <1>4 DEF Frames
<1>6. Last(frames).mode \in Inner <=> Len(frames) > 1
  BY <1>2, <1>4 DEF Stacked, Inner
<1> QED BY <1>2, <1>4, <1>5, <1>6

\* A node is linked: the frames stay what they are, and whole if the node is.
LEMMA LinkKeeps ==
  ASSUME NEW frames, NEW node, Stacked(frames)
  PROVE  /\ Stacked(Linked(frames, node))
         /\ Len(Linked(frames, node)) = Len(frames)
         /\ Wholes(frames) /\ (node.kind = "element" => node.whole)
              => Wholes(Linked(frames, node))
<1>1. PICK A, N : frames \in Seq(Frames(A, N))
  BY DEF Stacked
<1> DEFINE M == N \cup {node}
           last == Len(frames)
           kids == frames[last].kids
           linked == Append(kids, node)
           frame == [frames[last] EXCEPT !.kids = linked]
           result == [frames EXCEPT ![last] = frame]
<1>2. last \in Nat \ {0} /\ DOMAIN frames = 1..last /\ frames[last] \in Frames(A, N)
  BY <1>1, LastFrame
<1>3. Linked(frames, node) = result
  BY DEF Linked
<1>4. kids \in Seq(N) /\ linked \in Seq(M)
  BY <1>2 DEF Frames
<1>5. /\ DOMAIN linked = 1..Len(kids) + 1 /\ Len(kids) \in Nat
      /\ \A i \in 1..Len(kids) : linked[i] = kids[i]
      /\ linked[Len(kids) + 1] = node
  BY <1>4
<1> HIDE DEF linked, kids
<1>6. /\ frame \in Frames(A, M) /\ frame.mode = frames[last].mode /\ frame.kids = linked
  BY <1>2, <1>4 DEF Frames
<1> HIDE DEF frame
<1>7. frames \in Seq(Frames(A, M))
  <2>1. Seq(N) \subseteq Seq(M)
    OBVIOUS
  <2>2. Frames(A, N) \subseteq Frames(A, M)
    BY <2>1 DEF Frames
  <2> QED BY <1>1, <2>2, SeqMore
<1>8. /\ result \in Seq(Frames(A, M)) /\ Len(result) = last /\ DOMAIN result = 1..last
      /\ result[last] = frame
      /\ \A i \in 1..last : i # last => result[i] = frames[i]
  BY <1>2, <1>6, <1>7, SeqPut
<1> HIDE DEF result
<1>9. Stacked(result)
  BY <1>2, <1>6, <1>8 DEF Stacked
<1>10. ASSUME Wholes(frames), node.kind = "element" => node.whole
       PROVE  Wholes(result)
  <2>1. AllWhole(kids)
    BY <1>2, <1>10 DEF Wholes, kids
  <2>2. AllWhole(linked)
    <3>1. DOMAIN kids = 1..Len(kids)
      BY <1>4
    <3> QED BY <1>5, <1>10, <2>1, <3>1 DEF AllWhole
  <2>3. ASSUME NEW f \in 1..last PROVE AllWhole(result[f].kids)
    BY <1>2, <1>6, <1>8, <1>10, <2>2 DEF Wholes
  <2> QED BY <1>8, <2>3 DEF Wholes
<1> QED BY <1>3, <1>8, <1>9, <1>10

\* A frame is put on top.
LEMMA PushKeeps ==
  ASSUME NEW frames, Stacked(frames), NEW name \in Seq(STRING), NEW mode \in Inner
  PROVE  /\ Stacked(Append(frames, Frame(name, mode)))
         /\ Len(Append(frames, Frame(name, mode))) = Len(frames) + 1
         /\ Wholes(frames) => Wholes(Append(frames, Frame(name, mode)))
<1>1. PICK A, N : frames \in Seq(Frames(A, N))
  BY DEF Stacked
<1> DEFINE B == A \cup {<<>>}
           frame == Frame(name, mode)
           last == Len(frames)
           result == Append(frames, frame)
<1>2. last \in Nat \ {0} /\ DOMAIN frames = 1..last
  BY LastFrame
<1>3. frame \in Frames(B, N) /\ frame.mode = mode /\ frame.kids = <<>>
  BY DEF Frame, Frames
<1> HIDE DEF frame
<1>4. frames \in Seq(Frames(B, N))
  <2>1. Frames(A, N) \subseteq Frames(B, N)
    BY DEF Frames
  <2> QED BY <1>1, <2>1, SeqMore
<1>5. /\ result \in Seq(Frames(B, N)) /\ Len(result) = last + 1
      /\ DOMAIN result = 1..last + 1 /\ result[last + 1] = frame
      /\ \A i \in 1..last : result[i] = frames[i]
  BY <1>2, <1>3, <1>4
<1> HIDE DEF result
<1>6. \A i \in 1..last + 1 : i \in 1..last \/ (i = last + 1 /\ i # 1)
  BY <1>2
<1>7. Stacked(result)
  BY <1>2, <1>3, <1>5, <1>6 DEF Stacked
<1>8. Wholes(frames) => Wholes(result)
  BY <1>2, <1>3, <1>5, <1>6 DEF Wholes, AllWhole
<1> QED BY <1>5, <1>7, <1>8 DEF result, frame

\* The frame on top is taken off.
LEMMA PopKeeps ==
  ASSUME NEW frames, Stacked(frames), Len(frames) > 1
  PROVE  /\ Stacked(Front(frames)) /\ Len(Front(frames)) = Len(frames) - 1
         /\ Wholes(frames) => Wholes(Front(frames))
<1>1. PICK A, N : frames \in Seq(Frames(A, N))
  BY DEF Stacked
<1> DEFINE last == Len(frames)
           result == SubSeq(frames, 1, last - 1)
<1>2. last \in Nat \ {0} /\ DOMAIN frames = 1..last
  BY LastFrame
<1>3. /\ result \in Seq(Frames(A, N)) /\ Len(result) = last - 1
      /\ DOMAIN result = 1..last - 1
      /\ \A i \in 1..last - 1 : result[i] = frames[i]
  BY <1>1, <1>2
<1>4. Front(frames) = result
  BY DEF Front
<1> HIDE DEF result
<1>5. 1..last - 1 \subseteq 1..last /\ last - 1 > 0
  BY <1>2
<1>6. Stacked(result)
  BY <1>2, <1>3, <1>5 DEF Stacked
<1>7. Wholes(frames) => Wholes(result)
  BY <1>2, <1>3, <1>5 DEF Wholes
<1> QED BY <1>3, <1>4, <1>6, <1>7

\* The frame on top gets other attributes, or a tag that has ended.
LEMMA TopKeeps ==
  ASSUME Stacked(stack), Top.mode \in Inner, NEW attrs, NEW mode \in Inner, NEW frame,
         \/ frame = [Top EXCEPT !.attrs = attrs]
         \/ frame = [Top EXCEPT !.mode = mode]
  PROVE  /\ Stacked(WithTop(frame)) /\ Len(WithTop(frame)) = Len(stack)
         /\ Wholes(stack) => Wholes(WithTop(frame))
<1>1. PICK A, N : stack \in Seq(Frames(A, N))
  BY DEF Stacked
<1> DEFINE B == A \cup {attrs}
           last == Len(stack)
           result == WithTop(frame)
<1>2. /\ last \in Nat /\ last > 1 /\ DOMAIN stack = 1..last /\ Top = stack[last]
      /\ Top \in Frames(A, N)
  BY <1>1, LastFrame DEF Top
<1>3. frame \in Frames(B, N) /\ frame.mode \in Inner /\ frame.kids = Top.kids
  BY <1>2 DEF Frames
<1>4. stack \in Seq(Frames(B, N))
  <2>1. Frames(A, N) \subseteq Frames(B, N)
    BY DEF Frames
  <2> QED BY <1>1, <2>1, SeqMore
<1>5. /\ result \in Seq(Frames(B, N)) /\ Len(result) = last /\ DOMAIN result = 1..last
      /\ result[last] = frame
      /\ \A i \in 1..last : i # last => result[i] = stack[i]
  BY <1>2, <1>3, <1>4, SeqPut DEF WithTop
<1> HIDE DEF result
<1>6. Stacked(result)
  BY <1>2, <1>3, <1>5 DEF Stacked
<1>7. Wholes(stack) => Wholes(result)
  BY <1>2, <1>3, <1>5 DEF Wholes
<1> QED BY <1>5, <1>6, <1>7 DEF result
-----------------------------------------------------------------------------
(***************************************************************************)
(* The steps of the parser.                                                *)
(***************************************************************************)
Codings == {"unknown", "utf8", "legacy"}

\* The parser stands in the text.
InText ==
  /\ TextTyped
  /\ p \in 0..Beyond
  /\ Stacked(stack)
  /\ error = "none" => Wholes(stack)
  /\ coding \in Codings

\* The parser has left a text that is cut off.
Strayed ==
  /\ TextTyped
  /\ p = Outside /\ CutOff
  /\ Stacked(stack)
  /\ error = "none" => Wholes(stack)

ParserInv == InText \/ Strayed

Shorter == Left' + Len(stack') < Left + Len(stack)

\* What is left of the text gets less when the parser goes on or becomes null.
LEMMA LessLeft ==
  ASSUME InText, UNCHANGED text, p' \in 0..Beyond
  PROVE  /\ Left \in Nat /\ Left' \in Nat
         /\ p' = 0 => Left' = 0
         /\ p # 0 => Left >= 2
         /\ p # 0 /\ p' >= p => Left' <= Left
         /\ p # 0 /\ p' > p => Left' <= Left - 2
<1>1. Len(text) \in Nat /\ Len(text)' = Len(text) /\ p \in 0..Len(text) + 1
      /\ p' \in 0..Len(text) + 1
  BY DEF InText, TextTyped, Beyond
<1> QED BY <1>1 DEF Left

\* Nothing is left of it when the parser has left it.
LEMMA NoneLeft ==
  ASSUME InText, UNCHANGED <<text, coding>>, p' = Outside, CutOff, ~ Ended(p),
         Stacked(stack'), Len(stack') = Len(stack), error' = "none" => Wholes(stack')
  PROVE  Strayed' /\ Shorter
<1>1. Len(text) \in Nat /\ Len(text)' = Len(text) /\ p \in 1..Len(text)
  <2>1. Len(text) \in Nat /\ p \in 0..Len(text) + 1
    BY DEF InText, TextTyped, Beyond
  <2>2. p \in 1..Len(text)
    BY <2>1, EndsText DEF InText, Ended
  <2> QED BY <2>1, <2>2
<1>2. Left' = 0 /\ Left \in Nat /\ Left >= 2
  BY <1>1 DEF Left, Outside
<1>3. Strayed'
  BY DEF InText, Strayed, Outside, CutOff, TextTyped, Last, Stacked, Wholes
<1>4. Len(stack) \in Nat
  BY LastFrame DEF InText
<1> QED BY <1>2, <1>3, <1>4 DEF Shorter

\* The element on top ends early, and the error is kept.
LEMMA FailKeeps ==
  ASSUME TextTyped, coding \in Codings, UNCHANGED <<text, coding>>, NEW frames, Stacked(frames), Len(frames) > 1,
         NEW e, e # "none", Fail(frames, e)
  PROVE  InText' /\ p' = 0 /\ Len(stack') = Len(frames) - 1
<1>1. /\ Stacked(Front(frames)) /\ Len(Front(frames)) = Len(frames) - 1
  BY PopKeeps
<1>2. Stacked(stack)' /\ Len(stack') = Len(frames) - 1
  BY <1>1, LinkKeeps DEF Fail, Stacked
<1>3. error' # "none" /\ p' = 0
  BY DEF Fail, SetError
<1>4. TextTyped' /\ p' \in 0..Beyond'
  BY <1>3 DEF TextTyped, Beyond
<1> QED BY <1>2, <1>3, <1>4 DEF InText

\* ... or at its end tag.
LEMMA CloseKeeps ==
  ASSUME InText, UNCHANGED <<text, coding>>, Len(stack) > 1, NEW q \in Nat, Close(q)
  PROVE  /\ InText' /\ Len(stack') = Len(stack) - 1
         /\ p' = 0 \/ p' >= q
<1>1. /\ Stacked(Front(stack)) /\ Len(Front(stack)) = Len(stack) - 1
      /\ Wholes(stack) => Wholes(Front(stack))
  BY PopKeeps DEF InText
<1>2. Wholes(stack) => Element(Top, TRUE).whole
  <2>1. Wholes(stack) => AllWhole(Top.kids)
    BY LastFrame DEF Wholes, InText, Top
  <2> QED BY <2>1 DEF Element
<1>3. /\ Stacked(stack)' /\ Len(stack') = Len(stack) - 1
      /\ Wholes(stack) => Wholes(stack)'
  BY <1>1, <1>2, LinkKeeps DEF Close, Stacked, Wholes
<1>4. TextTyped' /\ p' \in 0..Beyond' /\ (p' = 0 \/ p' >= q)
  <2>1. TextTyped /\ p' = SkipWhiteSpace(q) /\ Beyond' = Beyond /\ TextTyped'
    BY DEF InText, Close, TextTyped, Beyond
  <2>2. Beyond \in Nat
    BY DEF InText, TextTyped, Beyond
  <2> QED BY <2>1, <2>2, Skips
<1> QED BY <1>3, <1>4 DEF InText, Close

\* A leaf is linked.
LEMMA LinkEndChildKeeps ==
  ASSUME InText, UNCHANGED <<text, coding>>, NEW node, node.kind # "element",
         NEW q \in 0..Beyond, LinkEndChild(node, q)
  PROVE  /\ InText' /\ Len(stack') = Len(stack)
         /\ p' = 0 \/ p' >= q
         /\ q = 0 => p' = 0
<1>1. /\ Stacked(stack)' /\ Len(stack') = Len(stack)
      /\ Wholes(stack) => Wholes(stack)'
  BY LinkKeeps DEF LinkEndChild, Stacked, Wholes, InText
<1>2. /\ TextTyped' /\ p' \in 0..Beyond' /\ (p' = 0 \/ p' >= q)
      /\ q = 0 => p' = 0
  <2>1. TextTyped /\ p' = GoOn(q) /\ Beyond' = Beyond /\ TextTyped'
    BY DEF InText, LinkEndChild, TextTyped, Beyond
  <2>2. Beyond \in Nat /\ q \in Nat /\ GoOn(q) = SkipWhiteSpace(q)
    BY DEF InText, TextTyped, Beyond, Outside, GoOn
  <2>3. q = 0 => Ended(q)
    BY DEF Ended, At, InText, TextTyped
  <2> QED BY <2>1, <2>2, <2>3, Skips
<1> QED BY <1>1, <1>2 DEF InText, LinkEndChild

\* Where the parser stands, and on what.
LEMMA Standing ==
  ASSUME InText
  PROVE  /\ TextTyped /\ Len(text) \in Nat /\ Beyond \in Nat /\ p \in Nat /\ Left \in Nat
         /\ Beyond = Len(text) + 1 /\ 1..Len(text) \subseteq 1..Beyond
         /\ Stacked(stack) /\ Len(stack) \in Nat \ {0} /\ coding \in Codings
         /\ Top.mode \in Inner <=> Len(stack) > 1
         /\ ~ Ended(p) => p \in 1..Len(text) /\ p # 0 /\ Left >= 2
<1>1. Len(text) \in Nat
  BY DEF InText, TextTyped
<1>2. Stacked(stack) /\ Len(stack) \in Nat \ {0} /\ (Top.mode \in Inner <=> Len(stack) > 1)
  BY LastFrame DEF InText, Top
<1>3. TextTyped /\ p \in Nat /\ p <= Beyond
  BY <1>1 DEF InText, Beyond
<1>4. Left \in Nat /\ (p # 0 => Left >= 2)
  BY <1>1, <1>3 DEF Left, Beyond
<1>5. ~ Ended(p) => p \in 1..Len(text) /\ p # 0
  <2>1. ~ Ended(p) => p \in 1..Len(text)
    BY <1>3, EndsText DEF Ended
  <2> QED BY <1>1, <2>1
<1>6. coding \in Codings
  BY DEF InText
<1> QED BY <1>1, <1>2, <1>3, <1>4, <1>5, <1>6 DEF Beyond

\* What can be identified is in the text.
LEMMA Identified ==
  ASSUME InText, Identify(p) # "none"
  PROVE  ~ Ended(p)
BY DEF Identify, Ended

LEMMA ParseNodeReads ==
  ASSUME InText, ParseNode
  PROVE  InText' /\ Shorter
<1> DEFINE parsed == ParseLeaf(p)
<1>1. /\ LinkEndChild(parsed.node, parsed.p) /\ UNCHANGED <<text, coding>>
      /\ Identify(p) \in {"comment", "cdata", "unknown"}
  BY DEF ParseNode
<1>2. ~ Ended(p)
  BY <1>1, Identified
<1>3. /\ parsed.p = 0 \/ parsed.p \in p + 1..Beyond
      /\ parsed.node.kind # "element"
  BY <1>1, Standing, LeafMoves
<1>4. parsed.p \in Nat /\ parsed.p \in 0..Beyond
  BY <1>3, Standing
<1> HIDE DEF parsed
<1>5. /\ InText' /\ Len(stack') = Len(stack)
      /\ p' = 0 \/ p' >= parsed.p
      /\ parsed.p = 0 => p' = 0
  BY <1>1, <1>3, <1>4, LinkEndChildKeeps
<1>6. p' \in 0..Beyond /\ (p' = 0 \/ p' > p)
  BY <1>1, <1>3, <1>4, <1>5, Standing DEF InText, Beyond
<1> QED BY <1>1, <1>2, <1>5, <1>6, LessLeft, Standing DEF Shorter

LEMMA OpenDeclarationReads ==
  ASSUME InText, OpenDeclaration
  PROVE  InText' /\ Shorter
<1>1. ~ Ended(p)
  BY Identified DEF OpenDeclaration
<1>2. /\ stack' = Append(stack, Frame(<<>>, "declaration")) /\ p' = p + 1
      /\ UNCHANGED <<text, error, coding>>
  BY DEF OpenDeclaration
<1>3. /\ Stacked(stack') /\ Len(stack') = Len(stack) + 1
      /\ Wholes(stack) => Wholes(stack')
  <2>1. <<>> \in Seq(STRING) /\ "declaration" \in Inner
    BY DEF Inner
  <2>2. Stacked(stack)
    BY Standing
  <2> QED BY <1>2, <2>1, <2>2, PushKeeps
<1>4. p' \in 0..Beyond /\ p' > p
  BY <1>1, <1>2, Standing
<1>5. InText'
  BY <1>2, <1>3, <1>4 DEF InText, TextTyped, Beyond, Stacked, Wholes
<1> QED BY <1>1, <1>2, <1>3, <1>4, <1>5, LessLeft, Standing DEF Shorter

LEMMA ReadDeclarationReads ==
  ASSUME InText, ReadDeclaration
  PROVE  ParserInv' /\ Shorter
<1> DEFINE next == SkipWhiteSpace(p)
<1>1. /\ ~ Ended(p) /\ At(p) # ">" /\ Top.mode = "declaration" /\ UNCHANGED <<text, error, coding>>
  BY DEF ReadDeclaration, Ended
<1>2. next \in p..Beyond /\ (next \in 1..Len(text) => At(next) # Space)
  BY <1>1, Standing, Skips
<1>3. CASE At(next) \in {"version", "encoding"}
  <2>1. PICK attribute \in ParseAttribute(next) :
           /\ stack' = WithTop([Top EXCEPT !.attrs =
                Append(@, [name |-> At(next), value |-> attribute.value])])
           /\ p' = attribute.p
    BY <1>3 DEF ReadDeclaration
  <2> DEFINE attrs == Append(Top.attrs, [name |-> At(next), value |-> attribute.value])
  <2>2. stack' = WithTop([Top EXCEPT !.attrs = attrs])
    BY <2>1
  <2>3. \/ p' = 0
        \/ p' \in next + 1..Beyond
        \/ p' = Outside /\ CutOff
    <3>1. next \in Nat
      BY <1>2, Standing
    <3> HIDE DEF next
    <3> QED BY <2>1, <3>1, Standing, AttributeMoves
  <2> HIDE DEF next, attrs
  <2>4. /\ Stacked(stack') /\ Len(stack') = Len(stack)
        /\ Wholes(stack) => Wholes(stack')
    <3>1. Stacked(stack) /\ Top.mode \in Inner /\ "value" \in Inner
      BY <1>1, Standing DEF Inner
    <3> QED BY <2>2, <3>1, TopKeeps
  <2>5. error' = "none" => Wholes(stack')
    BY <1>1, <2>4 DEF InText
  <2>6. CASE p' = Outside /\ CutOff
    <3>1. Strayed' /\ Shorter
      BY <1>1, <2>4, <2>5, <2>6, NoneLeft
    <3> QED BY <3>1 DEF ParserInv
  <2>7. CASE p' = 0 \/ p' \in next + 1..Beyond
    <3>1. p' \in 0..Beyond /\ (p' = 0 \/ p' > p)
      BY <1>2, <2>7, Standing
    <3>2. InText'
      BY <1>1, <2>4, <2>5, <3>1 DEF InText, TextTyped, Beyond, Stacked, Wholes
    <3>3. Shorter
      BY <1>1, <2>4, <3>1, LessLeft, Standing DEF Shorter
    <3> QED BY <3>2, <3>3 DEF ParserInv
  <2> QED BY <2>3, <2>6, <2>7
<1>4. CASE At(next) \notin {"version", "encoding"}
  <2> DEFINE places == Places({">", Space})
             over == First(next, places)
  <2>1. p' = over /\ UNCHANGED stack
    BY <1>4 DEF ReadDeclaration
  <2>2. over \in next..Beyond /\ (over # Beyond => over \in places)
    <3>1. next \in 1..Beyond
      BY <1>1, <1>2, Standing
    <3> HIDE DEF next, places
    <3> QED BY <3>1, Standing, FirstPlace
  <2>3. over # p
    <3> SUFFICES ASSUME over = p PROVE FALSE
      OBVIOUS
    <3>1. over # Beyond /\ next = p /\ p \in 1..Len(text)
      BY <1>1, <1>2, <2>2, Standing
    <3>2. p \in places /\ At(p) # Space
      BY <1>2, <2>2, <3>1
    <3>3. At(p) = text[p]
      BY <3>1, Standing DEF At
    <3> QED BY <1>1, <3>2, <3>3 DEF Places
  <2> HIDE DEF next, over
  <2>4. p' \in 0..Beyond /\ p' > p
    BY <1>1, <1>2, <2>1, <2>2, <2>3, Standing
  <2>5. InText'
    BY <1>1, <2>1, <2>4 DEF InText, TextTyped, Beyond, Stacked, Wholes
  <2>6. Shorter
    BY <1>1, <2>1, <2>4, LessLeft, Standing DEF Shorter
  <2> QED BY <2>5, <2>6 DEF ParserInv
<1> QED BY <1>3, <1>4

LEMMA EndDeclarationReads ==
  ASSUME InText, EndDeclaration
  PROVE  InText' /\ Shorter
<1> DEFINE node == Leaf("declaration", <<Declared("version"), Declared("encoding")>>)
           q == IF Ended(p) THEN 0 ELSE p + 1
<1>1. /\ Top.mode = "declaration" /\ UNCHANGED <<text, error>>
      /\ stack' = Linked(Front(stack), node) /\ p' = SkipWhiteSpace(q)
  BY DEF EndDeclaration
<1>2. node.kind # "element"
  BY DEF Leaf
<1> HIDE DEF node
<1>3. Len(stack) > 1
  BY <1>1, Standing DEF Inner
<1>4. /\ Stacked(stack') /\ Len(stack') = Len(stack) - 1
      /\ Wholes(stack) => Wholes(stack')
  BY <1>1, <1>2, <1>3, Standing, PopKeeps, LinkKeeps
<1>5. q \in Nat /\ (q = 0 => Ended(q))
  BY Standing DEF Ended, At
<1>6. q = 0 \/ (p # 0 /\ q > p)
  BY Standing
<1> HIDE DEF q
<1>7. p' \in 0..Beyond /\ (p' = 0 \/ (p # 0 /\ p' > p))
  <2>1. p' \in 0..Beyond /\ (p' = 0 \/ p' >= q)
    BY <1>1, <1>5, Standing, Skips
  <2>2. q = 0 => p' = 0
    BY <1>1, <1>5, Standing, Skips
  <2> QED BY <1>5, <1>6, <2>1, <2>2, Standing
<1>8. InText'
  <2>1. coding' \in Codings
    BY Standing DEF EndDeclaration, Codings
  <2> QED BY <1>1, <1>4, <1>7, <2>1 DEF InText, TextTyped, Beyond, Stacked, Wholes
<1>9. Left' <= Left /\ Left' \in Nat
  BY <1>1, <1>7, LessLeft, Standing
<1> QED BY <1>4, <1>8, <1>9, Standing DEF Shorter

LEMMA OpenElementReads ==
  ASSUME InText, OpenElement
  PROVE  InText' /\ Shorter
<1> DEFINE named == ReadName(p + 1)
           name == Lexemes(p + 1, named)
           opened == Append(stack, Frame(name, "attributes"))
<1>1. ~ Ended(p) /\ At(p + 1) \in NameStart
  BY Identified DEF OpenElement, Identify
<1>2. named \in 0..Beyond /\ named > p + 1
  BY <1>1, Standing, NameMoves
<1>3. name \in Seq(STRING)
  BY <1>2, Standing DEF Lexemes, TextTyped
<1> HIDE DEF named, name
<1>4. /\ Stacked(opened) /\ Len(opened) = Len(stack) + 1
      /\ Wholes(stack) => Wholes(opened)
  <2>1. "attributes" \in Inner /\ Stacked(stack)
    BY Standing DEF Inner
  <2> QED BY <1>3, <2>1, PushKeeps
<1> HIDE DEF opened
<1>5. CASE Ended(named)
  <2>1. Fail(opened, "FAILED_TO_READ_ELEMENT_NAME") /\ UNCHANGED <<text, coding>>
    BY <1>5 DEF OpenElement, opened, name, named
  <2>2. Len(opened) > 1
    BY <1>4, Standing
  <2>3. InText' /\ p' = 0 /\ Len(stack') = Len(opened) - 1
    BY <1>4, <2>1, <2>2, Standing, FailKeeps
  <2>4. Left' = 0
    BY <2>3 DEF Left
  <2> QED BY <1>1, <1>4, <2>3, <2>4, Standing DEF Shorter
<1>6. CASE ~ Ended(named)
  <2>1. stack' = opened /\ p' = named /\ UNCHANGED <<text, error, coding>>
    BY <1>6 DEF OpenElement, opened, name, named
  <2>2. InText'
    BY <1>2, <1>4, <2>1 DEF InText, TextTyped, Beyond, Stacked, Wholes
  <2>3. p' \in 0..Beyond /\ p' > p /\ p # 0
    BY <1>1, <1>2, <2>1, Standing
  <2> QED BY <1>4, <2>1, <2>2, <2>3, LessLeft, Standing DEF Shorter
<1> QED BY <1>5, <1>6

\* An element that fails is taken off the stack.
LEMMA FailReads ==
  ASSUME InText, Top.mode \in Inner, NEW e, e # "none", Fail(stack, e), UNCHANGED <<text, coding>>
  PROVE  InText' /\ Shorter
<1>1. InText' /\ p' = 0 /\ Len(stack') = Len(stack) - 1
  BY Standing, FailKeeps
<1>2. Left' = 0
  BY <1>1 DEF Left
<1> QED BY <1>1, <1>2, Standing DEF Shorter

\* So is one that ends.
LEMMA CloseReads ==
  ASSUME InText, Top.mode \in Inner, NEW q \in Nat, Close(q), UNCHANGED <<text, coding>>,
         ~ Ended(p), q > p
  PROVE  InText' /\ Shorter
<1>1. InText' /\ Len(stack') = Len(stack) - 1 /\ (p' = 0 \/ p' >= q)
  BY Standing, CloseKeeps
<1>2. p' \in 0..Beyond
  BY <1>1 DEF InText, Beyond
<1>3. p' = 0 \/ p' > p
  BY <1>1, <1>2, Standing
<1> QED BY <1>1, <1>2, <1>3, LessLeft, Standing DEF Shorter

LEMMA EndAttributesReads ==
  ASSUME InText, EndAttributes
  PROVE  InText' /\ Shorter
<1> DEFINE q == SkipWhiteSpace(p)
<1>1. Top.mode \in Inner /\ Top.mode = "attributes" /\ UNCHANGED <<text, coding>>
  BY DEF EndAttributes, Inner
<1>2. ~ Ended(q) => /\ q \in 1..Len(text) /\ q >= p /\ ~ Ended(p) /\ q # 0
  <2>1. q \in 0..Beyond /\ (Ended(p) => q = 0) /\ (~ Ended(p) => q \in p..Beyond)
    BY Standing, Skips
  <2> HIDE DEF q
  <2>2. ~ Ended(q) => q \in 1..Len(text)
    BY <2>1, Standing, EndsText DEF Ended
  <2> QED BY <2>1, <2>2, Standing
<1>3. CASE Ended(q)
  <2>1. Fail(stack, "READING_ATTRIBUTES")
    BY <1>3 DEF EndAttributes, Ended
  <2> QED BY <1>1, <2>1, FailReads
<1>4. CASE At(q) = "/" /\ At(q + 1) # ">"
  <2>1. Fail(stack, "PARSING_EMPTY")
    BY <1>4 DEF EndAttributes, Ended
  <2> QED BY <1>1, <2>1, FailReads
<1>5. CASE At(q) = "/" /\ At(q + 1) = ">"
  <2>1. Close(q + 2) /\ ~ Ended(q)
    BY <1>5 DEF EndAttributes, Ended
  <2>2. q + 2 \in Nat /\ q + 2 > p
    BY <1>2, <2>1, Standing
  <2> HIDE DEF q
  <2> QED BY <1>1, <1>2, <2>1, <2>2, CloseReads
<1>6. CASE At(q) = ">"
  <2>1. /\ stack' = WithTop([Top EXCEPT !.mode = "value"]) /\ UNCHANGED error
        /\ p' = SkipWhiteSpace(q + 1) /\ ~ Ended(q)
    BY <1>6 DEF EndAttributes, Ended
  <2>2. /\ Stacked(stack') /\ Len(stack') = Len(stack)
        /\ Wholes(stack) => Wholes(stack')
    <3>1. Stacked(stack) /\ "value" \in Inner
      BY Standing DEF Inner
    <3> QED BY <1>1, <2>1, <3>1, TopKeeps
  <2>3. q + 1 \in Nat /\ q + 1 > p /\ p # 0
    BY <1>2, <2>1, Standing
  <2> HIDE DEF q
  <2>4. p' \in 0..Beyond /\ (p' = 0 \/ p' >= q + 1)
    BY <2>1, <2>3, Standing, Skips
  <2>5. p' = 0 \/ p' > p
    BY <1>2, <2>1, <2>3, <2>4, Standing
  <2>6. InText'
    BY <1>1, <2>1, <2>2, <2>4 DEF InText, TextTyped, Beyond, Stacked, Wholes
  <2> QED BY <1>1, <2>2, <2>3, <2>4, <2>5, <2>6, LessLeft, Standing DEF Shorter
<1> QED BY <1>3, <1>4, <1>5, <1>6 DEF EndAttributes

LEMMA ReadAttributeReads ==
  ASSUME InText, ReadAttribute
  PROVE  ParserInv' /\ Shorter
<1> DEFINE q == SkipWhiteSpace(p)
<1>1. /\ Top.mode \in Inner /\ ~ Ended(q) /\ UNCHANGED <<text, coding>>
  BY DEF ReadAttribute, Inner, Ended
<1>2. ~ Ended(p) /\ q \in p..Beyond /\ q \in Nat
  <2>1. q \in 0..Beyond /\ (Ended(p) => q = 0) /\ (~ Ended(p) => q \in p..Beyond)
    BY Standing, Skips
  <2>2. q # 0
    BY <1>1, Standing DEF Ended, At
  <2> HIDE DEF q
  <2> QED BY <2>1, <2>2, Standing
<1>3. PICK attribute \in ParseAttribute(q) :
        \/ attribute.p = Outside /\ p' = Outside /\ UNCHANGED <<stack, error>>
        \/ Fail(stack, IF attribute.error = "none" THEN "PARSING_ELEMENT" ELSE attribute.error)
        \/ /\ ~ Ended(attribute.p)
           /\ stack' = WithTop([Top EXCEPT !.attrs =
                Append(@, [name |-> attribute.name, value |-> attribute.value])])
           /\ p' = attribute.p
           /\ UNCHANGED error
  BY DEF ReadAttribute
<1>4. \/ attribute.p = 0
      \/ attribute.p \in q + 1..Beyond
      \/ attribute.p = Outside /\ CutOff
  <2> HIDE DEF q
  <2> QED BY <1>2, Standing, AttributeMoves
<1>5. CASE attribute.p = Outside /\ p' = Outside /\ UNCHANGED <<stack, error>>
  <2>1. CutOff
    BY <1>4, <1>5, <1>2, Standing DEF Outside
  <2>2. Stacked(stack') /\ Len(stack') = Len(stack) /\ (error' = "none" => Wholes(stack'))
    BY <1>5, Standing DEF InText
  <2>3. Strayed' /\ Shorter
    BY <1>1, <1>2, <1>5, <2>1, <2>2, NoneLeft
  <2> QED BY <2>3 DEF ParserInv
<1>6. CASE Fail(stack, IF attribute.error = "none" THEN "PARSING_ELEMENT" ELSE attribute.error)
  <2> DEFINE e == IF attribute.error = "none" THEN "PARSING_ELEMENT" ELSE attribute.error
  <2>1. e # "none" /\ Fail(stack, e)
    BY <1>6
  <2> HIDE DEF e
  <2> QED BY <1>1, <2>1, FailReads DEF ParserInv
<1>7. CASE /\ ~ Ended(attribute.p)
           /\ stack' = WithTop([Top EXCEPT !.attrs =
                Append(@, [name |-> attribute.name, value |-> attribute.value])])
           /\ p' = attribute.p
           /\ UNCHANGED error
  <2> DEFINE attrs == Append(Top.attrs, [name |-> attribute.name, value |-> attribute.value])
  <2>1. stack' = WithTop([Top EXCEPT !.attrs = attrs])
    BY <1>7
  <2> HIDE DEF attrs, q
  <2>2. attribute.p # Outside /\ attribute.p # 0
    BY <1>7, Standing DEF Outside, Ended, At
  <2>3. p' \in 0..Beyond /\ p' > p /\ p # 0
    BY <1>2, <1>4, <1>7, <2>2, Standing
  <2>4. /\ Stacked(stack') /\ Len(stack') = Len(stack)
        /\ Wholes(stack) => Wholes(stack')
    <3>1. Stacked(stack) /\ "value" \in Inner
      BY Standing DEF Inner
    <3> QED BY <1>1, <2>1, <3>1, TopKeeps
  <2>5. InText'
    BY <1>1, <1>7, <2>3, <2>4 DEF InText, TextTyped, Beyond, Stacked, Wholes
  <2>6. Shorter
    BY <1>1, <2>3, <2>4, LessLeft, Standing DEF Shorter
  <2> QED BY <2>5, <2>6 DEF ParserInv
<1> QED BY <1>3, <1>5, <1>6, <1>7

LEMMA ReadTextReads ==
  ASSUME InText, ReadText
  PROVE  ParserInv' /\ Shorter
<1>1. ~ Ended(p) /\ At(p) \notin TagStarts /\ UNCHANGED <<text, coding>>
  BY DEF ReadText
<1>2. PICK parsed \in ParseText(p) :
        \/ p' = GoOn(parsed.p) /\ UNCHANGED <<stack, error>>
        \/ LinkEndChild(parsed.node, parsed.p)
  BY DEF ReadText
<1>3. /\ \/ parsed.p = 0
         \/ parsed.p \in p + 1..Beyond
         \/ parsed.p = Outside /\ CutOff
      /\ parsed.node.kind # "element"
  BY <1>1, Standing, TextMoves
<1>4. CASE parsed.p = Outside /\ CutOff
  <2>1. p' = Outside /\ UNCHANGED error
    BY <1>2, <1>4 DEF GoOn, LinkEndChild
  <2>2. /\ Stacked(stack') /\ Len(stack') = Len(stack)
        /\ Wholes(stack) => Wholes(stack')
    <3>1. CASE UNCHANGED stack
      BY <3>1, Standing
    <3>2. CASE stack' = Linked(stack, parsed.node)
      BY <1>3, <3>2, Standing, LinkKeeps
    <3> QED BY <1>2, <3>1, <3>2 DEF LinkEndChild
  <2>3. error' = "none" => Wholes(stack')
    BY <2>1, <2>2 DEF InText
  <2>4. Strayed' /\ Shorter
    BY <1>1, <1>4, <2>1, <2>2, <2>3, NoneLeft
  <2> QED BY <2>4 DEF ParserInv
<1>5. CASE parsed.p = 0 \/ parsed.p \in p + 1..Beyond
  <2> DEFINE q == parsed.p
  <2>1. q \in 0..Beyond /\ q \in Nat /\ q # Outside
    BY <1>5, Standing DEF Outside
  <2>2. CASE LinkEndChild(parsed.node, parsed.p)
    <3>1. /\ InText' /\ Len(stack') = Len(stack)
          /\ p' = 0 \/ p' >= q
          /\ q = 0 => p' = 0
      BY <1>1, <1>3, <2>1, <2>2, LinkEndChildKeeps
    <3>2. p' \in 0..Beyond /\ (p' = 0 \/ p' > p)
      BY <1>1, <1>5, <2>1, <3>1, Standing DEF InText, Beyond
    <3>3. Shorter
      BY <1>1, <3>1, <3>2, LessLeft, Standing DEF Shorter
    <3> QED BY <3>1, <3>3 DEF ParserInv
  <2>3. CASE p' = GoOn(parsed.p) /\ UNCHANGED <<stack, error>>
    <3>1. p' = SkipWhiteSpace(q) /\ (q = 0 => Ended(q))
      BY <2>1, <2>3, Standing DEF GoOn, Ended, At
    <3> HIDE DEF q
    <3>2. p' \in 0..Beyond /\ (p' = 0 \/ p' >= q) /\ (q = 0 => p' = 0)
      <4>1. TextTyped /\ Beyond \in Nat
        BY Standing
      <4>2. CASE Ended(q)
        BY <2>1, <3>1, <4>1, <4>2, Skips
      <4>3. CASE ~ Ended(q)
        BY <2>1, <3>1, <4>1, <4>3, Skips
      <4> QED BY <4>2, <4>3
    <3>3. p' = 0 \/ p' > p
      BY <1>5, <2>1, <3>2, Standing DEF q
    <3>4. InText'
      BY <1>1, <2>3, <3>2 DEF InText, TextTyped, Beyond, Stacked, Wholes
    <3>5. Shorter
      BY <1>1, <2>3, <3>2, <3>3, LessLeft, Standing DEF Shorter
    <3> QED BY <3>4, <3>5 DEF ParserInv
  <2> QED BY <1>2, <2>2, <2>3
<1> QED BY <1>3, <1>4, <1>5

LEMMA EndValueReads ==
  ASSUME InText, EndValue
  PROVE  InText' /\ Shorter
<1> DEFINE past == SkipWhiteSpace(p + 2 + Len(Top.name))
           closes == StringEqual(p, EndTag(Top.name)) /\ At(past) = ">"
<1>1. Top.mode \in Inner /\ UNCHANGED <<text, coding>>
  BY DEF EndValue, Inner
<1>2. CASE Ended(p) /\ \E e \in {"READING_ELEMENT_VALUE", "READING_END_TAG"} : Fail(stack, e)
  BY <1>1, <1>2, FailReads
<1>3. CASE Fail(stack, "READING_END_TAG")
  BY <1>1, <1>3, FailReads
<1>4. CASE StringEqual(p, <<"<", "/">>) /\ closes /\ Close(past + 1)
  <2>1. ~ Ended(p)
    <3>1. At(p + 1 - 1) = <<"<", "/">>[1] /\ p + 1 - 1 = p
      BY <1>4, Standing DEF StringEqual
    <3> QED BY <3>1 DEF Ended
  <2> DEFINE behind == p + 2 + Len(Top.name)
  <2>2. behind \in Nat /\ behind > p
    <3>1. Top.name \in Seq(STRING)
      BY Standing, LastFrame DEF Top
    <3>2. Len(Top.name) \in Nat
      BY <3>1
    <3> QED BY <3>2, Standing
  <2>3. past = SkipWhiteSpace(behind)
    OBVIOUS
  <2> HIDE DEF behind
  <2>4. past \in 0..Beyond /\ (past = 0 \/ past >= behind)
    BY <2>2, <2>3, Standing, Skips
  <2>5. past # 0
    BY <1>4, Standing DEF At
  <2> HIDE DEF past
  <2>6. past + 1 \in Nat /\ past + 1 > p
    BY <2>2, <2>4, <2>5, Standing
  <2> QED BY <1>1, <1>4, <2>1, <2>6, CloseReads
<1> QED BY <1>2, <1>3, <1>4 DEF EndValue

\* Every step of the parser keeps the invariant and leaves less to do.
LEMMA StepsRead ==
  ASSUME ParserInv, ParserNext
  PROVE  ParserInv' /\ Shorter
<1>1. InText
  BY DEF ParserInv, Strayed, ParserNext
<1>2. InText' => ParserInv'
  BY DEF ParserInv
<1> QED
  BY <1>1, <1>2, ParseNodeReads, OpenDeclarationReads, ReadDeclarationReads,
     EndDeclarationReads, OpenElementReads, EndAttributesReads, ReadAttributeReads,
     ReadTextReads, EndValueReads
     DEF ParserNext

LEMMA ParserStarts == ParserInit => ParserInv
<1> SUFFICES ASSUME ParserInit PROVE ParserInv
  OBVIOUS
<1>1. /\ TextTyped /\ p = SkipWhiteSpace(1) /\ stack = <<Document>>
      /\ coding \in Codings
  BY TextsAssumption DEF ParserInit, TextTyped, InitialCoding, Codings
<1>2. p \in 0..Beyond
  BY <1>1, Skips
<1>3. /\ Document \in Frames({<<>>}, {}) /\ Document.mode = "document" /\ Document.kids = <<>>
  BY DEF Document, Frame, Frames
<1>4. /\ stack \in Seq(Frames({<<>>}, {})) /\ DOMAIN stack = {1} /\ stack[1] = Document
      /\ stack # <<>>
  BY <1>1, <1>3
<1>5. Stacked(stack)
  BY <1>3, <1>4 DEF Stacked
<1>6. Wholes(stack)
  BY <1>3, <1>4 DEF Wholes, AllWhole
<1> QED BY <1>1, <1>2, <1>5, <1>6 DEF ParserInv, InText

LEMMA ParserInvariant == ParserSpec => []ParserInv
<1>1. ParserInit => ParserInv
  BY ParserStarts
<1>2. ParserInv /\ [ParserNext]_parser => ParserInv'
  <2>1. ParserInv /\ UNCHANGED parser => ParserInv'
    <3>1. InText /\ UNCHANGED parser => InText'
      BY DEF InText, parser, TextTyped, Beyond, Stacked, Wholes
    <3>2. Strayed /\ UNCHANGED parser => Strayed'
      BY DEF Strayed, parser, TextTyped, Outside, CutOff, Stacked, Wholes
    <3> QED BY <3>1, <3>2 DEF ParserInv
  <2> QED BY <2>1, StepsRead
<1> QED BY <1>1, <1>2, PTL DEF ParserSpec

\* The parser stays in the text unless the text is in UTF-8 and breaks off inside of a
\* character, where GetChar (tinyxml.h:347-354) steps over the terminating zero; and every
\* frame above the document is that of an element or a declaration.
THEOREM ParserStaysTyped == ParserSpec => []ParserTyped
<1>1. InText => ParserTyped
  BY DEF InText, Stacked, Inner, ParserTyped, Beyond, Codings
<1>2. Strayed => ParserTyped
  BY DEF Strayed, CutOff, Stacked, Inner, ParserTyped
<1> QED BY <1>1, <1>2, ParserInvariant, PTL DEF ParserInv

\* In a document without an error the end of every element was read, however deep it
\* is nested, and wherever the text breaks off, inside of a character, a reference or a
\* tag too (TiXmlElement::Parse, tinyxmlparser.cpp:1084-1138), as long as the parser is
\* in the text.
THEOREM ElementsAreWhole == ParserSpec => []WholeElements
<1>1. ParserInv => WholeElements
  BY DEF ParserInv, InText, Strayed, Wholes, WholeElements
<1> QED BY <1>1, ParserInvariant, PTL

\* Whatever the text is, each step of the parser reads on, returns from an element, or
\* leaves a text in UTF-8 that breaks off inside of a character: there is no text in
\* which the loops of Parse and ReadValue go on for ever (tinyxmlparser.cpp:753-797,
\* 1179-1248, 1572-1629).
THEOREM EveryParseEnds == ParserSpec => Advances
<1>1. ParserInv /\ [ParserNext]_parser =>
        [Returned \/ Left' + Len(stack') < Left + Len(stack)]_parser
  BY StepsRead DEF Shorter
<1> QED BY <1>1, ParserInvariant, PTL DEF ParserSpec, Advances
-----------------------------------------------------------------------------
(***************************************************************************)
(* Sequences of sequences                                                  *)
(***************************************************************************)
\* f joins more and more of the sequences, as FlattenSeq is defined.
Flattens(s, f) ==
  /\ f = [i \in 1..Len(s) |-> IF i = 1 THEN s[i] ELSE f[i - 1] \o s[i]]
  /\ FlattenSeq(s) = f[Len(s)]

LEMMA FlattenIs ==
  ASSUME NEW B, NEW s \in Seq(Seq(B)), s # <<>>
  PROVE  \E f \in [1..Len(s) -> Seq(B)] : Flattens(s, f)
<1> DEFINE step == [i \in Nat |-> [t \in Seq(B) |-> IF i \in 1..Len(s) THEN t \o s[i] ELSE t]]
           n == Len(s)
           Is(f) == f = [i \in 1..n |-> IF i = 1 THEN s[i] ELSE f[i - 1] \o s[i]]
<1>1. n \in Nat \ {0} /\ \A i \in 1..n : s[i] \in Seq(B)
  BY EmptySeq, ElementOfSeq, LenProperties
<1>2. step \in [Nat -> [Seq(B) -> Seq(B)]]
  <2>1. ASSUME NEW i \in Nat, NEW t \in Seq(B)
        PROVE  (IF i \in 1..n THEN t \o s[i] ELSE t) \in Seq(B)
    BY <1>1, ConcatProperties
  <2> QED BY <2>1
<1>3. <<>> \in Seq(B)
  OBVIOUS
<1>3a. PICK g : Indexed(g, n, Seq(B), step, <<>>)
  <2> HIDE DEF step, n
  <2> QED BY <1>1, <1>2, <1>3, IndexedExists
<1>4. g \in [0..n -> Seq(B)] /\ g[0] = <<>> /\ \A i \in 1..n : g[i] = step[i][g[i - 1]]
  BY <1>3a DEF Indexed
<1> DEFINE f == [i \in 1..n |-> g[i]]
<1>5. f \in [1..n -> Seq(B)]
  BY <1>1, <1>4
<1>6. ASSUME NEW i \in 1..n PROVE f[i] = IF i = 1 THEN s[i] ELSE f[i - 1] \o s[i]
  <2>1. i \in 0..n /\ i # 0 /\ i - 1 \in 0..n /\ i \in Nat
    OBVIOUS
  <2>2. g[i] = step[i][g[i - 1]]
    BY <1>4, <2>1
  <2>3. g[i] = g[i - 1] \o s[i]
    BY <1>1, <1>4, <2>1, <2>2
  <2>4. f[i] = g[i] /\ (i # 1 => f[i - 1] = g[i - 1])
    <3>1. i # 1 => i - 1 \in 1..n
      BY <2>1
    <3> QED BY <3>1
  <2> HIDE DEF f
  <2>5. CASE i = 1
    <3>1. g[0] = <<>> /\ s[1] \in Seq(B)
      BY <1>1, <1>4
    <3>2. <<>> \o s[1] = s[1]
      BY <3>1, ConcatEmptySeq
    <3>3. g[1] = g[0] \o s[1]
      <4>1. i - 1 = 0
        BY <2>5
      <4> QED BY <2>3, <2>5, <4>1
    <3>4. f[i] = s[i]
      BY <2>4, <2>5, <3>1, <3>2, <3>3
    <3> QED BY <2>5, <3>4
  <2>6. CASE i # 1
    BY <2>3, <2>4, <2>6
  <2> QED BY <2>5, <2>6
<1>7. f = [i \in 1..n |-> f[i]]
  OBVIOUS
<1> HIDE DEF f
<1>8. Is(f)
  BY <1>6, <1>7
<1>9. \A h : Is(h) => h = f
  <2> SUFFICES ASSUME NEW h, Is(h) PROVE h = f
    OBVIOUS
  <2> DEFINE H == {i \in Nat : i + 1 \in 1..n => h[i + 1] = f[i + 1]}
  <2>1. 0 \in H
    <3>1. 0 + 1 = 1 /\ 1 \in 1..n
      BY <1>1
    <3> QED BY <1>8, <3>1
  <2>2. ASSUME NEW i \in Nat, i \in H PROVE i + 1 \in H
    <3> SUFFICES ASSUME (i + 1) + 1 \in 1..n PROVE h[(i + 1) + 1] = f[(i + 1) + 1]
      OBVIOUS
    <3>1. i + 1 \in 1..n /\ (i + 1) + 1 # 1 /\ ((i + 1) + 1) - 1 = i + 1
      BY <1>1
    <3>2. h[i + 1] = f[i + 1]
      BY <2>2, <3>1
    <3>3. h[(i + 1) + 1] = h[i + 1] \o s[(i + 1) + 1]
      BY <3>1
    <3>4. f[(i + 1) + 1] = f[i + 1] \o s[(i + 1) + 1]
      BY <1>8, <3>1
    <3> QED BY <3>2, <3>3, <3>4
  <2> HIDE DEF H
  <2>3. Nat \subseteq H
    BY <2>1, <2>2, SetInduction
  <2>4. ASSUME NEW i \in 1..n PROVE h[i] = f[i]
    <3>1. i - 1 \in H /\ (i - 1) + 1 = i
      BY <2>3
    <3> QED BY <3>1 DEF H
  <2>5. h = [i \in 1..n |-> h[i]]
    OBVIOUS
  <2> HIDE DEF Is
  <2> QED BY <1>7, <2>4, <2>5
<1>10. FlattenSeq(s) = f[n]
  <2>1. FlattenSeq(s) = (CHOOSE h : Is(h))[n]
    BY <1>1 DEF FlattenSeq
  <2>2. (CHOOSE h : Is(h)) = f
    <3> HIDE DEF Is
    <3> QED BY <1>8, <1>9
  <2> QED BY <2>1, <2>2
<1>11. Flattens(s, f)
  BY <1>8, <1>10 DEF Flattens
<1> QED BY <1>5, <1>11

LEMMA FlattenAppend ==
  ASSUME NEW B, NEW s \in Seq(Seq(B)), NEW x \in Seq(B)
  PROVE  /\ FlattenSeq(<<>>) = <<>>
         /\ FlattenSeq(s) \in Seq(B)
         /\ FlattenSeq(Append(s, x)) = FlattenSeq(s) \o x
<1> DEFINE t == Append(s, x)
           n == Len(s)
<1>1. FlattenSeq(<<>>) = <<>>
  BY DEF FlattenSeq
<1>2. n \in Nat /\ t \in Seq(Seq(B)) /\ Len(t) = n + 1 /\ t[n + 1] = x /\ t # <<>>
      /\ \A i \in 1..n : t[i] = s[i]
  BY AppendProperties, LenProperties
<1> HIDE DEF t
<1>3. PICK g \in [1..Len(t) -> Seq(B)] : Flattens(t, g)
  BY <1>2, FlattenIs
<1>4. CASE s = <<>>
  <2>1. n = 0 /\ FlattenSeq(t) = g[1] /\ g[1] = x
    BY <1>2, <1>3, <1>4 DEF Flattens
  <2>2. <<>> \o x = x /\ <<>> \in Seq(B)
    BY ConcatEmptySeq
  <2> QED BY <1>1, <1>4, <2>1, <2>2 DEF t
<1>5. CASE s # <<>>
  <2>1. n \in Nat \ {0}
    BY <1>5, EmptySeq, LenProperties
  <2>2. PICK f \in [1..n -> Seq(B)] : Flattens(s, f)
    BY <1>5, FlattenIs
  <2> DEFINE H == {i \in Nat : i + 1 \in 1..n => g[i + 1] = f[i + 1]}
  <2>3. 0 \in H
    <3>1. 0 + 1 = 1 /\ 1 \in 1..n /\ 1 \in 1..Len(t)
      BY <1>2, <2>1
    <3>2. g[1] = t[1] /\ f[1] = s[1]
      BY <1>3, <2>2, <3>1 DEF Flattens
    <3> QED BY <1>2, <3>1, <3>2
  <2>4. ASSUME NEW i \in Nat, i \in H PROVE i + 1 \in H
    <3> SUFFICES ASSUME (i + 1) + 1 \in 1..n PROVE g[(i + 1) + 1] = f[(i + 1) + 1]
      OBVIOUS
    <3>1. i + 1 \in 1..n /\ (i + 1) + 1 # 1 /\ ((i + 1) + 1) - 1 = i + 1
          /\ (i + 1) + 1 \in 1..Len(t)
      BY <1>2, <2>1
    <3>2. g[i + 1] = f[i + 1]
      BY <2>4, <3>1
    <3>3. g[(i + 1) + 1] = g[i + 1] \o t[(i + 1) + 1]
      BY <1>3, <3>1 DEF Flattens
    <3>4. f[(i + 1) + 1] = f[i + 1] \o s[(i + 1) + 1]
      BY <2>2, <3>1 DEF Flattens
    <3> QED BY <1>2, <3>1, <3>2, <3>3, <3>4
  <2> HIDE DEF H
  <2>5. Nat \subseteq H
    BY <2>3, <2>4, SetInduction
  <2>6. g[n] = f[n]
    <3>1. n - 1 \in H /\ (n - 1) + 1 = n
      BY <2>1, <2>5
    <3> QED BY <2>1, <3>1 DEF H
  <2>7. FlattenSeq(t) = g[n] \o x
    <3>1. n + 1 \in 1..Len(t) /\ n + 1 # 1 /\ (n + 1) - 1 = n
      BY <1>2, <2>1
    <3> QED BY <1>2, <1>3, <3>1 DEF Flattens
  <2>8. FlattenSeq(s) = f[n] /\ f[n] \in Seq(B)
    <3>1. n \in 1..n
      BY <2>1
    <3> QED BY <2>2, <3>1 DEF Flattens
  <2> QED BY <1>1, <2>6, <2>7, <2>8 DEF t
<1> QED BY <1>4, <1>5
-----------------------------------------------------------------------------
LEMMA ConcatHas ==
  ASSUME NEW S, NEW s1 \in Seq(S), NEW s2 \in Seq(S), NEW w, w = s1 \o s2
  PROVE  /\ w \in Seq(S) /\ Len(w) \in Nat /\ Len(s1) \in Nat /\ Len(s2) \in Nat
         /\ Len(w) = Len(s1) + Len(s2)
         /\ \A q \in 1..Len(s1) : w[q] = s1[q]
         /\ \A q \in 1..Len(s2) : w[Len(s1) + q] = s2[q]
<1>1. /\ w \in Seq(S) /\ Len(w) = Len(s1) + Len(s2)
      /\ \A i \in 1..Len(s1) + Len(s2) : w[i] = IF i <= Len(s1) THEN s1[i] ELSE s2[i - Len(s1)]
  BY ConcatProperties
<1>2. Len(w) \in Nat /\ Len(s1) \in Nat /\ Len(s2) \in Nat
  BY <1>1, LenProperties
<1>3. ASSUME NEW q \in 1..Len(s1) PROVE w[q] = s1[q]
  BY <1>1, <1>2
<1>4. ASSUME NEW q \in 1..Len(s2) PROVE w[Len(s1) + q] = s2[q]
  <2>1. Len(s1) + q \in 1..Len(s1) + Len(s2) /\ ~ (Len(s1) + q <= Len(s1))
        /\ (Len(s1) + q) - Len(s1) = q
    BY <1>2
  <2> QED BY <1>1, <2>1
<1> QED BY <1>1, <1>2, <1>3, <1>4

\* How much the first i of the sequences are together.
Behind(s, i) == Len(FlattenSeq(SubSeq(s, 1, i)))

LEMMA PrefixGrows ==
  ASSUME NEW S, NEW s \in Seq(S), NEW i \in 1..Len(s)
  PROVE  /\ SubSeq(s, 1, i - 1) \in Seq(S) /\ s[i] \in S
         /\ SubSeq(s, 1, i) = Append(SubSeq(s, 1, i - 1), s[i])
<1> DEFINE t == SubSeq(s, 1, i - 1)
           u == SubSeq(s, 1, i)
<1>1. i \in Nat /\ Len(s) \in Nat /\ i <= Len(s) /\ s[i] \in S
  BY ElementOfSeq
<1>2. /\ t \in Seq(S) /\ Len(t) = i - 1 /\ \A j \in 1..(i - 1) : t[j] = s[j]
  BY <1>1
<1>3. /\ u \in Seq(S) /\ Len(u) = i /\ \A j \in 1..i : u[j] = s[j]
  BY <1>1
<1> HIDE DEF t, u
<1>4. Append(t, s[i]) = u
  <2>1. /\ Append(t, s[i]) \in Seq(S) /\ Len(Append(t, s[i])) = (i - 1) + 1
        /\ Append(t, s[i])[(i - 1) + 1] = s[i]
        /\ \A j \in 1..(i - 1) : Append(t, s[i])[j] = t[j]
    BY <1>1, <1>2, AppendProperties
  <2>2. (i - 1) + 1 = i
    BY <1>1
  <2>3. Append(t, s[i])[i] = s[i]
    BY <2>1, <2>2
  <2>4. ASSUME NEW j \in 1..i PROVE Append(t, s[i])[j] = u[j]
    <3>1. j = i \/ j \in 1..(i - 1)
      BY <1>1
    <3>2. j \in 1..(i - 1) => Append(t, s[i])[j] = s[j]
      BY <1>2, <2>1
    <3> QED BY <1>3, <2>3, <3>1, <3>2
  <2> QED BY <1>3, <2>1, <2>2, <2>4, SeqEqual
<1> QED BY <1>1, <1>2, <1>4 DEF t, u

LEMMA BehindStep ==
  ASSUME NEW B, NEW s \in Seq(Seq(B))
  PROVE  /\ Behind(s, 0) = 0
         /\ Behind(s, Len(s)) = Len(FlattenSeq(s))
         /\ \A i \in 0..Len(s) : Behind(s, i) \in Nat
         /\ \A i \in 1..Len(s) : Behind(s, i) = Behind(s, i - 1) + Len(s[i])
<1>1. SubSeq(s, 1, 0) = <<>> /\ SubSeq(s, 1, Len(s)) = s
  BY SubSeqFull
<1>2. <<>> \in Seq(B)
  OBVIOUS
<1>3. FlattenSeq(<<>>) = <<>>
  BY <1>2, FlattenAppend
<1>4. ASSUME NEW i \in 0..Len(s) PROVE Behind(s, i) \in Nat
  <2>1. SubSeq(s, 1, i) \in Seq(Seq(B))
    OBVIOUS
  <2>2. FlattenSeq(SubSeq(s, 1, i)) \in Seq(B)
    BY <1>2, <2>1, FlattenAppend
  <2> QED BY <2>2, LenProperties DEF Behind
<1>5. ASSUME NEW i \in 1..Len(s) PROVE Behind(s, i) = Behind(s, i - 1) + Len(s[i])
  <2> DEFINE t == SubSeq(s, 1, i - 1)
  <2>1. t \in Seq(Seq(B)) /\ s[i] \in Seq(B) /\ SubSeq(s, 1, i) = Append(t, s[i])
    BY PrefixGrows
  <2> HIDE DEF t
  <2>2. FlattenSeq(t) \in Seq(B) /\ FlattenSeq(Append(t, s[i])) = FlattenSeq(t) \o s[i]
    BY <2>1, FlattenAppend
  <2>3. Len(FlattenSeq(t) \o s[i]) = Len(FlattenSeq(t)) + Len(s[i])
    BY <2>1, <2>2, ConcatProperties
  <2> QED BY <2>1, <2>2, <2>3 DEF Behind, t
<1>6. Behind(s, 0) = 0
  <2> DEFINE prefix == SubSeq(s, 1, 0)
  <2>1. prefix = <<>>
    BY <1>1
  <2>2. Behind(s, 0) = Len(FlattenSeq(prefix))
    BY DEF Behind
  <2> HIDE DEF prefix
  <2>3. FlattenSeq(prefix) = <<>>
    BY <1>3, <2>1
  <2> QED BY <2>2, <2>3
<1>7. Behind(s, Len(s)) = Len(FlattenSeq(s))
  <2> DEFINE prefix == SubSeq(s, 1, Len(s))
  <2>1. prefix = s
    BY <1>1
  <2>2. Behind(s, Len(s)) = Len(FlattenSeq(prefix))
    BY DEF Behind
  <2> HIDE DEF prefix
  <2> QED BY <2>1, <2>2
<1> QED BY <1>4, <1>5, <1>6, <1>7

\* Each element of the sequences is where the ones in front of it end.
LEMMA FlattenHas ==
  ASSUME NEW B, NEW s \in Seq(Seq(B)), NEW i \in 1..Len(s), NEW k \in 1..Len(s[i])
  PROVE  FlattenSeq(s)[Behind(s, i - 1) + k] = s[i][k]
<1> DEFINE before == Behind(s, i - 1)
           flat(j) == FlattenSeq(SubSeq(s, 1, j))
           Holds_(f) == before + k <= Len(f) /\ f[before + k] = s[i][k]
           H == {j \in Nat : i + j \in 1..Len(s) => Holds_(flat(i + j))}
<1>1. i \in Nat \ {0} /\ Len(s) \in Nat /\ s[i] \in Seq(B) /\ Len(s[i]) \in Nat /\ k \in Nat \ {0}
  BY ElementOfSeq, LenProperties
<1>2. before \in Nat
  BY <1>1, BehindStep
<1>3. ASSUME NEW j \in 1..Len(s)
      PROVE  /\ flat(j - 1) \in Seq(B) /\ s[j] \in Seq(B)
             /\ flat(j) = flat(j - 1) \o s[j]
             /\ Len(flat(j - 1)) = Behind(s, j - 1)
  <2> DEFINE t == SubSeq(s, 1, j - 1)
  <2>1. t \in Seq(Seq(B)) /\ s[j] \in Seq(B) /\ SubSeq(s, 1, j) = Append(t, s[j])
    BY PrefixGrows
  <2> HIDE DEF t
  <2>2. FlattenSeq(t) \in Seq(B) /\ FlattenSeq(Append(t, s[j])) = FlattenSeq(t) \o s[j]
    BY <2>1, FlattenAppend
  <2> QED BY <2>1, <2>2 DEF Behind, t
<1> HIDE DEF flat
<1>4. 0 \in H
  <2> DEFINE front == flat(i - 1)
             whole == flat(i)
  <2>1. i + 0 = i
    BY <1>1
  <2>2. front \in Seq(B) /\ s[i] \in Seq(B) /\ whole = front \o s[i] /\ Len(front) = before
    BY <1>3
  <2> HIDE DEF front, whole, before
  <2>3. /\ Len(whole) = Len(front) + Len(s[i])
        /\ \A q \in 1..Len(s[i]) : whole[Len(front) + q] = s[i][q]
    BY <2>2, ConcatHas
  <2>4. Holds_(whole)
    BY <1>1, <1>2, <2>2, <2>3
  <2> QED BY <2>1, <2>4 DEF whole
<1>5. ASSUME NEW j \in Nat, j \in H PROVE j + 1 \in H
  <2> SUFFICES ASSUME i + (j + 1) \in 1..Len(s) PROVE Holds_(flat(i + (j + 1)))
    OBVIOUS
  <2> DEFINE front == flat(i + j)
             whole == flat(i + (j + 1))
             new == s[i + (j + 1)]
  <2>1. i + j \in 1..Len(s) /\ (i + (j + 1)) - 1 = i + j
    BY <1>1
  <2>2. Holds_(front)
    BY <1>5, <2>1
  <2>3. front \in Seq(B) /\ new \in Seq(B) /\ whole = front \o new
    BY <1>3, <2>1
  <2> HIDE DEF front, whole, new, before
  <2>4. /\ Len(whole) \in Nat /\ Len(front) \in Nat /\ Len(new) \in Nat
        /\ Len(whole) = Len(front) + Len(new)
        /\ \A q \in 1..Len(front) : whole[q] = front[q]
    BY <2>3, ConcatHas
  <2>5. before + k \in 1..Len(front)
    BY <1>1, <1>2, <2>2, <2>4
  <2>6. Holds_(whole)
    BY <1>1, <1>2, <2>2, <2>4, <2>5
  <2> QED BY <2>6 DEF whole
<1>6. Nat \subseteq H
  <2> HIDE DEF H
  <2> QED BY <1>4, <1>5, SetInduction
<1>7. Holds_(flat(Len(s)))
  <2>1. Len(s) - i \in H /\ i + (Len(s) - i) = Len(s) /\ Len(s) \in 1..Len(s)
    <3> HIDE DEF H
    <3> QED BY <1>1, <1>6
  <2> HIDE DEF Holds_
  <2> QED BY <2>1
<1>8. SubSeq(s, 1, Len(s)) = s
  BY SubSeqFull
<1> QED BY <1>7, <1>8 DEF flat

LEMMA BehindRises ==
  ASSUME NEW B, NEW s \in Seq(Seq(B)), \A i \in 1..Len(s) : s[i] # <<>>
  PROVE  \A i, j \in 0..Len(s) : i < j => Behind(s, i) < Behind(s, j)
<1> SUFFICES ASSUME NEW i \in 0..Len(s) PROVE \A j \in 0..Len(s) : i < j => Behind(s, i) < Behind(s, j)
  OBVIOUS
<1> DEFINE H == {n \in Nat : i + (n + 1) \in 1..Len(s) => Behind(s, i) < Behind(s, i + (n + 1))}
<1>1. Len(s) \in Nat /\ i \in Nat
  BY LenProperties
<1>2. ASSUME NEW j \in 1..Len(s)
      PROVE  Behind(s, j - 1) \in Nat /\ Behind(s, j) \in Nat /\ Behind(s, j - 1) < Behind(s, j)
  <2>1. s[j] \in Seq(B) /\ s[j] # <<>>
    BY ElementOfSeq
  <2>2. Len(s[j]) \in Nat \ {0}
    BY <2>1, EmptySeq, LenProperties
  <2>3. Behind(s, j) = Behind(s, j - 1) + Len(s[j]) /\ Behind(s, j - 1) \in Nat
    BY <1>1, BehindStep
  <2> QED BY <2>2, <2>3
<1>3. 0 \in H
  <2> SUFFICES ASSUME i + (0 + 1) \in 1..Len(s) PROVE Behind(s, i) < Behind(s, i + (0 + 1))
    OBVIOUS
  <2>1. (i + (0 + 1)) - 1 = i
    BY <1>1
  <2> QED BY <1>2, <2>1
<1>4. ASSUME NEW n \in Nat, n \in H PROVE n + 1 \in H
  <2> SUFFICES ASSUME i + ((n + 1) + 1) \in 1..Len(s)
               PROVE  Behind(s, i) < Behind(s, i + ((n + 1) + 1))
    OBVIOUS
  <2> DEFINE j == i + ((n + 1) + 1)
             a == Behind(s, i)
             b == Behind(s, i + (n + 1))
             c == Behind(s, j)
  <2>1. i + (n + 1) \in 1..Len(s) /\ j - 1 = i + (n + 1) /\ j \in 1..Len(s)
    BY <1>1
  <2>2. a < b
    BY <1>4, <2>1
  <2>3. b \in Nat /\ c \in Nat /\ b < c
    BY <1>2, <2>1
  <2>4. a \in Nat
    BY <1>1, BehindStep
  <2> HIDE DEF a, b, c
  <2>5. a < c
    BY <2>2, <2>3, <2>4
  <2> QED BY <2>5 DEF a, c
<1>5. Nat \subseteq H
  <2> HIDE DEF H
  <2> QED BY <1>3, <1>4, SetInduction
<1>6. ASSUME NEW j \in 0..Len(s), i < j PROVE Behind(s, i) < Behind(s, j)
  <2>1. (j - i) - 1 \in H /\ i + (((j - i) - 1) + 1) = j /\ j \in 1..Len(s)
    <3> HIDE DEF H
    <3> QED BY <1>1, <1>5, <1>6
  <2> QED BY <2>1
<1> QED BY <1>6
-----------------------------------------------------------------------------
(***************************************************************************)
(* Where the characters are in the text                                    *)
(***************************************************************************)
Bytes == {"CR", "LF", "x", "TAB", "C2", "BB", "EF", "BF", "BE"}

\* The characters of the text in its encoding.
Glyphs == IF encoding = "UTF8" THEN FileCharacters ELSE {<<b>> : b \in Bytes}

\* What LocationInit starts from and no step changes.
FileRead ==
  /\ file \in Seq(FileCharacters) /\ chars \in Seq(FileCharacters)
  /\ cut \in 0..(IF chars = <<>> THEN 0 ELSE Len(Last(chars)) - 1)
  /\ encoding \in {"UTF8", "LEGACY"}

LEMMA CharactersAre ==
  ASSUME NEW c \in FileCharacters
  PROVE  /\ c \in Seq(Bytes) /\ c # <<>> /\ Len(c) \in 1..3
         /\ c \in {CR, LF, <<"x">>, <<"TAB">>, <<"C2", "BB">>, <<"EF", "BB", "BB">>,
                   <<"EF", "BB", "BF">>, <<"EF", "BF", "BE">>, <<"EF", "BF", "BF">>}
<1>1. c \in {CR, LF, <<"x">>, <<"TAB">>, <<"C2", "BB">>, <<"EF", "BB", "BB">>,
             <<"EF", "BB", "BF">>, <<"EF", "BF", "BE">>, <<"EF", "BF", "BF">>}
  BY DEF FileCharacters, Breaks, Invisible
<1>2. c \in Seq(Bytes) /\ c # <<>> /\ Len(c) \in 1..3
  <2>1. ASSUME NEW a \in Bytes
        PROVE  <<a>> \in Seq(Bytes) /\ <<a>> # <<>> /\ Len(<<a>>) \in 1..3
    OBVIOUS
  <2>2. ASSUME NEW a \in Bytes, NEW b \in Bytes
        PROVE  <<a, b>> \in Seq(Bytes) /\ <<a, b>> # <<>> /\ Len(<<a, b>>) \in 1..3
    OBVIOUS
  <2>3. ASSUME NEW a \in Bytes, NEW b \in Bytes, NEW d \in Bytes
        PROVE  <<a, b, d>> \in Seq(Bytes) /\ <<a, b, d>> # <<>> /\ Len(<<a, b, d>>) \in 1..3
    OBVIOUS
  <2>4. "CR" \in Bytes /\ "LF" \in Bytes /\ "x" \in Bytes /\ "TAB" \in Bytes
        /\ "C2" \in Bytes /\ "BB" \in Bytes /\ "EF" \in Bytes /\ "BF" \in Bytes /\ "BE" \in Bytes
    BY DEF Bytes
  <2>5. CASE c \in {CR, LF, <<"x">>, <<"TAB">>}
    BY <2>1, <2>4, <2>5 DEF CR, LF
  <2>6. CASE c = <<"C2", "BB">>
    BY <2>2, <2>4, <2>6
  <2>7. CASE c \in {<<"EF", "BB", "BB">>, <<"EF", "BB", "BF">>, <<"EF", "BF", "BE">>,
                    <<"EF", "BF", "BF">>}
    BY <2>3, <2>4, <2>7
  <2> QED BY <1>1, <2>5, <2>6, <2>7
<1> QED BY <1>1, <1>2

LEMMA CharsAre ==
  ASSUME FileRead
  PROVE  /\ chars \in Seq(Seq(Bytes)) /\ Len(chars) \in Nat
         /\ \A i \in 1..Len(chars) : chars[i] \in FileCharacters /\ chars[i] # <<>>
         /\ FlattenSeq(chars) \in Seq(Bytes)
         /\ cut \in Nat
         /\ chars = <<>> => cut = 0
         /\ chars # <<>> => Len(chars) > 0 /\ Last(chars) = chars[Len(chars)] /\ cut < Len(Last(chars))
         /\ Len(bytes) = Len(FlattenSeq(chars)) - cut /\ bytes \in Seq(Bytes) /\ Len(bytes) \in Nat
         /\ \A q \in 1..Len(bytes) : bytes[q] = FlattenSeq(chars)[q]
<1> DEFINE flat == FlattenSeq(chars)
<1>1. chars \in Seq(FileCharacters) /\ Len(chars) \in Nat
      /\ \A i \in 1..Len(chars) : chars[i] \in FileCharacters /\ chars[i] # <<>> /\ chars[i] \in Seq(Bytes)
  BY ElementOfSeq, LenProperties, CharactersAre DEF FileRead
<1>2. chars \in Seq(Seq(Bytes))
  <2>1. FileCharacters \subseteq Seq(Bytes)
    BY CharactersAre
  <2> HIDE DEF FileRead
  <2> QED BY <1>1, <2>1
<1>3. flat \in Seq(Bytes) /\ Len(flat) \in Nat
  <2>1. <<>> \in Seq(Bytes)
    OBVIOUS
  <2>2. flat \in Seq(Bytes)
    BY <1>2, <2>1, FlattenAppend
  <2> QED BY <2>2, LenProperties
<1>4. chars # <<>> => /\ Len(chars) > 0 /\ Last(chars) = chars[Len(chars)]
                      /\ cut \in Nat /\ cut < Len(Last(chars)) /\ Len(Last(chars)) \in 1..3
  <2> SUFFICES ASSUME chars # <<>>
               PROVE  /\ Len(chars) > 0 /\ Last(chars) = chars[Len(chars)]
                      /\ cut \in Nat /\ cut < Len(Last(chars)) /\ Len(Last(chars)) \in 1..3
    OBVIOUS
  <2>1. Len(chars) > 0
    BY <1>1, EmptySeq
  <2>2. Last(chars) = chars[Len(chars)]
    BY DEF Last
  <2>3. Len(Last(chars)) \in 1..3
    BY <1>1, <2>1, <2>2, CharactersAre
  <2> QED BY <2>1, <2>2, <2>3 DEF FileRead
<1>5. cut \in Nat /\ (chars = <<>> => cut = 0)
  BY <1>4 DEF FileRead
<1>6. cut <= Len(flat)
  <2>1. CASE chars = <<>>
    BY <1>3, <1>5, <2>1
  <2>2. CASE chars # <<>>
    <3> DEFINE n == Len(chars)
    <3>1. n \in 1..Len(chars)
      BY <1>1, <1>4, <2>2
    <3>2. /\ Behind(chars, n) = Len(flat) /\ Behind(chars, n) = Behind(chars, n - 1) + Len(chars[n])
          /\ Behind(chars, n - 1) \in Nat
      <4>1. n \in 1..Len(chars) /\ n - 1 \in 0..Len(chars)
        BY <3>1
      <4> QED BY <1>2, <4>1, BehindStep
    <3> HIDE DEF n, flat
    <3> QED BY <1>3, <1>4, <1>5, <2>2, <3>2 DEF n
  <2> QED BY <2>1, <2>2
<1> HIDE DEF flat
<1>7. bytes = SubSeq(flat, 1, Len(flat) - cut)
  BY DEF bytes, flat
<1>8. /\ Len(bytes) = Len(flat) - cut /\ bytes \in Seq(Bytes) /\ Len(bytes) \in Nat
      /\ \A q \in 1..Len(bytes) : bytes[q] = flat[q]
  <2>1. Len(flat) - cut \in 0..Len(flat)
    BY <1>3, <1>5, <1>6
  <2> QED BY <1>3, <1>7, <2>1
<1> QED BY <1>1, <1>2, <1>3, <1>4, <1>5, <1>8 DEF flat

LEMMA BehindOnes ==
  ASSUME NEW B, NEW s \in Seq(Seq(B)), \A i \in 1..Len(s) : Len(s[i]) = 1
  PROVE  \A i \in 0..Len(s) : Behind(s, i) = i
<1> DEFINE H == {n \in Nat : n \in 0..Len(s) => Behind(s, n) = n}
<1>1. Len(s) \in Nat
  BY LenProperties
<1>2. Behind(s, 0) = 0 /\ \A i \in 1..Len(s) : Behind(s, i) = Behind(s, i - 1) + Len(s[i])
  BY BehindStep
<1>3. 0 \in H
  BY <1>2
<1>4. ASSUME NEW n \in Nat, n \in H PROVE n + 1 \in H
  <2> SUFFICES ASSUME n + 1 \in 0..Len(s) PROVE Behind(s, n + 1) = n + 1
    OBVIOUS
  <2>1. n \in 0..Len(s) /\ n + 1 \in 1..Len(s) /\ (n + 1) - 1 = n
    BY <1>1
  <2>2. Behind(s, n) = n /\ Len(s[n + 1]) = 1
    BY <1>4, <2>1
  <2>3. Behind(s, n + 1) = Behind(s, n) + Len(s[n + 1])
    BY <1>2, <2>1
  <2> QED BY <2>2, <2>3
<1>5. Nat \subseteq H
  <2> HIDE DEF H
  <2> QED BY <1>3, <1>4, SetInduction
<1> QED BY <1>1, <1>5

\* The text as its reader sees it lies in the bytes from the first to the last, of which the
\* end may be cut off, though never all of it.
Laid ==
  /\ Seen \in Seq(Seq(Bytes)) /\ Len(Seen) \in Nat
  /\ \A i \in 1..Len(Seen) : Seen[i] \in Glyphs /\ Seen[i] # <<>>
  /\ bytes \in Seq(Bytes) /\ Len(bytes) \in Nat
  /\ Len(bytes) <= Behind(Seen, Len(Seen))
  /\ Len(Seen) = 0 => Len(bytes) = 0
  /\ Len(Seen) > 0 => Behind(Seen, Len(Seen) - 1) < Len(bytes)
  /\ \A i \in 1..Len(Seen) : \A k \in 1..Len(Seen[i]) :
       Behind(Seen, i - 1) + k <= Len(bytes) => bytes[Behind(Seen, i - 1) + k] = Seen[i][k]
  /\ cut \in Nat
  /\ encoding = "UTF8" => Seen = chars /\ Len(bytes) = Behind(Seen, Len(Seen)) - cut
  /\ encoding # "UTF8" => Len(Seen) = Len(bytes) /\ Len(bytes) = Behind(Seen, Len(Seen))
                            /\ \A i \in 1..Len(Seen) : Seen[i] = <<bytes[i]>>

LEMMA Layout ==
  ASSUME FileRead
  PROVE  Laid
<1> DEFINE n == Len(Seen)
<1>1. CASE encoding = "UTF8"
  <2>1. Seen = chars /\ Glyphs = FileCharacters
    BY <1>1 DEF Seen, Glyphs
  <2> DEFINE flat == FlattenSeq(chars)
  <2>2. /\ chars \in Seq(Seq(Bytes)) /\ Len(chars) \in Nat
        /\ \A i \in 1..Len(chars) : chars[i] \in FileCharacters /\ chars[i] # <<>>
        /\ cut \in Nat
        /\ chars = <<>> => cut = 0
        /\ chars # <<>> => Len(chars) > 0 /\ Last(chars) = chars[Len(chars)] /\ cut < Len(Last(chars))
        /\ Len(bytes) = Len(flat) - cut /\ bytes \in Seq(Bytes) /\ Len(bytes) \in Nat
        /\ \A q \in 1..Len(bytes) : bytes[q] = flat[q]
    BY CharsAre
  <2>3. /\ Behind(chars, 0) = 0 /\ Behind(chars, Len(chars)) = Len(flat)
        /\ \A i \in 0..Len(chars) : Behind(chars, i) \in Nat
        /\ \A i \in 1..Len(chars) : Behind(chars, i) = Behind(chars, i - 1) + Len(chars[i])
    BY <2>2, BehindStep
  <2>4. Len(bytes) = Behind(chars, Len(chars)) - cut /\ Len(bytes) <= Behind(chars, Len(chars))
    BY <2>2, <2>3
  <2>5. Len(chars) = 0 => Len(bytes) = 0
    BY <2>2, <2>3, <2>4
  <2>6. Len(chars) > 0 => Behind(chars, Len(chars) - 1) < Len(bytes)
    <3> SUFFICES ASSUME Len(chars) > 0 PROVE Behind(chars, Len(chars) - 1) < Len(bytes)
      OBVIOUS
    <3>1. Len(chars) \in 1..Len(chars) /\ Len(chars) - 1 \in 0..Len(chars) /\ chars # <<>>
      BY <2>2, EmptySeq
    <3>2. Behind(chars, Len(chars) - 1) \in Nat /\ Len(chars[Len(chars)]) \in Nat
          /\ Behind(chars, Len(chars)) = Behind(chars, Len(chars) - 1) + Len(chars[Len(chars)])
      BY <2>2, <2>3, <3>1, CharactersAre
    <3>3. cut < Len(chars[Len(chars)])
      BY <2>2, <3>1
    <3> QED BY <2>2, <2>4, <3>2, <3>3
  <2>7. ASSUME NEW i \in 1..Len(chars), NEW k \in 1..Len(chars[i]),
               Behind(chars, i - 1) + k <= Len(bytes)
        PROVE  bytes[Behind(chars, i - 1) + k] = chars[i][k]
    <3>1. flat[Behind(chars, i - 1) + k] = chars[i][k]
      BY <2>2, FlattenHas
    <3>2. Behind(chars, i - 1) \in Nat /\ Len(chars[i]) \in Nat
      BY <2>2, <2>3, CharactersAre
    <3> HIDE DEF flat
    <3>3. Behind(chars, i - 1) + k \in 1..Len(bytes)
      BY <2>2, <2>7, <3>2
    <3> QED BY <2>2, <3>1, <3>3
  <2> HIDE DEF flat
  <2> QED BY <1>1, <2>1, <2>2, <2>4, <2>5, <2>6, <2>7 DEF Laid
<1>2. CASE encoding # "UTF8"
  <2>1. bytes \in Seq(Bytes) /\ Len(bytes) \in Nat /\ cut \in Nat
    BY CharsAre
  <2>2. Seen = [i \in 1..Len(bytes) |-> <<bytes[i]>>] /\ Glyphs = {<<b>> : b \in Bytes}
    BY <1>2, <2>1 DEF Seen, Glyphs
  <2>3. ASSUME NEW b \in Bytes
        PROVE  <<b>> \in Seq(Bytes) /\ <<b>> # <<>> /\ Len(<<b>>) = 1 /\ <<b>>[1] = b
    OBVIOUS
  <2>4. \A i \in 1..Len(bytes) : bytes[i] \in Bytes
    BY <2>1, ElementOfSeq
  <2>5. Seen \in [1..Len(bytes) -> Seq(Bytes)]
    BY <2>2, <2>3, <2>4
  <2>6. Seen \in Seq(Seq(Bytes)) /\ Len(Seen) = Len(bytes)
    <3> HIDE DEF Seen
    <3> QED BY <2>1, <2>5
  <2>7. \A i \in 1..Len(Seen) :
          Seen[i] = <<bytes[i]>> /\ Seen[i] \in Glyphs /\ Seen[i] # <<>> /\ Len(Seen[i]) = 1
            /\ Seen[i][1] = bytes[i]
    BY <2>2, <2>3, <2>4, <2>6
  <2>8. \A i \in 0..Len(Seen) : Behind(Seen, i) = i
    BY <2>6, <2>7, BehindOnes
  <2>9. /\ Len(bytes) = Behind(Seen, Len(Seen)) /\ Len(bytes) <= Behind(Seen, Len(Seen))
        /\ Len(Seen) > 0 => Behind(Seen, Len(Seen) - 1) < Len(bytes)
    BY <2>1, <2>6, <2>8
  <2>10. ASSUME NEW i \in 1..Len(Seen), NEW k \in 1..Len(Seen[i])
         PROVE  bytes[Behind(Seen, i - 1) + k] = Seen[i][k]
    <3>1. k = 1 /\ Behind(Seen, i - 1) = i - 1 /\ (i - 1) + 1 = i
      <4>1. Len(Seen[i]) = 1 /\ i - 1 \in 0..Len(Seen)
        BY <2>1, <2>6, <2>7
      <4> HIDE DEF Seen, bytes
      <4>2. k = 1
        BY <4>1
      <4> QED BY <2>8, <4>1, <4>2
    <3> QED BY <2>7, <3>1
  <2> HIDE DEF Seen, bytes
  <2> QED BY <1>2, <2>1, <2>6, <2>7, <2>9, <2>10 DEF Laid
<1> QED BY <1>1, <1>2
-----------------------------------------------------------------------------
(***************************************************************************)
(* Lines and columns                                                       *)
(***************************************************************************)
\* The breaks up to i of which each is another one than that before it.
Alternate(i) ==
  {j \in 1..i : \A k \in j..i : Seen[k] \in Breaks /\ (k > j => Seen[k] # Seen[k - 1])}

\* In a row of breaks each other one is the second half of a pair.
LEMMA EndsLineIs ==
  ASSUME NEW i \in Nat \ {0}
  PROVE  /\ Seen[i] \notin Breaks => ~ EndsLine(i)
         /\ Seen[i] \in Breaks /\ (i = 1 \/ Seen[i - 1] \notin Breaks \/ Seen[i - 1] = Seen[i])
              => EndsLine(i)
         /\ Seen[i] \in Breaks /\ i > 1 /\ Seen[i - 1] \in Breaks /\ Seen[i - 1] # Seen[i]
              => (EndsLine(i) <=> ~ EndsLine(i - 1))
<1>1. \A j : EndsLine(j) <=> Seen[j] \in Breaks /\ Cardinality(Alternate(j)) % 2 = 1
  BY DEF EndsLine, Alternate
<1>2. Seen[i] \notin Breaks => ~ EndsLine(i)
  BY <1>1
<1>3. ASSUME Seen[i] \in Breaks, i = 1 \/ Seen[i - 1] \notin Breaks \/ Seen[i - 1] = Seen[i]
      PROVE  EndsLine(i)
  <2>1. i \in Alternate(i)
    BY <1>3 DEF Alternate
  <2>2. ASSUME NEW j \in Alternate(i), j # i PROVE FALSE
    <3>1. j \in 1..i /\ i \in j..i /\ i > j /\ i - 1 \in j..i
      BY <2>2 DEF Alternate
    <3>2. Seen[i] # Seen[i - 1] /\ Seen[i - 1] \in Breaks
      BY <2>2, <3>1 DEF Alternate
    <3> QED BY <1>3, <3>1, <3>2
  <2>3. Alternate(i) = {i}
    BY <2>1, <2>2
  <2>4. Cardinality(Alternate(i)) = 1
    BY <2>3, FS_Singleton
  <2> QED BY <1>1, <1>3, <2>4
<1>4. ASSUME Seen[i] \in Breaks, i > 1, Seen[i - 1] \in Breaks, Seen[i - 1] # Seen[i]
      PROVE  EndsLine(i) <=> ~ EndsLine(i - 1)
  <2> DEFINE front == Alternate(i - 1)
             whole == Alternate(i)
  <2>1. i - 1 \in Nat \ {0}
    BY <1>4
  <2>2. ASSUME NEW j \in 1..(i - 1) PROVE j \in front <=> j \in whole
    <3>1. \A k \in j..i : k = i \/ k \in j..(i - 1)
      BY <2>1
    <3>2. j \in 1..i /\ \A k \in j..(i - 1) : k \in j..i
      BY <2>1
    <3> QED BY <1>4, <3>1, <3>2 DEF Alternate
  <2>3. i \in whole
    BY <1>4 DEF Alternate
  <2>4. front \subseteq 1..(i - 1) /\ whole \subseteq 1..i
    BY DEF Alternate
  <2>5. \A j \in 1..i : j = i \/ j \in 1..(i - 1)
    BY <2>1
  <2>6. i \notin front /\ 1..(i - 1) \subseteq 1..i
    BY <2>1, <2>4
  <2> HIDE DEF front, whole
  <2>7. whole = front \cup {i}
    BY <2>2, <2>3, <2>4, <2>5, <2>6
  <2>8. IsFiniteSet(front)
    <3>1. IsFiniteSet(1..(i - 1)) /\ front \in SUBSET (1..(i - 1))
      BY <2>1, <2>4, FS_Interval
    <3> QED BY <3>1, FS_Subset
  <2>9. Cardinality(front) \in Nat /\ Cardinality(whole) = Cardinality(front) + 1
    BY <2>6, <2>7, <2>8, FS_AddElement, FS_CardinalityType
  <2>10. Cardinality(whole) % 2 = 1 <=> ~ (Cardinality(front) % 2 = 1)
    BY <2>9
  <2> QED BY <1>1, <1>4, <2>10 DEF front, whole
<1> QED BY <1>2, <1>3, <1>4

LEMMA WidthIs ==
  ASSUME NEW before \in Nat, NEW char
  PROVE  Width(before, char) \in Nat
<1>1. TabSize \in Nat \ {0}
  BY LocationAssumption
<1>2. before % TabSize \in 0..(TabSize - 1)
  BY <1>1
<1>3. TabSize - (before % TabSize) \in Nat
  BY <1>1, <1>2
<1> QED BY <1>3 DEF Width

LEMMA ColumnsAre ==
  ASSUME Len(Seen) \in Nat
  PROVE  /\ Columns[0] = 0
         /\ \A i \in 0..Len(Seen) : Columns[i] \in Nat
         /\ \A i \in 1..Len(Seen) :
              Columns[i] = IF Seen[i] \in Breaks THEN 0
                           ELSE Columns[i - 1] + Width(Columns[i - 1], Seen[i])
<1> DEFINE n == Len(Seen)
           Is(f) == f = [i \in 0..n |-> IF i = 0 \/ Seen[i] \in Breaks THEN 0
                                         ELSE f[i - 1] + Width(f[i - 1], Seen[i])]
           step == [i \in Nat |-> [c \in Nat |-> IF Seen[i] \in Breaks THEN 0 ELSE c + Width(c, Seen[i])]]
<1>1. Columns = CHOOSE f : Is(f)
  BY DEF Columns
<1>2. step \in [Nat -> [Nat -> Nat]]
  <2>1. ASSUME NEW i \in Nat, NEW c \in Nat
        PROVE  (IF Seen[i] \in Breaks THEN 0 ELSE c + Width(c, Seen[i])) \in Nat
    BY WidthIs
  <2> QED BY <2>1
<1>3. PICK g : Indexed(g, n, Nat, step, 0)
  <2>1. n \in Nat /\ 0 \in Nat
    OBVIOUS
  <2> HIDE DEF n, step
  <2> QED BY <1>2, <2>1, IndexedExists
<1>4. g \in [0..n -> Nat] /\ g[0] = 0 /\ \A i \in 1..n : g[i] = step[i][g[i - 1]]
  BY <1>3 DEF Indexed
<1>5. ASSUME NEW i \in 0..n
      PROVE  g[i] = IF i = 0 \/ Seen[i] \in Breaks THEN 0 ELSE g[i - 1] + Width(g[i - 1], Seen[i])
  <2>1. CASE i = 0
    BY <1>4, <2>1
  <2>2. CASE i # 0
    <3>1. i \in 1..n /\ i \in Nat /\ i - 1 \in 0..n
      BY <2>2
    <3>2. g[i] = step[i][g[i - 1]] /\ g[i - 1] \in Nat
      BY <1>4, <3>1
    <3> QED BY <2>2, <3>1, <3>2
  <2> QED BY <2>1, <2>2
<1>6. Is(g)
  <2>1. g = [i \in 0..n |-> g[i]]
    BY <1>4
  <2> QED BY <1>5, <2>1
<1>7. Is(Columns)
  <2> HIDE DEF Is
  <2> QED BY <1>1, <1>6
<1>8. ASSUME NEW i \in 0..n
      PROVE  Columns[i] = IF i = 0 \/ Seen[i] \in Breaks THEN 0
                          ELSE Columns[i - 1] + Width(Columns[i - 1], Seen[i])
  BY <1>7
<1> HIDE DEF Is
<1>9. \A i \in 0..n : Columns[i] \in Nat
  <2> DEFINE H == {i \in Nat : i \in 0..n => Columns[i] \in Nat}
  <2>1. 0 \in H
    BY <1>8
  <2>2. ASSUME NEW i \in Nat, i \in H PROVE i + 1 \in H
    <3> SUFFICES ASSUME i + 1 \in 0..n PROVE Columns[i + 1] \in Nat
      OBVIOUS
    <3>1. i \in 0..n /\ (i + 1) - 1 = i /\ i + 1 # 0
      OBVIOUS
    <3>2. Columns[i] \in Nat
      BY <2>2, <3>1
    <3>3. Width(Columns[i], Seen[i + 1]) \in Nat
      BY <3>2, WidthIs
    <3>4. Columns[i + 1] = IF Seen[i + 1] \in Breaks THEN 0
                           ELSE Columns[i] + Width(Columns[i], Seen[i + 1])
      BY <1>8, <3>1
    <3> QED BY <3>2, <3>3, <3>4
  <2>3. Nat \subseteq H
    <3> HIDE DEF H
    <3> QED BY <2>1, <2>2, SetInduction
  <2> QED BY <2>3
<1> QED BY <1>8, <1>9

\* The lines that have ended in the first i characters.
Lines(i) == Cardinality({j \in 1..i : EndsLine(j)})

LEMMA LinesAre ==
  /\ Lines(0) = 0
  /\ \A i \in Nat : Lines(i) \in Nat
  /\ \A i \in Nat \ {0} : Lines(i) = Lines(i - 1) + (IF EndsLine(i) THEN 1 ELSE 0)
<1> DEFINE ended(i) == {j \in 1..i : EndsLine(j)}
<1>1. ASSUME NEW i \in Nat PROVE IsFiniteSet(ended(i)) /\ Cardinality(ended(i)) \in Nat
  <2>1. IsFiniteSet(1..i) /\ ended(i) \in SUBSET (1..i)
    BY FS_Interval
  <2> HIDE DEF ended
  <2> QED BY <2>1, FS_Subset, FS_CardinalityType
<1>2. ended(0) = {}
  OBVIOUS
<1>3. Cardinality(ended(0)) = 0
  BY <1>2, FS_EmptySet
<1>4. ASSUME NEW i \in Nat \ {0}
      PROVE  Cardinality(ended(i)) = Cardinality(ended(i - 1)) + (IF EndsLine(i) THEN 1 ELSE 0)
  <2>1. i - 1 \in Nat /\ i \notin ended(i - 1) /\ \A j \in 1..i : j = i \/ j \in 1..(i - 1)
    OBVIOUS
  <2>2. EndsLine(i) => ended(i) = ended(i - 1) \cup {i}
    BY <2>1
  <2>3. ~ EndsLine(i) => ended(i) = ended(i - 1)
    BY <2>1
  <2>4. IsFiniteSet(ended(i - 1)) /\ Cardinality(ended(i - 1)) \in Nat
    BY <1>1, <2>1
  <2> HIDE DEF ended
  <2>5. Cardinality(ended(i - 1) \cup {i}) = Cardinality(ended(i - 1)) + 1
    BY <2>1, <2>4, FS_AddElement
  <2> QED BY <2>2, <2>3, <2>4, <2>5
<1> QED BY <1>1, <1>3, <1>4 DEF Lines
-----------------------------------------------------------------------------
(***************************************************************************)
(* One turn of the loop of Stamp                                           *)
(***************************************************************************)
\* The cursor is behind the first i characters, and not between the halves of a pair.
Behinds(c, i) ==
  /\ c \in [p : Nat, row : Nat, col : Nat]
  /\ i \in 0..Len(Seen)
  /\ c.p = Behind(Seen, i) + 1 /\ c.row = Lines(i) /\ c.col = Columns[i]
  /\ i < Len(Seen) /\ Seen[i + 1] \in Breaks => EndsLine(i + 1)

LEMMA GlyphIs ==
  ASSUME NEW g \in Glyphs, g # <<>>
  PROVE  /\ g \in Seq(Bytes) /\ g[1] \in Bytes /\ Len(g) \in 1..3
         /\ g[1] = "CR" <=> g = CR
         /\ g[1] = "LF" <=> g = LF
         /\ g[1] = "TAB" <=> g = <<"TAB">>
         /\ g[1] \in {"CR", "LF", "TAB"} => Len(g) = 1
         /\ Len(g) = IF encoding = "UTF8" THEN utf8Length(g[1]) ELSE 1
         /\ encoding = "UTF8" /\ g[1] = "EF" => Len(g) = 3 /\ g = <<g[1], g[2], g[3]>>
         /\ g \in Invisible => encoding = "UTF8" /\ g[1] = "EF"
<1>1. CASE encoding = "UTF8"
  <2>1. /\ g \in Seq(Bytes) /\ Len(g) \in 1..3
        /\ g \in {CR, LF, <<"x">>, <<"TAB">>, <<"C2", "BB">>, <<"EF", "BB", "BB">>,
                  <<"EF", "BB", "BF">>, <<"EF", "BF", "BE">>, <<"EF", "BF", "BF">>}
    BY <1>1, CharactersAre DEF Glyphs
  <2>2. CASE g \in {CR, LF, <<"x">>, <<"TAB">>}
    BY <1>1, <2>1, <2>2 DEF Bytes, CR, LF, utf8Length, Invisible
  <2>3. CASE g = <<"C2", "BB">>
    BY <1>1, <2>1, <2>3 DEF Bytes, CR, LF, utf8Length, Invisible
  <2>4. CASE g \in {<<"EF", "BB", "BB">>, <<"EF", "BB", "BF">>, <<"EF", "BF", "BE">>,
                    <<"EF", "BF", "BF">>}
    BY <1>1, <2>1, <2>4 DEF Bytes, CR, LF, utf8Length, Invisible
  <2> QED BY <2>1, <2>2, <2>3, <2>4
<1>2. CASE encoding # "UTF8"
  <2>1. PICK b \in Bytes : g = <<b>>
    BY <1>2 DEF Glyphs
  <2>2. g \in Seq(Bytes) /\ g[1] = b /\ Len(g) = 1
    BY <2>1
  <2>3. g \notin Invisible
    BY <2>1 DEF Invisible
  <2> QED BY <1>2, <2>1, <2>2, <2>3 DEF CR, LF
<1> QED BY <1>1, <1>2

LEMMA TabArithmetic ==
  ASSUME NEW x \in Nat, NEW t \in Nat \ {0}
  PROVE  (x \div t + 1) * t = x + (t - (x % t))
BY SMT

\* Each character starts in the text, and is all there unless it is the last one.
LEMMA GlyphAt ==
  ASSUME Laid, NEW m \in 1..Len(Seen)
  PROVE  /\ Behind(Seen, m - 1) \in Nat /\ Behind(Seen, m) \in Nat
         /\ Behind(Seen, m) = Behind(Seen, m - 1) + Len(Seen[m])
         /\ Behind(Seen, m - 1) + 1 <= Len(bytes)
         /\ Byte(Behind(Seen, m - 1) + 1) = Seen[m][1]
         /\ \A k \in 1..Len(Seen[m]) :
              Byte(Behind(Seen, m - 1) + k) # "zero" => Byte(Behind(Seen, m - 1) + k) = Seen[m][k]
         /\ m < Len(Seen) => Behind(Seen, m) < Len(bytes)
<1> DEFINE n == Len(Seen)
           a == Behind(Seen, m - 1)
           g == Seen[m]
<1>1. n \in Nat \ {0} /\ Len(bytes) \in Nat /\ m \in Nat \ {0}
  BY DEF Laid
<1>2. \A j \in 1..n : Seen[j] # <<>>
  BY DEF Laid
<1>3. /\ a \in Nat /\ Behind(Seen, m) \in Nat /\ Behind(Seen, m) = a + Len(g)
  BY <1>1, BehindStep DEF Laid
<1>4. \A i, j \in 0..n : i < j => Behind(Seen, i) < Behind(Seen, j)
  BY <1>2, BehindRises DEF Laid
<1>5. Behind(Seen, n - 1) < Len(bytes) /\ Behind(Seen, n - 1) \in Nat
  BY <1>1, BehindStep DEF Laid
<1>6. ASSUME NEW j \in 0..(n - 1) PROVE Behind(Seen, j) < Len(bytes)
  <2>1. j = n - 1 \/ j < n - 1
    BY <1>1
  <2>2. j \in 0..n /\ n - 1 \in 0..n /\ Behind(Seen, j) \in Nat
    BY <1>1, BehindStep DEF Laid
  <2>3. j < n - 1 => Behind(Seen, j) < Behind(Seen, n - 1)
    BY <1>4, <2>2
  <2> QED BY <1>1, <1>5, <2>1, <2>2, <2>3
<1>7. a + 1 <= Len(bytes)
  <2>1. a < Len(bytes)
    BY <1>1, <1>6
  <2> HIDE DEF a
  <2> QED BY <1>1, <1>3, <2>1
<1>8. m < n => Behind(Seen, m) < Len(bytes)
  BY <1>1, <1>6
<1>9. g # <<>> /\ g \in Glyphs
  BY DEF Laid
<1>10. Len(g) \in 1..3
  BY <1>9, GlyphIs
<1>11. ASSUME NEW k \in 1..Len(g), Byte(a + k) # "zero"
       PROVE  Byte(a + k) = g[k]
  <2>1. a + k \in DOMAIN bytes /\ Byte(a + k) = bytes[a + k]
    BY <1>11 DEF Byte
  <2>2. a + k <= Len(bytes)
    BY <2>1 DEF Laid
  <2>3. bytes[a + k] = g[k]
    BY <2>2 DEF Laid
  <2> QED BY <2>1, <2>3
<1>12. Byte(a + 1) = g[1]
  <2>1. 1 \in 1..Len(g)
    BY <1>10
  <2>2. bytes[a + 1] = g[1]
    BY <1>7, <2>1 DEF Laid
  <2>3. a + 1 \in DOMAIN bytes
    <3> HIDE DEF a
    <3> QED BY <1>1, <1>3, <1>7 DEF Laid
  <2> QED BY <2>2, <2>3 DEF Byte
<1> QED BY <1>3, <1>7, <1>8, <1>11, <1>12

LEMMA ByteBehind ==
  ASSUME Laid, NEW q \in Int, q > Len(bytes)
  PROVE  Byte(q) = "zero"
BY DEF Laid, Byte

LEMMA ByteIs ==
  ASSUME Laid, NEW q \in Int
  PROVE  Byte(q) = "zero" <=> q \notin 1..Len(bytes)
<1>1. q \in DOMAIN bytes <=> q \in 1..Len(bytes)
  BY DEF Laid
<1>2. q \in DOMAIN bytes => bytes[q] \in Bytes
  BY <1>1, ElementOfSeq DEF Laid
<1>3. "zero" \notin Bytes
  BY DEF Bytes
<1> QED BY <1>1, <1>2, <1>3 DEF Byte

LEMMA NotAtEnd ==
  ASSUME Laid, NEW c, NEW i, Behinds(c, i), Byte(c.p) # "zero"
  PROVE  /\ i + 1 \in 1..Len(Seen) /\ (i + 1) - 1 = i /\ i \in Nat
         /\ i < Len(Seen)
<1>1. i \in Nat /\ Len(Seen) \in Nat /\ i <= Len(Seen) /\ c.p = Behind(Seen, i) + 1
  BY DEF Laid, Behinds
<1>2. i # Len(Seen)
  <2> SUFFICES ASSUME i = Len(Seen) PROVE FALSE
    OBVIOUS
  <2>1. Behind(Seen, i) \in Nat /\ Len(bytes) <= Behind(Seen, i) /\ Len(bytes) \in Nat
    BY <1>1, BehindStep DEF Laid
  <2>2. c.p \in Int /\ c.p > Len(bytes)
    BY <1>1, <2>1
  <2> QED BY <2>2, ByteBehind
<1> QED BY <1>1, <1>2

\* A line break, with the other half of a pair if it is one.
LEMMA BreakMoves ==
  ASSUME Laid, NEW c, NEW i, Behinds(c, i), Byte(c.p) \in {"CR", "LF"}
  PROVE  \E j \in (i + 1)..Len(Seen) : Behinds(Past(c), j)
<1> DEFINE m == i + 1
           n == Len(Seen)
           g == Seen[m]
           pair == (Byte(c.p) = "CR" /\ Byte(c.p + 1) = "LF") \/ (Byte(c.p) = "LF" /\ Byte(c.p + 1) = "CR")
           other == m < n /\ Seen[m + 1] \in Breaks /\ Seen[m + 1] # g
<1>1. m \in 1..n /\ m - 1 = i /\ i \in Nat /\ n \in Nat /\ m \in Nat \ {0}
  BY NotAtEnd DEF Laid
<1>2. /\ c \in [p : Nat, row : Nat, col : Nat]
      /\ c.p = Behind(Seen, i) + 1 /\ c.row = Lines(i) /\ c.col = Columns[i]
      /\ g \in Breaks => EndsLine(m)
  BY <1>1 DEF Behinds
<1>3. /\ Behind(Seen, i) \in Nat /\ Behind(Seen, m) \in Nat
      /\ Behind(Seen, m) = Behind(Seen, i) + Len(g) /\ Byte(c.p) = g[1]
  BY <1>1, <1>2, GlyphAt
<1>4. g \in Glyphs /\ g # <<>>
  BY <1>1 DEF Laid
<1>5. g \in Breaks /\ Len(g) = 1 /\ g = (IF Byte(c.p) = "CR" THEN CR ELSE LF)
  BY <1>3, <1>4, GlyphIs DEF Breaks
<1>6. EndsLine(m) /\ c.p + 1 = Behind(Seen, m) + 1
  BY <1>2, <1>3, <1>5
<1>7. Lines(m) = Lines(i) + 1 /\ Lines(m) \in Nat
  BY <1>1, <1>6, LinesAre
<1>8. Columns[m] = 0
  BY <1>1, <1>5, ColumnsAre
<1>9. Past(c) = [p |-> c.p + (IF pair THEN 2 ELSE 1), row |-> c.row + 1, col |-> 0]
  <2>1. <<Byte(c.p), Byte(c.p + 1), Byte(c.p + 2)>> \notin Invisible
    BY DEF Invisible
  <2> QED BY <2>1 DEF Past
<1>10. pair <=> other
  <2>1. CASE m < n
    <3> DEFINE h == Seen[m + 1]
    <3>1. m + 1 \in 1..n /\ (m + 1) - 1 = m
      BY <1>1, <2>1
    <3>2. h \in Glyphs /\ h # <<>>
      BY <3>1 DEF Laid
    <3>3. Byte(c.p + 1) = h[1]
      BY <1>6, <3>1, GlyphAt
    <3>4. (h[1] = "CR" <=> h = CR) /\ (h[1] = "LF" <=> h = LF)
      BY <3>2, GlyphIs
    <3>5. CR # LF
      BY DEF CR, LF
    <3> HIDE DEF g, h
    <3> QED BY <1>5, <2>1, <3>3, <3>4, <3>5 DEF h, Breaks
  <2>2. CASE ~ (m < n)
    <3>1. m = n
      BY <1>1, <2>2
    <3>2. Len(bytes) <= Behind(Seen, m) /\ Len(bytes) \in Nat
      BY <3>1 DEF Laid
    <3>3. c.p + 1 \in Int /\ c.p + 1 > Len(bytes)
      BY <1>3, <1>6, <3>2
    <3>4. Byte(c.p + 1) = "zero"
      BY <3>3, ByteBehind
    <3> QED BY <2>2, <3>4
  <2> QED BY <2>1, <2>2
<1>11. CASE ~ other
  <2>1. Past(c).p = Behind(Seen, m) + 1 /\ Past(c).row = Lines(m) /\ Past(c).col = Columns[m]
        /\ Past(c) \in [p : Nat, row : Nat, col : Nat]
    BY <1>2, <1>3, <1>6, <1>7, <1>8, <1>9, <1>10, <1>11
  <2>2. ASSUME m < n, Seen[m + 1] \in Breaks PROVE EndsLine(m + 1)
    <3>1. Seen[m + 1] = g /\ m + 1 \in Nat \ {0} /\ (m + 1) - 1 = m
      BY <1>1, <1>11, <2>2
    <3> QED BY <2>2, <3>1, EndsLineIs
  <2>3. Behinds(Past(c), m)
    BY <1>1, <2>1, <2>2 DEF Behinds
  <2> QED BY <1>1, <2>3
<1>12. CASE other
  <2>1. m + 1 \in 1..n /\ (m + 1) - 1 = m /\ m + 1 \in Nat \ {0} /\ m + 1 > 1
    BY <1>1, <1>12
  <2>2. ~ EndsLine(m + 1)
    BY <1>5, <1>6, <1>12, <2>1, EndsLineIs
  <2>3. Lines(m + 1) = Lines(m)
    BY <1>7, <2>1, <2>2, LinesAre
  <2>4. Columns[m + 1] = 0
    BY <1>1, <1>12, <2>1, ColumnsAre
  <2>5. Seen[m + 1] \in Glyphs /\ Seen[m + 1] # <<>>
    BY <2>1 DEF Laid
  <2>6. Len(Seen[m + 1]) = 1
    BY <1>12, <2>5, GlyphIs DEF Breaks
  <2>7. Behind(Seen, m + 1) = Behind(Seen, m) + 1
    BY <2>1, <2>6, GlyphAt
  <2>8. /\ Past(c).p = Behind(Seen, m + 1) + 1 /\ Past(c).row = Lines(m + 1)
        /\ Past(c).col = Columns[m + 1] /\ Past(c) \in [p : Nat, row : Nat, col : Nat]
    <3>1. Past(c) = [p |-> c.p + 2, row |-> c.row + 1, col |-> 0]
      BY <1>9, <1>10, <1>12
    <3>2. c.p + 2 = Behind(Seen, m + 1) + 1 /\ c.p + 2 \in Nat /\ c.row + 1 = Lines(m) /\ c.row + 1 \in Nat
      BY <1>2, <1>3, <1>6, <1>7, <2>7
    <3> HIDE DEF m, other
    <3> QED BY <2>3, <2>4, <3>1, <3>2
  <2>9. ASSUME m + 1 < n, Seen[(m + 1) + 1] \in Breaks PROVE EndsLine((m + 1) + 1)
    <3>1. (m + 1) + 1 \in Nat \ {0} /\ ((m + 1) + 1) - 1 = m + 1 /\ (m + 1) + 1 > 1
      BY <1>1
    <3> QED BY <1>12, <2>2, <2>9, <3>1, EndsLineIs
  <2>10. Behinds(Past(c), m + 1)
    <3>1. m + 1 \in 0..n
      BY <2>1
    <3> QED BY <2>8, <2>9, <3>1 DEF Behinds
  <2> QED BY <2>1, <2>10
<1> QED BY <1>11, <1>12

\* Any other character.
LEMMA GlyphMoves ==
  ASSUME Laid, NEW c, NEW i, Behinds(c, i), Byte(c.p) # "zero", Byte(c.p) \notin {"CR", "LF"},
         ~ Stuck(c)
  PROVE  \E j \in (i + 1)..Len(Seen) : Behinds(Past(c), j)
<1> DEFINE m == i + 1
           n == Len(Seen)
           g == Seen[m]
           b == Byte(c.p)
           triple == <<b, Byte(c.p + 1), Byte(c.p + 2)>>
<1>1. m \in 1..n /\ m - 1 = i /\ i \in Nat /\ n \in Nat /\ m \in Nat \ {0} /\ i \in 0..n
  BY NotAtEnd DEF Laid
<1>2. /\ c \in [p : Nat, row : Nat, col : Nat]
      /\ c.p = Behind(Seen, i) + 1 /\ c.row = Lines(i) /\ c.col = Columns[i]
  BY <1>1 DEF Behinds
<1>3. /\ Behind(Seen, i) \in Nat /\ Behind(Seen, m) \in Nat
      /\ Behind(Seen, m) = Behind(Seen, i) + Len(g) /\ b = g[1]
      /\ \A k \in 1..Len(g) : Byte(Behind(Seen, i) + k) # "zero" => Byte(Behind(Seen, i) + k) = g[k]
  BY <1>1, <1>2, GlyphAt
<1>4. g \in Glyphs /\ g # <<>>
  BY <1>1 DEF Laid
<1>5. /\ Len(g) \in 1..3
      /\ g \notin Breaks
      /\ b = "TAB" <=> g = <<"TAB">>
      /\ b = "TAB" => Len(g) = 1
      /\ Len(g) = IF encoding = "UTF8" THEN utf8Length(b) ELSE 1
      /\ encoding = "UTF8" /\ b = "EF" => Len(g) = 3 /\ g = <<g[1], g[2], g[3]>>
      /\ g \in Invisible => encoding = "UTF8" /\ b = "EF"
  <2>1. b # "CR" /\ b # "LF"
    OBVIOUS
  <2> QED BY <1>3, <1>4, <2>1, GlyphIs DEF Breaks
<1>6. ~ EndsLine(m)
  BY <1>1, <1>5, EndsLineIs
<1>7. Lines(m) = Lines(i) /\ Lines(i) \in Nat
  BY <1>1, <1>6, LinesAre
<1>8. Columns[m] = Columns[i] + Width(Columns[i], g) /\ Columns[i] \in Nat /\ Columns[m] \in Nat
  <2>1. m \in 0..n
    BY <1>1
  <2> QED BY <1>1, <1>5, <2>1, ColumnsAre
<1>9. encoding = "UTF8" => (triple \in Invisible <=> g \in Invisible)
  <2> SUFFICES ASSUME encoding = "UTF8" PROVE triple \in Invisible <=> g \in Invisible
    OBVIOUS
  <2>1. CASE b = "EF"
    <3>1. Byte(c.p + 1) # "zero" /\ Byte(c.p + 2) # "zero"
      BY <2>1 DEF Stuck
    <3>2. c.p + 1 = Behind(Seen, i) + 2 /\ c.p + 2 = Behind(Seen, i) + 3 /\ 2 \in 1..Len(g) /\ 3 \in 1..Len(g)
      BY <1>2, <1>3, <1>5, <2>1
    <3>3. Byte(c.p + 1) = g[2] /\ Byte(c.p + 2) = g[3]
      BY <1>3, <3>1, <3>2
    <3>4. triple = g
      BY <1>3, <1>5, <2>1, <3>3
    <3> QED BY <3>4
  <2>2. CASE b # "EF"
    <3>1. triple \notin Invisible
      BY <2>2 DEF Invisible
    <3> QED BY <1>5, <2>2, <3>1
  <2> QED BY <2>1, <2>2
<1>10. /\ Past(c).p = c.p + Len(g) /\ Past(c).row = c.row /\ Past(c).col = Columns[m]
       /\ Past(c) \in [p : Nat, row : Nat, col : Nat]
  <2> HIDE DEF b, g, triple, m, n
  <2>1. CASE b = "TAB"
    <3>1. Past(c) = [c EXCEPT !.p = @ + 1, !.col = (@ \div TabSize + 1) * TabSize]
      <4>1. <<Byte(c.p), Byte(c.p + 1), Byte(c.p + 2)>> \notin Invisible
        BY <2>1 DEF Invisible, b
      <4> QED BY <2>1, <4>1 DEF Past, b
    <3>2. Width(c.col, g) = TabSize - (c.col % TabSize)
      BY <1>5, <2>1 DEF Width
    <3>3. (c.col \div TabSize + 1) * TabSize = c.col + (TabSize - (c.col % TabSize))
      BY <1>2, LocationAssumption, TabArithmetic
    <3>4. (c.col \div TabSize + 1) * TabSize = Columns[m]
      BY <1>2, <1>8, <3>2, <3>3
    <3>5. c.p + Len(g) = c.p + 1 /\ c.p + 1 \in Nat
      BY <1>2, <1>5, <2>1
    <3>7. Past(c) = [p |-> c.p + 1, row |-> c.row, col |-> Columns[m]]
      BY <1>2, <3>1, <3>4
    <3> QED BY <1>2, <1>8, <3>5, <3>7
  <2>2. CASE encoding = "UTF8" /\ g \in Invisible
    <3>1. triple \in Invisible /\ b = "EF" /\ Len(g) = 3
      BY <1>5, <1>9, <2>2
    <3>2. Past(c) = [c EXCEPT !.p = @ + 3]
      BY <2>2, <3>1 DEF Past, b, triple
    <3>3. g # <<"TAB">>
      BY <1>5, <3>1
    <3>4. Width(c.col, g) = 0
      BY <2>2, <3>3 DEF Width
    <3> QED BY <1>2, <1>8, <3>1, <3>2, <3>4
  <2>3. CASE b # "TAB" /\ ~ (encoding = "UTF8" /\ g \in Invisible)
    <3>1. b # "TAB" /\ b \notin {"CR", "LF"} /\ ~ (encoding = "UTF8" /\ triple \in Invisible)
      BY <1>9, <2>3 DEF b
    <3>2. Past(c) = [c EXCEPT !.p = @ + (IF encoding = "UTF8" THEN utf8Length(b) ELSE 1), !.col = @ + 1]
      BY <3>1 DEF Past, b, triple
    <3>3. g # <<"TAB">> /\ g \notin Invisible
      BY <1>5, <2>3
    <3>4. Width(c.col, g) = 1
      BY <3>3 DEF Width
    <3>5. Past(c) = [c EXCEPT !.p = @ + Len(g), !.col = @ + 1]
      BY <1>5, <3>2
    <3>6. c.p + Len(g) \in Nat /\ c.col + 1 = Columns[m]
      BY <1>2, <1>5, <1>8, <3>4
    <3>7. Past(c) = [p |-> c.p + Len(g), row |-> c.row, col |-> Columns[m]]
      BY <1>2, <3>5, <3>6
    <3> QED BY <1>2, <1>8, <3>6, <3>7
  <2> QED BY <2>1, <2>2, <2>3
<1>11. Past(c).p = Behind(Seen, m) + 1
  BY <1>2, <1>3, <1>5, <1>10
<1>12. ASSUME m < n, Seen[m + 1] \in Breaks PROVE EndsLine(m + 1)
  <2>1. m + 1 \in Nat \ {0} /\ (m + 1) - 1 = m
    BY <1>1
  <2> QED BY <1>5, <1>12, <2>1, EndsLineIs
<1>13. Behinds(Past(c), m)
  <2>1. m \in 0..n
    BY <1>1
  <2> QED BY <1>2, <1>7, <1>10, <1>11, <1>12, <2>1 DEF Behinds
<1> QED BY <1>1, <1>13
-----------------------------------------------------------------------------
(***************************************************************************)
(* The loop of Stamp                                                       *)
(***************************************************************************)
Cursors == [p : Nat, row : Nat, col : Nat]

LEMMA PastIs ==
  ASSUME NEW c \in Cursors
  PROVE  Past(c) \in Cursors
<1>1. c.p \in Nat /\ c.row \in Nat /\ c.col \in Nat /\ TabSize \in Nat \ {0}
  BY LocationAssumption DEF Cursors
<1>2. (c.col \div TabSize + 1) * TabSize \in Nat
  <2>1. (c.col \div TabSize + 1) * TabSize = c.col + (TabSize - (c.col % TabSize))
    BY <1>1, TabArithmetic
  <2>2. c.col % TabSize \in 0..(TabSize - 1)
    BY <1>1
  <2> QED BY <1>1, <2>1, <2>2
<1>3. utf8Length(Byte(c.p)) \in Nat
  BY DEF utf8Length
<1>4. Byte(c.p) \in {"CR", "LF", "TAB"} => <<Byte(c.p), Byte(c.p + 1), Byte(c.p + 2)>> \notin Invisible
  BY DEF Invisible
<1> DEFINE new == (c.col \div TabSize + 1) * TabSize
<1>5. CASE Byte(c.p) \in {"CR", "LF"}
  BY <1>1, <1>4, <1>5 DEF Past, Cursors
<1>6. CASE Byte(c.p) = "TAB"
  <2>1. Past(c) = [c EXCEPT !.p = @ + 1, !.col = new]
    BY <1>4, <1>6 DEF Past
  <2> HIDE DEF new
  <2>2. Past(c) = [p |-> c.p + 1, row |-> c.row, col |-> new]
    BY <2>1 DEF Cursors
  <2>3. new \in Nat /\ c.p + 1 \in Nat
    BY <1>1, <1>2 DEF new
  <2> QED BY <1>1, <2>2, <2>3 DEF Cursors
<1>7. CASE Byte(c.p) \notin {"CR", "LF", "TAB"}
  <2> DEFINE size == IF encoding = "UTF8" THEN utf8Length(Byte(c.p)) ELSE 1
  <2>1. Past(c) = [c EXCEPT !.p = @ + 3] \/ Past(c) = [c EXCEPT !.p = @ + size, !.col = @ + 1]
    BY <1>7 DEF Past
  <2>2. size \in Nat
    BY <1>3
  <2> HIDE DEF size
  <2>3. \/ Past(c) = [p |-> c.p + 3, row |-> c.row, col |-> c.col]
        \/ Past(c) = [p |-> c.p + size, row |-> c.row, col |-> c.col + 1]
    BY <2>1 DEF Cursors
  <2>4. c.p + 3 \in Nat /\ c.p + size \in Nat /\ c.col + 1 \in Nat
    BY <1>1, <2>2
  <2> QED BY <1>1, <2>3, <2>4 DEF Cursors
<1> QED BY <1>5, <1>6, <1>7

\* A turn leaves the cursor where it is.
Stops(c, now) == c.p >= now \/ Byte(c.p) = "zero" \/ Stuck(c)

LEMMA TurnMoves ==
  ASSUME Laid, NEW c, NEW i, Behinds(c, i), NEW now \in Nat
  PROVE  \E j \in i..Len(Seen) :
           /\ Behinds(Turn(c, now), j)
           /\ Stops(c, now) => Turn(c, now) = c
           /\ ~ Stops(c, now) => Turn(c, now).p > c.p
<1>1. i \in 0..Len(Seen) /\ Len(Seen) \in Nat /\ c.p = Behind(Seen, i) + 1
  BY DEF Behinds, Laid
<1>2. CASE Stops(c, now)
  <2>1. Turn(c, now) = c
    BY <1>2 DEF Turn, Stops
  <2>2. i \in i..Len(Seen)
    BY <1>1
  <2> QED BY <1>2, <2>1, <2>2
<1>3. CASE ~ Stops(c, now)
  <2>1. Turn(c, now) = Past(c)
    BY <1>3 DEF Turn, Stops
  <2>2. PICK j \in (i + 1)..Len(Seen) : Behinds(Past(c), j)
    BY <1>3, BreakMoves, GlyphMoves DEF Stops
  <2>3. j \in 0..Len(Seen) /\ i < j /\ j \in i..Len(Seen)
    BY <1>1, <2>2
  <2>4. Behind(Seen, i) < Behind(Seen, j)
    BY <1>1, <2>3, BehindRises DEF Laid
  <2>5. Behind(Seen, i) \in Nat /\ Behind(Seen, j) \in Nat
    BY <1>1, <2>3, BehindStep DEF Laid
  <2>6. Past(c).p = Behind(Seen, j) + 1
    BY <2>2 DEF Behinds
  <2> QED BY <1>1, <1>3, <2>1, <2>2, <2>3, <2>4, <2>5, <2>6
<1> QED BY <1>2, <1>3

\* The loop comes to its end at a character from where it can go no further.
LEMMA WalkedIs ==
  ASSUME Laid, NEW now \in Nat, NEW i, Behinds([p |-> stamp + 1, row |-> row, col |-> col], i)
  PROVE  \E j : Behinds(Walked(now), j) /\ Stops(Walked(now), now)
<1> DEFINE start == [p |-> stamp + 1, row |-> row, col |-> col]
           step == [n \in Nat |-> [c \in Cursors |-> Turn(c, now)]]
           Is(f) == f = [n \in 0..now |-> IF n = 0 THEN start ELSE Turn(f[n - 1], now)]
           w == CHOOSE f : Is(f)
<1>1. start \in Cursors
  BY DEF Behinds, Cursors
<1>2. step \in [Nat -> [Cursors -> Cursors]]
  <2>1. ASSUME NEW c \in Cursors PROVE Turn(c, now) \in Cursors
    BY PastIs DEF Turn
  <2> QED BY <2>1
<1>3. PICK g : Indexed(g, now, Cursors, step, start)
  <2> HIDE DEF start, step
  <2> QED BY <1>1, <1>2, IndexedExists
<1>4. g \in [0..now -> Cursors] /\ g[0] = start /\ \A n \in 1..now : g[n] = step[n][g[n - 1]]
  BY <1>3 DEF Indexed
<1>5. ASSUME NEW n \in 0..now PROVE g[n] = IF n = 0 THEN start ELSE Turn(g[n - 1], now)
  <2> HIDE DEF start
  <2>1. CASE n = 0
    BY <1>4, <2>1
  <2>2. CASE n # 0
    <3>1. n \in 1..now /\ n \in Nat /\ n - 1 \in 0..now
      BY <2>2
    <3>2. g[n] = step[n][g[n - 1]] /\ g[n - 1] \in Cursors
      BY <1>4, <3>1
    <3> QED BY <2>2, <3>1, <3>2
  <2> QED BY <2>1, <2>2
<1>6. Is(g)
  <2> HIDE DEF start, step
  <2>1. g = [n \in 0..now |-> g[n]]
    BY <1>4
  <2> QED BY <1>5, <2>1
<1>7. Is(w)
  <2> HIDE DEF Is
  <2> QED BY <1>6
<1>8. Walked(now) = w[now]
  BY DEF Walked
<1> HIDE DEF w, start
<1>9. w[0] = start /\ \A n \in 1..now : w[n] = Turn(w[n - 1], now)
  BY <1>7
<1> HIDE DEF Is, step
<1> DEFINE Good(n) == \E j : Behinds(w[n], j) /\ (Stops(w[n], now) \/ w[n].p > n)
           H == {n \in Nat : n \in 0..now => Good(n)}
<1>10. 0 \in H
  <2>1. Behinds(start, i) /\ start.p = stamp + 1
    BY DEF start
  <2>2. start.p = Behind(Seen, i) + 1 /\ i \in 0..Len(Seen)
    BY <2>1 DEF Behinds
  <2>3. Behind(Seen, i) \in Nat
    BY <2>2, BehindStep DEF Laid
  <2>4. start.p > 0
    BY <2>2, <2>3
  <2>5. Good(0)
    BY <1>9, <2>1, <2>4
  <2> QED BY <2>5
<1>11. ASSUME NEW n \in Nat, n \in H PROVE n + 1 \in H
  <2> SUFFICES ASSUME n + 1 \in 0..now PROVE Good(n + 1)
    OBVIOUS
  <2>1. n \in 0..now /\ n + 1 \in 1..now /\ (n + 1) - 1 = n
    OBVIOUS
  <2>2. PICK j : Behinds(w[n], j) /\ (Stops(w[n], now) \/ w[n].p > n)
    BY <1>11, <2>1
  <2>3. w[n + 1] = Turn(w[n], now)
    BY <1>9, <2>1
  <2>4. PICK k \in j..Len(Seen) :
          /\ Behinds(Turn(w[n], now), k)
          /\ Stops(w[n], now) => Turn(w[n], now) = w[n]
          /\ ~ Stops(w[n], now) => Turn(w[n], now).p > w[n].p
    BY <2>2, TurnMoves
  <2>5. w[n].p \in Nat /\ w[n + 1].p \in Nat
    BY <2>2, <2>3, <2>4 DEF Behinds
  <2>6. Stops(w[n + 1], now) \/ w[n + 1].p > n + 1
    BY <2>2, <2>3, <2>4, <2>5
  <2> QED BY <2>3, <2>4, <2>6
<1>12. Nat \subseteq H
  <2> HIDE DEF H
  <2> QED BY <1>10, <1>11, SetInduction
<1>13. Good(now)
  <2>1. now \in H /\ now \in 0..now
    <3> HIDE DEF H
    <3> QED BY <1>12
  <2> HIDE DEF Good
  <2> QED BY <2>1
<1>14. PICK j : Behinds(w[now], j) /\ (Stops(w[now], now) \/ w[now].p > now)
  BY <1>13
<1>15. w[now].p \in Nat
  BY <1>14 DEF Behinds
<1>16. Stops(w[now], now)
  BY <1>14, <1>15 DEF Stops
<1> QED BY <1>8, <1>14, <1>16
-----------------------------------------------------------------------------
(***************************************************************************)
(* The location                                                            *)
(***************************************************************************)
LEMMA StampedIs ==
  ASSUME FileRead, NEW now \in Stamped
  PROVE  now \in Nat /\ now <= Len(bytes) + 1
<1>1. Len(bytes) \in Nat
  BY CharsAre
<1>2. CASE now = Len(bytes) + 1
  BY <1>1, <1>2
<1>3. CASE \E i \in 0..Len(chars) - 1 : now = 1 + Behind(chars, i)
  <2>1. PICK i \in 0..Len(chars) - 1 : now = 1 + Behind(chars, i)
    BY <1>3
  <2> DEFINE n == Len(chars)
  <2>2. n \in Nat /\ i \in 0..n /\ n - 1 \in 0..n /\ n \in 1..n /\ (i = n - 1 \/ i < n - 1)
    BY <2>1, CharsAre
  <2>3. Behind(chars, i) \in Nat /\ Behind(chars, n - 1) \in Nat
        /\ Behind(chars, n) = Behind(chars, n - 1) + Len(chars[n])
        /\ Behind(chars, n) = Len(FlattenSeq(chars))
    BY <2>2, CharsAre, BehindStep
  <2>4. i < n - 1 => Behind(chars, i) < Behind(chars, n - 1)
    BY <2>2, CharsAre, BehindRises
  <2>5. Len(bytes) = Len(FlattenSeq(chars)) - cut /\ cut < Len(chars[n]) /\ cut \in Nat
    <3>1. chars # <<>> /\ n = Len(chars)
      BY <2>2
    <3> QED BY <3>1, CharsAre
  <2>6. Len(chars[n]) \in Nat
    BY <2>2, CharsAre, CharactersAre
  <2> HIDE DEF n
  <2> QED BY <1>1, <2>1, <2>2, <2>3, <2>4, <2>5, <2>6
<1> QED BY <1>2, <1>3 DEF Stamped, Behind

\* Columns, said of a value: its text does not change.
ColumnsOf(seen) ==
  LET column[i \in 0..Len(seen)] ==
        IF i = 0 \/ seen[i] \in Breaks THEN 0
        ELSE column[i - 1] + Width(column[i - 1], seen[i])
  IN  column

LEMMA TextStays ==
  ASSUME UNCHANGED <<file, chars, cut, encoding>>
  PROVE  /\ bytes' = bytes /\ Seen' = Seen /\ FileRead' = FileRead
         /\ Columns' = Columns
         /\ \A i : EndsLine(i)' = EndsLine(i)
         /\ \A i : Lines(i)' = Lines(i)
<1>1. bytes' = bytes
  BY DEF bytes
<1>2. Seen' = Seen
  BY <1>1 DEF Seen
<1>3. FileRead' = FileRead
  BY DEF FileRead
<1>4. Columns = ColumnsOf(Seen)
  BY DEF Columns, ColumnsOf
<1>5. Columns' = ColumnsOf(Seen')
  BY DEF Columns, ColumnsOf
<1>6. ASSUME NEW i PROVE EndsLine(i)' = EndsLine(i)
  BY <1>2 DEF EndsLine
<1>7. ASSUME NEW i PROVE Lines(i)' = Lines(i)
  BY <1>6 DEF Lines
<1> QED BY <1>1, <1>2, <1>3, <1>4, <1>5, <1>6, <1>7

\* The loop stays where it is only at a character that the end of the text has cut off.
LEMMA OnlyCut ==
  ASSUME FileRead, Laid, NEW now \in Nat, now <= Len(bytes) + 1, NEW c, NEW i,
         Behinds(c, i), Stops(c, now), c.p < now
  PROVE  cut > 0 /\ Head(Last(chars)) = "EF"
<1> DEFINE n == Len(Seen)
           m == i + 1
           g == Seen[m]
           a == Behind(Seen, i)
<1>1. c.p \in Nat /\ i \in 0..n /\ n \in Nat /\ Len(bytes) \in Nat /\ c.p = a + 1
  BY DEF Behinds, Laid
<1>2. a \in Nat
  BY <1>1, BehindStep DEF Laid
<1> HIDE DEF a
<1>3. c.p \in 1..Len(bytes)
  BY <1>1, <1>2
<1>4. Byte(c.p) # "zero" /\ Stuck(c)
  BY <1>1, <1>3, ByteIs DEF Stops
<1>5. m \in 1..n /\ m - 1 = i
  BY <1>4, NotAtEnd
<1>6. /\ Behind(Seen, m) \in Nat /\ Behind(Seen, m) = a + Len(g) /\ Byte(c.p) = g[1]
      /\ m < n => Behind(Seen, m) < Len(bytes)
  BY <1>1, <1>5, GlyphAt DEF a
<1>7. g \in Glyphs /\ g # <<>>
  BY <1>5 DEF Laid
<1>8. encoding = "UTF8" /\ g[1] = "EF" /\ Len(g) = 3
  BY <1>4, <1>6, <1>7, GlyphIs DEF Stuck
<1>9. c.p + 1 \notin 1..Len(bytes) \/ c.p + 2 \notin 1..Len(bytes)
  <2>1. c.p + 1 \in Int /\ c.p + 2 \in Int
    BY <1>1
  <2> QED BY <1>4, <2>1, ByteIs DEF Stuck
<1>10. Behind(Seen, m) > Len(bytes)
  BY <1>1, <1>2, <1>6, <1>8, <1>9
<1>11. m = n
  BY <1>1, <1>5, <1>6, <1>10
<1>12. Seen = chars /\ Len(bytes) = Behind(Seen, n) - cut /\ cut \in Nat
  BY <1>8 DEF Laid
<1>13. cut > 0
  BY <1>1, <1>6, <1>10, <1>11, <1>12
<1>14. Last(chars) = g
  BY <1>11, <1>12 DEF Last
<1>15. Head(g) = g[1]
  BY <1>7
<1> QED BY <1>8, <1>13, <1>14, <1>15

\* Stamp has stopped behind the first i characters.
Stayed(i) == stamp \in Nat /\ Behinds([p |-> stamp + 1, row |-> row, col |-> col], i)

\* What LoadFile makes of a character.
Piece(s, i) ==
  CASE s[i] = LF /\ i > 1 /\ s[i - 1] = CR -> <<>>
    [] s[i] = CR -> <<LF>>
    [] OTHER -> <<s[i]>>

Pieces(s) == [i \in DOMAIN s |-> Piece(s, i)]

\* The invariant: the place that was kept is that of a whole character, in a row and column
\* that follow from all in front of it.
LocationInv ==
  /\ FileRead /\ chars \in {file, Normalised(file)}
  /\ \E i : Stayed(i)
  /\ StampReturns

LEMMA BehindsStays ==
  ASSUME UNCHANGED <<file, chars, cut, encoding>>, NEW c, NEW i, Behinds(c, i),
         c = [p |-> stamp' + 1, row |-> row', col |-> col'], stamp' \in Nat
  PROVE  Stayed(i)'
<1>1. /\ Seen' = Seen /\ Columns' = Columns
      /\ \A j : EndsLine(j)' = EndsLine(j)
      /\ \A j : Lines(j)' = Lines(j)
  BY TextStays
<1> DEFINE d == [p |-> stamp + 1, row |-> row, col |-> col]
<1>2. d' = c
  OBVIOUS
<1>3. /\ c \in [p : Nat, row : Nat, col : Nat]
      /\ i \in 0..Len(Seen)
      /\ c.p = Behind(Seen, i) + 1 /\ c.row = Lines(i) /\ c.col = Columns[i]
      /\ i < Len(Seen) /\ Seen[i + 1] \in Breaks => EndsLine(i + 1)
  BY DEF Behinds
<1>4. /\ d' \in [p : Nat, row : Nat, col : Nat]
      /\ i \in 0..Len(Seen')
      /\ d'.p = Behind(Seen', i) + 1 /\ d'.row = Lines(i)' /\ d'.col = Columns'[i]
      /\ i < Len(Seen') /\ Seen'[i + 1] \in Breaks => EndsLine(i + 1)'
  BY <1>1, <1>2, <1>3
<1> QED BY <1>4 DEF Stayed, Behinds

LEMMA LocationKept ==
  ASSUME LocationInv, [LocationNext]_locationVars
  PROVE  LocationInv'
<1>1. CASE UNCHANGED locationVars
  <2>1. UNCHANGED <<file, chars, cut, encoding>> /\ UNCHANGED <<stamp, row, col, hung>>
    BY <1>1 DEF locationVars
  <2>2. PICK i : Stayed(i)
    BY DEF LocationInv
  <2>3. Stayed(i)'
    BY <2>1, <2>2, BehindsStays DEF Stayed
  <2>4. FileRead' /\ (chars \in {file, Normalised(file)})'
    BY <2>1, TextStays DEF LocationInv
  <2>5. StampReturns'
    BY <2>1 DEF LocationInv, StampReturns
  <2> QED BY <2>3, <2>4, <2>5 DEF LocationInv
<1>2. ASSUME NEW now \in Stamped, Stamp(now) PROVE LocationInv'
  <2> DEFINE c == Walked(now)
  <2>1. UNCHANGED <<file, chars, cut, encoding>>
    BY <1>2 DEF Stamp
  <2>2. Laid
    BY Layout DEF LocationInv
  <2>3. now \in Nat /\ now <= Len(bytes) + 1
    BY StampedIs DEF LocationInv
  <2>4. PICK i : Stayed(i)
    BY DEF LocationInv
  <2>5. PICK j : Behinds(c, j) /\ Stops(c, now)
    BY <2>2, <2>3, <2>4, WalkedIs DEF Stayed
  <2> HIDE DEF c
  <2>6. FileRead' /\ (chars \in {file, Normalised(file)})'
    BY <2>1, TextStays DEF LocationInv
  <2>7. CASE c.p < now
    <3>1. hung' = TRUE /\ UNCHANGED <<stamp, row, col>>
      BY <1>2, <2>7 DEF Stamp, c
    <3>2. Stayed(i)'
      BY <2>1, <2>4, <3>1, BehindsStays DEF Stayed
    <3>3. StampReturns'
      <4>1. cut > 0 /\ Head(Last(chars)) = "EF"
        BY <2>2, <2>3, <2>5, <2>7, OnlyCut DEF LocationInv
      <4> QED BY <2>1, <4>1 DEF StampReturns
    <3> QED BY <2>6, <3>2, <3>3 DEF LocationInv
  <2>8. CASE ~ (c.p < now)
    <3>1. stamp' = c.p - 1 /\ row' = c.row /\ col' = c.col /\ UNCHANGED hung
      BY <1>2, <2>8 DEF Stamp, c
    <3>2. c \in [p : Nat, row : Nat, col : Nat]
      BY <2>5 DEF Behinds
    <3>3. c = [p |-> stamp' + 1, row |-> row', col |-> col']
      BY <3>1, <3>2
    <3>4. stamp' \in Nat
      <4>1. c.p = Behind(Seen, j) + 1 /\ j \in 0..Len(Seen)
        BY <2>5 DEF Behinds
      <4>2. Behind(Seen, j) \in Nat
        BY <2>2, <4>1, BehindStep DEF Laid
      <4> QED BY <3>1, <4>1, <4>2
    <3>6. Stayed(j)'
      BY <2>1, <2>5, <3>3, <3>4, BehindsStays
    <3>5. StampReturns'
      BY <2>1, <3>1 DEF LocationInv, StampReturns
    <3> QED BY <2>6, <3>5, <3>6 DEF LocationInv
  <2> QED BY <2>7, <2>8
<1> QED BY <1>1, <1>2 DEF LocationNext

-----------------------------------------------------------------------------
LEMMA PiecesAre ==
  ASSUME NEW s \in Seq(FileCharacters)
  PROVE  Pieces(s) \in Seq(Seq(FileCharacters)) /\ Len(Pieces(s)) = Len(s)
<1>1. DOMAIN s = 1..Len(s) /\ Len(s) \in Nat /\ \A i \in 1..Len(s) : s[i] \in FileCharacters
  BY ElementOfSeq
<1>2. LF \in FileCharacters
  BY DEF FileCharacters, Breaks
<1>3. <<>> \in Seq(FileCharacters) /\ \A x \in FileCharacters : <<x>> \in Seq(FileCharacters)
  OBVIOUS
<1>4. ASSUME NEW i \in 1..Len(s) PROVE Piece(s, i) \in Seq(FileCharacters)
  BY <1>1, <1>2, <1>3 DEF Piece
<1>5. Pieces(s) = [i \in 1..Len(s) |-> Piece(s, i)]
  BY <1>1 DEF Pieces
<1>6. Pieces(s) \in [1..Len(s) -> Seq(FileCharacters)]
  BY <1>4, <1>5
<1> QED BY <1>1, <1>6

LEMMA NormalisedIs ==
  ASSUME NEW s \in Seq(FileCharacters)
  PROVE  Normalised(s) = FlattenSeq(Pieces(s)) /\ Normalised(s) \in Seq(FileCharacters)
<1>1. Normalised(s) = FlattenSeq(Pieces(s))
  BY DEF Normalised, Pieces, Piece
<1>2. <<>> \in Seq(FileCharacters)
  OBVIOUS
<1>3. FlattenSeq(Pieces(s)) \in Seq(FileCharacters)
  BY <1>2, PiecesAre, FlattenAppend
<1> QED BY <1>1, <1>3

LEMMA LocationStarts ==
  ASSUME LocationInit
  PROVE  LocationInv
<1>1. file \in Seq(FileCharacters)
  <2>1. PICK n \in 0..MaxLength : file \in [1..n -> FileCharacters]
    BY DEF LocationInit
  <2>2. n \in Nat
    BY LocationAssumption
  <2> QED BY <2>1, <2>2
<1>2. FileRead /\ chars \in {file, Normalised(file)}
  BY <1>1, NormalisedIs DEF LocationInit, FileRead
<1>3. Laid
  BY <1>2, Layout
<1> DEFINE start == [p |-> stamp + 1, row |-> row, col |-> col]
<1>4. start = [p |-> 1, row |-> 0, col |-> 0]
  BY DEF LocationInit
<1>5. Behind(Seen, 0) = 0
  BY <1>3, BehindStep DEF Laid
<1>6. Lines(0) = 0 /\ Columns[0] = 0 /\ 0 \in 0..Len(Seen)
  BY <1>3, LinesAre, ColumnsAre DEF Laid
<1>7. ASSUME Seen[0 + 1] \in Breaks PROVE EndsLine(0 + 1)
  <2>1. 0 + 1 = 1 /\ 1 \in Nat \ {0}
    OBVIOUS
  <2> QED BY <1>7, <2>1, EndsLineIs
<1> HIDE DEF start
<1>8. Behinds(start, 0)
  BY <1>4, <1>5, <1>6, <1>7 DEF Behinds
<1>9. Stayed(0)
  BY <1>8 DEF Stayed, start, LocationInit
<1>10. StampReturns
  BY DEF LocationInit, StampReturns
<1> QED BY <1>2, <1>9, <1>10 DEF LocationInv
-----------------------------------------------------------------------------
(***************************************************************************)
(* The line ends of the file                                               *)
(***************************************************************************)
\* x is in none of the sequences together with something else.
Alone(s, x) == \A i \in 1..Len(s) : \A k \in 1..Len(s[i]) : s[i][k] = x => s[i] = <<x>>
Often(s, x) == Cardinality({i \in 1..Len(s) : s[i] = x})

\* An element that is on its own wherever it is, is as often in the sequences together.
LEMMA CountsAlike ==
  ASSUME NEW B, NEW s \in Seq(Seq(B)), NEW x \in B, Alone(s, x)
  PROVE  Often(FlattenSeq(s), x) = Often(s, <<x>>)
<1> DEFINE flat == FlattenSeq(s)
           InFlat(i) == {q \in 1..Behind(s, i) : flat[q] = x}
           InParts(i) == {j \in 1..i : s[j] = <<x>>}
           Alike(i) == /\ IsFiniteSet(InFlat(i)) /\ IsFiniteSet(InParts(i))
                       /\ Cardinality(InFlat(i)) = Cardinality(InParts(i))
           H == {i \in Nat : i \in 0..Len(s) => Alike(i)}
<1>1. Len(s) \in Nat
  BY LenProperties
<1>2. /\ Behind(s, 0) = 0 /\ Behind(s, Len(s)) = Len(flat)
      /\ \A i \in 0..Len(s) : Behind(s, i) \in Nat
      /\ \A i \in 1..Len(s) : Behind(s, i) = Behind(s, i - 1) + Len(s[i])
  BY BehindStep
<1>3. 0 \in H
  <2>1. InFlat(0) = {} /\ InParts(0) = {}
    BY <1>2
  <2> HIDE DEF InFlat, InParts
  <2> QED BY <2>1, FS_EmptySet
<1>4. ASSUME NEW i \in Nat, i \in H PROVE i + 1 \in H
  <2> SUFFICES ASSUME i + 1 \in 0..Len(s) PROVE Alike(i + 1)
    OBVIOUS
  <2> DEFINE m == i + 1
             a == Behind(s, i)
             b == Behind(s, m)
  <2>1. m \in 1..Len(s) /\ m - 1 = i /\ i \in 0..Len(s) /\ m \in 0..Len(s)
    BY <1>1
  <2>2. Alike(i)
    BY <1>4, <2>1
  <2>3. a \in Nat /\ b \in Nat /\ b = a + Len(s[m]) /\ s[m] \in Seq(B) /\ Len(s[m]) \in Nat
    BY <1>2, <2>1, ElementOfSeq, LenProperties
  <2>4. \A k \in 1..Len(s[m]) : flat[a + k] = s[m][k]
    BY <2>1, FlattenHas
  <2>5. InParts(m) = InParts(i) \cup (IF s[m] = <<x>> THEN {m} ELSE {}) /\ m \notin InParts(i)
    <3>1. \A j : j \in 1..m <=> j = m \/ j \in 1..i
      BY <2>1
    <3>2. m \notin 1..i
      BY <2>1
    <3> HIDE DEF m
    <3> QED BY <3>1, <3>2
  <2>6. InFlat(m) = InFlat(i) \cup (IF s[m] = <<x>> THEN {b} ELSE {})
        /\ (s[m] = <<x>> => b \notin InFlat(i))
    <3>1. ASSUME NEW q PROVE q \in 1..b <=> q \in 1..a \/ q \in (a + 1)..b
      <4> HIDE DEF a, b
      <4> QED BY <2>3
    <3>2. ASSUME NEW q \in (a + 1)..b PROVE q - a \in 1..Len(s[m]) /\ a + (q - a) = q
      <4> HIDE DEF a, b
      <4> QED BY <2>3
    <3>3. ASSUME NEW q \in (a + 1)..b PROVE flat[q] = s[m][q - a]
      BY <2>4, <3>2
    <3>4. CASE s[m] = <<x>>
      <4>1. Len(s[m]) = 1 /\ s[m][1] = x
        BY <3>4
      <4>2. b = a + 1
        BY <2>3, <4>1
      <4>3. \A q \in (a + 1)..b : q = b /\ q - a = 1
        <5> HIDE DEF a, b
        <5> QED BY <2>3, <4>2
      <4>4. b \in (a + 1)..b /\ b \notin 1..a
        <5> HIDE DEF a, b
        <5> QED BY <2>3, <4>2
      <4> HIDE DEF a, b, flat, m
      <4> QED BY <3>1, <3>3, <3>4, <4>1, <4>3, <4>4 DEF a, b
    <3>5. CASE s[m] # <<x>>
      <4>1. ASSUME NEW q \in (a + 1)..b PROVE flat[q] # x
        BY <2>1, <3>2, <3>3, <3>5 DEF Alone
      <4> HIDE DEF a, b, flat, m
      <4> QED BY <3>1, <3>5, <4>1 DEF a, b
    <3> QED BY <3>4, <3>5
  <2> HIDE DEF InFlat, InParts, a, b, m
  <2>7. CASE s[m] = <<x>>
    <3>1. InFlat(m) = InFlat(i) \cup {b} /\ b \notin InFlat(i)
      BY <2>6, <2>7
    <3>2. InParts(m) = InParts(i) \cup {m} /\ m \notin InParts(i)
      BY <2>5, <2>7
    <3>3. Cardinality(InFlat(m)) = Cardinality(InFlat(i)) + 1 /\ IsFiniteSet(InFlat(m))
      BY <2>2, <3>1, FS_AddElement
    <3>4. Cardinality(InParts(m)) = Cardinality(InParts(i)) + 1 /\ IsFiniteSet(InParts(m))
      BY <2>2, <3>2, FS_AddElement
    <3>5. Alike(m)
      BY <2>2, <3>3, <3>4
    <3> QED BY <3>5 DEF m
  <2>8. CASE s[m] # <<x>>
    <3>1. InFlat(m) = InFlat(i) /\ InParts(m) = InParts(i)
      BY <2>5, <2>6, <2>8
    <3>2. Alike(m)
      BY <2>2, <3>1
    <3> QED BY <3>2 DEF m
  <2> QED BY <2>7, <2>8
<1>5. Nat \subseteq H
  <2> HIDE DEF H
  <2> QED BY <1>3, <1>4, SetInduction
<1>6. Alike(Len(s))
  <2>1. Len(s) \in H /\ Len(s) \in 0..Len(s)
    <3> HIDE DEF H
    <3> QED BY <1>1, <1>5
  <2> HIDE DEF Alike
  <2> QED BY <2>1
<1> QED BY <1>2, <1>6 DEF Often

LEMMA PieceIs ==
  ASSUME NEW s \in Seq(FileCharacters), NEW i \in 1..Len(s)
  PROVE  /\ Pieces(s)[i] = Piece(s, i)
         /\ Piece(s, i) \in Seq(FileCharacters \ {CR})
         /\ \A k \in 1..Len(Piece(s, i)) : Piece(s, i)[k] = LF => Piece(s, i) = <<LF>>
         /\ Piece(s, i) = <<LF>> <=> (s[i] = CR \/ (s[i] = LF /\ ~(i > 1 /\ s[i - 1] = CR)))
<1>1. DOMAIN s = 1..Len(s) /\ s[i] \in FileCharacters
  BY ElementOfSeq
<1>2. LF \in FileCharacters \ {CR} /\ LF # CR
  BY DEF FileCharacters, Breaks, CR, LF
<1>3. Pieces(s)[i] = Piece(s, i)
  BY <1>1 DEF Pieces
<1>4. <<>> \in Seq(FileCharacters \ {CR}) /\ Len(<<>>) = 0 /\ <<>> # <<LF>>
  OBVIOUS
<1>5. ASSUME NEW x \in FileCharacters \ {CR}
      PROVE  <<x>> \in Seq(FileCharacters \ {CR}) /\ Len(<<x>>) = 1 /\ <<x>>[1] = x
             /\ (<<x>> = <<LF>> <=> x = LF)
  OBVIOUS
<1>6. CASE s[i] = LF /\ i > 1 /\ s[i - 1] = CR
  BY <1>2, <1>3, <1>4, <1>6 DEF Piece
<1>7. CASE s[i] = CR
  BY <1>2, <1>3, <1>5, <1>7 DEF Piece
<1>8. CASE s[i] # CR /\ ~ (s[i] = LF /\ i > 1 /\ s[i - 1] = CR)
  <2>1. Piece(s, i) = <<s[i]>>
    BY <1>8 DEF Piece
  <2> QED BY <1>1, <1>3, <1>5, <1>8, <2>1
<1> QED BY <1>6, <1>7, <1>8

\* A break of the text that LoadFile has made is a line end of the file, and there is no CR.
LEMMA NormalisedHas ==
  ASSUME NEW s \in Seq(FileCharacters)
  PROVE  /\ Normalised(s) \in Seq(FileCharacters \ {CR})
         /\ Often(Normalised(s), LF)
              = Cardinality({i \in 1..Len(s) : s[i] = CR \/ (s[i] = LF /\ ~(i > 1 /\ s[i - 1] = CR))})
<1> DEFINE pieces == Pieces(s)
<1>1. pieces \in Seq(Seq(FileCharacters)) /\ Len(pieces) = Len(s) /\ Normalised(s) = FlattenSeq(pieces)
  BY PiecesAre, NormalisedIs
<1>2. \A i \in 1..Len(s) :
        /\ pieces[i] \in Seq(FileCharacters \ {CR})
        /\ \A k \in 1..Len(pieces[i]) : pieces[i][k] = LF => pieces[i] = <<LF>>
        /\ pieces[i] = <<LF>> <=> (s[i] = CR \/ (s[i] = LF /\ ~(i > 1 /\ s[i - 1] = CR)))
  BY PieceIs
<1>3. LF \in FileCharacters
  BY DEF FileCharacters, Breaks
<1> HIDE DEF pieces
<1>4. Often(FlattenSeq(pieces), LF) = Often(pieces, <<LF>>)
  <2>1. Alone(pieces, LF)
    BY <1>1, <1>2 DEF Alone
  <2> QED BY <1>1, <1>3, <2>1, CountsAlike
<1>5. {i \in 1..Len(pieces) : pieces[i] = <<LF>>}
        = {i \in 1..Len(s) : s[i] = CR \/ (s[i] = LF /\ ~(i > 1 /\ s[i - 1] = CR))}
  BY <1>1, <1>2
<1>6. Normalised(s) \in Seq(FileCharacters \ {CR})
  <2>1. pieces \in Seq(Seq(FileCharacters \ {CR}))
    <3>1. pieces = [i \in 1..Len(pieces) |-> pieces[i]] /\ Len(pieces) \in Nat
      BY <1>1
    <3>2. pieces \in [1..Len(pieces) -> Seq(FileCharacters \ {CR})]
      BY <1>1, <1>2, <3>1
    <3> QED BY <3>1, <3>2
  <2>2. <<>> \in Seq(FileCharacters \ {CR})
    OBVIOUS
  <2>3. FlattenSeq(pieces) \in Seq(FileCharacters \ {CR})
    BY <2>1, <2>2, FlattenAppend
  <2> QED BY <1>1, <2>3
<1> QED BY <1>1, <1>4, <1>5, <1>6 DEF Often

LEMMA LineFeedIs ==
  ASSUME NEW c \in FileCharacters, NEW k \in 1..Len(c), c[k] = "LF"
  PROVE  c = <<"LF">>
<1>1. c \in {CR, LF, <<"x">>, <<"TAB">>, <<"C2", "BB">>, <<"EF", "BB", "BB">>,
             <<"EF", "BB", "BF">>, <<"EF", "BF", "BE">>, <<"EF", "BF", "BF">>}
  BY CharactersAre
<1>2. CASE c \in {<<"CR">>, <<"x">>, <<"TAB">>}
  <2>1. Len(c) = 1 /\ c[1] # "LF"
    BY <1>2
  <2> QED BY <2>1
<1>3. CASE c = <<"C2", "BB">>
  <2>1. Len(c) = 2 /\ c[1] # "LF" /\ c[2] # "LF"
    BY <1>3
  <2>2. k = 1 \/ k = 2
    BY <2>1
  <2> QED BY <2>1, <2>2
<1>4. CASE c \in {<<"EF", "BB", "BB">>, <<"EF", "BB", "BF">>, <<"EF", "BF", "BE">>, <<"EF", "BF", "BF">>}
  <2>1. Len(c) = 3 /\ c[1] # "LF" /\ c[2] # "LF" /\ c[3] # "LF"
    BY <1>4
  <2>2. k = 1 \/ k = 2 \/ k = 3
    BY <2>1
  <2> QED BY <2>1, <2>2
<1> QED BY <1>1, <1>2, <1>3, <1>4 DEF CR, LF

\* As many breaks are there when each byte is a character: no break is cut off.
LEMMA BreaksOfBytes ==
  ASSUME FileRead
  PROVE  Often(bytes, "LF") = Often(chars, LF)
<1> DEFINE flat == FlattenSeq(chars)
           n == Len(chars)
           last == chars[n]
<1>1. /\ chars \in Seq(Seq(Bytes)) /\ n \in Nat /\ flat \in Seq(Bytes) /\ cut \in Nat
      /\ \A i \in 1..n : chars[i] \in FileCharacters
      /\ chars = <<>> => cut = 0
      /\ chars # <<>> => n > 0 /\ cut < Len(last)
      /\ Len(bytes) = Len(flat) - cut /\ Len(bytes) \in Nat
      /\ \A q \in 1..Len(bytes) : bytes[q] = flat[q]
  BY CharsAre
<1>2. ASSUME NEW c \in FileCharacters, NEW k \in 1..Len(c), c[k] = "LF"
      PROVE  c = <<"LF">>
  BY <1>2, LineFeedIs
<1>3. "LF" \in Bytes
  BY DEF Bytes
<1>4. Often(flat, "LF") = Often(chars, <<"LF">>)
  <2>1. Alone(chars, "LF")
    BY <1>1, <1>2 DEF Alone
  <2> QED BY <1>1, <1>3, <2>1, CountsAlike
<1>5. Len(flat) \in Nat
  BY <1>1, LenProperties
<1>6. ASSUME NEW q \in 1..Len(flat), flat[q] = "LF" PROVE q \in 1..Len(bytes)
  <2> SUFFICES ASSUME q > Len(bytes) PROVE FALSE
    <3> HIDE DEF flat
    <3> QED BY <1>1, <1>5
  <2>1. cut > 0 /\ n > 0 /\ n \in 1..n
    <3> HIDE DEF flat
    <3> QED BY <1>1, <1>5
  <2> DEFINE a == Behind(chars, n - 1)
  <2>2. a \in Nat /\ Len(flat) = a + Len(last) /\ Len(last) \in Nat /\ last \in FileCharacters
    <3>1. n - 1 \in 0..n
      BY <1>1, <2>1
    <3> QED BY <1>1, <2>1, <3>1, BehindStep, CharactersAre
  <2>3. cut < Len(last)
    BY <1>1, <2>1
  <2> HIDE DEF a, flat, n, last
  <2>4. q - a \in 1..Len(last) /\ a + (q - a) = q /\ q - a > 1
    BY <1>1, <1>5, <2>1, <2>2, <2>3
  <2>5. flat[a + (q - a)] = last[q - a]
    BY <1>1, <2>1, <2>4, FlattenHas DEF flat, a, last, n
  <2>6. last = <<"LF">>
    BY <1>2, <1>6, <2>2, <2>4, <2>5
  <2>7. Len(last) = 1
    BY <2>6
  <2> QED BY <2>4, <2>7
<1>7. {q \in 1..Len(bytes) : bytes[q] = "LF"} = {q \in 1..Len(flat) : flat[q] = "LF"}
  <2>1. \A q \in 1..Len(bytes) : q \in 1..Len(flat)
    <3> HIDE DEF flat
    <3> QED BY <1>1, <1>5
  <2> HIDE DEF flat
  <2> QED BY <1>1, <1>6, <2>1
<1> QED BY <1>4, <1>7 DEF LF, Often

LEMMA NoReturns ==
  ASSUME FileRead, chars = Normalised(file), NEW i \in 1..Len(Seen)
  PROVE  Seen[i] # CR
<1>1. chars \in Seq(FileCharacters \ {CR})
  BY NormalisedHas DEF FileRead
<1>2. CASE encoding = "UTF8"
  BY <1>1, <1>2, ElementOfSeq DEF Seen
<1>3. CASE encoding # "UTF8"
  <2> DEFINE Others == Bytes \ {"CR"}
  <2>1. ASSUME NEW c \in FileCharacters \ {CR} PROVE c \in Seq(Others)
    <3>1. c \in Seq(Bytes) /\ Len(c) \in 1..3 /\ c = [k \in 1..Len(c) |-> c[k]]
      BY CharactersAre
    <3>2. \A k \in 1..Len(c) : c[k] # "CR" /\ c[k] \in Bytes
      BY CharactersAre, ElementOfSeq DEF CR, LF
    <3>3. c \in [1..Len(c) -> Others] /\ Len(c) \in Nat
      BY <3>1, <3>2
    <3> QED BY <3>3
  <2>2. chars \in Seq(Seq(Others))
    <3>1. FileCharacters \ {CR} \subseteq Seq(Others)
      BY <2>1
    <3> HIDE DEF Others
    <3> QED BY <1>1, <3>1
  <2>3. <<>> \in Seq(Others)
    OBVIOUS
  <2>4. FlattenSeq(chars) \in Seq(Others)
    <3> HIDE DEF Others
    <3> QED BY <2>2, <2>3, FlattenAppend
  <2>5. Laid
    BY Layout
  <2>6. Len(Seen) = Len(bytes) /\ Seen[i] = <<bytes[i]>> /\ Len(bytes) \in Nat
    BY <1>3, <2>5 DEF Laid
  <2>7. bytes[i] = FlattenSeq(chars)[i] /\ i \in 1..Len(FlattenSeq(chars))
    <3>1. i \in 1..Len(bytes)
      BY <2>6
    <3>2. Len(bytes) = Len(FlattenSeq(chars)) - cut /\ cut \in Nat /\ bytes[i] = FlattenSeq(chars)[i]
      BY <3>1, CharsAre
    <3>3. Len(FlattenSeq(chars)) \in Nat
      BY <2>4, LenProperties
    <3> QED BY <2>6, <3>1, <3>2, <3>3
  <2>8. bytes[i] # "CR"
    BY <2>4, <2>7, ElementOfSeq
  <2> QED BY <2>6, <2>8 DEF CR
<1> QED BY <1>2, <1>3

LEMMA LinesOfFile ==
  ASSUME FileRead, chars = Normalised(file)
  PROVE  Lines(Len(Seen)) = Cardinality(FileLines)
<1> DEFINE n == Len(Seen)
<1>1. Laid
  BY Layout
<1>2. ASSUME NEW i \in 1..n PROVE EndsLine(i) <=> Seen[i] = LF
  <2>1. Seen[i] # CR /\ i \in Nat \ {0} /\ (i > 1 => i - 1 \in 1..n) /\ (i = 1 \/ i > 1)
    BY <1>1, NoReturns DEF Laid
  <2>2. i > 1 => Seen[i - 1] # CR
    BY <2>1, NoReturns
  <2>3. Seen[i] \in Breaks <=> Seen[i] = LF
    BY <2>1 DEF Breaks
  <2>4. i > 1 => (Seen[i - 1] \in Breaks <=> Seen[i - 1] = LF)
    BY <2>2 DEF Breaks
  <2> QED BY <2>1, <2>3, <2>4, EndsLineIs
<1>3. Lines(n) = Often(Seen, LF)
  <2>1. {i \in 1..n : EndsLine(i)} = {i \in 1..n : Seen[i] = LF}
    BY <1>2
  <2> QED BY <2>1 DEF Lines, Often
<1>4. Often(Seen, LF) = Often(chars, LF)
  <2>1. CASE encoding = "UTF8"
    BY <1>1, <2>1 DEF Laid
  <2>2. CASE encoding # "UTF8"
    <3>1. n = Len(bytes) /\ \A i \in 1..n : Seen[i] = <<bytes[i]>>
      BY <1>1, <2>2 DEF Laid
    <3>2. {i \in 1..n : Seen[i] = LF} = {q \in 1..Len(bytes) : bytes[q] = "LF"}
      BY <3>1 DEF LF
    <3> QED BY <3>2, BreaksOfBytes DEF Often
  <2> QED BY <2>1, <2>2
<1>5. Often(chars, LF) = Cardinality(FileLines)
  <2>1. DOMAIN file = 1..Len(file)
    BY DEF FileRead
  <2> QED BY <2>1, NormalisedHas DEF FileRead, FileLines
<1> QED BY <1>3, <1>4, <1>5
-----------------------------------------------------------------------------
(***************************************************************************)
(* The row and column are those of the last character                      *)
(***************************************************************************)
LEMMA PassedIs ==
  ASSUME Laid, NEW i, Stayed(i)
  PROVE  /\ Passed = 1..i /\ i \in 0..Len(Seen)
         /\ Cardinality(Passed) = i
         /\ row = Cardinality({j \in Passed : EndsLine(j)}) /\ row = Lines(i)
         /\ col = Columns[Cardinality(Passed)]
         /\ stamp >= Len(bytes) => i = Len(Seen)
<1> DEFINE n == Len(Seen)
<1>1. /\ [p |-> stamp + 1, row |-> row, col |-> col] \in [p : Nat, row : Nat, col : Nat]
      /\ stamp \in Nat /\ i \in 0..n /\ stamp + 1 = Behind(Seen, i) + 1 /\ row = Lines(i) /\ col = Columns[i]
  BY DEF Stayed, Behinds
<1>2. n \in Nat /\ i \in Nat /\ Behind(Seen, i) \in Nat /\ Len(bytes) \in Nat
  BY <1>1, BehindStep DEF Laid
<1>3. \A j \in 1..n : Behind(Seen, j - 1) < Behind(Seen, i) <=> j <= i
  <2> SUFFICES ASSUME NEW j \in 1..n PROVE Behind(Seen, j - 1) < Behind(Seen, i) <=> j <= i
    OBVIOUS
  <2>1. j - 1 \in 0..n /\ Behind(Seen, j - 1) \in Nat
    BY <1>2, BehindStep DEF Laid
  <2>2. \A a, b \in 0..n : a < b => Behind(Seen, a) < Behind(Seen, b)
    BY BehindRises DEF Laid
  <2>3. j - 1 < i => Behind(Seen, j - 1) < Behind(Seen, i)
    BY <1>1, <2>1, <2>2
  <2>4. i < j - 1 => Behind(Seen, i) < Behind(Seen, j - 1)
    BY <1>1, <2>1, <2>2
  <2>5. j - 1 = i => Behind(Seen, i) = Behind(Seen, j - 1)
    OBVIOUS
  <2> QED BY <1>2, <2>1, <2>3, <2>4, <2>5
<1>4. Passed = 1..i
  <2>1. DOMAIN Seen = 1..n
    BY DEF Laid
  <2>2. Passed = {j \in 1..n : Behind(Seen, j - 1) < stamp}
    BY <2>1 DEF Passed, Behind
  <2>3. stamp = Behind(Seen, i)
    BY <1>1, <1>2
  <2>4. Passed = {j \in 1..n : j <= i}
    BY <1>3, <2>2, <2>3
  <2>5. {j \in 1..n : j <= i} = 1..i
    BY <1>1, <1>2
  <2> QED BY <2>4, <2>5
<1>5. Cardinality(Passed) = i
  <2>1. Cardinality(1..i) = i
    BY <1>2, FS_Interval
  <2> QED BY <1>4, <2>1
<1>6. row = Cardinality({j \in Passed : EndsLine(j)})
  BY <1>1, <1>4 DEF Lines
<1>7. ASSUME stamp >= Len(bytes) PROVE i = n
  <2> SUFFICES ASSUME i # n PROVE FALSE
    OBVIOUS
  <2>1. i + 1 \in 1..n /\ (i + 1) - 1 = i
    BY <1>1, <1>2
  <2>2. Behind(Seen, i) + 1 <= Len(bytes)
    BY <2>1, GlyphAt
  <2> QED BY <1>1, <1>2, <1>7, <2>2
<1> QED BY <1>1, <1>4, <1>5, <1>6, <1>7

LEMMA PlacesAreRight ==
  ASSUME LocationInv
  PROVE  RowIsLine /\ ColumnInLine /\ StampReturns
<1>1. Laid
  BY Layout DEF LocationInv
<1>2. PICK i : Stayed(i)
  BY DEF LocationInv
<1>3. /\ row = Cardinality({j \in Passed : EndsLine(j)}) /\ row = Lines(i)
      /\ col = Columns[Cardinality(Passed)]
      /\ stamp >= Len(bytes) => i = Len(Seen)
  BY <1>1, <1>2, PassedIs
<1>4. ASSUME chars = Normalised(file), stamp >= Len(bytes)
      PROVE  row = Cardinality(FileLines)
  BY <1>3, <1>4, LinesOfFile DEF LocationInv
<1>5. RowIsLine
  BY <1>3, <1>4 DEF RowIsLine
<1>6. ColumnInLine
  BY <1>3 DEF ColumnInLine
<1> QED BY <1>5, <1>6 DEF LocationInv
-----------------------------------------------------------------------------
(***************************************************************************)
(* Characters given by their numbers                                       *)
(***************************************************************************)
\* What the bytes of a character stand for, one after the other.
LEMMA ValueIs ==
  ASSUME NEW e \in Seq(Nat), Len(e) \in 1..4
  PROVE  /\ Len(e) = 1 => Value(e) = e[1] - FirstByteMark[1]
         /\ Len(e) = 2 => Value(e) = 64 * (e[1] - FirstByteMark[2]) + (e[2] % 64)
         /\ Len(e) = 3 => Value(e) = 64 * (64 * (e[1] - FirstByteMark[3]) + (e[2] % 64)) + (e[3] % 64)
         /\ Len(e) = 4 => Value(e) = 64 * (64 * (64 * (e[1] - FirstByteMark[4]) + (e[2] % 64))
                                             + (e[3] % 64)) + (e[4] % 64)
<1> DEFINE m == Len(e)
           v1 == e[1] - FirstByteMark[m]
           v2 == 64 * v1 + (e[2] % 64)
           v3 == 64 * v2 + (e[3] % 64)
           v4 == 64 * v3 + (e[4] % 64)
           Is(f) == f = [i \in 1..m |-> IF i = 1 THEN e[1] - FirstByteMark[m]
                                        ELSE 64 * f[i - 1] + (e[i] % 64)]
           g == [i \in 1..m |-> CASE i = 1 -> v1 [] i = 2 -> v2 [] i = 3 -> v3 [] OTHER -> v4]
           w == CHOOSE f : Is(f)
<1>0. m \in 1..4
  OBVIOUS
<1>1. Value(e) = w[m]
  BY DEF Value
<1>2. ASSUME NEW i \in 1..m
      PROVE  g[i] = IF i = 1 THEN v1 ELSE 64 * g[i - 1] + (e[i] % 64)
  <2> HIDE DEF m, v1
  <2>1. i = 1 \/ (i = 2 /\ i - 1 = 1) \/ (i = 3 /\ i - 1 = 2) \/ (i = 4 /\ i - 1 = 3)
    BY <1>0
  <2>2. i # 1 => i - 1 \in 1..m
    BY <1>0
  <2>3. CASE i = 1
    BY <2>3
  <2>4. CASE i = 2
    BY <2>1, <2>2, <2>4
  <2>5. CASE i = 3
    BY <2>1, <2>2, <2>5
  <2>6. CASE i = 4
    BY <2>1, <2>2, <2>6
  <2> QED BY <2>1, <2>3, <2>4, <2>5, <2>6
<1>3. Is(g)
  <2>1. g = [i \in 1..m |-> g[i]]
    OBVIOUS
  <2> HIDE DEF g
  <2> QED BY <1>2, <2>1
<1>4. Is(w)
  <2> HIDE DEF Is, g
  <2> QED BY <1>3
<1> HIDE DEF w
<1>5. w[1] = v1
  BY <1>4
<1>6. m >= 2 => w[2] = v2
  BY <1>4, <1>5
<1>7. m >= 3 => w[3] = v3
  <2> HIDE DEF v2
  <2> QED BY <1>4, <1>6
<1>8. m >= 4 => w[4] = v4
  <2> HIDE DEF v3
  <2> QED BY <1>4, <1>7
<1>9. Value(e) = (CASE m = 1 -> v1 [] m = 2 -> v2 [] m = 3 -> v3 [] m = 4 -> v4)
  <2> HIDE DEF m, v1, v2, v3, v4
  <2>1. m = 1 \/ m = 2 \/ m = 3 \/ m = 4
    BY <1>0
  <2> QED BY <1>1, <1>5, <1>6, <1>7, <1>8, <2>1
<1>10. CASE m = 1
  BY <1>9, <1>10
<1>11. CASE m = 2
  BY <1>9, <1>11
<1>12. CASE m = 3
  BY <1>9, <1>12
<1>13. CASE m = 4
  BY <1>9, <1>13
<1> QED BY <1>0, <1>10, <1>11, <1>12, <1>13

\* The six bits of each byte make the number again.
LEMMA SixBits ==
  ASSUME NEW n \in Nat
  PROVE  /\ 64 * (n \div 64) + ((128 + (n % 64)) % 64) = n
         /\ (128 + (n % 64)) % 64 = n % 64
         /\ n \div 64 \in Nat
         /\ n \div 4096 = (n \div 64) \div 64
         /\ n \div 262144 = ((n \div 64) \div 64) \div 64
BY SMTT(30)

LEMMA Encoded ==
  ASSUME NEW n \in Nat, n < 2097152
  PROVE  /\ ConvertUTF32ToUTF8(n) \in Seq(Nat)
         /\ Len(ConvertUTF32ToUTF8(n)) = EncodedLength(n)
         /\ EncodedLength(n) \in 1..4
         /\ ConvertUTF32ToUTF8(n)[1] = Shifted(n, EncodedLength(n) - 1) + FirstByteMark[EncodedLength(n)]
         /\ \A i \in 2..EncodedLength(n) :
              ConvertUTF32ToUTF8(n)[i] = 128 + (Shifted(n, EncodedLength(n) - i) % 64)
<1> DEFINE m == EncodedLength(n)
           e == ConvertUTF32ToUTF8(n)
<1>1. m \in 1..4
  BY DEF EncodedLength
<1> HIDE DEF m
<1>2. e = [i \in 1..m |-> IF i = 1 THEN Shifted(n, m - 1) + FirstByteMark[m]
                          ELSE 128 + (Shifted(n, m - i) % 64)]
  BY DEF ConvertUTF32ToUTF8, m
<1>3. \A k \in 0..3 : Shifted(n, k) \in Nat
  BY SixBits DEF Shifted
<1>4. FirstByteMark[m] \in Nat
  BY <1>1 DEF FirstByteMark
<1> HIDE DEF e
<1>5. ASSUME NEW i \in 1..m
      PROVE  (IF i = 1 THEN Shifted(n, m - 1) + FirstByteMark[m]
              ELSE 128 + (Shifted(n, m - i) % 64)) \in Nat
  <2>1. Shifted(n, m - 1) \in Nat /\ Shifted(n, m - i) \in Nat
    BY <1>1, <1>3
  <2>2. Shifted(n, m - i) % 64 \in Nat
    BY <2>1
  <2> QED BY <1>4, <2>1, <2>2
<1>6. e \in [1..m -> Nat]
  BY <1>2, <1>5
<1>7. e \in Seq(Nat) /\ Len(e) = m
  BY <1>1, <1>6
<1> QED BY <1>1, <1>2, <1>7 DEF e, m

LEMMA LengthIs ==
  ASSUME NEW n \in Nat, n < 2097152, ~ (n < 65536)
  PROVE  EncodedLength(n) = 4
BY SMT DEF EncodedLength

LEMMA LastIs ==
  /\ LastCharacter \in Nat /\ LastCharacter < 2097152 /\ LastCharacter < 5 * 262144
BY SMT DEF LastCharacter

\* Every character that there is, given by its number, is read as that character.
THEOREM EveryCharacterReadAgain == \A n \in 1..LastCharacter : ReadAgain(n)
<1> SUFFICES ASSUME NEW n \in 1..LastCharacter PROVE ReadAgain(n)
  OBVIOUS
<1> DEFINE e == ConvertUTF32ToUTF8(n)
           m == EncodedLength(n)
<1>1. n \in Nat \ {0} /\ n < 2097152
  BY LastIs
<1>2. /\ e \in Seq(Nat) /\ Len(e) = m /\ m \in 1..4
      /\ e[1] = Shifted(n, m - 1) + FirstByteMark[m]
      /\ \A i \in 2..m : e[i] = 128 + (Shifted(n, m - i) % 64)
  BY <1>1, Encoded
<1> DEFINE a == n \div 64
           b == n \div 4096
           c == n \div 262144
<1>3. Shifted(n, 0) = n /\ Shifted(n, 1) = a /\ Shifted(n, 2) = b /\ Shifted(n, 3) = c
  <2>1. n \div 1 = n
    BY <1>1, SMT
  <2> QED BY <2>1 DEF Shifted
<1>4. /\ FirstByteMark[1] = 0 /\ FirstByteMark[2] = 192 /\ FirstByteMark[3] = 224
      /\ FirstByteMark[4] = 240
  BY DEF FirstByteMark
<1>5. /\ a \in Nat /\ b = a \div 64 /\ c = b \div 64 /\ b \in Nat /\ c \in Nat
      /\ n = 64 * a + (n % 64) /\ a = 64 * b + (a % 64) /\ b = 64 * c + (b % 64)
      /\ n % 64 \in 0..63 /\ a % 64 \in 0..63 /\ b % 64 \in 0..63
  <2>1. a \in Nat /\ b = a \div 64 /\ c = b \div 64
    BY <1>1, SixBits
  <2> HIDE DEF a, b, c
  <2>2. b \in Nat /\ c \in Nat
    BY <2>1
  <2>3. n = 64 * a + (n % 64) /\ n % 64 \in 0..63
    BY <1>1 DEF a
  <2>4. a = 64 * b + (a % 64) /\ a % 64 \in 0..63
    BY <2>1
  <2>5. b = 64 * c + (b % 64) /\ b % 64 \in 0..63
    BY <2>1, <2>2
  <2> QED BY <2>1, <2>2, <2>3, <2>4, <2>5
<1>6. /\ (128 + (n % 64)) % 64 = n % 64
      /\ (128 + (a % 64)) % 64 = a % 64
      /\ (128 + (b % 64)) % 64 = b % 64
  BY <1>1, <1>5, SixBits
<1> HIDE DEF a, b, c, e, m
<1>7. CASE n < 128
  <2>1. m = 1
    BY <1>7 DEF EncodedLength, m
  <2>2. e[1] = n
    BY <1>2, <1>3, <1>4, <2>1
  <2>3. Value(e) = n
    BY <1>2, <1>4, <2>1, <2>2, ValueIs
  <2>4. utf8ByteTable(e[1]) = 1
    BY <1>1, <1>7, <2>2 DEF utf8ByteTable
  <2> QED BY <1>2, <2>1, <2>3, <2>4 DEF ReadAgain, e
<1>8. CASE ~ (n < 128) /\ n < 2048
  <2>1. m = 2 /\ 2 \in 2..m
    BY <1>8 DEF EncodedLength, m
  <2>2. e[1] = a + 192 /\ e[2] = 128 + (n % 64)
    BY <1>2, <1>3, <1>4, <2>1
  <2>3. a + 192 \in 194..223
    BY <1>5, <1>8
  <2>4. Value(e) = n
    BY <1>2, <1>4, <1>5, <1>6, <2>1, <2>2, ValueIs
  <2>5. utf8ByteTable(e[1]) = 2
    BY <2>2, <2>3 DEF utf8ByteTable
  <2> QED BY <1>2, <2>1, <2>4, <2>5 DEF ReadAgain, e
<1>9. CASE ~ (n < 2048) /\ n < 65536
  <2>1. m = 3 /\ 2 \in 2..m /\ 3 \in 2..m
    BY <1>9 DEF EncodedLength, m
  <2>2. e[1] = b + 224 /\ e[2] = 128 + (a % 64) /\ e[3] = 128 + (n % 64)
    BY <1>2, <1>3, <1>4, <2>1
  <2>3. b + 224 \in 224..239
    BY <1>5, <1>9
  <2>4. Value(e) = n
    <3>1. Value(e) = 64 * (64 * (e[1] - 224) + (e[2] % 64)) + (e[3] % 64)
      BY <1>2, <1>4, <2>1, ValueIs
    <3>2. e[1] - 224 = b /\ e[2] % 64 = a % 64 /\ e[3] % 64 = n % 64
      BY <1>5, <1>6, <2>2
    <3>3. Value(e) = 64 * (64 * b + (a % 64)) + (n % 64)
      BY <3>1, <3>2
    <3> QED BY <1>5, <3>3
  <2>5. utf8ByteTable(e[1]) = 3
    BY <2>2, <2>3 DEF utf8ByteTable
  <2> QED BY <1>2, <2>1, <2>4, <2>5 DEF ReadAgain, e
<1>10. CASE ~ (n < 65536)
  <2>1. m = 4 /\ 2 \in 2..m /\ 3 \in 2..m /\ 4 \in 2..m
    BY <1>1, <1>10, LengthIs DEF m
  <2>2. e[1] = c + 240 /\ e[2] = 128 + (b % 64) /\ e[3] = 128 + (a % 64) /\ e[4] = 128 + (n % 64)
    BY <1>2, <1>3, <1>4, <2>1
  <2>3. c + 240 \in 240..244
    <3>1. n < 5 * 262144
      BY <1>1, LastIs
    <3>2. c < 5
      BY <1>1, <3>1 DEF c
    <3> QED BY <1>5, <3>2
  <2>4. Value(e) = n
    <3>1. Value(e) = 64 * (64 * (64 * (e[1] - 240) + (e[2] % 64)) + (e[3] % 64)) + (e[4] % 64)
      BY <1>2, <1>4, <2>1, ValueIs
    <3>2. e[1] - 240 = c /\ e[2] % 64 = b % 64 /\ e[3] % 64 = a % 64 /\ e[4] % 64 = n % 64
      BY <1>5, <1>6, <2>2
    <3>3. Value(e) = 64 * (64 * (64 * c + (b % 64)) + (a % 64)) + (n % 64)
      BY <3>1, <3>2
    <3> QED BY <1>5, <3>3
  <2>5. utf8ByteTable(e[1]) = 4
    BY <2>2, <2>3 DEF utf8ByteTable
  <2> QED BY <1>2, <2>1, <2>4, <2>5 DEF ReadAgain, e
<1> QED BY <1>7, <1>8, <1>9, <1>10

\* Through any number of calls of Stamp for a text of any length the row and the column are
\* those of the place in the whole text, and a call returns.
THEOREM PlacesStayRight == LocationSpec => []Located
<1>1. LocationInit => LocationInv
  BY LocationStarts
<1>2. LocationInv /\ [LocationNext]_locationVars => LocationInv'
  BY LocationKept
<1>3. LocationInv => Located
  <2>1. \A n \in {m \in CodePoints : m <= LastCharacter} : ReadAgain(n)
    <3>1. \A n \in CodePoints : n \in Nat \ {0}
      BY SMT DEF CodePoints
    <3>2. \A n \in CodePoints : n <= LastCharacter => n \in 1..LastCharacter
      BY <3>1, LastIs
    <3> QED BY <3>2, EveryCharacterReadAgain
  <2> QED BY <2>1, PlacesAreRight DEF Located
<1> QED BY <1>1, <1>2, <1>3, PTL DEF LocationSpec
=============================================================================
