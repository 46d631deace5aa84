----------------------------- MODULE XmlStrings -----------------------------
(***************************************************************************)
(* tinyxml: TiXmlString, the string class of nodes and attributes. Objects *)
(* own a block of memory each, or share the static block of the empty      *)
(* string. Texts are sequences; what lies behind a text in its block, but  *)
(* for the terminating zero, is never read.                                *)
(***************************************************************************)
EXTENDS Naturals, SequencesExt

CONSTANTS
  Strings,  \* string objects
  Blocks,   \* blocks that can be allocated
  nullrep_, \* the block of strings without memory
  Chars,
  Spare,    \* the 8 of assign, which gives memory back only if it is much
  MaxLen    \* bound: the length of a text

VARIABLES
  rep_,  \* the block of each object
  heap   \* capacity and text of each block

stringVars == <<rep_, heap>>

\* The block of an object that is not constructed.
NoBlock == <<>>

ASSUME BlocksAssumption ==
  /\ nullrep_ \notin Blocks /\ NoBlock \notin Blocks \cup {nullrep_}
  /\ Spare \in Nat /\ MaxLen \in Nat

Texts == UNION {[1..n -> Chars] : n \in 0..MaxLen}
FreeBlock == [capacity |-> 0, text |-> <<>>, used |-> FALSE]
LiveStrings == {s \in Strings : rep_[s] # NoBlock}
Unused == {b \in Blocks : ~heap[b].used}

data(s) == heap[rep_[s]].text
length(s) == Len(data(s))
capacity(s) == heap[rep_[s]].capacity
-----------------------------------------------------------------------------
(***************************************************************************)
(* init, quit and swap                                                     *)
(***************************************************************************)
\* A slip: the block is not deleted.
QuitNot(h, b) == h

Quit(h, b) == IF b = nullrep_ THEN h ELSE [h EXCEPT ![b] = FreeBlock]

\* The block for a capacity: the static one for none.
BlocksFor(cap) == IF cap = 0 THEN {nullrep_} ELSE Unused

Init_(h, b, cap, text) ==
  IF cap = 0 THEN h ELSE [h EXCEPT ![b] = [capacity |-> cap, text |-> text, used |-> TRUE]]

\* s has a block of that capacity with the text, and the one it had is deleted: by quit, or
\* by swap and the destructor of a local string.
Replaced(s, cap, text) ==
  \E b \in BlocksFor(cap) :
    /\ heap' = Init_(Quit(heap, rep_[s]), b, cap, text)
    /\ rep_' = [rep_ EXCEPT ![s] = b]

\* The text is written into the block that s has. The static one holds no text.
Written(s, text) ==
  /\ heap' = [heap EXCEPT ![rep_[s]].text = text]
  /\ UNCHANGED rep_
-----------------------------------------------------------------------------
(***************************************************************************)
(* The operations                                                          *)
(***************************************************************************)
\* A constructor from a text, or of a copy of another string's.
Construct(s, text) ==
  /\ s \notin LiveStrings
  /\ \E b \in BlocksFor(Len(text)) :
       /\ rep_' = [rep_ EXCEPT ![s] = b]
       /\ heap' = Init_(heap, b, Len(text), text)

\* operator+: a string with room for both.
Plus(s, a, b) ==
  /\ s \notin LiveStrings /\ Len(a \o b) <= MaxLen
  /\ Construct(s, a \o b)

Destroy(s) ==
  /\ s \in LiveStrings
  /\ rep_' = [rep_ EXCEPT ![s] = NoBlock]
  /\ heap' = Quit(heap, rep_[s])

\* A slip: the text stays behind in the old block.
reserveCleared(s, cap) ==
  /\ s \in LiveStrings /\ cap > capacity(s)
  /\ Replaced(s, cap, <<>>)

reserve(s, cap) ==
  /\ s \in LiveStrings /\ cap > capacity(s)
  /\ Replaced(s, cap, data(s))

\* assign, from a caller's text or from a part of any string's, this one's, too: a new
\* block is filled before the old one goes, and in place memmove copes with the overlap.
assign(s, text) ==
  /\ s \in LiveStrings
  /\ IF Len(text) > capacity(s) \/ capacity(s) > 3 * (Len(text) + Spare)
     THEN Replaced(s, Len(text), text)
     ELSE Written(s, text)

\* append of a text that is not in the block of s.
append(s, text) ==
  /\ s \in LiveStrings /\ length(s) + Len(text) <= MaxLen
  /\ IF length(s) + Len(text) > capacity(s)
     THEN Replaced(s, length(s) + Len(text) + capacity(s), data(s) \o text)
     ELSE Written(s, data(s) \o text)

\* append of the part of s from one character up to another: reserve deletes what is
\* appended, so that anything is.
appendOwn(s, from, to) ==
  /\ s \in LiveStrings /\ length(s) + (to - from + 1) <= MaxLen
  /\ LET text == SubSeq(data(s), from, to)
         need == length(s) + Len(text)
     IN  IF need > capacity(s)
         THEN \E read \in [1..Len(text) -> Chars] :
                Replaced(s, need + capacity(s), data(s) \o read)
         ELSE Written(s, data(s) \o text)

clear(s) ==
  /\ s \in LiveStrings
  /\ Replaced(s, 0, <<>>)

swap(s, other) ==
  /\ s \in LiveStrings /\ other \in LiveStrings
  /\ rep_' = [rep_ EXCEPT ![s] = rep_[other], ![other] = rep_[s]]
  /\ UNCHANGED heap

\* operator[] on the left of an assignment.
put(s, i, c) ==
  /\ s \in LiveStrings /\ i \in 1..length(s)
  /\ Written(s, [data(s) EXCEPT ![i] = c])

\* The texts a caller can give: its own, or a part of a string.
Given(s) == {SubSeq(data(s), i, j) : i \in 1..length(s) + 1, j \in 0..length(s)}
Others(s) == Texts \cup UNION {Given(t) : t \in LiveStrings \ {s}}

StringInit ==
  /\ rep_ = [s \in Strings |-> NoBlock]
  /\ heap = [b \in Blocks \cup {nullrep_} |-> FreeBlock]

StringNext ==
  \/ \E s \in Strings, text \in Texts : Construct(s, text)
  \/ \E s \in Strings, a, b \in LiveStrings : Plus(s, data(a), data(b))
  \/ \E s \in LiveStrings :
       \/ Destroy(s) \/ clear(s)
       \/ \E cap \in 1..MaxLen : reserve(s, cap)
       \/ \E text \in Others(s) \cup Given(s) : assign(s, text)
       \/ \E text \in Others(s) : append(s, text)
       \/ \E from \in 1..length(s) : \E to \in from..length(s) : appendOwn(s, from, to)
       \/ \E other \in LiveStrings : swap(s, other)
       \/ \E i \in 1..length(s), c \in Chars : put(s, i, c)

StringSpec == StringInit /\ [][StringNext]_stringVars
-----------------------------------------------------------------------------
\* Every block in use is that of just one string and is found again, through any
\* assignments, growth, swaps and temporaries; a text and its zero fit into its block, and
\* nothing is ever written into the block that all empty strings share.
BlocksOwned ==
  /\ \A b \in Blocks : heap[b].used <=> \E s \in LiveStrings : rep_[s] = b
  /\ \A s, t \in LiveStrings : rep_[s] = rep_[t] => s = t \/ rep_[s] = nullrep_
  /\ \A b \in DOMAIN heap : Len(heap[b].text) <= heap[b].capacity
  /\ heap[nullrep_] = FreeBlock

Holds(s, text) ==
  /\ s \in LiveStrings' /\ data(s)' = text
  /\ \A t \in Strings \ {s} :
       (t \in LiveStrings <=> t \in LiveStrings') /\ (t \in LiveStrings => data(t)' = data(t))

Exchanged(s, other) ==
  \A t \in LiveStrings :
    /\ t \in LiveStrings'
    /\ data(t)' = CASE t = s -> data(other) [] t = other -> data(s) [] OTHER -> data(t)

\* tinystr.h calls the class "an emulation of a subset of the std::string template": each
\* operation has its effect on the text of its string and none on any other, whatever
\* blocks they use. (Appending a string to itself does so only if it has room.)
ValueSemantics ==
  [][/\ \A s \in Strings, text \in Texts : Construct(s, text) => Holds(s, text)
     /\ \A s \in LiveStrings :
          /\ \A cap \in 1..MaxLen : reserve(s, cap) => Holds(s, data(s))
          /\ \A text \in Others(s) \cup Given(s) : assign(s, text) => Holds(s, text)
          /\ \A text \in Others(s) : append(s, text) => Holds(s, data(s) \o text)
          /\ clear(s) => Holds(s, <<>>)
          /\ \A i \in 1..length(s), c \in Chars :
               put(s, i, c) => Holds(s, [data(s) EXCEPT ![i] = c])
          /\ \A other \in LiveStrings : swap(s, other) => Exchanged(s, other)
          /\ \A from, to \in 1..length(s) :
               from <= to /\ appendOwn(s, from, to) =>
                 \/ Holds(s, data(s) \o SubSeq(data(s), from, to))
                 \/ length(s) + (to - from + 1) > capacity(s)]_stringVars
=============================================================================
