----------------------------- MODULE XmlProofs -----------------------------
(***************************************************************************)
(* TiXmlString, for any strings, blocks, characters and lengths of texts,  *)
(* the trees of TiXmlNode, for any finite number of nodes, and the         *)
(* attributes of an element, for any finite number of objects.             *)
(***************************************************************************)
EXTENDS XmlStrings, XmlNodes, XmlAttributes, Recursion, FiniteSetTheorems, SequenceTheorems, TLAPS

HeapBlocks == Blocks \cup {nullrep_}
BlockRecords == [capacity : Nat, text : Seq(Chars), used : BOOLEAN]

StringsTyped ==
  /\ rep_ \in [Strings -> HeapBlocks \cup {NoBlock}]
  /\ heap \in [HeapBlocks -> BlockRecords]

StringInv == StringsTyped /\ BlocksOwned
-----------------------------------------------------------------------------
(***************************************************************************)
(* What an operation leaves of the blocks                                  *)
(***************************************************************************)
LEMMA FreeIs ==
  /\ FreeBlock \in BlockRecords /\ FreeBlock.text = <<>> /\ FreeBlock.capacity = 0
  /\ ~FreeBlock.used /\ Len(FreeBlock.text) = 0
BY DEF FreeBlock, BlockRecords

LEMMA EmptyIs == ASSUME NEW t \in Seq(Chars), Len(t) <= 0 PROVE t = <<>>
BY EmptySeq, LenProperties

\* A string in use has a block, its text is one, and fits; only an empty one has the static
\* block.
LEMMA StringIs ==
  ASSUME StringInv, NEW s \in LiveStrings
  PROVE  /\ s \in Strings /\ rep_[s] \in HeapBlocks /\ rep_[s] # NoBlock
         /\ data(s) \in Seq(Chars) /\ capacity(s) \in Nat
         /\ length(s) \in Nat /\ length(s) <= capacity(s)
         /\ rep_[s] = nullrep_ => data(s) = <<>> /\ capacity(s) = 0
         /\ rep_[s] # nullrep_ => rep_[s] \in Blocks /\ heap[rep_[s]].used
<1>1. s \in Strings /\ rep_[s] \in HeapBlocks /\ rep_[s] # NoBlock
  BY DEF StringInv, StringsTyped, LiveStrings
<1>2. heap[rep_[s]] \in BlockRecords
  BY <1>1 DEF StringInv, StringsTyped
<1>3. data(s) \in Seq(Chars) /\ capacity(s) \in Nat
  BY <1>2 DEF data, capacity, BlockRecords
<1>4. length(s) \in Nat
  BY <1>3, LenProperties DEF length
<1>5. DOMAIN heap = HeapBlocks
  BY DEF StringInv, StringsTyped
<1>6. length(s) <= capacity(s)
  BY <1>1, <1>5 DEF StringInv, BlocksOwned, length, data, capacity
<1>7. rep_[s] = nullrep_ => data(s) = <<>> /\ capacity(s) = 0
  BY FreeIs DEF StringInv, BlocksOwned, data, capacity
<1>8. rep_[s] # nullrep_ => rep_[s] \in Blocks /\ heap[rep_[s]].used
  BY <1>1 DEF StringInv, BlocksOwned, HeapBlocks
<1> QED BY <1>1, <1>3, <1>4, <1>6, <1>7, <1>8

\* A text is written into the block that a string has.
LEMMA WrittenIs ==
  ASSUME StringInv, NEW s \in LiveStrings, NEW text \in Seq(Chars), Len(text) <= capacity(s),
         Written(s, text)
  PROVE  StringInv' /\ Holds(s, text)
<1> DEFINE b == rep_[s]
<1>1. s \in Strings /\ b \in HeapBlocks /\ b # NoBlock
      /\ capacity(s) \in Nat /\ (b = nullrep_ => data(s) = <<>> /\ capacity(s) = 0)
  BY StringIs
<1>2. heap' = [heap EXCEPT ![b].text = text] /\ rep_' = rep_
  BY DEF Written
<1>3. heap \in [HeapBlocks -> BlockRecords] /\ rep_ \in [Strings -> HeapBlocks \cup {NoBlock}]
  BY DEF StringInv, StringsTyped
<1>4. /\ heap' \in [HeapBlocks -> BlockRecords]
      /\ heap'[b].text = text /\ heap'[b].capacity = heap[b].capacity
      /\ heap'[b].used = heap[b].used
      /\ \A x \in HeapBlocks \ {b} : heap'[x] = heap[x]
  BY <1>1, <1>2, <1>3 DEF BlockRecords
<1>5. b = nullrep_ => heap' = heap
  <2> SUFFICES ASSUME b = nullrep_ PROVE heap' = heap
    OBVIOUS
  <2>1. text = <<>> /\ heap[b].text = <<>>
    BY <1>1, EmptyIs, LenProperties DEF data
  <2> QED BY <1>1, <1>2, <1>3, <2>1 DEF BlockRecords
<1>6. LiveStrings' = LiveStrings
  BY <1>2 DEF LiveStrings
<1>7. BlocksOwned'
  <2>1. \A x \in Blocks : heap'[x].used = heap[x].used
    BY <1>4 DEF HeapBlocks
  <2>2. \A x \in HeapBlocks : Len(heap'[x].text) <= heap'[x].capacity
    BY <1>3, <1>4 DEF StringInv, BlocksOwned, capacity
  <2>3. heap'[nullrep_] = FreeBlock
    <3>1. nullrep_ \in HeapBlocks
      BY DEF HeapBlocks
    <3> QED BY <1>4, <1>5, <3>1 DEF StringInv, BlocksOwned
  <2> QED BY <1>2, <1>4, <1>6, <2>1, <2>2, <2>3 DEF StringInv, BlocksOwned
<1>8. Holds(s, text)
  <2>1. data(s)' = text
    BY <1>2, <1>4 DEF data
  <2>2. ASSUME NEW t \in Strings \ {s}, t \in LiveStrings PROVE data(t)' = data(t)
    <3>1. rep_[t] \in HeapBlocks
      BY <2>2, StringIs
    <3>2. CASE rep_[t] # b
      BY <1>2, <1>4, <3>1, <3>2 DEF data
    <3>3. CASE rep_[t] = b
      <4>1. b = nullrep_
        BY <2>2, <3>3 DEF StringInv, BlocksOwned
      <4> QED BY <1>2, <1>5, <4>1 DEF data
    <3> QED BY <3>2, <3>3
  <2> QED BY <1>6, <2>1, <2>2 DEF Holds
<1> QED BY <1>2, <1>3, <1>4, <1>7, <1>8 DEF StringInv, StringsTyped

\* What BlocksFor and Init_ make of a heap: either the static block, or one that nobody has.
Made(h, h2, b, cap, text) ==
  /\ cap = 0 => b = nullrep_ /\ h2 = h
  /\ cap # 0 => b \in Blocks /\ ~heap[b].used
                /\ h2 = [h EXCEPT ![b] = [capacity |-> cap, text |-> text, used |-> TRUE]]

LEMMA MadeIs ==
  ASSUME NEW cap, NEW text, NEW h, NEW b \in BlocksFor(cap)
  PROVE  Made(h, Init_(h, b, cap, text), b, cap, text)
BY DEF BlocksFor, Init_, Made, Unused

\* A string is given a block; the one it had is deleted, if it had one.
LEMMA GivenBlock ==
  ASSUME StringInv, NEW s \in Strings, NEW cap \in Nat, NEW text \in Seq(Chars),
         Len(text) <= cap, NEW b, NEW h,
         \A x \in HeapBlocks : h[x] = IF x = rep_[s] THEN FreeBlock ELSE heap[x],
         h \in [HeapBlocks -> BlockRecords],
         Made(h, heap', b, cap, text),
         rep_' = [rep_ EXCEPT ![s] = b]
  PROVE  StringInv' /\ Holds(s, text)
<1>1. heap \in [HeapBlocks -> BlockRecords] /\ rep_ \in [Strings -> HeapBlocks \cup {NoBlock}]
  BY DEF StringInv, StringsTyped
<1>2. nullrep_ \notin Blocks /\ NoBlock \notin HeapBlocks /\ nullrep_ \in HeapBlocks
  BY BlocksAssumption DEF HeapBlocks
<1>3. b \in HeapBlocks /\ (b \in Blocks => ~heap[b].used) /\ (b \notin Blocks => b = nullrep_)
  BY <1>2 DEF Made, HeapBlocks
<1>4. h[nullrep_] = FreeBlock
  BY <1>2 DEF StringInv, BlocksOwned
<1>5. heap'[b].text = text
  <2>1. CASE cap = 0
    <3>1. text = <<>>
      BY <2>1, EmptyIs
    <3> QED BY <1>4, <2>1, <3>1, FreeIs DEF Made
  <2>2. CASE cap # 0
    BY <1>3, <2>2 DEF Made
  <2> QED BY <2>1, <2>2
<1>6. heap' \in [HeapBlocks -> BlockRecords]
      /\ \A x \in HeapBlocks \ {b} : heap'[x] = h[x]
  <2>1. CASE cap = 0
    BY <2>1 DEF Made
  <2>2. CASE cap # 0
    <3>1. [capacity |-> cap, text |-> text, used |-> TRUE] \in BlockRecords
      BY DEF BlockRecords
    <3> QED BY <1>3, <2>2, <3>1 DEF Made
  <2> QED BY <2>1, <2>2
<1>7. rep_' \in [Strings -> HeapBlocks \cup {NoBlock}]
      /\ rep_'[s] = b /\ \A t \in Strings \ {s} : rep_'[t] = rep_[t]
  BY <1>1, <1>3
<1>8. LiveStrings' = LiveStrings \cup {s} /\ b # NoBlock
  BY <1>2, <1>3, <1>7 DEF LiveStrings
<1>9. ASSUME NEW t \in Strings \ {s}, t \in LiveStrings
      PROVE  /\ rep_[t] \in HeapBlocks /\ heap'[rep_[t]] = heap[rep_[t]]
             /\ rep_[t] = b => b = nullrep_
  <2>1. rep_[t] \in HeapBlocks /\ (rep_[t] # nullrep_ => rep_[t] \in Blocks /\ heap[rep_[t]].used)
    BY <1>9, StringIs
  <2>2. rep_[t] = b => b = nullrep_
    BY <1>3, <2>1
  <2>3. rep_[t] # nullrep_ => rep_[t] # rep_[s]
    <3> SUFFICES ASSUME rep_[t] # nullrep_, rep_[t] = rep_[s] PROVE FALSE
      OBVIOUS
    <3>1. s \in LiveStrings
      BY <1>2, <2>1 DEF LiveStrings
    <3> QED BY <1>9, <3>1 DEF StringInv, BlocksOwned
  <2>4. CASE rep_[t] # nullrep_
    BY <1>6, <2>1, <2>2, <2>3, <2>4
  <2>5. CASE rep_[t] = nullrep_
    <3>1. heap[nullrep_] = FreeBlock
      BY DEF StringInv, BlocksOwned
    <3>2. heap'[nullrep_] = FreeBlock
      BY <1>2, <1>3, <1>4, <1>6 DEF Made
    <3> QED BY <2>1, <2>2, <2>5, <3>1, <3>2
  <2> QED BY <2>4, <2>5
<1>10. Holds(s, text)
  <2>1. data(s)' = text
    BY <1>5, <1>7 DEF data
  <2>2. \A t \in Strings \ {s} :
          (t \in LiveStrings <=> t \in LiveStrings') /\ (t \in LiveStrings => data(t)' = data(t))
    BY <1>7, <1>8, <1>9 DEF data
  <2> QED BY <1>8, <2>1, <2>2 DEF Holds
<1>11. heap'[nullrep_] = FreeBlock
  BY <1>2, <1>3, <1>4, <1>6 DEF Made
<1>12. ASSUME NEW x \in HeapBlocks PROVE Len(heap'[x].text) <= heap'[x].capacity
  <2>1. CASE x = nullrep_
    BY <1>11, <2>1, FreeIs
  <2>2. CASE x # nullrep_ /\ x = b
    <3>1. cap # 0 /\ heap'[b] = [capacity |-> cap, text |-> text, used |-> TRUE]
      BY <1>3, <2>2 DEF Made
    <3> QED BY <2>2, <3>1
  <2>3. CASE x # b
    <3>1. heap'[x] \in {FreeBlock, heap[x]}
      BY <1>6, <2>3
    <3> QED BY <1>1, <3>1, FreeIs DEF StringInv, BlocksOwned
  <2> QED BY <2>1, <2>2, <2>3
<1>13. ASSUME NEW x \in Blocks PROVE heap'[x].used <=> \E t \in LiveStrings' : rep_'[t] = x
  <2>1. x \in HeapBlocks /\ x # nullrep_ /\ (heap[x].used <=> \E t \in LiveStrings : rep_[t] = x)
    BY <1>2 DEF HeapBlocks, StringInv, BlocksOwned
  <2>2. CASE x = b
    <3>1. heap'[b].used
      BY <1>3, <2>1, <2>2 DEF Made
    <3> QED BY <1>7, <1>8, <2>2, <3>1
  <2>3. CASE x # b /\ x = rep_[s]
    <3>1. ~heap'[x].used
      BY <1>6, <2>1, <2>3, FreeIs
    <3>2. s \in LiveStrings
      BY <1>2, <2>1, <2>3 DEF LiveStrings
    <3>3. \A t \in LiveStrings' : rep_'[t] # x
      <4> SUFFICES ASSUME NEW t \in LiveStrings', rep_'[t] = x PROVE FALSE
        OBVIOUS
      <4>1. t \in Strings \ {s} /\ t \in LiveStrings /\ rep_[t] = rep_[s]
        BY <1>7, <1>8, <2>3 DEF LiveStrings
      <4> QED BY <2>1, <2>3, <3>2, <4>1 DEF StringInv, BlocksOwned
    <3> QED BY <3>1, <3>3
  <2>4. CASE x # b /\ x # rep_[s]
    <3>1. heap'[x].used <=> heap[x].used
      BY <1>6, <2>1, <2>4
    <3>2. \A t \in LiveStrings' : rep_'[t] = x => t \in LiveStrings /\ rep_[t] = x
      BY <1>7, <1>8, <2>4 DEF LiveStrings
    <3>3. \A t \in LiveStrings : rep_[t] = x => t \in LiveStrings' /\ rep_'[t] = x
      BY <1>7, <1>8, <2>4 DEF LiveStrings
    <3> QED BY <2>1, <3>1, <3>2, <3>3
  <2> QED BY <2>2, <2>3, <2>4
<1>14. ASSUME NEW t \in LiveStrings', NEW u \in LiveStrings', rep_'[t] = rep_'[u]
       PROVE  t = u \/ rep_'[t] = nullrep_
  <2>1. t \in LiveStrings \cup {s} /\ u \in LiveStrings \cup {s} /\ t \in Strings /\ u \in Strings
    BY <1>8 DEF LiveStrings
  <2>2. CASE t = s \/ u = s
    BY <1>7, <1>9, <1>14, <2>1, <2>2
  <2>3. CASE t # s /\ u # s
    BY <1>7, <1>14, <2>1, <2>3 DEF StringInv, BlocksOwned
  <2> QED BY <2>2, <2>3
<1>15. BlocksOwned'
  <2>1. DOMAIN heap' = HeapBlocks
    BY <1>6
  <2> QED BY <1>11, <1>12, <1>13, <1>14, <2>1 DEF BlocksOwned
<1> QED BY <1>6, <1>7, <1>10, <1>15 DEF StringInv, StringsTyped

LEMMA QuitIs ==
  ASSUME StringInv, NEW s \in LiveStrings
  PROVE  /\ Quit(heap, rep_[s]) \in [HeapBlocks -> BlockRecords]
         /\ \A x \in HeapBlocks :
              Quit(heap, rep_[s])[x] = IF x = rep_[s] THEN FreeBlock ELSE heap[x]
<1>1. rep_[s] \in HeapBlocks /\ heap \in [HeapBlocks -> BlockRecords]
      /\ heap[nullrep_] = FreeBlock
  BY StringIs DEF StringInv, StringsTyped, BlocksOwned
<1> QED BY <1>1, FreeIs DEF Quit

LEMMA ReplacedIs ==
  ASSUME StringInv, NEW s \in LiveStrings, NEW cap \in Nat, NEW text \in Seq(Chars),
         Len(text) <= cap, Replaced(s, cap, text)
  PROVE  StringInv' /\ Holds(s, text)
<1>1. PICK b \in BlocksFor(cap) :
        heap' = Init_(Quit(heap, rep_[s]), b, cap, text) /\ rep_' = [rep_ EXCEPT ![s] = b]
  BY DEF Replaced
<1> DEFINE h == Quit(heap, rep_[s])
<1>2. h \in [HeapBlocks -> BlockRecords]
      /\ \A x \in HeapBlocks : h[x] = IF x = rep_[s] THEN FreeBlock ELSE heap[x]
  BY QuitIs
<1>3. Made(h, heap', b, cap, text)
  BY <1>1, MadeIs
<1>4. s \in Strings
  BY StringIs
<1> HIDE DEF h
<1> QED BY <1>1, <1>2, <1>3, <1>4, GivenBlock

LEMMA ConstructIs ==
  ASSUME StringInv, NEW s \in Strings, NEW text \in Seq(Chars), Construct(s, text)
  PROVE  StringInv' /\ Holds(s, text)
<1> DEFINE cap == Len(text)
<1>1. PICK b \in BlocksFor(cap) :
        heap' = Init_(heap, b, cap, text) /\ rep_' = [rep_ EXCEPT ![s] = b]
  BY DEF Construct
<1>2. cap \in Nat /\ Len(text) <= cap
  BY LenProperties
<1>3. heap \in [HeapBlocks -> BlockRecords] /\ rep_[s] = NoBlock /\ NoBlock \notin HeapBlocks
  BY BlocksAssumption DEF StringInv, StringsTyped, Construct, LiveStrings, HeapBlocks
<1>4. \A x \in HeapBlocks : heap[x] = IF x = rep_[s] THEN FreeBlock ELSE heap[x]
  BY <1>3
<1>5. Made(heap, heap', b, cap, text)
  BY <1>1, MadeIs
<1> HIDE DEF cap
<1> QED BY <1>1, <1>2, <1>3, <1>4, <1>5, GivenBlock

LEMMA DestroySafe == ASSUME StringInv, NEW s \in LiveStrings, Destroy(s) PROVE StringInv'
<1> DEFINE h == Quit(heap, rep_[s])
<1>1. s \in Strings /\ rep_ \in [Strings -> HeapBlocks \cup {NoBlock}]
      /\ heap \in [HeapBlocks -> BlockRecords] /\ nullrep_ \in HeapBlocks
      /\ heap[nullrep_] = FreeBlock
  BY StringIs DEF StringInv, StringsTyped, BlocksOwned, HeapBlocks
<1>2. heap' = h /\ rep_' = [rep_ EXCEPT ![s] = NoBlock]
  BY DEF Destroy
<1>3. heap' \in [HeapBlocks -> BlockRecords]
      /\ \A x \in HeapBlocks : heap'[x] = IF x = rep_[s] THEN FreeBlock ELSE heap[x]
  <2>1. h \in [HeapBlocks -> BlockRecords]
        /\ \A x \in HeapBlocks : h[x] = IF x = rep_[s] THEN FreeBlock ELSE heap[x]
    BY QuitIs
  <2> HIDE DEF h
  <2> QED BY <1>2, <2>1
<1>4. rep_' \in [Strings -> HeapBlocks \cup {NoBlock}]
      /\ LiveStrings' = LiveStrings \ {s} /\ \A t \in LiveStrings \ {s} : rep_'[t] = rep_[t]
  BY <1>1, <1>2 DEF LiveStrings
<1>5. ASSUME NEW x \in Blocks PROVE heap'[x].used <=> \E t \in LiveStrings' : rep_'[t] = x
  <2>1. x \in HeapBlocks /\ x # nullrep_ /\ (heap[x].used <=> \E t \in LiveStrings : rep_[t] = x)
    BY BlocksAssumption DEF HeapBlocks, StringInv, BlocksOwned
  <2>2. CASE x = rep_[s]
    <3>1. ~heap'[x].used
      BY <1>3, <2>1, <2>2, FreeIs
    <3>2. \A t \in LiveStrings' : rep_'[t] # x
      BY <1>4, <2>1, <2>2 DEF StringInv, BlocksOwned
    <3> QED BY <3>1, <3>2
  <2>3. CASE x # rep_[s]
    <3>1. heap'[x] = heap[x]
      BY <1>3, <2>1, <2>3
    <3> QED BY <1>4, <2>1, <2>3, <3>1
  <2> QED BY <2>2, <2>3
<1>6. \A x \in HeapBlocks : Len(heap'[x].text) <= heap'[x].capacity
  BY <1>1, <1>3, FreeIs DEF StringInv, BlocksOwned
<1>7. heap'[nullrep_] = FreeBlock
  BY <1>1, <1>3
<1>8. \A t, u \in LiveStrings' : rep_'[t] = rep_'[u] => t = u \/ rep_'[t] = nullrep_
  BY <1>4 DEF StringInv, BlocksOwned
<1>9. DOMAIN heap' = HeapBlocks
  BY <1>3
<1> QED BY <1>3, <1>4, <1>5, <1>6, <1>7, <1>8, <1>9 DEF StringInv, StringsTyped, BlocksOwned

LEMMA SwapIs ==
  ASSUME StringInv, NEW s \in LiveStrings, NEW other \in LiveStrings, swap(s, other)
  PROVE  StringInv' /\ Exchanged(s, other)
<1> DEFINE mate(t) == IF t = s THEN other ELSE IF t = other THEN s ELSE t
<1>1. s \in Strings /\ other \in Strings /\ rep_ \in [Strings -> HeapBlocks \cup {NoBlock}]
      /\ rep_[s] \in HeapBlocks /\ rep_[other] \in HeapBlocks
  BY StringIs DEF StringInv, StringsTyped
<1>2. rep_' = [rep_ EXCEPT ![s] = rep_[other], ![other] = rep_[s]] /\ heap' = heap
  BY DEF swap
<1>3. rep_' \in [Strings -> HeapBlocks \cup {NoBlock}]
      /\ \A t \in Strings : rep_'[t] = rep_[mate(t)]
  BY <1>1, <1>2
<1>4. \A t \in Strings : mate(t) \in Strings /\ mate(mate(t)) = t
  BY <1>1
<1>5. \A t \in Strings : t \in LiveStrings <=> mate(t) \in LiveStrings
  OBVIOUS
<1> HIDE DEF mate
<1>6. LiveStrings' = LiveStrings
  BY <1>3, <1>4, <1>5 DEF LiveStrings
<1>7. ASSUME NEW x
      PROVE  (\E t \in LiveStrings' : rep_'[t] = x) <=> \E t \in LiveStrings : rep_[t] = x
  <2>1. \A t \in LiveStrings : t \in Strings /\ mate(t) \in LiveStrings
    BY <1>5 DEF LiveStrings
  <2>2. \A t \in LiveStrings : rep_'[t] = rep_[mate(t)] /\ rep_'[mate(t)] = rep_[t]
    BY <1>3, <1>4, <2>1
  <2> QED BY <1>6, <2>1, <2>2
<1>8. ASSUME NEW t \in LiveStrings', NEW u \in LiveStrings', rep_'[t] = rep_'[u]
      PROVE  t = u \/ rep_'[t] = nullrep_
  <2>1. t \in Strings /\ u \in Strings /\ mate(t) \in LiveStrings /\ mate(u) \in LiveStrings
    BY <1>5, <1>6 DEF LiveStrings
  <2>2. rep_[mate(t)] = rep_[mate(u)] /\ rep_'[t] = rep_[mate(t)]
    BY <1>3, <1>8, <2>1
  <2>3. mate(t) = mate(u) \/ rep_'[t] = nullrep_
    BY <2>1, <2>2 DEF StringInv, BlocksOwned
  <2> QED BY <1>4, <2>1, <2>3
<1>9. StringInv'
  BY <1>2, <1>3, <1>7, <1>8 DEF StringInv, StringsTyped, BlocksOwned
<1>10. Exchanged(s, other)
  <2>1. \A t \in LiveStrings : t \in Strings /\ data(t)' = data(mate(t))
    BY <1>2, <1>3 DEF LiveStrings, data
  <2> QED BY <1>6, <2>1 DEF Exchanged, mate
<1> QED BY <1>9, <1>10
-----------------------------------------------------------------------------
(***************************************************************************)
(* The operations                                                          *)
(***************************************************************************)
LEMMA TextsAre == Texts \subseteq Seq(Chars)
<1>1. ASSUME NEW n \in 0..MaxLen, NEW t \in [1..n -> Chars] PROVE t \in Seq(Chars)
  <2>1. n \in Nat
    BY BlocksAssumption
  <2> QED BY <2>1, IsASeq
<1> QED BY <1>1 DEF Texts

\* Any part of a text is one.
LEMMA PartIs ==
  ASSUME NEW t \in Seq(Chars), NEW i \in 1..(Len(t) + 1), NEW j \in 0..Len(t)
  PROVE  SubSeq(t, i, j) \in Seq(Chars)
BY SubSeqProperties, LenProperties

LEMMA OthersAre ==
  ASSUME StringInv, NEW s \in LiveStrings
  PROVE  Given(s) \subseteq Seq(Chars) /\ Others(s) \subseteq Seq(Chars)
<1>1. ASSUME NEW t \in LiveStrings PROVE Given(t) \subseteq Seq(Chars)
  <2>1. data(t) \in Seq(Chars) /\ length(t) = Len(data(t))
    BY StringIs DEF length
  <2>2. \A i \in 1..(length(t) + 1), j \in 0..length(t) : SubSeq(data(t), i, j) \in Seq(Chars)
    BY <2>1, PartIs
  <2>3. ASSUME NEW x \in Given(t) PROVE x \in Seq(Chars)
    <3>1. PICK i \in 1..(length(t) + 1), j \in 0..length(t) : x = SubSeq(data(t), i, j)
      BY <2>3 DEF Given
    <3> QED BY <2>2, <3>1
  <2> QED BY <2>3
<1> QED BY <1>1, TextsAre DEF Others

\* What is appended goes behind the text, in place or in a block with room for both.
LEMMA ReserveIs ==
  ASSUME StringInv, NEW s \in LiveStrings, NEW cap \in Nat, reserve(s, cap)
  PROVE  StringInv' /\ Holds(s, data(s))
<1>1. data(s) \in Seq(Chars) /\ Len(data(s)) <= cap
  BY StringIs DEF reserve, length
<1> QED BY <1>1, ReplacedIs DEF reserve

LEMMA AssignIs ==
  ASSUME StringInv, NEW s \in LiveStrings, NEW text \in Seq(Chars), assign(s, text)
  PROVE  StringInv' /\ Holds(s, text)
<1>1. Len(text) \in Nat /\ capacity(s) \in Nat
  BY StringIs, LenProperties
<1> DEFINE renew == Len(text) > capacity(s) \/ capacity(s) > 3 * (Len(text) + Spare)
<1>2. CASE renew
  BY <1>1, <1>2, ReplacedIs DEF assign
<1>3. CASE ~renew
  <2>1. Len(text) <= capacity(s)
    BY <1>1, <1>3
  <2> QED BY <1>3, <2>1, WrittenIs DEF assign
<1> QED BY <1>2, <1>3

\* A text is put behind that of s, in its block or in a new one.
LEMMA Behind ==
  ASSUME StringInv, NEW s \in LiveStrings, NEW text \in Seq(Chars),
         NEW cap \in Nat, length(s) + Len(text) <= cap,
         \/ Replaced(s, cap, data(s) \o text)
         \/ Written(s, data(s) \o text) /\ cap = capacity(s)
  PROVE  StringInv' /\ Holds(s, data(s) \o text)
<1> DEFINE both == data(s) \o text
<1>1. data(s) \in Seq(Chars)
  BY StringIs
<1>2. both \in Seq(Chars) /\ Len(both) <= cap
  BY <1>1, ConcatProperties DEF length
<1> HIDE DEF both
<1>3. Replaced(s, cap, both) => StringInv' /\ Holds(s, both)
  BY <1>2, ReplacedIs
<1>4. Written(s, both) /\ cap = capacity(s) => StringInv' /\ Holds(s, both)
  BY <1>2, WrittenIs
<1> QED BY <1>3, <1>4 DEF both

LEMMA AppendIs ==
  ASSUME StringInv, NEW s \in LiveStrings, NEW text \in Seq(Chars), append(s, text)
  PROVE  StringInv' /\ Holds(s, data(s) \o text)
<1>1. length(s) \in Nat /\ Len(text) \in Nat /\ capacity(s) \in Nat
  BY StringIs, LenProperties
<1>2. CASE length(s) + Len(text) > capacity(s)
  <2> DEFINE cap == length(s) + Len(text) + capacity(s)
  <2>1. cap \in Nat /\ length(s) + Len(text) <= cap /\ Replaced(s, cap, data(s) \o text)
    BY <1>1, <1>2 DEF append
  <2> HIDE DEF cap
  <2> QED BY <2>1, Behind
<1>3. CASE ~(length(s) + Len(text) > capacity(s))
  <2>1. length(s) + Len(text) <= capacity(s) /\ Written(s, data(s) \o text)
    BY <1>1, <1>3 DEF append
  <2> QED BY <1>1, <2>1, Behind
<1> QED BY <1>2, <1>3

LEMMA AppendOwnIs ==
  ASSUME StringInv, NEW s \in LiveStrings, NEW from \in 1..length(s), NEW to \in from..length(s),
         appendOwn(s, from, to)
  PROVE  /\ StringInv'
         /\ \/ Holds(s, data(s) \o SubSeq(data(s), from, to))
            \/ length(s) + (to - from + 1) > capacity(s)
<1> DEFINE text == SubSeq(data(s), from, to)
<1>1. length(s) \in Nat /\ capacity(s) \in Nat /\ data(s) \in Seq(Chars) /\ length(s) = Len(data(s))
  BY StringIs DEF length
<1>2. text \in Seq(Chars) /\ Len(text) = to - from + 1 /\ Len(text) \in Nat
  BY <1>1, SubSeqProperties
<1> DEFINE need == length(s) + Len(text)
<1>3. CASE need > capacity(s)
  <2>1. PICK read \in [1..Len(text) -> Chars] : Replaced(s, need + capacity(s), data(s) \o read)
    BY <1>3 DEF appendOwn
  <2>2. read \in Seq(Chars) /\ Len(read) = Len(text)
    BY <1>2, IsASeq, LenProperties
  <2> DEFINE cap == need + capacity(s)
  <2>3. cap \in Nat /\ length(s) + Len(read) <= cap /\ Replaced(s, cap, data(s) \o read)
    BY <1>1, <1>2, <2>1, <2>2
  <2> HIDE DEF cap
  <2>4. StringInv'
    BY <2>2, <2>3, Behind
  <2> QED BY <1>2, <1>3, <2>4
<1>4. CASE ~(need > capacity(s))
  <2>1. length(s) + Len(text) <= capacity(s) /\ Written(s, data(s) \o text)
    BY <1>1, <1>2, <1>4 DEF appendOwn
  <2> HIDE DEF text
  <2>2. StringInv' /\ Holds(s, data(s) \o text)
    BY <1>1, <1>2, <2>1, Behind
  <2> QED BY <2>2 DEF text
<1> QED BY <1>3, <1>4

LEMMA ClearIs ==
  ASSUME StringInv, NEW s \in LiveStrings, clear(s)
  PROVE  StringInv' /\ Holds(s, <<>>)
<1>1. <<>> \in Seq(Chars) /\ Len(<<>>) <= 0 /\ 0 \in Nat
  BY EmptySeq
<1> QED BY <1>1, ReplacedIs DEF clear

LEMMA PutIs ==
  ASSUME StringInv, NEW s \in LiveStrings, NEW i \in 1..length(s), NEW c \in Chars, put(s, i, c)
  PROVE  StringInv' /\ Holds(s, [data(s) EXCEPT ![i] = c])
<1> DEFINE text == [data(s) EXCEPT ![i] = c]
<1>1. data(s) \in Seq(Chars) /\ Len(data(s)) <= capacity(s) /\ i \in 1..Len(data(s))
  BY StringIs DEF length
<1>2. text \in Seq(Chars) /\ Len(text) = Len(data(s))
  BY <1>1, ExceptSeq
<1>3. Written(s, text)
  BY DEF put
<1> HIDE DEF text
<1>4. StringInv' /\ Holds(s, text)
  BY <1>1, <1>2, <1>3, WrittenIs
<1> QED BY <1>4 DEF text

\* operator+ is a construction.
LEMMA PlusSafe ==
  ASSUME StringInv, NEW s \in Strings, NEW a \in LiveStrings, NEW b \in LiveStrings,
         Plus(s, data(a), data(b))
  PROVE  StringInv'
<1> DEFINE both == data(a) \o data(b)
<1>1. both \in Seq(Chars) /\ Construct(s, both)
  BY StringIs, ConcatProperties DEF Plus
<1> HIDE DEF both
<1> QED BY <1>1, ConstructIs

LEMMA InitStrings == StringInit => StringInv
<1> SUFFICES ASSUME StringInit PROVE StringInv
  OBVIOUS
<1>1. LiveStrings = {}
  BY DEF StringInit, LiveStrings
<1>2. heap = [b \in HeapBlocks |-> FreeBlock] /\ nullrep_ \in HeapBlocks
  BY DEF StringInit, HeapBlocks
<1>3. StringsTyped
  BY <1>2, FreeIs DEF StringInit, StringsTyped
<1>4. BlocksOwned
  BY <1>1, <1>2, FreeIs DEF BlocksOwned, HeapBlocks
<1> QED BY <1>3, <1>4 DEF StringInv

LEMMA NextStrings == ASSUME StringInv, [StringNext]_stringVars PROVE StringInv'
<1>1. ASSUME NEW s \in Strings, NEW text \in Texts, Construct(s, text) PROVE StringInv'
  BY <1>1, TextsAre, ConstructIs
<1>2. ASSUME NEW s \in Strings, NEW a \in LiveStrings, NEW b \in LiveStrings,
             Plus(s, data(a), data(b))
      PROVE  StringInv'
  BY <1>2, PlusSafe
<1>3. ASSUME NEW s \in LiveStrings, Destroy(s) PROVE StringInv'
  BY <1>3, DestroySafe
<1>4. ASSUME NEW s \in LiveStrings, clear(s) PROVE StringInv'
  BY <1>4, ClearIs
<1>5. ASSUME NEW s \in LiveStrings, NEW cap \in 1..MaxLen, reserve(s, cap) PROVE StringInv'
  <2>1. cap \in Nat
    BY BlocksAssumption
  <2> QED BY <1>5, <2>1, ReserveIs
<1>6. ASSUME NEW s \in LiveStrings, NEW text \in Others(s) \cup Given(s), assign(s, text)
      PROVE  StringInv'
  BY <1>6, OthersAre, AssignIs
<1>7. ASSUME NEW s \in LiveStrings, NEW text \in Others(s), append(s, text) PROVE StringInv'
  BY <1>7, OthersAre, AppendIs
<1>8. ASSUME NEW s \in LiveStrings, NEW from \in 1..length(s), NEW to \in from..length(s),
             appendOwn(s, from, to)
      PROVE  StringInv'
  BY <1>8, AppendOwnIs
<1>9. ASSUME NEW s \in LiveStrings, NEW other \in LiveStrings, swap(s, other) PROVE StringInv'
  BY <1>9, SwapIs
<1>10. ASSUME NEW s \in LiveStrings, NEW i \in 1..length(s), NEW c \in Chars, put(s, i, c)
       PROVE  StringInv'
  BY <1>10, PutIs
<1>11. CASE UNCHANGED stringVars
  BY <1>11 DEF stringVars, StringInv, StringsTyped, BlocksOwned, LiveStrings
<1> QED
  BY <1>1, <1>2, <1>3, <1>4, <1>5, <1>6, <1>7, <1>8, <1>9, <1>10, <1>11 DEF StringNext

\* Whatever strings are built, assigned, swapped and destroyed: every block in use is that of
\* one string, every text fits into its block, and nothing is written into the block that
\* the empty strings share.
THEOREM StringsOwnBlocks == StringSpec => []BlocksOwned
<1>1. StringInv => BlocksOwned
  BY DEF StringInv
<1> QED BY <1>1, InitStrings, NextStrings, PTL DEF StringSpec

LEMMA EffectsAre ==
  ASSUME StringInv
  PROVE  /\ \A s \in Strings, text \in Texts : Construct(s, text) => Holds(s, text)
         /\ \A s \in LiveStrings :
              /\ \A cap \in 1..MaxLen : reserve(s, cap) => Holds(s, data(s))
              /\ \A text \in Others(s) \cup Given(s) : assign(s, text) => Holds(s, text)
              /\ \A text \in Others(s) : append(s, text) => Holds(s, data(s) \o text)
              /\ clear(s) => Holds(s, <<>>)
              /\ \A i \in 1..length(s), c \in Chars :
                   put(s, i, c) => Holds(s, [data(s) EXCEPT ![i] = c])
              /\ \A other \in LiveStrings : swap(s, other) => Exchanged(s, other)
              /\ \A from, to \in 1..length(s) :
                   from <= to /\ appendOwn(s, from, to) =>
                     \/ Holds(s, data(s) \o SubSeq(data(s), from, to))
                     \/ length(s) + (to - from + 1) > capacity(s)
<1>1. ASSUME NEW s \in Strings, NEW text \in Texts, Construct(s, text) PROVE Holds(s, text)
  BY <1>1, TextsAre, ConstructIs
<1>2. ASSUME NEW s \in LiveStrings, NEW cap \in 1..MaxLen, reserve(s, cap) PROVE Holds(s, data(s))
  <2>1. cap \in Nat
    BY BlocksAssumption
  <2> QED BY <1>2, <2>1, ReserveIs
<1>3. ASSUME NEW s \in LiveStrings, NEW text \in Others(s) \cup Given(s), assign(s, text)
      PROVE  Holds(s, text)
  BY <1>3, OthersAre, AssignIs
<1>4. ASSUME NEW s \in LiveStrings, NEW text \in Others(s), append(s, text)
      PROVE  Holds(s, data(s) \o text)
  BY <1>4, OthersAre, AppendIs
<1>5. ASSUME NEW s \in LiveStrings, clear(s) PROVE Holds(s, <<>>)
  BY <1>5, ClearIs
<1>6. ASSUME NEW s \in LiveStrings, NEW i \in 1..length(s), NEW c \in Chars, put(s, i, c)
      PROVE  Holds(s, [data(s) EXCEPT ![i] = c])
  BY <1>6, PutIs
<1>7. ASSUME NEW s \in LiveStrings, NEW other \in LiveStrings, swap(s, other)
      PROVE  Exchanged(s, other)
  BY <1>7, SwapIs
<1>8. ASSUME NEW s \in LiveStrings, NEW from \in 1..length(s), NEW to \in 1..length(s),
             from <= to, appendOwn(s, from, to)
      PROVE  \/ Holds(s, data(s) \o SubSeq(data(s), from, to))
             \/ length(s) + (to - from + 1) > capacity(s)
  <2>1. to \in from..length(s)
    BY <1>8, StringIs
  <2> QED BY <1>8, <2>1, AppendOwnIs
<1> QED BY <1>1, <1>2, <1>3, <1>4, <1>5, <1>6, <1>7, <1>8

\* Each operation has its effect on the text of its string and none on any other.
THEOREM StringsAreValues == StringSpec => ValueSemantics
<1> QED BY InitStrings, NextStrings, EffectsAre, PTL DEF StringSpec, ValueSemantics
-----------------------------------------------------------------------------
(***************************************************************************)
(* Chains of nodes                                                         *)
(***************************************************************************)
PointersTo == Nodes \cup {Null}
NodeRecords ==
  [kind : Kinds \cup {"free"}, value : Values \cup {Null}, error : BOOLEAN,
   parent : PointersTo, prev : PointersTo, next : PointersTo,
   firstChild : PointersTo, lastChild : PointersTo]

\* s goes along a link of nd from start to the end, in a set L of nodes.
Follows(nd, link, start, L, s) ==
  /\ s \in Seq(L)
  /\ start = Null <=> Len(s) = 0
  /\ Len(s) > 0 => s[1] = start /\ nd[s[Len(s)]][link] = Null
  /\ \A i \in 1..(Len(s) - 1) : nd[s[i]][link] = s[i + 1]

\* The links of the nodes in L lead to nodes in L, up a potential.
Rises(nd, link, L, h) ==
  /\ h \in [Nodes -> Int]
  /\ \A k \in L : nd[k][link] # Null => nd[k][link] \in L /\ h[k] < h[nd[k][link]]

\* C has start, and with each node the next one along the link.
Leads(nd, link, start, L, C) ==
  /\ start # Null => start \in C
  /\ \A k \in C : k \in L /\ nd[k][link] # Null => nd[k][link] \in C

\* Every node of s is above the ones before it.
Rising(s, h) == \A i, j \in 1..Len(s) : i < j => h[s[i]] < h[s[j]]

\* The null pointer is no node.
LEMMA NullIsNone == \A n \in Nodes : n # Null
BY NodesAssumption

\* A place in a sequence that is not the last.
LEMMA NextIndex ==
  ASSUME NEW n \in Nat, NEW i \in 1..n, i # n
  PROVE  i \in 1..(n - 1) /\ i + 1 \in 1..n
OBVIOUS

\* A prefix is empty, all of the sequence, or in between.
LEMMA ShorterOr ==
  ASSUME NEW m \in Nat, NEW n \in Nat, m <= n
  PROVE  m = n \/ m = 0 \/ (m > 0 /\ m < n)
OBVIOUS

\* A sequence that rises is no longer than there are nodes.
LEMMA ShortRise ==
  ASSUME NEW L, L \subseteq Nodes, NEW h \in [Nodes -> Int], NEW s \in Seq(L), Rising(s, h)
  PROVE  Cardinality(Nodes) \in Nat /\ Len(s) <= Cardinality(Nodes)
<1>1. IsFiniteSet(Nodes) /\ Cardinality(Nodes) \in Nat
  BY NodesAssumption, FS_CardinalityType
<1>2. Len(s) \in Nat /\ s \in [1..Len(s) -> L]
  BY LenProperties
<1> DEFINE S == 1..Len(s)
<1>3. IsFiniteSet(S) /\ Cardinality(S) = Len(s)
  BY <1>2, FS_Interval
<1>4. s \in [S -> Nodes]
  BY <1>2
<1>5. ASSUME NEW i \in S, NEW j \in S, i # j PROVE s[i] # s[j]
  <2>1. i < j \/ j < i
    BY <1>2, <1>5
  <2>2. h[s[i]] \in Int /\ h[s[j]] \in Int
    BY <1>4
  <2>3. h[s[i]] < h[s[j]] \/ h[s[j]] < h[s[i]]
    BY <2>1 DEF Rising
  <2> QED BY <2>2, <2>3
<1>6. ~ (Cardinality(Nodes) < Cardinality(S))
  <2> HIDE DEF S
  <2> QED BY <1>1, <1>3, <1>4, <1>5, FS_PigeonHole
<1> QED BY <1>1, <1>2, <1>3, <1>6

\* s is on the way along a link.
OnTheWay(nd, link, L, h, s) ==
  /\ s \in Seq(L) /\ Len(s) > 0 /\ Rising(s, h)
  /\ \A i \in 1..(Len(s) - 1) : nd[s[i]][link] = s[i + 1]

\* One more node along the link rises still.
LEMMA Longer ==
  ASSUME NEW nd, NEW link, NEW L, L \subseteq Nodes, NEW h, Rises(nd, link, L, h),
         NEW s, OnTheWay(nd, link, L, h, s), nd[s[Len(s)]][link] # Null
  PROVE  LET t == Append(s, nd[s[Len(s)]][link])
         IN  OnTheWay(nd, link, L, h, t) /\ Len(t) = Len(s) + 1 /\ t[1] = s[1]
<1> DEFINE x == nd[s[Len(s)]][link]
           t == Append(s, x)
<1>1. Len(s) \in Nat /\ Len(s) > 0 /\ s \in [1..Len(s) -> L] /\ s \in Seq(L) /\ Rising(s, h)
      /\ \A i \in 1..(Len(s) - 1) : nd[s[i]][link] = s[i + 1]
  BY LenProperties DEF OnTheWay
<1>2. x \in L /\ h[s[Len(s)]] < h[x]
  BY <1>1 DEF Rises
<1>3. /\ t \in Seq(L) /\ Len(t) = Len(s) + 1 /\ t[Len(s) + 1] = x
      /\ \A i \in 1..Len(s) : t[i] = s[i]
  BY <1>1, <1>2, AppendProperties
<1>4. \A k \in L : h[k] \in Int
  BY DEF Rises
<1>5. ASSUME NEW i \in 1..Len(t), NEW j \in 1..Len(t), i < j PROVE h[t[i]] < h[t[j]]
  <2>1. i \in 1..Len(s) /\ t[i] = s[i] /\ s[i] \in L
    BY <1>1, <1>3, <1>5
  <2>2. CASE j = Len(s) + 1
    <3>1. h[s[i]] < h[s[Len(s)]] \/ i = Len(s)
      <4>1. Len(s) \in 1..Len(s) /\ (i < Len(s) \/ i = Len(s))
        BY <1>1, <2>1
      <4> QED BY <1>1, <2>1, <4>1 DEF Rising
    <3>2. s[Len(s)] \in L
      BY <1>1
    <3> HIDE DEF x
    <3> QED BY <1>2, <1>3, <1>4, <2>1, <2>2, <3>1, <3>2
  <2>3. CASE j # Len(s) + 1
    <3>1. j \in 1..Len(s)
      BY <1>1, <1>3, <2>3
    <3> QED BY <1>1, <1>3, <1>5, <2>1, <3>1 DEF Rising
  <2> QED BY <2>2, <2>3
<1>6. ASSUME NEW i \in 1..(Len(t) - 1) PROVE nd[t[i]][link] = t[i + 1]
  <2>1. i \in 1..Len(s)
    BY <1>1, <1>3
  <2>2. CASE i = Len(s)
    BY <1>3, <2>1, <2>2
  <2>3. CASE i # Len(s)
    <3>1. i \in 1..(Len(s) - 1) /\ i + 1 \in 1..Len(s)
      BY <1>1, <2>1, <2>3, NextIndex
    <3> QED BY <1>1, <1>3, <2>1, <3>1
  <2> QED BY <2>2, <2>3
<1>7. t[1] = s[1]
  BY <1>1, <1>3
<1> HIDE DEF x, t
<1>8. Rising(t, h)
  BY <1>5 DEF Rising
<1>9. t \in Seq(L) /\ Len(t) = Len(s) + 1
  BY <1>3
<1>10. OnTheWay(nd, link, L, h, t)
  BY <1>1, <1>6, <1>8, <1>9 DEF OnTheWay
<1> QED BY <1>7, <1>9, <1>10 DEF t, x

\* One step more along a link, if there is one.
Further(nd, link, s) ==
  IF s = <<>> \/ nd[s[Len(s)]][link] = Null THEN s ELSE Append(s, nd[s[Len(s)]][link])

Walks(nd, link, start, w) ==
  /\ w \in [Nat -> Seq(Nodes)]
  /\ w[0] = IF start = Null THEN <<>> ELSE <<start>>
  /\ \A k \in Nat : w[k + 1] = Further(nd, link, w[k])

\* A chain is the end of a walk of as many steps as there are nodes.
LEMMA ChainWalks ==
  ASSUME NEW nd, NEW link, \A k \in Nodes : nd[k][link] \in PointersTo, NEW start \in PointersTo
  PROVE  \E w : Walks(nd, link, start, w) /\ Chain(nd, link, start) = w[Cardinality(Nodes)]
<1> DEFINE longer == [s \in Seq(Nodes) |->
             IF s = <<>> \/ nd[Last(s)][link] = Null THEN s ELSE Append(s, nd[Last(s)][link])]
           a == IF start = Null THEN <<>> ELSE <<start>>
           w == CHOOSE f : Recursive(f, longer, a)
           D == Seq(Nodes)
<1>1. Chain(nd, link, start) = w[Cardinality(Nodes)]
  BY DEF Chain, Recursive
<1>2. longer \in [D -> D]
  <2>1. ASSUME NEW s \in Seq(Nodes), s # <<>>, nd[Last(s)][link] # Null
        PROVE  Append(s, nd[Last(s)][link]) \in Seq(Nodes)
    <3>1. Len(s) \in Nat /\ Len(s) > 0 /\ s[Len(s)] \in Nodes
      BY <2>1, EmptySeq, LenProperties, ElementOfSeq
    <3>2. nd[Last(s)][link] \in Nodes
      BY <2>1, <3>1 DEF Last, PointersTo
    <3> QED BY <3>2, AppendProperties
  <2> QED BY <2>1
<1>3. ASSUME NEW s \in D PROVE longer[s] = Further(nd, link, s)
  BY DEF Last, Further
<1>4. a \in D
  BY DEF PointersTo
<1>5. w = CHOOSE f : Recursive(f, longer, a)
  OBVIOUS
<1> HIDE DEF longer, a, w, D
<1>6. w \in [Nat -> D] /\ w[0] = a /\ \A k \in Nat : w[k + 1] = longer[w[k]]
  <2>1. \E f : Recursive(f, longer, a)
    BY <1>2, <1>4, RecursiveExists
  <2>2. Recursive(w, longer, a)
    BY <2>1, <1>5
  <2> QED BY <1>2, <1>4, <2>2, RecursiveIs
<1>7. \A k \in Nat : w[k + 1] = Further(nd, link, w[k])
  BY <1>3, <1>6
<1>8. Walks(nd, link, start, w)
  BY <1>6, <1>7 DEF Walks, a, D
<1> QED BY <1>1, <1>8

\* A chain goes to the end.
LEMMA ChainFollows ==
  ASSUME NEW nd, NEW link, NEW L, L \subseteq Nodes, NEW start \in L \cup {Null},
         NEW h, Rises(nd, link, L, h), \A k \in Nodes : nd[k][link] \in PointersTo
  PROVE  Follows(nd, link, start, L, Chain(nd, link, start))
<1> DEFINE a == IF start = Null THEN <<>> ELSE <<start>>
           N == Cardinality(Nodes)
<1>0. start \in PointersTo
  BY DEF PointersTo
<1>1. PICK w : Walks(nd, link, start, w) /\ Chain(nd, link, start) = w[N]
  BY <1>0, ChainWalks
<1>5. w \in [Nat -> Seq(Nodes)] /\ w[0] = a /\ \A k \in Nat : w[k + 1] = Further(nd, link, w[k])
  BY <1>1 DEF Walks
<1>6. N \in Nat
  BY NodesAssumption, FS_CardinalityType
<1>7. CASE start = Null
  <2> DEFINE H == {k \in Nat : w[k] = <<>>}
  <2>1. 0 \in H
    BY <1>5, <1>7 DEF a
  <2>2. ASSUME NEW k \in Nat, k \in H PROVE k + 1 \in H
    BY <1>5, <2>2 DEF Further
  <2> HIDE DEF H
  <2>3. Nat \subseteq H
    BY <2>1, <2>2, SetInduction
  <2>4. w[N] = <<>>
    BY <1>6, <2>3 DEF H
  <2> HIDE DEF N
  <2>5. Follows(nd, link, start, L, <<>>)
    BY <1>7 DEF Follows
  <2> QED BY <1>1, <2>4, <2>5
<1>8. CASE start # Null
  <2> DEFINE G(k) == /\ OnTheWay(nd, link, L, h, w[k]) /\ w[k][1] = start
                     /\ Len(w[k]) = k + 1 \/ nd[w[k][Len(w[k])]][link] = Null
             H == {k \in Nat : G(k)}
  <2>1. 0 \in H
    <3>1. w[0] = <<start>>
      BY <1>5, <1>8 DEF a
    <3>2. <<start>> \in Seq(L) /\ Len(<<start>>) = 1 /\ <<start>>[1] = start
      BY <1>8
    <3>3. Rising(<<start>>, h)
      BY <3>2 DEF Rising
    <3> DEFINE s == <<start>>
    <3>4. \A i \in 1..(Len(s) - 1) : nd[s[i]][link] = s[i + 1]
      BY <3>2
    <3>5. s \in Seq(L) /\ Len(s) > 0 /\ s[1] = start /\ Rising(s, h) /\ Len(s) = 0 + 1
      BY <3>2, <3>3
    <3> HIDE DEF s
    <3>6. w[0] = s
      BY <3>1 DEF s
    <3>7. OnTheWay(nd, link, L, h, s)
      BY <3>4, <3>5 DEF OnTheWay
    <3> QED BY <3>5, <3>6, <3>7
  <2>2. ASSUME NEW k \in Nat, k \in H PROVE k + 1 \in H
    <3>1. G(k) /\ k + 1 \in Nat
      BY <2>2
    <3> DEFINE s == w[k]
    <3>2. s \in Seq(Nodes) /\ s # <<>>
      BY <3>1, <1>5 DEF OnTheWay
    <3>3. CASE nd[s[Len(s)]][link] = Null
      <4>1. w[k + 1] = s
        BY <1>5, <3>2, <3>3 DEF Further
      <4> QED BY <3>1, <3>3, <4>1
    <3>4. CASE nd[s[Len(s)]][link] # Null
      <4> DEFINE t == Append(s, nd[s[Len(s)]][link])
      <4>1. w[k + 1] = t
        BY <1>5, <3>2, <3>4 DEF Further
      <4>2. OnTheWay(nd, link, L, h, t) /\ Len(t) = Len(s) + 1 /\ t[1] = s[1]
        <5>1. OnTheWay(nd, link, L, h, s) /\ nd[s[Len(s)]][link] # Null
          BY <3>1, <3>4
        <5> HIDE DEF s
        <5> QED BY <5>1, Longer
      <4>3. Len(s) = k + 1 /\ s[1] = start
        BY <3>1, <3>4
      <4> HIDE DEF t, s
      <4>4. Len(t) = (k + 1) + 1
        BY <4>2, <4>3
      <4>5. G(k + 1)
        BY <4>1, <4>2, <4>3, <4>4
      <4> QED BY <3>1, <4>5
    <3> QED BY <3>3, <3>4
  <2> HIDE DEF H
  <2>3. Nat \subseteq H
    BY <2>1, <2>2, SetInduction
  <2>4. G(N)
    BY <1>6, <2>3 DEF H
  <2>5. Len(w[N]) <= N /\ Len(w[N]) \in Nat
    <3>1. h \in [Nodes -> Int]
      BY DEF Rises
    <3>2. w[N] \in Seq(L) /\ Rising(w[N], h)
      BY <2>4 DEF OnTheWay
    <3> QED BY <3>1, <3>2, ShortRise, LenProperties
  <2> HIDE DEF N
  <2>6. Follows(nd, link, start, L, w[N])
    BY <1>6, <1>8, <2>4, <2>5 DEF Follows, OnTheWay
  <2> QED BY <1>1, <2>6
<1> QED BY <1>7, <1>8

\* There is one way to follow a link.
LEMMA FollowsOne ==
  ASSUME NEW nd, NEW link, NEW L, L \subseteq Nodes, NEW start,
         NEW s, NEW t, Follows(nd, link, start, L, s), Follows(nd, link, start, L, t)
  PROVE  s = t
<1>1. /\ s \in Seq(L) /\ Len(s) \in Nat /\ s \in [1..Len(s) -> L]
      /\ t \in Seq(L) /\ Len(t) \in Nat /\ t \in [1..Len(t) -> L]
  BY LenProperties DEF Follows
<1> DEFINE H == {k \in Nat : k \in 1..Len(s) => k \in 1..Len(t) /\ s[k] = t[k]}
<1>2. 0 \in H
  OBVIOUS
<1>3. ASSUME NEW k \in Nat, k \in H PROVE k + 1 \in H
  <2> SUFFICES ASSUME k + 1 \in 1..Len(s) PROVE k + 1 \in 1..Len(t) /\ s[k + 1] = t[k + 1]
    OBVIOUS
  <2>1. CASE k = 0
    BY <1>1, <2>1 DEF Follows
  <2>2. CASE k # 0
    <3>1. k \in 1..Len(s) /\ k \in 1..(Len(s) - 1) /\ k + 1 \in 1..Len(s)
      BY <1>1, <2>2
    <3>2. k \in 1..Len(t) /\ s[k] = t[k]
      BY <1>3, <3>1
    <3>3. nd[t[k]][link] = s[k + 1] /\ s[k + 1] # Null
      BY <1>1, <3>1, <3>2, NullIsNone DEF Follows
    <3>4. k # Len(t)
      BY <1>1, <3>2, <3>3 DEF Follows
    <3>5. k \in 1..(Len(t) - 1) /\ k + 1 \in 1..Len(t)
      BY <1>1, <3>2, <3>4, NextIndex
    <3> QED BY <3>3, <3>5 DEF Follows
  <2> QED BY <2>1, <2>2
<1> HIDE DEF H
<1>4. Nat \subseteq H
  BY <1>2, <1>3, SetInduction
<1>5. \A k \in 1..Len(s) : k \in 1..Len(t) /\ s[k] = t[k]
  BY <1>1, <1>4 DEF H
<1>6. Len(s) = Len(t)
  <2>1. Len(s) <= Len(t)
    BY <1>1, <1>5
  <2>2. CASE Len(s) = 0
    BY <1>1, <2>2 DEF Follows
  <2>3. CASE Len(s) > 0 /\ Len(s) < Len(t)
    <3>1. Len(s) \in 1..Len(s) /\ Len(s) \in 1..(Len(t) - 1) /\ Len(s) + 1 \in 1..Len(t)
      BY <1>1, <2>3
    <3>2. nd[t[Len(s)]][link] = Null /\ nd[t[Len(s)]][link] = t[Len(s) + 1] /\ t[Len(s) + 1] \in L
      BY <1>1, <1>5, <2>3, <3>1 DEF Follows
    <3> QED BY <3>2, NullIsNone
  <2>4. Len(s) = Len(t) \/ Len(s) = 0 \/ (Len(s) > 0 /\ Len(s) < Len(t))
    BY <1>1, <2>1, ShorterOr
  <2> QED BY <2>2, <2>3, <2>4
<1> QED BY <1>1, <1>5, <1>6, SeqEqual

\* It passes through start, whatever it passes through next, and nothing else.
LEMMA FollowsElems ==
  ASSUME NEW nd, NEW link, NEW L, L \subseteq Nodes, NEW start, NEW s,
         Follows(nd, link, start, L, s)
  PROVE  /\ Elems(s) \subseteq L /\ Leads(nd, link, start, L, Elems(s))
         /\ \A C : Leads(nd, link, start, L, C) => Elems(s) \subseteq C
<1>1. s \in Seq(L) /\ Len(s) \in Nat /\ s \in [1..Len(s) -> L] /\ DOMAIN s = 1..Len(s)
  BY LenProperties DEF Follows
<1>2. Elems(s) = {s[i] : i \in 1..Len(s)}
  BY <1>1 DEF Elems
<1>3. Elems(s) \subseteq L
  BY <1>1, <1>2
<1>4. start # Null => start \in Elems(s)
  BY <1>1, <1>2 DEF Follows
<1>5. ASSUME NEW k \in Elems(s), nd[k][link] # Null PROVE nd[k][link] \in Elems(s)
  <2>1. PICK i \in 1..Len(s) : k = s[i]
    BY <1>2
  <2>2. i # Len(s)
    <3> SUFFICES ASSUME i = Len(s) PROVE FALSE
      OBVIOUS
    <3>1. Len(s) > 0
      BY <1>1
    <3>2. nd[s[Len(s)]][link] = Null
      BY <3>1 DEF Follows
    <3> QED BY <1>5, <2>1, <3>2
  <2>3. i \in 1..(Len(s) - 1) /\ i + 1 \in 1..Len(s)
    BY <1>1, <2>2, NextIndex
  <2> QED BY <1>2, <2>1, <2>3 DEF Follows
<1>6. ASSUME NEW C, Leads(nd, link, start, L, C)
      PROVE  Elems(s) \subseteq C
  <2> DEFINE H == {k \in Nat : k \in 1..Len(s) => s[k] \in C}
  <2>1. 0 \in H
    OBVIOUS
  <2>2. ASSUME NEW k \in Nat, k \in H PROVE k + 1 \in H
    <3> SUFFICES ASSUME k + 1 \in 1..Len(s) PROVE s[k + 1] \in C
      OBVIOUS
    <3>1. CASE k = 0
      BY <1>1, <1>6, <3>1 DEF Follows, Leads
    <3>2. CASE k # 0
      <4>1. k \in 1..(Len(s) - 1) /\ k \in 1..Len(s)
        BY <1>1, <3>2
      <4>2. s[k] \in C /\ s[k] \in L /\ nd[s[k]][link] = s[k + 1] /\ s[k + 1] # Null
        BY <1>1, <2>2, <4>1, NullIsNone DEF Follows
      <4> QED BY <1>6, <4>2 DEF Leads
    <3> QED BY <3>1, <3>2
  <2> HIDE DEF H
  <2>3. Nat \subseteq H
    BY <2>1, <2>2, SetInduction
  <2>4. \A k \in 1..Len(s) : s[k] \in C
    BY <1>1, <2>3 DEF H
  <2> QED BY <1>2, <2>4
<1> QED BY <1>3, <1>4, <1>5, <1>6 DEF Leads

-----------------------------------------------------------------------------
(***************************************************************************)
(* What the links of trees are, and which changes keep them                *)
(***************************************************************************)
\* What the links of the nodes in L are: next and prev are each other's inverse and go
\* from sibling to sibling, up an order h;
Onward(nd, L, h) ==
  \A m \in L : nd[m].next # Null =>
    /\ nd[m].next \in L /\ nd[nd[m].next].prev = m
    /\ nd[nd[m].next].parent = nd[m].parent /\ h[m] < h[nd[m].next]
BackLinks(nd, L) ==
  \A m \in L : nd[m].prev # Null => nd[m].prev \in L /\ nd[nd[m].prev].next = m
\* a node without a parent has no siblings;
Rooted(nd, L) ==
  \A m \in L : nd[m].parent = Null => nd[m].prev = Null /\ nd[m].next = Null
\* parents have a lower rank and are not documents' parents;
Upward(nd, L, g) ==
  \A m \in L : nd[m].parent # Null =>
    nd[m].parent \in L /\ g[nd[m].parent] < g[m] /\ nd[m].kind # "document"
\* a parent knows the first and the last of its children.
Ends(nd, L) ==
  \A m \in L : nd[m].parent # Null =>
    /\ nd[m].prev = Null => nd[nd[m].parent].firstChild = m
    /\ nd[m].next = Null => nd[nd[m].parent].lastChild = m
Downward(nd, L) ==
  \A m \in L :
    /\ nd[m].firstChild = Null <=> nd[m].lastChild = Null
    /\ nd[m].firstChild # Null =>
         /\ nd[m].firstChild \in L /\ nd[nd[m].firstChild].parent = m
         /\ nd[nd[m].firstChild].prev = Null
    /\ nd[m].lastChild # Null =>
         /\ nd[m].lastChild \in L /\ nd[nd[m].lastChild].parent = m
         /\ nd[nd[m].lastChild].next = Null

LiveIn(nd, L) == L = {n \in Nodes : nd[n].kind # "free"}
Local(nd, L) == BackLinks(nd, L) /\ Rooted(nd, L) /\ Ends(nd, L) /\ Downward(nd, L)
Ordered(nd, L) ==
  /\ \E h \in [Nodes -> Int] : Onward(nd, L, h)
  /\ \E g \in [Nodes -> Int] : Upward(nd, L, g)

\* The nodes in use make up trees.
TreesOn(nd, L) ==
  nd \in [Nodes -> NodeRecords] /\ LiveIn(nd, L) /\ Local(nd, L) /\ Ordered(nd, L)

\* Two objects with the same kind and links.
Alike(r, s) ==
  /\ r.kind = s.kind /\ r.parent = s.parent /\ r.prev = s.prev /\ r.next = s.next
  /\ r.firstChild = s.firstChild /\ r.lastChild = s.lastChild

\* D has the children of its members.
Closed(nd, L, D) == \A m \in L : nd[m].parent \in D => m \in D

\* An object that is in use and linked to none.
Alone(r) ==
  /\ r.kind # "free" /\ r.parent = Null /\ r.prev = Null /\ r.next = Null
  /\ r.firstChild = Null /\ r.lastChild = Null

\* The nodes in use, and where their pointers may lead.
LEMMA FieldsAre ==
  ASSUME NEW nd, NEW L, TreesOn(nd, L), NEW m \in Nodes
  PROVE  /\ L \subseteq Nodes /\ m \in L <=> nd[m].kind # "free"
         /\ nd[m].parent \in PointersTo /\ nd[m].prev \in PointersTo /\ nd[m].next \in PointersTo
         /\ nd[m].firstChild \in PointersTo /\ nd[m].lastChild \in PointersTo
BY DEF TreesOn, LiveIn, NodeRecords

\* A node that is linked to none is a tree of its own.
LEMMA NewOn ==
  ASSUME NEW nd, NEW L, TreesOn(nd, L), NEW n \in Nodes \ L,
         NEW w \in [Nodes -> NodeRecords], Alone(w[n]),
         \A k \in Nodes \ {n} : Alike(w[k], nd[k])
  PROVE  TreesOn(w, L \cup {n})
<1> DEFINE M == L \cup {n}
<1>1. L \subseteq Nodes /\ n \notin L /\ n # Null /\ \A k \in L : k # n
  BY NullIsNone DEF TreesOn, LiveIn
<1>2. \A k \in L : Alike(w[k], nd[k])
  BY <1>1
<1>3. LiveIn(w, M)
  BY <1>1 DEF LiveIn, TreesOn, Alike, Alone
<1>4. PICK h \in [Nodes -> Int] : Onward(nd, L, h)
  BY DEF TreesOn, Ordered
<1>5. PICK g \in [Nodes -> Int] : Upward(nd, L, g)
  BY DEF TreesOn, Ordered
<1>6. BackLinks(nd, L) /\ Rooted(nd, L) /\ Ends(nd, L) /\ Downward(nd, L)
  BY DEF TreesOn, Local
<1>7. Onward(w, M, h)
  BY <1>1, <1>2, <1>4 DEF Onward, Alike, Alone
<1>8. Upward(w, M, g)
  BY <1>1, <1>2, <1>5 DEF Upward, Alike, Alone
<1>9. BackLinks(w, M)
  BY <1>1, <1>2, <1>6 DEF BackLinks, Alike, Alone
<1>10. Rooted(w, M)
  BY <1>1, <1>2, <1>6 DEF Rooted, Alike, Alone
<1>11. Ends(w, M)
  BY <1>1, <1>2, <1>5, <1>6 DEF Ends, Upward, Alike, Alone
<1>12. Downward(w, M)
  BY <1>1, <1>2, <1>6 DEF Downward, Alike, Alone
<1> QED BY <1>3, <1>7, <1>8, <1>9, <1>10, <1>11, <1>12 DEF TreesOn, Local, Ordered

\* Values and errors are not what makes a tree.
LEMMA AlikeOn ==
  ASSUME NEW nd, NEW L, TreesOn(nd, L), NEW w \in [Nodes -> NodeRecords],
         \A k \in Nodes : Alike(w[k], nd[k])
  PROVE  TreesOn(w, L)
<1>1. L \subseteq Nodes /\ \A k \in L : Alike(w[k], nd[k])
  BY DEF TreesOn, LiveIn
<1>2. LiveIn(w, L)
  BY DEF LiveIn, TreesOn, Alike
<1>3. Ordered(w, L)
  <2>1. PICK h \in [Nodes -> Int] : Onward(nd, L, h)
    BY DEF TreesOn, Ordered
  <2>2. PICK g \in [Nodes -> Int] : Upward(nd, L, g)
    BY DEF TreesOn, Ordered
  <2>3. Onward(w, L, h)
    BY <1>1, <2>1 DEF Onward, Alike
  <2>4. Upward(w, L, g)
    BY <1>1, <2>2 DEF Upward, Alike
  <2> QED BY <2>3, <2>4 DEF Ordered
<1>4. Local(w, L)
  <2>1. BackLinks(w, L) /\ Rooted(w, L)
    BY <1>1 DEF TreesOn, Local, BackLinks, Rooted, Alike
  <2>2. PICK g \in [Nodes -> Int] : Upward(nd, L, g)
    BY DEF TreesOn, Ordered
  <2>3. Ends(w, L)
    BY <1>1, <2>2 DEF TreesOn, Local, Ends, Upward, Alike
  <2>4. Downward(w, L)
    BY <1>1 DEF TreesOn, Local, Downward, Alike
  <2> QED BY <2>1, <2>3, <2>4 DEF Local
<1> QED BY <1>2, <1>3, <1>4 DEF TreesOn

\* Trees of whole lists of children are taken away.
LEMMA DropOn ==
  ASSUME NEW nd, NEW L, TreesOn(nd, L), NEW D, D \subseteq L, Closed(nd, L, D),
         \A c \in D, e \in L : nd[c].parent # Null /\ nd[e].parent = nd[c].parent => e \in D,
         NEW w \in [Nodes -> NodeRecords],
         \A k \in D : w[k].kind = "free",
         \A k \in Nodes \ D : w[k].kind = nd[k].kind,
         \A k \in L \ D :
           /\ w[k].parent = nd[k].parent /\ w[k].prev = nd[k].prev /\ w[k].next = nd[k].next
           /\ w[k].firstChild = IF nd[k].firstChild \in D THEN Null ELSE nd[k].firstChild
           /\ w[k].lastChild = IF nd[k].lastChild \in D THEN Null ELSE nd[k].lastChild
  PROVE  TreesOn(w, L \ D)
<1> DEFINE M == L \ D
<1>1. L \subseteq Nodes /\ Null \notin D
  BY NullIsNone DEF TreesOn, LiveIn
<1>2. LiveIn(w, M)
  BY <1>1 DEF LiveIn, TreesOn
<1>3. PICK h \in [Nodes -> Int] : Onward(nd, L, h)
  BY DEF TreesOn, Ordered
<1>4. PICK g \in [Nodes -> Int] : Upward(nd, L, g)
  BY DEF TreesOn, Ordered
<1>5. BackLinks(nd, L) /\ Rooted(nd, L) /\ Ends(nd, L) /\ Downward(nd, L)
  BY DEF TreesOn, Local
<1>6. ASSUME NEW k \in M
      PROVE  /\ k \in L /\ k \in Nodes \ D
             /\ nd[k].next # Null => nd[k].next \in M
             /\ nd[k].prev # Null => nd[k].prev \in M
             /\ nd[k].parent # Null => nd[k].parent \in M
             /\ nd[k].firstChild \in M <=> w[k].firstChild # Null
             /\ nd[k].lastChild \in M <=> w[k].lastChild # Null
             /\ nd[k].firstChild \in D <=> nd[k].lastChild \in D
  <2>1. nd[k].next # Null => nd[k].next \in M
    BY <1>3, <1>5, <1>6 DEF Onward, Rooted
  <2>2. nd[k].prev # Null => nd[k].prev \in M
    <3> SUFFICES ASSUME nd[k].prev # Null PROVE nd[k].prev \in M
      OBVIOUS
    <3>1. /\ nd[k].prev \in L /\ nd[nd[k].prev].next = k /\ k # Null
          /\ nd[nd[k].prev].parent = nd[k].parent /\ nd[k].parent # Null
      BY <1>1, <1>3, <1>5, NullIsNone DEF Onward, Rooted, BackLinks
    <3> QED BY <3>1
  <2>3. nd[k].parent # Null => nd[k].parent \in M
    BY <1>4 DEF Upward, Closed
  <2>4. /\ nd[k].firstChild # Null =>
             nd[k].firstChild \in L /\ nd[nd[k].firstChild].parent = k
        /\ nd[k].lastChild # Null =>
             nd[k].lastChild \in L /\ nd[nd[k].lastChild].parent = k
        /\ nd[k].firstChild = Null <=> nd[k].lastChild = Null
        /\ k # Null
    BY <1>1, <1>5, NullIsNone DEF Downward
  <2>5. nd[k].firstChild \in D <=> nd[k].lastChild \in D
    BY <1>1, <2>4
  <2>6. k \in Nodes \ D /\ Null \notin M
    BY <1>1, NullIsNone
  <2> QED BY <1>1, <2>1, <2>2, <2>3, <2>4, <2>5, <2>6
<1>7. Onward(w, M, h)
  BY <1>3, <1>6 DEF Onward
<1>8. Upward(w, M, g)
  BY <1>4, <1>6 DEF Upward
<1>9. BackLinks(w, M) /\ Rooted(w, M)
  BY <1>5, <1>6 DEF BackLinks, Rooted
<1>10. Ends(w, M)
  BY <1>5, <1>6 DEF Ends
<1>11. Downward(w, M)
  BY <1>5, <1>6 DEF Downward
<1> QED BY <1>2, <1>7, <1>8, <1>9, <1>10, <1>11 DEF TreesOn, Local, Ordered

\* The links of k in w, when in nd x is a child of n and is taken out of the list.
DetachedAt(w, nd, n, x, k) ==
  /\ w[k].kind = nd[k].kind /\ w[k].value = nd[k].value
  /\ w[k].parent = IF k = x THEN Null ELSE nd[k].parent
  /\ w[k].prev = IF k = x THEN Null ELSE IF k = nd[x].next THEN nd[x].prev ELSE nd[k].prev
  /\ w[k].next = IF k = x THEN Null ELSE IF k = nd[x].prev THEN nd[x].next ELSE nd[k].next
  /\ w[k].firstChild = IF k = n /\ nd[x].prev = Null THEN nd[x].next ELSE nd[k].firstChild
  /\ w[k].lastChild = IF k = n /\ nd[x].next = Null THEN nd[x].prev ELSE nd[k].lastChild

\* A child is taken out of the list it is in.
LEMMA DetachOn ==
  ASSUME NEW nd, NEW L, TreesOn(nd, L), NEW n \in L, NEW x \in L, nd[x].parent = n,
         NEW w \in [Nodes -> NodeRecords], \A k \in Nodes : DetachedAt(w, nd, n, x, k)
  PROVE  TreesOn(w, L)
<1>1. L \subseteq Nodes /\ Null \notin L /\ \A k \in L : DetachedAt(w, nd, n, x, k)
  BY NullIsNone DEF TreesOn, LiveIn
<1>2. LiveIn(w, L)
  BY DEF LiveIn, TreesOn, DetachedAt
<1>3. PICK h \in [Nodes -> Int] : Onward(nd, L, h)
  BY DEF TreesOn, Ordered
<1>4. PICK g \in [Nodes -> Int] : Upward(nd, L, g)
  BY DEF TreesOn, Ordered
<1>5. BackLinks(nd, L) /\ Rooted(nd, L) /\ Ends(nd, L) /\ Downward(nd, L)
  BY DEF TreesOn, Local
<1>6. /\ nd[x].next # Null => /\ nd[x].next \in L /\ nd[nd[x].next].prev = x
                              /\ nd[nd[x].next].parent = n /\ h[x] < h[nd[x].next]
      /\ nd[x].prev # Null => /\ nd[x].prev \in L /\ nd[nd[x].prev].next = x
                              /\ nd[nd[x].prev].parent = n /\ h[nd[x].prev] < h[x]
      /\ nd[x].next # x /\ nd[x].prev # x /\ n # x
      /\ h \in [Nodes -> Int]
  BY <1>1, <1>3, <1>4, <1>5 DEF Onward, BackLinks, Upward
<1>7. Onward(w, L, h)
  <2> SUFFICES ASSUME NEW m \in L, w[m].next # Null
               PROVE  /\ w[m].next \in L /\ w[w[m].next].prev = m
                      /\ w[w[m].next].parent = w[m].parent /\ h[m] < h[w[m].next]
    BY DEF Onward
  <2>1. m # x /\ DetachedAt(w, nd, n, x, m)
    BY <1>1 DEF DetachedAt
  <2>2. CASE m = nd[x].prev
    <3>1. w[m].next = nd[x].next /\ nd[x].next \in L /\ nd[x].next # x
      BY <1>6, <2>1, <2>2 DEF DetachedAt
    <3>2. DetachedAt(w, nd, n, x, nd[x].next)
      BY <1>1, <3>1
    <3>3. w[nd[x].next].prev = nd[x].prev /\ w[nd[x].next].parent = n /\ w[m].parent = n
      BY <1>6, <2>1, <2>2, <3>1, <3>2, <1>1 DEF DetachedAt
    <3>4. m \in L /\ h[m] \in Int /\ h[x] \in Int /\ h[nd[x].next] \in Int
      BY <1>1, <1>6, <3>1
    <3>5. h[m] < h[x] /\ h[x] < h[nd[x].next]
      BY <1>1, <1>6, <2>2, <3>1
    <3>6. h[m] < h[nd[x].next]
      BY <3>4, <3>5
    <3> QED BY <2>2, <3>1, <3>3, <3>6
  <2>3. CASE m # nd[x].prev
    <3>1. w[m].next = nd[m].next /\ w[m].parent = nd[m].parent
      BY <2>1, <2>3 DEF DetachedAt
    <3>2. /\ nd[m].next \in L /\ nd[nd[m].next].prev = m
          /\ nd[nd[m].next].parent = nd[m].parent /\ h[m] < h[nd[m].next]
      BY <1>3, <3>1 DEF Onward
    <3>3. nd[m].next # x /\ nd[m].next # nd[x].next
      BY <1>1, <1>6, <2>1, <2>3, <3>2
    <3>4. DetachedAt(w, nd, n, x, nd[m].next)
      BY <1>1, <3>2
    <3> QED BY <3>1, <3>2, <3>3, <3>4 DEF DetachedAt
  <2> QED BY <2>2, <2>3
<1>8. Upward(w, L, g)
  BY <1>1, <1>4 DEF Upward, DetachedAt
<1>9. BackLinks(w, L)
  <2> SUFFICES ASSUME NEW m \in L, w[m].prev # Null
               PROVE  w[m].prev \in L /\ w[w[m].prev].next = m
    BY DEF BackLinks
  <2>1. m # x /\ DetachedAt(w, nd, n, x, m)
    BY <1>1 DEF DetachedAt
  <2>2. CASE m = nd[x].next
    <3>1. w[m].prev = nd[x].prev /\ nd[x].prev \in L /\ nd[x].prev # x
      BY <1>6, <2>1, <2>2 DEF DetachedAt
    <3>2. DetachedAt(w, nd, n, x, nd[x].prev)
      BY <1>1, <3>1
    <3> QED BY <1>6, <2>2, <3>1, <3>2 DEF DetachedAt
  <2>3. CASE m # nd[x].next
    <3>1. w[m].prev = nd[m].prev
      BY <2>1, <2>3 DEF DetachedAt
    <3>2. nd[m].prev \in L /\ nd[nd[m].prev].next = m
      BY <1>5, <3>1 DEF BackLinks
    <3>3. nd[m].prev # x /\ nd[m].prev # nd[x].prev
      BY <1>1, <1>6, <2>1, <2>3, <3>2
    <3>4. DetachedAt(w, nd, n, x, nd[m].prev)
      BY <1>1, <3>2
    <3> QED BY <3>1, <3>2, <3>3, <3>4 DEF DetachedAt
  <2> QED BY <2>2, <2>3
<1>10. Rooted(w, L)
  BY <1>1, <1>5, <1>6 DEF Rooted, DetachedAt
<1>11. Ends(w, L)
  <2> SUFFICES ASSUME NEW m \in L, w[m].parent # Null
               PROVE  /\ w[m].prev = Null => w[w[m].parent].firstChild = m
                      /\ w[m].next = Null => w[w[m].parent].lastChild = m
    BY DEF Ends
  <2>1. m # x /\ DetachedAt(w, nd, n, x, m) /\ w[m].parent = nd[m].parent
    BY <1>1 DEF DetachedAt
  <2>2. nd[m].parent \in L /\ DetachedAt(w, nd, n, x, nd[m].parent)
    BY <1>1, <1>4, <2>1 DEF Upward
  <2>3. ASSUME w[m].prev = Null PROVE w[nd[m].parent].firstChild = m
    <3>1. CASE m = nd[x].next
      BY <1>6, <1>1, <2>1, <2>2, <2>3, <3>1 DEF DetachedAt
    <3>2. CASE m # nd[x].next
      <4>1. nd[m].prev = Null
        BY <2>1, <2>3, <3>2 DEF DetachedAt
      <4>2. nd[nd[m].parent].firstChild = m
        BY <1>5, <2>1, <4>1 DEF Ends
      <4>3. ~ (nd[m].parent = n /\ nd[x].prev = Null)
        BY <1>1, <1>5, <2>1, <4>2 DEF Ends
      <4> QED BY <2>2, <4>2, <4>3 DEF DetachedAt
    <3> QED BY <3>1, <3>2
  <2>4. ASSUME w[m].next = Null PROVE w[nd[m].parent].lastChild = m
    <3>1. CASE m = nd[x].prev
      BY <1>6, <1>1, <2>1, <2>2, <2>4, <3>1 DEF DetachedAt
    <3>2. CASE m # nd[x].prev
      <4>1. nd[m].next = Null
        BY <2>1, <2>4, <3>2 DEF DetachedAt
      <4>2. nd[nd[m].parent].lastChild = m
        BY <1>5, <2>1, <4>1 DEF Ends
      <4>3. ~ (nd[m].parent = n /\ nd[x].next = Null)
        BY <1>1, <1>5, <2>1, <4>2 DEF Ends
      <4> QED BY <2>2, <4>2, <4>3 DEF DetachedAt
    <3> QED BY <3>1, <3>2
  <2> QED BY <2>1, <2>3, <2>4
<1>12. Downward(w, L)
  <2> SUFFICES ASSUME NEW m \in L
               PROVE  /\ w[m].firstChild = Null <=> w[m].lastChild = Null
                      /\ w[m].firstChild # Null =>
                           /\ w[m].firstChild \in L /\ w[w[m].firstChild].parent = m
                           /\ w[w[m].firstChild].prev = Null
                      /\ w[m].lastChild # Null =>
                           /\ w[m].lastChild \in L /\ w[w[m].lastChild].parent = m
                           /\ w[w[m].lastChild].next = Null
    BY DEF Downward
  <2>1. DetachedAt(w, nd, n, x, m)
    BY <1>1
  <2>0. /\ nd[m].firstChild = Null <=> nd[m].lastChild = Null
        /\ nd[m].firstChild # Null =>
             /\ nd[m].firstChild \in L /\ nd[nd[m].firstChild].parent = m
             /\ nd[nd[m].firstChild].prev = Null
        /\ nd[m].lastChild # Null =>
             /\ nd[m].lastChild \in L /\ nd[nd[m].lastChild].parent = m
             /\ nd[nd[m].lastChild].next = Null
    BY <1>5 DEF Downward
  <2>2. /\ nd[x].prev = Null => nd[n].firstChild = x
        /\ nd[x].next = Null => nd[n].lastChild = x
    BY <1>1, <1>5 DEF Ends
  <2>3. w[m].firstChild = Null <=> w[m].lastChild = Null
    <3>1. CASE m # n
      BY <2>0, <2>1, <3>1 DEF DetachedAt
    <3>2. CASE m = n
      BY <1>1, <2>0, <2>1, <2>2, <3>2 DEF DetachedAt
    <3> QED BY <3>1, <3>2
  <2>4. ASSUME w[m].firstChild # Null
        PROVE  /\ w[m].firstChild \in L /\ w[w[m].firstChild].parent = m
               /\ w[w[m].firstChild].prev = Null
    <3>1. CASE m = n /\ nd[x].prev = Null
      <4>1. w[m].firstChild = nd[x].next /\ nd[x].next \in L
        BY <1>6, <2>1, <2>4, <3>1 DEF DetachedAt
      <4>2. DetachedAt(w, nd, n, x, nd[x].next)
        BY <1>1, <4>1
      <4> QED BY <1>1, <1>6, <3>1, <4>1, <4>2 DEF DetachedAt
    <3>2. CASE ~ (m = n /\ nd[x].prev = Null)
      <4>1. w[m].firstChild = nd[m].firstChild
        BY <2>1, <3>2 DEF DetachedAt
      <4>2. nd[m].firstChild # x /\ nd[m].firstChild # nd[x].next
        BY <1>1, <1>6, <2>0, <2>4, <3>2, <4>1
      <4>3. DetachedAt(w, nd, n, x, nd[m].firstChild)
        BY <1>1, <2>0, <2>4, <4>1
      <4> QED BY <2>0, <2>4, <4>1, <4>2, <4>3 DEF DetachedAt
    <3> QED BY <3>1, <3>2
  <2>5. ASSUME w[m].lastChild # Null
        PROVE  /\ w[m].lastChild \in L /\ w[w[m].lastChild].parent = m
               /\ w[w[m].lastChild].next = Null
    <3>1. CASE m = n /\ nd[x].next = Null
      <4>1. w[m].lastChild = nd[x].prev /\ nd[x].prev \in L
        BY <1>6, <2>1, <2>5, <3>1 DEF DetachedAt
      <4>2. DetachedAt(w, nd, n, x, nd[x].prev)
        BY <1>1, <4>1
      <4> QED BY <1>1, <1>6, <3>1, <4>1, <4>2 DEF DetachedAt
    <3>2. CASE ~ (m = n /\ nd[x].next = Null)
      <4>1. w[m].lastChild = nd[m].lastChild
        BY <2>1, <3>2 DEF DetachedAt
      <4>2. nd[m].lastChild # x /\ nd[m].lastChild # nd[x].prev
        BY <1>1, <1>6, <2>0, <2>5, <3>2, <4>1
      <4>3. DetachedAt(w, nd, n, x, nd[m].lastChild)
        BY <1>1, <2>0, <2>5, <4>1
      <4> QED BY <2>0, <2>5, <4>1, <4>2, <4>3 DEF DetachedAt
    <3> QED BY <3>1, <3>2
  <2> QED BY <2>3, <2>4, <2>5
<1> QED BY <1>2, <1>7, <1>8, <1>9, <1>10, <1>11, <1>12 DEF TreesOn, Local, Ordered

\* The links of k in w, when x is put between two neighbours.
JoinedAt(w, nd, n, before, x, after, k) ==
  /\ w[k].kind = nd[k].kind /\ w[k].value = nd[k].value
  /\ w[k].parent = IF k = x THEN n ELSE nd[k].parent
  /\ w[k].prev = IF k = x THEN before ELSE IF k = after THEN x ELSE nd[k].prev
  /\ w[k].next = IF k = x THEN after ELSE IF k = before THEN x ELSE nd[k].next
  /\ w[k].firstChild = IF k = n /\ before = Null THEN x ELSE nd[k].firstChild
  /\ w[k].lastChild = IF k = n /\ after = Null THEN x ELSE nd[k].lastChild

\* before and after are neighbours in the list of n, or stand for one of its ends.
Adjacent(nd, L, n, before, after) ==
  /\ before \in L \cup {Null} /\ after \in L \cup {Null}
  /\ before # Null => nd[before].parent = n /\ nd[before].next = after
  /\ before = Null => nd[n].firstChild = after
  /\ after # Null => nd[after].parent = n /\ nd[after].prev = before
  /\ after = Null => nd[n].lastChild = before

\* Where orders are doubled, there is room between two.
LEMMA Middle ==
  ASSUME NEW p \in Int, NEW q \in Int
  PROVE  /\ p < q => 2 * p < 2 * q /\ 2 * p < 2 * p + 1 /\ 2 * p + 1 < 2 * q
         /\ 2 * p < 2 * p + 1 /\ 2 * q - 1 < 2 * q
         /\ 2 * p \in Int /\ 2 * p + 1 \in Int /\ 2 * q - 1 \in Int
OBVIOUS

\* A root is linked into a list; the tree below it gets a rank above that of its parent.
LEMMA JoinOn ==
  ASSUME NEW nd, NEW L, TreesOn(nd, L), NEW n \in L, NEW x \in L, NEW D, D \subseteq L,
         Closed(nd, L, D), x \in D, n \notin D,
         nd[x].parent = Null, nd[x].kind # "document",
         NEW before, NEW after, Adjacent(nd, L, n, before, after),
         NEW w \in [Nodes -> NodeRecords],
         \A k \in Nodes : JoinedAt(w, nd, n, before, x, after, k)
  PROVE  TreesOn(w, L)
<1>1. L \subseteq Nodes /\ Null \notin L /\ n # x
      /\ \A k \in L : JoinedAt(w, nd, n, before, x, after, k)
  BY NullIsNone DEF TreesOn, LiveIn
<1>2. LiveIn(w, L)
  BY DEF LiveIn, TreesOn, JoinedAt
<1>3. PICK h \in [Nodes -> Int] : Onward(nd, L, h)
  BY DEF TreesOn, Ordered
<1>4. PICK g \in [Nodes -> Int] : Upward(nd, L, g)
  BY DEF TreesOn, Ordered
<1>5. BackLinks(nd, L) /\ Rooted(nd, L) /\ Ends(nd, L) /\ Downward(nd, L)
  BY DEF TreesOn, Local
<1>6. /\ nd[x].prev = Null /\ nd[x].next = Null
      /\ before # x /\ after # x
      /\ before # Null => before \in L
      /\ after # Null => after \in L
      /\ before # Null /\ after # Null => h[before] < h[after]
  BY <1>1, <1>3, <1>5 DEF Rooted, Adjacent, Onward
<1> DEFINE hx == IF before # Null THEN 2 * h[before] + 1
                 ELSE IF after # Null THEN 2 * h[after] - 1 ELSE 0
           h2 == [k \in Nodes |-> IF k = x THEN hx ELSE 2 * h[k]]
           up == IF g[x] <= g[n] THEN g[n] - g[x] + 1 ELSE 0
           g2 == [k \in Nodes |-> IF k \in D THEN g[k] + up ELSE g[k]]
<1>7. /\ h2 \in [Nodes -> Int]
      /\ \A k, m \in L : k # x /\ m # x /\ h[k] < h[m] => h2[k] < h2[m]
      /\ before # Null => h2[before] < h2[x]
      /\ after # Null => h2[x] < h2[after]
  <2>1. hx \in Int
    <3>1. before # Null => h[before] \in Int
      BY <1>1, <1>6
    <3>2. after # Null => h[after] \in Int
      BY <1>1, <1>6
    <3> QED BY <3>1, <3>2, Middle
  <2>2. \A k \in Nodes : 2 * h[k] \in Int
    BY Middle
  <2>3. before # Null => 2 * h[before] < hx
    <3>1. before # Null => h[before] \in Int
      BY <1>1, <1>6
    <3> QED BY <3>1, Middle
  <2>4. after # Null => hx < 2 * h[after]
    <3>1. /\ before # Null => h[before] \in Int
          /\ after # Null => h[after] \in Int
      BY <1>1, <1>6
    <3> QED BY <1>6, <3>1, Middle
  <2>5. \A k, m \in L : h[k] < h[m] => 2 * h[k] < 2 * h[m]
    <3>1. \A k \in L : h[k] \in Int
      BY <1>1
    <3> QED BY <3>1, Middle
  <2> HIDE DEF hx
  <2>6. x \in Nodes /\ h2[x] = hx /\ \A k \in L : k # x => h2[k] = 2 * h[k]
    BY <1>1
  <2>7. h2 \in [Nodes -> Int]
    BY <2>1, <2>2
  <2> HIDE DEF h2
  <2> QED BY <1>6, <2>3, <2>4, <2>5, <2>6, <2>7
<1>8. /\ g2 \in [Nodes -> Int]
      /\ \A k, m \in L : g[k] < g[m] /\ (k \in D => m \in D) => g2[k] < g2[m]
      /\ g2[n] < g2[x]
  <2>1. \A k \in L : g[k] \in Int
    BY <1>1
  <2>2. up \in Nat /\ g[n] < g[x] + up
    <3>1. g[n] \in Int /\ g[x] \in Int
      BY <2>1
    <3> QED BY <3>1
  <2> HIDE DEF up
  <2>3. /\ \A k \in L : g2[k] = IF k \in D THEN g[k] + up ELSE g[k]
        /\ g2 \in [Nodes -> Int]
    BY <1>1, <2>2
  <2> HIDE DEF g2
  <2>4. ASSUME NEW k \in L, NEW m \in L, g[k] < g[m], k \in D => m \in D PROVE g2[k] < g2[m]
    <3>1. g[k] \in Int /\ g[m] \in Int
      BY <2>1
    <3> QED BY <2>2, <2>3, <2>4, <3>1
  <2> QED BY <2>2, <2>3, <2>4
<1> HIDE DEF h2, g2
<1>9. Onward(w, L, h2)
  <2> SUFFICES ASSUME NEW m \in L, w[m].next # Null
               PROVE  /\ w[m].next \in L /\ w[w[m].next].prev = m
                      /\ w[w[m].next].parent = w[m].parent /\ h2[m] < h2[w[m].next]
    BY DEF Onward
  <2>1. JoinedAt(w, nd, n, before, x, after, m) /\ m # Null
    BY <1>1
  <2>2. CASE m = x
    <3>1. w[m].next = after /\ after \in L /\ w[m].parent = n
      BY <1>6, <2>1, <2>2 DEF JoinedAt
    <3>2. JoinedAt(w, nd, n, before, x, after, after)
      BY <1>1, <3>1
    <3> QED BY <1>1, <1>6, <1>7, <2>2, <3>1, <3>2 DEF JoinedAt, Adjacent
  <2>3. CASE m # x /\ m = before
    <3>1. w[m].next = x /\ w[m].parent = n
      BY <2>1, <2>3 DEF JoinedAt, Adjacent
    <3>2. JoinedAt(w, nd, n, before, x, after, x)
      BY <1>1
    <3> QED BY <1>7, <2>1, <2>3, <3>1, <3>2 DEF JoinedAt
  <2>4. CASE m # x /\ m # before
    <3>1. w[m].next = nd[m].next /\ w[m].parent = nd[m].parent
      BY <2>1, <2>4 DEF JoinedAt
    <3>2. /\ nd[m].next \in L /\ nd[nd[m].next].prev = m
          /\ nd[nd[m].next].parent = nd[m].parent /\ h[m] < h[nd[m].next]
      BY <1>3, <3>1 DEF Onward
    <3>3. nd[m].next # x /\ nd[m].next # after
      BY <1>1, <1>6, <2>1, <2>4, <3>2 DEF Adjacent
    <3>4. JoinedAt(w, nd, n, before, x, after, nd[m].next)
      BY <1>1, <3>2
    <3> QED BY <1>7, <2>4, <3>1, <3>2, <3>3, <3>4 DEF JoinedAt
  <2> QED BY <2>2, <2>3, <2>4
<1>10. Upward(w, L, g2)
  <2> SUFFICES ASSUME NEW m \in L, w[m].parent # Null
               PROVE  w[m].parent \in L /\ g2[w[m].parent] < g2[m] /\ w[m].kind # "document"
    BY DEF Upward
  <2>1. JoinedAt(w, nd, n, before, x, after, m)
    BY <1>1
  <2>2. CASE m = x
    BY <1>8, <2>1, <2>2 DEF JoinedAt
  <2>3. CASE m # x
    BY <1>4, <1>8, <2>1, <2>3 DEF JoinedAt, Upward, Closed
  <2> QED BY <2>2, <2>3
<1>11. BackLinks(w, L)
  <2> SUFFICES ASSUME NEW m \in L, w[m].prev # Null
               PROVE  w[m].prev \in L /\ w[w[m].prev].next = m
    BY DEF BackLinks
  <2>1. JoinedAt(w, nd, n, before, x, after, m) /\ m # Null
    BY <1>1
  <2>2. CASE m = x
    <3>1. w[m].prev = before /\ before \in L
      BY <1>6, <2>1, <2>2 DEF JoinedAt
    <3>2. JoinedAt(w, nd, n, before, x, after, before)
      BY <1>1, <3>1
    <3> QED BY <1>6, <2>2, <3>1, <3>2 DEF JoinedAt
  <2>3. CASE m # x /\ m = after
    <3>1. w[m].prev = x
      BY <2>1, <2>3 DEF JoinedAt
    <3>2. JoinedAt(w, nd, n, before, x, after, x)
      BY <1>1
    <3> QED BY <2>3, <3>1, <3>2 DEF JoinedAt
  <2>4. CASE m # x /\ m # after
    <3>1. w[m].prev = nd[m].prev
      BY <2>1, <2>4 DEF JoinedAt
    <3>2. nd[m].prev \in L /\ nd[nd[m].prev].next = m
      BY <1>5, <3>1 DEF BackLinks
    <3>3. nd[m].prev # x /\ nd[m].prev # before
      BY <1>1, <1>6, <2>1, <2>4, <3>2 DEF Adjacent
    <3>4. JoinedAt(w, nd, n, before, x, after, nd[m].prev)
      BY <1>1, <3>2
    <3> QED BY <3>1, <3>2, <3>3, <3>4 DEF JoinedAt
  <2> QED BY <2>2, <2>3, <2>4
<1>12. Rooted(w, L)
  <2> SUFFICES ASSUME NEW m \in L, w[m].parent = Null
               PROVE  w[m].prev = Null /\ w[m].next = Null
    BY DEF Rooted
  <2>1. JoinedAt(w, nd, n, before, x, after, m) /\ m # Null /\ n # Null
    BY <1>1
  <2>2. m # x /\ nd[m].parent = Null /\ m # before /\ m # after
    BY <2>1 DEF JoinedAt, Adjacent
  <2> QED BY <1>5, <2>1, <2>2 DEF JoinedAt, Rooted
<1>13. Ends(w, L)
  <2> SUFFICES ASSUME NEW m \in L, w[m].parent # Null
               PROVE  /\ w[m].prev = Null => w[w[m].parent].firstChild = m
                      /\ w[m].next = Null => w[w[m].parent].lastChild = m
    BY DEF Ends
  <2>1. JoinedAt(w, nd, n, before, x, after, m) /\ m # Null
        /\ JoinedAt(w, nd, n, before, x, after, n)
    BY <1>1
  <2>2. CASE m = x
    BY <2>1, <2>2 DEF JoinedAt
  <2>3. CASE m # x
    <3>1. w[m].parent = nd[m].parent
      BY <2>1, <2>3 DEF JoinedAt
    <3>2. nd[m].parent \in L /\ JoinedAt(w, nd, n, before, x, after, nd[m].parent)
      BY <1>1, <1>4, <3>1 DEF Upward
    <3>3. ASSUME w[m].prev = Null PROVE w[nd[m].parent].firstChild = m
      <4>1. m # after /\ nd[m].prev = Null /\ nd[nd[m].parent].firstChild = m
        BY <1>1, <1>5, <2>1, <2>3, <3>1, <3>3 DEF JoinedAt, Ends
      <4> QED BY <3>2, <4>1 DEF JoinedAt, Adjacent
    <3>4. ASSUME w[m].next = Null PROVE w[nd[m].parent].lastChild = m
      <4>1. m # before /\ nd[m].next = Null /\ nd[nd[m].parent].lastChild = m
        BY <1>1, <1>5, <2>1, <2>3, <3>1, <3>4 DEF JoinedAt, Ends
      <4> QED BY <3>2, <4>1 DEF JoinedAt, Adjacent
    <3> QED BY <3>1, <3>3, <3>4
  <2> QED BY <2>2, <2>3
<1>14. Downward(w, L)
  <2> SUFFICES ASSUME NEW m \in L
               PROVE  /\ w[m].firstChild = Null <=> w[m].lastChild = Null
                      /\ w[m].firstChild # Null =>
                           /\ w[m].firstChild \in L /\ w[w[m].firstChild].parent = m
                           /\ w[w[m].firstChild].prev = Null
                      /\ w[m].lastChild # Null =>
                           /\ w[m].lastChild \in L /\ w[w[m].lastChild].parent = m
                           /\ w[w[m].lastChild].next = Null
    BY DEF Downward
  <2>0. /\ nd[m].firstChild = Null <=> nd[m].lastChild = Null
        /\ nd[m].firstChild # Null =>
             /\ nd[m].firstChild \in L /\ nd[nd[m].firstChild].parent = m
             /\ nd[nd[m].firstChild].prev = Null
        /\ nd[m].lastChild # Null =>
             /\ nd[m].lastChild \in L /\ nd[nd[m].lastChild].parent = m
             /\ nd[nd[m].lastChild].next = Null
    BY <1>5 DEF Downward
  <2>1. JoinedAt(w, nd, n, before, x, after, m) /\ m # Null /\ x # Null
        /\ JoinedAt(w, nd, n, before, x, after, x)
    BY <1>1
  <2>3. w[m].firstChild = Null <=> w[m].lastChild = Null
    <3>1. CASE m # n
      BY <2>0, <2>1, <3>1 DEF JoinedAt
    <3>2. CASE m = n
      BY <2>0, <2>1, <3>2 DEF JoinedAt, Adjacent
    <3> QED BY <3>1, <3>2
  <2>4. ASSUME w[m].firstChild # Null
        PROVE  /\ w[m].firstChild \in L /\ w[w[m].firstChild].parent = m
               /\ w[w[m].firstChild].prev = Null
    <3>1. CASE m = n /\ before = Null
      BY <2>1, <3>1 DEF JoinedAt
    <3>2. CASE ~ (m = n /\ before = Null)
      <4>1. w[m].firstChild = nd[m].firstChild
        BY <2>1, <3>2 DEF JoinedAt
      <4>2. nd[m].firstChild # x /\ nd[m].firstChild # after
        BY <1>1, <2>0, <2>4, <3>2, <4>1 DEF Adjacent
      <4>3. JoinedAt(w, nd, n, before, x, after, nd[m].firstChild)
        BY <1>1, <2>0, <2>4, <4>1
      <4> QED BY <2>0, <2>4, <4>1, <4>2, <4>3 DEF JoinedAt
    <3> QED BY <3>1, <3>2
  <2>5. ASSUME w[m].lastChild # Null
        PROVE  /\ w[m].lastChild \in L /\ w[w[m].lastChild].parent = m
               /\ w[w[m].lastChild].next = Null
    <3>1. CASE m = n /\ after = Null
      BY <2>1, <3>1 DEF JoinedAt
    <3>2. CASE ~ (m = n /\ after = Null)
      <4>1. w[m].lastChild = nd[m].lastChild
        BY <2>1, <3>2 DEF JoinedAt
      <4>2. nd[m].lastChild # x /\ nd[m].lastChild # before
        BY <1>1, <2>0, <2>5, <3>2, <4>1 DEF Adjacent
      <4>3. JoinedAt(w, nd, n, before, x, after, nd[m].lastChild)
        BY <1>1, <2>0, <2>5, <4>1
      <4> QED BY <2>0, <2>5, <4>1, <4>2, <4>3 DEF JoinedAt
    <3> QED BY <3>1, <3>2
  <2> QED BY <2>3, <2>4, <2>5
<1> QED BY <1>2, <1>7, <1>8, <1>9, <1>10, <1>11, <1>12, <1>13, <1>14 DEF TreesOn, Local, Ordered

\* D is what the destructor of x deletes.
TreeOf(nd, L, x, D) ==
  /\ D \subseteq L /\ x \in D /\ Closed(nd, L, D) /\ nd[x].parent \notin D
  /\ \A m \in D : m # x => nd[m].parent \in D

\* What a copy of a pointer points to.
Image(f, m) == IF m = Null THEN Null ELSE f[m]
\* An object that has copies of the children of s; one that is a copy of s as well.
HeadCopied(r, s, f) ==
  /\ r.kind = s.kind
  /\ r.firstChild = Image(f, s.firstChild) /\ r.lastChild = Image(f, s.lastChild)
CopyMade(r, s, f) ==
  /\ HeadCopied(r, s, f)
  /\ r.parent = f[s.parent] /\ r.prev = Image(f, s.prev) /\ r.next = Image(f, s.next)

\* The siblings and the children of what is under x are under x.
LEMMA UnderIs ==
  ASSUME NEW nd, NEW L, TreesOn(nd, L), NEW x, NEW D, TreeOf(nd, L, x, D), NEW m \in D
  PROVE  /\ nd[m].firstChild # Null => nd[m].firstChild \in D \ {x}
         /\ nd[m].lastChild # Null => nd[m].lastChild \in D \ {x}
         /\ m # x => /\ nd[m].parent \in D /\ nd[m].parent # Null
                     /\ nd[m].next # Null => nd[m].next \in D \ {x}
                     /\ nd[m].prev # Null => nd[m].prev \in D \ {x}
<1>1. m \in L /\ D \subseteq L /\ Null \notin L
  BY NullIsNone DEF TreeOf, TreesOn, LiveIn
<1>2. PICK h \in [Nodes -> Int] : Onward(nd, L, h)
  BY DEF TreesOn, Ordered
<1>3. BackLinks(nd, L) /\ Rooted(nd, L) /\ Downward(nd, L)
  BY DEF TreesOn, Local
<1>4. /\ nd[m].firstChild # Null => nd[m].firstChild \in D \ {x}
      /\ nd[m].lastChild # Null => nd[m].lastChild \in D \ {x}
  BY <1>1, <1>3 DEF Downward, TreeOf, Closed
<1>5. ASSUME m # x PROVE nd[m].parent \in D /\ nd[m].parent # Null
  BY <1>1, <1>5 DEF TreeOf
<1>6. ASSUME m # x, nd[m].next # Null PROVE nd[m].next \in D \ {x}
  <2>1. nd[m].next \in L /\ nd[nd[m].next].parent = nd[m].parent
    BY <1>1, <1>2, <1>6 DEF Onward
  <2> QED BY <1>5, <1>6, <2>1 DEF TreeOf, Closed
<1>7. ASSUME m # x, nd[m].prev # Null PROVE nd[m].prev \in D \ {x}
  <2>1. nd[m].prev \in L /\ nd[nd[m].prev].next = m
    BY <1>1, <1>3, <1>7 DEF BackLinks
  <2>2. nd[nd[m].prev].parent = nd[m].parent
    BY <1>1, <1>2, <2>1 DEF Onward
  <2> QED BY <1>5, <1>7, <2>1, <2>2 DEF TreeOf, Closed
<1> QED BY <1>4, <1>5, <1>6, <1>7

\* What is under x is copied to be under y, which had nothing under it; y need not be a
\* copy of x.
LEMMA GraftOn ==
  ASSUME NEW nd, NEW L, TreesOn(nd, L), NEW x, NEW D, TreeOf(nd, L, x, D),
         NEW y \in L \ D, nd[y].firstChild = Null, nd[y].lastChild = Null,
         NEW f \in [D -> Nodes], f[x] = y, \A m \in D : m # x => f[m] \notin L,
         \A a, b \in D : f[a] = f[b] => a = b,
         NEW w \in [Nodes -> NodeRecords],
         \A k \in Nodes : (\A m \in D : f[m] # k) => Alike(w[k], nd[k]),
         \A m \in D : m # x => CopyMade(w[f[m]], nd[m], f),
         /\ w[y].kind = nd[y].kind /\ w[y].parent = nd[y].parent
         /\ w[y].prev = nd[y].prev /\ w[y].next = nd[y].next
         /\ w[y].firstChild = Image(f, nd[x].firstChild)
         /\ w[y].lastChild = Image(f, nd[x].lastChild)
  PROVE  TreesOn(w, L \cup {f[m] : m \in D})
<1> DEFINE U == D \ {x}
           F == {f[m] : m \in D}
           M == L \cup F
           src(k) == CHOOSE m \in D : f[m] = k
<1>1. /\ L \subseteq Nodes /\ Null \notin L /\ Null \notin Nodes /\ D \subseteq L /\ x \in D
      /\ F \subseteq Nodes
  BY NullIsNone DEF TreesOn, LiveIn, TreeOf
<1>2. \A k \in L : k # y => Alike(w[k], nd[k])
  BY <1>1
<1>3. \A k \in M : k \in L \/ \E m \in U : k = f[m]
  BY <1>1
<1>4. PICK h \in [Nodes -> Int] : Onward(nd, L, h)
  BY DEF TreesOn, Ordered
<1>5. PICK g \in [Nodes -> Int] : Upward(nd, L, g)
  BY DEF TreesOn, Ordered
<1>6. BackLinks(nd, L) /\ Rooted(nd, L) /\ Ends(nd, L) /\ Downward(nd, L)
  BY DEF TreesOn, Local
<1>7. ASSUME NEW m \in D PROVE f[m] \in F /\ f[m] # Null /\ src(f[m]) = m
                               /\ (m # x => f[m] # y /\ f[m] \notin L)
  BY <1>1
<1>9. \A k \in L : /\ w[k].kind = nd[k].kind /\ w[k].parent = nd[k].parent
                   /\ w[k].prev = nd[k].prev /\ w[k].next = nd[k].next
  BY <1>2 DEF Alike
<1>10. \A k \in L : k # y => w[k].firstChild = nd[k].firstChild /\ w[k].lastChild = nd[k].lastChild
  BY <1>2 DEF Alike
<1>11. LiveIn(w, M)
  <2>1. ASSUME NEW k \in M PROVE k \in Nodes /\ w[k].kind # "free"
    <3>1. CASE k \in L
      BY <1>1, <1>9, <3>1 DEF LiveIn, TreesOn
    <3>2. CASE k \notin L
      <4>1. PICK m \in U : k = f[m]
        BY <1>3, <3>2
      <4>2. w[k].kind = nd[m].kind
        BY <4>1 DEF CopyMade, HeadCopied
      <4> QED BY <1>1, <4>1, <4>2 DEF LiveIn, TreesOn
    <3> QED BY <3>1, <3>2
  <2>2. ASSUME NEW k \in Nodes, k \notin M PROVE w[k].kind = "free"
    <3>1. Alike(w[k], nd[k])
      BY <2>2
    <3> QED BY <2>2, <3>1 DEF Alike, LiveIn, TreesOn
  <2> HIDE DEF M
  <2> QED BY <2>1, <2>2 DEF LiveIn
<1> DEFINE h2 == [k \in Nodes |-> IF k \in F THEN h[src(k)] ELSE h[k]]
           hy == [k \in Nodes |-> IF k = y THEN h[y] ELSE h2[k]]
           up == IF g[x] <= g[y] THEN g[y] - g[x] ELSE 0
           g2 == [k \in Nodes |-> IF k \in F /\ k # y THEN g[src(k)] + up ELSE g[k]]
<1>12. /\ hy \in [Nodes -> Int] /\ \A k \in L : hy[k] = h[k]
       /\ \A m \in U : hy[f[m]] = h[m]
  <2>1. \A k \in F : src(k) \in D
    OBVIOUS
  <2>2. \A k \in L : k \in F => k = y
    BY <1>7
  <2> HIDE DEF F, src
  <2>3. \A k \in Nodes : h2[k] \in Int
    BY <1>1, <2>1
  <2>4. \A k \in Nodes : hy[k] \in Int
    BY <1>1, <2>3
  <2>5. \A k \in L : hy[k] = h[k]
    BY <1>1, <2>2
  <2>6. \A m \in U : hy[f[m]] = h[m]
    BY <1>1, <1>7
  <2> QED BY <2>4, <2>5, <2>6
<1>13. /\ g2 \in [Nodes -> Int] /\ \A k \in L : g2[k] = g[k]
       /\ \A m \in U : g2[f[m]] = g[m] + up
       /\ up \in Nat /\ g[y] <= g[x] + up
  <2>1. \A k \in F : src(k) \in D
    OBVIOUS
  <2>2. \A k \in L : k \in F => k = y
    BY <1>7
  <2> HIDE DEF F, src
  <2>3. g[x] \in Int /\ g[y] \in Int
    BY <1>1
  <2>4. up \in Nat /\ g[y] <= g[x] + up
    BY <2>3
  <2> HIDE DEF up
  <2>5. \A k \in Nodes : g2[k] \in Int
    <3>1. ASSUME NEW k \in F PROVE g[src(k)] + up \in Int
      <4>1. g[src(k)] \in Int
        BY <1>1, <2>1
      <4> QED BY <4>1, <2>4
    <3> QED BY <3>1
  <2>6. \A k \in L : g2[k] = g[k]
    BY <1>1, <2>2
  <2>7. \A m \in U : g2[f[m]] = g[m] + up
    BY <1>1, <1>7
  <2> QED BY <2>4, <2>5, <2>6, <2>7
<1> HIDE DEF hy, g2, up, src, h2
<1>14. ASSUME NEW m \in U
       PROVE  /\ m \in L /\ f[m] \in F /\ f[m] # Null
              /\ w[f[m]].parent = f[nd[m].parent] /\ nd[m].parent \in D /\ nd[m].parent # Null
              /\ nd[m].next = Null => w[f[m]].next = Null
              /\ nd[m].next # Null => nd[m].next \in U /\ w[f[m]].next = f[nd[m].next]
              /\ nd[m].prev = Null => w[f[m]].prev = Null
              /\ nd[m].prev # Null => nd[m].prev \in U /\ w[f[m]].prev = f[nd[m].prev]
              /\ w[f[m]].kind = nd[m].kind
  BY <1>1, <1>7, UnderIs DEF CopyMade, HeadCopied, Image
<1>15. ASSUME NEW m \in D
       PROVE  /\ nd[m].firstChild = Null => w[f[m]].firstChild = Null
              /\ nd[m].firstChild # Null =>
                   nd[m].firstChild \in U /\ w[f[m]].firstChild = f[nd[m].firstChild]
              /\ nd[m].lastChild = Null => w[f[m]].lastChild = Null
              /\ nd[m].lastChild # Null =>
                   nd[m].lastChild \in U /\ w[f[m]].lastChild = f[nd[m].lastChild]
  <2>1. /\ w[f[m]].firstChild = Image(f, nd[m].firstChild)
        /\ w[f[m]].lastChild = Image(f, nd[m].lastChild)
    BY DEF CopyMade, HeadCopied
  <2> QED BY <2>1, UnderIs DEF Image
<1> HIDE DEF F
<1>16. Onward(w, M, hy)
  <2> SUFFICES ASSUME NEW k \in M, w[k].next # Null
               PROVE  /\ w[k].next \in M /\ w[w[k].next].prev = k
                      /\ w[w[k].next].parent = w[k].parent /\ hy[k] < hy[w[k].next]
    BY DEF Onward
  <2>1. CASE k \in L
    BY <1>4, <1>9, <1>12, <2>1 DEF Onward
  <2>2. ASSUME NEW m \in U, k = f[m]
        PROVE  /\ w[k].next \in M /\ w[w[k].next].prev = k
               /\ w[w[k].next].parent = w[k].parent /\ hy[k] < hy[w[k].next]
    <3> DEFINE p == nd[m].next
    <3>1. p # Null /\ p \in U /\ w[k].next = f[p]
      BY <1>14, <2>2
    <3>2. nd[p].prev = m /\ nd[p].parent = nd[m].parent /\ h[m] < h[p]
      BY <1>4, <1>14, <3>1 DEF Onward
    <3>3. m # Null
      BY <1>1, <1>14
    <3> HIDE DEF p
    <3> QED BY <1>12, <1>14, <2>2, <3>1, <3>2, <3>3
  <2> QED BY <1>3, <2>1, <2>2
<1>17. Upward(w, M, g2)
  <2> SUFFICES ASSUME NEW k \in M, w[k].parent # Null
               PROVE  w[k].parent \in M /\ g2[w[k].parent] < g2[k] /\ w[k].kind # "document"
    BY DEF Upward
  <2>1. CASE k \in L
    BY <1>5, <1>9, <1>13, <2>1 DEF Upward
  <2>2. ASSUME NEW m \in U, k = f[m]
        PROVE  w[k].parent \in M /\ g2[w[k].parent] < g2[k] /\ w[k].kind # "document"
    <3> DEFINE p == nd[m].parent
    <3>1. p \in D /\ w[k].parent = f[p] /\ f[p] \in M /\ m \in L /\ w[k].kind = nd[m].kind
      BY <1>7, <1>14, <2>2
    <3>2. g[p] < g[m] /\ nd[m].kind # "document"
      BY <1>5, <1>14 DEF Upward
    <3>3. g[p] \in Int /\ g[m] \in Int /\ g[y] \in Int /\ g[x] \in Int
      BY <1>1, <3>1
    <3>4. g2[f[p]] <= g[p] + up
      <4>1. CASE p = x
        BY <1>13, <3>3, <4>1
      <4>2. CASE p # x
        BY <1>13, <3>1, <3>3, <4>2
      <4> QED BY <4>1, <4>2
    <3>5. g2[f[p]] \in Int /\ g2[k] = g[m] + up
      BY <1>1, <1>13, <2>2, <3>1
    <3> HIDE DEF p
    <3> QED BY <1>13, <3>1, <3>2, <3>3, <3>4, <3>5
  <2> QED BY <1>3, <2>1, <2>2
<1>18. BackLinks(w, M)
  <2> SUFFICES ASSUME NEW k \in M, w[k].prev # Null
               PROVE  w[k].prev \in M /\ w[w[k].prev].next = k
    BY DEF BackLinks
  <2>1. CASE k \in L
    BY <1>6, <1>9, <2>1 DEF BackLinks
  <2>2. ASSUME NEW m \in U, k = f[m]
        PROVE  w[k].prev \in M /\ w[w[k].prev].next = k
    <3> DEFINE p == nd[m].prev
    <3>1. p # Null /\ p \in U /\ w[k].prev = f[p]
      BY <1>14, <2>2
    <3>2. nd[p].next = m /\ m # Null
      BY <1>1, <1>6, <1>14, <3>1 DEF BackLinks
    <3> HIDE DEF p
    <3> QED BY <1>14, <2>2, <3>1, <3>2
  <2> QED BY <1>3, <2>1, <2>2
<1>19. Rooted(w, M)
  <2> SUFFICES ASSUME NEW k \in M, w[k].parent = Null
               PROVE  w[k].prev = Null /\ w[k].next = Null
    BY DEF Rooted
  <2>1. CASE k \in L
    BY <1>6, <1>9, <2>1 DEF Rooted
  <2>2. ASSUME NEW m \in U, k = f[m] PROVE FALSE
    BY <1>7, <1>14, <2>2
  <2> QED BY <1>3, <2>1, <2>2
<1>20. Ends(w, M)
  <2> SUFFICES ASSUME NEW k \in M, w[k].parent # Null
               PROVE  /\ w[k].prev = Null => w[w[k].parent].firstChild = k
                      /\ w[k].next = Null => w[w[k].parent].lastChild = k
    BY DEF Ends
  <2>1. CASE k \in L
    <3> DEFINE p == nd[k].parent
    <3>1. p # Null /\ p \in L /\ w[k].parent = p /\ k # Null
      BY <1>1, <1>5, <1>9, <2>1 DEF Upward
    <3>2. /\ nd[k].prev = Null => nd[p].firstChild = k
          /\ nd[k].next = Null => nd[p].lastChild = k
      BY <1>6, <2>1, <3>1 DEF Ends
    <3> HIDE DEF p
    <3> QED BY <1>9, <1>10, <2>1, <3>1, <3>2
  <2>2. ASSUME NEW m \in U, k = f[m]
        PROVE  /\ w[k].prev = Null => w[w[k].parent].firstChild = k
               /\ w[k].next = Null => w[w[k].parent].lastChild = k
    <3> DEFINE p == nd[m].parent
    <3>1. p # Null /\ p \in D /\ w[k].parent = f[p] /\ m # Null
      BY <1>1, <1>14, <2>2
    <3>2. /\ nd[m].prev = Null => nd[p].firstChild = m
          /\ nd[m].next = Null => nd[p].lastChild = m
      BY <1>6, <1>14, <3>1 DEF Ends
    <3>3. /\ w[k].prev = Null => nd[m].prev = Null
          /\ w[k].next = Null => nd[m].next = Null
      BY <1>14, <2>2
    <3> HIDE DEF p
    <3> QED BY <1>15, <2>2, <3>1, <3>2, <3>3
  <2> QED BY <1>3, <2>1, <2>2
<1>21. Downward(w, M)
  <2>1. ASSUME NEW m \in D
        PROVE  /\ w[f[m]].firstChild = Null <=> w[f[m]].lastChild = Null
               /\ w[f[m]].firstChild # Null =>
                    /\ w[f[m]].firstChild \in M /\ w[w[f[m]].firstChild].parent = f[m]
                    /\ w[w[f[m]].firstChild].prev = Null
               /\ w[f[m]].lastChild # Null =>
                    /\ w[f[m]].lastChild \in M /\ w[w[f[m]].lastChild].parent = f[m]
                    /\ w[w[f[m]].lastChild].next = Null
    <3>1. /\ nd[m].firstChild = Null <=> nd[m].lastChild = Null
          /\ nd[m].firstChild # Null =>
               nd[nd[m].firstChild].parent = m /\ nd[nd[m].firstChild].prev = Null
          /\ nd[m].lastChild # Null =>
               nd[nd[m].lastChild].parent = m /\ nd[nd[m].lastChild].next = Null
      BY <1>1, <1>6 DEF Downward
    <3>2. nd[m].firstChild # Null =>
            /\ w[f[m]].firstChild \in M /\ w[f[m]].firstChild # Null
            /\ w[w[f[m]].firstChild].parent = f[m] /\ w[w[f[m]].firstChild].prev = Null
      BY <1>14, <1>15, <3>1
    <3>3. nd[m].lastChild # Null =>
            /\ w[f[m]].lastChild \in M /\ w[f[m]].lastChild # Null
            /\ w[w[f[m]].lastChild].parent = f[m] /\ w[w[f[m]].lastChild].next = Null
      BY <1>14, <1>15, <3>1
    <3> QED BY <1>15, <3>1, <3>2, <3>3
  <2>2. ASSUME NEW k \in L, k # y
        PROVE  /\ w[k].firstChild = Null <=> w[k].lastChild = Null
               /\ w[k].firstChild # Null =>
                    /\ w[k].firstChild \in M /\ w[w[k].firstChild].parent = k
                    /\ w[w[k].firstChild].prev = Null
               /\ w[k].lastChild # Null =>
                    /\ w[k].lastChild \in M /\ w[w[k].lastChild].parent = k
                    /\ w[w[k].lastChild].next = Null
    BY <1>6, <1>9, <1>10, <2>2 DEF Downward
  <2>3. \A k \in M : (k \in L /\ k # y) \/ \E m \in D : k = f[m]
    BY <1>1, <1>3
  <2> HIDE DEF M
  <2> QED BY <2>1, <2>2, <2>3 DEF Downward
<1>22. Local(w, M)
  BY <1>18, <1>19, <1>20, <1>21 DEF Local
<1>23. Ordered(w, M)
  BY <1>12, <1>13, <1>16, <1>17 DEF Ordered
<1> QED BY <1>11, <1>22, <1>23 DEF TreesOn, F

-----------------------------------------------------------------------------
(***************************************************************************)
(* The walks of the code over trees                                        *)
(***************************************************************************)
\* The inductive invariant.
TreeInv == TreesOn(node, Live)

\* Along each link there is an order that rises, so that a walk comes to an end.
LEMMA LinksRise ==
  ASSUME NEW nd, NEW L, TreesOn(nd, L)
  PROVE  /\ L \subseteq Nodes
         /\ \A link \in {"parent", "prev", "next"} :
              /\ \A k \in Nodes : nd[k][link] \in PointersTo
              /\ \E h : Rises(nd, link, L, h)
         /\ \E h : /\ Rises(nd, "parent", L, h)
                  /\ \A k \in L : nd[k].parent # Null => h[k] < h[nd[k].parent]
<1>1. L \subseteq Nodes
  BY DEF TreesOn, LiveIn
<1>2. PICK h \in [Nodes -> Int] : Onward(nd, L, h)
  BY DEF TreesOn, Ordered
<1>3. PICK g \in [Nodes -> Int] : Upward(nd, L, g)
  BY DEF TreesOn, Ordered
<1>4. BackLinks(nd, L)
  BY DEF TreesOn, Local
<1>5. ASSUME NEW e \in [Nodes -> Int]
      PROVE  /\ [k \in Nodes |-> 0 - e[k]] \in [Nodes -> Int]
             /\ \A k, m \in L : e[m] < e[k] => 0 - e[k] < 0 - e[m]
  <2>1. \A k \in Nodes : e[k] \in Int /\ 0 - e[k] \in Int
    OBVIOUS
  <2>2. \A k, m \in L : e[m] < e[k] => 0 - e[k] < 0 - e[m]
    <3>1. \A k \in L : e[k] \in Int
      BY <1>1
    <3> QED BY <3>1
  <2> QED BY <2>1, <2>2
<1>6. Rises(nd, "next", L, h)
  BY <1>2 DEF Rises, Onward
<1>7. Rises(nd, "prev", L, [k \in Nodes |-> 0 - h[k]])
  <2> DEFINE e == [k \in Nodes |-> 0 - h[k]]
  <2>1. e \in [Nodes -> Int]
    BY <1>5
  <2>2. ASSUME NEW k \in L, nd[k]["prev"] # Null
        PROVE  nd[k]["prev"] \in L /\ e[k] < e[nd[k]["prev"]]
    <3>1. nd[k].prev \in L /\ nd[nd[k].prev].next = k /\ k # Null
      BY <1>1, <1>4, <2>2, NullIsNone DEF BackLinks
    <3>2. h[nd[k].prev] < h[k]
      BY <1>2, <3>1 DEF Onward
    <3> QED BY <1>1, <1>5, <3>1, <3>2
  <2> HIDE DEF e
  <2>3. Rises(nd, "prev", L, e)
    BY <2>1, <2>2 DEF Rises
  <2> QED BY <2>3 DEF e
<1>8. Rises(nd, "parent", L, [k \in Nodes |-> 0 - g[k]])
  <2> DEFINE e == [k \in Nodes |-> 0 - g[k]]
  <2>1. e \in [Nodes -> Int]
    BY <1>5
  <2>2. ASSUME NEW k \in L, nd[k]["parent"] # Null
        PROVE  nd[k]["parent"] \in L /\ e[k] < e[nd[k]["parent"]]
    <3>1. nd[k].parent \in L /\ g[nd[k].parent] < g[k]
      BY <1>3, <2>2 DEF Upward
    <3> QED BY <1>1, <1>5, <3>1
  <2> HIDE DEF e
  <2>3. Rises(nd, "parent", L, e)
    BY <2>1, <2>2 DEF Rises
  <2> QED BY <2>3 DEF e
<1>9. \A k \in Nodes : nd[k] \in NodeRecords
  BY DEF TreesOn
<1>10. \A k \in Nodes : nd[k]["parent"] \in PointersTo /\ nd[k]["prev"] \in PointersTo
                        /\ nd[k]["next"] \in PointersTo
  BY <1>9 DEF NodeRecords
<1>11. \A k \in L : nd[k].parent # Null =>
         [i \in Nodes |-> 0 - g[i]][k] < [i \in Nodes |-> 0 - g[i]][nd[k].parent]
  BY <1>8 DEF Rises
<1> QED BY <1>1, <1>6, <1>7, <1>8, <1>10, <1>11

\* A chain is the list that its link leads through.
LEMMA ChainOf ==
  ASSUME NEW nd, NEW L, TreesOn(nd, L), NEW start \in L \cup {Null},
         NEW link \in {"parent", "prev", "next"}
  PROVE  Follows(nd, link, start, L, Chain(nd, link, start))
<1>1. PICK h : Rises(nd, link, L, h)
  BY LinksRise
<1>2. L \subseteq Nodes /\ \A k \in Nodes : nd[k][link] \in PointersTo
  BY LinksRise
<1> QED BY <1>1, <1>2, ChainFollows

\* The children that are found are those that have n for a parent.
LEMMA KidsAre ==
  ASSUME TreeInv, NEW n \in Live
  PROVE  /\ Follows(node, "next", node[n].firstChild, Live, Children(n))
         /\ Elems(Children(n)) = {c \in Live : node[c].parent = n}
<1> DEFINE L == Live
           start == node[n].firstChild
           s == Children(n)
           E == Elems(s)
<1>1. L \subseteq Nodes /\ Null \notin L
  BY NullIsNone DEF Live
<1>2. PICK h \in [Nodes -> Int] : Onward(node, L, h)
  BY DEF TreeInv, TreesOn, Ordered
<1>3. BackLinks(node, L) /\ Rooted(node, L) /\ Ends(node, L) /\ Downward(node, L)
  BY DEF TreeInv, TreesOn, Local
<1>4. start \in L \cup {Null} /\ (start # Null => node[start].parent = n)
  BY <1>3 DEF Downward
<1>5. Follows(node, "next", start, L, s)
  <2>1. "next" \in {"parent", "prev", "next"}
    OBVIOUS
  <2> HIDE DEF start
  <2>2. Follows(node, "next", start, L, Chain(node, "next", start))
    BY <1>4, <2>1, ChainOf DEF TreeInv
  <2> QED BY <2>2 DEF Children, start
<1> HIDE DEF s, start
<1>6. /\ start # Null => start \in E
      /\ \A k \in E : node[k].next # Null => node[k].next \in E
      /\ \A C : /\ start # Null => start \in C
                /\ \A k \in C : k \in L /\ node[k].next # Null => node[k].next \in C
                => E \subseteq C
  <2>1. /\ E \subseteq L /\ Leads(node, "next", start, L, E)
        /\ \A C : Leads(node, "next", start, L, C) => E \subseteq C
    <3> HIDE DEF L
    <3> QED BY <1>1, <1>5, FollowsElems
  <2> HIDE DEF E, L
  <2> QED BY <2>1 DEF Leads
<1> HIDE DEF E
<1>7. E \subseteq {c \in L : node[c].parent = n}
  <2> DEFINE C == {c \in L : node[c].parent = n}
  <2>1. /\ start # Null => start \in C
        /\ \A k \in C : k \in L /\ node[k].next # Null => node[k].next \in C
    BY <1>2, <1>4 DEF Onward
  <2> HIDE DEF C
  <2>2. E \subseteq C
    BY <1>6, <2>1
  <2> QED BY <2>2 DEF C
<1>8. ASSUME NEW c \in L, node[c].parent = n PROVE c \in E
  <2> SUFFICES ASSUME c \notin E PROVE FALSE
    OBVIOUS
  <2> DEFINE C == {k \in L : node[k].parent = n /\ k \notin E}
             p == Chain(node, "prev", c)
  <2>1. Follows(node, "prev", c, L, p)
    <3>1. "prev" \in {"parent", "prev", "next"} /\ c \in L \cup {Null}
      OBVIOUS
    <3> QED BY <3>1, ChainOf DEF TreeInv
  <2>2. c \in C /\ \A k \in C : k \in L /\ node[k].prev # Null => node[k].prev \in C
    <3>1. c \in C
      BY <1>8
    <3>2. ASSUME NEW k \in C, node[k].prev # Null PROVE node[k].prev \in C
      <4>1. node[k].prev \in L /\ node[node[k].prev].next = k /\ k # Null
        BY <1>1, <1>3, <3>2 DEF BackLinks
      <4>2. node[node[k].prev].parent = n
        BY <1>2, <4>1 DEF Onward
      <4>3. node[k].prev \notin E
        BY <1>6, <4>1
      <4> QED BY <4>1, <4>2, <4>3
    <3> QED BY <3>1, <3>2
  <2> HIDE DEF C, p
  <2>7. Leads(node, "prev", c, L, C)
    BY <2>2 DEF Leads
  <2>3. Elems(p) \subseteq C
    BY <1>1, <2>1, <2>7, FollowsElems
  <2>4. Len(p) \in Nat /\ Len(p) # 0 /\ p \in Seq(L)
    BY <1>1, <2>1, LenProperties DEF Follows
  <2> DEFINE e == p[Len(p)]
  <2>5. e \in C /\ node[e].prev = Null
    <3>1. Len(p) > 0 /\ Len(p) \in DOMAIN p
      BY <2>4, LenProperties
    <3>2. e \in Elems(p)
      BY <3>1 DEF Elems
    <3> QED BY <2>1, <2>3, <3>1, <3>2 DEF Follows
  <2>6. node[n].firstChild = e /\ e # Null
    BY <1>1, <1>3, <2>5 DEF Ends, C
  <2> QED BY <1>6, <2>5, <2>6 DEF C, start
<1>9. E = {c \in L : node[c].parent = n}
  BY <1>7, <1>8
<1> QED BY <1>5, <1>9 DEF E, s, start

\* A sequence has one length.
LEMMA SameRange == ASSUME NEW m \in Nat, NEW n \in Nat, 1..m = 1..n PROVE m = n
<1>1. m <= n
  <2>1. m = 0 \/ m \in 1..m
    OBVIOUS
  <2> QED BY <2>1
<1>2. n <= m
  <2>1. n = 0 \/ n \in 1..n
    OBVIOUS
  <2> QED BY <2>1
<1> QED BY <1>1, <1>2

\* Read from the last to the first, they are the same.
LEMMA BackIs ==
  ASSUME TreeInv, NEW n \in Live
  PROVE  Chain(node, "prev", node[n].lastChild) = Reverse(Children(n))
<1> DEFINE L == Live
           s == Children(n)
           last == node[n].lastChild
           t == Reverse(s)
<1>1. L \subseteq Nodes /\ Null \notin L
  BY NullIsNone DEF Live
<1>2. BackLinks(node, L) /\ Rooted(node, L) /\ Ends(node, L) /\ Downward(node, L)
  BY DEF TreeInv, TreesOn, Local
<1>3. PICK h \in [Nodes -> Int] : Onward(node, L, h)
  BY DEF TreeInv, TreesOn, Ordered
<1>4. last \in L \cup {Null} /\ (last = Null <=> node[n].firstChild = Null)
      /\ (node[n].firstChild # Null => node[node[n].firstChild].prev = Null)
  BY <1>2 DEF Downward
<1>5. Follows(node, "next", node[n].firstChild, L, s)
      /\ Elems(s) = {c \in L : node[c].parent = n}
  BY KidsAre
<1> HIDE DEF s, last
<1>6. s \in Seq(L) /\ Len(s) \in Nat /\ s \in [1..Len(s) -> L] /\ DOMAIN s = 1..Len(s)
  BY <1>5, LenProperties DEF Follows
<1>7. /\ t \in Seq(L) /\ Len(t) = Len(s)
      /\ \A i \in 1..Len(s) : (Len(s) - i) + 1 \in 1..Len(s) /\ t[i] = s[(Len(s) - i) + 1]
  <2>1. \A i \in 1..Len(s) : (Len(s) - i) + 1 \in 1..Len(s)
    BY <1>6
  <2>2. t \in [1..Len(s) -> L] /\ \A i \in 1..Len(s) : t[i] = s[(Len(s) - i) + 1]
    BY <1>6, <2>1 DEF Reverse
  <2> HIDE DEF t
  <2>3. t \in Seq(L)
    BY <1>6, <2>2, SeqDef
  <2>4. Len(t) \in Nat /\ 1..Len(t) = 1..Len(s)
    BY <2>2, <2>3, LenProperties
  <2>5. Len(t) = Len(s)
    BY <1>6, <2>4, SameRange
  <2> QED BY <2>1, <2>2, <2>3, <2>5
<1> HIDE DEF t
<1>8. Follows(node, "prev", last, L, t)
  <2>1. last = Null <=> Len(t) = 0
    BY <1>4, <1>5, <1>7 DEF Follows
  <2>2. ASSUME Len(t) > 0 PROVE t[1] = last /\ node[t[Len(t)]]["prev"] = Null
    <3>1. 1 \in 1..Len(s) /\ Len(s) \in 1..Len(s) /\ (Len(s) - 1) + 1 = Len(s)
          /\ (Len(s) - Len(s)) + 1 = 1 /\ Len(s) > 0
      BY <1>6, <1>7, <2>2
    <3>2. t[1] = s[Len(s)] /\ t[Len(t)] = s[1]
      BY <1>7, <3>1
    <3>3. node[s[Len(s)]].next = Null /\ s[1] = node[n].firstChild
      BY <1>5, <3>1 DEF Follows
    <3>4. s[Len(s)] \in L /\ node[s[Len(s)]].parent = n /\ n # Null /\ s[1] \in L
      BY <1>1, <1>5, <1>6, <3>1 DEF Elems
    <3>5. last = s[Len(s)]
      BY <1>2, <3>3, <3>4 DEF Ends, last
    <3>6. s[1] # Null
      BY <1>1, <3>4
    <3> QED BY <1>4, <3>2, <3>3, <3>5, <3>6
  <2>3. ASSUME NEW i \in 1..(Len(t) - 1) PROVE node[t[i]]["prev"] = t[i + 1]
    <3> DEFINE j == Len(s) - i
    <3>1. j \in 1..(Len(s) - 1) /\ i \in 1..Len(s) /\ i + 1 \in 1..Len(s)
          /\ (Len(s) - (i + 1)) + 1 = j /\ j \in 1..Len(s)
      BY <1>6, <1>7
    <3>2. t[i] = s[j + 1] /\ t[i + 1] = s[j]
      BY <1>7, <3>1
    <3> HIDE DEF j
    <3>3. node[s[j]].next = s[j + 1] /\ s[j + 1] \in L /\ s[j] \in L
      <4>1. node[s[j]]["next"] = s[j + 1]
        BY <1>5, <3>1 DEF Follows
      <4>2. t[i] \in L /\ t[i + 1] \in L
        BY <1>6, <1>7, <3>1
      <4> QED BY <3>2, <4>1, <4>2
    <3>4. node[s[j + 1]].prev = s[j]
      BY <1>1, <1>3, <3>3 DEF Onward
    <3> QED BY <3>2, <3>4
  <2> QED BY <1>7, <2>1, <2>2, <2>3 DEF Follows
<1>9. Follows(node, "prev", last, L, Chain(node, "prev", last))
  <2>1. "prev" \in {"parent", "prev", "next"}
    OBVIOUS
  <2> QED BY <1>4, <2>1, ChainOf DEF TreeInv
<1>10. Chain(node, "prev", last) = t
  BY <1>1, <1>8, <1>9, FollowsOne
<1> QED BY <1>10 DEF t, s, last

\* The ancestors of n: its parent, and theirs, up to a root; n is not one of them.
LEMMA AncestorsAre ==
  ASSUME TreeInv, NEW n \in Live
  PROVE  /\ Follows(node, "parent", node[n].parent, Live, Ancestors(n))
         /\ n \notin Elems(Ancestors(n))
<1> DEFINE L == Live
           start == node[n].parent
           s == Ancestors(n)
<1>1. L \subseteq Nodes /\ Null \notin L
  BY NullIsNone DEF Live
<1>2. PICK g \in [Nodes -> Int] : Upward(node, L, g)
  BY DEF TreeInv, TreesOn, Ordered
<1>3. start \in L \cup {Null} /\ (start # Null => g[start] < g[n])
  BY <1>2 DEF Upward
<1>4. Follows(node, "parent", start, L, s)
  <2>1. "parent" \in {"parent", "prev", "next"}
    OBVIOUS
  <2> HIDE DEF start
  <2>2. Follows(node, "parent", start, L, Chain(node, "parent", start))
    BY <1>3, <2>1, ChainOf DEF TreeInv
  <2> QED BY <2>2 DEF Ancestors, start
<1>5. n \notin Elems(s)
  <2> DEFINE C == {k \in L : g[k] < g[n]}
  <2>1. start # Null => start \in C
    BY <1>3
  <2>2. ASSUME NEW k \in C, node[k].parent # Null PROVE node[k].parent \in C
    <3>1. node[k].parent \in L /\ g[node[k].parent] < g[k] /\ g[k] < g[n]
      BY <1>2, <2>2 DEF Upward
    <3>2. g[node[k].parent] \in Int /\ g[k] \in Int /\ g[n] \in Int
      BY <1>1, <3>1
    <3>3. g[node[k].parent] < g[n]
      BY <3>1, <3>2
    <3> QED BY <3>1, <3>3
  <2>3. n \notin C
    <3>1. g[n] \in Int
      BY <1>1
    <3> QED BY <3>1
  <2>4. Leads(node, "parent", start, L, C)
    BY <2>1, <2>2 DEF Leads
  <2> HIDE DEF C, s, start, L
  <2>5. Elems(s) \subseteq C
    BY <1>1, <1>4, <2>4, FollowsElems
  <2> QED BY <2>3, <2>5
<1> QED BY <1>4, <1>5

\* What the trees promise.
LEMMA TreesConsistent == TreeInv => TypeOK /\ NoDangling /\ LinksMatch /\ Reachable /\ DocumentOnTop
<1> SUFFICES ASSUME TreeInv
             PROVE  TypeOK /\ NoDangling /\ LinksMatch /\ Reachable /\ DocumentOnTop
  OBVIOUS
<1>1. Live \subseteq Nodes /\ Null \notin Live
  BY NullIsNone DEF Live
<1>2. PICK h \in [Nodes -> Int] : Onward(node, Live, h)
  BY DEF TreeInv, TreesOn, Ordered
<1>3. PICK g \in [Nodes -> Int] : Upward(node, Live, g)
  BY DEF TreeInv, TreesOn, Ordered
<1>4. BackLinks(node, Live) /\ Rooted(node, Live) /\ Ends(node, Live) /\ Downward(node, Live)
  BY DEF TreeInv, TreesOn, Local
<1>5. TypeOK
  BY DEF TreeInv, TreesOn, TypeOK, NodeRecords, PointersTo
<1>6. NoDangling
  BY <1>2, <1>3, <1>4 DEF NoDangling, Pointers, Onward, Upward, BackLinks, Downward
<1>7. LinksMatch
  BY BackIs, KidsAre DEF LinksMatch
<1>8. Reachable
  <2>1. ASSUME NEW n \in Live, node[n].parent # Null PROVE n \in Elems(Children(node[n].parent))
    <3>1. node[n].parent \in Live
      BY <1>3, <2>1 DEF Upward
    <3> QED BY <3>1, KidsAre
  <2> QED BY <1>4, <2>1, AncestorsAre DEF Reachable, Rooted
<1>9. DocumentOnTop
  BY <1>3 DEF DocumentOnTop, Upward, Document
<1> QED BY <1>5, <1>6, <1>7, <1>8, <1>9

\* S and the children of its members.
Grown(nd, L, S) == S \cup {c \in L : nd[c].parent \in S}

\* r is what the destructor has reached step by step.
Reaches(n, r) ==
  /\ r[0] = {n}
  /\ \A k \in Nat : r[k] \subseteq Live => r[k + 1] = Grown(node, Live, r[k])

\* A walk leads to nodes, whatever is reached by it.
LEMMA ChildrenIn ==
  ASSUME TreeInv, NEW m \in Nodes
  PROVE  Elems(Children(m)) \subseteq Nodes
<1>1. /\ \A k \in Nodes : node[k]["next"] \in PointersTo
      /\ node[m].firstChild \in PointersTo
  BY LinksRise, FieldsAre DEF TreeInv
<1>2. PICK w : Walks(node, "next", node[m].firstChild, w) /\ Children(m) = w[Cardinality(Nodes)]
  BY <1>1, ChainWalks DEF Children
<1>3. Cardinality(Nodes) \in Nat
  BY NodesAssumption, FS_CardinalityType
<1>4. Children(m) \in Seq(Nodes)
  BY <1>2, <1>3 DEF Walks
<1> QED BY <1>4, LenProperties DEF Elems

\* The destructor reaches, step by step, the nodes whose parents it has reached.
LEMMA SubtreeReaches ==
  ASSUME TreeInv, NEW n \in Live
  PROVE  \E r : Reaches(n, r) /\ Subtree(n) = r[Cardinality(Nodes)]
<1> DEFINE D == SUBSET Nodes
           more == [S \in D |-> S \cup UNION {Elems(Children(m)) : m \in S}]
           r == CHOOSE f : Recursive(f, more, {n})
           a == {n}
<1>1. Subtree(n) = r[Cardinality(Nodes)]
  BY DEF Subtree, Recursive
<1>2. more \in [D -> D] /\ a \in D
  BY ChildrenIn DEF Live
<1>3. ASSUME NEW S \in D, S \subseteq Live PROVE more[S] = Grown(node, Live, S)
  <2>1. \A m \in S : Elems(Children(m)) = {c \in Live : node[c].parent = m}
    BY <1>3, KidsAre
  <2>2. more[S] = S \cup UNION {Elems(Children(m)) : m \in S}
    OBVIOUS
  <2> HIDE DEF more
  <2> QED BY <2>1, <2>2 DEF Grown
<1>4. r = CHOOSE f : Recursive(f, more, a)
  OBVIOUS
<1> HIDE DEF more, D, r, a
<1>5. r \in [Nat -> D] /\ r[0] = a /\ \A k \in Nat : r[k + 1] = more[r[k]]
  <2>1. \E f : Recursive(f, more, a)
    BY <1>2, RecursiveExists
  <2>2. Recursive(r, more, a)
    BY <1>4, <2>1
  <2> QED BY <1>2, <2>2, RecursiveIs
<1>6. Reaches(n, r)
  BY <1>3, <1>5 DEF Reaches, a
<1> QED BY <1>1, <1>6

\* The destructor of n deletes a tree, and nothing that is not below n.
LEMMA SubtreeIs ==
  ASSUME TreeInv, NEW n \in Live
  PROVE  /\ TreeOf(node, Live, n, Subtree(n))
         /\ \A C : n \in C /\ Closed(node, Live, C) => Subtree(n) \subseteq C
<1> DEFINE L == Live
           N == Cardinality(Nodes)
<1>1. L \subseteq Nodes /\ Null \notin L /\ IsFiniteSet(Nodes) /\ N \in Nat
  BY NullIsNone, NodesAssumption, FS_CardinalityType DEF Live
<1>2. PICK r : Reaches(n, r) /\ Subtree(n) = r[N]
  BY SubtreeReaches
<1> HIDE DEF N
<1>3. r[0] = {n} /\ \A k \in Nat : r[k] \subseteq L => r[k + 1] = Grown(node, L, r[k])
  BY <1>2 DEF Reaches
<1> HIDE DEF L
<1> DEFINE G(k) == /\ r[k] \subseteq L /\ n \in r[k]
                   /\ \A m \in r[k] : m # n => node[m].parent \in r[k]
                   /\ Cardinality(r[k]) > k \/ Closed(node, L, r[k])
           H == {k \in Nat : G(k)}
<1>4. 0 \in H
  <2>1. Cardinality({n}) = 1
    BY FS_Singleton
  <2>2. G(0)
    BY <1>3, <2>1 DEF L
  <2> QED BY <2>2
<1>5. ASSUME NEW k \in Nat, k \in H PROVE k + 1 \in H
  <2> DEFINE S == r[k]
             T == r[k + 1]
  <2>1. G(k) /\ T = Grown(node, L, S)
    BY <1>3, <1>5
  <2>2. T \subseteq L /\ n \in T /\ S \subseteq T /\ \A m \in T : m # n => node[m].parent \in T
    BY <2>1 DEF Grown
  <2>3. IsFiniteSet(S) /\ IsFiniteSet(T)
    BY <1>1, <2>1, <2>2, FS_Subset
  <2>4. CASE Closed(node, L, S)
    <3>1. T = S
      BY <2>1, <2>4 DEF Grown, Closed
    <3> QED BY <2>1, <2>4, <3>1
  <2>5. CASE ~Closed(node, L, S)
    <3>1. PICK c \in L : node[c].parent \in S /\ c \notin S
      BY <2>5 DEF Closed
    <3>2. c \in T
      BY <2>1, <3>1 DEF Grown
    <3>3. Cardinality(S) > k
      BY <2>1, <2>5
    <3> HIDE DEF S, T
    <3>4. IsFiniteSet(S \cup {c}) /\ Cardinality(S \cup {c}) = Cardinality(S) + 1
      BY <2>3, <3>1, FS_AddElement
    <3>5. Cardinality(S \cup {c}) <= Cardinality(T)
      BY <2>2, <2>3, <3>2, FS_Subset
    <3>6. Cardinality(S) \in Nat /\ Cardinality(T) \in Nat
      BY <2>3, FS_CardinalityType
    <3>7. Cardinality(T) > k + 1
      BY <3>3, <3>4, <3>5, <3>6
    <3>8. G(k + 1)
      BY <2>2, <3>7 DEF T
    <3> QED BY <3>8
  <2> QED BY <2>4, <2>5
<1> HIDE DEF H
<1>6. Nat \subseteq H
  BY <1>4, <1>5, SetInduction
<1> DEFINE D == Subtree(n)
<1>7. \A k \in Nat : G(k)
  BY <1>6 DEF H
<1>8. /\ D \subseteq L /\ n \in D /\ Closed(node, L, D)
      /\ \A m \in D : m # n => node[m].parent \in D
  <2>1. G(N)
    BY <1>1, <1>7
  <2>2. D = r[N]
    BY <1>2
  <2> HIDE DEF D
  <2>3. Cardinality(D) <= N
    BY <1>1, <2>1, <2>2, FS_Subset DEF N
  <2>4. IsFiniteSet(D)
    BY <1>1, <2>1, <2>2, FS_Subset
  <2>5. Cardinality(D) \in Nat
    BY <2>4, FS_CardinalityType
  <2>6. ~ (Cardinality(D) > N)
    BY <1>1, <2>3, <2>5
  <2> QED BY <2>1, <2>2, <2>6
<1>9. ASSUME NEW C, n \in C, Closed(node, L, C) PROVE D \subseteq C
  <2> DEFINE K == {k \in Nat : r[k] \subseteq C}
  <2>1. 0 \in K
    BY <1>3, <1>9
  <2>2. ASSUME NEW k \in Nat, k \in K PROVE k + 1 \in K
    <3>1. r[k + 1] = Grown(node, L, r[k])
      BY <1>3, <1>7
    <3> QED BY <1>9, <2>2, <3>1 DEF Grown, Closed
  <2> HIDE DEF K
  <2>3. Nat \subseteq K
    BY <2>1, <2>2, SetInduction
  <2>4. r[N] \subseteq C
    BY <1>1, <2>3 DEF K
  <2> QED BY <1>2, <2>4
<1> HIDE DEF D
<1>10. node[n].parent \notin D
  <2>1. PICK g \in [Nodes -> Int] : Upward(node, L, g)
    BY DEF TreeInv, TreesOn, Ordered, L
  <2> DEFINE C == {k \in L : g[n] <= g[k]}
  <2>2. n \in L /\ \A k \in L : g[k] \in Int
    BY <1>1 DEF L
  <2>3. n \in C
    BY <2>2
  <2>4. Closed(node, L, C)
    <3> SUFFICES ASSUME NEW m \in L, node[m].parent \in C PROVE m \in C
      BY DEF Closed
    <3>1. node[m].parent # Null /\ node[m].parent \in L /\ g[n] <= g[node[m].parent]
      BY <1>1
    <3>2. g[node[m].parent] < g[m]
      BY <2>1, <3>1 DEF Upward
    <3>3. g[n] <= g[m]
      BY <2>2, <3>1, <3>2
    <3> QED BY <3>3
  <2>5. node[n].parent \notin C
    <3> SUFFICES ASSUME node[n].parent \in C PROVE FALSE
      OBVIOUS
    <3>1. node[n].parent # Null /\ node[n].parent \in L /\ g[n] <= g[node[n].parent]
      BY <1>1
    <3>2. g[node[n].parent] < g[n]
      BY <2>1, <2>2, <3>1 DEF Upward
    <3> QED BY <2>2, <3>1, <3>2
  <2> HIDE DEF C
  <2>6. D \subseteq C
    BY <1>9, <2>3, <2>4
  <2> QED BY <2>5, <2>6
<1>11. TreeOf(node, L, n, D)
  BY <1>8, <1>10 DEF TreeOf
<1> QED BY <1>9, <1>11 DEF D, L

\* What is not an ancestor of n does not have n below it.
LEMMA NotBelow ==
  ASSUME TreeInv, NEW n \in Live, NEW x \in Live, n # x, x \notin Elems(Ancestors(n))
  PROVE  n \notin Subtree(x)
<1> SUFFICES ASSUME n \in Subtree(x) PROVE FALSE
  OBVIOUS
<1> DEFINE s == Ancestors(n)
           E == Elems(s)
           D == Subtree(x)
           start == node[n].parent
           L == Live
<1>1. L \subseteq Nodes /\ Null \notin L
  BY NullIsNone DEF Live
<1>2. Follows(node, "parent", start, L, s)
  BY AncestorsAre
<1>3. TreeOf(node, L, x, D)
  BY SubtreeIs
<1>4. start \in D /\ start # Null
  BY <1>1, <1>3 DEF TreeOf
<1> HIDE DEF s, E, D, start, L
<1>5. E \subseteq L /\ Leads(node, "parent", start, L, E)
      /\ \A C : Leads(node, "parent", start, L, C) => E \subseteq C
  BY <1>1, <1>2, FollowsElems DEF E
<1>6. x \notin E /\ D \subseteq L
  BY <1>3 DEF E, s, TreeOf
<1>7. E \subseteq D \cap E
  <2>1. start \in D \cap E
    BY <1>4, <1>5 DEF Leads
  <2>2. \A k \in D \cap E : node[k].parent # Null => node[k].parent \in D \cap E
    BY <1>3, <1>5, <1>6 DEF Leads, TreeOf
  <2>3. Leads(node, "parent", start, L, D \cap E)
    BY <2>1, <2>2 DEF Leads
  <2> QED BY <1>5, <2>3
<1>8. Len(s) \in Nat /\ s \in Seq(L) /\ Len(s) # 0
  BY <1>2, <1>4, LenProperties DEF Follows
<1> DEFINE e == s[Len(s)]
<1>9. e \in E /\ node[e].parent = Null
  <2>1. Len(s) > 0 /\ Len(s) \in DOMAIN s
    BY <1>8, LenProperties
  <2> QED BY <1>2, <2>1 DEF Follows, E, Elems
<1>10. e \in D /\ e # x
  BY <1>6, <1>7, <1>9
<1> QED BY <1>1, <1>3, <1>6, <1>9, <1>10 DEF TreeOf

\* Two nodes that are not one below the other have nothing below them in common.
LEMMA Apart ==
  ASSUME TreeInv, NEW n \in Live, NEW x \in Live, n \notin Subtree(x), x \notin Subtree(n)
  PROVE  Subtree(x) \cap Subtree(n) = {}
<1> DEFINE C == Subtree(x) \ Subtree(n)
<1>1. TreeOf(node, Live, n, Subtree(n)) /\ TreeOf(node, Live, x, Subtree(x))
  BY SubtreeIs
<1>2. x \in C /\ Closed(node, Live, C)
  BY <1>1 DEF TreeOf, Closed
<1> HIDE DEF C
<1>3. Subtree(x) \subseteq C
  BY <1>2, SubtreeIs
<1> QED BY <1>3 DEF C

-----------------------------------------------------------------------------
(***************************************************************************)
(* What the operators of the calls write                                   *)
(***************************************************************************)
\* A node that is free points to none.
LEMMA FreeNode == Free \in NodeRecords /\ Free.kind = "free" /\ Free.error \in BOOLEAN
                  /\ Free.parent = Null /\ Free.prev = Null /\ Free.next = Null
                  /\ Free.firstChild = Null /\ Free.lastChild = Null
BY DEF Free, NodeRecords, PointersTo

\* What is deleted is free, the rest is as it was.
LEMMA DeletedIs ==
  ASSUME NEW nd \in [Nodes -> NodeRecords], NEW S
  PROVE  /\ Deleted(nd, S) \in [Nodes -> NodeRecords]
         /\ \A k \in Nodes : Deleted(nd, S)[k] = IF k \in S THEN Free ELSE nd[k]
BY FreeNode DEF Deleted

\* A node is like itself.
LEMMA AlikeIs == ASSUME NEW r PROVE Alike(r, r)
BY DEF Alike

\* SetError changes no link.
LEMMA ErrorIs ==
  ASSUME NEW nd \in [Nodes -> NodeRecords], NEW n
  PROVE  /\ SetError(nd, n) \in [Nodes -> NodeRecords]
         /\ \A k \in Nodes :
              Alike(SetError(nd, n)[k], nd[k]) /\ SetError(nd, n)[k].value = nd[k].value
<1> DEFINE d == GetDocument(n)
           w == [nd EXCEPT ![d].error = TRUE]
<1>1. SetError(nd, n) = IF d = Null THEN nd ELSE w
  BY DEF SetError
<1> HIDE DEF d
<1>2. /\ w \in [Nodes -> NodeRecords]
      /\ \A k \in Nodes : Alike(w[k], nd[k]) /\ w[k].value = nd[k].value
  BY DEF NodeRecords, Alike
<1> HIDE DEF w
<1> QED BY <1>1, <1>2, AlikeIs

Links == {"parent", "prev", "next", "firstChild", "lastChild"}
\* w is nd with a link of m put to another node.
PutLink(w, nd, m, link, to) ==
  /\ w \in [Nodes -> NodeRecords]
  /\ \A k \in Nodes :
       /\ w[k].kind = nd[k].kind /\ w[k].value = nd[k].value
       /\ \A f \in Links : w[k][f] = IF k = m /\ f = link THEN to ELSE nd[k][f]

\* With changes one link of one node.
LEMMA WithPuts ==
  ASSUME NEW nd \in [Nodes -> NodeRecords], NEW m \in PointersTo, NEW link \in Links,
         NEW to \in PointersTo
  PROVE  PutLink(With(nd, m, link, to), nd, m, link, to)
<1>1. CASE m = Null
  BY <1>1, NullIsNone DEF With, PutLink
<1>2. CASE m # Null
  <2> DEFINE w == With(nd, m, link, to)
             r == [nd[m] EXCEPT ![link] = to]
  <2>1. m \in Nodes
    BY <1>2 DEF PointersTo
  <2>2. w = [nd EXCEPT ![m] = r]
    BY <1>2 DEF With
  <2>3. nd[m] \in NodeRecords
    BY <2>1
  <2>4. /\ r \in NodeRecords /\ r.kind = nd[m].kind /\ r.value = nd[m].value
        /\ \A f \in Links : r[f] = IF f = link THEN to ELSE nd[m][f]
    <3>1. r \in NodeRecords
      <4>1. CASE link = "parent"
        BY <2>3, <4>1 DEF NodeRecords
      <4>2. CASE link = "prev"
        BY <2>3, <4>2 DEF NodeRecords
      <4>3. CASE link = "next"
        BY <2>3, <4>3 DEF NodeRecords
      <4>4. CASE link = "firstChild"
        BY <2>3, <4>4 DEF NodeRecords
      <4>5. CASE link = "lastChild"
        BY <2>3, <4>5 DEF NodeRecords
      <4> QED BY <4>1, <4>2, <4>3, <4>4, <4>5 DEF Links
    <3>2. /\ r.kind = nd[m].kind /\ r.value = nd[m].value
          /\ \A f \in Links : r[f] = IF f = link THEN to ELSE nd[m][f]
      BY <2>3 DEF NodeRecords, Links
    <3> QED BY <3>1, <3>2
  <2> HIDE DEF r
  <2>5. w \in [Nodes -> NodeRecords] /\ w[m] = r /\ \A k \in Nodes : k # m => w[k] = nd[k]
    BY <2>1, <2>2, <2>4
  <2> HIDE DEF w
  <2>6. PutLink(w, nd, m, link, to)
    BY <2>4, <2>5 DEF PutLink
  <2> QED BY <2>6 DEF w
<1> QED BY <1>1, <1>2

\* PutLink, link by link.
LEMMA PutLinkIs ==
  ASSUME NEW w, NEW nd, NEW m, NEW link, NEW to, PutLink(w, nd, m, link, to), NEW k \in Nodes
  PROVE  /\ w[k].kind = nd[k].kind /\ w[k].value = nd[k].value
         /\ w[k].parent = IF k = m /\ link = "parent" THEN to ELSE nd[k].parent
         /\ w[k].prev = IF k = m /\ link = "prev" THEN to ELSE nd[k].prev
         /\ w[k].next = IF k = m /\ link = "next" THEN to ELSE nd[k].next
         /\ w[k].firstChild = IF k = m /\ link = "firstChild" THEN to ELSE nd[k].firstChild
         /\ w[k].lastChild = IF k = m /\ link = "lastChild" THEN to ELSE nd[k].lastChild
BY DEF PutLink, Links

\* Linking x between two neighbours writes the links of JoinedAt.
LEMMA BetweenIs ==
  ASSUME NEW nd \in [Nodes -> NodeRecords], NEW n \in Nodes, NEW x \in Nodes,
         NEW before \in PointersTo, NEW after \in PointersTo, before # x, after # x
  PROVE  /\ Between(nd, n, before, x, after) \in [Nodes -> NodeRecords]
         /\ \A k \in Nodes :
              JoinedAt(Between(nd, n, before, x, after), nd, n, before, x, after, k)
<1> DEFINE linked == [nd EXCEPT ![x].parent = n, ![x].prev = before, ![x].next = after]
           left == IF before = Null THEN With(linked, n, "firstChild", x)
                   ELSE With(linked, before, "next", x)
           w == Between(nd, n, before, x, after)
<1>1. w = IF after = Null THEN With(left, n, "lastChild", x) ELSE With(left, after, "prev", x)
  BY DEF Between
<1>2. /\ linked \in [Nodes -> NodeRecords]
      /\ \A k \in Nodes :
           /\ linked[k].kind = nd[k].kind /\ linked[k].value = nd[k].value
           /\ linked[k].parent = IF k = x THEN n ELSE nd[k].parent
           /\ linked[k].prev = IF k = x THEN before ELSE nd[k].prev
           /\ linked[k].next = IF k = x THEN after ELSE nd[k].next
           /\ linked[k].firstChild = nd[k].firstChild
           /\ linked[k].lastChild = nd[k].lastChild
  <2> DEFINE r == [nd[x] EXCEPT !.parent = n, !.prev = before, !.next = after]
  <2>1. linked = [nd EXCEPT ![x] = r]
    OBVIOUS
  <2>2. /\ r \in NodeRecords /\ r.kind = nd[x].kind /\ r.value = nd[x].value
        /\ r.parent = n /\ r.prev = before
        /\ r.next = after /\ r.firstChild = nd[x].firstChild /\ r.lastChild = nd[x].lastChild
    <3>1. nd[x] \in NodeRecords /\ n \in PointersTo
      BY DEF PointersTo
    <3> QED BY <3>1 DEF NodeRecords
  <2> HIDE DEF r
  <2>3. /\ linked \in [Nodes -> NodeRecords] /\ linked[x] = r
        /\ \A k \in Nodes : k # x => linked[k] = nd[k]
    BY <2>1, <2>2
  <2> HIDE DEF linked
  <2> QED BY <2>2, <2>3
<1> HIDE DEF linked
<1>3. /\ before = Null => PutLink(left, linked, n, "firstChild", x)
      /\ before # Null => PutLink(left, linked, before, "next", x)
  BY <1>2, WithPuts DEF PointersTo, Links
<1>4. left \in [Nodes -> NodeRecords]
  BY <1>3 DEF PutLink
<1> HIDE DEF left
<1>5. /\ after = Null => PutLink(w, left, n, "lastChild", x)
      /\ after # Null => PutLink(w, left, after, "prev", x)
  BY <1>1, <1>4, WithPuts DEF PointersTo, Links
<1> HIDE DEF w
<1>6. w \in [Nodes -> NodeRecords] 
  BY <1>5 DEF PutLink
<1>7. ASSUME NEW k \in Nodes PROVE JoinedAt(w, nd, n, before, x, after, k)
  <2>0. k # Null
    BY NullIsNone
  <2>1. CASE before = Null /\ after = Null
    BY <1>2, <1>3, <1>5, <2>0, <2>1, PutLinkIs DEF JoinedAt
  <2>2. CASE before # Null /\ after = Null
    BY <1>2, <1>3, <1>5, <2>0, <2>2, PutLinkIs DEF JoinedAt
  <2>3. CASE before = Null /\ after # Null
    BY <1>2, <1>3, <1>5, <2>0, <2>3, PutLinkIs DEF JoinedAt
  <2>4. CASE before # Null /\ after # Null
    BY <1>2, <1>3, <1>5, <2>0, <2>4, PutLinkIs DEF JoinedAt
  <2> QED BY <2>1, <2>2, <2>3, <2>4
<1> QED BY <1>6, <1>7 DEF w

\* x out of its list, and pointing to none of it.
Detached(nd, n, x) ==
  [Unlinked(nd, n, x) EXCEPT ![x] = [@ EXCEPT !.parent = Null, !.prev = Null, !.next = Null]]

\* Unlinking x writes the links of DetachedAt, but for those of x, which is deleted.
LEMMA UnlinkedIs ==
  ASSUME NEW nd \in [Nodes -> NodeRecords], NEW n \in Nodes, NEW x \in Nodes,
         nd[x].prev # x, nd[x].next # x
  PROVE  /\ Unlinked(nd, n, x) \in [Nodes -> NodeRecords]
         /\ Detached(nd, n, x) \in [Nodes -> NodeRecords]
         /\ \A k \in Nodes : DetachedAt(Detached(nd, n, x), nd, n, x, k)
         /\ \A k \in Nodes : k # x => Detached(nd, n, x)[k] = Unlinked(nd, n, x)[k]
<1> DEFINE before == nd[x].prev
           after == nd[x].next
           left == IF after = Null THEN With(nd, n, "lastChild", before)
                   ELSE With(nd, after, "prev", before)
           u == Unlinked(nd, n, x)
           w == Detached(nd, n, x)
<1>1. u = IF before = Null THEN With(left, n, "firstChild", after)
          ELSE With(left, before, "next", after)
  BY DEF Unlinked
<1>2. before \in PointersTo /\ after \in PointersTo /\ n \in PointersTo /\ x # Null
  BY NullIsNone DEF NodeRecords, PointersTo
<1> HIDE DEF before, after
<1>3. /\ after = Null => PutLink(left, nd, n, "lastChild", before)
      /\ after # Null => PutLink(left, nd, after, "prev", before)
  BY <1>2, WithPuts DEF Links
<1>4. left \in [Nodes -> NodeRecords]
  BY <1>3 DEF PutLink
<1> HIDE DEF left
<1>5. /\ before = Null => PutLink(u, left, n, "firstChild", after)
      /\ before # Null => PutLink(u, left, before, "next", after)
  BY <1>1, <1>2, <1>4, WithPuts DEF Links
<1>6. /\ u \in [Nodes -> NodeRecords]
      /\ w = [u EXCEPT ![x] = [@ EXCEPT !.parent = Null, !.prev = Null, !.next = Null]]
  BY <1>5 DEF PutLink, Detached
<1> HIDE DEF u, w
<1> DEFINE r == [u[x] EXCEPT !.parent = Null, !.prev = Null, !.next = Null]
<1>7. /\ r \in NodeRecords /\ r.kind = u[x].kind /\ r.value = u[x].value
      /\ r.parent = Null /\ r.prev = Null
      /\ r.next = Null /\ r.firstChild = u[x].firstChild /\ r.lastChild = u[x].lastChild
  <2>1. u[x] \in NodeRecords /\ Null \in PointersTo
    BY <1>6 DEF PointersTo
  <2> QED BY <2>1 DEF NodeRecords
<1>8. w \in [Nodes -> NodeRecords] /\ w[x] = r /\ \A k \in Nodes : k # x => w[k] = u[k]
  BY <1>6, <1>7
<1> HIDE DEF r
<1>9. ASSUME NEW k \in Nodes PROVE DetachedAt(w, nd, n, x, k)
  <2>0. k # Null /\ before # x /\ after # x
    BY NullIsNone DEF before, after
  <2>a. \A j \in Nodes : /\ w[j].kind = u[j].kind /\ w[j].value = u[j].value
                         /\ w[j].parent = IF j = x THEN Null ELSE u[j].parent
                         /\ w[j].prev = IF j = x THEN Null ELSE u[j].prev
                         /\ w[j].next = IF j = x THEN Null ELSE u[j].next
                         /\ w[j].firstChild = u[j].firstChild
                         /\ w[j].lastChild = u[j].lastChild
    BY <1>7, <1>8
  <2>1. CASE before = Null /\ after = Null
    BY <2>a, <1>3, <1>5, <2>0, <2>1, PutLinkIs DEF DetachedAt, before, after
  <2>2. CASE before # Null /\ after = Null
    BY <2>a, <1>3, <1>5, <2>0, <2>2, PutLinkIs DEF DetachedAt, before, after
  <2>3. CASE before = Null /\ after # Null
    BY <2>a, <1>3, <1>5, <2>0, <2>3, PutLinkIs DEF DetachedAt, before, after
  <2>4. CASE before # Null /\ after # Null
    BY <2>a, <1>3, <1>5, <2>0, <2>4, PutLinkIs DEF DetachedAt, before, after
  <2> QED BY <2>1, <2>2, <2>3, <2>4
<1> QED BY <1>6, <1>8, <1>9 DEF u, w

\* A clone takes what it has of the node it is a copy of; its links lead to other clones.
CloneOf(r, m, f) ==
  LET image(k) == IF k \in DOMAIN f THEN f[k] ELSE Null
  IN  /\ r.kind = node[m].kind /\ r.value = node[m].value
      /\ r.parent = image(node[m].parent) /\ r.prev = image(node[m].prev)
      /\ r.next = image(node[m].next)
      /\ r.firstChild = image(node[m].firstChild) /\ r.lastChild = image(node[m].lastChild)

\* w is nd and the clones.
WithClones(w, nd, S, U, f) ==
  /\ f \in [S -> Nodes] /\ \A m \in S : f[m] \notin U
  /\ \A a, b \in S : f[a] = f[b] => a = b
  /\ w \in [Nodes -> NodeRecords]
  /\ \A m \in S : CloneOf(w[f[m]], m, f)
  /\ \A k \in Nodes : (\A m \in S : f[m] # k) => w[k] = nd[k]

\* Copies leaves the nodes that are no clones as they are.
LEMMA CopiesAre ==
  ASSUME NEW nd \in [Nodes -> NodeRecords], node \in [Nodes -> NodeRecords],
         NEW S, S \subseteq Nodes, NEW U, NEW f \in Allocations(S, U)
  PROVE  WithClones(Copies(nd, f), nd, S, U, f)
<1>1. f \in [S -> Nodes] /\ (\A m \in S : f[m] \notin U) /\ \A a, b \in S : f[a] = f[b] => a = b
      /\ DOMAIN f = S
  BY DEF Allocations
<1> DEFINE image(m) == IF m \in DOMAIN f THEN f[m] ELSE Null
           copied(m) ==
             [node[m] EXCEPT !.parent = image(@), !.prev = image(@), !.next = image(@),
                             !.firstChild = image(@), !.lastChild = image(@)]
           w == Copies(nd, f)
           src(k) == CHOOSE m \in DOMAIN f : f[m] = k
<1>2. w = [k \in Nodes |-> IF \E m \in DOMAIN f : f[m] = k THEN copied(src(k)) ELSE nd[k]]
  BY DEF Copies
<1>3. ASSUME NEW m \in S PROVE src(f[m]) = m
  BY <1>1
<1>4. \A m : image(m) \in PointersTo
  BY <1>1 DEF PointersTo
<1> HIDE DEF src
<1>5. ASSUME NEW m \in S
      PROVE  copied(m) \in NodeRecords /\ CloneOf(copied(m), m, f)
  <2>1. node[m] \in NodeRecords
    OBVIOUS
  <2> DEFINE r == copied(m)
  <2>2. /\ r.kind = node[m].kind /\ r.value = node[m].value
        /\ r.parent = image(node[m].parent)
        /\ r.prev = image(node[m].prev) /\ r.next = image(node[m].next)
        /\ r.firstChild = image(node[m].firstChild)
        /\ r.lastChild = image(node[m].lastChild)
    <3> HIDE DEF image
    <3> QED BY <2>1 DEF NodeRecords
  <2>3. r \in NodeRecords
    <3> HIDE DEF image
    <3> QED BY <1>4, <2>1 DEF NodeRecords
  <2> HIDE DEF r
  <2>4. CloneOf(r, m, f)
    BY <2>2 DEF CloneOf
  <2> QED BY <2>3, <2>4 DEF r
<1> HIDE DEF copied
<1>6. w \in [Nodes -> NodeRecords]
  <2>1. \A k \in Nodes : (\E m \in S : f[m] = k) => src(k) \in S
    BY <1>3
  <2>2. \A k \in Nodes : (\E m \in S : f[m] = k) => copied(src(k)) \in NodeRecords
    BY <1>5, <2>1
  <2> QED BY <1>1, <1>2, <2>2
<1>7. ASSUME NEW m \in S PROVE w[f[m]] = copied(m)
  BY <1>1, <1>2, <1>3
<1>8. \A k \in Nodes : (\A m \in S : f[m] # k) => w[k] = nd[k]
  BY <1>1, <1>2
<1> QED BY <1>1, <1>5, <1>6, <1>7, <1>8 DEF w, WithClones

-----------------------------------------------------------------------------
(***************************************************************************)
(* The calls                                                               *)
(***************************************************************************)
\* What the invariant says of the types.
LEMMA TreeTerms ==
  ASSUME TreeInv
  PROVE  /\ node \in [Nodes -> NodeRecords] /\ Live \subseteq Nodes /\ Null \notin Live
         /\ \A k \in Nodes : k \in Live <=> node[k].kind # "free"
BY NullIsNone DEF TreeInv, TreesOn, Live

\* The invariant is about some set of nodes, which can only be those in use.
LEMMA NextTree ==
  ASSUME NEW M, TreesOn(node', M)
  PROVE  TreeInv'
BY DEF TreesOn, LiveIn, TreeInv, Live

\* A whole tree is deleted.
LEMMA DeleteOn ==
  ASSUME NEW nd, NEW L, TreesOn(nd, L), NEW x, NEW D, TreeOf(nd, L, x, D), nd[x].parent = Null,
         NEW w \in [Nodes -> NodeRecords],
         \A k \in D : w[k].kind = "free",
         \A k \in Nodes \ D : Alike(w[k], nd[k])
  PROVE  TreesOn(w, L \ D)
<1>1. L \subseteq Nodes /\ Null \notin L /\ D \subseteq L /\ Closed(nd, L, D)
  BY NullIsNone DEF TreesOn, LiveIn, TreeOf
<1>2. ASSUME NEW c \in D, NEW e \in L, nd[c].parent # Null, nd[e].parent = nd[c].parent
      PROVE  e \in D
  BY <1>2 DEF TreeOf, Closed
<1>3. Downward(nd, L)
  BY DEF TreesOn, Local
<1>4. ASSUME NEW k \in L \ D
      PROVE  nd[k].firstChild \notin D /\ nd[k].lastChild \notin D
  <2>1. \A c \in D : nd[c].parent # k
    BY <1>1 DEF TreeOf
  <2> QED BY <1>1, <1>3, <2>1 DEF Downward
<1>5. \A k \in Nodes \ D : w[k].kind = nd[k].kind
  BY DEF Alike
<1>6. \A k \in L \ D :
        /\ w[k].parent = nd[k].parent /\ w[k].prev = nd[k].prev /\ w[k].next = nd[k].next
        /\ w[k].firstChild = IF nd[k].firstChild \in D THEN Null ELSE nd[k].firstChild
        /\ w[k].lastChild = IF nd[k].lastChild \in D THEN Null ELSE nd[k].lastChild
  BY <1>1, <1>4 DEF Alike
<1> QED BY <1>1, <1>2, <1>5, <1>6, DropOn

\* The siblings of x are not under x.
LEMMA SiblingsOut ==
  ASSUME NEW nd, NEW L, TreesOn(nd, L), NEW x, NEW D, TreeOf(nd, L, x, D)
  PROVE  nd[x].prev \notin D /\ nd[x].next \notin D /\ nd[x].prev # x /\ nd[x].next # x
<1>1. x \in L /\ Null \notin D /\ x # Null /\ L \subseteq Nodes
  BY NullIsNone DEF TreeOf, TreesOn, LiveIn
<1>2. PICK h \in [Nodes -> Int] : Onward(nd, L, h)
  BY DEF TreesOn, Ordered
<1>3. BackLinks(nd, L)
  BY DEF TreesOn, Local
<1>4. /\ nd[x].next # Null => nd[nd[x].next].parent = nd[x].parent /\ h[x] < h[nd[x].next]
      /\ nd[x].prev # Null => nd[nd[x].prev].parent = nd[x].parent /\ h[nd[x].prev] < h[x]
  BY <1>1, <1>2, <1>3 DEF Onward, BackLinks
<1>5. nd[x].next # x /\ nd[x].prev # x
  <2>1. h[x] \in Int
    BY <1>1
  <2> QED BY <1>1, <1>4, <2>1
<1> QED BY <1>1, <1>4, <1>5 DEF TreeOf

\* A tree of clones is a tree apart.
LEMMA CloneOn ==
  ASSUME TreeInv, NEW x \in Live, NEW f \in Allocations(Subtree(x), Live)
  PROVE  LET w == Copies(node, f)
             y == f[x]
             F == {f[m] : m \in Subtree(x)}
         IN  /\ TreesOn(w, Live \cup F)
             /\ y \in F /\ w[y].parent = Null /\ w[y].kind = node[x].kind
             /\ F \cap Live = {} /\ Closed(w, Live \cup F, F)
             /\ \A k \in Live : w[k] = node[k]
             /\ \A k \in F : w[k].parent \notin Live
<1> DEFINE w == Copies(node, f)
           y == f[x]
           S == Subtree(x)
           F == {f[m] : m \in S}
           L == Live
           head == [Free EXCEPT !.kind = node[x].kind]
           nd == [node EXCEPT ![y] = head]
<1>1. /\ node \in [Nodes -> NodeRecords] /\ L \subseteq Nodes /\ Null \notin L
      /\ x \in L /\ node[x].kind # "free" /\ TreesOn(node, L)
      /\ \A k \in L : node[k].kind # "free"
  BY TreeTerms DEF TreeInv
<1>2. TreeOf(node, L, x, S) /\ S \subseteq L /\ x \in S /\ S \subseteq Nodes
  BY <1>1, SubtreeIs DEF TreeOf
<1>0. f \in Allocations(S, L)
  OBVIOUS
<1> HIDE DEF S, L
<1>3. /\ f \in [S -> Nodes] /\ (\A m \in S : f[m] \notin L)
      /\ (\A a, b \in S : f[a] = f[b] => a = b)
      /\ w \in [Nodes -> NodeRecords]
      /\ (\A m \in S : CloneOf(w[f[m]], m, f))
      /\ \A k \in Nodes : (\A m \in S : f[m] # k) => w[k] = node[k]
  <2>1. WithClones(w, node, S, L, f)
    BY <1>0, <1>1, <1>2, CopiesAre
  <2> HIDE DEF w
  <2> QED BY <2>1 DEF WithClones
<1> HIDE DEF w
<1>4. y \in Nodes /\ y \notin L /\ y \notin S
  BY <1>2, <1>3
<1> HIDE DEF y
<1>5. /\ head \in NodeRecords /\ head.kind = node[x].kind /\ Alone(head)
      /\ head.firstChild = Null /\ head.lastChild = Null /\ head.parent = Null
      /\ head.prev = Null /\ head.next = Null
  BY <1>1, FreeNode DEF NodeRecords, Alone
<1> HIDE DEF head
<1>6. /\ nd \in [Nodes -> NodeRecords] /\ nd[y] = head
      /\ \A k \in Nodes : k # y => nd[k] = node[k]
  BY <1>1, <1>4, <1>5
<1> HIDE DEF nd
<1>7. TreesOn(nd, L \cup {y})
  <2>1. \A k \in Nodes \ {y} : Alike(nd[k], node[k])
    BY <1>6, AlikeIs
  <2> QED BY <1>1, <1>4, <1>5, <1>6, <2>1, NewOn
<1> DEFINE K == L \cup {y}
<1>8. TreeOf(nd, K, x, S)
  <2>1. \A k \in L : nd[k] = node[k]
    BY <1>1, <1>4, <1>6
  <2>2. Null \notin S /\ nd[y].parent = Null
    BY <1>1, <1>2, <1>5, <1>6
  <2>3. Closed(nd, K, S)
    BY <1>2, <2>1, <2>2 DEF TreeOf, Closed
  <2> QED BY <1>1, <1>2, <2>1, <2>3 DEF TreeOf
<1> HIDE DEF K
<1>9. \A m \in S : nd[m] = node[m] /\ m # Null
  BY <1>1, <1>2, <1>4, <1>6
<1>10. DOMAIN f = S /\ Null \notin S
  BY <1>1, <1>2, <1>3
<1>11. ASSUME NEW m \in S
       PROVE  HeadCopied(w[f[m]], nd[m], f)
  <2>1. CloneOf(w[f[m]], m, f)
    BY <1>3
  <2>2. /\ nd[m].firstChild # Null => nd[m].firstChild \in S
        /\ nd[m].lastChild # Null => nd[m].lastChild \in S
    BY <1>7, <1>8, UnderIs DEF K
  <2> QED BY <1>9, <1>10, <2>1, <2>2 DEF CloneOf, HeadCopied, Image
<1>12. ASSUME NEW m \in S, m # x
       PROVE  CopyMade(w[f[m]], nd[m], f)
  <2>1. CloneOf(w[f[m]], m, f)
    BY <1>3
  <2>2. /\ nd[m].parent \in S
        /\ nd[m].next # Null => nd[m].next \in S
        /\ nd[m].prev # Null => nd[m].prev \in S
    BY <1>7, <1>8, <1>12, UnderIs DEF K
  <2> QED BY <1>9, <1>10, <1>11, <2>1, <2>2 DEF CloneOf, CopyMade, Image
<1>13. /\ w[y].kind = node[x].kind /\ w[y].parent = Null /\ w[y].prev = Null /\ w[y].next = Null
  <2>1. CloneOf(w[y], x, f)
    BY <1>2, <1>3 DEF y
  <2>2. node[x].parent \notin S /\ node[x].prev \notin S /\ node[x].next \notin S
    <3>1. node[x].parent \notin S
      BY <1>2 DEF TreeOf
    <3> QED BY <1>1, <1>2, <3>1, SiblingsOut
  <2> QED BY <1>10, <2>1, <2>2 DEF CloneOf
<1>14. TreesOn(w, K \cup F)
  <2>1. y \in K \ S /\ f[x] = y
    BY <1>4 DEF K, y
  <2>2. nd[y].firstChild = Null /\ nd[y].lastChild = Null
    BY <1>5, <1>6
  <2>3. \A m \in S : m # x => f[m] \notin K
    BY <1>2, <1>3 DEF K, y
  <2>4. ASSUME NEW k \in Nodes, \A m \in S : f[m] # k PROVE Alike(w[k], nd[k])
    <3>1. k # y /\ w[k] = node[k]
      BY <1>2, <1>3, <2>4 DEF y
    <3> QED BY <1>6, <3>1, AlikeIs
  <2>5. /\ w[y].kind = nd[y].kind /\ w[y].parent = nd[y].parent
        /\ w[y].prev = nd[y].prev /\ w[y].next = nd[y].next
        /\ w[y].firstChild = Image(f, nd[x].firstChild)
        /\ w[y].lastChild = Image(f, nd[x].lastChild)
    <3>1. HeadCopied(w[y], nd[x], f)
      BY <1>2, <1>11 DEF y
    <3> QED BY <1>5, <1>6, <1>13, <3>1 DEF HeadCopied
  <2>6. TreesOn(nd, K)
    BY <1>7 DEF K
  <2>7. \A k \in Nodes : (\A m \in S : f[m] # k) => Alike(w[k], nd[k])
    BY <2>4
  <2> HIDE DEF F
  <2>8. TreesOn(w, K \cup {f[m] : m \in S})
    BY <1>3, <1>8, <1>12, <2>1, <2>2, <2>3, <2>5, <2>6, <2>7, GraftOn
  <2> QED BY <2>8 DEF F
<1>15. y \in F /\ K \cup F = L \cup F /\ F \cap L = {}
  BY <1>2, <1>3 DEF K, y
<1>16. \A k \in L : w[k] = node[k]
  BY <1>1, <1>3
<1>17. Closed(w, L \cup F, F)
  <2> SUFFICES ASSUME NEW k \in L \cup F, w[k].parent \in F, k \notin F PROVE FALSE
    BY DEF Closed
  <2>1. k \in L /\ w[k].parent = node[k].parent
    BY <1>16
  <2>2. PICK g \in [Nodes -> Int] : Upward(node, L, g)
    BY <1>1 DEF TreesOn, Ordered
  <2>3. Null \notin F
    BY <1>3, NullIsNone
  <2>4. node[k].parent \in L
    BY <2>1, <2>2, <2>3 DEF Upward
  <2> QED BY <1>15, <2>1, <2>4
<1>18. ASSUME NEW k \in F PROVE w[k].parent \notin L
  <2>1. PICK m \in S : k = f[m]
    OBVIOUS
  <2>2. CloneOf(w[f[m]], m, f)
    BY <1>3
  <2>3. w[k].parent = IF node[m].parent \in S THEN f[node[m].parent] ELSE Null
    BY <1>10, <2>1, <2>2 DEF CloneOf
  <2> QED BY <1>1, <1>3, <2>3
<1> QED BY <1>13, <1>14, <1>15, <1>16, <1>17, <1>18 DEF w, y, F, S, L

\* A constructor.
LEMMA NewTrees ==
  ASSUME TreeInv, NEW n \in Nodes, NEW kind \in Kinds, NEW value \in Values \cup {Null},
         New(n, kind, value)
  PROVE  TreeInv'
<1>1. node' = [node EXCEPT ![n] = Constructed(kind, value)] /\ n \in Nodes \ Live
  BY DEF New
<1>2. Constructed(kind, value) \in NodeRecords /\ Alone(Constructed(kind, value))
  BY DEF Constructed, Free, NodeRecords, PointersTo, Alone, Kinds
<1>3. /\ node' \in [Nodes -> NodeRecords] /\ node'[n] = Constructed(kind, value)
      /\ \A k \in Nodes \ {n} : node'[k] = node[k]
  BY <1>1, <1>2, TreeTerms
<1> DEFINE w == node'
<1>4. w \in [Nodes -> NodeRecords] /\ Alone(w[n]) /\ \A k \in Nodes \ {n} : Alike(w[k], node[k])
  BY <1>2, <1>3, AlikeIs
<1> HIDE DEF w
<1>5. TreesOn(w, Live \cup {n})
  BY <1>1, <1>4, NewOn DEF TreeInv
<1> QED BY <1>5, NextTree DEF w

\* A step that changes no link.
LEMMA AlikeTrees ==
  ASSUME TreeInv, node' \in [Nodes -> NodeRecords], \A k \in Nodes : Alike(node'[k], node[k])
  PROVE  TreeInv'
<1> DEFINE w == node'
<1>1. w \in [Nodes -> NodeRecords] /\ \A k \in Nodes : Alike(w[k], node[k])
  OBVIOUS
<1> HIDE DEF w
<1>2. TreesOn(w, Live)
  BY <1>1, AlikeOn DEF TreeInv
<1> QED BY <1>2, NextTree DEF w

\* SetValue.
LEMMA SetValueTrees ==
  ASSUME TreeInv, NEW n \in Nodes, NEW value \in Values, SetValue(n, value)
  PROVE  TreeInv'
<1>1. node' = [node EXCEPT ![n].value = value] /\ node \in [Nodes -> NodeRecords]
  BY TreeTerms DEF SetValue
<1>2. node' \in [Nodes -> NodeRecords] /\ \A k \in Nodes : Alike(node'[k], node[k])
  BY <1>1 DEF NodeRecords, Alike
<1> QED BY <1>2, AlikeTrees

\* A step that deletes a root with all under it.
LEMMA DeleteTrees ==
  ASSUME TreeInv, NEW x \in Live, node[x].parent = Null,
         node' \in [Nodes -> NodeRecords],
         \A k \in Nodes : Alike(node'[k], Deleted(node, Subtree(x))[k])
  PROVE  TreeInv'
<1> DEFINE w == node'
           S == Subtree(x)
<1>1. TreeOf(node, Live, x, S) /\ S \subseteq Nodes
  BY TreeTerms, SubtreeIs DEF TreeOf
<1> HIDE DEF S
<1>2. ASSUME NEW k \in Nodes
      PROVE  /\ k \in S => w[k].kind = "free"
             /\ k \notin S => Alike(w[k], node[k])
  <2>1. Deleted(node, S)[k] = IF k \in S THEN Free ELSE node[k]
    BY TreeTerms, DeletedIs
  <2>2. Alike(w[k], Deleted(node, S)[k])
    BY DEF S
  <2> QED BY <2>1, <2>2, FreeNode DEF Alike
<1>3. w \in [Nodes -> NodeRecords]
  OBVIOUS
<1> HIDE DEF w
<1>4. TreesOn(w, Live \ S)
  BY <1>1, <1>2, <1>3, DeleteOn DEF TreeInv
<1> QED BY <1>4, NextTree DEF w

\* LinkEndChild, which links a node or deletes a document.
LEMMA LinkTrees ==
  ASSUME TreeInv, NEW n \in Nodes, NEW x \in Nodes, LinkEndChild(n, x)
  PROVE  TreeInv'
<1>1. /\ n \in Live /\ x \in Live /\ node[x].parent = Null /\ x # n
      /\ x \notin Elems(Ancestors(n)) /\ node \in [Nodes -> NodeRecords]
      /\ node' = IF Document(x) THEN SetError(Deleted(node, Subtree(x)), n)
                 ELSE Between(node, n, node[n].lastChild, x, Null)
  BY TreeTerms DEF LinkEndChild, Containers
<1>2. CASE Document(x)
  <2> DEFINE d == Deleted(node, Subtree(x))
  <2>1. d \in [Nodes -> NodeRecords]
    BY <1>1, DeletedIs
  <2>2. node' = SetError(d, n)
    BY <1>1, <1>2
  <2>3. node' \in [Nodes -> NodeRecords] /\ \A k \in Nodes : Alike(node'[k], d[k])
    <3> HIDE DEF d
    <3> QED BY <2>1, <2>2, ErrorIs
  <2> QED BY <1>1, <2>3, DeleteTrees
<1>3. CASE ~Document(x)
  <2> DEFINE w == node'
             last == node[n].lastChild
             D == Subtree(x)
  <2>1. w = Between(node, n, last, x, Null)
    BY <1>1, <1>3
  <2>2. Downward(node, Live)
    BY DEF TreeInv, TreesOn, Local
  <2>3. Adjacent(node, Live, n, last, Null)
    BY <1>1, <2>2 DEF Adjacent, Downward
  <2>4. TreeOf(node, Live, x, D)
    BY <1>1, SubtreeIs
  <2>5. n \notin D
    BY <1>1, NotBelow
  <2>6. last \in PointersTo /\ last # x /\ Null # x /\ Null \in PointersTo
    <3>1. last \in Live \cup {Null} /\ (last # Null => node[last].parent = n) /\ n # Null
      BY <1>1, <2>3, NullIsNone DEF Adjacent
    <3> QED BY <1>1, <3>1, TreeTerms DEF PointersTo
  <2> HIDE DEF D, last
  <2>7. w \in [Nodes -> NodeRecords] /\ \A k \in Nodes : JoinedAt(w, node, n, last, x, Null, k)
    BY <1>1, <2>1, <2>6, BetweenIs
  <2> HIDE DEF w
  <2>8. D \subseteq Live /\ Closed(node, Live, D) /\ x \in D /\ node[x].kind # "document"
    BY <1>3, <2>4 DEF TreeOf, Document
  <2>9. TreesOn(w, Live)
    BY <1>1, <2>3, <2>5, <2>7, <2>8, JoinOn DEF TreeInv
  <2> QED BY <2>9, NextTree DEF w
<1> QED BY <1>2, <1>3

\* A copy of x is linked next to a child of n, or at an end of its list.
LEMMA InsertTrees ==
  ASSUME TreeInv, NEW n \in Live, NEW x \in Live, NEW before, NEW after,
         Adjacent(node, Live, n, before, after), Insert(n, before, x, after)
  PROVE  TreeInv'
<1>1. CASE Document(x) /\ node' = SetError(node, n)
  <2>1. node' \in [Nodes -> NodeRecords] /\ \A k \in Nodes : Alike(node'[k], node[k])
    BY <1>1, TreeTerms, ErrorIs
  <2> QED BY <2>1, AlikeTrees
<1>2. ASSUME ~Document(x), NEW f \in Allocations(Subtree(x), Live),
             node' = Between(Copies(node, f), n, before, f[x], after)
      PROVE  TreeInv'
  <2> DEFINE c == Copies(node, f)
             y == f[x]
             F == {f[m] : m \in Subtree(x)}
             M == Live \cup F
             w == node'
  <2>1. /\ TreesOn(c, M) /\ y \in F /\ c[y].parent = Null /\ c[y].kind = node[x].kind
        /\ F \cap Live = {} /\ Closed(c, M, F) /\ \A k \in Live : c[k] = node[k]
    BY CloneOn
  <2>2. w = Between(c, n, before, y, after)
    BY <1>2
  <2> HIDE DEF c, y, F
  <2>3. Adjacent(c, M, n, before, after) /\ n \in M /\ n \notin F /\ F \subseteq M
    BY <2>1 DEF Adjacent
  <2>4. M \subseteq Nodes /\ y \in Nodes /\ y \in M /\ y # Null /\ c \in [Nodes -> NodeRecords]
    BY <2>1, NullIsNone DEF TreesOn, LiveIn
  <2>5. before \in PointersTo /\ after \in PointersTo /\ before # y /\ after # y
    <3>1. before \in Live \cup {Null} /\ after \in Live \cup {Null}
      BY DEF Adjacent
    <3> QED BY <2>1, <2>4, <3>1 DEF PointersTo
  <2> HIDE DEF M
  <2>6. w \in [Nodes -> NodeRecords] /\ \A k \in Nodes : JoinedAt(w, c, n, before, y, after, k)
    BY <2>2, <2>3, <2>4, <2>5, BetweenIs DEF M
  <2> HIDE DEF w
  <2>7. c[y].kind # "document"
    BY <1>2, <2>1 DEF Document
  <2>8. TreesOn(w, M)
    BY <2>1, <2>3, <2>4, <2>6, <2>7, JoinOn
  <2> QED BY <2>8, NextTree DEF w
<1> QED BY <1>1, <1>2 DEF Insert

\* A child and its neighbours.
LEMMA NeighboursOf ==
  ASSUME TreeInv, NEW n \in Live, NEW c \in Live, node[c].parent = n
  PROVE  /\ Adjacent(node, Live, n, node[c].prev, c) /\ Adjacent(node, Live, n, c, node[c].next)
         /\ node[c].prev \in Live \cup {Null} /\ node[c].next \in Live \cup {Null}
         /\ node[c].prev # Null => node[node[c].prev].parent = n /\ node[node[c].prev].next = c
         /\ node[c].next # Null => node[node[c].next].parent = n /\ node[node[c].next].prev = c
         /\ node[c].prev = Null => node[n].firstChild = c
         /\ node[c].next = Null => node[n].lastChild = c
<1>1. PICK h \in [Nodes -> Int] : Onward(node, Live, h)
  BY DEF TreeInv, TreesOn, Ordered
<1>2. BackLinks(node, Live) /\ Ends(node, Live) /\ n # Null /\ c # Null
  BY TreeTerms, NullIsNone DEF TreeInv, TreesOn, Local
<1> QED BY <1>1, <1>2 DEF Adjacent, Onward, BackLinks, Ends

\* The three calls that insert a copy.
LEMMA InsertsTrees ==
  ASSUME TreeInv, NEW n \in Nodes, NEW c \in Nodes, NEW x \in Nodes,
         InsertEndChild(n, x) \/ InsertBeforeChild(n, c, x) \/ InsertAfterChild(n, c, x)
  PROVE  TreeInv'
<1>1. CASE InsertEndChild(n, x)
  <2>1. n \in Live /\ x \in Live /\ Insert(n, node[n].lastChild, x, Null)
    BY <1>1 DEF InsertEndChild, Containers
  <2>2. Downward(node, Live)
    BY DEF TreeInv, TreesOn, Local
  <2>3. Adjacent(node, Live, n, node[n].lastChild, Null)
    BY <2>1, <2>2 DEF Adjacent, Downward
  <2> QED BY <2>1, <2>3, InsertTrees
<1>2. CASE InsertBeforeChild(n, c, x)
  <2>1. /\ n \in Live /\ x \in Live /\ c \in Live /\ node[c].parent = n
        /\ Insert(n, node[c].prev, x, c)
    BY <1>2 DEF InsertBeforeChild, Containers
  <2> QED BY <2>1, NeighboursOf, InsertTrees
<1>3. CASE InsertAfterChild(n, c, x)
  <2>1. /\ n \in Live /\ x \in Live /\ c \in Live /\ node[c].parent = n
        /\ Insert(n, c, x, node[c].next)
    BY <1>3 DEF InsertAfterChild, Containers
  <2> QED BY <2>1, NeighboursOf, InsertTrees
<1> QED BY <1>1, <1>2, <1>3

\* RemoveChild.
LEMMA RemoveTrees ==
  ASSUME TreeInv, NEW n \in Nodes, NEW x \in Nodes, RemoveChild(n, x)
  PROVE  TreeInv'
<1> DEFINE w == node'
           u == Unlinked(node, n, x)
           d == Detached(node, n, x)
           S == Subtree(x)
           L == Live
<1>1. /\ n \in L /\ x \in L /\ node[x].parent = n /\ w = Deleted(u, S)
      /\ TreesOn(node, L) /\ node \in [Nodes -> NodeRecords] /\ L \subseteq Nodes
      /\ n # Null /\ x # Null /\ Null \notin L
  BY TreeTerms, NullIsNone DEF RemoveChild, Containers, TreeInv
<1>2. TreeOf(node, L, x, S)
  BY SubtreeIs, <1>1
<1>3. node[x].prev # x /\ node[x].next # x
  BY <1>1, <1>2, SiblingsOut
<1> HIDE DEF w, S, L
<1>4. /\ u \in [Nodes -> NodeRecords] /\ d \in [Nodes -> NodeRecords]
      /\ \A k \in Nodes : DetachedAt(d, node, n, x, k)
      /\ \A k \in Nodes : k # x => d[k] = u[k]
  BY <1>1, <1>3, UnlinkedIs
<1> HIDE DEF u, d
<1>5. TreesOn(d, L)
  BY <1>1, <1>4, DetachOn
<1>6. TreeOf(d, L, x, S) /\ d[x].parent = Null
  <2>1. \A k \in L : d[k].parent = IF k = x THEN Null ELSE node[k].parent
    BY <1>1, <1>4 DEF DetachedAt
  <2>2. Null \notin S
    BY <1>1, <1>2 DEF TreeOf
  <2> QED BY <1>1, <1>2, <2>1, <2>2 DEF TreeOf, Closed
<1>7. /\ w \in [Nodes -> NodeRecords]
      /\ \A k \in Nodes : w[k] = IF k \in S THEN Free ELSE u[k]
  BY <1>1, <1>4, DeletedIs
<1>8. S \subseteq Nodes /\ x \in S
  BY <1>1, <1>2 DEF TreeOf
<1>9. \A k \in S : w[k].kind = "free"
  BY <1>7, <1>8, FreeNode
<1>10. \A k \in Nodes \ S : Alike(w[k], d[k])
  BY <1>4, <1>7, <1>8, AlikeIs
<1>11. TreesOn(w, L \ S)
  BY <1>5, <1>6, <1>7, <1>9, <1>10, DeleteOn
<1> QED BY <1>11, NextTree DEF w

\* Clear leaves n without children.
LEMMA ClearedIs ==
  ASSUME TreeInv, NEW n \in Live
  PROVE  /\ TreesOn(Cleared(n), Live \ Under(n))
         /\ Cleared(n)[n].firstChild = Null /\ Cleared(n)[n].lastChild = Null
         /\ Cleared(n)[n].kind = node[n].kind
         /\ Cleared(n)[n].parent = node[n].parent /\ Cleared(n)[n].value = node[n].value
         /\ Cleared(n)[n].prev = node[n].prev /\ Cleared(n)[n].next = node[n].next
         /\ \A k \in Nodes : k \notin Subtree(n) => Cleared(n)[k] = node[k]
<1> DEFINE w == Cleared(n)
           S == Subtree(n)
           D == S \ {n}
           d == Deleted(node, D)
           r == [d[n] EXCEPT !.firstChild = Null, !.lastChild = Null]
           L == Live
<1>1. /\ TreesOn(node, L) /\ node \in [Nodes -> NodeRecords] /\ L \subseteq Nodes /\ Null \notin L
      /\ n \in Nodes /\ TreeOf(node, L, n, S) /\ n \in L
  BY TreeTerms, SubtreeIs DEF TreeInv
<1>2. Under(n) = D
  BY DEF Under
<1>3. w = [d EXCEPT ![n] = r]
  BY <1>2 DEF Cleared
<1> HIDE DEF S, L, w
<1>4. d \in [Nodes -> NodeRecords] /\ \A k \in Nodes : d[k] = IF k \in D THEN Free ELSE node[k]
  BY <1>1, DeletedIs
<1> HIDE DEF d
<1>5. /\ r \in NodeRecords /\ r.kind = node[n].kind /\ r.value = node[n].value
      /\ r.parent = node[n].parent
      /\ r.prev = node[n].prev /\ r.next = node[n].next
      /\ r.firstChild = Null /\ r.lastChild = Null
  <2>1. d[n] = node[n] /\ node[n] \in NodeRecords /\ Null \in PointersTo
    BY <1>1, <1>4 DEF PointersTo
  <2> QED BY <2>1 DEF NodeRecords
<1> HIDE DEF r
<1>6. /\ w \in [Nodes -> NodeRecords] /\ w[n] = r
      /\ \A k \in Nodes : k # n => w[k] = IF k \in D THEN Free ELSE node[k]
  BY <1>1, <1>3, <1>4, <1>5
<1>7. D \subseteq L /\ Closed(node, L, D)
  BY <1>1 DEF TreeOf, Closed
<1>8. ASSUME NEW c \in D, NEW e \in L, node[e].parent = node[c].parent PROVE e \in D
  BY <1>1, <1>8 DEF TreeOf, Closed
<1>9. Downward(node, L)
  BY <1>1 DEF TreesOn, Local
<1>10. \A k \in D : w[k].kind = "free"
  BY <1>1, <1>6, <1>7, FreeNode
<1>11. \A k \in Nodes \ D : w[k].kind = node[k].kind
  BY <1>5, <1>6
<1>12. ASSUME NEW k \in L \ D
       PROVE  /\ w[k].parent = node[k].parent /\ w[k].prev = node[k].prev
              /\ w[k].next = node[k].next
              /\ w[k].firstChild = IF node[k].firstChild \in D THEN Null ELSE node[k].firstChild
              /\ w[k].lastChild = IF node[k].lastChild \in D THEN Null ELSE node[k].lastChild
  <2>1. /\ node[k].firstChild # Null =>
             node[k].firstChild \in L /\ node[node[k].firstChild].parent = k
        /\ node[k].lastChild # Null =>
             node[k].lastChild \in L /\ node[node[k].lastChild].parent = k
    BY <1>9 DEF Downward
  <2>2. CASE k = n
    <3>1. /\ node[n].firstChild # Null => node[n].firstChild \in D
          /\ node[n].lastChild # Null => node[n].lastChild \in D
      BY <1>1, <2>1, <2>2 DEF TreeOf, Closed
    <3> QED BY <1>5, <1>6, <2>2, <3>1
  <2>3. CASE k # n
    <3>1. node[k].firstChild \notin D /\ node[k].lastChild \notin D
      BY <1>1, <2>1, <2>3 DEF TreeOf
    <3> QED BY <1>1, <1>6, <2>3, <3>1
  <2> QED BY <2>2, <2>3
<1> HIDE DEF D
<1>13. TreesOn(w, L \ D)
  BY <1>1, <1>6, <1>7, <1>8, <1>10, <1>11, <1>12, DropOn
<1>14. \A k \in Nodes : k \notin S => w[k] = node[k]
  BY <1>1, <1>6 DEF D, TreeOf
<1> QED BY <1>2, <1>5, <1>6, <1>13, <1>14 DEF w, L, S

\* Clear.
LEMMA ClearTrees ==
  ASSUME TreeInv, NEW n \in Nodes, Clear(n)
  PROVE  TreeInv'
<1>1. n \in Live /\ node' = Cleared(n)
  BY DEF Clear, Containers
<1>2. TreesOn(node', Live \ Under(n))
  BY <1>1, ClearedIs
<1> QED BY <1>2, NextTree

\* Clone.
LEMMA CloneTrees ==
  ASSUME TreeInv, NEW x \in Nodes, Clone(x)
  PROVE  TreeInv'
<1>1. x \in Live
  BY DEF Clone
<1>2. PICK f \in Allocations(Subtree(x), Live) : node' = Copies(node, f)
  BY DEF Clone
<1>3. TreesOn(node', Live \cup {f[m] : m \in Subtree(x)})
  BY <1>1, <1>2, CloneOn
<1> QED BY <1>3, NextTree

\* The destructor of a root.
LEMMA DeletesTrees ==
  ASSUME TreeInv, NEW x \in Nodes, Delete(x)
  PROVE  TreeInv'
<1>1. x \in Live /\ node[x].parent = Null /\ node' = Deleted(node, Subtree(x))
  BY DEF Delete
<1>2. /\ node' \in [Nodes -> NodeRecords]
      /\ \A k \in Nodes : Alike(node'[k], Deleted(node, Subtree(x))[k])
  BY <1>1, TreeTerms, DeletedIs, AlikeIs
<1> QED BY <1>1, <1>2, DeleteTrees

\* The copy takes the place of r, which is deleted with what is under it.
LEMMA ReplaceTrees ==
  ASSUME TreeInv, NEW n \in Nodes, NEW r \in Nodes, NEW x \in Nodes, ReplaceChild(n, r, x)
  PROVE  TreeInv'
<1> DEFINE w == node'
           L == Live
           S == Subtree(r)
           before == node[r].prev
           after == node[r].next
<1>1. /\ n \in L /\ x \in L /\ r \in L /\ node[r].parent = n
      /\ node \in [Nodes -> NodeRecords] /\ L \subseteq Nodes /\ Null \notin L
  BY TreeTerms DEF ReplaceChild, Containers
<1>2. CASE Document(x) /\ w = SetError(node, n)
  <2>1. node' \in [Nodes -> NodeRecords] /\ \A k \in Nodes : Alike(node'[k], node[k])
    BY <1>1, <1>2, ErrorIs
  <2> QED BY <2>1, AlikeTrees
<1>3. ASSUME ~Document(x), NEW f \in Allocations(Subtree(x), L),
             w = Deleted(Between(Copies(node, f), n, before, f[x], after), S)
      PROVE  TreeInv'
  <2> DEFINE c == Copies(node, f)
             y == f[x]
             F == {f[m] : m \in Subtree(x)}
             M == L \cup F
             w1 == Between(c, n, before, y, after)
             w2 == Detached(c, n, r)
             w3 == Between(w2, n, before, y, after)
  <2>1. /\ TreesOn(c, M) /\ y \in F /\ c[y].parent = Null /\ c[y].kind = node[x].kind
        /\ F \cap L = {} /\ Closed(c, M, F) /\ \A k \in L : c[k] = node[k]
        /\ \A k \in F : c[k].parent \notin L
    <3>1. x \in Live /\ f \in Allocations(Subtree(x), Live)
      BY <1>1
    <3> QED BY <3>1, CloneOn
  <2>2. TreeOf(node, L, r, S)
    BY <1>1, SubtreeIs
  <2>3. /\ before \in L \cup {Null} /\ after \in L \cup {Null}
        /\ before # Null => node[before].parent = n /\ node[before].next = r
        /\ after # Null => node[after].parent = n /\ node[after].prev = r
        /\ before = Null => node[n].firstChild = r
        /\ after = Null => node[n].lastChild = r
    BY <1>1, NeighboursOf
  <2>4. before # r /\ after # r /\ before \notin S /\ after \notin S
    BY <1>1, <2>2, SiblingsOut DEF TreeInv
  <2>5. w = Deleted(w1, S) /\ c[r].prev = before /\ c[r].next = after /\ c[r].parent = n
    BY <1>1, <1>3, <2>1
  <2> HIDE DEF c, y, F, S, L, w, before, after
  <2>6. /\ M \subseteq Nodes /\ y \in Nodes /\ y \in M /\ y # Null /\ y \notin S /\ y # r /\ y # n
        /\ c \in [Nodes -> NodeRecords] /\ n \in M /\ r \in M /\ F \subseteq M /\ n \notin F
        /\ r # Null /\ n # Null /\ n # r /\ n \notin S /\ r \in S /\ S \subseteq L
        /\ before # y /\ after # y /\ before \in PointersTo /\ after \in PointersTo
    BY <1>1, <2>1, <2>2, <2>3, NullIsNone DEF TreesOn, LiveIn, TreeOf, PointersTo
  <2> HIDE DEF M
  <2>7. w1 \in [Nodes -> NodeRecords] /\ \A k \in Nodes : JoinedAt(w1, c, n, before, y, after, k)
    BY <2>6, BetweenIs
  <2>8. w2 \in [Nodes -> NodeRecords] /\ \A k \in Nodes : DetachedAt(w2, c, n, r, k)
    BY <1>1, <2>4, <2>5, <2>6, UnlinkedIs
  <2> HIDE DEF w2
  <2>9. w3 \in [Nodes -> NodeRecords] /\ \A k \in Nodes : JoinedAt(w3, w2, n, before, y, after, k)
    BY <2>6, <2>8, BetweenIs
  <2> HIDE DEF w1, w3
  <2>10. TreesOn(w2, M)
    BY <2>1, <2>5, <2>6, <2>8, DetachOn
  <2>11. /\ DetachedAt(w2, c, n, r, n) /\ DetachedAt(w2, c, n, r, y)
         /\ before # Null => DetachedAt(w2, c, n, r, before)
         /\ after # Null => DetachedAt(w2, c, n, r, after)
    BY <2>6, <2>8, <2>3, <1>1
  <2>12. Adjacent(w2, M, n, before, after)
    <3>1. before \in M \cup {Null} /\ after \in M \cup {Null}
      BY <2>3 DEF M
    <3>2. before # Null => w2[before].parent = n /\ w2[before].next = after
      BY <2>1, <2>3, <2>4, <2>5, <2>11 DEF DetachedAt
    <3>3. after # Null => w2[after].parent = n /\ w2[after].prev = before
      BY <2>1, <2>3, <2>4, <2>5, <2>11 DEF DetachedAt
    <3>4. /\ before = Null => w2[n].firstChild = after
          /\ after = Null => w2[n].lastChild = before
      BY <2>5, <2>11 DEF DetachedAt
    <3> QED BY <3>1, <3>2, <3>3, <3>4 DEF Adjacent
  <2>13. w2[y].parent = Null /\ w2[y].kind # "document"
    BY <1>3, <2>1, <2>6, <2>11 DEF DetachedAt, Document
  <2>14. Closed(w2, M, F)
    <3>1. \A k \in M : w2[k].parent = IF k = r THEN Null ELSE c[k].parent
      BY <2>6, <2>8 DEF DetachedAt
    <3>2. Null \notin F
      BY <2>6, NullIsNone
    <3> QED BY <2>1, <3>1, <3>2 DEF Closed
  <2>15. TreesOn(w3, M)
    BY <2>1, <2>6, <2>9, <2>10, <2>12, <2>13, <2>14, JoinOn
  <2>16. TreeOf(w3, M, r, S) /\ w3[r].parent = Null
    <3>1. \A k \in M : w3[k].parent = IF k = y THEN n ELSE IF k = r THEN Null ELSE c[k].parent
      BY <2>6, <2>8, <2>9 DEF DetachedAt, JoinedAt
    <3>2. Null \notin S /\ w3[r].parent = Null
      BY <1>1, <2>6, <3>1
    <3>3. Closed(w3, M, S)
      BY <2>1, <2>2, <2>6, <3>1, <3>2 DEF Closed, TreeOf, M
    <3>4. S \subseteq M
      BY <2>6 DEF M
    <3>5. \A m \in S : m # r => w3[m].parent \in S
      BY <2>1, <2>2, <2>6, <3>1, <3>4 DEF TreeOf
    <3> QED BY <2>6, <3>2, <3>3, <3>4, <3>5 DEF TreeOf
  <2>17. w \in [Nodes -> NodeRecords] /\ \A k \in Nodes : w[k] = IF k \in S THEN Free ELSE w1[k]
    BY <2>5, <2>7, DeletedIs
  <2>18. \A k \in S : w[k].kind = "free"
    BY <1>1, <2>6, <2>17, FreeNode
  <2>19. ASSUME NEW k \in Nodes \ S PROVE Alike(w[k], w3[k])
    <3>1. w[k] = w1[k] /\ k # r
      BY <2>6, <2>17
    <3>2. JoinedAt(w1, c, n, before, y, after, k) /\ JoinedAt(w3, w2, n, before, y, after, k)
          /\ DetachedAt(w2, c, n, r, k)
      BY <2>7, <2>8, <2>9
    <3>3. w1[k].kind = w3[k].kind /\ w1[k].parent = w3[k].parent
      BY <3>1, <3>2 DEF JoinedAt, DetachedAt
    <3>4. w1[k].prev = w3[k].prev /\ w1[k].next = w3[k].next
      BY <2>5, <3>1, <3>2 DEF JoinedAt, DetachedAt
    <3>5. w1[k].firstChild = w3[k].firstChild /\ w1[k].lastChild = w3[k].lastChild
      BY <2>5, <3>1, <3>2 DEF JoinedAt, DetachedAt
    <3> QED BY <3>1, <3>3, <3>4, <3>5 DEF Alike
  <2>20. TreesOn(w, M \ S)
    BY <2>15, <2>16, <2>17, <2>18, <2>19, DeleteOn
  <2> QED BY <2>20, NextTree DEF w
<1> QED BY <1>1, <1>2, <1>3 DEF ReplaceChild

\* What n is assigned of x, whose children are copied by f, under the list of n.
AssignedAt(w, copies, n, x, f, m) ==
  /\ m = n =>
       w[m] = [copies[n] EXCEPT
                 !.value = node[x].value, !.error = node[x].error,
                 !.firstChild = Image(f, node[x].firstChild),
                 !.lastChild = Image(f, node[x].lastChild)]
  /\ m # n /\ (\E c \in Elems(Children(x)) : f[c] = m) => w[m] = [copies[m] EXCEPT !.parent = n]
  /\ m # n /\ ~(\E c \in Elems(Children(x)) : f[c] = m) => w[m] = copies[m]

\* operator=, object by object: no child of x is copied to n itself.
LEMMA AssignmentIs ==
  ASSUME NEW n \in Nodes, NEW x \in Nodes, Assign(n, x)
  PROVE  \E f \in Allocations(Under(x), Live \ Under(n)) :
           /\ node' = [m \in Nodes |-> node'[m]]
           /\ (\A c \in Elems(Children(x)) : f[c] # n) =>
                \A m \in Nodes : AssignedAt(node', Copies(Cleared(n), f), n, x, f, m)
<1> DEFINE copies(f) == Copies(Cleared(n), f)
<1>1. PICK f \in Allocations(Under(x), Live \ Under(n)) :
        node' = [m \in Nodes |->
             CASE m = n ->
                    [copies(f)[n] EXCEPT
                       !.value = node[x].value,
                       !.error = node[x].error,
                       !.firstChild = Image(f, node[x].firstChild),
                       !.lastChild = Image(f, node[x].lastChild)]
               [] \E c \in Elems(Children(x)) : f[c] = m -> [copies(f)[m] EXCEPT !.parent = n]
               [] OTHER -> copies(f)[m]]
  BY DEF Assign, Image
<1> DEFINE w == node'
           k == copies(f)
           E == Elems(Children(x))
           r == [k[n] EXCEPT !.value = node[x].value, !.error = node[x].error,
                             !.firstChild = Image(f, node[x].firstChild),
                             !.lastChild = Image(f, node[x].lastChild)]
<1>2. w = [m \in Nodes |-> CASE m = n -> r
                             [] \E c \in E : f[c] = m -> [k[m] EXCEPT !.parent = n]
                             [] OTHER -> k[m]]
  BY <1>1
<1>3. ASSUME \A c \in E : f[c] # n, NEW m \in Nodes
      PROVE  /\ m = n => w[m] = r
             /\ m # n /\ (\E c \in E : f[c] = m) => w[m] = [k[m] EXCEPT !.parent = n]
             /\ m # n /\ ~(\E c \in E : f[c] = m) => w[m] = k[m]
  <2> HIDE DEF r, k, E, w
  <2> QED BY <1>2, <1>3
<1>4. (\A c \in E : f[c] # n) => \A m \in Nodes : AssignedAt(w, k, n, x, f, m)
  <2> HIDE DEF w, k
  <2> QED BY <1>3 DEF AssignedAt
<1>5. w = [m \in Nodes |-> w[m]]
  <2> HIDE DEF r, k, E, w
  <2> QED BY <1>2
<1> QED BY <1>4, <1>5

\* operator=: n takes copies of the children of x for those it had.
LEMMA AssignTrees ==
  ASSUME TreeInv, NEW n \in Nodes, NEW x \in Nodes, Assign(n, x)
  PROVE  TreeInv'
<1> DEFINE w == node'
           L == Live
           S == Subtree(x)
           T == Subtree(n)
           L1 == L \ Under(n)
           U == Under(x)
           nd == Cleared(n)
           E == Elems(Children(x))
<1>1. /\ n \in L /\ x \in L /\ n \notin S /\ x \notin T /\ node[n].kind = node[x].kind
      /\ node \in [Nodes -> NodeRecords] /\ L \subseteq Nodes /\ Null \notin L
      /\ \A k \in Nodes : k \in L <=> node[k].kind # "free"
  BY TreeTerms DEF Assign, Containers
<1>2. PICK f \in Allocations(U, L1) :
        /\ w = [m \in Nodes |-> w[m]]
        /\ (\A c \in E : f[c] # n) => \A m \in Nodes : AssignedAt(w, Copies(nd, f), n, x, f, m)
  BY AssignmentIs
<1> DEFINE copies == Copies(nd, f)
<1>3. TreeOf(node, L, x, S) /\ TreeOf(node, L, n, T) /\ S \cap T = {}
  BY <1>1, SubtreeIs, Apart
<1>4. /\ TreesOn(nd, L1) /\ nd[n].firstChild = Null /\ nd[n].lastChild = Null
      /\ nd[n].kind = node[n].kind /\ nd[n].parent = node[n].parent
      /\ \A k \in Nodes : k \notin T => nd[k] = node[k]
  BY <1>1, ClearedIs
<1>5. E = {c \in L : node[c].parent = x}
  BY <1>1, KidsAre
<1>6. U = S \ {x} /\ L1 = L \ (T \ {n})
  BY DEF Under
<1> HIDE DEF w, L, S, T, L1, U, nd, E
<1>7. /\ S \subseteq L /\ T \subseteq L /\ x \in S /\ n \in T /\ n \in L1 /\ n # x /\ S \subseteq L1
      /\ S \subseteq Nodes /\ L1 \subseteq L /\ Null \notin S /\ L1 \subseteq Nodes
      /\ nd \in [Nodes -> NodeRecords] /\ n # Null
  BY <1>1, <1>3, <1>4, <1>6 DEF TreeOf, TreesOn
<1>8. TreeOf(nd, L1, x, S) /\ \A k \in S : nd[k] = node[k]
  <2>1. \A k \in L1 : nd[k].parent = node[k].parent
    BY <1>4, <1>6, <1>7
  <2>2. \A k \in S : nd[k] = node[k]
    BY <1>3, <1>4, <1>7
  <2> QED BY <1>3, <1>7, <2>1, <2>2 DEF TreeOf, Closed
<1>9. /\ f \in [U -> Nodes] /\ (\A m \in U : f[m] \notin L1)
      /\ (\A a, b \in U : f[a] = f[b] => a = b)
      /\ copies \in [Nodes -> NodeRecords]
      /\ (\A m \in U : CloneOf(copies[f[m]], m, f))
      /\ \A k \in Nodes : (\A m \in U : f[m] # k) => copies[k] = nd[k]
  <2>1. U \subseteq Nodes
    BY <1>6, <1>7
  <2>2. WithClones(copies, nd, U, L1, f)
    BY <1>1, <1>2, <1>7, <2>1, CopiesAre
  <2> HIDE DEF copies
  <2> QED BY <2>2 DEF WithClones
<1> HIDE DEF copies
<1>10. E \subseteq U
  BY <1>3, <1>5, <1>6, <1>7 DEF TreeOf, Closed
<1>11. \A m \in U : f[m] # n
  BY <1>7, <1>9
<1>12. \A m \in Nodes : AssignedAt(w, copies, n, x, f, m)
  BY <1>2, <1>10, <1>11 DEF copies
<1> DEFINE f2 == [m \in S |-> IF m = x THEN n ELSE f[m]]
<1>13. /\ f2 \in [S -> Nodes] /\ f2[x] = n /\ (\A m \in S : m # x => f2[m] = f[m])
       /\ (\A m \in S : m # x => f2[m] \notin L1)
       /\ \A a, b \in S : f2[a] = f2[b] => a = b
  BY <1>6, <1>7, <1>9, <1>11
<1> HIDE DEF f2
<1>14. ASSUME NEW m \in U
       PROVE  /\ nd[m].firstChild # Null => nd[m].firstChild \in U
              /\ nd[m].lastChild # Null => nd[m].lastChild \in U
              /\ nd[m].parent \in S
              /\ nd[m].next # Null => nd[m].next \in U
              /\ nd[m].prev # Null => nd[m].prev \in U
              /\ nd[m] = node[m] /\ Image(f2, Null) = Null
              /\ \A k \in U : k # Null /\ Image(f2, k) = f[k]
  <2>1. m \in S /\ m # x
    BY <1>6
  <2>2. /\ nd[m].firstChild # Null => nd[m].firstChild \in S \ {x}
        /\ nd[m].lastChild # Null => nd[m].lastChild \in S \ {x}
        /\ nd[m].parent \in S
        /\ nd[m].next # Null => nd[m].next \in S \ {x}
        /\ nd[m].prev # Null => nd[m].prev \in S \ {x}
    BY <1>4, <1>8, <2>1, UnderIs
  <2>3. \A k \in U : k # Null /\ Image(f2, k) = f[k]
    BY <1>6, <1>7, <1>13 DEF Image
  <2> QED BY <1>6, <1>8, <2>1, <2>2, <2>3 DEF Image
<1>15. ASSUME NEW m \in U
       PROVE  /\ w[f[m]] = IF node[m].parent = x THEN [copies[f[m]] EXCEPT !.parent = n]
                           ELSE copies[f[m]]
              /\ f[m] \in Nodes
  <2>1. f[m] \in Nodes /\ f[m] # n
    BY <1>9, <1>11
  <2>2. (\E c \in E : f[c] = f[m]) <=> node[m].parent = x
    BY <1>5, <1>6, <1>7, <1>9, <1>10
  <2>3. AssignedAt(w, copies, n, x, f, f[m])
    BY <1>12, <2>1
  <2> QED BY <2>1, <2>2, <2>3 DEF AssignedAt, E
<1>16. ASSUME NEW m \in S, m # x PROVE CopyMade(w[f2[m]], nd[m], f2)
  <2>1. m \in U /\ f2[m] = f[m]
    BY <1>6, <1>13, <1>16
  <2> DEFINE s == copies[f[m]]
  <2>2. s \in NodeRecords /\ CloneOf(s, m, f) /\ DOMAIN f = U
    BY <1>9, <1>15, <2>1
  <2>3. w[f[m]] = IF node[m].parent = x THEN [s EXCEPT !.parent = n] ELSE s
    BY <1>15, <2>1
  <2> HIDE DEF s
  <2>4. /\ s.kind = nd[m].kind /\ s.firstChild = Image(f2, nd[m].firstChild)
        /\ s.lastChild = Image(f2, nd[m].lastChild)
        /\ s.prev = Image(f2, nd[m].prev) /\ s.next = Image(f2, nd[m].next)
        /\ s.parent = IF nd[m].parent \in U THEN f[nd[m].parent] ELSE Null
    <3>1. Null \notin U
      BY <1>6, <1>7
    <3> QED BY <1>14, <2>1, <2>2, <3>1 DEF CloneOf
  <2>5. /\ w[f[m]].kind = s.kind /\ w[f[m]].prev = s.prev /\ w[f[m]].next = s.next
        /\ w[f[m]].firstChild = s.firstChild /\ w[f[m]].lastChild = s.lastChild
        /\ w[f[m]].parent = IF node[m].parent = x THEN n ELSE s.parent
    BY <2>2, <2>3 DEF NodeRecords
  <2>6. w[f[m]].parent = f2[nd[m].parent]
    BY <1>6, <1>13, <1>14, <2>1, <2>4, <2>5
  <2> QED BY <2>1, <2>4, <2>5, <2>6 DEF CopyMade, HeadCopied
<1>17. /\ w[n].kind = nd[n].kind /\ w[n].parent = nd[n].parent
       /\ w[n].prev = nd[n].prev /\ w[n].next = nd[n].next
       /\ w[n].firstChild = Image(f2, nd[x].firstChild)
       /\ w[n].lastChild = Image(f2, nd[x].lastChild)
       /\ w[n] \in NodeRecords
  <2>1. copies[n] = nd[n] /\ nd[n] \in NodeRecords
    BY <1>7, <1>9, <1>11
  <2> DEFINE p == Image(f, node[x].firstChild)
             q == Image(f, node[x].lastChild)
  <2>2. w[n] = [nd[n] EXCEPT !.value = node[x].value, !.error = node[x].error,
                             !.firstChild = p, !.lastChild = q]
    BY <1>12, <2>1 DEF AssignedAt
  <2>3. /\ node[x].value \in Values \cup {Null} /\ node[x].error \in BOOLEAN
    BY <1>1, <1>7 DEF NodeRecords
  <2>4. /\ nd[x].firstChild # Null => nd[x].firstChild \in U
        /\ nd[x].lastChild # Null => nd[x].lastChild \in U
        /\ nd[x] = node[x]
    BY <1>4, <1>6, <1>7, <1>8, UnderIs
  <2>5. p = Image(f2, nd[x].firstChild) /\ q = Image(f2, nd[x].lastChild)
        /\ p \in PointersTo /\ q \in PointersTo
    BY <1>6, <1>9, <1>13, <2>4 DEF Image, PointersTo
  <2> HIDE DEF p, q
  <2> QED BY <2>1, <2>2, <2>3, <2>5 DEF NodeRecords
<1>18. w \in [Nodes -> NodeRecords]
  <2> SUFFICES ASSUME NEW k \in Nodes PROVE w[k] \in NodeRecords
    BY <1>2
  <2>1. copies[k] \in NodeRecords /\ n \in PointersTo
    BY <1>9 DEF PointersTo
  <2>2. [copies[k] EXCEPT !.parent = n] \in NodeRecords
    BY <2>1 DEF NodeRecords
  <2>3. AssignedAt(w, copies, n, x, f, k)
    BY <1>12
  <2> QED BY <1>17, <2>1, <2>2, <2>3 DEF AssignedAt
<1>19. ASSUME NEW k \in Nodes, \A m \in S : f2[m] # k PROVE Alike(w[k], nd[k])
  <2>1. k # n /\ \A m \in U : f[m] # k
    BY <1>6, <1>7, <1>13, <1>19
  <2>2. copies[k] = nd[k]
    BY <1>9, <2>1
  <2>3. AssignedAt(w, copies, n, x, f, k)
    BY <1>12
  <2>4. w[k] = copies[k]
    BY <1>10, <2>1, <2>3 DEF AssignedAt, E
  <2> QED BY <2>2, <2>4, AlikeIs
<1>20. TreesOn(w, L1 \cup {f2[m] : m \in S})
  <2>1. \A k \in Nodes : (\A m \in S : f2[m] # k) => Alike(w[k], nd[k])
    BY <1>19
  <2>2. n \in L1 \ S
    BY <1>3, <1>7
  <2> QED BY <1>4, <1>8, <1>13, <1>16, <1>17, <1>18, <2>1, <2>2, GraftOn
<1> QED BY <1>20, NextTree DEF w

\* No object, no tree.
LEMMA InitTrees == Init => TreeInv
<1> SUFFICES ASSUME Init PROVE TreeInv
  OBVIOUS
<1>1. \A n \in Nodes : node[n] = Free
  BY DEF Init
<1>2. node \in [Nodes -> NodeRecords]
  BY FreeNode DEF Init
<1>3. Live = {}
  BY <1>1, FreeNode DEF Live
<1>4. LiveIn(node, {})
  BY <1>3 DEF LiveIn, Live
<1>5. Local(node, {})
  BY DEF Local, BackLinks, Rooted, Ends, Downward
<1>6. Ordered(node, {})
  <2>1. [n \in Nodes |-> 0] \in [Nodes -> Int]
    OBVIOUS
  <2> QED BY <2>1 DEF Ordered, Onward, Upward
<1> QED BY <1>2, <1>3, <1>4, <1>5, <1>6 DEF TreeInv, TreesOn

\* Every call keeps the trees.
LEMMA NextTrees == TreeInv /\ [Next]_vars => TreeInv'
<1> SUFFICES ASSUME TreeInv, [Next]_vars PROVE TreeInv'
  OBVIOUS
<1>1. ASSUME NEW n \in Nodes, NEW kind \in Kinds, NEW value \in Values \cup {Null},
             New(n, kind, value)
      PROVE  TreeInv'
  BY <1>1, NewTrees
<1>2. ASSUME NEW n \in Nodes, NEW value \in Values, SetValue(n, value) PROVE TreeInv'
  BY <1>2, SetValueTrees
<1>3. ASSUME NEW n \in Nodes, NEW x \in Nodes, LinkEndChild(n, x) PROVE TreeInv'
  BY <1>3, LinkTrees
<1>4. ASSUME NEW n \in Nodes, NEW x \in Nodes, InsertEndChild(n, x) PROVE TreeInv'
  BY <1>4, InsertsTrees
<1>5. ASSUME NEW n \in Nodes, NEW b \in Nodes, NEW x \in Nodes, InsertBeforeChild(n, b, x)
      PROVE  TreeInv'
  BY <1>5, InsertsTrees
<1>6. ASSUME NEW n \in Nodes, NEW a \in Nodes, NEW x \in Nodes, InsertAfterChild(n, a, x)
      PROVE  TreeInv'
  BY <1>6, InsertsTrees
<1>7. ASSUME NEW n \in Nodes, NEW r \in Nodes, NEW x \in Nodes, ReplaceChild(n, r, x)
      PROVE  TreeInv'
  BY <1>7, ReplaceTrees
<1>8. ASSUME NEW n \in Nodes, NEW x \in Nodes, RemoveChild(n, x) PROVE TreeInv'
  BY <1>8, RemoveTrees
<1>9. ASSUME NEW n \in Nodes, Clear(n) PROVE TreeInv'
  BY <1>9, ClearTrees
<1>10. ASSUME NEW n \in Nodes, NEW x \in Nodes, Assign(n, x) PROVE TreeInv'
  BY <1>10, AssignTrees
<1>11. ASSUME NEW x \in Nodes, Clone(x) PROVE TreeInv'
  BY <1>11, CloneTrees
<1>12. ASSUME NEW x \in Nodes, Delete(x) PROVE TreeInv'
  BY <1>12, DeletesTrees
<1>13. CASE UNCHANGED vars
  BY <1>13, TreeTerms, AlikeIs, AlikeTrees DEF vars
<1> QED
  BY <1>1, <1>2, <1>3, <1>4, <1>5, <1>6, <1>7, <1>8, <1>9, <1>10, <1>11, <1>12, <1>13 DEF Next

\* Whatever calls are made on nodes, and however many nodes there are: no pointer to a
\* deleted node, lists that agree in both directions, every node below its root, documents on
\* top (tinyxml.cpp:147-355, the copies of 551-556, 853-897 and 940-952 included).
THEOREM NodesConsistent == Spec => []Consistent
<1>1. Init => TreeInv
  BY InitTrees
<1>2. TreeInv /\ [Next]_vars => TreeInv'
  BY NextTrees
<1>3. TreeInv => Consistent
  BY TreesConsistent DEF Consistent
<1> QED BY <1>1, <1>2, <1>3, PTL DEF Spec

-----------------------------------------------------------------------------
(***************************************************************************)
(* What the children of a node are along their links                       *)
(***************************************************************************)
\* The children of k in nd.
Kids(nd, k) == Chain(nd, "next", nd[k].firstChild)

\* t leads from a, along next, to before b.
Path(nd, M, a, t, b) ==
  /\ t \in Seq(M)
  /\ Len(t) = 0 => a = b
  /\ Len(t) > 0 => t[1] = a /\ nd[t[Len(t)]].next = b
  /\ \A i \in 1..(Len(t) - 1) : nd[t[i]].next = t[i + 1]

\* A list that is followed is a path to the end.
LEMMA PathFollows ==
  ASSUME NEW nd, NEW M, Null \notin M, NEW a, NEW t
  PROVE  Path(nd, M, a, t, Null) <=> Follows(nd, "next", a, M, t)
<1>1. t \in Seq(M) => Len(t) \in Nat /\ (Len(t) > 0 => t[1] \in M)
  BY LenProperties
<1>2. t \in Seq(M) => (Len(t) = 0 \/ Len(t) > 0)
  BY <1>1
<1> QED BY <1>1, <1>2 DEF Path, Follows

\* Places of two sequences in their concatenation.
LEMMA JoinPlaces ==
  ASSUME NEW p \in Nat, NEW q \in Nat, NEW i \in 1..(p + q - 1)
  PROVE  \/ i \in 1..(p - 1) /\ i + 1 <= p /\ i <= p /\ i + 1 \in 1..(p + q) /\ i \in 1..(p + q)
         \/ i = p /\ ~(i + 1 <= p) /\ (i + 1) - p = 1 /\ p > 0 /\ q > 0 /\ i <= p
            /\ i + 1 \in 1..(p + q) /\ i \in 1..(p + q)
         \/ i - p \in 1..(q - 1) /\ ~(i + 1 <= p) /\ ~(i <= p) /\ (i + 1) - p = (i - p) + 1
            /\ i + 1 \in 1..(p + q) /\ i \in 1..(p + q)
OBVIOUS

\* One path after the other.
LEMMA PathJoin ==
  ASSUME NEW w, NEW M, NEW a, NEW t, NEW b, NEW u, NEW c,
         Path(w, M, a, t, b), Path(w, M, b, u, c)
  PROVE  Path(w, M, a, t \o u, c)
<1> DEFINE v == t \o u
           p == Len(t)
           q == Len(u)
<1>1. t \in Seq(M) /\ u \in Seq(M) /\ p \in Nat /\ q \in Nat
  BY LenProperties DEF Path
<1>2. /\ v \in Seq(M) /\ Len(v) = p + q
      /\ \A i \in 1..(p + q) : v[i] = IF i <= p THEN t[i] ELSE u[i - p]
  BY <1>1, ConcatProperties
<1>3. /\ p = 0 => a = b
      /\ p > 0 => t[1] = a /\ w[t[p]].next = b
      /\ \A i \in 1..(p - 1) : w[t[i]].next = t[i + 1]
      /\ q = 0 => b = c
      /\ q > 0 => u[1] = b /\ w[u[q]].next = c
      /\ \A i \in 1..(q - 1) : w[u[i]].next = u[i + 1]
  BY DEF Path
<1> HIDE DEF v, p, q
<1>4. Len(v) = 0 => a = c
  <2>1. Len(v) = p + q
    BY <1>2
  <2>2. Len(v) = 0 => p = 0 /\ q = 0
    BY <1>1, <2>1
  <2>3. (p = 0 => a = b) /\ (q = 0 => b = c)
    BY <1>3
  <2> QED BY <2>2, <2>3
<1>5. Len(v) > 0 => v[1] = a
  <2>1. CASE p = 0
    BY <1>1, <1>2, <1>3, <2>1
  <2>2. CASE p > 0
    BY <1>1, <1>2, <1>3, <2>2
  <2> QED BY <1>1, <2>1, <2>2
<1>6. Len(v) > 0 => w[v[Len(v)]].next = c
  <2>1. CASE q = 0
    <3>1. Len(v) = p /\ (p > 0 => v[p] = t[p])
      BY <1>1, <1>2, <2>1
    <3> QED BY <1>1, <1>3, <2>1, <3>1
  <2>2. CASE q > 0
    <3>1. ~(p + q <= p) /\ (p + q) - p = q /\ p + q \in 1..(p + q)
      BY <1>1, <2>2
    <3>2. v[p + q] = u[q]
      BY <1>2, <3>1
    <3> QED BY <1>2, <1>3, <2>2, <3>2
  <2> QED BY <1>1, <2>1, <2>2
<1>7. ASSUME NEW i \in 1..(Len(v) - 1) PROVE w[v[i]].next = v[i + 1]
  <2>1. i \in 1..(p + q - 1)
    BY <1>1, <1>2
  <2>2. CASE i \in 1..(p - 1) /\ i + 1 <= p /\ i <= p /\ i + 1 \in 1..(p + q) /\ i \in 1..(p + q)
    BY <1>2, <1>3, <2>2
  <2>3. CASE i = p /\ ~(i + 1 <= p) /\ (i + 1) - p = 1 /\ p > 0 /\ q > 0 /\ i <= p
            /\ i + 1 \in 1..(p + q) /\ i \in 1..(p + q)
    <3>1. v[i] = t[p] /\ v[i + 1] = u[1]
      BY <1>2, <2>3
    <3> QED BY <1>3, <2>3, <3>1
  <2>4. CASE i - p \in 1..(q - 1) /\ ~(i + 1 <= p) /\ ~(i <= p) /\ (i + 1) - p = (i - p) + 1
            /\ i + 1 \in 1..(p + q) /\ i \in 1..(p + q)
    <3>1. v[i] = u[i - p] /\ v[i + 1] = u[(i - p) + 1]
      BY <1>2, <2>4
    <3> QED BY <1>3, <2>4, <3>1
  <2>5. p \in Nat /\ q \in Nat /\ i \in 1..(p + q - 1)
    BY <1>1, <2>1
  <2> HIDE DEF p, q
  <2> QED BY <2>2, <2>3, <2>4, <2>5, JoinPlaces
<1>8. Path(w, M, a, v, c)
  BY <1>2, <1>4, <1>5, <1>6, <1>7 DEF Path
<1> QED BY <1>8 DEF v

\* A part of a path, in other nodes in which only the last link of the part leads elsewhere.
LEMMA PathPart ==
  ASSUME NEW nd, NEW L, NEW a, NEW s, Path(nd, L, a, s, Null),
         NEW i \in Nat, NEW j \in Nat, i > 0, j <= Len(s), i <= j + 1,
         NEW w, NEW M, \A k \in i..j : s[k] \in M,
         \A k \in i..j : k < j => w[s[k]].next = nd[s[k]].next,
         NEW b, j >= i => w[s[j]].next = b
  PROVE  Path(w, M, IF i <= j THEN s[i] ELSE b, SubSeq(s, i, j), b)
<1> DEFINE t == SubSeq(s, i, j)
           n == Len(t)
           f == IF i <= j THEN s[i] ELSE b
<1>1. Len(s) \in Nat
  BY LenProperties DEF Path
<1>2. /\ t \in Seq(M) /\ n = IF i <= j THEN j - i + 1 ELSE 0
      /\ \A k \in 1..(j - i + 1) : t[k] = s[i + k - 1]
  BY SubSeqProperties
<1> HIDE DEF t, n, f
<1>3. n = 0 => f = b
  BY <1>2 DEF f
<1>4. n > 0 => t[1] = f /\ w[t[n]].next = b
  <2> SUFFICES ASSUME n > 0 PROVE t[1] = f /\ w[t[n]].next = b
    OBVIOUS
  <2>1. i <= j /\ n = j - i + 1 /\ i + 1 - 1 = i /\ i + n - 1 = j /\ 1 \in 1..(j - i + 1)
        /\ n \in 1..(j - i + 1) /\ j >= i
    BY <1>2
  <2>2. t[1] = s[i] /\ t[n] = s[j]
    BY <1>2, <2>1
  <2> QED BY <2>1, <2>2 DEF f
<1>5. ASSUME NEW k \in 1..(n - 1) PROVE w[t[k]].next = t[k + 1]
  <2> DEFINE m == i + k - 1
  <2>1. /\ n = j - i + 1 /\ k \in 1..(j - i + 1) /\ k + 1 \in 1..(j - i + 1)
        /\ i + (k + 1) - 1 = m + 1 /\ m \in i..j /\ m < j /\ m \in 1..(Len(s) - 1)
    BY <1>1, <1>2
  <2>2. t[k] = s[m] /\ t[k + 1] = s[m + 1]
    BY <1>2, <2>1
  <2> HIDE DEF m
  <2>3. w[s[m]].next = nd[s[m]].next /\ nd[s[m]].next = s[m + 1]
    BY <2>1 DEF Path
  <2> QED BY <2>2, <2>3
<1>6. Path(w, M, f, t, b)
  BY <1>2, <1>3, <1>4, <1>5 DEF Path, n
<1> QED BY <1>6 DEF t, f

\* A path whose nodes all have images is a path of images.
LEMMA PathImage ==
  ASSUME NEW nd, NEW L, NEW a, NEW s, Path(nd, L, a, s, Null), Null \notin L,
         NEW w, NEW M, NEW f,
         \A k \in 1..Len(s) : f[s[k]] \in M /\ w[f[s[k]]].next = Image(f, nd[s[k]].next)
  PROVE  Path(w, M, Image(f, a), [k \in 1..Len(s) |-> f[s[k]]], Null)
<1> DEFINE t == [k \in 1..Len(s) |-> f[s[k]]]
           n == Len(s)
<1>1. n \in Nat /\ s \in [1..n -> L]
  BY LenProperties DEF Path
<1>2. t \in Seq(M) /\ Len(t) = n /\ \A k \in 1..n : t[k] = f[s[k]]
  BY <1>1, SeqDef
<1> HIDE DEF t
<1>3. n = 0 => Image(f, a) = Null
  BY DEF Path, Image
<1>4. n > 0 => t[1] = Image(f, a) /\ w[t[n]].next = Null
  BY <1>1, <1>2 DEF Path, Image
<1>5. ASSUME NEW k \in 1..(n - 1) PROVE w[t[k]].next = t[k + 1]
  <2>1. k \in 1..n /\ k + 1 \in 1..n
    BY <1>1
  <2>2. nd[s[k]].next = s[k + 1] /\ s[k + 1] # Null
    BY <1>1, <2>1 DEF Path
  <2> QED BY <1>2, <2>1, <2>2 DEF Image
<1>6. Path(w, M, Image(f, a), t, Null)
  BY <1>2, <1>3, <1>4, <1>5 DEF Path
<1> QED BY <1>6 DEF t

\* The children of a node, as a path; what leads to the end from the first child is they.
LEMMA KidsPath ==
  ASSUME NEW nd, NEW L, TreesOn(nd, L), NEW n \in L
  PROVE  /\ Null \notin L /\ Kids(nd, n) \in Seq(L)
         /\ Path(nd, L, nd[n].firstChild, Kids(nd, n), Null)
         /\ \A s : Path(nd, L, nd[n].firstChild, s, Null) => Kids(nd, n) = s
<1> DEFINE a == nd[n].firstChild
           t == Kids(nd, n)
<1>1. L \subseteq Nodes /\ Null \notin L
  BY NullIsNone DEF TreesOn, LiveIn
<1>2. a \in L \cup {Null}
  BY DEF TreesOn, Local, Downward
<1> HIDE DEF a
<1>3. Follows(nd, "next", a, L, Chain(nd, "next", a))
  BY <1>2, ChainOf
<1>4. t = Chain(nd, "next", a)
  BY DEF Kids, a
<1> HIDE DEF t
<1>5. Path(nd, L, a, t, Null)
  BY <1>1, <1>3, <1>4, PathFollows
<1>6. ASSUME NEW s, Path(nd, L, a, s, Null) PROVE t = s
  <2>1. Follows(nd, "next", a, L, s) /\ Follows(nd, "next", a, L, t)
    BY <1>1, <1>3, <1>4, <1>6, PathFollows
  <2> QED BY <1>1, <2>1, FollowsOne
<1> QED BY <1>1, <1>5, <1>6 DEF Path, a, t

\* No node is twice on the way to the end.
LEMMA PathRises ==
  ASSUME NEW nd, NEW L, TreesOn(nd, L), NEW n \in L, NEW i, NEW j,
         i \in 1..Len(Kids(nd, n)), j \in 1..Len(Kids(nd, n)), i # j
  PROVE  Kids(nd, n)[i] # Kids(nd, n)[j]
<1> DEFINE s == Kids(nd, n)
           m == Len(s)
<1>1. PICK h \in [Nodes -> Int] : Onward(nd, L, h)
  BY DEF TreesOn, Ordered
<1>2. Path(nd, L, nd[n].firstChild, s, Null) /\ Null \notin L /\ L \subseteq Nodes
  BY KidsPath DEF TreesOn, LiveIn
<1>3. s \in [1..m -> L] /\ m \in Nat
  BY <1>2, LenProperties DEF Path
<1> HIDE DEF s
<1> DEFINE H == {k \in Nat : k \in 1..m => \A l \in 1..(k - 1) : h[s[l]] < h[s[k]]}
<1>4. 0 \in H
  OBVIOUS
<1>5. ASSUME NEW k \in Nat, k \in H PROVE k + 1 \in H
  <2> SUFFICES ASSUME k + 1 \in 1..m, NEW l \in 1..k PROVE h[s[l]] < h[s[k + 1]]
    <3>1. (k + 1) - 1 = k
      OBVIOUS
    <3> QED BY <3>1
  <2>1. k \in 1..m /\ k \in 1..(m - 1) /\ l \in 1..m /\ (l = k \/ l \in 1..(k - 1))
    BY <1>3
  <2>2. nd[s[k]].next = s[k + 1] /\ s[k] \in L /\ s[k + 1] \in L /\ s[l] \in L
    BY <1>2, <1>3, <2>1 DEF Path
  <2>3. h[s[k]] < h[s[k + 1]]
    BY <1>1, <1>2, <2>2 DEF Onward
  <2>4. h[s[k]] \in Int /\ h[s[k + 1]] \in Int /\ h[s[l]] \in Int
    BY <1>2, <2>2
  <2>5. l = k \/ h[s[l]] < h[s[k]]
    BY <1>5, <2>1
  <2> QED BY <2>3, <2>4, <2>5
<1> HIDE DEF H
<1>6. Nat \subseteq H
  BY <1>4, <1>5, SetInduction
<1>7. ASSUME NEW p \in 1..m, NEW q \in 1..m, p < q PROVE s[p] # s[q]
  <2>1. q \in Nat /\ p \in 1..(q - 1)
    BY <1>3, <1>7
  <2>2. h[s[p]] < h[s[q]]
    BY <1>6, <2>1 DEF H
  <2>3. h[s[p]] \in Int
    BY <1>2, <1>3
  <2> QED BY <2>2, <2>3
<1>8. i \in 1..m /\ j \in 1..m
  BY DEF s, m
<1>9. i < j \/ j < i
  BY <1>3, <1>8
<1>10. s[i] # s[j]
  BY <1>7, <1>8, <1>9
<1> QED BY <1>10 DEF s

\* The nodes in K have the same labels and children in w as in node.
KeptAs(w, K) ==
  \A k \in K : /\ w[k].kind = node[k].kind /\ w[k].value = node[k].value
               /\ Kids(w, k) = Children(k)
\* The images of a list.
Images(f, s) == [k \in DOMAIN s |-> f[s[k]]]
\* The nodes in S have copies in w.
CopiedAs(w, S, f) ==
  \A m \in S : /\ w[f[m]].kind = node[m].kind /\ w[f[m]].value = node[m].value
               /\ Kids(w, f[m]) = Images(f, Children(m))

\* The children, by place.
LEMMA ChildAt ==
  ASSUME TreeInv, NEW n \in Live
  PROVE  /\ Children(n) = Kids(node, n) /\ Len(Children(n)) \in Nat
         /\ DOMAIN Children(n) = 1..Len(Children(n)) /\ Children(n) \in Seq(Live)
         /\ \A i \in 1..Len(Children(n)) :
              Children(n)[i] \in Live /\ node[Children(n)[i]].parent = n
         /\ \A c \in Live : node[c].parent = n => \E i \in 1..Len(Children(n)) : c = Children(n)[i]
         /\ \A i, j \in 1..Len(Children(n)) : i # j => Children(n)[i] # Children(n)[j]
<1> DEFINE s == Children(n)
<1>1. s = Kids(node, n)
  BY DEF Children, Kids
<1>2. s \in Seq(Live)
  BY <1>1, KidsPath DEF TreeInv
<1>3. Elems(s) = {c \in Live : node[c].parent = n}
  BY KidsAre
<1>4. \A i, j \in 1..Len(s) : i # j => s[i] # s[j]
  <2>1. \A i, j \in 1..Len(Kids(node, n)) : i # j => Kids(node, n)[i] # Kids(node, n)[j]
    BY PathRises DEF TreeInv
  <2> QED BY <1>1, <2>1
<1> HIDE DEF s
<1>5. Len(s) \in Nat /\ DOMAIN s = 1..Len(s)
  BY <1>2, LenProperties
<1>6. Elems(s) = {s[i] : i \in 1..Len(s)}
  BY <1>5 DEF Elems
<1>7. \A i \in 1..Len(s) : s[i] \in Live /\ node[s[i]].parent = n
  BY <1>3, <1>6
<1>8. \A c \in Live : node[c].parent = n => \E i \in 1..Len(s) : c = s[i]
  BY <1>3, <1>6
<1> QED BY <1>1, <1>2, <1>4, <1>5, <1>7, <1>8 DEF s

\* A node whose first child and whose children's next links are images has their images.
LEMMA ImageKids ==
  ASSUME TreeInv, NEW w, NEW M, TreesOn(w, M), NEW m \in Live, NEW y \in M, NEW f,
         w[y].firstChild = Image(f, node[m].firstChild),
         \A c \in Live : node[c].parent = m =>
           f[c] \in M /\ w[f[c]].next = Image(f, node[c].next)
  PROVE  Kids(w, y) = Images(f, Children(m))
<1> DEFINE s == Children(m)
           a == node[m].firstChild
<1>1. /\ s = Kids(node, m)
      /\ \A i \in 1..Len(s) : s[i] \in Live /\ node[s[i]].parent = m
  BY ChildAt
<1>2. Path(node, Live, a, s, Null) /\ Null \notin Live
  BY <1>1, KidsPath DEF TreeInv
<1>3. \A k \in 1..Len(s) : f[s[k]] \in M /\ w[f[s[k]]].next = Image(f, node[s[k]].next)
  BY <1>1
<1> HIDE DEF s, a
<1>4. Path(w, M, Image(f, a), [k \in 1..Len(s) |-> f[s[k]]], Null)
  BY <1>2, <1>3, PathImage
<1>5. w[y].firstChild = Image(f, a)
  BY DEF a
<1> DEFINE t == [k \in 1..Len(s) |-> f[s[k]]]
<1> HIDE DEF t
<1>6. Path(w, M, w[y].firstChild, t, Null)
  BY <1>4, <1>5 DEF t
<1>7. Kids(w, y) = t
  BY <1>6, KidsPath
<1>8. t = Images(f, s)
  <2>1. DOMAIN s = 1..Len(s)
    BY ChildAt DEF s
  <2> QED BY <2>1 DEF t, Images
<1> QED BY <1>7, <1>8 DEF s

\* Where the links of the children of a node stay, it has the same children.
LEMMA SameKids ==
  ASSUME TreeInv, NEW w, NEW M, TreesOn(w, M), NEW m \in Live, m \in M,
         w[m].firstChild = node[m].firstChild,
         \A c \in Live : node[c].parent = m => c \in M /\ w[c].next = node[c].next
  PROVE  Kids(w, m) = Children(m)
<1> DEFINE f == [k \in Nodes |-> k]
           s == Children(m)
           t == Images(f, s)
<1>1. /\ Live \subseteq Nodes /\ Null \notin Live
      /\ \A k \in Nodes : node[k].firstChild \in PointersTo /\ node[k].next \in PointersTo
  BY TreeTerms, FieldsAre DEF TreeInv
<1>2. \A k \in PointersTo : Image(f, k) = k
  BY DEF Image, PointersTo
<1>3. \A k \in Live : f[k] = k /\ Image(f, node[k].next) = node[k].next
                      /\ Image(f, node[k].firstChild) = node[k].firstChild
  BY <1>1, <1>2
<1> HIDE DEF f
<1>4. Kids(w, m) = t
  <2>1. w[m].firstChild = Image(f, node[m].firstChild)
    BY <1>3
  <2>2. \A c \in Live : node[c].parent = m => f[c] \in M /\ w[f[c]].next = Image(f, node[c].next)
    BY <1>3
  <2> QED BY <2>1, <2>2, ImageKids
<1>5. t = s
  <2>1. s \in Seq(Live)
    BY ChildAt
  <2> HIDE DEF s
  <2>2. s \in [1..Len(s) -> Live]
    BY <2>1, LenProperties
  <2>3. \A i \in 1..Len(s) : f[s[i]] = s[i]
    BY <1>3, <2>2
  <2>4. t = [k \in DOMAIN s |-> f[s[k]]]
    BY DEF Images
  <2> HIDE DEF t
  <2> QED BY <2>2, <2>3, <2>4
<1> QED BY <1>4, <1>5

\* KeptAs, from the links.
LEMMA KeptIs ==
  ASSUME TreeInv, NEW w, NEW M, TreesOn(w, M), NEW K, K \subseteq Live, K \subseteq M,
         \A k \in K : /\ w[k].kind = node[k].kind /\ w[k].value = node[k].value
                      /\ w[k].firstChild = node[k].firstChild,
         \A c \in Live : node[c].parent \in K => c \in M /\ w[c].next = node[c].next
  PROVE  KeptAs(w, K)
<1>1. ASSUME NEW m \in K PROVE Kids(w, m) = Children(m)
  BY SameKids
<1> QED BY <1>1 DEF KeptAs

\* CopiedAs, from the links.
LEMMA CopiedIs ==
  ASSUME TreeInv, NEW w, NEW M, TreesOn(w, M), NEW S, S \subseteq Live, NEW f,
         \A m \in S : /\ f[m] \in M
                      /\ w[f[m]].kind = node[m].kind /\ w[f[m]].value = node[m].value
                      /\ w[f[m]].firstChild = Image(f, node[m].firstChild),
         \A c \in Live : node[c].parent \in S =>
           f[c] \in M /\ w[f[c]].next = Image(f, node[c].next)
  PROVE  CopiedAs(w, S, f)
<1>1. ASSUME NEW m \in S
      PROVE  Kids(w, f[m]) = Images(f, Children(m))
  BY ImageKids
<1> QED BY <1>1 DEF CopiedAs

\* s with t in the place of what it has from i to j.
Spliced(s, i, j, t) == SubSeq(s, 1, i - 1) \o t \o SubSeq(s, j + 1, Len(s))

\* The links of what s has before i and after j, in w: the last before i leads to a.
Around(w, M, s, i, j, a) ==
  /\ \A k \in 1..(i - 1) : s[k] \in M /\ (k < i - 1 => w[s[k]].next = node[s[k]].next)
  /\ i > 1 => w[s[i - 1]].next = a
  /\ \A k \in (j + 1)..Len(s) : s[k] \in M /\ w[s[k]].next = node[s[k]].next

\* The children of n from i to j go, and t takes their place.
LEMMA SpliceKids ==
  ASSUME TreeInv, NEW w, NEW M, TreesOn(w, M), NEW n \in Live, n \in M,
         NEW i \in Nat, NEW j \in Nat, i > 0, j <= Len(Children(n)), i <= j + 1,
         NEW a, NEW t, NEW b,
         Path(w, M, a, t, b),
         b = IF j < Len(Children(n)) THEN Children(n)[j + 1] ELSE Null,
         w[n].firstChild = IF i = 1 THEN a ELSE node[n].firstChild,
         Around(w, M, Children(n), i, j, a)
  PROVE  Kids(w, n) = Spliced(Children(n), i, j, t)
<1> DEFINE s == Children(n)
           q == Len(s)
           p == SubSeq(s, 1, i - 1)
           r == SubSeq(s, j + 1, q)
           first == node[n].firstChild
<1>1. s = Kids(node, n) /\ q \in Nat
  BY ChildAt
<1>2. Path(node, Live, first, s, Null) /\ Null \notin Live
  BY <1>1, KidsPath DEF TreeInv
<1> HIDE DEF s, first
<1>3. Path(w, M, IF i = 1 THEN a ELSE first, p, a)
  <2> DEFINE k == i - 1
  <2>1. /\ 1 \in Nat /\ k \in Nat /\ 1 > 0 /\ k <= q /\ 1 <= k + 1
        /\ (1 <= k <=> i # 1) /\ (k >= 1 <=> i > 1)
    BY <1>1 DEF s
  <2>2. \A l \in 1..k : s[l] \in M /\ (l < k => w[s[l]].next = node[s[l]].next)
    BY DEF s, Around
  <2>3. k >= 1 => w[s[k]].next = a
    BY <2>1 DEF s, Around
  <2>4. 1 <= k => s[1] = first
    BY <1>1, <1>2, <2>1 DEF Path
  <2> HIDE DEF k, q
  <2>5. Path(w, M, IF 1 <= k THEN s[1] ELSE a, SubSeq(s, 1, k), a)
    BY <1>2, <2>1, <2>2, <2>3, PathPart DEF q
  <2>6. (IF 1 <= k THEN s[1] ELSE a) = IF i = 1 THEN a ELSE first
    BY <2>1, <2>4
  <2> QED BY <2>5, <2>6 DEF k
<1>4. Path(w, M, b, r, Null)
  <2> DEFINE k == j + 1
  <2>1. /\ k \in Nat /\ q \in Nat /\ k > 0 /\ q <= q /\ k <= q + 1 /\ (k <= q <=> j < q)
        /\ (q >= k => q > 0 /\ q \in k..q)
    BY <1>1 DEF s
  <2>2. \A l \in k..q : s[l] \in M /\ w[s[l]].next = node[s[l]].next
    BY DEF s, Around
  <2>3. q >= k => w[s[q]].next = Null
    BY <1>2, <2>1, <2>2 DEF Path
  <2>4. b = IF k <= q THEN s[k] ELSE Null
    BY <2>1 DEF s
  <2> HIDE DEF k
  <2>5. q <= Len(s)
    BY <2>1
  <2> HIDE DEF q
  <2>6. Path(w, M, IF k <= q THEN s[k] ELSE Null, SubSeq(s, k, q), Null)
    BY <1>2, <2>1, <2>2, <2>3, <2>5, PathPart
  <2> QED BY <2>4, <2>6 DEF k
<1> HIDE DEF p, r, q
<1>5. Path(w, M, w[n].firstChild, p \o t, b)
  BY <1>3, PathJoin DEF first
<1>6. Path(w, M, w[n].firstChild, (p \o t) \o r, Null)
  BY <1>4, <1>5, PathJoin
<1>7. Kids(w, n) = (p \o t) \o r
  BY <1>6, KidsPath
<1> QED BY <1>7 DEF p, q, r, s, Spliced

-----------------------------------------------------------------------------
(***************************************************************************)
(* The trees that the linked objects stand for                             *)
(***************************************************************************)
\* The labels and the lists, of node and of the next state.
LEMMA ViewIs ==
  /\ Labels = [n \in Nodes |-> IF n \in Live THEN <<node[n].kind, node[n].value>> ELSE <<>>]
  /\ Lists = [n \in Nodes |-> IF n \in Live THEN Children(n) ELSE <<>>]
  /\ Labels' = [n \in Nodes |-> IF n \in Live' THEN <<node'[n].kind, node'[n].value>> ELSE <<>>]
  /\ Lists' = [n \in Nodes |-> IF n \in Live' THEN Kids(node', n) ELSE <<>>]
  /\ Live' = {n \in Nodes : node'[n].kind # "free"}
BY DEF Labels, Lists, Kids, Children, Live

\* A label is no empty list.
LEMMA SomeLabel == ASSUME NEW u, NEW v PROVE <<u, v>> # <<>>
OBVIOUS

\* Node by node.
LEMMA ViewAt ==
  ASSUME TreeInv
  PROVE  /\ Live \subseteq Nodes /\ DOMAIN Labels = Nodes /\ DOMAIN Lists = Nodes
         /\ Tree!Live = Live
         /\ \A n \in Live : /\ Labels[n] = <<node[n].kind, node[n].value>>
                            /\ Lists[n] = Children(n)
         /\ \A n \in Nodes \ Live : Labels[n] = <<>> /\ Lists[n] = <<>>
<1>1. Live \subseteq Nodes
  BY TreeTerms
<1> QED BY <1>1, ViewIs, SomeLabel DEF Tree!Live

\* The children of a member.
LEMMA ElemsOfLists ==
  ASSUME TreeInv, NEW n \in Nodes
  PROVE  Tree!Elems(Lists[n]) = {c \in Live : n \in Live /\ node[c].parent = n}
<1>1. CASE n \in Live
  <2>1. Lists[n] = Children(n)
    BY <1>1, ViewAt
  <2>2. Elems(Children(n)) = {c \in Live : node[c].parent = n}
    BY <1>1, KidsAre
  <2> QED BY <1>1, <2>1, <2>2 DEF Elems, Tree!Elems
<1>2. CASE n \notin Live
  <2>1. Lists[n] = <<>>
    BY <1>2, ViewAt
  <2>2. DOMAIN <<>> = {}
    OBVIOUS
  <2> QED BY <1>2, <2>1, <2>2 DEF Tree!Elems
<1> QED BY <1>1, <1>2

\* A set of live nodes that has the children of its members is what is reached of S, if it
\* is the smallest with S.
LEMMA ReachedIs ==
  ASSUME TreeInv, NEW S, NEW D, S \subseteq D, D \subseteq Live, Closed(node, Live, D),
         \A C : S \subseteq C /\ Closed(node, Live, C) => D \subseteq C
  PROVE  Tree!Reached(S) = D
<1> DEFINE links == UNION {{m} \X Tree!Elems(Lists[m]) : m \in Nodes}
           closed == {R \in SUBSET Nodes :
                        S \subseteq R /\ \A e \in links : e[1] \in R => e[2] \in R}
<1>1. Tree!Reached(S) = {n \in Nodes : \A R \in closed : n \in R}
  BY DEF Tree!Reached
<1>2. Live \subseteq Nodes /\ Null \notin Live
  BY TreeTerms
<1>3. \A m \in Nodes : Tree!Elems(Lists[m]) = {c \in Live : m \in Live /\ node[c].parent = m}
  BY ElemsOfLists
<1>4. \A e : e \in links <=> \E m \in Nodes, c \in Live :
                              e = <<m, c>> /\ m \in Live /\ node[c].parent = m
  BY <1>3
<1> HIDE DEF links
<1>5. ASSUME NEW R \in SUBSET Nodes, S \subseteq R, \A e \in links : e[1] \in R => e[2] \in R
      PROVE  D \subseteq R
  <2> DEFINE C == R \cap Live
  <2>1. Closed(node, Live, C)
    <3> SUFFICES ASSUME NEW c \in Live, node[c].parent \in C PROVE c \in C
      BY DEF Closed
    <3>1. <<node[c].parent, c>> \in links
      BY <1>2, <1>4
    <3>2. <<node[c].parent, c>>[1] \in R => <<node[c].parent, c>>[2] \in R
      BY <1>5, <3>1
    <3> QED BY <3>2
  <2>2. S \subseteq C
    BY <1>5
  <2> HIDE DEF C
  <2>3. D \subseteq C
    BY <2>1, <2>2
  <2> QED BY <2>3 DEF C
<1>6. D \in closed
  <2>1. ASSUME NEW e \in links, e[1] \in D PROVE e[2] \in D
    <3>1. PICK m \in Nodes, c \in Live : e = <<m, c>> /\ m \in Live /\ node[c].parent = m
      BY <1>4, <2>1
    <3>2. m \in D
      BY <2>1, <3>1
    <3>3. c \in D
      BY <3>1, <3>2 DEF Closed
    <3> QED BY <3>1, <3>3
  <2> QED BY <1>2, <2>1
<1>7. \A R \in closed : D \subseteq R
  BY <1>5
<1> HIDE DEF closed
<1> QED BY <1>1, <1>2, <1>6, <1>7

\* What is reached of a node is what its destructor deletes; of its children, what is under
\* it; of nothing, nothing.
LEMMA ReachedOf ==
  ASSUME TreeInv
  PROVE  /\ \A x \in Live : Tree!Reached({x}) = Subtree(x)
         /\ \A x \in Live : Tree!Reached({c \in Live : node[c].parent = x}) = Under(x)
         /\ Tree!Reached({}) = {}
<1>1. ASSUME NEW x \in Live PROVE Tree!Reached({x}) = Subtree(x)
  <2>1. TreeOf(node, Live, x, Subtree(x))
        /\ \A C : x \in C /\ Closed(node, Live, C) => Subtree(x) \subseteq C
    BY SubtreeIs
  <2> DEFINE D == Subtree(x)
  <2>2. {x} \subseteq D /\ D \subseteq Live /\ Closed(node, Live, D)
    BY <2>1 DEF TreeOf
  <2>3. \A C : {x} \subseteq C /\ Closed(node, Live, C) => D \subseteq C
    BY <2>1
  <2> HIDE DEF D
  <2>4. Tree!Reached({x}) = D
    BY <2>2, <2>3, ReachedIs
  <2> QED BY <2>4 DEF D
<1>2. ASSUME NEW x \in Live
      PROVE  Tree!Reached({c \in Live : node[c].parent = x}) = Under(x)
  <2> DEFINE D == Under(x)
             S == {c \in Live : node[c].parent = x}
             T == Subtree(x)
  <2>1. TreeOf(node, Live, x, T) /\ \A C : x \in C /\ Closed(node, Live, C) => T \subseteq C
    BY SubtreeIs
  <2>2. D = T \ {x} /\ Null \notin Live
    BY TreeTerms DEF Under
  <2> HIDE DEF T, D
  <2>3. S \subseteq D /\ D \subseteq Live /\ Closed(node, Live, D)
    <3>1. x \notin S
      BY <2>1 DEF TreeOf
    <3> QED BY <2>1, <2>2, <3>1 DEF TreeOf, Closed
  <2>4. ASSUME NEW C, S \subseteq C, Closed(node, Live, C) PROVE D \subseteq C
    <3>1. Closed(node, Live, C \cup {x})
      BY <2>4 DEF Closed
    <3>2. T \subseteq C \cup {x}
      BY <2>1, <3>1
    <3> QED BY <2>2, <3>2
  <2> HIDE DEF S
  <2>5. Tree!Reached(S) = D
    BY <2>3, <2>4, ReachedIs
  <2> QED BY <2>5 DEF S, D
<1>3. Tree!Reached({}) = {}
  <2>1. Closed(node, Live, {})
    BY DEF Closed
  <2> QED BY <2>1, ReachedIs
<1> QED BY <1>1, <1>2, <1>3

\* The roots are the nodes without a parent.
LEMMA RootsAre ==
  ASSUME TreeInv
  PROVE  Tree!Roots = {x \in Live : node[x].parent = Null}
<1>1. Live \subseteq Nodes /\ Null \notin Live /\ Tree!Live = Live
  BY TreeTerms, ViewAt
<1>2. \A m \in Live : Tree!Elems(Lists[m]) = {c \in Live : node[c].parent = m}
  BY <1>1, ElemsOfLists
<1>3. \A x \in Live : node[x].parent # Null => node[x].parent \in Live
  <2>1. PICK g \in [Nodes -> Int] : Upward(node, Live, g)
    BY DEF TreeInv, TreesOn, Ordered
  <2> QED BY <2>1 DEF Upward
<1>4. Tree!Roots = Live \ UNION {Tree!Elems(Lists[m]) : m \in Live}
  BY <1>1 DEF Tree!Roots
<1> QED BY <1>1, <1>2, <1>3, <1>4

-----------------------------------------------------------------------------
(***************************************************************************)
(* A part of a list is replaced                                            *)
(***************************************************************************)
\* A list of images.
LEMMA ImagesAre ==
  ASSUME NEW S, NEW T, NEW f, NEW src, f \in [S -> T], src \in Seq(S)
  PROVE  /\ Images(f, src) \in Seq(T) /\ Len(Images(f, src)) = Len(src)
         /\ DOMAIN src = 1..Len(src) /\ Len(src) \in Nat
<1>1. Len(src) \in Nat /\ src \in [1..Len(src) -> S] /\ DOMAIN src = 1..Len(src)
  BY LenProperties
<1> DEFINE t == [k \in 1..Len(src) |-> f[src[k]]]
<1>2. t \in [1..Len(src) -> T]
  BY <1>1
<1> HIDE DEF t
<1>3. t \in Seq(T) /\ Len(t) = Len(src)
  <2>1. DOMAIN t = 1..Len(src)
    BY <1>2
  <2> QED BY <1>1, <1>2, <2>1, SeqDef
<1>4. Images(f, src) = t
  BY <1>1 DEF Images, t
<1> QED BY <1>1, <1>3, <1>4

\* From i to j is a part of s, which may be empty.
Cut(s, i, j) == i \in Nat /\ j \in Nat /\ i > 0 /\ j <= Len(s) /\ i <= j + 1

\* The length of a list of which a part was replaced.
LEMMA SpliceLen ==
  ASSUME NEW T, NEW s, NEW t, NEW i, NEW j,
         s \in Seq(T), t \in Seq(T), Cut(s, i, j)
  PROVE  Len(Spliced(s, i, j, t)) = Len(s) - (j + 1 - i) + Len(t)
<1> DEFINE p == SubSeq(s, 1, i - 1)
           r == SubSeq(s, j + 1, Len(s))
           q == Len(s)
<1>1. q \in Nat /\ (\A k \in 1..q : s[k] \in T) /\ Len(t) \in Nat
  BY LenProperties
<1>0. i \in Nat /\ j \in Nat /\ i > 0 /\ j <= q /\ i <= j + 1
  BY DEF Cut
<1>2. p \in Seq(T) /\ Len(p) = i - 1
  <2> DEFINE e == i - 1
  <2>1. 1 \in Int /\ e \in Int /\ \A k \in 1..e : s[k] \in T
    BY <1>0, <1>1
  <2>2. (IF 1 <= e THEN e - 1 + 1 ELSE 0) = e
    BY <1>0
  <2> HIDE DEF e
  <2>3. SubSeq(s, 1, e) \in Seq(T) /\ Len(SubSeq(s, 1, e)) = e
    BY <2>1, <2>2, SubSeqProperties
  <2> QED BY <2>3 DEF e
<1>3. r \in Seq(T) /\ Len(r) = q - j
  <2> DEFINE e == j + 1
  <2>1. q \in Int /\ e \in Int /\ \A k \in e..q : s[k] \in T
    BY <1>0, <1>1
  <2>2. (IF e <= q THEN q - e + 1 ELSE 0) = q - j
    BY <1>0, <1>1
  <2> HIDE DEF e, q
  <2>3. SubSeq(s, e, q) \in Seq(T) /\ Len(SubSeq(s, e, q)) = q - j
    BY <2>1, <2>2, SubSeqProperties
  <2> QED BY <2>3 DEF e, q
<1> HIDE DEF p, r
<1> DEFINE u == p \o t
           v == u \o r
<1>4. u \in Seq(T) /\ Len(u) = Len(p) + Len(t)
  BY <1>2, ConcatProperties
<1> HIDE DEF u, q
<1>5. Len(u \o r) = Len(u) + Len(r)
  <2>1. u \in Seq(T) /\ r \in Seq(T)
    BY <1>3, <1>4
  <2>2. Len(u \o r) = Len(u) + Len(r)
    BY <2>1, ConcatProperties
  <2> QED BY <2>2
<1> HIDE DEF v
<1>51. Len(v) = Len(u) + Len(r)
  BY <1>5 DEF v
<1>6. Len(v) = q - (j + 1 - i) + Len(t)
  BY <1>0, <1>1, <1>2, <1>3, <1>4, <1>51
<1> QED BY <1>6 DEF p, r, u, v, q, Spliced

\* What a list has from i to j; what the nodes in S are copied to.
Part(s, i, j) == {s[k] : k \in i..j}
Clones(f, S) == {f[m] : m \in S}

\* A step of node is a step of the trees that replaces a part of a list by copies.
LEMMA SpliceStep ==
  ASSUME TreeInv, NEW n \in Live, NEW i, NEW j, Cut(Children(n), i, j),
         NEW src, NEW D, NEW S, NEW f, S \subseteq Live, src \in Seq(S),
         Tree!Reached(Part(Children(n), i, j)) = D, Tree!Reached(Tree!Elems(src)) = S,
         D \subseteq Live, n \notin D, f \in [S -> Nodes \ (Live \ D)],
         \A a, b \in S : f[a] = f[b] => a = b,
         Live' = (Live \ D) \cup Clones(f, S),
         Kids(node', n) = Spliced(Children(n), i, j, Images(f, src)),
         KeptAs(node', (Live \ D) \ {n}), CopiedAs(node', S, f)
  PROVE  Tree!Splice(n, i, j, src)
<1> DEFINE s == Lists[n]
           t == Images(f, src)
           kept == Tree!Live \ Tree!Reached({s[k] : k \in i..j})
           l == Spliced(s, i, j, t)
<1>1. /\ Live \subseteq Nodes /\ Tree!Live = Live /\ s = Children(n)
      /\ \A m \in Live : /\ Labels[m] = <<node[m].kind, node[m].value>>
                         /\ Lists[m] = Children(m)
  BY ViewAt
<1>2. kept = Live \ D
  <2>1. {s[k] : k \in i..j} = {Children(n)[k] : k \in i..j}
    BY <1>1
  <2> HIDE DEF s
  <2> QED BY <1>1, <2>1 DEF Part
<1>3. Lists'[n] = l
  <2>1. n \in Live' /\ n \in Nodes
    BY <1>1
  <2>2. Lists'[n] = Kids(node', n)
    BY <2>1, ViewIs
  <2> QED BY <1>1, <2>2
<1>4. Len(Lists'[n]) = Len(s) - (j + 1 - i) + Len(src)
  <2>1. s \in Seq(Nodes)
    <3>1. s \in Seq(Live)
      BY <1>1, ChildAt
    <3> QED BY <1>1, <3>1
  <2>2. t \in Seq(Nodes) /\ Len(t) = Len(src)
    <3>1. f \in [S -> Nodes] /\ src \in Seq(S)
      OBVIOUS
    <3>2. Images(f, src) \in Seq(Nodes) /\ Len(Images(f, src)) = Len(src)
      BY <3>1, ImagesAre
    <3> QED BY <3>2
  <2>3. Cut(s, i, j)
    BY <1>1
  <2> HIDE DEF s, t, kept
  <2>4. Len(Spliced(s, i, j, t)) = Len(s) - (j + 1 - i) + Len(t)
    BY <2>1, <2>2, <2>3, SpliceLen
  <2> HIDE DEF l
  <2>5. Len(l) = Len(s) - (j + 1 - i) + Len(t)
    BY <2>4 DEF l
  <2> QED BY <1>3, <2>2, <2>5
<1>5. f \in Tree!Choices(S, Nodes \ kept)
  BY <1>2 DEF Tree!Choices
<1>6. DOMAIN f = S
  OBVIOUS
<1>7. Tree!Copied(f)
  <2>1. ASSUME NEW m \in S
        PROVE  /\ Labels'[f[m]] = Labels[m]
               /\ Lists'[f[m]] = Images(f, Lists[m])
    <3>1. f[m] \in Live' /\ f[m] \in Nodes /\ m \in Live
      BY DEF Clones
    <3>2. /\ Labels'[f[m]] = <<node'[f[m]].kind, node'[f[m]].value>>
          /\ Lists'[f[m]] = Kids(node', f[m])
      BY <3>1, ViewIs
    <3> QED BY <1>1, <3>1, <3>2 DEF CopiedAs
  <2> QED BY <1>6, <2>1 DEF Tree!Copied, Images
<1>8. Tree!Kept(kept \ {n})
  <2>1. ASSUME NEW m \in kept \ {n}
        PROVE  Labels'[m] = Labels[m] /\ Lists'[m] = Lists[m]
    <3>1. m \in (Live \ D) \ {n} /\ m \in Live' /\ m \in Nodes /\ m \in Live
      BY <1>1, <1>2
    <3>2. /\ Labels'[m] = <<node'[m].kind, node'[m].value>>
          /\ Lists'[m] = Kids(node', m)
      BY <3>1, ViewIs
    <3> QED BY <1>1, <3>1, <3>2 DEF KeptAs
  <2> QED BY <2>1 DEF Tree!Kept
<1>9. Tree!Gone(Nodes \ (kept \cup Tree!Image(f)))
  <2>1. Tree!Image(f) = {f[m] : m \in S}
    BY <1>6 DEF Tree!Image
  <2>2. \A m \in Nodes \ Live' : Labels'[m] = <<>> /\ Lists'[m] = <<>>
    BY ViewIs
  <2> QED BY <1>2, <2>1, <2>2 DEF Tree!Gone, Clones
<1> HIDE DEF kept, l
<1>10. f \in Tree!Choices(Tree!Reached(Tree!Elems(src)), Nodes \ kept)
  BY <1>5
<1> QED BY <1>3, <1>4, <1>7, <1>8, <1>9, <1>10 DEF Tree!Splice, kept, l, Spliced, Images

\* The children of n from i to j, and D, which is what their destructors delete.
Gap(n, i, j, D) ==
  /\ Cut(Children(n), i, j)
  /\ D \subseteq Live /\ n \notin D /\ Closed(node, Live, D)
  /\ \A k \in i..j : Children(n)[k] \in D
  /\ \A c \in D : node[c].parent \in D \/ \E k \in i..j : c = Children(n)[k]
  /\ Tree!Reached(Part(Children(n), i, j)) = D

\* The neighbours of a child, by place.
LEMMA NeighboursAt ==
  ASSUME TreeInv, NEW n \in Live
  PROVE  /\ node[n].firstChild = IF Len(Children(n)) = 0 THEN Null ELSE Children(n)[1]
         /\ node[n].lastChild = IF Len(Children(n)) = 0 THEN Null
                                ELSE Children(n)[Len(Children(n))]
         /\ \A i \in 1..Len(Children(n)) :
              /\ node[Children(n)[i]].prev = IF i = 1 THEN Null ELSE Children(n)[i - 1]
              /\ node[Children(n)[i]].next = IF i = Len(Children(n)) THEN Null
                                             ELSE Children(n)[i + 1]
<1> DEFINE s == Children(n)
           q == Len(s)
           first == node[n].firstChild
           last == node[n].lastChild
<1>1. /\ s = Kids(node, n) /\ q \in Nat /\ (\A i \in 1..q : s[i] \in Live /\ node[s[i]].parent = n)
      /\ \A c \in Live : node[c].parent = n => \E i \in 1..q : c = s[i]
  BY ChildAt
<1>2. Path(node, Live, first, s, Null) /\ Null \notin Live
  BY <1>1, KidsPath DEF TreeInv
<1>3. PICK h \in [Nodes -> Int] : Onward(node, Live, h)
  BY DEF TreeInv, TreesOn, Ordered
<1>4. Downward(node, Live)
  BY DEF TreeInv, TreesOn, Local
<1>5. /\ (q = 0 => first = Null) /\ (q > 0 => s[1] = first /\ node[s[q]].next = Null)
      /\ \A i \in 1..(q - 1) : node[s[i]].next = s[i + 1]
  BY <1>2 DEF Path
<1>6. /\ first # Null => node[first].prev = Null
      /\ last = Null <=> first = Null
      /\ last # Null => last \in Live /\ node[last].parent = n /\ node[last].next = Null
  BY <1>4 DEF Downward
<1> HIDE DEF s, q, first, last
<1>7. first = IF q = 0 THEN Null ELSE s[1]
  BY <1>1, <1>5
<1>8. ASSUME NEW i \in 1..q
      PROVE  /\ node[s[i]].prev = IF i = 1 THEN Null ELSE s[i - 1]
             /\ node[s[i]].next = IF i = q THEN Null ELSE s[i + 1]
  <2>1. node[s[i]].next = IF i = q THEN Null ELSE s[i + 1]
    <3>1. CASE i = q
      BY <1>1, <1>5, <3>1
    <3>2. CASE i # q
      <4>1. i \in 1..(q - 1)
        BY <1>1, <3>2
      <4> QED BY <1>5, <3>2, <4>1
    <3> QED BY <3>1, <3>2
  <2>2. CASE i = 1
    <3>1. q > 0 /\ s[1] \in Live
      BY <1>1, <2>2
    <3>2. first = s[1] /\ first # Null
      BY <1>2, <1>5, <3>1
    <3> QED BY <1>6, <2>1, <2>2, <3>2
  <2>3. CASE i # 1
    <3> DEFINE k == i - 1
    <3>1. k \in 1..(q - 1) /\ k \in 1..q /\ k + 1 = i
      BY <1>1, <2>3
    <3> HIDE DEF k
    <3>2. node[s[k]].next = s[i] /\ s[k] \in Live /\ s[i] # Null
      BY <1>1, <1>2, <1>5, <3>1
    <3>3. node[s[i]].prev = s[k]
      BY <1>3, <3>2 DEF Onward
    <3> QED BY <2>1, <2>3, <3>3 DEF k
  <2> QED BY <2>2, <2>3
<1>9. last = IF q = 0 THEN Null ELSE s[q]
  <2>1. CASE q = 0
    BY <1>5, <1>6, <2>1
  <2>2. CASE q # 0
    <3>1. first = s[1] /\ s[1] \in Live
      BY <1>1, <1>5, <2>2
    <3>2. last # Null
      BY <1>2, <1>6, <3>1
    <3>3. PICK i \in 1..q : last = s[i]
      BY <1>1, <1>6, <3>2
    <3>4. i = q
      <4> SUFFICES ASSUME i # q PROVE FALSE
        OBVIOUS
      <4>1. i + 1 \in 1..q
        BY <1>1
      <4>2. node[last].next = s[i + 1] /\ s[i + 1] \in Live
        BY <1>1, <1>8, <3>3, <4>1
      <4> QED BY <1>2, <1>6, <3>2, <4>2
    <3> QED BY <2>2, <3>3, <3>4
  <2> QED BY <2>1, <2>2
<1> QED BY <1>7, <1>8, <1>9 DEF s, q, first, last

\* No child goes: a gap between two.
LEMMA GapNone ==
  ASSUME TreeInv, NEW n \in Live, NEW i \in 1..(Len(Children(n)) + 1)
  PROVE  Gap(n, i, i - 1, {})
<1>1. Len(Children(n)) \in Nat
  BY ChildAt
<1>2. /\ i \in Nat /\ i - 1 \in Nat /\ i > 0 /\ i - 1 <= Len(Children(n)) /\ i <= (i - 1) + 1
      /\ i..(i - 1) = {}
  BY <1>1
<1>3. Part(Children(n), i, i - 1) = {}
  BY <1>2 DEF Part
<1>4. Tree!Reached({}) = {} /\ Closed(node, Live, {})
  BY ReachedOf DEF Closed
<1> QED BY <1>2, <1>3, <1>4 DEF Gap, Cut

\* One child goes.
LEMMA GapOne ==
  ASSUME TreeInv, NEW n \in Live, NEW i \in 1..Len(Children(n))
  PROVE  Gap(n, i, i, Subtree(Children(n)[i]))
<1> DEFINE s == Children(n)
           x == s[i]
           D == Subtree(x)
<1>1. Len(s) \in Nat /\ x \in Live /\ node[x].parent = n /\ Null \notin Live
  BY ChildAt, TreeTerms
<1>2. TreeOf(node, Live, x, D) /\ Tree!Reached({x}) = D
  BY <1>1, SubtreeIs, ReachedOf
<1>3. i \in Nat /\ i > 0 /\ i <= Len(s) /\ i <= i + 1 /\ i..i = {i}
  BY <1>1
<1>4. Part(s, i, i) = {x}
  BY <1>3 DEF Part
<1> HIDE DEF D
<1>5. /\ D \subseteq Live /\ n \notin D /\ Closed(node, Live, D) /\ x \in D
      /\ \A c \in D : node[c].parent \in D \/ c = x
  BY <1>1, <1>2 DEF TreeOf
<1>6. Gap(n, i, i, D)
  BY <1>2, <1>3, <1>4, <1>5 DEF Gap, Cut
<1> QED BY <1>6 DEF D

\* All of them go.
LEMMA GapAll ==
  ASSUME TreeInv, NEW n \in Live
  PROVE  Gap(n, 1, Len(Children(n)), Under(n))
<1> DEFINE s == Children(n)
           q == Len(s)
           T == Subtree(n)
           D == Under(n)
<1>1. /\ q \in Nat /\ (\A i \in 1..q : s[i] \in Live /\ node[s[i]].parent = n) /\ Null \notin Live
      /\ \A c \in Live : node[c].parent = n => \E i \in 1..q : c = s[i]
  BY ChildAt, TreeTerms
<1>2. TreeOf(node, Live, n, T) /\ D = T \ {n}
      /\ Tree!Reached({c \in Live : node[c].parent = n}) = D
  BY SubtreeIs, ReachedOf DEF Under
<1>3. Part(s, 1, q) = {c \in Live : node[c].parent = n}
  BY <1>1 DEF Part
<1> HIDE DEF D, T, s
<1>4. /\ 1 \in Nat /\ 1 > 0 /\ q <= Len(s) /\ 1 <= q + 1
  BY <1>1
<1>5. D \subseteq Live /\ n \notin D /\ Closed(node, Live, D)
  BY <1>2 DEF TreeOf, Closed
<1>6. \A k \in 1..q : s[k] \in D
  <2>1. \A c \in Live : node[c].parent = n => c \in D
    BY <1>2 DEF TreeOf, Closed
  <2> QED BY <1>1, <2>1
<1>7. \A c \in D : node[c].parent \in D \/ \E k \in 1..q : c = s[k]
  <2>1. \A c \in D : c \in Live /\ node[c].parent \in T
    BY <1>2 DEF TreeOf
  <2> QED BY <1>1, <1>2, <2>1
<1>8. Tree!Reached(Part(s, 1, q)) = D
  BY <1>2, <1>3
<1> HIDE DEF q
<1> QED BY <1>1, <1>4, <1>5, <1>6, <1>7, <1>8 DEF Gap, Cut, D, s, q

\* What stays around a gap.
LEMMA GapStays ==
  ASSUME TreeInv, NEW n \in Live, NEW i, NEW j, NEW D, Gap(n, i, j, D)
  PROVE  /\ \A k \in 1..Len(Children(n)) : k \notin i..j => Children(n)[k] \in Live \ D
         /\ \A c \in Live : node[c].parent \in (Live \ D) \ {n} => c \in Live \ D
<1>1. ASSUME NEW k \in 1..Len(Children(n)), k \notin i..j PROVE Children(n)[k] \in Live \ D
  <2>1. Children(n)[k] \in Live /\ node[Children(n)[k]].parent = n
    BY ChildAt
  <2>2. \A l \in i..j : l \in 1..Len(Children(n)) /\ l # k
    BY <1>1, ChildAt DEF Gap, Cut
  <2>3. \A l \in i..j : Children(n)[k] # Children(n)[l]
    BY <2>2, ChildAt
  <2> QED BY <2>1, <2>3 DEF Gap
<1>2. ASSUME NEW c \in Live, node[c].parent \in (Live \ D) \ {n} PROVE c \in Live \ D
  <2>1. \A l \in i..j : l \in 1..Len(Children(n))
    BY ChildAt DEF Gap, Cut
  <2>2. \A l \in i..j : node[Children(n)[l]].parent = n
    BY <2>1, ChildAt
  <2> QED BY <1>2, <2>2 DEF Gap
<1> QED BY <1>1, <1>2

\* The links of what stays around a gap: the last before it leads to first.
Filled(w, n, i, D, first) ==
  /\ w[n].firstChild = IF i = 1 THEN first ELSE node[n].firstChild
  /\ \A k \in (Live \ D) \ {n} :
       /\ w[k].kind = node[k].kind /\ w[k].value = node[k].value
       /\ w[k].firstChild = node[k].firstChild
  /\ \A k \in Live \ D :
       w[k].next = IF i > 1 /\ k = Children(n)[i - 1] THEN first ELSE node[k].next

\* What stands after a part of a list.
After(s, j) == IF j = Len(s) THEN Null ELSE s[j + 1]

\* A gap is filled: the links around it lead to a, from where the images of src lead on.
LEMMA FillStep ==
  ASSUME TreeInv, NEW n \in Live, NEW i, NEW j, NEW D, Gap(n, i, j, D),
         NEW src, NEW S, NEW f, S \subseteq Live, src \in Seq(S),
         Tree!Reached(Tree!Elems(src)) = S,
         f \in [S -> Nodes \ (Live \ D)], \A a, b \in S : f[a] = f[b] => a = b,
         Live' = (Live \ D) \cup Clones(f, S), TreesOn(node', Live'),
         CopiedAs(node', S, f),
         NEW first, Path(node', Live', first, Images(f, src), After(Children(n), j)),
         Filled(node', n, i, D, first)
  PROVE  Tree!Splice(n, i, j, src)
<1> DEFINE s == Children(n)
           q == Len(s)
           w == node'
           M == Live'
           K == (Live \ D) \ {n}
           t == Images(f, src)
           after == After(s, j)
<1>0. /\ w[n].firstChild = IF i = 1 THEN first ELSE node[n].firstChild
      /\ \A k \in K : /\ w[k].kind = node[k].kind /\ w[k].value = node[k].value
                      /\ w[k].firstChild = node[k].firstChild
      /\ \A k \in Live \ D :
           w[k].next = IF i > 1 /\ k = s[i - 1] THEN first ELSE node[k].next
  BY DEF Filled
<1>1. /\ q \in Nat /\ (\A k \in 1..q : s[k] \in Live /\ node[s[k]].parent = n)
      /\ \A k, l \in 1..q : k # l => s[k] # s[l]
  BY ChildAt
<1>2. /\ i \in Nat /\ j \in Nat /\ i > 0 /\ j <= q /\ i <= j + 1 /\ D \subseteq Live /\ n \notin D
      /\ Tree!Reached(Part(s, i, j)) = D /\ Cut(s, i, j)
  BY DEF Gap, Cut
<1>3. /\ \A k \in 1..q : k \notin i..j => s[k] \in Live \ D
      /\ \A c \in Live : node[c].parent \in K => c \in Live \ D
  BY GapStays
<1>4. K \subseteq Live /\ K \subseteq M /\ n \in M
  BY <1>2
<1>5. KeptAs(w, K)
  <2>0. i > 1 => i - 1 \in 1..q
    BY <1>1, <1>2
  <2>1. i > 1 => node[s[i - 1]].parent = n
    BY <1>1, <2>0
  <2>2. \A c \in Live : node[c].parent \in K => c \in M /\ w[c].next = node[c].next
    BY <1>0, <1>3, <2>1
  <2>3. \A k \in K : /\ w[k].kind = node[k].kind /\ w[k].value = node[k].value
                     /\ w[k].firstChild = node[k].firstChild
    BY <1>0
  <2>4. TreesOn(w, M)
    OBVIOUS
  <2> HIDE DEF w, M, K, s
  <2> QED BY <1>4, <2>2, <2>3, <2>4, KeptIs
<1>6. Kids(w, n) = Spliced(s, i, j, t)
  <2>1. \A k \in 1..(i - 1) : k \in 1..q /\ k \notin i..j
    BY <1>1, <1>2
  <2>2. \A k \in (j + 1)..q : k \in 1..q /\ k \notin i..j
    BY <1>1, <1>2
  <2>3. i > 1 => i - 1 \in 1..(i - 1)
    BY <1>2
  <2>4. \A k \in 1..(i - 1) : s[k] \in Live \ D
    BY <1>3, <2>1
  <2>5. \A k \in (j + 1)..q : s[k] \in Live \ D
    BY <1>3, <2>2
  <2>6. i > 1 => w[s[i - 1]].next = first
    BY <1>0, <2>3, <2>4
  <2>7. ASSUME NEW k \in 1..(i - 1), k < i - 1 PROVE w[s[k]].next = node[s[k]].next
    <3>1. k # i - 1 /\ i - 1 \in 1..q /\ k \in 1..q
      BY <1>2, <2>1, <2>7
    <3>2. s[k] # s[i - 1]
      BY <1>1, <3>1
    <3> QED BY <1>0, <2>4, <3>2
  <2>8. ASSUME NEW k \in (j + 1)..q PROVE w[s[k]].next = node[s[k]].next
    <3>1. i > 1 => k # i - 1 /\ i - 1 \in 1..q /\ k \in 1..q
      BY <1>1, <1>2
    <3>2. i > 1 => s[k] # s[i - 1]
      BY <1>1, <3>1
    <3> QED BY <1>0, <2>5, <3>2
  <2>9. after = IF j < q THEN s[j + 1] ELSE Null
    BY <1>1, <1>2 DEF After
  <2>10. /\ w[n].firstChild = IF i = 1 THEN first ELSE node[n].firstChild
         /\ TreesOn(w, M) /\ Path(w, M, first, t, after)
    BY <1>0
  <2>11. Live \ D \subseteq M
    OBVIOUS
  <2> HIDE DEF w, M, t, K, after
  <2>12. (\A k \in 1..(i - 1) : s[k] \in M) /\ \A k \in (j + 1)..q : s[k] \in M
    BY <2>4, <2>5, <2>11
  <2>13. Around(w, M, s, i, j, first)
    BY <2>6, <2>7, <2>8, <2>12 DEF Around
  <2> HIDE DEF s
  <2> DEFINE c == Children(n)
  <2>14. s = c
    BY DEF s
  <2> HIDE DEF c
  <2>15. /\ i \in Nat /\ j \in Nat /\ i > 0 /\ j <= Len(c) /\ i <= j + 1
         /\ after = IF j < Len(c) THEN c[j + 1] ELSE Null
         /\ Around(w, M, c, i, j, first)
    BY <1>2, <2>9, <2>13, <2>14
  <2>16. Kids(w, n) = Spliced(c, i, j, t)
    BY <1>4, <2>10, <2>15, SpliceKids DEF c
  <2> QED BY <2>14, <2>16
<1> QED BY <1>2, <1>5, <1>6, SpliceStep

\* In w the nodes in S, of a tree below x, have copies that are linked as they are.
LinksCopied(w, x, S, f) ==
  /\ \A c \in Live : node[c].parent \in S => c \in S /\ c # x
  /\ \A m \in S : /\ w[f[m]].kind = node[m].kind /\ w[f[m]].value = node[m].value
                  /\ w[f[m]].firstChild = Image(f, node[m].firstChild)
                  /\ m # x => w[f[m]].next = Image(f, node[m].next)

\* Clones are linked as what they are copies of.
LEMMA CopyLinks ==
  ASSUME TreeInv, NEW x \in Live, NEW S, S = Subtree(x) \/ S = Under(x),
         NEW U, NEW w, NEW nd, NEW f, WithClones(w, nd, S, U, f)
  PROVE  S \subseteq Live /\ LinksCopied(w, x, S, f)
<1> DEFINE T == Subtree(x)
<1>1. TreeOf(node, Live, x, T) /\ Under(x) = T \ {x} /\ Null \notin Live /\ Live \subseteq Nodes
      /\ TreesOn(node, Live)
  BY SubtreeIs, TreeTerms DEF Under, TreeInv
<1>2. S = T \/ S = T \ {x}
  BY <1>1
<1> HIDE DEF T
<1>3. /\ S \subseteq Live /\ S \subseteq Nodes
      /\ \A c \in Live : node[c].parent \in S => c \in S /\ c # x
  BY <1>1, <1>2 DEF TreeOf, Closed
<1>4. ASSUME NEW m \in S
      PROVE  /\ w[f[m]].kind = node[m].kind /\ w[f[m]].value = node[m].value
             /\ w[f[m]].firstChild = Image(f, node[m].firstChild)
             /\ m # x => w[f[m]].next = Image(f, node[m].next)
  <2>1. m \in T
    BY <1>2
  <2>2. /\ node[m].firstChild # Null => node[m].firstChild \in S
        /\ m # x /\ node[m].next # Null => node[m].next \in S
    BY <1>1, <1>2, <2>1, UnderIs
  <2>3. CloneOf(w[f[m]], m, f) /\ DOMAIN f = S /\ Null \notin S
    BY <1>1, <1>3 DEF WithClones
  <2> QED BY <2>2, <2>3 DEF CloneOf, Image
<1> QED BY <1>3, <1>4 DEF LinksCopied

\* What stands before a part of a list.
Before(s, i) == IF i = 1 THEN Null ELSE s[i - 1]

\* A list of one.
LEMMA OneIs ==
  ASSUME NEW x, NEW f
  PROVE  /\ Images(f, <<x>>) = <<f[x]>> /\ Tree!Elems(<<x>>) = {x}
         /\ \A S : x \in S => <<x>> \in Seq(S)
<1>1. Len(<<x>>) = 1 /\ DOMAIN <<x>> = {1} /\ <<x>>[1] = x
  OBVIOUS
<1>2. Images(f, <<x>>) = [k \in 1..1 |-> f[x]]
  BY <1>1 DEF Images
<1>3. Images(f, <<x>>) = <<f[x]>>
  BY <1>2
<1> QED BY <1>1, <1>3 DEF Tree!Elems

\* One node that leads on is a path.
LEMMA PathOne ==
  ASSUME NEW w, NEW M, NEW y \in M
  PROVE  Path(w, M, y, <<y>>, w[y].next)
<1>1. Len(<<y>>) = 1 /\ <<y>>[1] = y /\ <<y>> \in Seq(M)
  OBVIOUS
<1> QED BY <1>1 DEF Path

\* A copy of x is put into the place of a gap.
LEMMA InsertStep ==
  ASSUME TreeInv, TreeInv', NEW n \in Live, NEW x \in Live, NEW f \in Allocations(Subtree(x), Live),
         NEW i, NEW j, NEW D, Gap(n, i, j, D), j \in {i - 1, i},
         \A k \in D : node'[k].kind = "free",
         \A k \in Nodes \ D :
           JoinedAt(node', Copies(node, f), n, Before(Children(n), i), f[x],
                    After(Children(n), j), k)
  PROVE  Tree!Insert(n, x)
<1> DEFINE s == Children(n)
           q == Len(s)
           w == node'
           M == Live'
           S == Subtree(x)
           c == Copies(node, f)
           y == f[x]
           before == Before(s, i)
           after == After(s, j)
<1>1. /\ node \in [Nodes -> NodeRecords] /\ Live \subseteq Nodes /\ Null \notin Live
      /\ Null \notin Nodes /\ \A k \in Nodes : k \in Live <=> node[k].kind # "free"
  BY TreeTerms, NullIsNone
<1>2. S \subseteq Live /\ S \subseteq Nodes /\ x \in S
  BY <1>1, SubtreeIs DEF TreeOf
<1>3. WithClones(c, node, S, Live, f)
  BY <1>1, <1>2, CopiesAre
<1>30. S = Subtree(x) /\ Tree!Reached({x}) = S
  BY ReachedOf
<1> HIDE DEF S, c
<1>4. /\ \A k \in Live : node[k].parent \in S => k \in S /\ k # x
      /\ \A m \in S : /\ c[f[m]].kind = node[m].kind /\ c[f[m]].value = node[m].value
                      /\ c[f[m]].firstChild = Image(f, node[m].firstChild)
                      /\ m # x => c[f[m]].next = Image(f, node[m].next)
  BY <1>3, <1>30, CopyLinks DEF LinksCopied
<1>5. /\ q \in Nat /\ \A k \in 1..q : s[k] \in Live
      /\ \A k, l \in 1..q : k # l => s[k] # s[l]
  BY ChildAt
<1>6. /\ i \in Nat /\ j \in Nat /\ i > 0 /\ j <= q /\ i <= j + 1 /\ D \subseteq Live /\ n \notin D
  BY DEF Gap, Cut
<1>7. before \in Live \cup {Null} /\ after \in Live \cup {Null}
  <2>1. i # 1 => i - 1 \in 1..q
    BY <1>5, <1>6
  <2>2. j # q => j + 1 \in 1..q
    BY <1>5, <1>6
  <2> QED BY <1>5, <2>1, <2>2 DEF Before, After
<1>9. \A k \in Nodes \ D : JoinedAt(w, c, n, before, y, after, k)
  BY DEF c
<1>10. \A k \in D : w[k].kind = "free"
  OBVIOUS
<1>11. M = {k \in Nodes : w[k].kind # "free"} /\ TreesOn(w, M)
  BY ViewIs DEF TreeInv
<1> HIDE DEF w, M, s
<1>12. /\ f \in [S -> Nodes] /\ (\A m \in S : f[m] \notin Live /\ f[m] \in Nodes \ D)
       /\ (\A k, l \in S : f[k] = f[l] => k = l)
       /\ \A k \in Nodes : (\A m \in S : f[m] # k) => c[k] = node[k]
  BY <1>3, <1>6 DEF WithClones
<1>13. y \in Nodes \ D /\ y \notin Live /\ y # Null /\ y # n /\ before # y /\ after # y
  BY <1>1, <1>2, <1>7, <1>12
<1> HIDE DEF y, before, after
<1>14. ASSUME NEW k \in Live \ D
       PROVE  /\ w[k].kind = node[k].kind /\ w[k].value = node[k].value
              /\ w[k].next = IF k = before THEN y ELSE node[k].next
              /\ w[k].firstChild = IF k = n /\ before = Null THEN y ELSE node[k].firstChild
  <2>1. c[k] = node[k] /\ k # y
    BY <1>1, <1>12, <1>13
  <2>2. JoinedAt(w, c, n, before, y, after, k)
    BY <1>1, <1>9
  <2> QED BY <2>1, <2>2 DEF JoinedAt
<1>15. ASSUME NEW m \in S
       PROVE  /\ w[f[m]].kind = node[m].kind /\ w[f[m]].value = node[m].value
              /\ w[f[m]].firstChild = Image(f, node[m].firstChild)
              /\ w[f[m]].next = IF m = x THEN after ELSE Image(f, node[m].next)
              /\ f[m] \in Nodes \ D
  <2>1. JoinedAt(w, c, n, before, y, after, f[m]) /\ f[m] # n /\ f[m] # before
    BY <1>1, <1>7, <1>9, <1>12
  <2>2. f[m] = y <=> m = x
    BY <1>2, <1>12 DEF y
  <2> QED BY <1>4, <1>12, <2>1, <2>2 DEF JoinedAt
<1>16. M = (Live \ D) \cup Clones(f, S)
  <2>1. ASSUME NEW k \in Nodes
        PROVE  k \in M <=> k \in Live \ D \/ \E m \in S : k = f[m]
    <3>1. CASE k \in D
      BY <1>6, <1>10, <1>11, <1>12, <3>1
    <3>2. CASE \E m \in S : k = f[m]
      BY <1>1, <1>2, <1>11, <1>15, <3>2
    <3>3. CASE k \notin D /\ \A m \in S : f[m] # k
      <4>1. JoinedAt(w, c, n, before, y, after, k) /\ c[k] = node[k]
        BY <1>9, <1>12, <3>3
      <4> QED BY <1>1, <1>11, <3>3, <4>1 DEF JoinedAt
    <3> QED BY <3>1, <3>2, <3>3
  <2> QED BY <1>1, <1>11, <1>12, <2>1 DEF Clones
<1>17. CopiedAs(w, S, f)
  <2>1. \A m \in S : f[m] \in M
    BY <1>16 DEF Clones
  <2>2. \A k \in Live : node[k].parent \in S =>
          f[k] \in M /\ w[f[k]].next = Image(f, node[k].next)
    BY <1>4, <1>15, <2>1
  <2>3. \A m \in S : /\ f[m] \in M
                     /\ w[f[m]].kind = node[m].kind /\ w[f[m]].value = node[m].value
                     /\ w[f[m]].firstChild = Image(f, node[m].firstChild)
    BY <1>15, <2>1
  <2> HIDE DEF M
  <2> QED BY <1>2, <1>11, <2>2, <2>3, CopiedIs
<1>18. Path(w, M, y, Images(f, <<x>>), after)
  <2>1. y \in M /\ w[y].next = after
    BY <1>2, <1>15, <1>16 DEF Clones, y
  <2>2. Images(f, <<x>>) = <<y>>
    BY OneIs DEF y
  <2> QED BY <2>1, <2>2, PathOne
<1>19. Tree!Splice(n, i, j, <<x>>)
  <2>1. <<x>> \in Seq(S) /\ Tree!Reached(Tree!Elems(<<x>>)) = S
    BY <1>2, <1>30, OneIs
  <2>2. f \in [S -> Nodes \ (Live \ D)]
    BY <1>12
  <2>4. i = 1 <=> before = Null
    <3>1. i # 1 => i - 1 \in 1..q
      BY <1>5, <1>6
    <3> QED BY <1>1, <1>5, <3>1 DEF before, Before
  <2>5. w[n].firstChild = IF i = 1 THEN y ELSE node[n].firstChild
    BY <1>6, <1>14, <2>4
  <2>6. \A k \in Live \ D :
          w[k].next = IF i > 1 /\ k = s[i - 1] THEN y ELSE node[k].next
    <3>1. ASSUME NEW k \in Live \ D PROVE k = before <=> i > 1 /\ k = s[i - 1]
      BY <1>1, <1>6 DEF before, Before
    <3> QED BY <1>14, <3>1
  <2>7. \A k \in (Live \ D) \ {n} :
          /\ w[k].kind = node[k].kind /\ w[k].value = node[k].value
          /\ w[k].firstChild = node[k].firstChild
    BY <1>14
  <2>8. Filled(w, n, i, D, y)
    BY <2>5, <2>6, <2>7 DEF Filled, s
  <2> DEFINE src == <<x>>
  <2>9. src \in Seq(S) /\ Tree!Reached(Tree!Elems(src)) = S
    BY <2>1
  <2>10. Path(w, M, y, Images(f, src), After(Children(n), j))
    BY <1>18 DEF after, s
  <2> HIDE DEF src
  <2>11. /\ Live' = (Live \ D) \cup Clones(f, S) /\ TreesOn(node', Live')
         /\ CopiedAs(node', S, f) /\ Filled(node', n, i, D, y)
         /\ Path(node', Live', y, Images(f, src), After(Children(n), j))
    BY <1>11, <1>16, <1>17, <2>8, <2>10 DEF w, M
  <2>12. Tree!Splice(n, i, j, src)
    BY <1>2, <1>12, <2>2, <2>9, <2>11, FillStep
  <2> QED BY <2>12 DEF src
<1>20. Labels'[n] = Labels[n] /\ Lists[n] = s /\ Tree!Live = Live
  <2>1. n \in M /\ n \in Nodes /\ w[n].kind = node[n].kind /\ w[n].value = node[n].value
    BY <1>1, <1>6, <1>14, <1>16
  <2>2. Labels'[n] = <<node'[n].kind, node'[n].value>>
    BY <2>1, ViewIs DEF M
  <2>3. Labels[n] = <<node[n].kind, node[n].value>> /\ Lists[n] = s /\ Tree!Live = Live
    BY ViewAt DEF s
  <2> QED BY <2>1, <2>2, <2>3 DEF w
<1>21. i \in 1..(Len(Lists[n]) + 1) /\ j \in {i - 1, i} \cap 0..Len(Lists[n])
  BY <1>5, <1>6, <1>20
<1> QED BY <1>19, <1>20, <1>21 DEF Tree!Insert

-----------------------------------------------------------------------------
(***************************************************************************)
(* Steps of the objects are steps of the trees                             *)
(***************************************************************************)
\* Nodes that are kept look the same; nodes that are not in use have no label and no list.
LEMMA KeptView ==
  ASSUME TreeInv, NEW K, K \subseteq Live, K \subseteq Live', KeptAs(node', K)
  PROVE  /\ Tree!Kept(K) /\ Tree!Gone(Nodes \ Live')
         /\ \A k \in K : Labels'[k] = Labels[k] /\ Lists'[k] = Lists[k]
<1>1. ASSUME NEW k \in K PROVE Labels'[k] = Labels[k] /\ Lists'[k] = Lists[k]
  <2>1. k \in Live /\ k \in Live' /\ k \in Nodes
    BY TreeTerms
  <2>2. Labels'[k] = <<node'[k].kind, node'[k].value>> /\ Lists'[k] = Kids(node', k)
    BY <2>1, ViewIs
  <2>3. Labels[k] = <<node[k].kind, node[k].value>> /\ Lists[k] = Children(k)
    BY <2>1, ViewAt
  <2> QED BY <2>2, <2>3 DEF KeptAs
<1>2. \A k \in Nodes \ Live' : Labels'[k] = <<>> /\ Lists'[k] = <<>>
  BY ViewIs
<1> QED BY <1>1, <1>2 DEF Tree!Kept, Tree!Gone

\* Labels and lists that are equal node by node.
LEMMA ViewEqual ==
  /\ (\A k \in Nodes : Labels'[k] = Labels[k]) => Labels' = Labels
  /\ (\A k \in Nodes : Lists'[k] = Lists[k]) => Lists' = Lists
<1>1. /\ Labels = [k \in Nodes |-> Labels[k]] /\ Labels' = [k \in Nodes |-> Labels'[k]]
      /\ Lists = [k \in Nodes |-> Lists[k]] /\ Lists' = [k \in Nodes |-> Lists'[k]]
  BY ViewIs
<1> QED BY <1>1

\* A step that changes no more than errors changes nothing of the trees.
LEMMA AlikeStep ==
  ASSUME TreeInv, TreeInv',
         \A k \in Nodes : Alike(node'[k], node[k]) /\ node'[k].value = node[k].value
  PROVE  UNCHANGED Tree!vars
<1> DEFINE w == node'
           M == Live'
<1>1. Live \subseteq Nodes /\ \A k \in Nodes : k \in Live <=> node[k].kind # "free"
  BY TreeTerms
<1>2. M = Live
  BY <1>1, ViewIs DEF Alike
<1>3. TreesOn(w, M)
  BY DEF TreeInv
<1>4. /\ \A k \in Live : /\ w[k].kind = node[k].kind /\ w[k].value = node[k].value
                         /\ w[k].firstChild = node[k].firstChild
      /\ \A c \in Live : node[c].parent \in Live => c \in M /\ w[c].next = node[c].next
  BY <1>1, <1>2 DEF Alike
<1>5. KeptAs(w, Live)
  <2> HIDE DEF w, M
  <2> QED BY <1>2, <1>3, <1>4, KeptIs
<1>6. \A k \in Live : Labels'[k] = Labels[k] /\ Lists'[k] = Lists[k]
  BY <1>2, <1>5, KeptView
<1>7. \A k \in Nodes \ Live : Labels'[k] = Labels[k] /\ Lists'[k] = Lists[k]
  <2>1. \A k \in Nodes \ Live : Labels[k] = <<>> /\ Lists[k] = <<>>
    BY ViewAt
  <2>2. \A k \in Nodes \ Live : Labels'[k] = <<>> /\ Lists'[k] = <<>>
    BY <1>2, ViewIs
  <2> QED BY <2>1, <2>2
<1>8. Labels' = Labels /\ Lists' = Lists
  BY <1>6, <1>7, ViewEqual
<1> QED BY <1>8 DEF Tree!vars

\* A node without children has no list.
LEMMA NoKids ==
  ASSUME NEW nd, NEW L, TreesOn(nd, L), NEW n \in L, nd[n].firstChild = Null
  PROVE  Kids(nd, n) = <<>>
<1>1. Path(nd, L, nd[n].firstChild, <<>>, Null)
  BY DEF Path
<1> QED BY <1>1, KidsPath

\* A step that creates a node or gives one another value.
LEMMA LabelStep ==
  ASSUME TreeInv, TreeInv', NEW n \in Nodes, n \in Live',
         \A k \in Nodes \ {n} : node'[k] = node[k],
         \/ n \notin Live /\ node'[n].firstChild = Null
         \/ n \in Live /\ Alike(node'[n], node[n])
  PROVE  Tree!Label(n)
<1> DEFINE w == node'
           M == Live'
           K == Live \ {n}
<1>1. /\ Live \subseteq Nodes /\ \A k \in Nodes : k \in Live <=> node[k].kind # "free"
      /\ Null \notin Live /\ Null \notin Nodes
  BY TreeTerms, NullIsNone
<1>2. M = Live \cup {n}
  <2>1. M \subseteq Nodes /\ \A k \in Nodes \ {n} : k \in M <=> k \in Live
    BY <1>1, ViewIs
  <2> QED BY <1>1, <2>1
<1>3. TreesOn(w, M) /\ TreesOn(node, Live)
  BY DEF TreeInv
<1>4. \A c \in Live : c \in M /\ w[c].next = node[c].next
  BY <1>1, <1>2 DEF Alike
<1>5. \A k \in K : /\ w[k].kind = node[k].kind /\ w[k].value = node[k].value
                   /\ w[k].firstChild = node[k].firstChild
  BY <1>1
<1>6. KeptAs(w, K)
  <2> HIDE DEF w, M
  <2> QED BY <1>2, <1>3, <1>4, <1>5, KeptIs
<1>7. \A k \in K : Labels'[k] = Labels[k] /\ Lists'[k] = Lists[k]
  <2>1. K \subseteq Live /\ K \subseteq M
    BY <1>2
  <2> QED BY <1>6, <2>1, KeptView
<1>8. \A k \in Nodes \ M : Labels'[k] = Labels[k] /\ Lists'[k] = Lists[k]
  <2>1. \A k \in Nodes \ Live : Labels[k] = <<>> /\ Lists[k] = <<>>
    BY ViewAt
  <2>2. \A k \in Nodes \ M : Labels'[k] = <<>> /\ Lists'[k] = <<>>
    BY ViewIs
  <2> QED BY <1>2, <2>1, <2>2
<1>9. Lists'[n] = Lists[n]
  <2>1. Lists'[n] = Kids(w, n)
    BY ViewIs
  <2>2. CASE n \notin Live /\ w[n].firstChild = Null
    <3>1. Kids(w, n) = <<>>
      <4> HIDE DEF w, M
      <4> QED BY <1>2, <1>3, <2>2, NoKids
    <3>2. Lists[n] = <<>>
      BY <2>2, ViewAt
    <3> QED BY <2>1, <3>1, <3>2
  <2>3. CASE n \in Live /\ Alike(w[n], node[n])
    <3>1. w[n].firstChild = node[n].firstChild
      BY <2>3 DEF Alike
    <3>2. Kids(w, n) = Children(n)
      <4> HIDE DEF w, M
      <4> QED BY <1>2, <1>3, <1>4, <2>3, <3>1, SameKids
    <3> QED BY <2>1, <2>3, <3>2, ViewAt
  <2> QED BY <2>2, <2>3
<1>10. UNCHANGED Lists
  <2>1. \A k \in Nodes : Lists'[k] = Lists[k]
    BY <1>2, <1>7, <1>8, <1>9
  <2> QED BY <2>1, ViewEqual
<1>11. Labels' = [Labels EXCEPT ![n] = Labels'[n]]
  <2>1. \A k \in Nodes : k # n => Labels'[k] = Labels[k]
    BY <1>2, <1>7, <1>8
  <2>2. /\ Labels = [k \in Nodes |-> Labels[k]] /\ Labels' = [k \in Nodes |-> Labels'[k]]
    BY ViewIs
  <2> QED BY <2>1, <2>2
<1>12. n \in Tree!Live'
  <2>1. Labels'[n] = <<node'[n].kind, node'[n].value>>
    BY ViewIs
  <2> QED BY <2>1, SomeLabel DEF Tree!Live
<1> QED BY <1>10, <1>11, <1>12 DEF Tree!Label

\* A step that deletes a root and what is under it.
LEMMA DeleteStep ==
  ASSUME TreeInv, TreeInv', NEW x \in Live, node[x].parent = Null,
         \A k \in Subtree(x) : node'[k].kind = "free",
         \A k \in Nodes \ Subtree(x) : Alike(node'[k], node[k]) /\ node'[k].value = node[k].value
  PROVE  Tree!Delete(x)
<1> DEFINE w == node'
           M == Live'
           S == Subtree(x)
           K == Live \ S
<1>1. /\ Live \subseteq Nodes /\ \A k \in Nodes : k \in Live <=> node[k].kind # "free"
      /\ Null \notin Live
  BY TreeTerms
<1>2. TreeOf(node, Live, x, S) /\ Tree!Reached({x}) = S /\ Tree!Live = Live
  BY SubtreeIs, ReachedOf, ViewAt
<1>3. M = {k \in Nodes : w[k].kind # "free"} /\ TreesOn(w, M)
  BY ViewIs DEF TreeInv
<1>4. \A k \in Nodes \ S : Alike(w[k], node[k]) /\ w[k].value = node[k].value
  OBVIOUS
<1>5. \A k \in S : w[k].kind = "free"
  OBVIOUS
<1> HIDE DEF S, w, M
<1>6. M = K
  BY <1>1, <1>3, <1>4, <1>5 DEF Alike
<1>7. \A c \in Live : node[c].parent \in K => c \in M /\ w[c].next = node[c].next
  <2>1. \A c \in Live : node[c].parent \in K => c \notin S
    BY <1>1, <1>2 DEF TreeOf
  <2> QED BY <1>1, <1>4, <1>6, <2>1 DEF Alike
<1>8. \A k \in K : /\ w[k].kind = node[k].kind /\ w[k].value = node[k].value
                   /\ w[k].firstChild = node[k].firstChild
  BY <1>1, <1>4 DEF Alike
<1>9. KeptAs(w, K)
  <2>1. K \subseteq Live /\ K \subseteq M
    BY <1>6
  <2> HIDE DEF K
  <2> QED BY <1>3, <1>7, <1>8, <2>1, KeptIs
<1>10. Tree!Kept(K) /\ Tree!Gone(Nodes \ K)
  <2>1. K \subseteq Live /\ K \subseteq Live' /\ KeptAs(node', K)
    BY <1>6, <1>9 DEF w, M
  <2>2. Tree!Kept(K) /\ Tree!Gone(Nodes \ Live')
    BY <2>1, KeptView
  <2>3. Live' = K
    BY <1>6 DEF M
  <2> HIDE DEF K
  <2> QED BY <2>2, <2>3
<1>11. x \in Tree!Roots
  BY RootsAre
<1> QED BY <1>2, <1>10, <1>11 DEF Tree!Delete

\* A list that is put behind all others is appended.
LEMMA SplicedLast ==
  ASSUME NEW T, NEW s, NEW x, s \in Seq(T), x \in T
  PROVE  Spliced(s, Len(s) + 1, Len(s), <<x>>) = Append(s, x)
<1> DEFINE q == Len(s)
           p == SubSeq(s, 1, (q + 1) - 1)
           r == SubSeq(s, q + 1, q)
           t == <<x>>
<1>1. q \in Nat /\ s \in [1..q -> T]
  BY LenProperties
<1>2. p = s
  <2>1. (q + 1) - 1 = q /\ 1 \in Int /\ q \in Int
    BY <1>1
  <2>2. SubSeq(s, 1, q) = s
    BY SubSeqFull
  <2> QED BY <2>1, <2>2
<1>3. r = <<>>
  <2>1. q + 1 \in Int /\ q \in Int /\ q < q + 1
    BY <1>1
  <2> QED BY <2>1, SubSeqEmpty
<1>4. t \in Seq(T)
  OBVIOUS
<1> HIDE DEF p, r, t
<1>5. s \o t = Append(s, x)
  BY AppendIsConcat DEF t
<1>6. (s \o t) \o <<>> = s \o t
  <2>1. s \o t \in Seq(T)
    BY <1>4, ConcatProperties
  <2> QED BY <2>1, ConcatEmptySeq
<1>7. (p \o t) \o r = Append(s, x)
  BY <1>2, <1>3, <1>5, <1>6
<1> QED BY <1>7 DEF Spliced, p, t, r, q

\* A root is linked behind the children of n.
LEMMA AttachStep ==
  ASSUME TreeInv, TreeInv', NEW n \in Live, NEW x \in Live, node[x].parent = Null, x # n,
         n \notin Subtree(x),
         \A k \in Nodes : JoinedAt(node', node, n, node[n].lastChild, x, Null, k)
  PROVE  Tree!Attach(n, x)
<1> DEFINE w == node'
           M == Live'
           K == Live \ {n}
           s == Children(n)
           q == Len(s)
           last == node[n].lastChild
<1>1. /\ Live \subseteq Nodes /\ \A k \in Nodes : k \in Live <=> node[k].kind # "free"
      /\ Null \notin Live
  BY TreeTerms
<1>2. M = {k \in Nodes : w[k].kind # "free"} /\ TreesOn(w, M)
  BY ViewIs DEF TreeInv
<1>3. /\ s \in Seq(Live) /\ q \in Nat /\ (\A k \in 1..q : s[k] \in Live /\ node[s[k]].parent = n)
      /\ \A k, l \in 1..q : k # l => s[k] # s[l]
  BY ChildAt
<1>4. last = IF q = 0 THEN Null ELSE s[q]
  BY NeighboursAt
<1>5. \A k \in Nodes : JoinedAt(w, node, n, last, x, Null, k)
  OBVIOUS
<1> HIDE DEF w, M, s, last
<1>6. M = Live
  BY <1>1, <1>2, <1>5 DEF JoinedAt
<1>7. last # x /\ (last # Null => node[last].parent = n) /\ n # Null
  <2>1. q # 0 => q \in 1..q
    BY <1>3
  <2> QED BY <1>1, <1>3, <1>4, <2>1
<1>8. KeptAs(w, K)
  <2>1. \A k \in K : /\ w[k].kind = node[k].kind /\ w[k].value = node[k].value
                     /\ w[k].firstChild = node[k].firstChild
    BY <1>1, <1>5 DEF JoinedAt
  <2>2. \A c \in Live : node[c].parent \in K => c \in M /\ w[c].next = node[c].next
    BY <1>1, <1>5, <1>6, <1>7 DEF JoinedAt
  <2>3. K \subseteq Live /\ K \subseteq M
    BY <1>6
  <2> HIDE DEF K
  <2> QED BY <1>2, <2>1, <2>2, <2>3, KeptIs
<1>9. Kids(w, n) = Append(s, x)
  <2> DEFINE i == q + 1
             t == <<x>>
  <2>1. i \in Nat /\ q \in Nat /\ i > 0 /\ q <= q /\ i <= q + 1 /\ ~(q < q) /\ i - 1 = q
        /\ (i = 1 <=> q = 0)
    BY <1>3
  <2>2. Path(w, M, x, t, Null)
    <3>1. w[x].next = Null /\ x \in M
      BY <1>1, <1>5, <1>6 DEF JoinedAt
    <3> QED BY <3>1, PathOne
  <2>3. w[n].firstChild = IF i = 1 THEN x ELSE node[n].firstChild
    BY <1>1, <1>3, <1>4, <1>5, <2>1 DEF JoinedAt
  <2>4. Around(w, M, s, i, q, x)
    <3>1. ASSUME NEW k \in 1..(i - 1)
          PROVE  s[k] \in M /\ (k < i - 1 => w[s[k]].next = node[s[k]].next)
      <4>0. k \in 1..q /\ q \in Nat /\ (k < i - 1 => k < q)
        BY <1>3, <2>1
      <4>1. k \in 1..q /\ q \in 1..q /\ (k < i - 1 => k # q) /\ q # 0
        <5> HIDE DEF i, q
        <5> QED BY <4>0
      <4>2. k < i - 1 => s[k] # last
        BY <1>3, <1>4, <4>1
      <4>3. s[k] # x /\ s[k] \in Live
        BY <1>1, <1>3, <4>1
      <4> QED BY <1>1, <1>5, <1>6, <4>2, <4>3 DEF JoinedAt
    <3>2. i > 1 => w[s[i - 1]].next = x
      <4>1. i > 1 => q \in 1..q /\ q # 0
        BY <1>3
      <4> QED BY <1>1, <1>3, <1>4, <1>5, <1>7, <2>1, <4>1 DEF JoinedAt
    <3>3. \A k \in (q + 1)..Len(s) : FALSE
      BY <1>3
    <3> QED BY <3>1, <3>2, <3>3 DEF Around
  <2> HIDE DEF i
  <2> DEFINE j == q
  <2>5. i \in Nat /\ j \in Nat /\ i > 0 /\ j <= Len(s) /\ i <= j + 1
        /\ Null = (IF j < Len(s) THEN s[j + 1] ELSE Null)
    BY <2>1
  <2>6. n \in M /\ Around(w, M, s, i, j, x)
    BY <1>6, <2>4
  <2> HIDE DEF j, t, q
  <2>7. Kids(w, n) = Spliced(s, i, j, t)
    BY <1>2, <2>2, <2>3, <2>5, <2>6, SpliceKids DEF s
  <2>8. Spliced(s, i, j, t) = Append(s, x)
    BY <1>3, SplicedLast DEF i, j, t, q
  <2> QED BY <2>7, <2>8
<1>10. \A k \in Nodes \ Live : /\ Labels'[k] = Labels[k] /\ Lists'[k] = Lists[k]
  <2>1. \A k \in Nodes \ Live : Labels[k] = <<>> /\ Lists[k] = <<>>
    BY ViewAt
  <2>2. \A k \in Nodes \ Live : Labels'[k] = <<>> /\ Lists'[k] = <<>>
    BY <1>6, ViewIs DEF M
  <2> QED BY <2>1, <2>2
<1>11. \A k \in K : Labels'[k] = Labels[k] /\ Lists'[k] = Lists[k]
  <2>1. K \subseteq Live /\ K \subseteq Live' /\ KeptAs(node', K)
    BY <1>6, <1>8 DEF M, w
  <2> HIDE DEF K
  <2> QED BY <2>1, KeptView
<1>12. Labels'[n] = Labels[n] /\ Lists'[n] = Append(Lists[n], x)
  <2>1. n \in Live' /\ n \in Nodes /\ w[n].kind = node[n].kind /\ w[n].value = node[n].value
    BY <1>1, <1>5, <1>6 DEF JoinedAt, M
  <2>2. Labels'[n] = <<w[n].kind, w[n].value>> /\ Lists'[n] = Kids(w, n)
    BY <2>1, ViewIs DEF w
  <2>3. Labels[n] = <<node[n].kind, node[n].value>> /\ Lists[n] = s
    BY ViewAt DEF s
  <2> QED BY <1>9, <2>1, <2>2, <2>3
<1>13. UNCHANGED Labels
  <2>1. \A k \in Nodes : Labels'[k] = Labels[k]
    BY <1>10, <1>11, <1>12
  <2> QED BY <2>1, ViewEqual
<1>14. Lists' = [Lists EXCEPT ![n] = Append(@, x)]
  <2>1. \A k \in Nodes : k # n => Lists'[k] = Lists[k]
    BY <1>10, <1>11
  <2>2. /\ Lists = [k \in Nodes |-> Lists[k]] /\ Lists' = [k \in Nodes |-> Lists'[k]]
    BY ViewIs
  <2> QED BY <1>1, <1>12, <2>1, <2>2
<1>15. n \in Tree!Live /\ x \in Tree!Roots /\ n \notin Tree!Reached({x})
  BY ViewAt, RootsAre, ReachedOf
<1> QED BY <1>13, <1>14, <1>15 DEF Tree!Attach

\* No list, no images.
LEMMA NoImages ==
  ASSUME NEW f
  PROVE  Images(f, <<>>) = <<>> /\ Tree!Elems(<<>>) = {} /\ Clones(f, {}) = {}
<1>1. DOMAIN <<>> = {}
  OBVIOUS
<1>2. Images(f, <<>>) = [k \in {} |-> f[<<>>[k]]]
  BY <1>1 DEF Images
<1>3. Images(f, <<>>) = <<>>
  BY <1>2
<1> QED BY <1>1, <1>3 DEF Tree!Elems, Clones

\* Children are deleted with what is under them, and the links around them are closed.
LEMMA CutStep ==
  ASSUME TreeInv, TreeInv', NEW n \in Live, NEW i \in 1..Len(Children(n)),
         NEW j \in 1..Len(Children(n)), NEW D, Gap(n, i, j, D),
         \A k \in D : node'[k].kind = "free",
         \A k \in Nodes \ Live : node'[k].kind = "free",
         node'[n].kind = node[n].kind, node'[n].value = node[n].value,
         Filled(node', n, i, D, After(Children(n), j))
  PROVE  Tree!RemoveChildren(n)
<1> DEFINE w == node'
           M == Live'
           s == Children(n)
           first == After(s, j)
           f == [m \in {} |-> n]
           S == {}
           src == <<>>
<1>1. Live \subseteq Nodes /\ \A k \in Nodes : k \in Live <=> node[k].kind # "free"
  BY TreeTerms
<1>2. M = {k \in Nodes : w[k].kind # "free"} /\ TreesOn(w, M)
  BY ViewIs DEF TreeInv
<1>3. D \subseteq Live /\ n \notin D
  BY DEF Gap
<1>4. \A k \in Live \ D : w[k].kind = node[k].kind
  BY DEF Filled
<1>5. M = Live \ D
  <2>1. \A k \in D : w[k].kind = "free"
    OBVIOUS
  <2>2. \A k \in Nodes \ Live : w[k].kind = "free"
    OBVIOUS
  <2> HIDE DEF w, M
  <2> QED BY <1>1, <1>2, <1>3, <1>4, <2>1, <2>2
<1>6. Images(f, src) = <<>> /\ Clones(f, S) = {} /\ Tree!Reached(Tree!Elems(src)) = S
  BY NoImages, ReachedOf
<1>7. /\ S \subseteq Live /\ src \in Seq(S) /\ f \in [S -> Nodes \ (Live \ D)]
      /\ \A a, b \in S : f[a] = f[b] => a = b
  OBVIOUS
<1>8. CopiedAs(w, S, f)
  BY DEF CopiedAs
<1> HIDE DEF f, S, src
<1>9. M = (Live \ D) \cup Clones(f, S)
  BY <1>5, <1>6
<1>10. Path(w, M, first, Images(f, src), first)
  <2>1. Path(w, M, first, <<>>, first)
    BY DEF Path
  <2> QED BY <1>6, <2>1
<1>11. Tree!Splice(n, i, j, src)
  <2>1. /\ Live' = (Live \ D) \cup Clones(f, S) /\ TreesOn(node', Live') /\ CopiedAs(node', S, f)
        /\ Path(node', Live', After(Children(n), j), Images(f, src), After(Children(n), j))
    BY <1>2, <1>8, <1>9, <1>10
  <2> QED BY <1>6, <1>7, <2>1, FillStep
<1>12. Labels'[n] = Labels[n] /\ Lists[n] = s /\ n \in Tree!Live
  <2>1. n \in Live' /\ n \in Nodes
    BY <1>1, <1>3, <1>5
  <2>2. Labels'[n] = <<node'[n].kind, node'[n].value>>
    BY <2>1, ViewIs
  <2> QED BY <2>2, ViewAt
<1>13. i \in DOMAIN Lists[n] /\ j \in DOMAIN Lists[n]
  BY <1>12, ChildAt
<1> QED BY <1>11, <1>12, <1>13 DEF Tree!RemoveChildren, src

\* RemoveChild.
LEMMA RemoveStep ==
  ASSUME TreeInv, TreeInv', NEW n \in Nodes, NEW x \in Nodes, RemoveChild(n, x)
  PROVE  Tree!RemoveChildren(n)
<1> DEFINE w == node'
           u == Unlinked(node, n, x)
           d == Detached(node, n, x)
           D == Subtree(x)
           s == Children(n)
           q == Len(s)
<1>1. /\ n \in Live /\ x \in Live /\ node[x].parent = n /\ w = Deleted(u, D)
      /\ node \in [Nodes -> NodeRecords] /\ Live \subseteq Nodes /\ Null \notin Live
      /\ \A k \in Nodes : k \in Live <=> node[k].kind # "free"
  BY TreeTerms DEF RemoveChild, Containers
<1>2. /\ TreeOf(node, Live, x, D) /\ node[x].prev # x /\ node[x].next # x
      /\ node[x].prev \notin D
  BY <1>1, SubtreeIs, SiblingsOut DEF TreeInv
<1>3. /\ u \in [Nodes -> NodeRecords] /\ (\A k \in Nodes : DetachedAt(d, node, n, x, k))
      /\ \A k \in Nodes : k # x => d[k] = u[k]
  BY <1>1, <1>2, UnlinkedIs
<1>4. PICK i \in 1..q : x = s[i]
  BY <1>1, ChildAt
<1>5. Gap(n, i, i, D)
  BY <1>1, <1>4, GapOne
<1>6. node[x].prev = Before(s, i) /\ node[x].next = After(s, i)
  BY <1>1, <1>4, NeighboursAt DEF Before, After
<1>7. i \in Nat /\ i > 0 /\ (i > 1 <=> i # 1) /\ (i # 1 => s[i - 1] \in Live)
  <2>1. q \in Nat /\ \A k \in 1..q : s[k] \in Live
    BY <1>1, ChildAt
  <2>2. i # 1 => i - 1 \in 1..q
    BY <2>1
  <2> QED BY <2>1, <2>2
<1> DEFINE after == After(s, i)
<1> HIDE DEF w, u, d, D, after
<1>8. \A k \in Nodes : w[k] = IF k \in D THEN Free ELSE u[k]
  BY <1>1, <1>3, DeletedIs
<1>9. x \in D /\ D \subseteq Live /\ n \notin D
  BY <1>1, <1>2 DEF TreeOf
<1>10. \A k \in D : w[k].kind = "free"
  BY <1>1, <1>8, <1>9, FreeNode
<1>11. ASSUME NEW k \in Nodes \ D
       PROVE  /\ w[k].kind = node[k].kind /\ w[k].value = node[k].value
              /\ w[k].next = IF k = Before(s, i) THEN after ELSE node[k].next
              /\ w[k].firstChild = IF k = n /\ Before(s, i) = Null THEN after
                                   ELSE node[k].firstChild
  <2>1. k # x /\ DetachedAt(d, node, n, x, k) /\ w[k] = d[k]
    BY <1>3, <1>8, <1>9
  <2> QED BY <1>6, <2>1 DEF DetachedAt, after
<1>12. \A k \in Nodes \ Live : w[k].kind = "free"
  BY <1>1, <1>9, <1>11
<1>13. Filled(w, n, i, D, after)
  <2>1. w[n].firstChild = IF i = 1 THEN after ELSE node[n].firstChild
    BY <1>1, <1>7, <1>9, <1>11 DEF Before
  <2>2. \A k \in Live \ D : w[k].next = IF i > 1 /\ k = s[i - 1] THEN after ELSE node[k].next
    BY <1>1, <1>7, <1>11 DEF Before
  <2>3. \A k \in (Live \ D) \ {n} :
          /\ w[k].kind = node[k].kind /\ w[k].value = node[k].value
          /\ w[k].firstChild = node[k].firstChild
    BY <1>1, <1>11
  <2> QED BY <2>1, <2>2, <2>3 DEF Filled
<1>14. node'[n].kind = node[n].kind /\ node'[n].value = node[n].value
  BY <1>9, <1>11 DEF w
<1> QED BY <1>1, <1>5, <1>10, <1>12, <1>13, <1>14, CutStep DEF w, after

\* Clear: all children go, if there are any.
LEMMA ClearStep ==
  ASSUME TreeInv, TreeInv', NEW n \in Nodes, Clear(n)
  PROVE  Tree!RemoveChildren(n) \/ UNCHANGED Tree!vars
<1> DEFINE w == node'
           D == Under(n)
           T == Subtree(n)
           s == Children(n)
           q == Len(s)
<1>1. /\ n \in Live /\ w = Cleared(n)
      /\ Live \subseteq Nodes /\ \A k \in Nodes : k \in Live <=> node[k].kind # "free"
  BY TreeTerms DEF Clear, Containers
<1>2. /\ TreesOn(w, Live \ D) /\ w[n].firstChild = Null /\ w[n].lastChild = Null
      /\ w[n].kind = node[n].kind /\ w[n].value = node[n].value
      /\ w[n].parent = node[n].parent
      /\ w[n].prev = node[n].prev /\ w[n].next = node[n].next
      /\ \A k \in Nodes : k \notin T => w[k] = node[k]
  BY <1>1, ClearedIs
<1>3. Gap(n, 1, q, D) /\ TreeOf(node, Live, n, T) /\ D = T \ {n} /\ q \in Nat
  BY <1>1, GapAll, SubtreeIs, ChildAt DEF Under
<1>4. After(s, q) = Null
  BY DEF After
<1> HIDE DEF w, D, T
<1>5. n \in T /\ n \notin D /\ D \subseteq Live
  BY <1>3 DEF TreeOf
<1>6. /\ \A k \in D : w[k].kind = "free"
      /\ \A k \in Nodes \ Live : w[k].kind = "free"
  BY <1>1, <1>2, <1>5 DEF TreesOn, LiveIn
<1>7. Filled(w, n, 1, D, Null)
  BY <1>1, <1>2, <1>3 DEF Filled
<1>8. CASE q > 0
  <2>1. 1 \in 1..q /\ q \in 1..q
    BY <1>3, <1>8
  <2>2. Filled(node', n, 1, D, After(Children(n), q))
    BY <1>4, <1>7 DEF w
  <2>3. node'[n].kind = node[n].kind /\ node'[n].value = node[n].value
    BY <1>2 DEF w
  <2>4. Tree!RemoveChildren(n)
    BY <1>1, <1>3, <1>6, <2>1, <2>2, <2>3, CutStep DEF w
  <2> QED BY <2>4
<1>9. CASE q = 0
  <2>1. node[n].firstChild = Null /\ node[n].lastChild = Null
    BY <1>1, <1>9, NeighboursAt
  <2>2. D = {}
    <3>1. Part(s, 1, q) = {}
      BY <1>9 DEF Part
    <3>2. Tree!Reached(Part(s, 1, q)) = D
      BY <1>3 DEF Gap
    <3> QED BY <3>1, <3>2, ReachedOf
  <2>3. \A k \in Nodes : Alike(w[k], node[k]) /\ w[k].value = node[k].value
    BY <1>2, <1>3, <2>1, <2>2 DEF Alike
  <2> QED BY <2>3, AlikeStep DEF w
<1> QED BY <1>3, <1>8, <1>9

\* A constructor.
LEMMA NewStep ==
  ASSUME TreeInv, TreeInv', NEW n \in Nodes, NEW kind \in Kinds, NEW value \in Values \cup {Null},
         New(n, kind, value)
  PROVE  Tree!Label(n)
<1>1. node' = [node EXCEPT ![n] = Constructed(kind, value)] /\ n \notin Live
      /\ node \in [Nodes -> NodeRecords]
  BY TreeTerms DEF New
<1>2. node'[n] = Constructed(kind, value) /\ \A k \in Nodes \ {n} : node'[k] = node[k]
  BY <1>1
<1>3. Constructed(kind, value).kind # "free" /\ Constructed(kind, value).firstChild = Null
  BY DEF Constructed, Free, Kinds
<1>4. n \in Live'
  BY <1>2, <1>3, ViewIs
<1> QED BY <1>1, <1>2, <1>3, <1>4, LabelStep

\* SetValue.
LEMMA SetValueStep ==
  ASSUME TreeInv, TreeInv', NEW n \in Nodes, NEW value \in Values, SetValue(n, value)
  PROVE  Tree!Label(n)
<1>1. node' = [node EXCEPT ![n].value = value] /\ node \in [Nodes -> NodeRecords] /\ n \in Live
      /\ \A k \in Nodes : k \in Live <=> node[k].kind # "free"
  BY TreeTerms DEF SetValue
<1>2. Alike(node'[n], node[n]) /\ \A k \in Nodes \ {n} : node'[k] = node[k]
  BY <1>1 DEF NodeRecords, Alike
<1>3. n \in Live'
  BY <1>1, <1>2, ViewIs DEF Alike
<1> QED BY <1>1, <1>2, <1>3, LabelStep

\* The destructor of a root.
LEMMA DestructorStep ==
  ASSUME TreeInv, TreeInv', NEW x \in Nodes, Delete(x)
  PROVE  Tree!Delete(x)
<1> DEFINE S == Subtree(x)
<1>1. x \in Live /\ node[x].parent = Null /\ node' = Deleted(node, S)
      /\ node \in [Nodes -> NodeRecords]
  BY TreeTerms DEF Delete
<1>2. S \subseteq Nodes
  BY <1>1, SubtreeIs, TreeTerms DEF TreeOf
<1> HIDE DEF S
<1>3. \A k \in Nodes : node'[k] = IF k \in S THEN Free ELSE node[k]
  BY <1>1, DeletedIs
<1>4. /\ \A k \in S : node'[k].kind = "free"
      /\ \A k \in Nodes \ S : Alike(node'[k], node[k]) /\ node'[k].value = node[k].value
  BY <1>2, <1>3, FreeNode, AlikeIs
<1> QED BY <1>1, <1>4, DeleteStep DEF S

\* LinkEndChild, which links a node or deletes a document.
LEMMA LinkStep ==
  ASSUME TreeInv, TreeInv', NEW n \in Nodes, NEW x \in Nodes, LinkEndChild(n, x)
  PROVE  Tree!Attach(n, x) \/ Tree!Delete(x)
<1> DEFINE S == Subtree(x)
           last == node[n].lastChild
<1>1. /\ n \in Live /\ x \in Live /\ node[x].parent = Null /\ x # n
      /\ x \notin Elems(Ancestors(n)) /\ node \in [Nodes -> NodeRecords]
      /\ node' = IF Document(x) THEN SetError(Deleted(node, S), n)
                 ELSE Between(node, n, last, x, Null)
      /\ Null \notin Nodes /\ Null \notin Live
  BY TreeTerms, NullIsNone DEF LinkEndChild, Containers
<1>2. TreeOf(node, Live, x, S) /\ n \notin S /\ S \subseteq Nodes
  <2>1. TreeOf(node, Live, x, S)
    BY <1>1, SubtreeIs
  <2> QED BY <1>1, <2>1, NotBelow, TreeTerms DEF TreeOf
<1>3. CASE Document(x)
  <2> DEFINE d == Deleted(node, S)
  <2> HIDE DEF S
  <2>1. d \in [Nodes -> NodeRecords] /\ \A k \in Nodes : d[k] = IF k \in S THEN Free ELSE node[k]
    BY <1>1, DeletedIs
  <2>2. node' = SetError(d, n)
    BY <1>1, <1>3
  <2> HIDE DEF d
  <2>3. \A k \in Nodes : Alike(node'[k], d[k]) /\ node'[k].value = d[k].value
    BY <2>1, <2>2, ErrorIs
  <2>4. \A k \in S : node'[k].kind = "free"
    BY <1>2, <2>1, <2>3, FreeNode DEF Alike
  <2>5. \A k \in Nodes \ S : Alike(node'[k], node[k]) /\ node'[k].value = node[k].value
    BY <2>1, <2>3
  <2> QED BY <1>1, <2>4, <2>5, DeleteStep DEF S
<1>4. CASE ~Document(x)
  <2>1. Downward(node, Live)
    BY DEF TreeInv, TreesOn, Local
  <2>2. last \in PointersTo /\ Null \in PointersTo /\ last # x /\ Null # x
    <3>1. last # Null => last \in Live /\ node[last].parent = n
      BY <1>1, <2>1 DEF Downward
    <3> QED BY <1>1, <3>1, TreeTerms DEF PointersTo
  <2> HIDE DEF last
  <2>3. \A k \in Nodes : JoinedAt(node', node, n, last, x, Null, k)
    BY <1>1, <1>4, <2>2, BetweenIs
  <2> QED BY <1>1, <1>2, <2>3, AttachStep DEF last
<1> QED BY <1>3, <1>4

\* The calls that insert a copy between two.
LEMMA BetweenStep ==
  ASSUME TreeInv, TreeInv', NEW n \in Live, NEW x \in Live, NEW i \in 1..(Len(Children(n)) + 1),
         NEW before, NEW after, before = Before(Children(n), i), after = After(Children(n), i - 1),
         Insert(n, before, x, after)
  PROVE  Tree!Insert(n, x) \/ UNCHANGED Tree!vars
<1>0. node \in [Nodes -> NodeRecords] /\ Live \subseteq Nodes /\ Null \notin Live
      /\ \A k \in Nodes : k \in Live <=> node[k].kind # "free"
  BY TreeTerms
<1>1. CASE Document(x) /\ node' = SetError(node, n)
  <2>1. \A k \in Nodes : Alike(node'[k], node[k]) /\ node'[k].value = node[k].value
    BY <1>0, <1>1, ErrorIs
  <2> QED BY <2>1, AlikeStep
<1>2. ASSUME NEW f \in Allocations(Subtree(x), Live),
             node' = Between(Copies(node, f), n, before, f[x], after)
      PROVE  Tree!Insert(n, x)
  <2> DEFINE c == Copies(node, f)
             y == f[x]
             S == Subtree(x)
             s == Children(n)
             q == Len(s)
  <2>1. TreeOf(node, Live, x, S) /\ x \in S /\ S \subseteq Nodes
    BY <1>0, SubtreeIs DEF TreeOf
  <2>2. c \in [Nodes -> NodeRecords] /\ y \in Nodes /\ y \notin Live /\ y # Null
    <3>1. WithClones(c, node, S, Live, f)
      BY <1>0, <2>1, CopiesAre
    <3> HIDE DEF c, S
    <3> QED BY <2>1, <3>1, NullIsNone DEF WithClones
  <2>3. before \in Live \cup {Null} /\ after \in Live \cup {Null}
    <3>1. q \in Nat /\ \A k \in 1..q : s[k] \in Live
      BY ChildAt
    <3>2. (i # 1 => i - 1 \in 1..q) /\ (i - 1 # q => i \in 1..q /\ (i - 1) + 1 = i)
      BY <3>1
    <3> QED BY <3>1, <3>2 DEF Before, After
  <2>4. before \in PointersTo /\ after \in PointersTo /\ before # y /\ after # y
    BY <1>0, <2>2, <2>3 DEF PointersTo
  <2>5. node' = Between(c, n, before, y, after) /\ n \in Nodes
    BY <1>0, <1>2
  <2> HIDE DEF c, y
  <2>6. \A k \in Nodes : JoinedAt(node', c, n, before, y, after, k)
    BY <2>2, <2>4, <2>5, BetweenIs
  <2>7. Gap(n, i, i - 1, {}) /\ i - 1 \in {i - 1, i}
    BY GapNone
  <2> DEFINE j == i - 1
             D == {}
  <2>8. Gap(n, i, j, D) /\ j \in {i - 1, i} /\ \A k \in D : node'[k].kind = "free"
    BY <2>7
  <2>9. \A k \in Nodes \ D :
          JoinedAt(node', Copies(node, f), n, Before(Children(n), i), f[x],
                   After(Children(n), j), k)
    BY <2>6 DEF c, y
  <2> HIDE DEF j, D
  <2> QED BY <2>8, <2>9, InsertStep
<1> QED BY <1>1, <1>2 DEF Insert

\* The three calls that insert.
LEMMA InsertsStep ==
  ASSUME TreeInv, TreeInv', NEW n \in Nodes, NEW c \in Nodes, NEW x \in Nodes,
         InsertEndChild(n, x) \/ InsertBeforeChild(n, c, x) \/ InsertAfterChild(n, c, x)
  PROVE  Tree!Insert(n, x) \/ UNCHANGED Tree!vars
<1> DEFINE s == Children(n)
           q == Len(s)
<1>1. CASE InsertEndChild(n, x)
  <2>1. n \in Live /\ x \in Live /\ Insert(n, node[n].lastChild, x, Null)
    BY <1>1 DEF InsertEndChild, Containers
  <2>2. q \in Nat /\ node[n].lastChild = IF q = 0 THEN Null ELSE s[q]
    BY <2>1, ChildAt, NeighboursAt
  <2> DEFINE i == q + 1
  <2>3. i \in 1..(q + 1) /\ (i = 1 <=> q = 0) /\ i - 1 = q
    BY <2>2
  <2>4. node[n].lastChild = Before(s, i) /\ Null = After(s, i - 1)
    BY <2>2, <2>3 DEF Before, After
  <2> HIDE DEF i
  <2> QED BY <2>1, <2>3, <2>4, BetweenStep
<1>2. CASE InsertBeforeChild(n, c, x)
  <2>1. /\ n \in Live /\ x \in Live /\ c \in Live /\ node[c].parent = n
        /\ Insert(n, node[c].prev, x, c)
    BY <1>2 DEF InsertBeforeChild, Containers
  <2>2. PICK i \in 1..q : c = s[i]
    BY <2>1, ChildAt
  <2>3. q \in Nat /\ node[c].prev = IF i = 1 THEN Null ELSE s[i - 1]
    BY <2>1, <2>2, ChildAt, NeighboursAt
  <2>4. i \in 1..(q + 1) /\ i - 1 # q /\ (i - 1) + 1 = i
    BY <2>3
  <2>5. node[c].prev = Before(s, i) /\ c = After(s, i - 1)
    BY <2>2, <2>3, <2>4 DEF Before, After
  <2> QED BY <2>1, <2>4, <2>5, BetweenStep
<1>3. CASE InsertAfterChild(n, c, x)
  <2>1. /\ n \in Live /\ x \in Live /\ c \in Live /\ node[c].parent = n
        /\ Insert(n, c, x, node[c].next)
    BY <1>3 DEF InsertAfterChild, Containers
  <2>2. PICK k \in 1..q : c = s[k]
    BY <2>1, ChildAt
  <2>3. q \in Nat /\ node[c].next = IF k = q THEN Null ELSE s[k + 1]
    BY <2>1, <2>2, ChildAt, NeighboursAt
  <2> DEFINE i == k + 1
  <2>4. i \in 1..(q + 1) /\ i # 1 /\ i - 1 = k
    BY <2>3
  <2>5. c = Before(s, i) /\ node[c].next = After(s, i - 1)
    BY <2>2, <2>3, <2>4 DEF Before, After
  <2> HIDE DEF i
  <2> QED BY <2>1, <2>4, <2>5, BetweenStep
<1> QED BY <1>1, <1>2, <1>3

\* ReplaceChild.
LEMMA ReplaceStep ==
  ASSUME TreeInv, TreeInv', NEW n \in Nodes, NEW r \in Nodes, NEW x \in Nodes,
         ReplaceChild(n, r, x)
  PROVE  Tree!Insert(n, x) \/ UNCHANGED Tree!vars
<1> DEFINE D == Subtree(r)
           before == node[r].prev
           after == node[r].next
           s == Children(n)
           q == Len(s)
<1>1. /\ n \in Live /\ x \in Live /\ r \in Live /\ node[r].parent = n
      /\ node \in [Nodes -> NodeRecords] /\ Live \subseteq Nodes /\ Null \notin Live
  BY TreeTerms DEF ReplaceChild, Containers
<1>2. CASE Document(x) /\ node' = SetError(node, n)
  <2>1. \A k \in Nodes : Alike(node'[k], node[k]) /\ node'[k].value = node[k].value
    BY <1>1, <1>2, ErrorIs
  <2> QED BY <2>1, AlikeStep
<1>3. ASSUME NEW f \in Allocations(Subtree(x), Live),
             node' = Deleted(Between(Copies(node, f), n, before, f[x], after), D)
      PROVE  Tree!Insert(n, x)
  <2> DEFINE c == Copies(node, f)
             y == f[x]
             S == Subtree(x)
             w == Between(c, n, before, y, after)
  <2>1. x \in S /\ S \subseteq Nodes /\ D \subseteq Live
    BY <1>1, SubtreeIs DEF TreeOf
  <2>2. c \in [Nodes -> NodeRecords] /\ y \in Nodes /\ y \notin Live /\ y # Null
    <3>1. WithClones(c, node, S, Live, f)
      BY <1>1, <2>1, CopiesAre
    <3> HIDE DEF c, S
    <3> QED BY <2>1, <3>1, NullIsNone DEF WithClones
  <2>3. before \in Live \cup {Null} /\ after \in Live \cup {Null}
    BY <1>1, NeighboursOf
  <2>4. before \in PointersTo /\ after \in PointersTo /\ before # y /\ after # y
    BY <1>1, <2>2, <2>3 DEF PointersTo
  <2>5. PICK i \in 1..q : r = s[i]
    BY <1>1, ChildAt
  <2>6. Gap(n, i, i, D) /\ before = Before(s, i) /\ after = After(s, i)
    BY <1>1, <2>5, GapOne, NeighboursAt DEF Before, After
  <2>7. node' = Deleted(w, D)
    BY <1>3
  <2> HIDE DEF c, y, before, after, D, S
  <2>8. w \in [Nodes -> NodeRecords] /\ \A k \in Nodes : JoinedAt(w, c, n, before, y, after, k)
    BY <1>1, <2>2, <2>4, BetweenIs
  <2> HIDE DEF w
  <2>9. \A k \in Nodes : node'[k] = IF k \in D THEN Free ELSE w[k]
    BY <2>7, <2>8, DeletedIs
  <2>10. \A k \in D : node'[k].kind = "free"
    BY <1>1, <2>1, <2>9, FreeNode
  <2>11. \A k \in Nodes \ D : JoinedAt(node', c, n, before, y, after, k)
    BY <2>8, <2>9 DEF JoinedAt
  <2>12. \A k \in Nodes \ D :
           JoinedAt(node', Copies(node, f), n, Before(Children(n), i), f[x],
                    After(Children(n), i), k)
    BY <2>6, <2>11 DEF c, y
  <2>13. Gap(n, i, i, D) /\ i \in {i - 1, i}
    BY <2>6
  <2> QED BY <1>1, <2>10, <2>12, <2>13, InsertStep
<1> QED BY <1>1, <1>2, <1>3 DEF ReplaceChild

\* Clone.
LEMMA CloneStep ==
  ASSUME TreeInv, TreeInv', NEW x \in Nodes, Clone(x)
  PROVE  Tree!Clone(x)
<1> DEFINE w == node'
           M == Live'
           S == Subtree(x)
<1>1. /\ x \in Live /\ node \in [Nodes -> NodeRecords] /\ Live \subseteq Nodes
      /\ \A k \in Nodes : k \in Live <=> node[k].kind # "free"
  BY TreeTerms DEF Clone
<1>2. PICK f \in Allocations(S, Live) : w = Copies(node, f)
  BY DEF Clone
<1>3. S \subseteq Live /\ S \subseteq Nodes /\ Tree!Reached({x}) = S
  BY <1>1, SubtreeIs, ReachedOf DEF TreeOf
<1>4. S = Subtree(x) /\ TreeOf(node, Live, x, S)
  BY <1>1, SubtreeIs
<1>5. M = {k \in Nodes : w[k].kind # "free"} /\ TreesOn(w, M)
  BY ViewIs DEF TreeInv
<1> HIDE DEF S, w, M
<1>6. WithClones(w, node, S, Live, f)
  BY <1>1, <1>2, <1>3, CopiesAre
<1>7. /\ \A k \in Live : node[k].parent \in S => k \in S /\ k # x
      /\ \A m \in S : /\ w[f[m]].kind = node[m].kind /\ w[f[m]].value = node[m].value
                      /\ w[f[m]].firstChild = Image(f, node[m].firstChild)
                      /\ m # x => w[f[m]].next = Image(f, node[m].next)
  <2>1. x \in Live /\ (S = Subtree(x) \/ S = Under(x))
    BY <1>1, <1>4
  <2>2. LinksCopied(w, x, S, f)
    BY <1>6, <2>1, CopyLinks
  <2> QED BY <2>2 DEF LinksCopied
<1>8. /\ f \in [S -> Nodes] /\ (\A m \in S : f[m] \notin Live)
      /\ (\A a, b \in S : f[a] = f[b] => a = b)
      /\ \A k \in Nodes : (\A m \in S : f[m] # k) => w[k] = node[k]
  BY <1>6 DEF WithClones
<1>9. \A k \in Live : w[k] = node[k]
  BY <1>1, <1>8
<1>10. M = Live \cup Clones(f, S)
  <2>1. ASSUME NEW k \in Nodes PROVE k \in M <=> k \in Live \/ \E m \in S : k = f[m]
    <3>1. CASE \E m \in S : k = f[m]
      BY <1>1, <1>3, <1>5, <1>7, <3>1
    <3>2. CASE ~\E m \in S : k = f[m]
      BY <1>1, <1>5, <1>8, <3>2
    <3> QED BY <3>1, <3>2
  <2> QED BY <1>1, <1>5, <1>8, <2>1 DEF Clones
<1>11. CopiedAs(w, S, f)
  <2>1. \A m \in S : f[m] \in M
    BY <1>10 DEF Clones
  <2>2. \A k \in Live : node[k].parent \in S =>
          f[k] \in M /\ w[f[k]].next = Image(f, node[k].next)
    BY <1>7, <2>1
  <2>3. \A m \in S : /\ f[m] \in M
                     /\ w[f[m]].kind = node[m].kind /\ w[f[m]].value = node[m].value
                     /\ w[f[m]].firstChild = Image(f, node[m].firstChild)
    BY <1>7, <2>1
  <2> QED BY <1>3, <1>5, <2>2, <2>3, CopiedIs
<1>12. KeptAs(w, Live)
  <2> DEFINE K == Live
  <2>1. /\ \A k \in K : /\ w[k].kind = node[k].kind /\ w[k].value = node[k].value
                        /\ w[k].firstChild = node[k].firstChild
        /\ \A k \in Live : node[k].parent \in K => k \in M /\ w[k].next = node[k].next
    BY <1>9, <1>10
  <2>2. K \subseteq Live /\ K \subseteq M
    BY <1>10
  <2> HIDE DEF K
  <2>3. KeptAs(w, K)
    BY <1>5, <2>1, <2>2, KeptIs
  <2> QED BY <2>3 DEF K
<1>13. Tree!Kept(Live) /\ Tree!Gone(Nodes \ M)
  BY <1>10, <1>12, KeptView DEF w, M
<1>14. f \in Tree!Choices(S, Nodes \ Live)
  BY <1>8 DEF Tree!Choices
<1>15. DOMAIN f = S /\ Tree!Image(f) = Clones(f, S) /\ Tree!Live = Live
  BY <1>8, ViewAt DEF Tree!Image, Clones
<1>16. Tree!Copied(f)
  <2>1. ASSUME NEW m \in S
        PROVE  Labels'[f[m]] = Labels[m] /\ Lists'[f[m]] = Images(f, Lists[m])
    <3>1. f[m] \in M /\ f[m] \in Nodes /\ m \in Live
      BY <1>3, <1>8, <1>10 DEF Clones
    <3>2. Labels'[f[m]] = <<w[f[m]].kind, w[f[m]].value>> /\ Lists'[f[m]] = Kids(w, f[m])
      BY <3>1, ViewIs DEF w, M
    <3>3. Labels[m] = <<node[m].kind, node[m].value>> /\ Lists[m] = Children(m)
      BY <3>1, ViewAt
    <3> QED BY <1>11, <3>2, <3>3 DEF CopiedAs
  <2> QED BY <1>15, <2>1 DEF Tree!Copied, Images
<1>17. Tree!Gone(Nodes \ (Live \cup Tree!Image(f)))
  BY <1>10, <1>13, <1>15
<1> QED BY <1>1, <1>3, <1>13, <1>14, <1>15, <1>16, <1>17 DEF Tree!Clone

\* operator=.
LEMMA AssignStep ==
  ASSUME TreeInv, TreeInv', NEW n \in Nodes, NEW x \in Nodes, Assign(n, x)
  PROVE  Tree!Assign(n, x)
<1> DEFINE w == node'
           M == Live'
           D == Under(n)
           U == Under(x)
           T == Subtree(n)
           nd == Cleared(n)
           L1 == Live \ D
           src == Children(x)
           E == Elems(src)
           a == node[x].firstChild
<1>1. /\ n \in Live /\ x \in Live /\ n \notin Subtree(x) /\ x \notin T
      /\ node[n].kind = node[x].kind
      /\ node \in [Nodes -> NodeRecords] /\ Live \subseteq Nodes /\ Null \notin Live
      /\ Null \notin Nodes /\ \A k \in Nodes : k \in Live <=> node[k].kind # "free"
  BY TreeTerms, NullIsNone DEF Assign, Containers
<1>2. PICK f \in Allocations(U, L1) :
        (\A c \in E : f[c] # n) => \A m \in Nodes : AssignedAt(w, Copies(nd, f), n, x, f, m)
  BY AssignmentIs
<1> DEFINE copies == Copies(nd, f)
<1>3. /\ TreeOf(node, Live, n, T) /\ D = T \ {n} /\ Gap(n, 1, Len(Children(n)), D)
      /\ Tree!Reached({c \in Live : node[c].parent = x}) = U
      /\ U = Under(x)
  BY <1>1, SubtreeIs, GapAll, ReachedOf DEF Under
<1>4. /\ TreesOn(nd, L1) /\ nd[n].kind = node[n].kind
      /\ nd[n].next = node[n].next
      /\ \A k \in Nodes : k \notin T => nd[k] = node[k]
  BY <1>1, ClearedIs
<1>5. E = {c \in Live : node[c].parent = x}
  BY <1>1, KidsAre
<1>6. /\ src = Kids(node, x) /\ src \in Seq(Live) /\ Len(src) \in Nat
      /\ DOMAIN src = 1..Len(src)
      /\ \A i \in 1..Len(src) : src[i] \in Live /\ node[src[i]].parent = x
  BY <1>1, ChildAt
<1>7. Path(node, Live, a, src, Null)
  BY <1>1, <1>6, KidsPath DEF TreeInv
<1>8. M = {k \in Nodes : w[k].kind # "free"} /\ TreesOn(w, M)
  BY ViewIs DEF TreeInv
<1>9. Lists[x] = src /\ Lists[n] = Children(n) /\ Labels[x] = <<node[x].kind, node[x].value>>
      /\ Tree!Live = Live /\ Tree!Elems(Lists[x]) = {c \in Live : node[c].parent = x}
  BY <1>1, ViewAt, ElemsOfLists
<1>10. U = Subtree(x) \ {x} /\ TreeOf(node, Live, x, Subtree(x))
  BY <1>1, SubtreeIs DEF Under
<1>11. U \subseteq Live /\ U \subseteq Nodes /\ E \subseteq U
  BY <1>1, <1>5, <1>10 DEF TreeOf, Closed
<1> HIDE DEF w, M, D, U, T, nd, src, E, a
<1>12. /\ nd \in [Nodes -> NodeRecords] /\ n \in L1 /\ n \in T
       /\ D \subseteq Live /\ L1 \subseteq Nodes
  BY <1>1, <1>3, <1>4 DEF TreesOn, TreeOf
<1> HIDE DEF L1
<1>13. WithClones(copies, nd, U, L1, f)
  BY <1>1, <1>2, <1>11, <1>12, CopiesAre
<1> HIDE DEF copies
<1>14. LinksCopied(copies, x, U, f)
  <2>1. x \in Live /\ (U = Subtree(x) \/ U = Under(x))
    BY <1>1, <1>3
  <2> QED BY <1>13, <2>1, CopyLinks
<1>15. /\ f \in [U -> Nodes] /\ (\A m \in U : f[m] \notin L1)
       /\ (\A k, l \in U : f[k] = f[l] => k = l)
       /\ copies \in [Nodes -> NodeRecords]
       /\ \A k \in Nodes : (\A m \in U : f[m] # k) => copies[k] = nd[k]
  BY <1>13 DEF WithClones
<1>16. \A m \in Nodes : AssignedAt(w, copies, n, x, f, m)
  <2>1. \A c \in E : f[c] # n
    BY <1>11, <1>12, <1>15
  <2> QED BY <1>2, <2>1 DEF copies
<1>17. ASSUME NEW m \in U
       PROVE  /\ w[f[m]].kind = node[m].kind /\ w[f[m]].value = node[m].value
              /\ w[f[m]].firstChild = Image(f, node[m].firstChild)
              /\ w[f[m]].next = Image(f, node[m].next)
              /\ f[m] \in Nodes
  <2> DEFINE r == copies[f[m]]
  <2>1. f[m] \in Nodes /\ f[m] # n /\ m # x
    BY <1>10, <1>12, <1>15
  <2>2. AssignedAt(w, copies, n, x, f, f[m])
    BY <1>16, <2>1
  <2>3. w[f[m]] = r \/ w[f[m]] = [r EXCEPT !.parent = n]
    BY <2>1, <2>2 DEF AssignedAt
  <2>4. r \in NodeRecords
    BY <1>15, <2>1
  <2>5. /\ r.kind = node[m].kind /\ r.value = node[m].value
        /\ r.firstChild = Image(f, node[m].firstChild) /\ r.next = Image(f, node[m].next)
    BY <1>14, <2>1 DEF LinksCopied
  <2> HIDE DEF r
  <2> QED BY <2>1, <2>3, <2>4, <2>5 DEF NodeRecords
<1>18. ASSUME NEW k \in Nodes, k # n, \A m \in U : f[m] # k PROVE w[k] = nd[k]
  <2>1. copies[k] = nd[k] /\ AssignedAt(w, copies, n, x, f, k)
    BY <1>15, <1>16, <1>18
  <2> QED BY <1>11, <1>18, <2>1 DEF AssignedAt, E, src
<1>19. /\ w[n].kind = node[n].kind /\ w[n].value = node[x].value
       /\ w[n].firstChild = Image(f, a) /\ w[n].next = node[n].next
  <2>1. copies[n] = nd[n] /\ nd[n] \in NodeRecords
    BY <1>1, <1>12, <1>15
  <2>2. AssignedAt(w, copies, n, x, f, n)
    BY <1>1, <1>16
  <2> DEFINE p == Image(f, node[x].firstChild)
             q == Image(f, node[x].lastChild)
  <2>3. w[n] = [nd[n] EXCEPT !.value = node[x].value, !.error = node[x].error,
                             !.firstChild = p, !.lastChild = q]
    BY <2>1, <2>2 DEF AssignedAt
  <2>4. p = Image(f, a)
    BY DEF a
  <2> HIDE DEF p, q
  <2> QED BY <1>4, <2>1, <2>3, <2>4 DEF NodeRecords
<1>20. \A k \in L1 : k # n => w[k] = node[k]
  <2>1. \A k \in L1 : k # n => k \notin T /\ k \in Nodes
    BY <1>3, <1>12 DEF L1
  <2> QED BY <1>4, <1>15, <1>18, <2>1
<1>21. M = L1 \cup Clones(f, U)
  <2>1. ASSUME NEW k \in Nodes PROVE k \in M <=> k \in L1 \/ \E m \in U : k = f[m]
    <3>1. CASE \E m \in U : k = f[m]
      BY <1>1, <1>8, <1>11, <1>17, <3>1
    <3>2. CASE k = n
      BY <1>1, <1>8, <1>12, <1>19, <3>2
    <3>3. CASE k # n /\ \A m \in U : f[m] # k
      <4>1. w[k] = nd[k]
        BY <1>18, <3>3
      <4>2. k \in L1 <=> nd[k].kind # "free"
        BY <1>4 DEF TreesOn, LiveIn
      <4> QED BY <1>8, <3>3, <4>1, <4>2
    <3> QED BY <3>1, <3>2, <3>3
  <2> QED BY <1>8, <1>12, <1>15, <2>1 DEF Clones
<1>22. \A m \in U : f[m] \in M
  BY <1>21 DEF Clones
<1>23. CopiedAs(w, U, f)
  <2>1. \A c \in Live : node[c].parent \in U => f[c] \in M /\ w[f[c]].next = Image(f, node[c].next)
    BY <1>14, <1>17, <1>22 DEF LinksCopied
  <2>2. \A m \in U : /\ f[m] \in M
                     /\ w[f[m]].kind = node[m].kind /\ w[f[m]].value = node[m].value
                     /\ w[f[m]].firstChild = Image(f, node[m].firstChild)
    BY <1>17, <1>22
  <2> QED BY <1>8, <1>11, <2>1, <2>2, CopiedIs
<1>24. src \in Seq(U) /\ \A i \in 1..Len(src) : src[i] \in U
  <2>1. \A i \in 1..Len(src) : src[i] \in U
    BY <1>5, <1>6, <1>11
  <2>2. src \in [1..Len(src) -> U]
    <3>1. src \in [1..Len(src) -> Live]
      BY <1>6, LenProperties
    <3> QED BY <2>1, <3>1
  <2>3. src \in Seq(U)
    BY <1>6, <2>2, SeqDef
  <2> QED BY <2>1, <2>3
<1>25. Path(w, M, Image(f, a), Images(f, src), Null)
  <2>1. \A k \in 1..Len(src) : f[src[k]] \in M /\ w[f[src[k]]].next = Image(f, node[src[k]].next)
    BY <1>17, <1>22, <1>24
  <2>2. Path(w, M, Image(f, a), [k \in 1..Len(src) |-> f[src[k]]], Null)
    BY <1>1, <1>7, <2>1, PathImage
  <2>3. Images(f, src) = [k \in 1..Len(src) |-> f[src[k]]]
    BY <1>6 DEF Images
  <2> QED BY <2>2, <2>3
<1> DEFINE q == Len(Children(n))
           first == Image(f, a)
<1>26. Filled(w, n, 1, D, first)
  <2>1. \A k \in Live \ D : w[k].next = node[k].next
    BY <1>19, <1>20 DEF L1
  <2> QED BY <1>19, <1>20, <2>1 DEF Filled, L1
<1> HIDE DEF first
<1>27. Tree!Splice(n, 1, q, src)
  <2>1. Path(w, M, first, Images(f, src), After(Children(n), q))
    BY <1>25 DEF After, first
  <2>2. f \in [U -> Nodes \ (Live \ D)] /\ U \subseteq Live /\ src \in Seq(U)
    BY <1>11, <1>15, <1>24 DEF L1
  <2>3. Tree!Reached(Tree!Elems(src)) = U
    BY <1>3, <1>9
  <2>4. M = (Live \ D) \cup Clones(f, U)
    BY <1>21 DEF L1
  <2>5. Gap(n, 1, q, D)
    BY <1>3
  <2> HIDE DEF q
  <2>6. /\ Live' = (Live \ D) \cup Clones(f, U) /\ TreesOn(node', Live') /\ CopiedAs(node', U, f)
        /\ Path(node', Live', first, Images(f, src), After(Children(n), q))
        /\ Filled(node', n, 1, D, first)
    BY <1>8, <1>23, <1>26, <2>1, <2>4 DEF w, M
  <2> DEFINE i == 1
  <2>7. Gap(n, i, q, D) /\ Filled(node', n, i, D, first)
    BY <2>5, <2>6
  <2> HIDE DEF i
  <2>8. Tree!Splice(n, i, q, src)
    BY <1>1, <1>15, <2>2, <2>3, <2>6, <2>7, FillStep
  <2> QED BY <2>8 DEF i
<1>28. Labels'[n] = Labels[x]
  <2>1. n \in Live' /\ n \in Nodes
    BY <1>1, <1>12, <1>21 DEF M
  <2>2. Labels'[n] = <<node'[n].kind, node'[n].value>>
    BY <2>1, ViewIs
  <2> QED BY <1>1, <1>9, <1>19, <2>2 DEF w
<1> QED BY <1>1, <1>9, <1>27, <1>28 DEF Tree!Assign

\* Every call is a step of the trees, or changes nothing that they show.
LEMMA StepsAreTreeSteps == TreeInv /\ TreeInv' /\ [Next]_vars => [Tree!Next]_Tree!vars
<1> SUFFICES ASSUME TreeInv, TreeInv', [Next]_vars PROVE Tree!Next \/ UNCHANGED Tree!vars
  OBVIOUS
<1>1. ASSUME NEW n \in Nodes, NEW kind \in Kinds, NEW value \in Values \cup {Null},
             New(n, kind, value)
      PROVE  Tree!Next
  BY <1>1, NewStep DEF Tree!Next
<1>2. ASSUME NEW n \in Nodes, NEW value \in Values, SetValue(n, value) PROVE Tree!Next
  BY <1>2, SetValueStep DEF Tree!Next
<1>3. ASSUME NEW n \in Nodes, NEW x \in Nodes, LinkEndChild(n, x) PROVE Tree!Next
  BY <1>3, LinkStep DEF Tree!Next
<1>4. ASSUME NEW n \in Nodes, NEW x \in Nodes, InsertEndChild(n, x)
      PROVE  Tree!Next \/ UNCHANGED Tree!vars
  BY <1>4, InsertsStep DEF Tree!Next
<1>5. ASSUME NEW n \in Nodes, NEW b \in Nodes, NEW x \in Nodes, InsertBeforeChild(n, b, x)
      PROVE  Tree!Next \/ UNCHANGED Tree!vars
  BY <1>5, InsertsStep DEF Tree!Next
<1>6. ASSUME NEW n \in Nodes, NEW a \in Nodes, NEW x \in Nodes, InsertAfterChild(n, a, x)
      PROVE  Tree!Next \/ UNCHANGED Tree!vars
  BY <1>6, InsertsStep DEF Tree!Next
<1>7. ASSUME NEW n \in Nodes, NEW r \in Nodes, NEW x \in Nodes, ReplaceChild(n, r, x)
      PROVE  Tree!Next \/ UNCHANGED Tree!vars
  BY <1>7, ReplaceStep DEF Tree!Next
<1>8. ASSUME NEW n \in Nodes, NEW x \in Nodes, RemoveChild(n, x) PROVE Tree!Next
  BY <1>8, RemoveStep DEF Tree!Next
<1>9. ASSUME NEW n \in Nodes, Clear(n) PROVE Tree!Next \/ UNCHANGED Tree!vars
  BY <1>9, ClearStep DEF Tree!Next
<1>10. ASSUME NEW n \in Nodes, NEW x \in Nodes, Assign(n, x) PROVE Tree!Next
  BY <1>10, AssignStep DEF Tree!Next
<1>11. ASSUME NEW x \in Nodes, Clone(x) PROVE Tree!Next
  BY <1>11, CloneStep DEF Tree!Next
<1>12. ASSUME NEW x \in Nodes, Delete(x) PROVE Tree!Next
  BY <1>12, DestructorStep DEF Tree!Next
<1>13. CASE UNCHANGED vars
  BY <1>13, AlikeIs, AlikeStep DEF vars
<1> QED
  BY <1>1, <1>2, <1>3, <1>4, <1>5, <1>6, <1>7, <1>8, <1>9, <1>10, <1>11, <1>12, <1>13 DEF Next

\* No object, no tree: nothing has a label.
LEMMA InitIsTreeInit == Init => Tree!Init
<1> SUFFICES ASSUME Init PROVE Tree!Init
  OBVIOUS
<1>1. Live = {}
  BY FreeNode DEF Init, Live
<1>2. Labels = [n \in Nodes |-> <<>>] /\ Lists = [n \in Nodes |-> <<>>]
  BY <1>1 DEF Labels, Lists
<1> QED BY <1>2 DEF Tree!Init

\* Whatever calls are made, the linked objects are the ordered trees that the calls promise: a
\* copy equals its source, an inserted copy stands where it was asked for, and nothing but
\* the trees a call names is changed (tinyxml.cpp:116-355, 539-566, 853-897, 940-952).
THEOREM NodesAreTrees == Spec => ImplementsOrderedTree
<1>1. Init => TreeInv
  BY InitTrees
<1>2. TreeInv /\ [Next]_vars => TreeInv'
  BY NextTrees
<1>3. Init => Tree!Init
  BY InitIsTreeInit
<1>4. TreeInv /\ TreeInv' /\ [Next]_vars => [Tree!Next]_Tree!vars
  BY StepsAreTreeSteps
<1> QED BY <1>1, <1>2, <1>3, <1>4, PTL DEF Spec, ImplementsOrderedTree, Tree!Spec
-----------------------------------------------------------------------------
(***************************************************************************)
(* Stepping from child to child                                            *)
(***************************************************************************)
\* What is behind place i of n places.
LEMMA PlacesBehind ==
  ASSUME NEW n \in Nat, NEW i \in 1..n
  PROVE  /\ n - i \in Nat /\ n > 0 /\ (i = n => n - i = 0)
         /\ i # n => /\ n - i > 0 /\ i \in 1..(n - 1) /\ i + 1 \in 1..n /\ i + (n - i) = n
                     /\ 1 \in 1..(n - i) /\ n - i \in 1..(n - i)
         /\ \A k \in 1..(n - i) : i + k \in 1..n
         /\ \A k \in 1..((n - i) - 1) :
              /\ k \in 1..(n - i) /\ k + 1 \in 1..(n - i) /\ i + k \in 1..(n - 1)
              /\ i + (k + 1) = (i + k) + 1
OBVIOUS

\* t is what is behind place i of s.
TailAt(s, i, L, t) ==
  t \in Seq(L) /\ Len(t) = Len(s) - i /\ \A k \in 1..Len(t) : t[k] = s[i + k]

\* What comes after place i of a list that goes along a link is the chain from there.
LEMMA ChainAfter ==
  ASSUME NEW nd, NEW L, TreesOn(nd, L), NEW link \in {"parent", "prev", "next"},
         NEW start, NEW s, Follows(nd, link, start, L, s), NEW i, i \in 1..Len(s)
  PROVE  TailAt(s, i, L, Chain(nd, link, nd[s[i]][link]))
<1> DEFINE n == Len(s) - i
           x == nd[s[i]][link]
           t == [k \in 1..n |-> s[i + k]]
<1>1. s \in Seq(L) /\ Len(s) \in Nat /\ s \in [1..Len(s) -> L] /\ i \in Nat /\ n \in Nat
      /\ L \subseteq Nodes /\ Null \notin L
  BY LenProperties, NullIsNone, LinksRise DEF Follows
<1>2. t \in [1..n -> L] /\ t \in Seq(L)
  <2>1. \A k \in 1..n : i + k \in 1..Len(s)
    BY <1>1
  <2>2. t \in [1..n -> L]
    BY <1>1, <2>1
  <2> HIDE DEF t, n
  <2> QED BY <1>1, <2>2, SeqDef
<1>3. Len(t) = n
  <2>1. Len(t) \in Nat /\ DOMAIN t = 1..Len(t) /\ DOMAIN t = 1..n
    <3>1. DOMAIN t = 1..n
      BY <1>2
    <3> HIDE DEF t, n
    <3> QED BY <1>2, <3>1, LenProperties
  <2> HIDE DEF t, n
  <2> QED BY <1>1, <2>1, SameRange
<1>4. \A k \in 1..n : t[k] = s[i + k]
  OBVIOUS
<1> HIDE DEF t
<1>5. CASE i = Len(s)
  <2>1. n = 0 /\ x = Null
    BY <1>1, <1>5, PlacesBehind DEF Follows
  <2>2. Follows(nd, link, x, L, t)
    BY <1>2, <1>3, <2>1 DEF Follows
  <2>3. Follows(nd, link, x, L, Chain(nd, link, x))
    BY <2>1, ChainOf
  <2>4. Chain(nd, link, x) = t
    BY <1>1, <2>2, <2>3, FollowsOne
  <2> QED BY <1>2, <1>3, <1>4, <2>4 DEF TailAt
<1>6. CASE i # Len(s)
  <2>1. n > 0 /\ i \in 1..(Len(s) - 1) /\ i + 1 \in 1..Len(s) /\ i + n = Len(s) /\ 1 \in 1..n
        /\ n \in 1..n
    BY <1>1, <1>6, PlacesBehind
  <2>2. x = s[i + 1] /\ x \in L /\ x # Null
    BY <1>1, <2>1 DEF Follows
  <2>3. t[1] = x /\ t[n] = s[Len(s)]
    BY <1>4, <2>1, <2>2
  <2>4. ASSUME NEW k \in 1..(n - 1) PROVE nd[t[k]][link] = t[k + 1]
    <3>1. k \in 1..n /\ k + 1 \in 1..n /\ i + k \in 1..(Len(s) - 1) /\ i + (k + 1) = (i + k) + 1
      BY <1>1, PlacesBehind
    <3>2. nd[s[i + k]][link] = s[(i + k) + 1]
      BY <3>1 DEF Follows
    <3> QED BY <1>4, <3>1, <3>2
  <2>5. nd[s[Len(s)]][link] = Null
    BY <1>1, PlacesBehind DEF Follows
  <2> HIDE DEF n
  <2>6. Follows(nd, link, x, L, t)
    BY <1>2, <1>3, <2>1, <2>2, <2>3, <2>4, <2>5 DEF Follows
  <2>7. Follows(nd, link, x, L, Chain(nd, link, x))
    BY <2>2, ChainOf
  <2>8. Chain(nd, link, x) = t
    BY <1>1, <2>6, <2>7, FollowsOne
  <2> QED BY <1>2, <1>3, <1>4, <2>8 DEF n, TailAt
<1> QED BY <1>5, <1>6

\* x is the first node of S in s behind place i, or null if there is none.
NextIn(s, S, i, x) ==
  \/ \E j \in 1..Len(s) :
       /\ i < j /\ s[j] \in S /\ x = s[j]
       /\ \A k \in 1..Len(s) : i < k /\ k < j => s[k] \notin S
  \/ x = Null /\ \A k \in 1..Len(s) : i < k => s[k] \notin S

\* A loop over what is behind place i finds it.
LEMMA FirstInNext ==
  ASSUME NEW s, Len(s) \in Nat, NEW S, NEW i, i \in 0..Len(s), NEW t, t \in Seq(Nodes),
         Len(t) = Len(s) - i, \A k \in 1..Len(t) : t[k] = s[i + k]
  PROVE  NextIn(s, S, i, FirstIn(t, S))
<1> DEFINE found == {k \in DOMAIN t : t[k] \in S}
           n == Len(s) - i
<1>1. DOMAIN t = 1..n /\ i \in Nat /\ n \in Nat /\ found \subseteq Nat
  BY LenProperties
<1>2. \A k \in 1..Len(s) : i < k => k - i \in 1..n /\ i + (k - i) = k
  BY <1>1
<1>3. \A k \in 1..n : i + k \in 1..Len(s) /\ i < i + k
  BY <1>1
<1>4. FirstIn(t, S) = IF found = {} THEN Null
                      ELSE t[CHOOSE k \in found : \A j \in found : k <= j]
  BY DEF FirstIn
<1>5. \A k \in found : k \in 1..n /\ t[k] \in S
  BY <1>1
<1>6. \A k \in 1..n : t[k] \in S => k \in found
  BY <1>1
<1>7. CASE found = {}
  <2>1. ASSUME NEW k \in 1..Len(s), i < k PROVE s[k] \notin S
    <3>1. k - i \in 1..n /\ i + (k - i) = k
      BY <1>2, <2>1
    <3>2. t[k - i] = s[k] /\ k - i \notin found
      BY <1>7, <3>1
    <3> QED BY <1>6, <3>1, <3>2
  <2>2. FirstIn(t, S) = Null
    BY <1>4, <1>7
  <2> QED BY <2>1, <2>2 DEF NextIn
<1>8. CASE found # {}
  <2> DEFINE c == CHOOSE k \in found : \A j \in found : k <= j
  <2> HIDE DEF found
  <2>1. \E k \in found : \A j \in found : k <= j
    BY <1>1, <1>8, LeastOne
  <2>2. c \in found /\ \A j \in found : c <= j
    BY <2>1
  <2>3. FirstIn(t, S) = t[c]
    BY <1>4, <1>8
  <2> HIDE DEF c
  <2>4. c \in 1..n /\ t[c] \in S /\ t[c] = s[i + c]
    BY <1>5, <2>2
  <2>5. ASSUME NEW k \in 1..Len(s), i < k, k < i + c PROVE s[k] \notin S
    <3>1. k - i \in 1..n /\ i + (k - i) = k
      BY <1>2, <2>5
    <3>2. ~ (c <= k - i)
      BY <1>1, <2>4, <2>5
    <3>3. k - i \notin found /\ t[k - i] = s[k]
      BY <2>2, <3>1, <3>2
    <3> QED BY <1>6, <3>1, <3>3
  <2>6. i + c \in 1..Len(s) /\ i < i + c /\ s[i + c] \in S
    BY <1>3, <2>4
  <2> QED BY <2>3, <2>4, <2>5, <2>6 DEF NextIn
<1> QED BY <1>7, <1>8

\* How many nodes of S there are in s before place i.
Earlier(s, S, i) == {j \in 1..(i - 1) : s[j] \in S}

LEMMA EarlierFinite ==
  ASSUME NEW s, NEW S, NEW i \in Nat
  PROVE  IsFiniteSet(Earlier(s, S, i)) /\ Cardinality(Earlier(s, S, i)) \in Nat
<1>1. i - 1 \in Int
  OBVIOUS
<1>2. IsFiniteSet(1..(i - 1))
  BY <1>1, FS_Interval
<1>3. IsFiniteSet(Earlier(s, S, i))
  BY <1>2, FS_Subset DEF Earlier
<1> QED BY <1>3, FS_CardinalityType

\* Behind a node of S there is one more, until the next of them is passed.
LEMMA EarlierMore ==
  ASSUME NEW s, NEW S, NEW i \in Nat, NEW j \in Nat, 1 <= i, i < j, s[i] \in S
  PROVE  /\ Cardinality(Earlier(s, S, i)) < Cardinality(Earlier(s, S, j))
         /\ (\A k \in 1..(j - 1) : i < k => s[k] \notin S)
              => Cardinality(Earlier(s, S, j)) = Cardinality(Earlier(s, S, i)) + 1
<1> DEFINE A == Earlier(s, S, i)
           B == Earlier(s, S, j)
<1>1. IsFiniteSet(A) /\ IsFiniteSet(B) /\ Cardinality(A) \in Nat /\ Cardinality(B) \in Nat
  BY EarlierFinite
<1>2. i \notin A /\ A \cup {i} \subseteq B
  BY DEF Earlier
<1>3. (\A k \in 1..(j - 1) : i < k => s[k] \notin S) => B = A \cup {i}
  BY DEF Earlier
<1> HIDE DEF A, B
<1>4. IsFiniteSet(A \cup {i}) /\ Cardinality(A \cup {i}) = Cardinality(A) + 1
  BY <1>1, <1>2, FS_AddElement
<1>5. Cardinality(A \cup {i}) <= Cardinality(B)
  BY <1>1, <1>2, FS_Subset
<1>6. Cardinality(A) < Cardinality(B)
  BY <1>1, <1>4, <1>5
<1> QED BY <1>3, <1>4, <1>6 DEF A, B

\* x is the node of S in s with c of them before it, or null if there is none.
NthIn(s, S, c, x) ==
  \/ \E j \in 1..Len(s) : s[j] \in S /\ Cardinality(Earlier(s, S, j)) = c /\ x = s[j]
  \/ x = Null /\ \A j \in 1..Len(s) : s[j] \in S => Cardinality(Earlier(s, S, j)) # c

LEMMA NthInIs ==
  ASSUME NEW s, s \in Seq(Nodes), NEW S, NEW c, NEW x, NthIn(s, S, c, x)
  PROVE  x = Nth(s, S, c)
<1> DEFINE found == {j \in DOMAIN s : s[j] \in S /\ Cardinality(Earlier(s, S, j)) = c}
<1>1. Nth(s, S, c) = IF found = {} THEN Null ELSE s[CHOOSE j \in found : TRUE]
  BY DEF Nth, Earlier
<1>2. DOMAIN s = 1..Len(s) /\ Len(s) \in Nat
  BY LenProperties
<1>3. ASSUME NEW j \in found, NEW k \in found PROVE j = k
  <2>1. j \in Nat /\ k \in Nat /\ 1 <= j /\ 1 <= k /\ s[j] \in S /\ s[k] \in S
        /\ Cardinality(Earlier(s, S, j)) = c /\ Cardinality(Earlier(s, S, k)) = c
    BY <1>2
  <2>2. c \in Nat
    BY <2>1, EarlierFinite
  <2>3. ~ (j < k) /\ ~ (k < j)
    <3>1. ASSUME j < k PROVE FALSE
      <4>1. c < c
        BY <2>1, <3>1, EarlierMore
      <4> QED BY <2>2, <4>1
    <3>2. ASSUME k < j PROVE FALSE
      <4>1. c < c
        BY <2>1, <3>2, EarlierMore
      <4> QED BY <2>2, <4>1
    <3> QED BY <3>1, <3>2
  <2> QED BY <2>1, <2>3
<1>4. CASE \E j \in 1..Len(s) :
             s[j] \in S /\ Cardinality(Earlier(s, S, j)) = c /\ x = s[j]
  <2>1. PICK j \in found : x = s[j]
    BY <1>2, <1>4
  <2>2. (CHOOSE k \in found : TRUE) = j
    BY <1>3, <2>1
  <2> QED BY <1>1, <2>1, <2>2
<1>5. CASE x = Null /\ \A j \in 1..Len(s) : s[j] \in S => Cardinality(Earlier(s, S, j)) # c
  <2>1. found = {}
    BY <1>2, <1>5
  <2> QED BY <1>1, <1>5, <2>1
<1> QED BY <1>4, <1>5 DEF NthIn

\* The first node of S is that with none before it.
LEMMA NthFirst ==
  ASSUME NEW s, s \in Seq(Nodes), NEW S, NEW x, NextIn(s, S, 0, x)
  PROVE  NthIn(s, S, 0, x)
<1>1. \A j \in 1..Len(s) : 0 < j /\ j \in Nat
  BY LenProperties
<1>2. CASE \E j \in 1..Len(s) :
             /\ 0 < j /\ s[j] \in S /\ x = s[j]
             /\ \A k \in 1..Len(s) : 0 < k /\ k < j => s[k] \notin S
  <2>1. PICK j \in 1..Len(s) : /\ 0 < j /\ s[j] \in S /\ x = s[j]
                               /\ \A k \in 1..Len(s) : 0 < k /\ k < j => s[k] \notin S
    BY <1>2
  <2>2. \A k \in 1..(j - 1) : k \in 1..Len(s) /\ 0 < k /\ k < j
    BY LenProperties
  <2>3. Earlier(s, S, j) = {}
    BY <2>1, <2>2 DEF Earlier
  <2>4. Cardinality(Earlier(s, S, j)) = 0
    BY <2>3, FS_EmptySet
  <2> QED BY <2>1, <2>4 DEF NthIn
<1>3. CASE x = Null /\ \A k \in 1..Len(s) : 0 < k => s[k] \notin S
  BY <1>1, <1>3 DEF NthIn
<1> QED BY <1>2, <1>3 DEF NextIn

\* The node that follows the one with c before it has one more.
LEMMA NthStep ==
  ASSUME NEW s, s \in Seq(Nodes), NEW S, NEW c, c \in Nat, NEW j, j \in 1..Len(s),
         s[j] \in S, Cardinality(Earlier(s, S, j)) = c, NEW x, NextIn(s, S, j, x)
  PROVE  NthIn(s, S, c + 1, x)
<1>1. Len(s) \in Nat /\ j \in Nat /\ 1 <= j
  BY LenProperties
<1>2. CASE \E k \in 1..Len(s) :
             /\ j < k /\ s[k] \in S /\ x = s[k]
             /\ \A m \in 1..Len(s) : j < m /\ m < k => s[m] \notin S
  <2>1. PICK k \in 1..Len(s) : /\ j < k /\ s[k] \in S /\ x = s[k]
                               /\ \A m \in 1..Len(s) : j < m /\ m < k => s[m] \notin S
    BY <1>2
  <2>2. \A m \in 1..(k - 1) : m \in 1..Len(s) /\ m < k
    BY <1>1
  <2>3. Cardinality(Earlier(s, S, k)) = c + 1
    BY <1>1, <2>1, <2>2, EarlierMore
  <2> QED BY <2>1, <2>3 DEF NthIn
<1>3. CASE x = Null /\ \A k \in 1..Len(s) : j < k => s[k] \notin S
  <2>1. ASSUME NEW k \in 1..Len(s), s[k] \in S PROVE Cardinality(Earlier(s, S, k)) # c + 1
    <3>1. k \in Nat /\ 1 <= k /\ ~ (j < k)
      BY <1>1, <1>3, <2>1
    <3>2. Cardinality(Earlier(s, S, k)) \in Nat
      BY <3>1, EarlierFinite
    <3>3. CASE k = j
      BY <3>3
    <3>4. CASE k < j
      <4>1. Cardinality(Earlier(s, S, k)) < c
        BY <1>1, <2>1, <3>1, <3>4, EarlierMore
      <4> QED BY <3>2, <4>1
    <3> QED BY <1>1, <3>1, <3>3, <3>4
  <2> QED BY <1>3, <2>1 DEF NthIn
<1> QED BY <1>2, <1>3 DEF NextIn

\* Behind the last there is none.
LEMMA NthNone ==
  ASSUME NEW s, s \in Seq(Nodes), NEW S, NEW c, c \in Nat,
         \A j \in 1..Len(s) : s[j] \in S => Cardinality(Earlier(s, S, j)) # c
  PROVE  NthIn(s, S, c + 1, Null)
<1> SUFFICES ASSUME NEW j \in 1..Len(s), s[j] \in S, Cardinality(Earlier(s, S, j)) = c + 1
             PROVE  FALSE
  BY DEF NthIn
<1> DEFINE E == Earlier(s, S, j)
           T == {j - k : k \in E}
<1>1. Len(s) \in Nat /\ j \in Nat /\ \A k \in E : k \in 1..Len(s) /\ k < j /\ s[k] \in S
  BY LenProperties DEF Earlier
<1>2. E # {}
  <2>1. Cardinality(E) = c + 1
    OBVIOUS
  <2> HIDE DEF E
  <2> QED BY <2>1, FS_EmptySet
<1>3. T \subseteq Nat /\ T # {}
  BY <1>1, <1>2
<1> HIDE DEF E
<1>4. PICK d \in T : \A y \in T : d <= y
  <2> HIDE DEF T
  <2> QED BY <1>3, LeastOne
<1>5. PICK k \in E : d = j - k
  BY <1>4
<1>6. ASSUME NEW m \in E PROVE m <= k
  <2>1. j - m \in T
    OBVIOUS
  <2>2. j - k <= j - m
    BY <1>4, <1>5, <2>1
  <2> QED BY <1>1, <2>2
<1>7. k \in 1..Len(s) /\ k < j /\ s[k] \in S /\ k \in Nat /\ 1 <= k
  BY <1>1
<1>8. \A m \in 1..(j - 1) : k < m => s[m] \notin S
  <2>1. ASSUME NEW m \in 1..(j - 1), k < m, s[m] \in S PROVE FALSE
    <3>1. m \in E
      BY <2>1 DEF E, Earlier
    <3>2. m <= k
      BY <1>6, <3>1
    <3> QED BY <1>7, <2>1, <3>2
  <2> QED BY <2>1
<1>9. c + 1 = Cardinality(Earlier(s, S, k)) + 1
  BY <1>1, <1>7, <1>8, EarlierMore
<1>10. Cardinality(Earlier(s, S, k)) = c
  <2>1. Cardinality(Earlier(s, S, k)) \in Nat
    BY <1>7, EarlierFinite
  <2> QED BY <1>9, <2>1
<1> QED BY <1>7, <1>10

\* One step of a handle.
Stepped(step, m) == IF m = Null THEN Null ELSE step[m]

\* A loop of steps, each of them to the next node of S, reaches every one in its order.
LEMMA StepsReach ==
  ASSUME NEW s, s \in Seq(Nodes), NEW S, NEW step, step \in [Nodes -> PointersTo],
         NEW first, NextIn(s, S, 0, first),
         \A j \in 1..Len(s) : s[j] \in S => NextIn(s, S, j, step[s[j]]),
         NEW count \in Nat
  PROVE  Steps(first, step, count) = Nth(s, S, count)
<1> DEFINE next == [m \in Nodes \cup {Null} |-> IF m = Null THEN Null ELSE step[m]]
           w == CHOOSE f : Recursive(f, next, first)
           D == Nodes \cup {Null}
<1>1. Steps(first, step, count) = w[count]
  BY DEF Steps, Recursive
<1>2. s \in [1..Len(s) -> Nodes] /\ Len(s) \in Nat
  BY LenProperties
<1>3. next \in [D -> D]
  BY DEF PointersTo
<1>4. first \in D
  BY <1>2 DEF NextIn
<1>5. ASSUME NEW m \in D PROVE next[m] = Stepped(step, m)
  BY DEF Stepped
<1>6. w = CHOOSE f : Recursive(f, next, first)
  OBVIOUS
<1> HIDE DEF next, w
<1>7. w \in [Nat -> D] /\ w[0] = first /\ \A k \in Nat : w[k + 1] = next[w[k]]
  <2> HIDE DEF D
  <2>1. \E f : Recursive(f, next, first)
    BY <1>3, <1>4, RecursiveExists
  <2>2. Recursive(w, next, first)
    BY <2>1, <1>6
  <2> QED BY <1>3, <1>4, <2>2, RecursiveIs
<1> DEFINE H == {k \in Nat : NthIn(s, S, k, w[k])}
<1>8. 0 \in H
  BY <1>7, NthFirst
<1>9. ASSUME NEW k \in Nat, k \in H PROVE k + 1 \in H
  <2>1. w[k + 1] = Stepped(step, w[k]) /\ k + 1 \in Nat
    <3>1. w[k] \in D /\ w[k + 1] = next[w[k]]
      BY <1>7
    <3> HIDE DEF D
    <3> QED BY <1>5, <3>1
  <2>2. CASE \E j \in 1..Len(s) :
               s[j] \in S /\ Cardinality(Earlier(s, S, j)) = k /\ w[k] = s[j]
    <3>1. PICK j \in 1..Len(s) :
            s[j] \in S /\ Cardinality(Earlier(s, S, j)) = k /\ w[k] = s[j]
      BY <2>2
    <3>2. s[j] # Null
      BY <1>2, NullIsNone
    <3>3. NextIn(s, S, j, w[k + 1])
      BY <2>1, <3>1, <3>2 DEF Stepped
    <3>4. NthIn(s, S, k + 1, w[k + 1])
      BY <3>1, <3>3, NthStep
    <3> QED BY <2>1, <3>4
  <2>3. CASE /\ w[k] = Null
             /\ \A j \in 1..Len(s) : s[j] \in S => Cardinality(Earlier(s, S, j)) # k
    <3>1. w[k + 1] = Null
      BY <2>1, <2>3 DEF Stepped
    <3>2. NthIn(s, S, k + 1, Null)
      BY <2>3, NthNone
    <3> QED BY <2>1, <3>1, <3>2
  <2> QED BY <1>9, <2>2, <2>3 DEF NthIn
<1> HIDE DEF H
<1>10. Nat \subseteq H
  BY <1>8, <1>9, SetInduction
<1>11. NthIn(s, S, count, w[count])
  BY <1>10 DEF H
<1> QED BY <1>1, <1>11, NthInIs

\* A loop along a link from a node returns a node, or null.
LEMMA FirstInTyped ==
  ASSUME TreeInv, NEW S, NEW m \in Nodes, NEW link \in {"next", "prev"}
  PROVE  FirstIn(Chain(node, link, node[m][link]), S) \in PointersTo
<1> DEFINE t == Chain(node, link, node[m][link])
           found == {k \in DOMAIN t : t[k] \in S}
<1>1. \A k \in Nodes : node[k][link] \in PointersTo
  BY LinksRise DEF TreeInv
<1>2. PICK w : Walks(node, link, node[m][link], w) /\ t = w[Cardinality(Nodes)]
  BY <1>1, ChainWalks
<1>3. Cardinality(Nodes) \in Nat
  BY NodesAssumption, FS_CardinalityType
<1>4. t \in Seq(Nodes)
  BY <1>2, <1>3 DEF Walks
<1>5. DOMAIN t = 1..Len(t) /\ Len(t) \in Nat /\ \A k \in DOMAIN t : t[k] \in Nodes
  BY <1>4, LenProperties
<1>6. FirstIn(t, S) = IF found = {} THEN Null
                      ELSE t[CHOOSE k \in found : \A j \in found : k <= j]
  BY DEF FirstIn
<1> HIDE DEF t
<1>7. ASSUME found = {} PROVE FirstIn(t, S) \in PointersTo
  BY <1>6, <1>7 DEF PointersTo
<1>8. ASSUME found # {} PROVE FirstIn(t, S) \in PointersTo
  <2>1. found \subseteq Nat /\ \A k \in found : t[k] \in Nodes
    BY <1>5
  <2> HIDE DEF found
  <2>2. \E k \in found : \A j \in found : k <= j
    BY <1>8, <2>1, LeastOne
  <2> QED BY <1>6, <1>8, <2>1, <2>2 DEF PointersTo
<1> QED BY <1>7, <1>8 DEF t

\* Steps along a link of a list of children.
LEMMA LoopsReach ==
  ASSUME TreeInv, NEW link \in {"next", "prev"}, NEW start, NEW s,
         Follows(node, link, start, Live, s), NEW S, NEW count \in Nat
  PROVE  LET step == [m \in Nodes |-> FirstIn(Chain(node, link, node[m][link]), S)]
         IN  Steps(FirstIn(s, S), step, count) = Nth(s, S, count)
<1> DEFINE after(m) == Chain(node, link, node[m][link])
           step == [m \in Nodes |-> FirstIn(after(m), S)]
<1>1. Live \subseteq Nodes /\ link \in {"parent", "prev", "next"}
  BY DEF Live
<1>2. s \in Seq(Live) /\ s \in Seq(Nodes) /\ Len(s) \in Nat /\ s \in [1..Len(s) -> Live]
  <2>1. s \in Seq(Live) /\ Len(s) \in Nat /\ s \in [1..Len(s) -> Live]
    BY LenProperties DEF Follows
  <2>2. s \in [1..Len(s) -> Nodes]
    BY <1>1, <2>1
  <2> QED BY <2>1, <2>2, SeqDef
<1>3. step \in [Nodes -> PointersTo]
  BY FirstInTyped
<1>4. NextIn(s, S, 0, FirstIn(s, S))
  <2>1. 0 \in 0..Len(s) /\ Len(s) = Len(s) - 0 /\ \A k \in 1..Len(s) : s[k] = s[0 + k]
    BY <1>2
  <2> QED BY <1>2, <2>1, FirstInNext
<1>5. ASSUME NEW j \in 1..Len(s), s[j] \in S PROVE NextIn(s, S, j, step[s[j]])
  <2> DEFINE t == after(s[j])
  <2>1. t \in Seq(Live) /\ Len(t) = Len(s) - j /\ \A k \in 1..Len(t) : t[k] = s[j + k]
    <3> HIDE DEF t
    <3>1. TailAt(s, j, Live, Chain(node, link, node[s[j]][link]))
      BY <1>1, ChainAfter DEF TreeInv
    <3>2. TailAt(s, j, Live, t)
      BY <3>1 DEF t
    <3> QED BY <3>2 DEF TailAt
  <2>2. s[j] \in Nodes /\ j \in 0..Len(s)
    BY <1>1, <1>2
  <2>3. step[s[j]] = FirstIn(t, S)
    BY <2>2
  <2> HIDE DEF t, after, step
  <2>4. t \in Seq(Nodes)
    <3>1. Len(t) \in Nat /\ t \in [1..Len(t) -> Live]
      BY <2>1, LenProperties
    <3>2. t \in [1..Len(t) -> Nodes]
      BY <1>1, <3>1
    <3> QED BY <3>1, <3>2, SeqDef
  <2>5. NextIn(s, S, j, FirstIn(t, S))
    BY <1>2, <2>1, <2>2, <2>4, FirstInNext
  <2> QED BY <2>3, <2>5
<1> HIDE DEF step
<1>6. Steps(FirstIn(s, S), step, count) = Nth(s, S, count)
  BY <1>2, <1>3, <1>4, <1>5, StepsReach
<1> QED BY <1>6 DEF step

\* Steps along the next pointers, of all children.
LEMMA ChildrenReached ==
  ASSUME TreeInv, NEW n \in Live, NEW count \in Nat
  PROVE  ChildHandle(n, count) = Nth(Children(n), Nodes, count)
<1> DEFINE first == node[n].firstChild
           step == [m \in Nodes |-> node[m].next]
           s == Children(n)
<1>1. Follows(node, "next", first, Live, s)
  BY KidsAre
<1>2. Live \subseteq Nodes
  BY DEF Live
<1>3. s \in Seq(Nodes) /\ Len(s) \in Nat /\ s \in [1..Len(s) -> Nodes]
  <2>1. s \in Seq(Live) /\ Len(s) \in Nat /\ s \in [1..Len(s) -> Live]
    BY <1>1, LenProperties DEF Follows
  <2>2. s \in [1..Len(s) -> Nodes]
    BY <1>2, <2>1
  <2> QED BY <2>1, <2>2, SeqDef
<1>4. step \in [Nodes -> PointersTo]
  <2>1. \A m \in Nodes : node[m]["next"] \in PointersTo
    BY LinksRise DEF TreeInv
  <2> QED BY <2>1
<1>5. ChildHandle(n, count) = Steps(first, step, count)
  BY DEF ChildHandle
<1> HIDE DEF first, s
<1>6. NextIn(s, Nodes, 0, first)
  <2>1. CASE Len(s) = 0
    BY <1>1, <2>1 DEF Follows, NextIn
  <2>2. CASE Len(s) # 0
    <3>1. 1 \in 1..Len(s) /\ 0 < 1 /\ Len(s) > 0 /\ \A k \in 1..Len(s) : ~ (k < 1)
      BY <1>3, <2>2
    <3> QED BY <1>1, <1>3, <3>1 DEF Follows, NextIn
  <2> QED BY <2>1, <2>2
<1>7. ASSUME NEW j \in 1..Len(s) PROVE NextIn(s, Nodes, j, step[s[j]])
  <2>1. step[s[j]] = node[s[j]]["next"]
    BY <1>3
  <2>2. CASE j = Len(s)
    <3>1. Len(s) > 0 /\ \A k \in 1..Len(s) : ~ (j < k)
      BY <1>3, <2>2
    <3>2. step[s[j]] = Null
      BY <1>1, <2>1, <2>2, <3>1 DEF Follows
    <3> QED BY <3>1, <3>2 DEF NextIn
  <2>3. CASE j # Len(s)
    <3>1. j \in 1..(Len(s) - 1) /\ j + 1 \in 1..Len(s) /\ j < j + 1
          /\ \A k \in 1..Len(s) : ~ (j < k /\ k < j + 1)
      <4>1. j \in Nat /\ \A k \in 1..Len(s) : k \in Nat
        BY <1>3
      <4>2. j \in 1..(Len(s) - 1) /\ j + 1 \in 1..Len(s)
        BY <1>3, <2>3, NextIndex
      <4>3. \A k \in Nat : ~ (j < k /\ k < j + 1)
        BY <4>1
      <4> QED BY <4>1, <4>2, <4>3
    <3>2. step[s[j]] = s[j + 1] /\ s[j + 1] \in Nodes
      BY <1>1, <1>3, <2>1, <3>1 DEF Follows
    <3> QED BY <3>1, <3>2 DEF NextIn
  <2> QED BY <2>2, <2>3
<1> HIDE DEF step
<1>8. Steps(first, step, count) = Nth(s, Nodes, count)
  BY <1>3, <1>4, <1>6, <1>7, StepsReach
<1> QED BY <1>5, <1>8 DEF s

\* Every way to step reaches what it asks for.
LEMMA TreesNavigate == ASSUME TreeInv, NEW count \in Nat PROVE Navigates(count)
<1> SUFFICES ASSUME NEW n \in Live, NEW v \in Values
             PROVE  /\ ChildHandle(n, count) = Nth(Children(n), Nodes, count)
                    /\ NamedChildHandle(n, v, count) = Nth(Children(n), Named(v), count)
                    /\ ElementHandle(n, count) = Nth(Children(n), OfElements, count)
                    /\ NamedElementHandle(n, v, count)
                         = Nth(Children(n), Named(v) \cap OfElements, count)
                    /\ Back(n, v, count) = Nth(Reverse(Children(n)), Named(v), count)
  BY DEF Navigates, Containers
<1>1. Follows(node, "next", node[n].firstChild, Live, Children(n))
  BY KidsAre
<1>2. \A S : Steps(FirstIn(Children(n), S), [m \in Nodes |-> FirstIn(Following(m), S)], count)
               = Nth(Children(n), S, count)
  <2>1. "next" \in {"next", "prev"}
    OBVIOUS
  <2> QED BY <1>1, <2>1, LoopsReach DEF Following
<1>3. Back(n, v, count) = Nth(Reverse(Children(n)), Named(v), count)
  <2> DEFINE t == Chain(node, "prev", node[n].lastChild)
  <2>1. "prev" \in {"next", "prev"} /\ "prev" \in {"parent", "prev", "next"}
    OBVIOUS
  <2>2. node[n].lastChild \in Live \cup {Null}
    BY DEF TreeInv, TreesOn, Local, Downward
  <2>3. Follows(node, "prev", node[n].lastChild, Live, t)
    BY <2>1, <2>2, ChainOf DEF TreeInv
  <2>4. Steps(FirstIn(t, Named(v)), [m \in Nodes |-> FirstIn(Preceding(m), Named(v))], count)
          = Nth(t, Named(v), count)
    <3> HIDE DEF t
    <3> QED BY <2>1, <2>3, LoopsReach DEF Preceding
  <2>5. t = Reverse(Children(n))
    BY BackIs
  <2> QED BY <2>4, <2>5 DEF Back, LastChild, PreviousSibling
<1> QED BY <1>2, <1>3, ChildrenReached
        DEF NamedChildHandle, FirstChild, NextSibling, ElementHandle, FirstElement, NextElement,
            NamedElementHandle, FirstChildElement, NextSiblingElement

\* For any number of nodes, and of steps: from the first child, NextSibling, NextElement and
\* NextSiblingElement visit the children asked for, all of them, in their order, and so do
\* the steps of a TiXmlHandle; PreviousSibling from the last one visits them in the reverse.
THEOREM StepsVisitAll == Spec => [](Navigation /\ \A count \in Nat : Navigates(count))
<1>1. TreeInv => Navigation /\ \A count \in Nat : Navigates(count)
  <2>1. \A count \in 0..2 : count \in Nat
    OBVIOUS
  <2> QED BY <2>1, TreesNavigate DEF Navigation
<1> QED BY <1>1, InitTrees, NextTrees, PTL DEF Spec
-----------------------------------------------------------------------------
(***************************************************************************)
(* Rings of attributes                                                     *)
(***************************************************************************)
\* One step more of a loop.
Onwards(step, s) == IF s = <<>> \/ step[s[Len(s)]] = None THEN s ELSE Append(s, step[s[Len(s)]])

LoopsTo(step, start, w) ==
  /\ w \in [Nat -> Seq(Objects)]
  /\ w[0] = IF start = None THEN <<>> ELSE <<start>>
  /\ \A k \in Nat : w[k + 1] = Onwards(step, w[k])

\* What a loop visits is the end of a walk of as many steps as there are attributes.
LEMMA VisitedLoops ==
  ASSUME NEW step, step \in [Objects -> AttrLinks], NEW start, start \in AttrLinks
  PROVE  \E w : LoopsTo(step, start, w) /\ Visited(start, step) = w[Cardinality(Attrs)]
<1> DEFINE D == Seq(Objects)
           longer == [s \in D |->
             IF s = <<>> \/ step[Last(s)] = None THEN s ELSE Append(s, step[Last(s)])]
           a == IF start = None THEN <<>> ELSE <<start>>
           w == CHOOSE f : Recursive(f, longer, a)
<1>1. Visited(start, step) = w[Cardinality(Attrs)]
  BY DEF Visited, Last, Recursive
<1>2. longer \in [D -> D]
  <2>1. ASSUME NEW s \in D, s # <<>>, step[Last(s)] # None
        PROVE  Append(s, step[Last(s)]) \in D
    <3>1. Len(s) \in Nat /\ Len(s) > 0 /\ s[Len(s)] \in Objects
      BY <2>1, EmptySeq, LenProperties, ElementOfSeq
    <3>2. step[Last(s)] \in Objects
      BY <2>1, <3>1 DEF Last, AttrLinks
    <3> QED BY <3>2, AppendProperties
  <2> QED BY <2>1
<1>3. ASSUME NEW s \in D PROVE longer[s] = Onwards(step, s)
  BY DEF Last, Onwards
<1>4. a \in D
  BY DEF AttrLinks
<1>5. w = CHOOSE f : Recursive(f, longer, a)
  OBVIOUS
<1> HIDE DEF longer, a, w, D
<1>6. w \in [Nat -> D] /\ w[0] = a /\ \A k \in Nat : w[k + 1] = longer[w[k]]
  <2>1. \E f : Recursive(f, longer, a)
    BY <1>2, <1>4, RecursiveExists
  <2>2. Recursive(w, longer, a)
    BY <2>1, <1>5
  <2> QED BY <1>2, <1>4, <2>2, RecursiveIs
<1>7. \A k \in Nat : w[k + 1] = Onwards(step, w[k])
  BY <1>3, <1>6
<1>8. LoopsTo(step, start, w)
  BY <1>6, <1>7 DEF LoopsTo, a, D
<1> QED BY <1>1, <1>8

LEMMA VisitedTyped ==
  ASSUME NEW step, step \in [Objects -> AttrLinks],
         NEW start, start \in AttrLinks
  PROVE  Visited(start, step) \in Seq(Objects)
<1>1. PICK w : LoopsTo(step, start, w) /\ Visited(start, step) = w[Cardinality(Attrs)]
  BY VisitedLoops
<1>2. Cardinality(Attrs) \in Nat
  BY FS_CardinalityType, AttributesAssumption
<1> QED BY <1>1, <1>2 DEF LoopsTo

\* t is the front of s that a loop has seen after k steps.
FrontOf(s, k, t) ==
  /\ t \in Seq(Objects) /\ Len(t) = (IF k + 1 < Len(s) THEN k + 1 ELSE Len(s))
  /\ \A i \in 1..Len(t) : t[i] = s[i]

\* s has every attribute once.
Once(s) == \A i, j \in 1..Len(s) : s[i] = s[j] => i = j

LEMMA OnceShort ==
  ASSUME NEW s, s \in Seq(Attrs), Once(s)
  PROVE  Len(s) <= Cardinality(Attrs) /\ Cardinality(Attrs) \in Nat
<1> DEFINE S == 1..Len(s)
<1>1. IsFiniteSet(Attrs) /\ Cardinality(Attrs) \in Nat
  BY FS_CardinalityType, AttributesAssumption
<1>2. Len(s) \in Nat /\ s \in [S -> Attrs]
  BY LenProperties
<1>3. IsFiniteSet(S) /\ Cardinality(S) = Len(s)
  BY <1>2, FS_Interval
<1>4. ASSUME NEW i \in S, NEW j \in S, i # j PROVE s[i] # s[j]
  BY <1>4 DEF Once
<1>6. s \in [S -> Attrs]
  BY <1>2
<1>5. ~ (Cardinality(Attrs) < Cardinality(S))
  <2> HIDE DEF S
  <2> QED BY <1>1, <1>3, <1>4, <1>6, FS_PigeonHole
<1> QED BY <1>1, <1>2, <1>3, <1>5

\* A loop whose steps lead through s visits s.
LEMMA VisitedIs ==
  ASSUME NEW step, step \in [Objects -> AttrLinks],
         NEW s, s \in Seq(Attrs), Once(s), NEW start,
         start = IF Len(s) = 0 THEN None ELSE s[1],
         \A i \in 1..Len(s) : step[s[i]] = IF i = Len(s) THEN None ELSE s[i + 1]
  PROVE  Visited(start, step) = s
<1> DEFINE N == Cardinality(Attrs)
<1>1. /\ Len(s) \in Nat /\ s \in [1..Len(s) -> Attrs] /\ \A i \in 1..Len(s) : s[i] \in Attrs
      /\ N \in Nat /\ Len(s) <= N
  BY LenProperties, OnceShort
<1>2. Attrs \subseteq Objects /\ \A a \in Attrs : a # None
  BY AttributesAssumption DEF Objects
<1>3. start \in AttrLinks
  <2>1. Len(s) = 0 \/ 1 \in 1..Len(s)
    BY <1>1
  <2> QED BY <1>1, <1>2, <2>1 DEF AttrLinks
<1>4. PICK w : LoopsTo(step, start, w) /\ Visited(start, step) = w[N]
  BY <1>3, VisitedLoops
<1> DEFINE H == {k \in Nat : FrontOf(s, k, w[k])}
<1>5. 0 \in H
  <2>1. CASE Len(s) = 0
    <3>1. w[0] = <<>> /\ Len(w[0]) = 0 /\ w[0] \in Seq(Objects)
      BY <1>4, <2>1 DEF LoopsTo
    <3>2. FrontOf(s, 0, w[0])
      BY <2>1, <3>1 DEF FrontOf
    <3> QED BY <3>2
  <2>2. CASE Len(s) # 0
    <3>1. 1 \in 1..Len(s) /\ s[1] \in Attrs /\ s[1] # None
          /\ (IF 0 + 1 < Len(s) THEN 0 + 1 ELSE Len(s)) = 1
      BY <1>1, <1>2, <2>2
    <3>2. w[0] = <<s[1]>> /\ w[0] \in Seq(Objects)
      BY <1>4, <2>2, <3>1 DEF LoopsTo
    <3>3. Len(w[0]) = 1 /\ w[0][1] = s[1]
      BY <3>2
    <3>4. \A i \in 1..1 : i = 1
      OBVIOUS
    <3>5. FrontOf(s, 0, w[0])
      BY <3>1, <3>2, <3>3, <3>4 DEF FrontOf
    <3> QED BY <3>5
  <2> QED BY <2>1, <2>2
<1>6. ASSUME NEW k \in Nat, k \in H PROVE k + 1 \in H
  <2> DEFINE t == w[k]
  <2>1. t \in Seq(Objects) /\ Len(t) = (IF k + 1 < Len(s) THEN k + 1 ELSE Len(s))
        /\ (\A i \in 1..Len(t) : t[i] = s[i]) /\ w[k + 1] = Onwards(step, t)
    BY <1>4, <1>6 DEF FrontOf, LoopsTo
  <2> HIDE DEF t
  <2>2. CASE Len(s) = 0
    <3>1. t = <<>>
      BY <2>1, <2>2, EmptySeq, LenProperties
    <3>2. w[k + 1] = t
      BY <2>1, <3>1 DEF Onwards
    <3> QED BY <2>1, <2>2, <3>2 DEF FrontOf
  <2>3. CASE Len(s) # 0 /\ ~ (k + 1 < Len(s))
    <3>1. Len(t) = Len(s) /\ Len(s) \in 1..Len(s) /\ t[Len(t)] = s[Len(s)]
          /\ ~ ((k + 1) + 1 < Len(s))
      BY <1>1, <2>1, <2>3
    <3>2. w[k + 1] = t
      BY <2>1, <3>1 DEF Onwards
    <3> QED BY <2>1, <3>1, <3>2 DEF FrontOf
  <2>4. CASE k + 1 < Len(s)
    <3>1. /\ Len(t) = k + 1 /\ k + 1 \in 1..Len(s) /\ k + 1 # Len(s)
          /\ (k + 1) + 1 \in 1..Len(s) /\ t[Len(t)] = s[k + 1]
          /\ (IF (k + 1) + 1 < Len(s) THEN (k + 1) + 1 ELSE Len(s)) = (k + 1) + 1
      BY <1>1, <2>1, <2>4
    <3>2. step[t[Len(t)]] = s[(k + 1) + 1] /\ s[(k + 1) + 1] \in Attrs
      BY <1>1, <3>1
    <3>3. t # <<>> /\ s[(k + 1) + 1] # None /\ s[(k + 1) + 1] \in Objects
      BY <1>2, <3>1, <3>2
    <3> DEFINE u == Append(t, s[(k + 1) + 1])
    <3>4. w[k + 1] = u
      BY <2>1, <3>2, <3>3 DEF Onwards
    <3>5. u \in Seq(Objects) /\ Len(u) = Len(t) + 1 /\ u[Len(t) + 1] = s[(k + 1) + 1]
          /\ \A i \in 1..Len(t) : u[i] = t[i]
      BY <2>1, <3>3, AppendProperties
    <3> HIDE DEF u
    <3>6. \A i \in 1..Len(u) : u[i] = s[i]
      <4>1. \A i \in 1..Len(u) : i \in 1..Len(t) \/ i = Len(t) + 1
        BY <3>1, <3>5
      <4> QED BY <2>1, <3>1, <3>5, <4>1
    <3>7. FrontOf(s, k + 1, u)
      BY <3>1, <3>5, <3>6 DEF FrontOf
    <3> QED BY <3>4, <3>7
  <2> QED BY <1>1, <2>2, <2>3, <2>4
<1> HIDE DEF H
<1>7. Nat \subseteq H
  BY <1>5, <1>6, SetInduction
<1>8. FrontOf(s, N, w[N])
  BY <1>1, <1>7 DEF H
<1>9. Len(w[N]) = Len(s) /\ (\A i \in 1..Len(s) : w[N][i] = s[i]) /\ w[N] \in Seq(Objects)
  BY <1>1, <1>8 DEF FrontOf
<1>10. w[N] = s
  <2>1. w[N] \in [1..Len(s) -> Objects]
    BY <1>9, LenProperties
  <2>2. DOMAIN s = 1..Len(s) /\ s = [i \in DOMAIN s |-> s[i]]
    BY <1>1, LenProperties
  <2>3. \A i \in 1..Len(s) : w[N][i] = s[i]
    BY <1>9
  <2> QED BY <2>1, <2>2, <2>3
<1> QED BY <1>4, <1>10

\* Place i of the ring of e through s: e is before the first and behind the last.
Place(e, s, i) == IF i \in 1..Len(s) THEN s[i] ELSE e

Round(r, e, s) ==
  \A i \in 0..Len(s) :
    r[Place(e, s, i)].next = Place(e, s, i + 1) /\ r[Place(e, s, i + 1)].prev = Place(e, s, i)

NamesApart(r, s) == \A i, j \in 1..Len(s) : r[s[i]].name = r[s[j]].name => i = j

InOneList(L) ==
  \A e, d \in Elements : \A i \in 1..Len(L[e]), j \in 1..Len(L[d]) : L[e][i] = L[d][j] => e = d

ListHas(s, a) == \E i \in 1..Len(s) : s[i] = a

\* The rings in r are those of the lists in L.
RingsOf(r, L) ==
  /\ r \in Rings /\ L \in [Elements -> Seq(Attrs)]
  /\ \A e \in Elements : /\ Round(r, e, L[e]) /\ NamesApart(r, L[e])
                         /\ r[e].name = <<>> /\ r[e].value = <<>>
  /\ InOneList(L)
  /\ \A a \in Attrs : r[a] = FreeAttribute \/ \E e \in Elements : ListHas(L[e], a)

\* The inductive invariant.
AttrInv == \E L : RingsOf(ring, L)

Record(x) == x \in [name : Names, value : AttrValues, next : AttrLinks, prev : AttrLinks]

LEMMA ObjectsAre ==
  /\ Objects = Elements \cup Attrs /\ AttrLinks = Objects \cup {None}
  /\ None \notin Objects /\ \A a \in Attrs : a \notin Elements
  /\ \A r \in Rings : DOMAIN r = Objects /\ \A o \in Objects : Record(r[o])
  /\ Record(FreeAttribute)
BY AttributesAssumption DEF Objects, AttrLinks, Rings, Record, FreeAttribute

LEMMA ListFacts ==
  ASSUME NEW r, NEW L, RingsOf(r, L), NEW e \in Elements
  PROVE  /\ L[e] \in Seq(Attrs) /\ L[e] \in [1..Len(L[e]) -> Attrs]
         /\ Len(L[e]) \in Nat /\ Once(L[e])
         /\ e \in Objects /\ e \notin Attrs /\ e # None
         /\ \A i \in 1..Len(L[e]) : /\ L[e][i] \in Attrs /\ L[e][i] \notin Elements
                                    /\ L[e][i] \in Objects /\ L[e][i] # None
<1>1. L[e] \in Seq(Attrs)
  BY DEF RingsOf
<1>2. Len(L[e]) \in Nat /\ L[e] \in [1..Len(L[e]) -> Attrs]
  BY <1>1, LenProperties
<1>3. \A i \in 1..Len(L[e]) : L[e][i] \in Attrs
  BY <1>2
<1>4. Once(L[e])
  BY DEF RingsOf, NamesApart, Once
<1> QED BY <1>1, <1>2, <1>3, <1>4, AttributesAssumption DEF Objects

\* No object is at two places.
LEMMA PlaceOnce ==
  ASSUME NEW r, NEW L, RingsOf(r, L), NEW e \in Elements,
         NEW d \in Elements,
         NEW i \in Int, NEW j \in Int, Place(e, L[e], i) = Place(d, L[d], j)
  PROVE  /\ e = d
         /\ (i \in 0..Len(L[e]) /\ j \in 0..Len(L[d])) => i = j
         /\ (i \in 1..(Len(L[e]) + 1) /\ j \in 1..(Len(L[d]) + 1)) => i = j
<1>1. /\ Once(L[e]) /\ Len(L[e]) \in Nat /\ e \notin Attrs
      /\ \A k \in 1..Len(L[e]) : L[e][k] \in Attrs
  BY ListFacts
<1>2. /\ Len(L[d]) \in Nat /\ d \notin Attrs
      /\ \A k \in 1..Len(L[d]) : L[d][k] \in Attrs
  BY ListFacts
<1>3. CASE i \in 1..Len(L[e]) /\ j \in 1..Len(L[d])
  <2>1. L[e][i] = L[d][j]
    BY <1>3 DEF Place
  <2>2. e = d
    BY <1>3, <2>1 DEF RingsOf, InOneList
  <2> QED BY <1>1, <1>3, <2>1, <2>2 DEF Once
<1>4. CASE i \in 1..Len(L[e]) /\ j \notin 1..Len(L[d])
  BY <1>1, <1>2, <1>4 DEF Place
<1>5. CASE i \notin 1..Len(L[e]) /\ j \in 1..Len(L[d])
  BY <1>1, <1>2, <1>5 DEF Place
<1>6. CASE i \notin 1..Len(L[e]) /\ j \notin 1..Len(L[d])
  BY <1>1, <1>2, <1>6 DEF Place
<1> QED BY <1>3, <1>4, <1>5, <1>6

LEMMA PlaceTyped ==
  ASSUME NEW r, NEW L, RingsOf(r, L), NEW e \in Elements, NEW i
  PROVE  Place(e, L[e], i) \in Objects
BY ListFacts DEF Place

\* What the loop of Find visits are the attributes of the list.
LEMMA LinkedIs ==
  ASSUME NEW r, NEW L, RingsOf(r, L), NEW e \in Elements
  PROVE  Linked(r, e) = L[e]
<1> DEFINE s == L[e]
           step == [o \in Objects |-> IF r[o].next = e THEN None ELSE r[o].next]
<1>1. Linked(r, e) = Visited(step[e], step)
  BY DEF Linked
<1>2. /\ s \in Seq(Attrs) /\ Once(s) /\ Len(s) \in Nat /\ e \in Objects
      /\ \A i \in 1..Len(s) : s[i] \in Objects /\ s[i] \notin Elements
  BY ListFacts
<1>3. step \in [Objects -> AttrLinks]
  BY ObjectsAre DEF RingsOf, Record
<1>4. \A i \in 0..Len(s) : r[Place(e, s, i)].next = Place(e, s, i + 1)
  BY DEF RingsOf, Round
<1>5. /\ Place(e, s, 0) = e
      /\ \A i \in 1..Len(s) : Place(e, s, i) = s[i]
      /\ Place(e, s, Len(s) + 1) = e
  BY <1>2 DEF Place
<1> HIDE DEF s
<1>6. step[e] = IF Len(s) = 0 THEN None ELSE s[1]
  <2>1. r[e].next = Place(e, s, 0 + 1)
    BY <1>2, <1>4, <1>5
  <2>2. CASE Len(s) = 0
    BY <1>2, <1>5, <2>1, <2>2
  <2>3. CASE Len(s) # 0
    <3>1. 1 \in 1..Len(s) /\ 0 + 1 = 1
      BY <1>2, <2>3
    <3> QED BY <1>2, <1>5, <2>1, <2>3, <3>1
  <2> QED BY <2>2, <2>3
<1>7. ASSUME NEW i \in 1..Len(s) PROVE step[s[i]] = IF i = Len(s) THEN None ELSE s[i + 1]
  <2>1. r[s[i]].next = Place(e, s, i + 1)
    BY <1>2, <1>4, <1>5
  <2>2. CASE i = Len(s)
    BY <1>2, <1>5, <2>1, <2>2
  <2>3. CASE i # Len(s)
    <3>1. i + 1 \in 1..Len(s)
      BY <1>2, <2>3
    <3> QED BY <1>2, <1>5, <2>1, <2>3, <3>1
  <2> QED BY <2>2, <2>3
<1> HIDE DEF step
<1>8. step[e] \in AttrLinks
  BY <1>2, <1>3
<1>9. Visited(step[e], step) = s
  BY <1>2, <1>3, <1>6, <1>7, VisitedIs
<1> QED BY <1>1, <1>9 DEF s

\* What Find returns: the attribute of that name, or null if there is none.
FoundIn(r, s, name, x) ==
  \/ x = None /\ \A i \in 1..Len(s) : r[s[i]].name # name
  \/ \E i \in 1..Len(s) : x = s[i] /\ r[s[i]].name = name

LEMMA FindIn ==
  ASSUME NEW r, NEW e, NEW name, NEW T, Linked(r, e) \in Seq(T)
  PROVE  FoundIn(r, Linked(r, e), name, Find(r, e, name))
<1> DEFINE s == Linked(r, e)
           found == {i \in DOMAIN s : r[s[i]].name = name}
<1>1. Find(r, e, name)
        = IF found = {} THEN None ELSE s[CHOOSE x \in found : \A y \in found : x <= y]
  BY DEF Find, Min
<1>2. DOMAIN s = 1..Len(s) /\ Len(s) \in Nat
  BY LenProperties
<1> HIDE DEF s
<1>3. ASSUME found = {} PROVE FoundIn(r, s, name, Find(r, e, name))
  BY <1>1, <1>2, <1>3 DEF FoundIn
<1>4. ASSUME found # {} PROVE FoundIn(r, s, name, Find(r, e, name))
  <2>1. found \subseteq Nat /\ \A x \in found : x \in 1..Len(s) /\ r[s[x]].name = name
    BY <1>2
  <2> HIDE DEF found
  <2>2. \E x \in found : \A y \in found : x <= y
    BY <1>4, <2>1, LeastOne
  <2> QED BY <1>1, <1>4, <2>1, <2>2 DEF FoundIn
<1> QED BY <1>3, <1>4 DEF s

LEMMA FindIs ==
  ASSUME NEW r, NEW L, RingsOf(r, L), NEW e \in Elements, NEW name
  PROVE  FoundIn(r, L[e], name, Find(r, e, name))
<1>1. Linked(r, e) = L[e] /\ L[e] \in Seq(Attrs)
  BY LinkedIs, ListFacts
<1>2. FoundIn(r, Linked(r, e), name, Find(r, e, name))
  BY <1>1, FindIn
<1> QED BY <1>1, <1>2

SamePair(q, r, o) == q[o].name = r[o].name /\ q[o].value = r[o].value

NextTo(q, r, x, to) ==
  /\ q \in Rings
  /\ \A o \in Objects :
       /\ q[o].next = (IF o = x THEN to ELSE r[o].next) /\ q[o].prev = r[o].prev
       /\ SamePair(q, r, o)

PrevTo(q, r, x, to) ==
  /\ q \in Rings
  /\ \A o \in Objects :
       /\ q[o].prev = (IF o = x THEN to ELSE r[o].prev) /\ q[o].next = r[o].next
       /\ SamePair(q, r, o)

LEMMA NextSet ==
  ASSUME NEW r, r \in Rings, NEW x, x \in Objects,
         NEW to, to \in AttrLinks
  PROVE  NextTo([r EXCEPT ![x].next = to], r, x, to)
BY ObjectsAre DEF Rings, SamePair, NextTo

LEMMA PrevSet ==
  ASSUME NEW r, r \in Rings, NEW x, x \in Objects,
         NEW to, to \in AttrLinks
  PROVE  PrevTo([r EXCEPT ![x].prev = to], r, x, to)
BY ObjectsAre DEF Rings, SamePair, PrevTo

\* Add changes the neighbours of three objects.
LEMMA AddedIs ==
  ASSUME NEW r, r \in Rings, NEW e \in Elements, NEW a \in Attrs,
         NEW name \in Names, NEW value \in AttrValues,
         NEW p \in Objects, p = r[e].prev, p # a
  PROVE  LET q == Added(r, e, a, name, value)
         IN  /\ q \in Rings /\ q[a].name = name /\ q[a].value = value
             /\ \A o \in Objects :
                  /\ q[o].next = (IF o = a THEN e ELSE IF o = p THEN a ELSE r[o].next)
                  /\ q[o].prev = (IF o = a THEN p ELSE IF o = e THEN a ELSE r[o].prev)
                  /\ o # a => SamePair(q, r, o)
<1> DEFINE x == [name |-> name, value |-> value, next |-> e, prev |-> p]
           u == [r EXCEPT ![a] = x]
           v == [u EXCEPT ![p].next = a]
           q == [v EXCEPT ![e].prev = a]
<1>1. Added(r, e, a, name, value) = q
  BY DEF Added
<1>2. /\ a \in Objects /\ e \in Objects /\ e # a /\ p # a
      /\ a \in AttrLinks /\ e \in AttrLinks /\ p \in AttrLinks
  BY ObjectsAre
<1>3. /\ u \in Rings /\ u[a] = x
      /\ \A o \in Objects : o # a => u[o] = r[o]
  BY <1>2 DEF Rings
<1>4. /\ u[a].next = e /\ u[a].prev = p /\ u[a].name = name /\ u[a].value = value
      /\ \A o \in Objects :
           o # a => u[o].next = r[o].next /\ u[o].prev = r[o].prev /\ SamePair(u, r, o)
  BY <1>3 DEF SamePair
<1> HIDE DEF u
<1>9. NextTo(v, u, p, a)
  BY <1>2, <1>3, NextSet
<1> HIDE DEF v
<1>5. /\ v \in Rings
      /\ \A o \in Objects :
           /\ v[o].next = (IF o = p THEN a ELSE u[o].next) /\ v[o].prev = u[o].prev
           /\ SamePair(v, u, o)
  BY <1>9 DEF NextTo
<1>10. PrevTo(q, v, e, a)
  BY <1>2, <1>5, PrevSet
<1> HIDE DEF q
<1>6. /\ q \in Rings
      /\ \A o \in Objects :
           /\ q[o].prev = (IF o = e THEN a ELSE v[o].prev) /\ q[o].next = v[o].next
           /\ SamePair(q, v, o)
  BY <1>10 DEF PrevTo
<1>7. q[a].name = name /\ q[a].value = value
  BY <1>2, <1>4, <1>5, <1>6 DEF SamePair
<1>8. ASSUME NEW o \in Objects
      PROVE  /\ q[o].next = (IF o = a THEN e ELSE IF o = p THEN a ELSE r[o].next)
             /\ q[o].prev = (IF o = a THEN p ELSE IF o = e THEN a ELSE r[o].prev)
             /\ o # a => SamePair(q, r, o)
  BY <1>2, <1>4, <1>5, <1>6 DEF SamePair
<1> QED BY <1>1, <1>6, <1>7, <1>8 DEF q

\* An attribute that is free is in no list.
LEMMA FreeOut ==
  ASSUME NEW r, NEW L, RingsOf(r, L), NEW a \in Attrs, r[a] = FreeAttribute
  PROVE  \A d \in Elements : ~ ListHas(L[d], a)
<1> SUFFICES ASSUME NEW d \in Elements, NEW i \in 1..Len(L[d]), L[d][i] = a PROVE FALSE
  BY DEF ListHas
<1>1. Len(L[d]) \in Nat /\ i \in 0..Len(L[d]) /\ Place(d, L[d], i) = a
  BY ListFacts DEF Place
<1>2. r[a].next = Place(d, L[d], i + 1)
  BY <1>1 DEF RingsOf, Round
<1>3. r[a].next \in Objects
  BY <1>2, PlaceTyped
<1> QED BY <1>3, ObjectsAre DEF FreeAttribute

\* A ring whose links are not touched stays.
LEMMA RoundKept ==
  ASSUME NEW r, NEW L, RingsOf(r, L), NEW d \in Elements, NEW q,
         \A i \in 0..Len(L[d]) :
           /\ q[Place(d, L[d], i)].next = r[Place(d, L[d], i)].next
           /\ q[Place(d, L[d], i + 1)].prev = r[Place(d, L[d], i + 1)].prev
  PROVE  Round(q, d, L[d])
BY DEF RingsOf, Round

\* A list may have whatever no other has.
LEMMA StillInOneList ==
  ASSUME NEW L, InOneList(L), NEW e \in Elements, NEW M,
         \A d \in Elements : d # e => M[d] = L[d],
         \A d \in Elements : \A i \in 1..Len(M[e]) : d # e => ~ ListHas(L[d], M[e][i])
  PROVE  InOneList(M)
<1> SUFFICES ASSUME NEW c \in Elements, NEW d \in Elements, NEW i \in 1..Len(M[c]),
                    NEW j \in 1..Len(M[d]), M[c][i] = M[d][j]
             PROVE  c = d
  BY DEF InOneList
<1>1. CASE c = e /\ d # e
  BY <1>1 DEF ListHas
<1>2. CASE c # e /\ d = e
  BY <1>2 DEF ListHas
<1>3. CASE c # e /\ d # e
  BY <1>3 DEF InOneList
<1> QED BY <1>1, <1>2, <1>3

AddedTo(q, M, r, a, name, value) ==
  /\ RingsOf(q, M) /\ q[a].name = name /\ q[a].value = value
  /\ \A o \in Objects : o # a => SamePair(q, r, o)

\* The list has a at its end.
LEMMA AddedRings ==
  ASSUME NEW r, NEW L, RingsOf(r, L), NEW e \in Elements,
         NEW a \in Attrs, r[a] = FreeAttribute, NEW name \in Names, NEW value \in AttrValues,
         \A i \in 1..Len(L[e]) : r[L[e][i]].name # name
  PROVE  AddedTo(Added(r, e, a, name, value), [L EXCEPT ![e] = Append(L[e], a)], r, a, name, value)
<1> DEFINE q == Added(r, e, a, name, value)
           s == L[e]
           n == Len(s)
           t == Append(s, a)
           M == [L EXCEPT ![e] = t]
           p == Place(e, s, n)
<1>1. /\ s \in Seq(Attrs) /\ n \in Nat /\ e \notin Attrs /\ e \in Objects
      /\ \A i \in 1..n : s[i] \in Attrs /\ s[i] \in Objects
  BY ListFacts
<1>2. \A d \in Elements : \A i \in 1..Len(L[d]) : L[d][i] # a
  BY FreeOut DEF ListHas
<1>3. r[e].prev = p /\ p \in Objects /\ p # a
  <2>1. n \in 0..n /\ Place(e, s, n + 1) = e
    BY <1>1 DEF Place
  <2>2. r[e].prev = p
    BY <2>1 DEF RingsOf, Round
  <2>3. p \in Objects
    BY PlaceTyped
  <2>4. p # a
    BY <1>1, <1>2 DEF Place
  <2> QED BY <2>2, <2>3, <2>4
<1>4. /\ q \in Rings /\ q[a].name = name /\ q[a].value = value
      /\ \A o \in Objects :
           /\ q[o].next = (IF o = a THEN e ELSE IF o = p THEN a ELSE r[o].next)
           /\ q[o].prev = (IF o = a THEN p ELSE IF o = e THEN a ELSE r[o].prev)
           /\ o # a => SamePair(q, r, o)
  <2> HIDE DEF p, s
  <2>1. r \in Rings
    BY DEF RingsOf
  <2> QED BY <1>3, <2>1, AddedIs
<1> HIDE DEF q
<1>5. /\ t \in Seq(Attrs) /\ Len(t) = n + 1 /\ t[n + 1] = a /\ \A i \in 1..n : t[i] = s[i]
  BY <1>1, AppendProperties
<1>6. M \in [Elements -> Seq(Attrs)] /\ M[e] = t /\ \A d \in Elements : d # e => M[d] = L[d]
  <2> HIDE DEF t, s
  <2> QED BY <1>5 DEF RingsOf
<1> HIDE DEF t, M
<1>7. /\ \A i \in 0..n : Place(e, t, i) = Place(e, s, i)
      /\ Place(e, t, n + 1) = a /\ Place(e, t, (n + 1) + 1) = e
  <2>1. \A i \in 0..n : i \in 1..(n + 1) <=> i \in 1..n
    BY <1>1
  <2>2. n + 1 \in 1..(n + 1) /\ (n + 1) + 1 \notin 1..(n + 1)
    BY <1>1
  <2> QED BY <1>1, <1>5, <2>1, <2>2 DEF Place
<1>8. \A d \in Elements : \A i : Place(d, L[d], i) \in Objects /\ Place(d, L[d], i) # a
  <2>1. \A d \in Elements : \A i : Place(d, L[d], i) \in Objects
    BY PlaceTyped
  <2>2. \A d \in Elements : d # a
    BY AttributesAssumption
  <2> QED BY <1>2, <2>1, <2>2 DEF Place
<1>9. Round(q, e, t)
  <2> SUFFICES ASSUME NEW i \in 0..(n + 1)
               PROVE  /\ q[Place(e, t, i)].next = Place(e, t, i + 1)
                      /\ q[Place(e, t, i + 1)].prev = Place(e, t, i)
    BY <1>5 DEF Round
  <2>1. CASE i = n + 1
    <3>1. q[a].next = e /\ q[e].prev = a
      BY <1>1, <1>4 DEF Objects
    <3> QED BY <1>7, <2>1, <3>1
  <2>2. CASE i = n
    <3>1. q[p].next = a /\ q[a].prev = p
      BY <1>3, <1>4 DEF Objects
    <3>2. Place(e, t, i) = p /\ Place(e, t, i + 1) = a
      BY <1>1, <1>7, <2>2
    <3> HIDE DEF p
    <3> QED BY <3>1, <3>2
  <2>3. CASE i \notin {n, n + 1}
    <3> DEFINE x == Place(e, s, i)
               y == Place(e, s, i + 1)
    <3>1. i \in 0..n /\ i + 1 \in 0..n /\ i + 1 \in 1..n /\ i # n
      BY <1>1, <2>3
    <3>2. x \in Objects /\ y \in Objects /\ x # a /\ y # a
      BY <1>8
    <3>3. x # p
      <4>1. i \in Int /\ n \in Int /\ n \in 0..n
        BY <1>1
      <4> QED BY <3>1, <4>1, PlaceOnce
    <3>4. y # e
      BY <1>1, <3>1 DEF Place
    <3>5. r[x].next = y /\ r[y].prev = x
      BY <3>1 DEF RingsOf, Round
    <3>6. Place(e, t, i) = x /\ Place(e, t, i + 1) = y
      BY <1>7, <3>1
    <3> HIDE DEF x, y, p
    <3> QED BY <1>4, <3>2, <3>3, <3>4, <3>5, <3>6
  <2> QED BY <2>1, <2>2, <2>3
<1>10. ASSUME NEW d \in Elements, d # e PROVE Round(q, d, L[d])
  <2>1. ASSUME NEW i \in 0..Len(L[d])
        PROVE  /\ q[Place(d, L[d], i)].next = r[Place(d, L[d], i)].next
               /\ q[Place(d, L[d], i + 1)].prev = r[Place(d, L[d], i + 1)].prev
    <3>1. Place(d, L[d], i) # p
      BY <1>1, <1>10, PlaceOnce
    <3>2. Place(d, L[d], i + 1) # e
      <4>1. Place(e, s, 0) = e
        BY DEF Place
      <4> QED BY <1>10, <4>1, PlaceOnce
    <3> HIDE DEF p
    <3> QED BY <1>4, <1>8, <3>1, <3>2
  <2> QED BY <2>1, RoundKept
<1>11. \A d \in Elements : \A i \in 1..Len(L[d]) : SamePair(q, r, L[d][i])
  <2>1. \A d \in Elements : \A i \in 1..Len(L[d]) : L[d][i] \in Objects
    BY ListFacts
  <2> QED BY <1>2, <1>4, <2>1
<1>12. NamesApart(q, t)
  <2>1. NamesApart(r, s)
    BY DEF RingsOf
  <2>2. \A i \in 1..(n + 1) : i \in 1..n \/ i = n + 1
    BY <1>1
  <2>3. \A i \in 1..n : q[t[i]].name = r[s[i]].name /\ r[s[i]].name # name
    BY <1>5, <1>11 DEF SamePair
  <2>4. q[t[n + 1]].name = name
    BY <1>4, <1>5
  <2> QED BY <1>5, <2>1, <2>2, <2>3, <2>4 DEF NamesApart
<1>13. ASSUME NEW d \in Elements, d # e PROVE NamesApart(q, L[d])
  BY <1>11 DEF RingsOf, NamesApart, SamePair
<1>14. InOneList(M)
  <2>1. InOneList(L)
    BY DEF RingsOf
  <2>2. \A i \in 1..Len(t) : (i \in 1..n /\ t[i] = s[i]) \/ t[i] = a
    <3>1. \A i \in 1..(n + 1) : i \in 1..n \/ i = n + 1
      BY <1>1
    <3> QED BY <1>5, <3>1
  <2>3. ASSUME NEW d \in Elements, NEW i \in 1..Len(t), d # e PROVE ~ ListHas(L[d], t[i])
    <3>1. CASE t[i] = a
      BY <1>2, <3>1 DEF ListHas
    <3>2. CASE i \in 1..n /\ t[i] = s[i]
      BY <2>1, <2>3, <3>2 DEF ListHas, InOneList
    <3> QED BY <2>2, <3>1, <3>2
  <2> QED BY <1>6, <2>1, <2>3, StillInOneList
<1>15. \A b \in Attrs : q[b] = FreeAttribute \/ \E d \in Elements : ListHas(M[d], b)
  <2> SUFFICES ASSUME NEW b \in Attrs
               PROVE  q[b] = FreeAttribute \/ \E d \in Elements : ListHas(M[d], b)
    OBVIOUS
  <2>1. CASE b = a
    <3>1. n + 1 \in 1..Len(t)
      BY <1>1, <1>5
    <3> QED BY <1>5, <1>6, <2>1, <3>1 DEF ListHas
  <2>2. CASE b # a /\ \E d \in Elements : ListHas(L[d], b)
    <3>0. PICK d \in Elements : ListHas(L[d], b)
      BY <2>2
    <3>1. PICK i \in 1..Len(L[d]) : L[d][i] = b
      BY <3>0 DEF ListHas
    <3>2. CASE d = e
      <4>1. i \in 1..Len(t) /\ t[i] = b
        BY <1>1, <1>5, <3>1, <3>2
      <4> QED BY <1>6, <4>1 DEF ListHas
    <3>3. CASE d # e
      BY <1>6, <3>1, <3>3 DEF ListHas
    <3> QED BY <3>2, <3>3
  <2>3. CASE b # a /\ r[b] = FreeAttribute
    <3>1. b \in Objects /\ r[b].next = None /\ r[b].prev = None
      BY <2>3 DEF Objects, FreeAttribute
    <3>2. b # p /\ b # e
      <4>1. \A d \in Elements : \A i \in 1..Len(L[d]) : L[d][i] # b
        BY <2>3, FreeOut DEF ListHas
      <4> QED BY <1>1, <4>1 DEF Place
    <3>3. q[b].next = None /\ q[b].prev = None /\ q[b].name = r[b].name /\ q[b].value = r[b].value
      <4> HIDE DEF p
      <4> QED BY <1>4, <2>3, <3>1, <3>2 DEF SamePair
    <3>4. Record(q[b]) /\ Record(r[b])
      BY <1>4, <3>1, ObjectsAre DEF RingsOf
    <3>5. q[b] = r[b]
      BY <3>1, <3>3, <3>4 DEF Record
    <3> QED BY <2>3, <3>5
  <2> QED BY <2>1, <2>2, <2>3 DEF RingsOf
<1>16. \A d \in Elements : q[d].name = <<>> /\ q[d].value = <<>>
  <2>1. \A d \in Elements : d \in Objects /\ d # a
    BY ListFacts
  <2> QED BY <1>4, <2>1 DEF SamePair, RingsOf
<1>17. RingsOf(q, M)
  BY <1>4, <1>6, <1>9, <1>10, <1>12, <1>13, <1>14, <1>15, <1>16 DEF RingsOf
<1>18. AddedTo(q, M, r, a, name, value)
  BY <1>4, <1>17 DEF AddedTo
<1> QED BY <1>18 DEF q, M, t

ValueTo(q, r, L, x, value) ==
  /\ RingsOf(q, L) /\ q[x].name = r[x].name /\ q[x].value = value
  /\ \A o \in Objects : o # x => SamePair(q, r, o)

LinksAsIn(q, r) ==
  \A o \in Objects : q[o].next = r[o].next /\ q[o].prev = r[o].prev /\ q[o].name = r[o].name

\* What SetValue changes: no link and no name.
LEMMA ValueSet ==
  ASSUME NEW r, NEW L, RingsOf(r, L), NEW x \in Attrs,
         NEW e \in Elements,
         ListHas(L[e], x), NEW value \in AttrValues
  PROVE  ValueTo([r EXCEPT ![x].value = value], r, L, x, value)
<1> DEFINE q == [r EXCEPT ![x].value = value]
<1>1. r \in Rings /\ x \in Objects
  BY ObjectsAre DEF RingsOf
<1>2. \A o \in Objects : Record(r[o])
  BY <1>1, ObjectsAre
<1>3. q \in Rings /\ q[x].value = value
  BY <1>1, <1>2 DEF Rings, Record
<1>4. LinksAsIn(q, r)
  BY <1>1, <1>2 DEF Rings, Record, LinksAsIn
<1>5. \A o \in Objects : o # x => q[o] = r[o]
  BY <1>1 DEF Rings
<1> HIDE DEF q
<1>6. \A d \in Elements : Round(q, d, L[d])
  <2> SUFFICES ASSUME NEW d \in Elements PROVE Round(q, d, L[d])
    OBVIOUS
  <2>1. \A i : Place(d, L[d], i) \in Objects
    BY PlaceTyped
  <2>2. \A i \in 0..Len(L[d]) :
          /\ q[Place(d, L[d], i)].next = r[Place(d, L[d], i)].next
          /\ q[Place(d, L[d], i + 1)].prev = r[Place(d, L[d], i + 1)].prev
    BY <1>4, <2>1 DEF LinksAsIn
  <2> QED BY <2>2, RoundKept
<1>7. \A d \in Elements : NamesApart(q, L[d])
  <2> SUFFICES ASSUME NEW d \in Elements PROVE NamesApart(q, L[d])
    OBVIOUS
  <2>1. \A i \in 1..Len(L[d]) : L[d][i] \in Objects
    BY ListFacts
  <2>2. \A i \in 1..Len(L[d]) : q[L[d][i]].name = r[L[d][i]].name
    BY <1>4, <2>1 DEF LinksAsIn
  <2>3. NamesApart(r, L[d])
    BY DEF RingsOf
  <2> QED BY <2>2, <2>3 DEF NamesApart
<1>8. \A d \in Elements : q[d].name = <<>> /\ q[d].value = <<>>
  <2> SUFFICES ASSUME NEW d \in Elements PROVE q[d].name = <<>> /\ q[d].value = <<>>
    OBVIOUS
  <2>1. d \in Objects /\ d # x
    BY ObjectsAre
  <2>2. r[d].name = <<>> /\ r[d].value = <<>>
    BY DEF RingsOf
  <2> QED BY <1>5, <2>1, <2>2
<1>9. \A b \in Attrs : q[b] = FreeAttribute \/ \E d \in Elements : ListHas(L[d], b)
  <2> SUFFICES ASSUME NEW b \in Attrs, b # x
               PROVE  q[b] = FreeAttribute \/ \E d \in Elements : ListHas(L[d], b)
    OBVIOUS
  <2>1. q[b] = r[b]
    BY <1>5, ObjectsAre
  <2>2. r[b] = FreeAttribute \/ \E d \in Elements : ListHas(L[d], b)
    BY DEF RingsOf
  <2> QED BY <2>1, <2>2
<1>10. L \in [Elements -> Seq(Attrs)] /\ InOneList(L)
  BY DEF RingsOf
<1>11. RingsOf(q, L)
  BY <1>3, <1>6, <1>7, <1>8, <1>9, <1>10 DEF RingsOf
<1>12. \A o \in Objects : o # x => SamePair(q, r, o)
  BY <1>5 DEF SamePair
<1>13. q[x].name = r[x].name
  BY <1>1, <1>4 DEF LinksAsIn
<1> QED BY <1>3, <1>11, <1>12, <1>13 DEF q, ValueTo

\* Remove changes the neighbours of two objects, and frees one.
LEMMA RemovedIs ==
  ASSUME NEW r, r \in Rings, NEW a \in Attrs,
         NEW p \in Objects, p = r[a].prev, p # a,
         NEW n \in Objects, n = r[a].next, n # a
  PROVE  LET q == Removed(r, a)
         IN  /\ q \in Rings /\ q[a] = FreeAttribute
             /\ \A o \in Objects :
                  o # a => /\ q[o].next = (IF o = p THEN n ELSE r[o].next)
                           /\ q[o].prev = (IF o = n THEN p ELSE r[o].prev)
                           /\ SamePair(q, r, o)
<1> DEFINE u == [r EXCEPT ![p].next = n]
           v == [u EXCEPT ![n].prev = p]
           q == [v EXCEPT ![a] = FreeAttribute]
<1>1. Removed(r, a) = q
  BY DEF Removed
<1>2. /\ a \in Objects /\ n \in AttrLinks /\ p \in AttrLinks /\ Record(FreeAttribute)
  BY ObjectsAre
<1>7. NextTo(u, r, p, n)
  BY <1>2, NextSet
<1> HIDE DEF u
<1>3. /\ u \in Rings
      /\ \A o \in Objects :
           /\ u[o].next = (IF o = p THEN n ELSE r[o].next) /\ u[o].prev = r[o].prev
           /\ SamePair(u, r, o)
  BY <1>7 DEF NextTo
<1>8. PrevTo(v, u, n, p)
  BY <1>2, <1>3, PrevSet
<1> HIDE DEF v
<1>4. /\ v \in Rings
      /\ \A o \in Objects :
           /\ v[o].prev = (IF o = n THEN p ELSE u[o].prev) /\ v[o].next = u[o].next
           /\ SamePair(v, u, o)
  BY <1>8 DEF PrevTo
<1>5. /\ q \in Rings /\ q[a] = FreeAttribute
      /\ \A o \in Objects : o # a => q[o] = v[o]
  BY <1>2, <1>4 DEF Rings, Record
<1> HIDE DEF q
<1>6. ASSUME NEW o \in Objects, o # a
      PROVE  /\ q[o].next = (IF o = p THEN n ELSE r[o].next)
             /\ q[o].prev = (IF o = n THEN p ELSE r[o].prev)
             /\ SamePair(q, r, o)
  BY <1>3, <1>4, <1>5, <1>6 DEF SamePair
<1> QED BY <1>1, <1>5, <1>6

\* A list without the element at place j.
LEMMA WithoutIs ==
  ASSUME NEW T, NEW s, s \in Seq(T), NEW j \in 1..Len(s)
  PROVE  LET t == Without(s, j)
         IN  /\ t \in Seq(T) /\ Len(t) = Len(s) - 1
             /\ \A k \in 1..(Len(s) - 1) : t[k] = s[IF k < j THEN k ELSE k + 1]
<1> DEFINE n == Len(s)
           t == Without(s, j)
<1>1. n \in Nat /\ n - 1 \in Nat /\ s \in [1..n -> T] /\ j \in 1..n
  BY LenProperties
<1>2. t = [k \in 1..(n - 1) |-> s[IF k < j THEN k ELSE k + 1]]
  BY DEF Without
<1> HIDE DEF t, n
<1>3. \A k \in 1..(n - 1) : (IF k < j THEN k ELSE k + 1) \in 1..n
  BY <1>1
<1>4. t \in [1..(n - 1) -> T]
  BY <1>1, <1>2, <1>3
<1>5. t \in Seq(T)
  BY <1>1, <1>4, SeqDef
<1>6. Len(t) = n - 1
  BY <1>1, <1>4, <1>5, LenProperties
<1> QED BY <1>2, <1>5, <1>6 DEF t, n

\* The places of such a ring.
LEMMA WithoutPlaces ==
  ASSUME NEW T, NEW s, s \in Seq(T), NEW j \in 1..Len(s), NEW e, NEW k \in 0..Len(s)
  PROVE  Place(e, Without(s, j), k) = Place(e, s, IF k < j THEN k ELSE k + 1)
<1> DEFINE t == Without(s, j)
<1>1. Len(s) \in Nat /\ j \in 1..Len(s)
  BY LenProperties
<1>2. Len(t) = Len(s) - 1 /\ \A i \in 1..(Len(s) - 1) : t[i] = s[IF i < j THEN i ELSE i + 1]
  BY WithoutIs
<1> HIDE DEF t
<1>3. /\ k \in 1..Len(t) <=> k # 0 /\ k # Len(s)
      /\ k # 0 /\ k # Len(s) => (IF k < j THEN k ELSE k + 1) \in 1..Len(s)
      /\ k = 0 => (IF k < j THEN k ELSE k + 1) = 0 /\ 0 \notin 1..Len(s)
      /\ k = Len(s) => (IF k < j THEN k ELSE k + 1) \notin 1..Len(s)
  BY <1>1, <1>2
<1>4. Place(e, t, k) = Place(e, s, IF k < j THEN k ELSE k + 1)
  BY <1>2, <1>3 DEF Place
<1> QED BY <1>4 DEF t

\* The list loses its element at place j.
LEMMA RemovedRings ==
  ASSUME NEW r, NEW L, RingsOf(r, L), NEW e \in Elements,
         NEW j \in 1..Len(L[e])
  PROVE  LET a == L[e][j]
             q == Removed(r, a)
         IN  /\ RingsOf(q, [L EXCEPT ![e] = Without(L[e], j)])
             /\ \A o \in Objects : o # a => SamePair(q, r, o)
<1> DEFINE s == L[e]
           a == s[j]
           q == Removed(r, a)
           n == Len(s)
           t == Without(s, j)
           M == [L EXCEPT ![e] = t]
           p == Place(e, s, j - 1)
           x == Place(e, s, j + 1)
<1>1. /\ s \in Seq(Attrs) /\ n \in Nat /\ j \in 1..n /\ Once(s) /\ e \in Objects
      /\ \A i \in 1..n : s[i] \in Attrs /\ s[i] \in Objects
  BY ListFacts
<1>2. a \in Attrs /\ a \in Objects /\ Place(e, s, j) = a
  BY <1>1 DEF Place
<1>3. j - 1 \in 0..n /\ j \in 0..n /\ (j - 1) + 1 = j /\ j + 1 \in 1..(n + 1) /\ j - 1 \in Int
  BY <1>1
<1>4. p = r[a].prev /\ x = r[a].next
  <2>1. r[Place(e, s, (j - 1) + 1)].prev = p /\ r[Place(e, s, j)].next = x
    BY <1>3 DEF RingsOf, Round
  <2> QED BY <1>2, <1>3, <2>1
<1>5. p \in Objects /\ x \in Objects
  BY PlaceTyped
<1>6. \A i \in 0..n : i # j => Place(e, s, i) # a
  <2>1. \A i \in 0..n : Place(e, s, i) = Place(e, s, j) => i = j
    <3>1. j \in Int /\ \A i \in 0..n : i \in Int
      BY <1>1
    <3> QED BY <1>3, <3>1, PlaceOnce
  <2> QED BY <1>2, <2>1
<1>7. p # a /\ x # a
  <2>1. j - 1 # j /\ j + 1 # j /\ (j + 1 \in 0..n \/ j + 1 = n + 1)
    BY <1>1
  <2>2. Place(e, s, n + 1) = e /\ e # a
    BY <1>1, <1>2, ObjectsAre DEF Place
  <2> QED BY <1>3, <1>6, <2>1, <2>2
<1>8. /\ q \in Rings /\ q[a] = FreeAttribute
      /\ \A o \in Objects :
           o # a => /\ q[o].next = (IF o = p THEN x ELSE r[o].next)
                    /\ q[o].prev = (IF o = x THEN p ELSE r[o].prev)
                    /\ SamePair(q, r, o)
  <2> HIDE DEF a, p, x
  <2>1. r \in Rings
    BY DEF RingsOf
  <2> QED BY <1>2, <1>4, <1>5, <1>7, <2>1, RemovedIs
<1>9. /\ t \in Seq(Attrs) /\ Len(t) = n - 1
      /\ \A k \in 1..(n - 1) : t[k] = s[IF k < j THEN k ELSE k + 1]
  BY <1>1, WithoutIs
<1>10. \A k \in 0..n : Place(e, t, k) = Place(e, s, IF k < j THEN k ELSE k + 1)
  BY <1>1, WithoutPlaces
<1>11. M \in [Elements -> Seq(Attrs)] /\ M[e] = t /\ \A d \in Elements : d # e => M[d] = L[d]
  <2> HIDE DEF t, s
  <2> QED BY <1>9 DEF RingsOf
<1> HIDE DEF q, t, M
<1>12. \A d \in Elements : \A i \in 1..Len(L[d]) : L[d][i] = a => d = e /\ i = j
  <2>1. \A d \in Elements : \A i \in 1..Len(L[d]) : L[d][i] = L[e][j] => d = e
    BY DEF RingsOf, InOneList
  <2> QED BY <1>1, <2>1 DEF Once
<1>13. \A d \in Elements : \A i : Place(d, L[d], i) \in Objects
  BY PlaceTyped
<1>14. ASSUME NEW d \in Elements, d # e PROVE Round(q, d, L[d])
  <2>1. Len(L[d]) \in Nat /\ \A i \in 0..Len(L[d]) : i \in Int /\ i + 1 \in Int
    BY ListFacts
  <2>2. \A i \in Int : Place(d, L[d], i) # p /\ Place(d, L[d], i) # x /\ Place(d, L[d], i) # a
    BY <1>2, <1>3, <1>14, PlaceOnce
  <2> HIDE DEF p, x, a
  <2>3. \A i \in 0..Len(L[d]) :
          /\ q[Place(d, L[d], i)].next = r[Place(d, L[d], i)].next
          /\ q[Place(d, L[d], i + 1)].prev = r[Place(d, L[d], i + 1)].prev
    BY <1>8, <1>13, <2>1, <2>2
  <2> QED BY <2>3, RoundKept
<1>15. /\ \A i \in 0..n : i # j - 1 /\ i # j => q[Place(e, s, i)].next = Place(e, s, i + 1)
       /\ q[p].next = x
       /\ \A i \in 0..n : i # j - 1 /\ i # j => q[Place(e, s, i + 1)].prev = Place(e, s, i)
       /\ q[x].prev = p
  <2>1. \A i \in 0..n : /\ r[Place(e, s, i)].next = Place(e, s, i + 1)
                        /\ r[Place(e, s, i + 1)].prev = Place(e, s, i)
    BY DEF RingsOf, Round
  <2>2. ASSUME NEW i \in 0..n, i # j - 1, i # j PROVE Place(e, s, i) # p /\ Place(e, s, i) # a
    <3>1. i \in Int
      OBVIOUS
    <3>2. Place(e, s, i) # p
      BY <1>3, <2>2, <3>1, PlaceOnce
    <3> QED BY <1>6, <2>2, <3>2
  <2>3. ASSUME NEW i \in 0..n, i # j - 1, i # j
        PROVE  Place(e, s, i + 1) # x /\ Place(e, s, i + 1) # a
    <3>1. i + 1 \in Int /\ i + 1 \in 1..(n + 1) /\ j + 1 \in Int /\ i + 1 # j + 1 /\ i + 1 # j
          /\ j \in Int /\ j \in 1..(n + 1)
      BY <1>1, <2>3
    <3>2. Place(e, s, i + 1) # x
      BY <1>3, <3>1, PlaceOnce
    <3>3. Place(e, s, i + 1) # Place(e, s, j)
      BY <3>1, PlaceOnce
    <3> QED BY <1>2, <3>2, <3>3
  <2> HIDE DEF p, x, a
  <2> QED BY <1>5, <1>7, <1>8, <1>13, <2>1, <2>2, <2>3
<1>16. Round(q, e, t)
  <2> SUFFICES ASSUME NEW i \in 0..(n - 1)
               PROVE  /\ q[Place(e, t, i)].next = Place(e, t, i + 1)
                      /\ q[Place(e, t, i + 1)].prev = Place(e, t, i)
    BY <1>9 DEF Round
  <2>1. i \in 0..n /\ i + 1 \in 0..n /\ i + 1 = i + 1
    BY <1>1
  <2>2. /\ Place(e, t, i) = Place(e, s, IF i < j THEN i ELSE i + 1)
        /\ Place(e, t, i + 1) = Place(e, s, IF i + 1 < j THEN i + 1 ELSE (i + 1) + 1)
    BY <1>10, <2>1
  <2>3. CASE i + 1 < j
    <3>1. i < j /\ i # j - 1 /\ i # j
      BY <1>1, <2>3
    <3> QED BY <1>15, <2>1, <2>2, <2>3, <3>1
  <2>4. CASE i + 1 = j
    <3>1. i < j /\ i = j - 1 /\ ~ (i + 1 < j) /\ (i + 1) + 1 = j + 1
      BY <1>1, <2>4
    <3> QED BY <1>15, <2>2, <3>1
  <2>5. CASE j < i + 1
    <3>1. ~ (i < j) /\ ~ (i + 1 < j) /\ i + 1 # j - 1 /\ i + 1 # j
      BY <1>1, <2>5
    <3> QED BY <1>15, <2>1, <2>2, <3>1
  <2>6. i + 1 < j \/ i + 1 = j \/ j < i + 1
    BY <1>1
  <2> QED BY <2>3, <2>4, <2>5, <2>6
<1>17. /\ \A k \in 1..Len(t) : \E i \in 1..n : t[k] = s[i] /\ i # j
       /\ \A k, l \in 1..Len(t) : k # l =>
            (IF k < j THEN k ELSE k + 1) # (IF l < j THEN l ELSE l + 1)
       /\ \A k \in 1..Len(t) : LET m == IF k < j THEN k ELSE k + 1
                               IN  m \in 1..n /\ m # j /\ t[k] = s[m]
       /\ \A i \in 1..n : i # j => \E k \in 1..Len(t) : t[k] = s[i]
  <2>1. Len(t) = n - 1 /\ \A k \in 1..Len(t) : LET m == IF k < j THEN k ELSE k + 1
                                               IN  m \in 1..n /\ m # j
    BY <1>1, <1>9
  <2>2. \A k, l \in 1..Len(t) : k # l =>
            (IF k < j THEN k ELSE k + 1) # (IF l < j THEN l ELSE l + 1)
    BY <1>1, <1>9
  <2>3. ASSUME NEW i \in 1..n, i # j PROVE \E k \in 1..Len(t) : t[k] = s[i]
    <3>1. CASE i < j
      <4>1. i \in 1..(n - 1)
        BY <1>1, <3>1
      <4> QED BY <1>9, <3>1, <4>1
    <3>2. CASE j < i
      <4>1. i - 1 \in 1..(n - 1) /\ ~ (i - 1 < j) /\ (i - 1) + 1 = i
        BY <1>1, <3>2
      <4> QED BY <1>9, <4>1
    <3>3. i < j \/ j < i
      BY <1>1, <2>3
    <3> QED BY <3>1, <3>2, <3>3
  <2> QED BY <1>9, <2>1, <2>2, <2>3
<1>18. NamesApart(q, t)
  <2> SUFFICES ASSUME NEW k \in 1..Len(t), NEW l \in 1..Len(t), k # l
               PROVE  q[t[k]].name # q[t[l]].name
    BY DEF NamesApart
  <2> DEFINE f == IF k < j THEN k ELSE k + 1
             g == IF l < j THEN l ELSE l + 1
  <2>1. f # g /\ f \in 1..n /\ g \in 1..n /\ f # j /\ g # j /\ t[k] = s[f] /\ t[l] = s[g]
    BY <1>17
  <2> HIDE DEF f, g
  <2>2. r[s[f]].name # r[s[g]].name
    BY <2>1 DEF RingsOf, NamesApart
  <2>3. s[f] # a /\ s[g] # a /\ s[f] \in Objects /\ s[g] \in Objects
    BY <1>1, <2>1 DEF Once
  <2>4. q[s[f]].name = r[s[f]].name /\ q[s[g]].name = r[s[g]].name
    BY <1>8, <2>3 DEF SamePair
  <2> QED BY <2>1, <2>2, <2>4
<1>19. ASSUME NEW d \in Elements, d # e PROVE NamesApart(q, L[d])
  <2>1. \A i \in 1..Len(L[d]) : L[d][i] # a /\ L[d][i] \in Objects
    BY <1>12, <1>19, ListFacts
  <2> QED BY <1>8, <2>1 DEF RingsOf, NamesApart, SamePair
<1>20. InOneList(M)
  <2>1. InOneList(L)
    BY DEF RingsOf
  <2>2. ASSUME NEW d \in Elements, NEW k \in 1..Len(t), d # e PROVE ~ ListHas(L[d], t[k])
    <3>1. PICK i \in 1..n : t[k] = s[i]
      BY <1>17
    <3> QED BY <2>1, <2>2, <3>1 DEF ListHas, InOneList
  <2> QED BY <1>11, <2>1, <2>2, StillInOneList
<1>21. ASSUME NEW b \in Attrs PROVE q[b] = FreeAttribute \/ \E d \in Elements : ListHas(M[d], b)
  <2>1. CASE b = a
    BY <1>8, <2>1
  <2>2. CASE b # a /\ r[b] # FreeAttribute
    <3>0. PICK d \in Elements : ListHas(L[d], b)
      BY <2>2 DEF RingsOf
    <3>1. PICK i \in 1..Len(L[d]) : L[d][i] = b
      BY <3>0 DEF ListHas
    <3>2. CASE d = e
      <4>1. i \in 1..n /\ i # j
        BY <2>2, <3>1, <3>2
      <4> QED BY <1>11, <1>17, <3>1, <3>2, <4>1 DEF ListHas
    <3>3. CASE d # e
      BY <1>11, <3>0, <3>3
    <3> QED BY <3>2, <3>3
  <2>3. CASE b # a /\ r[b] = FreeAttribute
    <3>1. b \in Objects /\ r[b].next = None /\ r[b].prev = None
      BY <2>3 DEF Objects, FreeAttribute
    <3>2. b # p /\ b # x
      <4>1. \A d \in Elements : \A i \in 1..Len(L[d]) : L[d][i] # b
        BY <2>3, FreeOut DEF ListHas
      <4>2. b # e
        BY ObjectsAre
      <4> QED BY <1>1, <4>1, <4>2 DEF Place
    <3>3. q[b].next = None /\ q[b].prev = None /\ q[b].name = r[b].name /\ q[b].value = r[b].value
      <4> HIDE DEF p, x, a
      <4> QED BY <1>8, <2>3, <3>1, <3>2 DEF SamePair
    <3>4. Record(q[b]) /\ Record(r[b])
      BY <1>8, <3>1, ObjectsAre DEF RingsOf
    <3>5. q[b] = r[b]
      BY <3>1, <3>3, <3>4 DEF Record
    <3> QED BY <2>3, <3>5
  <2> QED BY <2>1, <2>2, <2>3
<1>22. \A d \in Elements : q[d].name = <<>> /\ q[d].value = <<>>
  <2>1. \A d \in Elements : d \in Objects /\ d # a
    BY <1>2, ObjectsAre
  <2> QED BY <1>8, <2>1 DEF SamePair, RingsOf
<1>23. RingsOf(q, M)
  BY <1>8, <1>11, <1>14, <1>16, <1>18, <1>19, <1>20, <1>21, <1>22 DEF RingsOf
<1> QED BY <1>8, <1>23 DEF q, M, t

\* The names and values of the attributes of a list.
Pairs(r, s) == [i \in 1..Len(s) |-> <<r[s[i]].name, r[s[i]].value>>]

LEMMA PairsAre ==
  ASSUME NEW r, NEW L, RingsOf(r, L), NEW e \in Elements
  PROVE  /\ Pairs(r, L[e]) \in Seq(Names \X AttrValues)
         /\ Len(Pairs(r, L[e])) = Len(L[e]) /\ DOMAIN Pairs(r, L[e]) = 1..Len(L[e])
         /\ \A i \in 1..Len(L[e]) : /\ Pairs(r, L[e])[i] = <<r[L[e][i]].name, r[L[e][i]].value>>
                                    /\ Pairs(r, L[e])[i][1] = r[L[e][i]].name
<1> DEFINE s == L[e]
           p == Pairs(r, s)
<1>1. Len(s) \in Nat /\ \A i \in 1..Len(s) : Record(r[s[i]])
  BY ListFacts, ObjectsAre DEF RingsOf
<1>2. p = [i \in 1..Len(s) |-> <<r[s[i]].name, r[s[i]].value>>]
  BY DEF Pairs
<1> HIDE DEF p, s
<1>3. \A i \in 1..Len(s) : p[i] = <<r[s[i]].name, r[s[i]].value>> /\ p[i][1] = r[s[i]].name
  BY <1>2
<1>4. \A i \in 1..Len(s) : <<r[s[i]].name, r[s[i]].value>> \in Names \X AttrValues
  BY <1>1 DEF Record
<1>5. p \in [1..Len(s) -> Names \X AttrValues]
  BY <1>2, <1>4
<1>6. p \in Seq(Names \X AttrValues)
  BY <1>1, <1>5, SeqDef
<1>7. Len(p) = Len(s)
  BY <1>1, <1>5, <1>6, LenProperties
<1> QED BY <1>3, <1>5, <1>6, <1>7 DEF p, s

\* What a call on e leaves as it is.
Kept(q, M, r, L, e) ==
  \A d \in Elements :
    d # e => M[d] = L[d] /\ \A i \in 1..Len(L[d]) : SamePair(q, r, L[d][i])

LEMMA KeptTwice ==
  ASSUME NEW q, NEW M, NEW r, NEW L, NEW e, NEW o, NEW K, Kept(q, M, r, L, e), Kept(o, K, q, M, e)
  PROVE  Kept(o, K, r, L, e)
BY DEF Kept, SamePair

LEMMA KeptPairs ==
  ASSUME NEW q, NEW M, NEW r, NEW L, NEW e, Kept(q, M, r, L, e), NEW d \in Elements, d # e
  PROVE  Pairs(q, M[d]) = Pairs(r, L[d])
BY DEF Kept, SamePair, Pairs

\* What e can allocate, it still can, but for what it has.
LEMMA StillFree ==
  ASSUME NEW r, NEW L, RingsOf(r, L), NEW q, NEW M, RingsOf(q, M),
         NEW e \in Elements, Kept(q, M, r, L, e), NEW b \in Attrs,
         r[b] = FreeAttribute \/ ListHas(L[e], b)
  PROVE  q[b] = FreeAttribute \/ ListHas(M[e], b)
<1>1. ASSUME NEW d \in Elements, d # e PROVE ~ ListHas(M[d], b)
  <2>1. CASE r[b] = FreeAttribute
    <3>1. ~ ListHas(L[d], b)
      BY <2>1, FreeOut
    <3> QED BY <1>1, <3>1 DEF Kept
  <2>2. CASE ListHas(L[e], b)
    <3>1. ~ ListHas(L[d], b)
      BY <1>1, <2>2 DEF RingsOf, InOneList, ListHas
    <3> QED BY <1>1, <3>1 DEF Kept
  <2> QED BY <2>1, <2>2
<1> QED BY <1>1 DEF RingsOf

NameIn(r, s, name) ==
  name \in NamesOf(Pairs(r, s)) <=> \E i \in 1..Len(s) : r[s[i]].name = name

LEMMA NamesOfPairs ==
  ASSUME NEW r, NEW L, RingsOf(r, L), NEW e \in Elements, NEW name
  PROVE  NameIn(r, L[e], name)
BY PairsAre DEF NamesOf, NameIn

\* A name that is not in the list comes to its end.
StoredTo(q, M, r, L, e, a, name, value) ==
  /\ RingsOf(q, M) /\ Kept(q, M, r, L, e) /\ M[e] = Append(L[e], a)
  /\ Pairs(q, M[e]) = Append(Pairs(r, L[e]), <<name, value>>)
  /\ name \notin NamesOf(Pairs(r, L[e]))

LEMMA StoredNew ==
  ASSUME NEW r, NEW L, RingsOf(r, L), NEW e \in Elements,
         NEW a \in Attrs,
         r[a] = FreeAttribute, NEW name \in Names, NEW value \in AttrValues,
         Find(r, e, name) = None
  PROVE  /\ Stored(r, e, a, name, value) = Added(r, e, a, name, value)
         /\ StoredTo(Stored(r, e, a, name, value), [L EXCEPT ![e] = Append(L[e], a)],
                     r, L, e, a, name, value)
<1> DEFINE q == Added(r, e, a, name, value)
           s == L[e]
           t == Append(s, a)
           M == [L EXCEPT ![e] = t]
<1>1. Stored(r, e, a, name, value) = q
  BY DEF Stored
<1>2. FoundIn(r, s, name, None)
  BY FindIs
<1>3. \A i \in 1..Len(s) : s[i] # None
  BY ListFacts
<1>4. \A i \in 1..Len(s) : r[s[i]].name # name
  BY <1>2, <1>3 DEF FoundIn
<1>5. /\ RingsOf(q, M) /\ q[a].name = name /\ q[a].value = value
      /\ \A o \in Objects : o # a => SamePair(q, r, o)
  <2>1. \A i \in 1..Len(L[e]) : r[L[e][i]].name # name
    BY <1>4
  <2>2. AddedTo(Added(r, e, a, name, value), [L EXCEPT ![e] = Append(L[e], a)], r, a, name, value)
    BY <2>1, AddedRings
  <2>3. AddedTo(q, M, r, a, name, value)
    BY <2>2
  <2> HIDE DEF q, M
  <2> QED BY <2>3 DEF AddedTo
<1> HIDE DEF q
<1>6. /\ s \in Seq(Attrs) /\ Len(s) \in Nat /\ \A i \in 1..Len(s) : s[i] \in Objects
  BY ListFacts
<1>7. /\ t \in Seq(Attrs) /\ Len(t) = Len(s) + 1 /\ t[Len(s) + 1] = a
      /\ \A i \in 1..Len(s) : t[i] = s[i]
  BY <1>6, AppendProperties
<1>8. M[e] = t /\ \A d \in Elements : d # e => M[d] = L[d]
  <2> HIDE DEF t
  <2> QED BY DEF RingsOf
<1> HIDE DEF t, M
<1>9. \A d \in Elements : \A i \in 1..Len(L[d]) : L[d][i] # a /\ L[d][i] \in Objects
  BY FreeOut, ListFacts DEF ListHas
<1>10. Kept(q, M, r, L, e)
  BY <1>5, <1>8, <1>9 DEF Kept
<1>11. Pairs(q, t) = Append(Pairs(r, s), <<name, value>>)
  <2> DEFINE T == Names \X AttrValues
             old == Pairs(r, s)
             new == Pairs(q, t)
             app == Append(old, <<name, value>>)
  <2>1. /\ old \in Seq(T) /\ Len(old) = Len(s)
        /\ \A i \in 1..Len(s) : old[i] = <<r[s[i]].name, r[s[i]].value>>
    BY PairsAre
  <2>2. /\ new \in Seq(T) /\ Len(new) = Len(t)
        /\ \A i \in 1..Len(t) : new[i] = <<q[t[i]].name, q[t[i]].value>>
    <3>1. /\ Pairs(q, M[e]) \in Seq(T) /\ Len(Pairs(q, M[e])) = Len(M[e])
          /\ \A i \in 1..Len(M[e]) : Pairs(q, M[e])[i] = <<q[M[e][i]].name, q[M[e][i]].value>>
      BY <1>5, PairsAre
    <3> QED BY <1>8, <3>1
  <2>3. <<name, value>> \in T
    OBVIOUS
  <2> HIDE DEF T, old, new
  <2>4. /\ app \in Seq(T) /\ Len(app) = Len(old) + 1 /\ app[Len(old) + 1] = <<name, value>>
        /\ \A i \in 1..Len(old) : app[i] = old[i]
    BY <2>1, <2>3, AppendProperties
  <2> HIDE DEF app
  <2>5. ASSUME NEW i \in 1..Len(new) PROVE new[i] = app[i]
    <3>1. i \in 1..Len(s) \/ i = Len(s) + 1
      BY <1>6, <1>7, <2>2
    <3>2. CASE i \in 1..Len(s)
      <4>1. q[s[i]].name = r[s[i]].name /\ q[s[i]].value = r[s[i]].value
        BY <1>5, <1>9, <3>2 DEF SamePair
      <4> QED BY <1>7, <2>1, <2>2, <2>4, <3>2, <4>1
    <3>3. CASE i = Len(s) + 1
      BY <1>5, <1>7, <2>1, <2>2, <2>4, <3>3
    <3> QED BY <3>1, <3>2, <3>3
  <2>6. Len(new) = Len(app)
    BY <1>7, <2>1, <2>2, <2>4
  <2>7. new = app
    BY <2>2, <2>4, <2>5, <2>6, SeqEqual
  <2> QED BY <2>7 DEF new, app, old
<1>12. name \notin NamesOf(Pairs(r, s))
  <2>1. NameIn(r, L[e], name)
    BY NamesOfPairs
  <2>2. name \in NamesOf(Pairs(r, L[e])) <=> \E i \in 1..Len(L[e]) : r[L[e][i]].name = name
    BY <2>1 DEF NameIn
  <2> QED BY <1>4, <2>2
<1>13. StoredTo(q, M, r, L, e, a, name, value)
  BY <1>5, <1>8, <1>10, <1>11, <1>12 DEF StoredTo, t
<1> QED BY <1>1, <1>13 DEF q, M, t

\* A name that is in the list keeps its place.
LEMMA StoredOld ==
  ASSUME NEW r, NEW L, RingsOf(r, L), NEW e \in Elements, NEW a,
         NEW name \in Names, NEW value \in AttrValues, Find(r, e, name) # None
  PROVE  LET q == Stored(r, e, a, name, value)
         IN  /\ RingsOf(q, L) /\ Kept(q, L, r, L, e)
             /\ Pairs(q, L[e]) = Put(Pairs(r, L[e]), name, value)
<1> DEFINE x == Find(r, e, name)
           q == [r EXCEPT ![x].value = value]
           s == L[e]
<1>1. Stored(r, e, a, name, value) = q
  BY DEF Stored
<1>2. FoundIn(r, s, name, x)
  BY FindIs
<1>3. PICK j \in 1..Len(s) : x = s[j] /\ r[x].name = name
  BY <1>2 DEF FoundIn
<1>4. x \in Attrs /\ ListHas(s, x) /\ Once(s)
  BY <1>3, ListFacts DEF ListHas
<1>5. /\ RingsOf(q, L) /\ q[x].name = name /\ q[x].value = value
      /\ \A o \in Objects : o # x => SamePair(q, r, o)
  <2> HIDE DEF x
  <2>1. ValueTo(q, r, L, x, value)
    BY <1>4, ValueSet
  <2> HIDE DEF q
  <2> QED BY <1>3, <2>1 DEF ValueTo
<1> HIDE DEF q, x
<1>6. \A d \in Elements : \A i \in 1..Len(L[d]) : L[d][i] \in Objects
  BY ListFacts
<1>7. \A d \in Elements : d # e => \A i \in 1..Len(L[d]) : L[d][i] # x
  BY <1>3 DEF RingsOf, InOneList
<1>8. Kept(q, L, r, L, e)
  BY <1>5, <1>6, <1>7 DEF Kept
<1>9. name \in NamesOf(Pairs(r, s))
  <2>1. NameIn(r, L[e], name)
    BY NamesOfPairs
  <2> QED BY <1>3, <2>1 DEF NameIn
<1>10. /\ DOMAIN Pairs(r, s) = 1..Len(s)
       /\ \A i \in 1..Len(s) : /\ Pairs(r, s)[i] = <<r[s[i]].name, r[s[i]].value>>
                               /\ Pairs(r, s)[i][1] = r[s[i]].name
  BY PairsAre
<1>11. Put(Pairs(r, s), name, value)
         = [i \in 1..Len(s) |-> IF r[s[i]].name = name THEN <<name, value>> ELSE Pairs(r, s)[i]]
  BY <1>9, <1>10 DEF Put
<1>12. ASSUME NEW i \in 1..Len(s)
       PROVE  <<q[s[i]].name, q[s[i]].value>>
                = IF r[s[i]].name = name THEN <<name, value>> ELSE Pairs(r, s)[i]
  <2>1. r[s[i]].name = name <=> i = j
    BY <1>3 DEF RingsOf, NamesApart
  <2>2. CASE i = j
    BY <1>3, <1>5, <2>1, <2>2
  <2>3. CASE i # j
    <3>1. s[i] # x /\ s[i] \in Objects
      BY <1>3, <1>4, <1>6, <2>3 DEF Once
    <3> QED BY <1>5, <1>10, <2>1, <2>3, <3>1 DEF SamePair
  <2> QED BY <2>2, <2>3
<1>13. Pairs(q, s) = [i \in 1..Len(s) |-> <<q[s[i]].name, q[s[i]].value>>]
  BY DEF Pairs
<1>14. Pairs(q, s) = Put(Pairs(r, s), name, value)
  BY <1>11, <1>12, <1>13
<1> QED BY <1>1, <1>5, <1>8, <1>14

\* Remove takes the pair of the attribute out of the list of e.
RemovedTo(q, M, r, L, e, j) ==
  /\ RingsOf(q, M) /\ Kept(q, M, r, L, e) /\ M[e] = Without(L[e], j)
  /\ Pairs(q, M[e]) = Without(Pairs(r, L[e]), j)

LEMMA RemovedPairs ==
  ASSUME NEW r, NEW L, RingsOf(r, L), NEW e \in Elements,
         NEW j \in 1..Len(L[e])
  PROVE  RemovedTo(Removed(r, L[e][j]), [L EXCEPT ![e] = Without(L[e], j)], r, L, e, j)
<1> DEFINE s == L[e]
           a == s[j]
           q == Removed(r, a)
           t == Without(s, j)
           M == [L EXCEPT ![e] = t]
<1>1. RingsOf(q, M) /\ \A o \in Objects : o # a => SamePair(q, r, o)
  BY RemovedRings
<1>2. M[e] = t /\ \A d \in Elements : d # e => M[d] = L[d]
  <2> HIDE DEF t
  <2> QED BY DEF RingsOf
<1> HIDE DEF q, M
<1>3. \A d \in Elements : \A i \in 1..Len(L[d]) : L[d][i] \in Objects
  BY ListFacts
<1>4. \A d \in Elements : d # e => \A i \in 1..Len(L[d]) : L[d][i] # a
  BY DEF RingsOf, InOneList
<1>5. Kept(q, M, r, L, e)
  BY <1>1, <1>2, <1>3, <1>4 DEF Kept
<1>6. s \in Seq(Attrs) /\ Len(s) \in Nat /\ Once(s) /\ j \in 1..Len(s)
  BY ListFacts
<1>7. /\ t \in Seq(Attrs) /\ Len(t) = Len(s) - 1
      /\ \A k \in 1..(Len(s) - 1) : t[k] = s[IF k < j THEN k ELSE k + 1]
  BY <1>6, WithoutIs
<1> HIDE DEF t
<1>8. Pairs(q, t) = Without(Pairs(r, s), j)
  <2> DEFINE T == Names \X AttrValues
             old == Pairs(r, s)
             new == Pairs(q, t)
             w == Without(old, j)
  <2>1. /\ old \in Seq(T) /\ Len(old) = Len(s)
        /\ \A i \in 1..Len(s) : old[i] = <<r[s[i]].name, r[s[i]].value>>
    BY PairsAre
  <2>2. /\ new \in Seq(T) /\ Len(new) = Len(t)
        /\ \A i \in 1..Len(t) : new[i] = <<q[t[i]].name, q[t[i]].value>>
    <3>1. /\ Pairs(q, M[e]) \in Seq(T) /\ Len(Pairs(q, M[e])) = Len(M[e])
          /\ \A i \in 1..Len(M[e]) : Pairs(q, M[e])[i] = <<q[M[e][i]].name, q[M[e][i]].value>>
      BY <1>1, PairsAre
    <3> QED BY <1>2, <3>1
  <2> HIDE DEF T, old, new
  <2>3. /\ w \in Seq(T) /\ Len(w) = Len(old) - 1
        /\ \A k \in 1..(Len(old) - 1) : w[k] = old[IF k < j THEN k ELSE k + 1]
    BY <1>6, <2>1, WithoutIs
  <2> HIDE DEF w
  <2>4. ASSUME NEW k \in 1..Len(new) PROVE new[k] = w[k]
    <3> DEFINE m == IF k < j THEN k ELSE k + 1
    <3>1. k \in 1..(Len(s) - 1) /\ k \in 1..Len(t) /\ m \in 1..Len(s) /\ m # j
      BY <1>6, <1>7, <2>2
    <3>2. w[k] = old[m] /\ t[k] = s[m]
      BY <1>7, <2>1, <2>3, <3>1
    <3> HIDE DEF m
    <3>3. s[m] # a /\ s[m] \in Objects
      BY <1>3, <1>6, <3>1 DEF Once
    <3>4. q[s[m]].name = r[s[m]].name /\ q[s[m]].value = r[s[m]].value
      BY <1>1, <3>3 DEF SamePair
    <3> QED BY <2>1, <2>2, <3>1, <3>2, <3>4
  <2>5. Len(new) = Len(w)
    BY <1>7, <2>1, <2>2, <2>3
  <2>6. new = w
    BY <2>2, <2>3, <2>4, <2>5, SeqEqual
  <2> QED BY <2>6 DEF new, w, old
<1>9. RemovedTo(q, M, r, L, e, j)
  BY <1>1, <1>2, <1>5, <1>8 DEF RemovedTo, t
<1> QED BY <1>9 DEF q, M, t

LEMMA KeptItself == ASSUME NEW r, NEW L, NEW e PROVE Kept(r, L, r, L, e)
BY DEF Kept, SamePair

\* A loop whose states stay in a set has them.
LEMMA RecursiveStays ==
  ASSUME NEW next, NEW G, NEW a, a \in G, \A x \in G : next[x] \in G
  PROVE  \E f : Recursive(f, next, a)
<1> DEFINE step == [x \in G |-> next[x]]
<1>1. step \in [G -> G]
  OBVIOUS
<1>2. \A x \in G : step[x] = next[x]
  OBVIOUS
<1> HIDE DEF step
<1>3. PICK f : Recursive(f, step, a)
  BY <1>1, RecursiveExists
<1>4. f \in [Nat -> G] /\ f[0] = a /\ \A k \in Nat : f[k + 1] = step[f[k]]
  BY <1>1, <1>3, RecursiveIs
<1>5. \A k \in Nat : k # 0 => k - 1 \in Nat /\ f[k - 1] \in G
  BY <1>4
<1>6. f = [k \in Nat |-> IF k = 0 THEN a ELSE step[f[k - 1]]]
  BY <1>3 DEF Recursive
<1>7. \A k \in Nat : (IF k = 0 THEN a ELSE step[f[k - 1]])
                       = (IF k = 0 THEN a ELSE next[f[k - 1]])
  BY <1>2, <1>5
<1>8. f = [k \in Nat |-> IF k = 0 THEN a ELSE next[f[k - 1]]]
  BY <1>6, <1>7
<1> QED BY <1>8 DEF Recursive

\* They are its values.
StepsWithin(w, next, G, a) ==
  w \in [Nat -> G] /\ w[0] = a /\ \A k \in Nat : w[k + 1] = next[w[k]]

LEMMA RecursiveWithin ==
  ASSUME NEW next, NEW G, NEW a, a \in G, \A x \in G : next[x] \in G,
         NEW w, Recursive(w, next, a)
  PROVE  StepsWithin(w, next, G, a)
<1>1. w = [k \in Nat |-> IF k = 0 THEN a ELSE next[w[k - 1]]]
  BY DEF Recursive
<1>2. w[0] = a
  BY <1>1
<1>3. ASSUME NEW k \in Nat PROVE w[k + 1] = next[w[k]]
  <2>1. k + 1 \in Nat /\ k + 1 # 0 /\ (k + 1) - 1 = k
    OBVIOUS
  <2> QED BY <1>1, <2>1
<1>4. \A k \in Nat : w[k] \in G
  <2> DEFINE H == {k \in Nat : w[k] \in G}
  <2>1. 0 \in H
    BY <1>2
  <2>2. \A k \in Nat : k \in H => k + 1 \in H
    BY <1>3
  <2> HIDE DEF H
  <2>3. Nat \subseteq H
    BY <2>1, <2>2, SetInduction
  <2> QED BY <2>3 DEF H
<1>5. w \in [Nat -> G]
  BY <1>1, <1>4
<1> QED BY <1>2, <1>3, <1>5 DEF StepsWithin

\* One step of the loop that deletes the attributes of e.
CutFirst(q, e) == IF q[e].next = e THEN q ELSE Removed(q, q[e].next)

LEMMA CutFirstIs ==
  ASSUME NEW q, NEW M, RingsOf(q, M), NEW e \in Elements
  PROVE  \E K : /\ RingsOf(CutFirst(q, e), K) /\ Kept(CutFirst(q, e), K, q, M, e)
                /\ Len(K[e]) = (IF Len(M[e]) = 0 THEN 0 ELSE Len(M[e]) - 1)
<1> DEFINE s == M[e]
<1>1. s \in Seq(Attrs) /\ Len(s) \in Nat /\ \A i \in 1..Len(s) : s[i] \notin Elements
  BY ListFacts
<1>2. q[e].next = Place(e, s, 0 + 1)
  <2>1. 0 \in 0..Len(s) /\ Place(e, s, 0) = e
    BY <1>1 DEF Place
  <2>2. \A i \in 0..Len(s) : q[Place(e, s, i)].next = Place(e, s, i + 1)
    BY DEF RingsOf, Round
  <2> QED BY <2>1, <2>2
<1>3. CASE Len(s) = 0
  <2>1. q[e].next = e
    BY <1>2, <1>3 DEF Place
  <2>2. CutFirst(q, e) = q
    BY <2>1 DEF CutFirst
  <2> QED BY <1>3, <2>2, KeptItself
<1>4. CASE Len(s) # 0
  <2>1. 1 \in 1..Len(s) /\ 0 + 1 = 1
    BY <1>1, <1>4
  <2>2. q[e].next = s[1] /\ s[1] # e
    BY <1>1, <1>2, <2>1 DEF Place
  <2>3. CutFirst(q, e) = Removed(q, s[1])
    BY <2>2 DEF CutFirst
  <2> DEFINE K == [M EXCEPT ![e] = Without(s, 1)]
  <2>6. RemovedTo(Removed(q, s[1]), K, q, M, e, 1)
    BY <2>1, RemovedPairs
  <2> HIDE DEF K
  <2>4. /\ RingsOf(Removed(q, s[1]), K) /\ Kept(Removed(q, s[1]), K, q, M, e)
        /\ K[e] = Without(s, 1)
    BY <2>6 DEF RemovedTo
  <2>5. Len(K[e]) = Len(s) - 1
    BY <1>1, <2>1, <2>4, WithoutIs
  <2> QED BY <1>4, <2>3, <2>4, <2>5
<1> QED BY <1>3, <1>4

LEMMA OneLess ==
  ASSUME NEW m \in Nat, NEW k \in Nat, NEW l \in Nat, NEW x, x = m - 1, m + k <= l
  PROVE  x + (k + 1) <= l
OBVIOUS

\* q is r after k steps of that loop.
ClearedAfter(q, r, L, e, k) ==
  \E M : /\ RingsOf(q, M) /\ Kept(q, M, r, L, e)
         /\ Len(M[e]) + k <= Len(L[e]) \/ Len(M[e]) = 0

LEMMA ClearedRings ==
  ASSUME NEW r, NEW L, RingsOf(r, L), NEW e \in Elements
  PROVE  LET q == ClearedRing(r, e)
         IN  \E M : RingsOf(q, M) /\ Kept(q, M, r, L, e) /\ M[e] = <<>>
<1> DEFINE N == Cardinality(Attrs)
           next == [q \in Rings |-> IF q[e].next = e THEN q ELSE Removed(q, q[e].next)]
           w == CHOOSE f : Recursive(f, next, r)
           G == {q \in Rings : \E k \in Nat : ClearedAfter(q, r, L, e, k)}
<1>1. ClearedRing(r, e) = w[N]
  BY DEF ClearedRing, Recursive
<1>2. ASSUME NEW q \in Rings PROVE next[q] = CutFirst(q, e)
  BY DEF CutFirst
<1>3. w = CHOOSE f : Recursive(f, next, r)
  OBVIOUS
<1> HIDE DEF next, w
<1>4. Len(L[e]) \in Nat /\ N \in Nat /\ Len(L[e]) <= N
  BY ListFacts, OnceShort
<1>5. ASSUME NEW q, NEW k \in Nat, ClearedAfter(q, r, L, e, k)
      PROVE  q \in Rings /\ ClearedAfter(next[q], r, L, e, k + 1) /\ next[q] \in Rings
  <2>1. PICK M : /\ RingsOf(q, M) /\ Kept(q, M, r, L, e)
                 /\ Len(M[e]) + k <= Len(L[e]) \/ Len(M[e]) = 0
    BY <1>5 DEF ClearedAfter
  <2>2. PICK K : /\ RingsOf(CutFirst(q, e), K) /\ Kept(CutFirst(q, e), K, q, M, e)
                 /\ Len(K[e]) = (IF Len(M[e]) = 0 THEN 0 ELSE Len(M[e]) - 1)
    BY <2>1, CutFirstIs
  <2>3. q \in Rings /\ next[q] = CutFirst(q, e) /\ next[q] \in Rings
    BY <1>2, <2>1, <2>2 DEF RingsOf
  <2>4. Kept(next[q], K, r, L, e)
    BY <2>1, <2>2, <2>3, KeptTwice
  <2>5. Len(M[e]) \in Nat
    BY <2>1, ListFacts
  <2>6. Len(K[e]) + (k + 1) <= Len(L[e]) \/ Len(K[e]) = 0
    <3>1. CASE Len(M[e]) = 0
      BY <2>2, <3>1
    <3>2. CASE Len(M[e]) # 0
      <4>1. Len(K[e]) = Len(M[e]) - 1 /\ Len(M[e]) + k <= Len(L[e])
        BY <2>1, <2>2, <3>2
      <4>2. Len(L[e]) \in Nat
        BY <1>4
      <4> QED BY <2>5, <4>1, <4>2, OneLess
    <3> QED BY <3>1, <3>2
  <2>7. ClearedAfter(next[q], r, L, e, k + 1)
    BY <2>2, <2>3, <2>4, <2>6 DEF ClearedAfter
  <2> QED BY <2>3, <2>7
<1>6. ClearedAfter(r, r, L, e, 0)
  <2>1. Len(L[e]) + 0 <= Len(L[e])
    BY <1>4
  <2> QED BY <2>1, KeptItself DEF ClearedAfter
<1>7. r \in G
  BY <1>5, <1>6
<1>8. \A q \in G : next[q] \in G
  BY <1>5
<1> HIDE DEF G
<1>9. w \in [Nat -> G] /\ w[0] = r /\ \A k \in Nat : w[k + 1] = next[w[k]]
  <2>1. \E f : Recursive(f, next, r)
    BY <1>7, <1>8, RecursiveStays
  <2>2. Recursive(w, next, r)
    BY <1>3, <2>1
  <2>3. StepsWithin(w, next, G, r)
    BY <1>7, <1>8, <2>2, RecursiveWithin
  <2> QED BY <2>3 DEF StepsWithin
<1> DEFINE H == {k \in Nat : ClearedAfter(w[k], r, L, e, k)}
<1>10. 0 \in H
  BY <1>6, <1>9
<1>11. \A k \in Nat : k \in H => k + 1 \in H
  BY <1>5, <1>9
<1> HIDE DEF H
<1>12. Nat \subseteq H
  BY <1>10, <1>11, SetInduction
<1>13. ClearedAfter(w[N], r, L, e, N)
  BY <1>4, <1>12 DEF H
<1>14. PICK M : /\ RingsOf(w[N], M) /\ Kept(w[N], M, r, L, e)
                /\ Len(M[e]) + N <= Len(L[e]) \/ Len(M[e]) = 0
  BY <1>13 DEF ClearedAfter
<1>15. M[e] \in Seq(Attrs) /\ Len(M[e]) \in Nat
  BY <1>14, ListFacts
<1>16. Len(M[e]) = 0
  BY <1>4, <1>14, <1>15
<1>17. M[e] = <<>>
  BY <1>15, <1>16, EmptySeq
<1> QED BY <1>1, <1>14, <1>17

\* m is the number of attributes of a list that a loop with Next sees.
SeenOf(r, s, m) ==
  /\ m \in 0..Len(s) /\ (Len(s) # 0 => m # 0)
  /\ \A i \in 2..m : ~ IsSentinel(r, s[i])
  /\ m # Len(s) => IsSentinel(r, s[m + 1])

LEMMA UpToIs ==
  ASSUME NEW r, NEW L, RingsOf(r, L), NEW e \in Elements
  PROVE  \E m : /\ SeenOf(r, L[e], m)
                /\ UpToUnnamed(Pairs(r, L[e])) = SubSeq(Pairs(r, L[e]), 1, m)
<1> DEFINE s == L[e]
           P == Pairs(r, s)
           hidden == {i \in DOMAIN P : i > 1 /\ P[i] = Unnamed}
<1>1. /\ Len(s) \in Nat /\ DOMAIN P = 1..Len(s) /\ Len(P) = Len(s) /\ P \in Seq(Names \X AttrValues)
      /\ \A i \in 1..Len(s) : P[i] = <<r[s[i]].name, r[s[i]].value>>
  BY ListFacts, PairsAre
<1>2. \A i \in 1..Len(s) : P[i] = Unnamed <=> IsSentinel(r, s[i])
  BY <1>1 DEF Unnamed, IsSentinel
<1>3. UpToUnnamed(P) = IF hidden = {} THEN P
                            ELSE SubSeq(P, 1, (CHOOSE x \in hidden : \A y \in hidden : x <= y) - 1)
  BY DEF UpToUnnamed, Min
<1>4. \A i : i \in hidden <=> i \in 1..Len(s) /\ i > 1 /\ IsSentinel(r, s[i])
  BY <1>1, <1>2
<1> HIDE DEF s, P, hidden
<1>5. CASE hidden = {}
  <2>1. SubSeq(P, 1, Len(P)) = P
    BY <1>1, SubSeqFull
  <2>2. \A i \in 2..Len(s) : i \in 1..Len(s) /\ i > 1
    BY <1>1
  <2>3. SeenOf(r, s, Len(s))
    BY <1>1, <1>4, <1>5, <2>2 DEF SeenOf
  <2> QED BY <1>1, <1>3, <1>5, <2>1, <2>3 DEF P, s
<1>6. CASE hidden # {}
  <2> DEFINE x == CHOOSE x \in hidden : \A y \in hidden : x <= y
  <2>1. hidden \subseteq Nat
    BY <1>1, <1>4
  <2>2. \E z \in hidden : \A y \in hidden : z <= y
    BY <1>6, <2>1, LeastOne
  <2>3. x \in hidden /\ \A y \in hidden : x <= y
    BY <2>2
  <2> HIDE DEF x
  <2>4. x \in 1..Len(s) /\ x > 1 /\ IsSentinel(r, s[x])
    BY <1>4, <2>3
  <2>5. x - 1 \in 0..Len(s) /\ x - 1 # 0 /\ (x - 1) + 1 = x
    BY <1>1, <2>4
  <2>6. ASSUME NEW i \in 2..(x - 1) PROVE ~ IsSentinel(r, s[i])
    <3>1. i \in 1..Len(s) /\ i > 1 /\ ~ (x <= i)
      BY <1>1, <2>4
    <3> QED BY <1>4, <2>3, <3>1
  <2>7. SeenOf(r, s, x - 1)
    BY <2>4, <2>5, <2>6 DEF SeenOf
  <2>8. UpToUnnamed(P) = SubSeq(P, 1, x - 1)
    BY <1>3, <1>6 DEF x
  <2> QED BY <2>7, <2>8 DEF P, s
<1> QED BY <1>5, <1>6

LEMMA SentinelIs ==
  ASSUME NEW r, NEW L, RingsOf(r, L), NEW e \in Elements
  PROVE  IsSentinel(r, e)
BY DEF RingsOf, IsSentinel

LEMMA NextIs ==
  ASSUME NEW r, NEW L, RingsOf(r, L), NEW e \in Elements, NEW m,
         SeenOf(r, L[e], m), NEW i \in 1..m
  PROVE  NextAttribute(r, L[e][i]) = IF i = m THEN None ELSE L[e][i + 1]
<1> DEFINE s == L[e]
<1>1. Len(s) \in Nat /\ m \in 0..Len(s) /\ \A j \in 1..Len(s) : s[j] # None
  BY ListFacts DEF SeenOf
<1>2. i \in 1..Len(s) /\ i \in 0..Len(s) /\ Place(e, s, i) = s[i]
  BY <1>1 DEF Place
<1>3. r[s[i]].next = Place(e, s, i + 1)
  BY <1>2 DEF RingsOf, Round
<1>4. CASE i # m
  <2>1. i + 1 \in 1..Len(s) /\ i + 1 \in 2..m
    BY <1>1, <1>4
  <2>2. r[s[i]].next = s[i + 1] /\ ~ IsSentinel(r, s[i + 1])
    BY <1>3, <2>1 DEF Place, SeenOf
  <2> QED BY <1>4, <2>2 DEF NextAttribute
<1>5. CASE i = m
  <2>1. CASE m = Len(s)
    <3>1. i + 1 \notin 1..Len(s)
      BY <1>1, <1>5, <2>1
    <3>2. r[s[i]].next = e
      BY <1>3, <3>1 DEF Place
    <3> QED BY <1>5, <3>2, SentinelIs DEF NextAttribute
  <2>2. CASE m # Len(s)
    <3>1. i + 1 \in 1..Len(s)
      BY <1>1, <1>5, <2>2
    <3>2. r[s[i]].next = s[m + 1] /\ IsSentinel(r, s[m + 1])
      BY <1>3, <1>5, <2>2, <3>1 DEF Place, SeenOf
    <3> QED BY <1>5, <3>2 DEF NextAttribute
  <2> QED BY <2>1, <2>2
<1> QED BY <1>4, <1>5

LEMMA FirstIs ==
  ASSUME NEW r, NEW L, RingsOf(r, L), NEW e \in Elements
  PROVE  (IF r[e].next = e THEN None ELSE r[e].next) = IF Len(L[e]) = 0 THEN None ELSE L[e][1]
<1> DEFINE s == L[e]
<1>1. Len(s) \in Nat /\ \A j \in 1..Len(s) : s[j] \notin Elements
  BY ListFacts
<1>2. 0 \in 0..Len(s) /\ Place(e, s, 0) = e /\ 0 + 1 = 1
  BY <1>1 DEF Place
<1>3. r[e].next = Place(e, s, 1)
  BY <1>2 DEF RingsOf, Round
<1>4. CASE Len(s) = 0
  BY <1>3, <1>4 DEF Place
<1>5. CASE Len(s) # 0
  <2>1. 1 \in 1..Len(s)
    BY <1>1, <1>5
  <2> QED BY <1>1, <1>3, <1>5, <2>1 DEF Place
<1> QED BY <1>4, <1>5

LEMMA PreviousIs ==
  ASSUME NEW r, NEW L, RingsOf(r, L), NEW e \in Elements,
         SeenOf(r, L[e], Len(L[e])), Len(L[e]) = 0 \/ ~ IsSentinel(r, L[e][1])
  PROVE  /\ (IF r[e].prev = e THEN None ELSE r[e].prev)
              = (IF Len(L[e]) = 0 THEN None ELSE L[e][Len(L[e])])
         /\ \A i \in 1..Len(L[e]) :
              PreviousAttribute(r, L[e][i]) = IF i = 1 THEN None ELSE L[e][i - 1]
<1> DEFINE s == L[e]
           n == Len(s)
<1>1. n \in Nat /\ \A j \in 1..n : s[j] \notin Elements
  BY ListFacts
<1>2. \A i \in 0..n : r[Place(e, s, i + 1)].prev = Place(e, s, i)
  BY DEF RingsOf, Round
<1>3. (IF r[e].prev = e THEN None ELSE r[e].prev) = IF n = 0 THEN None ELSE s[n]
  <2>1. n \in 0..n /\ Place(e, s, n + 1) = e
    BY <1>1 DEF Place
  <2>2. r[e].prev = Place(e, s, n)
    BY <1>2, <2>1
  <2>3. CASE n = 0
    BY <2>2, <2>3 DEF Place
  <2>4. CASE n # 0
    <3>1. n \in 1..n
      BY <1>1, <2>4
    <3> QED BY <1>1, <2>2, <2>4, <3>1 DEF Place
  <2> QED BY <2>3, <2>4
<1>4. ASSUME NEW i \in 1..n PROVE PreviousAttribute(r, s[i]) = IF i = 1 THEN None ELSE s[i - 1]
  <2>1. i - 1 \in 0..n /\ (i - 1) + 1 = i
    BY <1>1
  <2>2. r[s[i]].prev = Place(e, s, i - 1)
    BY <1>2, <2>1 DEF Place
  <2>3. CASE i = 1
    <3>1. i - 1 \notin 1..n
      BY <1>1, <2>3
    <3>2. r[s[i]].prev = e
      BY <2>2, <3>1 DEF Place
    <3> QED BY <2>3, <3>2, SentinelIs DEF PreviousAttribute
  <2>4. CASE i # 1
    <3>1. i - 1 \in 1..n /\ (i - 1 = 1 \/ i - 1 \in 2..n) /\ n # 0
      BY <1>1, <2>4
    <3>2. r[s[i]].prev = s[i - 1]
      BY <2>2, <3>1 DEF Place
    <3>3. ~ IsSentinel(r, s[i - 1])
      BY <3>1 DEF SeenOf
    <3> QED BY <2>4, <3>2, <3>3 DEF PreviousAttribute
  <2> QED BY <2>3, <2>4
<1> QED BY <1>3, <1>4

LEMMA FrontIs ==
  ASSUME NEW T, NEW s, s \in Seq(T), NEW m \in 0..Len(s)
  PROVE  /\ SubSeq(s, 1, m) \in Seq(T) /\ Len(SubSeq(s, 1, m)) = m
         /\ \A i \in 1..m : SubSeq(s, 1, m)[i] = s[i]
<1>1. Len(s) \in Nat /\ m \in Int /\ 1 \in Int /\ \A i \in 1..Len(s) : s[i] \in T
  BY LenProperties, ElementOfSeq
<1>2. \A i \in 1..m : s[i] \in T
  BY <1>1
<1>3. /\ SubSeq(s, 1, m) \in Seq(T)
      /\ Len(SubSeq(s, 1, m)) = IF 1 <= m THEN m - 1 + 1 ELSE 0
      /\ \A i \in 1..(m - 1 + 1) : SubSeq(s, 1, m)[i] = s[1 + i - 1]
  BY <1>1, <1>2, SubSeqProperties
<1>4. (IF 1 <= m THEN m - 1 + 1 ELSE 0) = m /\ m - 1 + 1 = m /\ \A i \in 1..m : 1 + i - 1 = i
  BY <1>1
<1> QED BY <1>3, <1>4

\* Next leads from First through what the loop sees.
LEMMA ForwardIs ==
  ASSUME NEW L, RingsOf(ring, L), NEW e \in Elements,
         NEW m, SeenOf(ring, L[e], m)
  PROVE  Forward(e) = SubSeq(L[e], 1, m)
<1> DEFINE s == L[e]
           t == SubSeq(s, 1, m)
           step == [a \in Objects |-> NextAttribute(ring, a)]
<1>1. s \in Seq(Attrs) /\ Len(s) \in Nat /\ Once(s) /\ m \in 0..Len(s)
      /\ \A i \in 1..Len(s) : s[i] \in Objects
  BY ListFacts DEF SeenOf
<1>2. t \in Seq(Attrs) /\ Len(t) = m /\ \A i \in 1..m : t[i] = s[i]
  BY <1>1, FrontIs
<1> HIDE DEF t
<1>3. step \in [Objects -> AttrLinks]
  <2>1. \A a \in Objects : Record(ring[a])
    BY ObjectsAre DEF RingsOf
  <2>2. \A a \in Objects : NextAttribute(ring, a) \in AttrLinks
    BY <2>1 DEF Record, NextAttribute, AttrLinks
  <2> QED BY <2>2
<1>4. \A i \in 1..m : i \in 1..Len(s)
  BY <1>1
<1>5. Once(t)
  BY <1>1, <1>2, <1>4 DEF Once
<1>6. First(e) = IF Len(t) = 0 THEN None ELSE t[1]
  <2>1. First(e) = IF Len(s) = 0 THEN None ELSE s[1]
    BY FirstIs DEF First
  <2>2. Len(s) = 0 <=> m = 0
    BY <1>1 DEF SeenOf
  <2>3. m # 0 => 1 \in 1..m
    BY <1>1
  <2> QED BY <1>2, <2>1, <2>2, <2>3
<1>7. ASSUME NEW i \in 1..Len(t) PROVE step[t[i]] = IF i = Len(t) THEN None ELSE t[i + 1]
  <2>1. i \in 1..m /\ (i # m => i + 1 \in 1..m) /\ s[i] \in Objects /\ t[i] = s[i]
    BY <1>1, <1>2, <1>4
  <2>2. step[s[i]] = IF i = m THEN None ELSE s[i + 1]
    BY <2>1, NextIs
  <2> QED BY <1>2, <2>1, <2>2
<1>8. Forward(e) = Visited(First(e), step)
  BY DEF Forward
<1> HIDE DEF step
<1>9. Visited(First(e), step) = t
  BY <1>2, <1>3, <1>5, <1>6, <1>7, VisitedIs
<1> QED BY <1>8, <1>9 DEF t

\* Previous leads from Last through the list backwards.
LEMMA BackwardIs ==
  ASSUME NEW L, RingsOf(ring, L), NEW e \in Elements,
         SeenOf(ring, L[e], Len(L[e])), Len(L[e]) = 0 \/ ~ IsSentinel(ring, L[e][1])
  PROVE  Backward(e) = Reverse(L[e])
<1> DEFINE s == L[e]
           n == Len(s)
           t == Reverse(s)
           step == [a \in Objects |-> PreviousAttribute(ring, a)]
<1>1. s \in Seq(Attrs) /\ n \in Nat /\ Once(s)
      /\ \A i \in 1..n : s[i] \in Objects /\ s[i] \in Attrs
  BY ListFacts
<1>2. t = [i \in 1..n |-> s[(n - i) + 1]]
  BY DEF Reverse
<1>3. \A i \in 1..n : (n - i) + 1 \in 1..n
  BY <1>1
<1> HIDE DEF t
<1>4. t \in [1..n -> Attrs]
  BY <1>1, <1>2, <1>3
<1>5. t \in Seq(Attrs)
  BY <1>1, <1>4, SeqDef
<1>6. Len(t) = n
  BY <1>1, <1>4, <1>5, LenProperties
<1>7. Once(t)
  <2> SUFFICES ASSUME NEW i \in 1..n, NEW j \in 1..n, t[i] = t[j] PROVE i = j
    BY <1>6 DEF Once
  <2>1. t[i] = s[(n - i) + 1] /\ t[j] = s[(n - j) + 1]
    BY <1>2
  <2>2. (n - i) + 1 = (n - j) + 1
    BY <1>1, <1>3, <2>1 DEF Once
  <2> QED BY <1>1, <2>2
<1>8. step \in [Objects -> AttrLinks]
  <2>1. \A a \in Objects : Record(ring[a])
    BY ObjectsAre DEF RingsOf
  <2>2. \A a \in Objects : PreviousAttribute(ring, a) \in AttrLinks
    BY <2>1 DEF Record, PreviousAttribute, AttrLinks
  <2> QED BY <2>2
<1>9. LastAttribute(e) = IF Len(t) = 0 THEN None ELSE t[1]
  <2>1. LastAttribute(e) = IF n = 0 THEN None ELSE s[n]
    BY PreviousIs DEF LastAttribute
  <2>2. n # 0 => 1 \in 1..n /\ (n - 1) + 1 = n
    BY <1>1
  <2>3. n # 0 => t[1] = s[n]
    BY <1>2, <2>2
  <2> QED BY <1>6, <2>1, <2>3
<1>10. ASSUME NEW i \in 1..Len(t) PROVE step[t[i]] = IF i = Len(t) THEN None ELSE t[i + 1]
  <2> DEFINE j == (n - i) + 1
  <2>1. /\ i \in 1..n /\ j \in 1..n /\ (j = 1 <=> i = n)
        /\ (i # n => i + 1 \in 1..n /\ (n - (i + 1)) + 1 = j - 1)
    BY <1>1, <1>6
  <2>2. t[i] = s[j] /\ s[j] \in Objects /\ (i # n => t[i + 1] = s[j - 1])
    BY <1>1, <1>2, <2>1
  <2> HIDE DEF j
  <2>3. step[s[j]] = IF j = 1 THEN None ELSE s[j - 1]
    BY <2>1, <2>2, PreviousIs
  <2> QED BY <1>6, <2>1, <2>2, <2>3
<1>11. Backward(e) = Visited(LastAttribute(e), step)
  BY DEF Backward
<1> HIDE DEF step
<1>12. Visited(LastAttribute(e), step) = t
  BY <1>5, <1>7, <1>8, <1>9, <1>10, VisitedIs
<1> QED BY <1>11, <1>12 DEF t

LEMMA FrontLonger ==
  ASSUME NEW T, NEW s, s \in Seq(T), NEW k \in Nat, k + 1 \in 1..Len(s)
  PROVE  SubSeq(s, 1, k + 1) = Append(SubSeq(s, 1, k), s[k + 1])
<1> DEFINE t == SubSeq(s, 1, k)
           u == SubSeq(s, 1, k + 1)
           v == Append(t, s[k + 1])
<1>1. Len(s) \in Nat /\ k \in 0..Len(s) /\ k + 1 \in 0..Len(s) /\ s[k + 1] \in T
  BY LenProperties, ElementOfSeq
<1>2. t \in Seq(T) /\ Len(t) = k /\ \A i \in 1..k : t[i] = s[i]
  BY <1>1, FrontIs
<1>3. u \in Seq(T) /\ Len(u) = k + 1 /\ \A i \in 1..(k + 1) : u[i] = s[i]
  BY <1>1, FrontIs
<1> HIDE DEF t, u
<1>4. v \in Seq(T) /\ Len(v) = k + 1 /\ v[k + 1] = s[k + 1] /\ \A i \in 1..k : v[i] = t[i]
  BY <1>1, <1>2, AppendProperties
<1> HIDE DEF v
<1>5. \A i \in 1..(k + 1) : i \in 1..k \/ i = k + 1
  BY <1>1
<1>6. \A i \in 1..Len(u) : u[i] = v[i]
  BY <1>2, <1>3, <1>4, <1>5
<1>7. u = v
  BY <1>3, <1>4, <1>6, SeqEqual
<1> QED BY <1>7 DEF u, v, t

\* A loop over what is kept is the same.
LEMMA SeenKept ==
  ASSUME NEW r, NEW L, RingsOf(r, L), NEW q, NEW M, NEW e \in Elements,
         Kept(q, M, r, L, e), NEW x \in Elements, x # e, NEW m, SeenOf(r, L[x], m)
  PROVE  M[x] = L[x] /\ SeenOf(q, M[x], m)
<1> DEFINE s == L[x]
<1>1. M[x] = s /\ \A i \in 1..Len(s) : q[s[i]].name = r[s[i]].name /\ q[s[i]].value = r[s[i]].value
  BY DEF Kept, SamePair
<1>2. Len(s) \in Nat /\ m \in 0..Len(s)
  BY ListFacts DEF SeenOf
<1>3. \A i \in 2..m : i \in 1..Len(s)
  BY <1>2
<1>4. m # Len(s) => m + 1 \in 1..Len(s)
  BY <1>2
<1> HIDE DEF s
<1>5. \A i \in 1..Len(s) : IsSentinel(q, s[i]) <=> IsSentinel(r, s[i])
  BY <1>1 DEF IsSentinel
<1>6. SeenOf(r, s, m)
  BY DEF s
<1>7. SeenOf(q, s, m)
  BY <1>3, <1>4, <1>5, <1>6 DEF SeenOf
<1> QED BY <1>1, <1>7 DEF s

\* What CopyTo starts from: e is empty, and x has the list whose first m attributes are copied.
CopyFrom(r, L, e, x, m, fresh) ==
  /\ RingsOf(r, L) /\ e \in Elements /\ x \in Elements /\ e # x /\ L[e] = <<>>
  /\ SeenOf(r, L[x], m)
  /\ DOMAIN fresh = ToSet(SubSeq(L[x], 1, m))
  /\ \A b, c \in DOMAIN fresh : fresh[b] = fresh[c] => b = c
  /\ \A b \in DOMAIN fresh : fresh[b] \in Attrs /\ r[fresh[b]] = FreeAttribute

LEMMA FreshFor ==
  ASSUME NEW r, NEW L, NEW e, NEW x, NEW m, NEW fresh,
         CopyFrom(r, L, e, x, m, fresh)
  PROVE  \A b : b \in DOMAIN fresh <=> \E i \in 1..m : b = L[x][i]
<1> DEFINE t == SubSeq(L[x], 1, m)
<1>1. L[x] \in Seq(Attrs) /\ m \in 0..Len(L[x])
  BY ListFacts DEF CopyFrom, SeenOf
<1>2. t \in Seq(Attrs) /\ Len(t) = m /\ \A i \in 1..m : t[i] = L[x][i]
  BY <1>1, FrontIs
<1>3. DOMAIN fresh = ToSet(t)
  BY DEF CopyFrom
<1> HIDE DEF t
<1>4. DOMAIN t = 1..m
  BY <1>2, LenProperties
<1>5. \A b : b \in ToSet(t) <=> \E i \in 1..m : b = L[x][i]
  BY <1>2, <1>4 DEF ToSet
<1> QED BY <1>3, <1>5

\* The state of the loop of CopyTo after k attributes.
Copying(c, k, r, L, e, x, m, fresh) ==
  \E M : /\ RingsOf(c[1], M) /\ Kept(c[1], M, r, L, e)
         /\ Len(M[e]) = k /\ \A i \in 1..k : M[e][i] = fresh[L[x][i]]
         /\ Pairs(c[1], M[e]) = SubSeq(Pairs(r, L[x]), 1, k)
         /\ c = <<c[1], IF k = m THEN None ELSE L[x][k + 1]>>

CopyStep(c, e, fresh) ==
  IF c[2] \notin DOMAIN fresh THEN c
  ELSE LET stored == Stored(c[1], e, fresh[c[2]], c[1][c[2]].name, c[1][c[2]].value)
       IN  <<stored, NextAttribute(stored, c[2])>>

LEMMA CopyStepIs ==
  ASSUME NEW r, NEW L, NEW e, NEW x, NEW m, NEW fresh,
         CopyFrom(r, L, e, x, m, fresh), NEW k \in 0..m, NEW c, Copying(c, k, r, L, e, x, m, fresh)
  PROVE  Copying(CopyStep(c, e, fresh), IF k = m THEN k ELSE k + 1, r, L, e, x, m, fresh)
<1> DEFINE s == L[x]
           P == Pairs(r, s)
           q == c[1]
<1>1. RingsOf(r, L) /\ e \in Elements /\ x \in Elements /\ e # x /\ SeenOf(r, s, m)
  BY DEF CopyFrom
<1>2. /\ s \in Seq(Attrs) /\ Len(s) \in Nat /\ m \in 0..Len(s) /\ Once(s)
      /\ \A i \in 1..Len(s) : s[i] \in Attrs /\ s[i] \in Objects /\ s[i] # None
  BY <1>1, ListFacts DEF SeenOf
<1>3. \A b : b \in DOMAIN fresh <=> \E i \in 1..m : b = s[i]
  BY FreshFor
<1>4. PICK M : /\ RingsOf(q, M) /\ Kept(q, M, r, L, e)
               /\ Len(M[e]) = k /\ \A i \in 1..k : M[e][i] = fresh[s[i]]
               /\ Pairs(q, M[e]) = SubSeq(P, 1, k)
               /\ c = <<q, IF k = m THEN None ELSE s[k + 1]>>
  BY DEF Copying
<1>5. CASE k = m
  <2>1. c[2] = None
    BY <1>4, <1>5
  <2>2. \A i \in 1..m : i \in 1..Len(s)
    BY <1>2
  <2>3. c[2] \notin DOMAIN fresh
    BY <1>2, <1>3, <2>1, <2>2
  <2>4. CopyStep(c, e, fresh) = c
    BY <2>3 DEF CopyStep
  <2> QED BY <1>5, <2>4
<1>6. CASE k # m
  <2> DEFINE b == s[k + 1]
             a == fresh[b]
             name == q[b].name
             value == q[b].value
             p == Stored(q, e, a, name, value)
             t == M[e]
             K == [M EXCEPT ![e] = Append(t, a)]
  <2>1. /\ k \in Nat /\ k + 1 \in 1..m /\ k + 1 \in 1..Len(s) /\ k \in 0..Len(s)
        /\ \A i \in 1..k : i \in 1..m /\ i \in 1..Len(s) /\ i # k + 1
    BY <1>2, <1>6
  <2>2. c[2] = b /\ b \in DOMAIN fresh /\ b \in Attrs /\ b \in Objects
    BY <1>2, <1>3, <1>4, <1>6, <2>1
  <2>3. a \in Attrs /\ r[a] = FreeAttribute
    BY <2>2 DEF CopyFrom
  <2>4. /\ P \in Seq(Names \X AttrValues) /\ Len(P) = Len(s)
        /\ \A i \in 1..Len(s) : /\ P[i] = <<r[s[i]].name, r[s[i]].value>>
                                /\ P[i][1] = r[s[i]].name
    BY <1>1, PairsAre
  <2>5. M[x] = s /\ \A i \in 1..Len(s) : SamePair(q, r, s[i])
    BY <1>1, <1>4 DEF Kept
  <2>6. name = r[b].name /\ value = r[b].value /\ name \in Names /\ value \in AttrValues
    <3>1. name = r[b].name /\ value = r[b].value
      BY <2>1, <2>5 DEF SamePair
    <3>2. Record(q[b])
      BY <1>4, <2>2, ObjectsAre DEF RingsOf
    <3> QED BY <3>1, <3>2 DEF Record
  <2>7. t \in Seq(Attrs) /\ Len(t) = k /\ \A i \in 1..k : t[i] = fresh[s[i]]
    BY <1>1, <1>4, ListFacts
  <2>8. Find(q, e, name) = None
    <3>1. FoundIn(q, t, name, Find(q, e, name))
      BY <1>1, <1>4, FindIs
    <3>2. ASSUME NEW i \in 1..Len(t) PROVE q[t[i]].name # name
      <4>1. i \in 1..k /\ i \in 1..Len(s) /\ i # k + 1
        BY <2>1, <2>7
      <4>2. Pairs(q, t)[i][1] = q[t[i]].name
        BY <1>1, <1>4, PairsAre
      <4>3. SubSeq(P, 1, k)[i] = P[i]
        BY <2>1, <2>4, <4>1, FrontIs
      <4>4. q[t[i]].name = r[s[i]].name
        BY <1>4, <2>4, <4>1, <4>2, <4>3
      <4>5. r[s[i]].name # r[s[k + 1]].name
        BY <1>1, <2>1, <4>1 DEF RingsOf, NamesApart
      <4> QED BY <2>6, <4>4, <4>5
    <3> QED BY <3>1, <3>2 DEF FoundIn
  <2>9. q[a] = FreeAttribute
    <3>1. q[a] = FreeAttribute \/ ListHas(t, a)
      BY <1>1, <1>4, <2>3, StillFree
    <3>2. ASSUME NEW i \in 1..Len(t) PROVE t[i] # a
      <4>1. i \in 1..k /\ i \in 1..m /\ i \in 1..Len(s) /\ i # k + 1
        BY <2>1, <2>7
      <4>2. s[i] \in DOMAIN fresh /\ s[i] # b
        BY <1>2, <1>3, <2>1, <4>1 DEF Once
      <4>3. fresh[s[i]] # fresh[b]
        BY <2>2, <4>2 DEF CopyFrom
      <4> QED BY <2>7, <4>1, <4>3
    <3> QED BY <3>1, <3>2 DEF ListHas
  <2>10. /\ RingsOf(p, K) /\ Kept(p, K, q, M, e) /\ K[e] = Append(t, a)
         /\ Pairs(p, K[e]) = Append(Pairs(q, t), <<name, value>>)
    <3> HIDE DEF a, name, value
    <3>1. StoredTo(p, K, q, M, e, a, name, value)
      BY <1>1, <1>4, <2>3, <2>6, <2>8, <2>9, StoredNew
    <3> HIDE DEF p, K
    <3> QED BY <3>1 DEF StoredTo
  <2>11. CopyStep(c, e, fresh) = <<p, NextAttribute(p, b)>>
    BY <2>2 DEF CopyStep
  <2> HIDE DEF p, K
  <2>12. Kept(p, K, r, L, e)
    BY <1>4, <2>10, KeptTwice
  <2>13. NextAttribute(p, b) = IF k + 1 = m THEN None ELSE s[(k + 1) + 1]
    <3>1. K[x] = s /\ SeenOf(p, K[x], m)
      BY <1>1, <2>12, SeenKept
    <3> QED BY <1>1, <2>1, <2>10, <3>1, NextIs
  <2>14. Len(K[e]) = k + 1 /\ \A i \in 1..(k + 1) : K[e][i] = fresh[s[i]]
    <3>1. /\ Len(K[e]) = k + 1 /\ K[e][k + 1] = a
          /\ \A i \in 1..k : K[e][i] = t[i]
      <4> HIDE DEF a, t
      <4> QED BY <2>3, <2>7, <2>10, AppendProperties
    <3>2. \A i \in 1..(k + 1) : i \in 1..k \/ i = k + 1
      BY <2>1
    <3> QED BY <2>7, <3>1, <3>2
  <2>15. Pairs(p, K[e]) = SubSeq(P, 1, k + 1)
    <3>1. <<name, value>> = P[k + 1]
      BY <2>1, <2>4, <2>6
    <3>2. SubSeq(P, 1, k + 1) = Append(SubSeq(P, 1, k), P[k + 1])
      <4> HIDE DEF P
      <4> QED BY <2>1, <2>4, FrontLonger
    <3> QED BY <1>4, <2>10, <3>1, <3>2
  <2> DEFINE d == <<p, NextAttribute(p, b)>>
  <2>16. d[1] = p /\ d = <<d[1], IF k + 1 = m THEN None ELSE s[(k + 1) + 1]>>
    BY <2>13
  <2> HIDE DEF d
  <2>17. Copying(d, k + 1, r, L, e, x, m, fresh)
    BY <2>10, <2>12, <2>14, <2>15, <2>16 DEF Copying
  <2>18. CopyStep(c, e, fresh) = d
    BY <2>11 DEF d
  <2> QED BY <1>6, <2>17, <2>18
<1> QED BY <1>5, <1>6

LEMMA CopiedRings ==
  ASSUME NEW r, NEW L, NEW e, NEW x, NEW m, NEW fresh,
         CopyFrom(r, L, e, x, m, fresh), NEW a,
         a = IF Len(L[x]) = 0 THEN None ELSE L[x][1]
  PROVE  LET q == Copied(r, e, a, fresh)
         IN  \E M : /\ RingsOf(q, M) /\ Kept(q, M, r, L, e)
                    /\ Pairs(q, M[e]) = SubSeq(Pairs(r, L[x]), 1, m)
<1> DEFINE N == Cardinality(Attrs)
           D == Rings \X AttrLinks
           next == [c \in D |->
             IF c[2] \notin DOMAIN fresh THEN c
             ELSE LET stored == Stored(c[1], e, fresh[c[2]], c[1][c[2]].name, c[1][c[2]].value)
                  IN  <<stored, NextAttribute(stored, c[2])>>]
           start == <<r, a>>
           w == CHOOSE f : Recursive(f, next, start)
           Good(c, k) == Copying(c, k, r, L, e, x, m, fresh)
           G == {c \in D : \E k \in 0..m : Good(c, k)}
           s == L[x]
<1>1. Copied(r, e, a, fresh) = w[N][1]
  BY DEF Copied, Recursive
<1>2. ASSUME NEW c \in D PROVE next[c] = CopyStep(c, e, fresh)
  BY DEF CopyStep
<1>3. w = CHOOSE f : Recursive(f, next, start)
  OBVIOUS
<1> HIDE DEF next, w
<1>4. /\ Len(s) \in Nat /\ N \in Nat /\ Len(s) <= N /\ m \in 0..Len(s) /\ (Len(s) # 0 => m # 0)
      /\ \A i \in 1..Len(s) : s[i] \in AttrLinks
  <2>1. s \in Seq(Attrs) /\ Once(s) /\ Len(s) \in Nat /\ m \in 0..Len(s) /\ (Len(s) # 0 => m # 0)
        /\ \A i \in 1..Len(s) : s[i] \in AttrLinks
    BY ListFacts DEF CopyFrom, SeenOf, AttrLinks
  <2> QED BY <2>1, OnceShort
<1>5. ASSUME NEW c, NEW k \in 0..m, Good(c, k) PROVE c \in D
  <2>1. PICK M : RingsOf(c[1], M) /\ c = <<c[1], IF k = m THEN None ELSE s[k + 1]>>
    BY <1>5 DEF Copying
  <2>2. k # m => k + 1 \in 1..Len(s)
    BY <1>4
  <2>3. (IF k = m THEN None ELSE s[k + 1]) \in AttrLinks
    BY <1>4, <2>2 DEF AttrLinks
  <2>4. c[1] \in Rings
    BY <2>1 DEF RingsOf
  <2> QED BY <2>1, <2>3, <2>4
<1>6. ASSUME NEW c, NEW k \in 0..m, Good(c, k)
      PROVE  next[c] = CopyStep(c, e, fresh) /\ Good(next[c], IF k = m THEN k ELSE k + 1)
  <2>1. c \in D
    BY <1>5, <1>6
  <2>2. next[c] = CopyStep(c, e, fresh)
    BY <1>2, <2>1
  <2> QED BY <1>6, <2>2, CopyStepIs
<1>7. Good(start, 0)
  <2>1. /\ RingsOf(r, L) /\ L[e] = <<>> /\ e \in Elements /\ x \in Elements
    BY DEF CopyFrom
  <2>2. Kept(r, L, r, L, e)
    BY KeptItself
  <2>3. Len(L[e]) = 0 /\ \A i \in 1..0 : L[e][i] = fresh[L[x][i]]
    BY <2>1
  <2>4. Pairs(r, L[e]) = SubSeq(Pairs(r, L[x]), 1, 0)
    <3>1. SubSeq(Pairs(r, L[x]), 1, 0) = <<>>
      BY SubSeqEmpty
    <3>2. /\ Pairs(r, L[e]) \in Seq(Names \X AttrValues)
          /\ Len(Pairs(r, L[e])) = 0
      BY <2>1, <2>3, PairsAre
    <3>3. Pairs(r, L[e]) = <<>>
      BY <3>2, EmptySeq
    <3> QED BY <3>1, <3>3
  <2>5. a = IF 0 = m THEN None ELSE s[0 + 1]
    <3>1. 0 + 1 = 1 /\ (0 = m <=> Len(s) = 0)
      BY <1>4
    <3> QED BY <3>1
  <2> DEFINE c == <<r, a>>
  <2>6. c[1] = r /\ c = <<c[1], IF 0 = m THEN None ELSE L[x][0 + 1]>>
    BY <2>5
  <2> HIDE DEF c
  <2>7. Copying(c, 0, r, L, e, x, m, fresh)
    BY <2>1, <2>2, <2>3, <2>4, <2>6 DEF Copying
  <2> QED BY <2>7 DEF c
<1>8. 0 \in 0..m /\ \A k \in 0..m : (IF k = m THEN k ELSE k + 1) \in 0..m
  BY <1>4
<1>9. start \in G
  BY <1>5, <1>7, <1>8
<1>10. \A c \in G : next[c] \in G
  <2> SUFFICES ASSUME NEW c \in G PROVE next[c] \in G
    OBVIOUS
  <2>1. PICK k \in 0..m : Good(c, k)
    OBVIOUS
  <2> DEFINE l == IF k = m THEN k ELSE k + 1
  <2>2. Good(next[c], l) /\ l \in 0..m
    BY <1>6, <1>8, <2>1
  <2> HIDE DEF l
  <2>3. next[c] \in D
    BY <1>5, <2>2
  <2> QED BY <2>2, <2>3
<1> HIDE DEF G, start
<1>11. w \in [Nat -> G] /\ w[0] = start /\ \A k \in Nat : w[k + 1] = next[w[k]]
  <2>1. \E f : Recursive(f, next, start)
    BY <1>9, <1>10, RecursiveStays
  <2>2. Recursive(w, next, start)
    BY <1>3, <2>1
  <2>3. StepsWithin(w, next, G, start)
    BY <1>9, <1>10, <2>2, RecursiveWithin
  <2> QED BY <2>3 DEF StepsWithin
<1> DEFINE count(k) == IF k < m THEN k ELSE m
           H == {k \in Nat : Good(w[k], count(k))}
<1>12. 0 \in H
  <2>1. count(0) = 0
    BY <1>4
  <2> QED BY <1>7, <1>11, <2>1
<1>13. ASSUME NEW k \in Nat, k \in H PROVE k + 1 \in H
  <2>1. count(k) \in 0..m /\ count(k + 1) = IF count(k) = m THEN count(k) ELSE count(k) + 1
    BY <1>4
  <2>2. Good(w[k], count(k)) /\ w[k + 1] = next[w[k]]
    BY <1>11, <1>13
  <2> HIDE DEF Good, count
  <2>3. Good(w[k + 1], count(k + 1))
    BY <1>6, <2>1, <2>2
  <2> QED BY <2>3
<1> HIDE DEF H
<1>14. Nat \subseteq H
  BY <1>12, <1>13, SetInduction
<1>15. Good(w[N], m)
  <2>1. count(N) = m
    BY <1>4
  <2>2. Good(w[N], count(N))
    <3> HIDE DEF Good, count
    <3> QED BY <1>4, <1>14 DEF H
  <2> QED BY <2>1, <2>2
<1>16. \E M : /\ RingsOf(w[N][1], M) /\ Kept(w[N][1], M, r, L, e)
              /\ Pairs(w[N][1], M[e]) = SubSeq(Pairs(r, L[x]), 1, m)
  BY <1>15 DEF Copying
<1> QED BY <1>1, <1>16

LEMMA AsManyNames ==
  ASSUME NEW T, NEW list, list \in Seq(T),
         \A i, j \in 1..Len(list) : list[i][1] = list[j][1] => i = j
  PROVE  Cardinality({list[i][1] : i \in DOMAIN list}) = Len(list)
<1> DEFINE n == Len(list)
           S == {list[i][1] : i \in DOMAIN list}
           f == [i \in 1..n |-> list[i][1]]
<1>1. n \in Nat /\ DOMAIN list = 1..n
  BY LenProperties
<1>2. f \in [1..n -> S] /\ (\A t \in S : \E i \in 1..n : f[i] = t)
  BY <1>1
<1>3. IsInjective(f)
  BY DEF IsInjective
<1> HIDE DEF f, S
<1>4. f \in Bijection(1..n, S)
  BY <1>2, <1>3 DEF Bijection, Injection, Surjection
<1>5. ExistsBijection(1..n, S)
  BY <1>4 DEF ExistsBijection
<1>6. IsFiniteSet(1..n) /\ Cardinality(1..n) = n
  <2>1. 1 \in Int /\ n \in Int /\ (IF 1 > n THEN 0 ELSE n - 1 + 1) = n
    BY <1>1
  <2> QED BY <2>1, FS_Interval
<1>7. Cardinality(S) = Cardinality(1..n)
  BY <1>5, <1>6, FS_Bijection
<1> QED BY <1>6, <1>7 DEF S

\* The pairs that the loop of Find visits.
ListedOf(r, e) ==
  [i \in DOMAIN Linked(r, e) |->
     <<r[Linked(r, e)[i]].name, r[Linked(r, e)[i]].value>>]

LEMMA ListedIs ==
  ASSUME NEW r, NEW L, RingsOf(r, L), NEW e \in Elements
  PROVE  ListedOf(r, e) = Pairs(r, L[e])
<1>1. Linked(r, e) = L[e]
  BY LinkedIs
<1>2. DOMAIN L[e] = 1..Len(L[e])
  BY ListFacts, LenProperties
<1> QED BY <1>1, <1>2 DEF ListedOf, Pairs

LEMMA ListedNow == ASSUME NEW e PROVE Listed(e) = ListedOf(ring, e)
BY DEF Listed, Pair, ListedOf

\* An object is in use if it is in a list, and free if it is not.
LEMMA LiveListed ==
  ASSUME NEW L, RingsOf(ring, L), NEW a \in Attrs
  PROVE  /\ a \in LiveAttributes <=> \E d \in Elements : ListHas(L[d], a)
         /\ a \notin LiveAttributes => ring[a] = FreeAttribute
<1>1. ring[a] = FreeAttribute => a \notin LiveAttributes
  BY DEF FreeAttribute, LiveAttributes
<1>2. ASSUME NEW d \in Elements, ListHas(L[d], a) PROVE a \in LiveAttributes
  <2>1. PICK i \in 1..Len(L[d]) : L[d][i] = a
    BY <1>2 DEF ListHas
  <2>2. Len(L[d]) \in Nat /\ i \in 0..Len(L[d]) /\ Place(d, L[d], i) = a
    BY <2>1, ListFacts DEF Place
  <2>3. ring[a].next = Place(d, L[d], i + 1)
    BY <2>2 DEF RingsOf, Round
  <2>4. ring[a].next \in Objects
    BY <2>3, PlaceTyped
  <2> QED BY <2>4, ObjectsAre DEF LiveAttributes
<1>3. ring[a] = FreeAttribute \/ \E d \in Elements : ListHas(L[d], a)
  BY DEF RingsOf
<1> QED BY <1>1, <1>2, <1>3

LEMMA RingConsistentHolds ==
  ASSUME NEW L, RingsOf(ring, L) PROVE RingConsistent
<1>1. ASSUME NEW e \in Elements, NEW i \in 0..Len(L[e])
      PROVE  /\ ring[ring[Place(e, L[e], i)].next].prev = Place(e, L[e], i)
             /\ ring[ring[Place(e, L[e], i + 1)].prev].next = Place(e, L[e], i + 1)
  BY DEF RingsOf, Round
<1>2. ASSUME NEW e \in Elements
      PROVE  ring[ring[e].next].prev = e /\ ring[ring[e].prev].next = e
  <2>1. /\ 0 \in 0..Len(L[e]) /\ Len(L[e]) \in 0..Len(L[e])
        /\ Place(e, L[e], 0) = e /\ Place(e, L[e], Len(L[e]) + 1) = e
    BY ListFacts DEF Place
  <2> QED BY <1>1, <2>1
<1>3. ASSUME NEW a \in LiveAttributes
      PROVE  /\ ring[ring[a].next].prev = a /\ ring[ring[a].prev].next = a
             /\ Cardinality({e \in Elements : a \in ToSet(Linked(ring, e))}) = 1
  <2>1. a \in Attrs
    BY DEF LiveAttributes
  <2>2. PICK d \in Elements : ListHas(L[d], a)
    BY <2>1, LiveListed
  <2>3. PICK i \in 1..Len(L[d]) : L[d][i] = a
    BY <2>2 DEF ListHas
  <2>4. /\ i \in 0..Len(L[d]) /\ i - 1 \in 0..Len(L[d]) /\ (i - 1) + 1 = i
        /\ Place(d, L[d], i) = a
    BY <2>3, ListFacts DEF Place
  <2>5. ring[ring[a].next].prev = a
    BY <1>1, <2>4
  <2>6. ring[ring[a].prev].next = a
    BY <1>1, <2>4
  <2>7. \A e \in Elements : Linked(ring, e) = L[e] /\ DOMAIN L[e] = 1..Len(L[e])
    BY LinkedIs, ListFacts, LenProperties
  <2>8. \A e \in Elements : a \in ToSet(Linked(ring, e)) <=> ListHas(L[e], a)
    BY <2>7 DEF ToSet, ListHas
  <2>9. \A e \in Elements : ListHas(L[e], a) <=> e = d
    BY <2>2 DEF RingsOf, InOneList, ListHas
  <2> DEFINE S == {e \in Elements : a \in ToSet(Linked(ring, e))}
  <2>10. S = {d}
    BY <2>8, <2>9
  <2> HIDE DEF S
  <2>11. Cardinality(S) = 1
    BY <2>10, FS_Singleton
  <2> QED BY <2>5, <2>6, <2>11 DEF S
<1> QED BY <1>2, <1>3 DEF RingConsistent

LEMMA UniqueNamesHold ==
  ASSUME NEW L, RingsOf(ring, L) PROVE UniqueNames
<1> SUFFICES ASSUME NEW e \in Elements
             PROVE  Cardinality(NamesOf(Listed(e))) = Len(Listed(e))
  BY DEF UniqueNames
<1> DEFINE P == Pairs(ring, L[e])
<1>1. Listed(e) = P
  BY ListedNow, ListedIs
<1>2. /\ P \in Seq(Names \X AttrValues) /\ Len(P) = Len(L[e])
      /\ \A i \in 1..Len(L[e]) : P[i][1] = ring[L[e][i]].name
  BY PairsAre
<1>3. \A i, j \in 1..Len(P) : P[i][1] = P[j][1] => i = j
  BY <1>2 DEF RingsOf, NamesApart
<1> HIDE DEF P
<1>4. Cardinality({P[i][1] : i \in DOMAIN P}) = Len(P)
  BY <1>2, <1>3, AsManyNames
<1>5. Cardinality(NamesOf(P)) = Cardinality({P[i][1] : i \in DOMAIN P})
  BY DEF NamesOf
<1> QED BY <1>1, <1>4, <1>5

LEMMA IterationHolds ==
  ASSUME NEW L, RingsOf(ring, L) PROVE Iteration
<1> SUFFICES ASSUME NEW e \in Elements, Unnamed \notin ToSet(Listed(e))
             PROVE  /\ Forward(e) = Linked(ring, e)
                    /\ Backward(e) = Reverse(Linked(ring, e))
  BY DEF Iteration
<1> DEFINE s == L[e]
<1>1. Linked(ring, e) = s /\ s \in Seq(Attrs) /\ Len(s) \in Nat
  BY LinkedIs, ListFacts
<1>2. Listed(e) = Pairs(ring, s)
  BY ListedNow, ListedIs
<1>3. /\ DOMAIN Pairs(ring, s) = 1..Len(s)
      /\ \A i \in 1..Len(s) : Pairs(ring, s)[i] = <<ring[s[i]].name, ring[s[i]].value>>
  BY PairsAre
<1>4. \A i \in 1..Len(s) : ~ IsSentinel(ring, s[i])
  BY <1>2, <1>3 DEF ToSet, Unnamed, IsSentinel
<1>5. SeenOf(ring, s, Len(s))
  <2>1. \A i \in 2..Len(s) : i \in 1..Len(s)
    BY <1>1
  <2>2. Len(s) \in 0..Len(s)
    BY <1>1
  <2> QED BY <1>4, <2>1, <2>2 DEF SeenOf
<1>6. Len(s) = 0 \/ ~ IsSentinel(ring, s[1])
  <2>1. Len(s) = 0 \/ 1 \in 1..Len(s)
    BY <1>1
  <2> QED BY <1>4, <2>1
<1>7. Forward(e) = SubSeq(s, 1, Len(s))
  BY <1>5, ForwardIs
<1>8. SubSeq(s, 1, Len(s)) = s
  BY <1>1, SubSeqFull
<1>9. Backward(e) = Reverse(s)
  BY <1>5, <1>6, BackwardIs
<1> QED BY <1>1, <1>7, <1>8, <1>9

LEMMA ArgumentsKept ==
  ASSUME NEW value, NEW before, before \in {<<"default">>, <<"0">>}
  PROVE  /\ QueryNumber(value, before)[1] # "TIXML_SUCCESS"
              => QueryNumber(value, before)[2] = before
         /\ QueryNumber(value, before)[2] = <<"default">>
              => QueryNumber(value, before)[1] # "TIXML_SUCCESS" /\ before = <<"default">>
         /\ QueryNumber(value, before)[1] # "TIXML_NO_ATTRIBUTE"
<1>1. CASE StartsAsNumber(value)
  <2>1. QueryNumber(value, before) = <<"TIXML_SUCCESS", value>>
    BY <1>1 DEF QueryNumber, Success
  <2>2. value # <<"default">>
    BY <1>1 DEF StartsAsNumber
  <2> QED BY <2>1, <2>2
<1>2. CASE ~ StartsAsNumber(value)
  <2>1. QueryNumber(value, before) = <<"TIXML_WRONG_TYPE", before>>
    BY <1>2 DEF QueryNumber, WrongType
  <2> QED BY <2>1
<1> QED BY <1>1, <1>2

LEMMA QueryKeepsValueHolds ==
  ASSUME NEW L, RingsOf(ring, L) PROVE QueryKeepsValue
<1> SUFFICES ASSUME NEW e \in Elements, NEW name \in Names
             PROVE  /\ LET r == QueryNumberAttribute(e, name, <<"default">>)
                       IN  r[1] # "TIXML_SUCCESS" <=> r[2] = <<"default">>
                    /\ LET r == QueryBoolAttribute(e, name, <<"default">>)
                       IN  r[1] # "TIXML_SUCCESS" <=> r[2] = <<"default">>
                    /\ LET r == QueryUnsignedAttribute(e, name, <<"default">>)
                       IN  r[1] = "TIXML_NO_ATTRIBUTE" <=> r[2] = <<"default">>
                    /\ LET r == Attribute(e, name, <<"default">>)
                       IN  r[1] = None => r[2] = <<"default">>
  BY DEF QueryKeepsValue
<1> DEFINE found == Find(ring, e, name)
           value == ring[found].value
           old == <<"default">>
<1>1. CASE found = None
  <2>1. /\ QueryNumberAttribute(e, name, old) = <<"TIXML_NO_ATTRIBUTE", old>>
        /\ QueryBoolAttribute(e, name, old) = <<"TIXML_NO_ATTRIBUTE", old>>
        /\ QueryUnsignedAttribute(e, name, old) = <<"TIXML_NO_ATTRIBUTE", old>>
        /\ Attribute(e, name, old) = <<None, old>>
    BY <1>1 DEF QueryNumberAttribute, QueryBoolAttribute, QueryUnsignedAttribute,
                Attribute, NoAttribute
  <2> QED BY <2>1
<1>2. CASE found # None
  <2>1. QueryNumberAttribute(e, name, old) = QueryNumber(value, old)
    BY <1>2 DEF QueryNumberAttribute
  <2>2. QueryUnsignedAttribute(e, name, old) = QueryNumber(value, <<"0">>)
    BY <1>2 DEF QueryUnsignedAttribute
  <2>3. QueryBoolAttribute(e, name, old)
          \in {<<"TIXML_SUCCESS", <<"true">>>>, <<"TIXML_SUCCESS", <<"false">>>>,
               <<"TIXML_WRONG_TYPE", old>>}
    BY <1>2 DEF QueryBoolAttribute, Success, WrongType
  <2>4. Attribute(e, name, old) = <<value, QueryNumber(value, old)[2]>>
    BY <1>2, <2>1 DEF Attribute
  <2>5. value # None
    <3>1. FoundIn(ring, L[e], name, found)
      BY FindIs
    <3>2. found \in Objects
      BY <1>2, <3>1, ListFacts DEF FoundIn
    <3>3. Record(ring[found])
      BY <3>2, ObjectsAre DEF RingsOf
    <3> QED BY <3>3, AttributesAssumption DEF Record
  <2> HIDE DEF value
  <2>6. LET r == QueryNumberAttribute(e, name, old)
        IN  r[1] # "TIXML_SUCCESS" <=> r[2] = old
    BY <2>1, ArgumentsKept
  <2>7. LET r == QueryBoolAttribute(e, name, old)
        IN  r[1] # "TIXML_SUCCESS" <=> r[2] = old
    BY <2>3
  <2>8. LET r == QueryUnsignedAttribute(e, name, old)
        IN  r[1] = "TIXML_NO_ATTRIBUTE" <=> r[2] = old
    <3>1. <<"0">> # <<"default">>
      OBVIOUS
    <3> QED BY <2>2, <3>1, ArgumentsKept
  <2>9. LET r == Attribute(e, name, old) IN r[1] = None => r[2] = old
    BY <2>4, <2>5
  <2> QED BY <2>6, <2>7, <2>8, <2>9
<1> QED BY <1>1, <1>2

LEMMA ConsistentHolds ==
  ASSUME AttrInv PROVE AttributesConsistent
<1>1. PICK L : RingsOf(ring, L)
  BY DEF AttrInv
<1>2. AttributesTyped
  BY <1>1 DEF RingsOf, AttributesTyped
<1> QED BY <1>1, <1>2, RingConsistentHolds, UniqueNamesHold, IterationHolds, QueryKeepsValueHolds
        DEF AttributesConsistent

\* A call makes the pairs of e those of a list, and leaves those of the others.
Effect(q, r, L, e, list) ==
  \E M : RingsOf(q, M) /\ Kept(q, M, r, L, e) /\ Pairs(q, M[e]) = list

LEMMA EffectIs ==
  ASSUME NEW L, RingsOf(ring, L), NEW e \in Elements, NEW list,
         Effect(ring', ring, L, e, list)
  PROVE  AttrInv' /\ Becomes(e, list)
<1>1. PICK M : RingsOf(ring', M) /\ Kept(ring', M, ring, L, e) /\ Pairs(ring', M[e]) = list
  BY DEF Effect
<1>2. AttrInv'
  BY <1>1 DEF AttrInv
<1>3. ASSUME NEW x \in Elements
      PROVE  Listed(x)' = IF x = e THEN list ELSE Listed(x)
  <2>1. Listed(x)' = ListedOf(ring', x)
    BY DEF Listed, Pair, ListedOf
  <2>2. ListedOf(ring', x) = Pairs(ring', M[x])
    BY <1>1, ListedIs
  <2>3. Listed(x) = Pairs(ring, L[x])
    BY ListedNow, ListedIs
  <2>4. x # e => Pairs(ring', M[x]) = Pairs(ring, L[x])
    BY <1>1, KeptPairs
  <2> QED BY <1>1, <2>1, <2>2, <2>3, <2>4
<1>4. Becomes(e, list)
  BY <1>3 DEF Becomes
<1> QED BY <1>2, <1>4

LEMMA FreshFree ==
  ASSUME NEW L, RingsOf(ring, L), NEW a \in Fresh
  PROVE  a \in Attrs /\ ring[a] = FreeAttribute
<1>1. a \in Attrs /\ a \notin LiveAttributes
  BY DEF Fresh
<1> QED BY <1>1, LiveListed

LEMMA SetEffect ==
  ASSUME NEW L, RingsOf(ring, L), NEW e \in Elements,
         NEW name \in Names, NEW value \in AttrValues, SetAttribute(e, name, value)
  PROVE  Effect(ring', ring, L, e, Put(Pairs(ring, L[e]), name, value))
<1>1. PICK a \in IF Find(ring, e, name) = None THEN Fresh ELSE {None} :
        ring' = Stored(ring, e, a, name, value)
  BY DEF SetAttribute
<1>2. CASE Find(ring, e, name) # None
  <2>1. /\ RingsOf(Stored(ring, e, a, name, value), L)
        /\ Kept(Stored(ring, e, a, name, value), L, ring, L, e)
        /\ Pairs(Stored(ring, e, a, name, value), L[e])
             = Put(Pairs(ring, L[e]), name, value)
    BY <1>2, StoredOld
  <2> QED BY <1>1, <2>1 DEF Effect
<1>3. CASE Find(ring, e, name) = None
  <2>1. a \in Attrs /\ ring[a] = FreeAttribute
    BY <1>1, <1>3, FreshFree
  <2> DEFINE M == [L EXCEPT ![e] = Append(L[e], a)]
  <2>2. StoredTo(Stored(ring, e, a, name, value), M, ring, L, e, a, name, value)
    BY <1>3, <2>1, StoredNew
  <2> HIDE DEF M
  <2>3. /\ RingsOf(ring', M) /\ Kept(ring', M, ring, L, e)
        /\ Pairs(ring', M[e]) = Append(Pairs(ring, L[e]), <<name, value>>)
        /\ name \notin NamesOf(Pairs(ring, L[e]))
    BY <1>1, <2>2 DEF StoredTo
  <2>4. Put(Pairs(ring, L[e]), name, value) = Append(Pairs(ring, L[e]), <<name, value>>)
    BY <2>3 DEF Put
  <2> QED BY <2>3, <2>4 DEF Effect
<1> QED BY <1>2, <1>3

LEMMA ParsedEffect ==
  ASSUME NEW L, RingsOf(ring, L), NEW e \in Elements,
         NEW name \in Names, NEW value \in AttrValues, ParsedAttribute(e, name, value)
  PROVE  Effect(ring', ring, L, e,
                IF name \in NamesOf(Pairs(ring, L[e])) THEN Pairs(ring, L[e])
                ELSE Append(Pairs(ring, L[e]), <<name, value>>))
<1>1. PICK a \in Fresh :
        ring' = IF Find(ring, e, name) # None THEN ring
                ELSE Added(ring, e, a, name, value)
  BY DEF ParsedAttribute
<1>2. CASE Find(ring, e, name) # None
  <2>1. FoundIn(ring, L[e], name, Find(ring, e, name))
    BY FindIs
  <2>2. name \in NamesOf(Pairs(ring, L[e]))
    <3>1. NameIn(ring, L[e], name)
      BY NamesOfPairs
    <3> QED BY <1>2, <2>1, <3>1 DEF FoundIn, NameIn
  <2>3. ring' = ring /\ Kept(ring, L, ring, L, e)
    BY <1>1, <1>2, KeptItself
  <2> QED BY <2>2, <2>3 DEF Effect
<1>3. CASE Find(ring, e, name) = None
  <2>1. a \in Attrs /\ ring[a] = FreeAttribute
    BY FreshFree
  <2> DEFINE M == [L EXCEPT ![e] = Append(L[e], a)]
  <2>2. /\ Stored(ring, e, a, name, value) = Added(ring, e, a, name, value)
        /\ StoredTo(Stored(ring, e, a, name, value), M, ring, L, e, a, name, value)
    BY <1>3, <2>1, StoredNew
  <2> HIDE DEF M
  <2>3. /\ RingsOf(ring', M) /\ Kept(ring', M, ring, L, e)
        /\ Pairs(ring', M[e]) = Append(Pairs(ring, L[e]), <<name, value>>)
        /\ name \notin NamesOf(Pairs(ring, L[e]))
    BY <1>1, <1>3, <2>2 DEF StoredTo
  <2> QED BY <2>3 DEF Effect
<1> QED BY <1>2, <1>3

LEMMA RemoveEffect ==
  ASSUME NEW L, RingsOf(ring, L), NEW e \in Elements, NEW name,
         RemoveAttribute(e, name)
  PROVE  \E i \in 1..Len(L[e]) :
           /\ ring[L[e][i]].name = name
           /\ Effect(ring', ring, L, e, Without(Pairs(ring, L[e]), i))
<1> DEFINE x == Find(ring, e, name)
<1>1. x # None /\ ring' = Removed(ring, x)
  BY DEF RemoveAttribute
<1>2. FoundIn(ring, L[e], name, x)
  BY FindIs
<1> HIDE DEF x
<1>3. PICK i \in 1..Len(L[e]) : x = L[e][i] /\ ring[L[e][i]].name = name
  BY <1>1, <1>2 DEF FoundIn
<1> DEFINE M == [L EXCEPT ![e] = Without(L[e], i)]
<1>4. RemovedTo(Removed(ring, L[e][i]), M, ring, L, e, i)
  BY RemovedPairs
<1> HIDE DEF M
<1>5. RingsOf(ring', M) /\ Kept(ring', M, ring, L, e)
      /\ Pairs(ring', M[e]) = Without(Pairs(ring, L[e]), i)
  BY <1>1, <1>3, <1>4 DEF RemovedTo
<1> QED BY <1>3, <1>5 DEF Effect

LEMMA ClearEffect ==
  ASSUME NEW L, RingsOf(ring, L), NEW e \in Elements, ClearThis(e)
  PROVE  Effect(ring', ring, L, e, <<>>)
<1>1. PICK M : /\ RingsOf(ClearedRing(ring, e), M) /\ Kept(ClearedRing(ring, e), M, ring, L, e)
               /\ M[e] = <<>>
  BY ClearedRings
<1>2. ring' = ClearedRing(ring, e)
  BY DEF ClearThis
<1>3. Pairs(ring', M[e]) \in Seq(Names \X AttrValues) /\ Len(Pairs(ring', M[e])) = 0
  BY <1>1, <1>2, PairsAre
<1>4. Pairs(ring', M[e]) = <<>>
  BY <1>3, EmptySeq
<1> QED BY <1>1, <1>2, <1>4 DEF Effect

LEMMA AssignEffect ==
  ASSUME NEW L, RingsOf(ring, L), NEW e \in Elements, NEW x \in Elements,
         AssignAttributes(e, x)
  PROVE  Effect(ring', ring, L, e, UpToUnnamed(Pairs(ring, L[x])))
<1>1. e # x
  BY DEF AssignAttributes
<1>2. PICK m : /\ SeenOf(ring, L[x], m)
               /\ UpToUnnamed(Pairs(ring, L[x])) = SubSeq(Pairs(ring, L[x]), 1, m)
  BY UpToIs
<1>3. Forward(x) = SubSeq(L[x], 1, m) /\ Linked(ring, e) = L[e]
  BY <1>2, ForwardIs, LinkedIs
<1> DEFINE S == ToSet(SubSeq(L[x], 1, m))
           U == Fresh \cup ToSet(L[e])
<1>4. PICK fresh \in NewAttributes(S, U) :
        ring' = Copied(ClearedRing(ring, e), e, First(x), fresh)
  BY <1>3 DEF AssignAttributes
<1>5. /\ DOMAIN fresh = S /\ (\A b \in S : fresh[b] \in U)
      /\ \A b, c \in S : fresh[b] = fresh[c] => b = c
  <2> HIDE DEF S, U
  <2> QED BY <1>4 DEF NewAttributes
<1> DEFINE q == ClearedRing(ring, e)
<1>6. PICK M : RingsOf(q, M) /\ Kept(q, M, ring, L, e) /\ M[e] = <<>>
  BY ClearedRings
<1> HIDE DEF q
<1>7. M[x] = L[x] /\ SeenOf(q, M[x], m)
  BY <1>1, <1>2, <1>6, SeenKept
<1>8. ASSUME NEW b \in U PROVE b \in Attrs /\ q[b] = FreeAttribute
  <2>1. DOMAIN L[e] = 1..Len(L[e]) /\ \A i \in 1..Len(L[e]) : L[e][i] \in Attrs
    BY ListFacts, LenProperties
  <2>2. b \in Attrs /\ (ring[b] = FreeAttribute \/ ListHas(L[e], b))
    BY <2>1, FreshFree DEF ToSet, ListHas
  <2>3. q[b] = FreeAttribute \/ ListHas(M[e], b)
    BY <1>6, <2>2, StillFree
  <2>4. ~ ListHas(M[e], b)
    BY <1>6 DEF ListHas
  <2> QED BY <2>2, <2>3, <2>4
<1>9. CopyFrom(q, M, e, x, m, fresh)
  <2> HIDE DEF U
  <2> QED BY <1>1, <1>5, <1>6, <1>7, <1>8 DEF CopyFrom
<1>10. First(x) = IF Len(M[x]) = 0 THEN None ELSE M[x][1]
  BY <1>7, FirstIs DEF First
<1>11. PICK K : /\ RingsOf(ring', K) /\ Kept(ring', K, q, M, e)
                /\ Pairs(ring', K[e]) = SubSeq(Pairs(q, M[x]), 1, m)
  <2>1. \E K : /\ RingsOf(Copied(q, e, First(x), fresh), K)
               /\ Kept(Copied(q, e, First(x), fresh), K, q, M, e)
               /\ Pairs(Copied(q, e, First(x), fresh), K[e])
                    = SubSeq(Pairs(q, M[x]), 1, m)
    BY <1>9, <1>10, CopiedRings
  <2>2. ring' = Copied(q, e, First(x), fresh)
    BY <1>4 DEF q
  <2> QED BY <2>1, <2>2
<1>12. Kept(ring', K, ring, L, e)
  BY <1>6, <1>11, KeptTwice
<1>13. Pairs(q, M[x]) = Pairs(ring, L[x])
  BY <1>1, <1>6, KeptPairs
<1> QED BY <1>2, <1>11, <1>12, <1>13 DEF Effect

LEMMA AttrInit == ASSUME AttributesInit PROVE AttrInv
<1> DEFINE L == [e \in Elements |-> <<>>]
<1>1. L \in [Elements -> Seq(Attrs)] /\ \A e \in Elements : L[e] = <<>> /\ Len(L[e]) = 0
  BY EmptySeq
<1> HIDE DEF L
<1>2. ring = [o \in Objects |->
               IF o \in Elements THEN [FreeAttribute EXCEPT !.next = o, !.prev = o]
               ELSE FreeAttribute]
  BY DEF AttributesInit
<1>3. ASSUME NEW e \in Elements
      PROVE  /\ ring[e].next = e /\ ring[e].prev = e /\ ring[e].name = <<>> /\ ring[e].value = <<>>
             /\ Record(ring[e])
  <2>1. e \in Objects /\ e \in AttrLinks
    BY ObjectsAre
  <2>2. ring[e] = [FreeAttribute EXCEPT !.next = e, !.prev = e]
    BY <1>2, <2>1
  <2>3. ring[e] = [name |-> <<>>, value |-> <<>>, next |-> e, prev |-> e]
    BY <2>2 DEF FreeAttribute
  <2> QED BY <2>1, <2>3, AttributesAssumption DEF Record
<1>4. \A a \in Attrs : ring[a] = FreeAttribute
  BY <1>2, ObjectsAre
<1>5. ring \in Rings
  <2>1. \A o \in Objects : Record(ring[o])
    BY <1>3, <1>4, ObjectsAre
  <2> QED BY <1>2, <2>1 DEF Rings, Record
<1>6. ASSUME NEW e \in Elements PROVE Round(ring, e, L[e]) /\ NamesApart(ring, L[e])
  <2>1. \A i : Place(e, L[e], i) = e
    BY <1>1 DEF Place
  <2> QED BY <1>1, <1>3, <2>1 DEF Round, NamesApart
<1>7. InOneList(L)
  BY <1>1 DEF InOneList
<1>8. RingsOf(ring, L)
  BY <1>1, <1>3, <1>4, <1>5, <1>6, <1>7 DEF RingsOf
<1> QED BY <1>8 DEF AttrInv

LEMMA AttrNext == ASSUME AttrInv, [AttributesNext]_ring PROVE AttrInv'
<1>1. PICK L : RingsOf(ring, L)
  BY DEF AttrInv
<1>2. ASSUME NEW e \in Elements, NEW list, Effect(ring', ring, L, e, list) PROVE AttrInv'
  BY <1>1, <1>2, EffectIs
<1>3. ASSUME NEW e \in Elements, NEW name \in Names, NEW value \in AttrValues,
             SetAttribute(e, name, value)
      PROVE  AttrInv'
  BY <1>1, <1>2, <1>3, SetEffect
<1>4. ASSUME NEW e \in Elements, NEW name \in Names, NEW value \in AttrValues,
             ParsedAttribute(e, name, value)
      PROVE  AttrInv'
  BY <1>1, <1>2, <1>4, ParsedEffect
<1>5. ASSUME NEW e \in Elements, NEW name \in Names, RemoveAttribute(e, name) PROVE AttrInv'
  BY <1>1, <1>2, <1>5, RemoveEffect
<1>6. ASSUME NEW e \in Elements, ClearThis(e) PROVE AttrInv'
  BY <1>1, <1>2, <1>6, ClearEffect
<1>7. ASSUME NEW e \in Elements, NEW x \in Elements, AssignAttributes(e, x) PROVE AttrInv'
  BY <1>1, <1>2, <1>7, AssignEffect
<1>8. CASE UNCHANGED ring
  BY <1>8 DEF AttrInv
<1> QED BY <1>3, <1>4, <1>5, <1>6, <1>7, <1>8 DEF AttributesNext

\* What Dictionary says of a step.
DictionaryStep ==
  \A e \in Elements :
    /\ \A name \in Names, value \in AttrValues :
         /\ SetAttribute(e, name, value)
              => Becomes(e, Put(Listed(e), name, value))
         /\ ParsedAttribute(e, name, value) /\ name \notin NamesOf(Listed(e))
              => Becomes(e, Append(Listed(e), <<name, value>>))
    /\ \A name \in Names :
         RemoveAttribute(e, name)
           => \E i \in DOMAIN Listed(e) :
                Listed(e)[i][1] = name /\ Becomes(e, Without(Listed(e), i))
    /\ ClearThis(e) => Becomes(e, <<>>)
    /\ \A x \in Elements : AssignAttributes(e, x) => Becomes(e, UpToUnnamed(Listed(x)))

LEMMA StepsOfDictionary == ASSUME AttrInv PROVE DictionaryStep
<1>1. PICK L : RingsOf(ring, L)
  BY DEF AttrInv
<1>2. \A e \in Elements : Listed(e) = Pairs(ring, L[e])
  BY <1>1, ListedNow, ListedIs
<1>3. ASSUME NEW e \in Elements, NEW list, Effect(ring', ring, L, e, list)
      PROVE  Becomes(e, list)
  BY <1>1, <1>3, EffectIs
<1>4. ASSUME NEW e \in Elements, NEW name \in Names, NEW value \in AttrValues,
             SetAttribute(e, name, value)
      PROVE  Becomes(e, Put(Listed(e), name, value))
  BY <1>1, <1>2, <1>3, <1>4, SetEffect
<1>5. ASSUME NEW e \in Elements, NEW name \in Names, NEW value \in AttrValues,
             ParsedAttribute(e, name, value), name \notin NamesOf(Listed(e))
      PROVE  Becomes(e, Append(Listed(e), <<name, value>>))
  <2>1. Effect(ring', ring, L, e, Append(Pairs(ring, L[e]), <<name, value>>))
    BY <1>1, <1>2, <1>5, ParsedEffect
  <2> QED BY <1>2, <1>3, <2>1
<1>6. ASSUME NEW e \in Elements, NEW name \in Names, RemoveAttribute(e, name)
      PROVE  \E i \in DOMAIN Listed(e) :
               Listed(e)[i][1] = name /\ Becomes(e, Without(Listed(e), i))
  <2>1. PICK i \in 1..Len(L[e]) :
          /\ ring[L[e][i]].name = name
          /\ Effect(ring', ring, L, e, Without(Pairs(ring, L[e]), i))
    BY <1>1, <1>6, RemoveEffect
  <2>2. DOMAIN Pairs(ring, L[e]) = 1..Len(L[e]) /\ Pairs(ring, L[e])[i][1] = name
    BY <1>1, <2>1, PairsAre
  <2>3. Becomes(e, Without(Pairs(ring, L[e]), i))
    BY <1>3, <2>1
  <2> QED BY <1>2, <2>2, <2>3
<1>7. ASSUME NEW e \in Elements, ClearThis(e) PROVE Becomes(e, <<>>)
  BY <1>1, <1>3, <1>7, ClearEffect
<1>8. ASSUME NEW e \in Elements, NEW x \in Elements, AssignAttributes(e, x)
      PROVE  Becomes(e, UpToUnnamed(Listed(x)))
  <2>1. Effect(ring', ring, L, e, UpToUnnamed(Pairs(ring, L[x])))
    BY <1>1, <1>8, AssignEffect
  <2> QED BY <1>2, <1>3, <2>1
<1> QED BY <1>4, <1>5, <1>6, <1>7, <1>8 DEF DictionaryStep

\* For any elements, attributes, names and values: between any two calls the ring of each
\* element closes both ways, an attribute in use is in one of them, no element has two
\* attributes of a name, both iterations are complete up to what looks like the sentinel, and
\* a query that fails leaves its argument.
THEOREM AttributesStayConsistent == AttributesSpec => []AttributesConsistent
<1>1. AttributesInit => AttrInv
  BY AttrInit
<1>2. AttrInv /\ [AttributesNext]_ring => AttrInv'
  BY AttrNext
<1>3. AttrInv => AttributesConsistent
  BY ConsistentHolds
<1> QED BY <1>1, <1>2, <1>3, PTL DEF AttributesSpec

\* For any elements, attributes, names and values: SetAttribute, the parser, RemoveAttribute,
\* ClearThis and assignment have the effect on the list of their element that Dictionary
\* promises, and none on the list of another.
THEOREM AttributesAreDictionaries == AttributesSpec => Dictionary
<1>1. AttributesInit => AttrInv
  BY AttrInit
<1>2. AttrInv /\ [AttributesNext]_ring => AttrInv'
  BY AttrNext
<1>3. AttrInv => [DictionaryStep]_ring
  BY StepsOfDictionary
<1>4. AttributesSpec => [][DictionaryStep]_ring
  BY <1>1, <1>2, <1>3, PTL DEF AttributesSpec
<1>5. Dictionary <=> [][DictionaryStep]_ring
  BY DEF Dictionary, DictionaryStep
<1> QED BY <1>4, <1>5
=============================================================================
