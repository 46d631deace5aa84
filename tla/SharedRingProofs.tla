-------------------------- MODULE SharedRingProofs --------------------------
(***************************************************************************)
(* The shared ring of inc/ring.h, for any number of slots and any range of *)
(* indices that is a multiple of it.                                       *)
(***************************************************************************)
EXTENDS SharedRing, SequenceTheorems, TLAPS

\* How far the index i is behind the index a: indices wrap.
Dist(a, i) == Wrapped(i - a)

\* The indices in the order in which they follow each other on the ring, from the oldest
\* response that was not read: the responses that were published, those that were put, the
\* requests at work, those that were taken, published, put. They span no more than the slots.
InOrder(rsp_cons, rsp_prod, rsp_pvt, working, req_cons, req_prod, req_pvt) ==
  /\ Dist(rsp_cons, rsp_prod) <= Dist(rsp_cons, rsp_pvt)
  /\ Dist(rsp_cons, rsp_pvt) + working <= Dist(rsp_cons, req_cons)
  /\ Dist(rsp_cons, req_cons) <= Dist(rsp_cons, req_prod)
  /\ Dist(rsp_cons, req_prod) <= Dist(rsp_cons, req_pvt)
  /\ Dist(rsp_cons, req_pvt) <= Size

Order ==
  InOrder(cons["front"], prod["back"], prod_pvt["back"], Len(owed),
          cons["back"], prod["front"], prod_pvt["front"])

\* Responses are in the slots behind the front end's cons, requests in those behind the back
\* end's.
Holds(slots, rsp_cons, rsp_pvt, req_cons, req_pvt) ==
  \A i \in Idx :
    /\ Dist(rsp_cons, i) < Dist(rsp_cons, rsp_pvt) => slots[i % Size][1] = "response"
    /\ /\ Dist(rsp_cons, req_cons) <= Dist(rsp_cons, i)
       /\ Dist(rsp_cons, i) < Dist(rsp_cons, req_pvt)
       => slots[i % Size] = <<"request", i>>

SlotsKept ==
  Holds(slot, cons["front"], prod_pvt["back"], cons["back"], prod_pvt["front"])

\* An end that is about to sleep, or asleep, has asked for the next message.
Asked == \A s \in Ends : pc[s] \in {"checked", "asleep"} => event[s] = Wrapped(cons[s] + 1)

\* An end that sleeps while there is something to take will be told.
Told(s) ==
  \/ pending[s]
  \/ pc[Other(s)] = "pushed" /\ MustNotify(prod[Other(s)], old[Other(s)], event[s])
  \/ cut[Other(s)]
Woken == \A s \in Ends : pc[s] = "asleep" /\ cons[s] # prod[Other(s)] => Told(s)

RingInv == TypeOK /\ Order /\ SlotsKept /\ Asked /\ Woken
-----------------------------------------------------------------------------
(***************************************************************************)
(* Arithmetic of indices that wrap                                         *)
(***************************************************************************)
LEMMA Sane == IndexMod \in Nat \ {0} /\ Size \in Nat \ {0} /\ Size < IndexMod
BY RingAssumption

\* What wrapping does to a number that is less than one round off.
LEMMA WrappedIs ==
  ASSUME NEW i \in Int
  PROVE  /\ Wrapped(i) \in Idx
         /\ i \in Idx => Wrapped(i) = i
         /\ i \in IndexMod..(2 * IndexMod - 1) => Wrapped(i) = i - IndexMod
         /\ i \in (-IndexMod)..(-1) => Wrapped(i) = i + IndexMod
<1>1. Wrapped(i) \in Idx
  BY Sane DEF Wrapped, Idx
<1>2. i \in Idx => Wrapped(i) = i
  BY Sane DEF Wrapped, Idx
<1>3. i \in IndexMod..(2 * IndexMod - 1) => Wrapped(i) = i - IndexMod
  BY Sane DEF Wrapped
<1>4. i \in (-IndexMod)..(-1) => Wrapped(i) = i + IndexMod
  BY Sane DEF Wrapped
<1> QED BY <1>1, <1>2, <1>3, <1>4

\* A distance without %.
LEMMA DistIs ==
  ASSUME NEW a \in Idx, NEW i \in Idx
  PROVE  /\ Dist(a, i) = IF i >= a THEN i - a ELSE i - a + IndexMod
         /\ Dist(a, i) \in Idx
<1>1. i - a \in Int /\ (i >= a => i - a \in Idx) /\ (i < a => i - a \in (-IndexMod)..(-1))
  BY Sane DEF Idx
<1>2. Wrapped(i - a) \in Idx /\ (i >= a => Wrapped(i - a) = i - a)
      /\ (i < a => Wrapped(i - a) = i - a + IndexMod)
  BY <1>1, WrappedIs
<1> QED BY <1>2, Sane DEF Dist, Idx

\* The next index.
LEMMA NextIs ==
  ASSUME NEW i \in Idx
  PROVE  /\ Wrapped(i + 1) = IF i + 1 = IndexMod THEN 0 ELSE i + 1
         /\ Wrapped(i + 1) \in Idx
<1> DEFINE n == i + 1
<1>1. n \in Int /\ (n # IndexMod => n \in Idx)
      /\ (n = IndexMod => n \in IndexMod..(2 * IndexMod - 1) /\ n - IndexMod = 0)
  BY Sane DEF Idx
<1> HIDE DEF n
<1>2. Wrapped(n) \in Idx /\ Wrapped(n) = IF n = IndexMod THEN 0 ELSE n
  BY <1>1, WrappedIs
<1> QED BY <1>2 DEF n

\* The distances from a to the indices around i.
LEMMA DistNext ==
  ASSUME NEW a \in Idx, NEW i \in Idx
  PROVE  /\ Dist(a, i) < IndexMod - 1 => Dist(a, Wrapped(i + 1)) = Dist(a, i) + 1
         /\ a # i => Dist(Wrapped(a + 1), i) = Dist(a, i) - 1
         /\ Dist(a, i) = 0 <=> a = i
<1>1. Wrapped(i + 1) \in Idx /\ Wrapped(a + 1) \in Idx
  BY NextIs
<1>2. /\ Dist(a, i) = IF i >= a THEN i - a ELSE i - a + IndexMod
      /\ \A j \in Idx : Dist(a, j) = IF j >= a THEN j - a ELSE j - a + IndexMod
      /\ \A j \in Idx : Dist(j, i) = IF i >= j THEN i - j ELSE i - j + IndexMod
  BY DistIs
<1>3. a \in 0..(IndexMod - 1) /\ i \in 0..(IndexMod - 1) /\ IndexMod \in Nat
  BY Sane DEF Idx
<1>4. ASSUME NEW n \in Idx, n = IF i + 1 = IndexMod THEN 0 ELSE i + 1, Dist(a, i) < IndexMod - 1
      PROVE  Dist(a, n) = Dist(a, i) + 1
  <2>1. Dist(a, n) = IF n >= a THEN n - a ELSE n - a + IndexMod
    BY <1>2
  <2> QED BY <1>2, <1>3, <1>4, <2>1
<1>5. ASSUME NEW n \in Idx, n = IF a + 1 = IndexMod THEN 0 ELSE a + 1, a # i
      PROVE  Dist(n, i) = Dist(a, i) - 1
  <2>1. Dist(n, i) = IF i >= n THEN i - n ELSE i - n + IndexMod
    BY <1>2
  <2> QED BY <1>2, <1>3, <1>5, <2>1
<1>6. Dist(a, i) = 0 <=> a = i
  BY <1>2, <1>3
<1>7. Dist(a, i) < IndexMod - 1 => Dist(a, Wrapped(i + 1)) = Dist(a, i) + 1
  BY <1>1, <1>4, NextIs
<1>8. a # i => Dist(Wrapped(a + 1), i) = Dist(a, i) - 1
  BY <1>1, <1>5, NextIs
<1> QED BY <1>6, <1>7, <1>8

\* The distance between two indices, measured from a third.
LEMMA DistFrom ==
  ASSUME NEW a \in Idx, NEW i \in Idx, NEW j \in Idx
  PROVE  Dist(i, j) = IF Dist(a, i) <= Dist(a, j) THEN Dist(a, j) - Dist(a, i)
                      ELSE Dist(a, j) - Dist(a, i) + IndexMod
<1>1. /\ Dist(a, i) = IF i >= a THEN i - a ELSE i - a + IndexMod
      /\ Dist(a, j) = IF j >= a THEN j - a ELSE j - a + IndexMod
      /\ Dist(i, j) = IF j >= i THEN j - i ELSE j - i + IndexMod
  BY DistIs
<1> QED BY <1>1, Sane DEF Idx

\* A distance is positive unless the indices are equal, and not more than a round.
LEMMA DistPositive ==
  ASSUME NEW a \in Idx, NEW i \in Idx
  PROVE  /\ Dist(a, i) \in Nat /\ Dist(a, i) < IndexMod
         /\ Dist(a, i) > 0 <=> a # i
         /\ Dist(a, a) = 0
<1>1. Dist(a, i) \in 0..(IndexMod - 1) /\ (Dist(a, i) = 0 <=> a = i) /\ Dist(a, a) = 0
  BY DistIs, DistNext DEF Idx
<1> QED BY <1>1, Sane

LEMMA SlotIn == ASSUME NEW i \in Idx PROVE i % Size \in 0..(Size - 1)
BY Sane DEF Idx

\* The least positive multiple.
LEMMA Multiple ==
  ASSUME NEW m \in Nat, NEW n \in Int, m * n > 0
  PROVE  m * n >= m
<1>1. CASE n <= 0
  BY <1>1
<1>2. CASE n >= 1
  BY <1>2
<1> QED BY <1>1, <1>2

\* Indices that are less than the ring apart have slots of their own.
LEMMA SlotsDiffer ==
  ASSUME NEW i \in Idx, NEW j \in Idx, Dist(i, j) > 0, Dist(i, j) < Size
  PROVE  i % Size # j % Size
<1> SUFFICES ASSUME i % Size = j % Size PROVE FALSE
  OBVIOUS
<1> DEFINE k == IndexMod \div Size
           p == i \div Size
           q == j \div Size
<1>1. IndexMod = Size * k /\ k \in Int
  BY RingAssumption
<1>2. i = Size * p + (i % Size) /\ p \in Int /\ j = Size * q + (j % Size) /\ q \in Int
  BY Sane DEF Idx
<1> HIDE DEF k, p, q
<1>3. Size * (q - p) = Size * q - Size * p /\ Size * (q - p + k) = Size * q - Size * p + Size * k
  BY <1>1, <1>2, Sane
<1>4. Dist(i, j) = j - i \/ Dist(i, j) = j - i + IndexMod
  BY DistIs
<1>5. j - i = Size * q - Size * p
  <2>1. Size * p \in Int /\ Size * q \in Int /\ i % Size \in Int
    BY <1>2, Sane DEF Idx
  <2> QED BY <1>2, <2>1
<1>6. Dist(i, j) = Size * (q - p) \/ Dist(i, j) = Size * (q - p + k)
  BY <1>1, <1>3, <1>4, <1>5
<1>7. q - p \in Int /\ q - p + k \in Int
  BY <1>1, <1>2
<1> QED BY <1>6, <1>7, Multiple, Sane
-----------------------------------------------------------------------------
(***************************************************************************)
(* What the invariant says of single operators                             *)
(***************************************************************************)
LEMMA EndsAre ==
  /\ Ends = {"front", "back"} /\ Other("front") = "back" /\ Other("back") = "front"
  /\ \A s \in Ends : Other(s) \in Ends /\ Other(s) # s /\ Other(Other(s)) = s
BY DEF Ends, Other

LEMMA Indices ==
  TypeOK =>
    \A s \in Ends : /\ cons[s] \in Idx /\ prod[s] \in Idx /\ prod_pvt[s] \in Idx
                    /\ event[s] \in Idx /\ old[s] \in Idx
BY DEF TypeOK

\* There is always room for a response to each request that may be taken, so there is
\* something to take if anything was published.
LEMMA Consumable ==
  TypeOK /\ Order => \A s \in Ends : HasUnconsumed(s) <=> cons[s] # prod[Other(s)]
<1> SUFFICES ASSUME TypeOK, Order, NEW s \in Ends
             PROVE  HasUnconsumed(s) <=> cons[s] # prod[Other(s)]
  OBVIOUS
<1>1. /\ cons["front"] \in Idx /\ cons["back"] \in Idx /\ prod["front"] \in Idx
      /\ prod["back"] \in Idx /\ prod_pvt["front"] \in Idx /\ prod_pvt["back"] \in Idx
      /\ Len(owed) \in Nat
  BY Indices, EndsAre DEF TypeOK
<1>2. CASE s = "front"
  <2>1. HasUnconsumed(s) <=> Dist(cons["front"], prod["back"]) > 0
    BY <1>2, EndsAre DEF HasUnconsumed, Dist
  <2>2. Dist(cons["front"], prod["back"]) > 0 <=> cons["front"] # prod["back"]
    BY <1>1, DistPositive
  <2> QED BY <1>2, <2>1, <2>2, EndsAre
<1>3. CASE s = "back"
  <2> DEFINE room == Size - Dist(prod_pvt["back"], cons["back"])
             produced == Dist(cons["back"], prod["front"])
  <2>1. produced \in Nat /\ (produced > 0 <=> cons["back"] # prod["front"])
    BY <1>1, DistPositive
  <2>2. \A i \in Idx : Dist(cons["front"], i) \in Nat
    BY <1>1, DistPositive
  <2>3. room \in Int /\ produced <= room
    <3>1. /\ Dist(cons["front"], prod_pvt["back"]) <= Dist(cons["front"], cons["back"])
          /\ Dist(cons["front"], cons["back"]) <= Dist(cons["front"], prod["front"])
          /\ Dist(cons["front"], prod["front"]) <= Size
      BY <1>1, <2>2, Sane DEF Order, InOrder
    <3>2. /\ Dist(prod_pvt["back"], cons["back"])
               = Dist(cons["front"], cons["back"]) - Dist(cons["front"], prod_pvt["back"])
          /\ produced = Dist(cons["front"], prod["front"]) - Dist(cons["front"], cons["back"])
      BY <1>1, <3>1, DistFrom
    <3> QED BY <1>1, <2>2, <3>1, <3>2, Sane
  <2>4. HasUnconsumed(s) <=> IF room < produced THEN room > 0 ELSE produced > 0
    BY <1>3, EndsAre DEF HasUnconsumed, Dist
  <2> QED BY <1>3, <2>1, <2>3, <2>4, EndsAre
<1> QED BY <1>2, <1>3, EndsAre

\* Whoever asks for the next message is told of a push that holds it.
LEMMA Notifies ==
  ASSUME NEW from \in Idx, NEW new \in Idx, from # new
  PROVE  MustNotify(new, from, Wrapped(from + 1))
<1>1. Dist(Wrapped(from + 1), new) = Dist(from, new) - 1 /\ Dist(from, new) \in Idx
  BY DistNext, DistIs
<1> QED BY <1>1 DEF MustNotify, Dist, Idx

\* What a span is.
LEMMA SpanIs ==
  ASSUME NEW a \in Idx, NEW b \in Idx
  PROVE  /\ DOMAIN Span(a, b) = 1..Dist(a, b)
         /\ \A k \in 1..Dist(a, b) :
              Span(a, b)[k] = Wrapped(a + k - 1) /\ Span(a, b)[k] \in Idx
              /\ Dist(a, Span(a, b)[k]) = k - 1
<1>1. DOMAIN Span(a, b) = 1..Dist(a, b)
      /\ \A k \in 1..Dist(a, b) : Span(a, b)[k] = Wrapped(a + k - 1)
  BY DEF Span, Dist
<1>2. Dist(a, b) \in Idx
  BY DistIs
<1>3. ASSUME NEW k \in 1..Dist(a, b)
      PROVE  Wrapped(a + k - 1) \in Idx /\ Dist(a, Wrapped(a + k - 1)) = k - 1
  <2> DEFINE n == a + k - 1
  <2>1. n \in Int /\ (n >= IndexMod => n \in IndexMod..(2 * IndexMod - 1))
        /\ (n < IndexMod => n \in Idx) /\ n = a + k - 1
    BY <1>2, Sane DEF Idx
  <2> HIDE DEF n
  <2>2. Wrapped(n) \in Idx /\ Wrapped(n) = IF n < IndexMod THEN n ELSE n - IndexMod
    BY <2>1, WrappedIs, Sane
  <2>3. Dist(a, Wrapped(n)) =
          IF Wrapped(n) >= a THEN Wrapped(n) - a ELSE Wrapped(n) - a + IndexMod
    BY <2>2, DistIs
  <2>4. Dist(a, Wrapped(n)) = k - 1
    BY <1>2, <2>1, <2>2, <2>3, Sane DEF Idx
  <2> QED BY <2>2, <2>4 DEF n
<1> QED BY <1>1, <1>3

LEMMA InSpan ==
  ASSUME NEW a \in Idx, NEW b \in Idx, NEW k \in DOMAIN Span(a, b)
  PROVE  /\ Span(a, b)[k] \in Idx
         /\ Dist(a, Span(a, b)[k]) \in Nat /\ Dist(a, Span(a, b)[k]) < Dist(a, b)
<1>1. k \in 1..Dist(a, b) /\ Dist(a, b) \in Nat
  <2>1. DOMAIN Span(a, b) = 1..Dist(a, b)
    BY SpanIs
  <2> QED BY <2>1, DistPositive
<1>2. Span(a, b)[k] \in Idx /\ Dist(a, Span(a, b)[k]) = k - 1
  BY <1>1, SpanIs
<1> QED BY <1>1, <1>2
-----------------------------------------------------------------------------
(***************************************************************************)
(* Indices in order stay so                                                *)
(***************************************************************************)
LEMMA OrderKept ==
  ASSUME NEW a \in Idx, NEW r \in Idx, NEW p \in Idx, NEW n \in Nat, NEW b \in Idx,
         NEW q \in Idx, NEW w \in Idx, InOrder(a, r, p, n, b, q, w)
  PROVE  /\ Dist(a, w) < Size => InOrder(a, r, p, n, b, q, Wrapped(w + 1))
         /\ n > 0 => InOrder(a, r, Wrapped(p + 1), n - 1, b, q, w)
         /\ InOrder(a, r, p, n, b, w, w) /\ InOrder(a, p, p, n, b, q, w)
         /\ a # r => InOrder(Wrapped(a + 1), r, p, n, b, q, w)
         /\ b # q => InOrder(a, r, p, n + 1, Wrapped(b + 1), q, w)
         /\ InOrder(r, r, p, n, b, q, q) /\ InOrder(a, r, r, 0, q, q, w)
<1> DEFINE d(i) == Dist(a, i)
<1>1. d(r) \in Nat /\ d(p) \in Nat /\ d(b) \in Nat /\ d(q) \in Nat /\ d(w) \in Nat
  BY DistPositive
<1>2. d(r) <= d(p) /\ d(p) + n <= d(b) /\ d(b) <= d(q) /\ d(q) <= d(w) /\ d(w) <= Size
  BY DEF InOrder
<1>3. \A i \in Idx : d(i) < Size => d(Wrapped(i + 1)) = d(i) + 1
  <2> SUFFICES ASSUME NEW i \in Idx, d(i) < Size PROVE d(Wrapped(i + 1)) = d(i) + 1
    OBVIOUS
  <2>1. d(i) \in Nat
    BY DistPositive
  <2> QED BY <2>1, DistNext, Sane
<1>4. d(w) < Size => InOrder(a, r, p, n, b, q, Wrapped(w + 1))
  BY <1>1, <1>2, <1>3, Sane DEF InOrder
<1>5. n > 0 => InOrder(a, r, Wrapped(p + 1), n - 1, b, q, w)
  BY <1>1, <1>2, <1>3, Sane DEF InOrder
<1>6. InOrder(a, r, p, n, b, w, w) /\ InOrder(a, p, p, n, b, q, w) /\ InOrder(a, r, r, 0, q, q, w)
  BY <1>1, <1>2, Sane DEF InOrder
<1>7. a # r => InOrder(Wrapped(a + 1), r, p, n, b, q, w)
  <2> SUFFICES ASSUME a # r PROVE InOrder(Wrapped(a + 1), r, p, n, b, q, w)
    OBVIOUS
  <2> DEFINE e(i) == Dist(Wrapped(a + 1), i)
  <2>1. d(r) > 0
    BY DistPositive
  <2>2. d(p) > 0 /\ d(b) > 0 /\ d(q) > 0 /\ d(w) > 0
    BY <1>1, <1>2, <2>1
  <2>3. a # p /\ a # b /\ a # q /\ a # w
    BY <2>2, DistPositive
  <2>4. e(r) = d(r) - 1 /\ e(p) = d(p) - 1 /\ e(b) = d(b) - 1 /\ e(q) = d(q) - 1 /\ e(w) = d(w) - 1
    BY <2>3, DistNext
  <2> QED BY <1>1, <1>2, <2>4, Sane DEF InOrder
<1>8. b # q => InOrder(a, r, p, n + 1, Wrapped(b + 1), q, w)
  <2> SUFFICES ASSUME b # q PROVE InOrder(a, r, p, n + 1, Wrapped(b + 1), q, w)
    OBVIOUS
  <2>1. Dist(b, q) > 0 /\ Dist(b, q) = d(q) - d(b)
    BY <1>1, <1>2, DistPositive, DistFrom
  <2>2. d(b) < d(q) /\ d(b) < Size
    BY <1>1, <1>2, <2>1, Sane
  <2>3. d(Wrapped(b + 1)) = d(b) + 1
    BY <1>3, <2>2
  <2> QED BY <1>1, <1>2, <2>2, <2>3, Sane DEF InOrder
<1>9. InOrder(r, r, p, n, b, q, q)
  <2>1. d(r) <= d(b) /\ d(r) <= d(q)
    BY <1>1, <1>2
  <2>2. /\ Dist(r, r) = 0 /\ Dist(r, p) = d(p) - d(r) /\ Dist(r, b) = d(b) - d(r)
        /\ Dist(r, q) = d(q) - d(r)
    BY <1>2, <2>1, DistPositive, DistFrom
  <2> QED BY <1>1, <1>2, <2>2, Sane DEF InOrder
<1> QED BY <1>4, <1>5, <1>6, <1>7, <1>8, <1>9

\* Indices between two others, in the distance from a third.
LEMMA Apart ==
  ASSUME NEW a \in Idx, NEW i \in Idx, NEW j \in Idx, Dist(a, i) < Dist(a, j),
         Dist(a, j) < Dist(a, i) + Size
  PROVE  i % Size # j % Size
<1>1. Dist(i, j) = Dist(a, j) - Dist(a, i) /\ Dist(a, i) \in Nat /\ Dist(a, j) \in Nat
  BY DistFrom, DistPositive
<1> QED BY <1>1, SlotsDiffer, Sane
-----------------------------------------------------------------------------
(***************************************************************************)
(* Each step keeps the order of the indices and what the slots hold        *)
(***************************************************************************)
LEMMA Known ==
  ASSUME TypeOK
  PROVE  /\ cons["front"] \in Idx /\ cons["back"] \in Idx /\ prod["front"] \in Idx
         /\ prod["back"] \in Idx /\ prod_pvt["front"] \in Idx /\ prod_pvt["back"] \in Idx
         /\ Len(owed) \in Nat
         /\ \A a, i \in Idx : Dist(a, i) \in Nat /\ Dist(a, i) < IndexMod
<1>1. Len(owed) \in Nat
  BY DEF TypeOK
<1>2. \A a, i \in Idx : Dist(a, i) \in Nat /\ Dist(a, i) < IndexMod
  BY DistPositive
<1> QED BY <1>1, <1>2, Indices, EndsAre

(***************************************************************************)
(* Slots hold what is in them until it was read                            *)
(***************************************************************************)
\* Fewer requests and responses than before: indices have moved on or were reset.
LEMMA HoldsFewer ==
  ASSUME NEW slots, NEW a \in Idx, NEW p \in Idx, NEW b \in Idx, NEW w \in Idx,
         Holds(slots, a, p, b, w), Dist(a, w) <= Size,
         NEW a1 \in Idx, NEW p1 \in Idx, NEW b1 \in Idx, NEW w1 \in Idx,
         Dist(a, a1) <= Dist(a, p1), Dist(a, p1) <= Dist(a, p), Dist(a, a1) <= Dist(a, b1),
         Dist(a, b) <= Dist(a, b1), Dist(a, b1) <= Dist(a, w1), Dist(a, w1) <= Dist(a, w)
  PROVE  Holds(slots, a1, p1, b1, w1)
<1> SUFFICES ASSUME NEW i \in Idx
             PROVE  /\ Dist(a1, i) < Dist(a1, p1) => slots[i % Size][1] = "response"
                    /\ Dist(a1, b1) <= Dist(a1, i) /\ Dist(a1, i) < Dist(a1, w1) =>
                         slots[i % Size] = <<"request", i>>
  BY DEF Holds
<1> DEFINE d(j) == Dist(a, j)
<1>1. /\ d(a1) \in Nat /\ d(p1) \in Nat /\ d(b1) \in Nat /\ d(w1) \in Nat /\ d(i) \in Nat
      /\ d(p) \in Nat /\ d(b) \in Nat /\ d(w) \in Nat /\ d(w) < IndexMod
  BY DistPositive
<1>2. /\ Dist(a1, i) = IF d(a1) <= d(i) THEN d(i) - d(a1) ELSE d(i) - d(a1) + IndexMod
      /\ Dist(a1, p1) = d(p1) - d(a1) /\ Dist(a1, b1) = d(b1) - d(a1)
  BY DistFrom
<1>3. Dist(a1, w1) = d(w1) - d(a1)
  <2>1. d(a1) <= d(w1)
    BY <1>1
  <2> QED BY <2>1, DistFrom
<1>4. d(p) < IndexMod
  BY DistPositive
<1>5. Dist(a1, i) < Dist(a1, p1) => d(i) < d(p)
  BY <1>1, <1>2, <1>4, Sane
<1>6. Dist(a1, b1) <= Dist(a1, i) /\ Dist(a1, i) < Dist(a1, w1) => d(b) <= d(i) /\ d(i) < d(w)
  BY <1>1, <1>2, <1>3, Sane
<1> QED BY <1>5, <1>6 DEF Holds

\* A request goes into a slot of its own.
LEMMA HoldsRequest ==
  ASSUME NEW slots, DOMAIN slots = 0..(Size - 1),
         NEW a \in Idx, NEW p \in Idx, NEW b \in Idx, NEW w \in Idx,
         Holds(slots, a, p, b, w), Dist(a, p) <= Dist(a, w), Dist(a, w) < Size
  PROVE  Holds([slots EXCEPT ![w % Size] = <<"request", w>>], a, p, b, Wrapped(w + 1))
<1> DEFINE new == [slots EXCEPT ![w % Size] = <<"request", w>>]
           d(j) == Dist(a, j)
<1>1. d(Wrapped(w + 1)) = d(w) + 1 /\ d(w) \in Nat /\ d(p) \in Nat
  <2>1. d(w) \in Nat /\ d(p) \in Nat
    BY DistPositive
  <2>2. d(w) < IndexMod - 1
    BY <2>1, Sane
  <2> QED BY <2>1, <2>2, DistNext
<1>2. SUFFICES ASSUME NEW i \in Idx
      PROVE  /\ d(i) < d(p) => new[i % Size][1] = "response"
             /\ d(b) <= d(i) /\ d(i) < d(w) + 1 => new[i % Size] = <<"request", i>>
  BY <1>1 DEF Holds
<1>3. d(i) \in Nat /\ i % Size \in 0..(Size - 1) /\ w % Size \in 0..(Size - 1)
  BY DistPositive, SlotIn
<1>4. CASE d(i) < d(w)
  <2>1. d(w) < d(i) + Size
    BY <1>1, <1>3, Sane
  <2>2. i % Size # w % Size
    BY <1>4, <2>1, Apart
  <2>3. new[i % Size] = slots[i % Size]
    BY <1>3, <2>2
  <2> QED BY <1>4, <2>3 DEF Holds
<1>5. CASE d(i) = d(w)
  <2>1. Dist(i, w) = 0
    BY <1>3, <1>5, DistFrom
  <2>2. i = w
    BY <2>1, DistPositive
  <2>3. new[i % Size] = <<"request", i>>
    BY <1>3, <2>2
  <2> QED BY <1>1, <1>5, <2>3
<1>6. CASE d(i) > d(w)
  BY <1>1, <1>3, <1>6
<1> QED BY <1>1, <1>3, <1>4, <1>5, <1>6

\* A response goes into the slot of a request that was taken.
LEMMA HoldsResponse ==
  ASSUME NEW slots, DOMAIN slots = 0..(Size - 1), NEW x,
         NEW a \in Idx, NEW p \in Idx, NEW b \in Idx, NEW w \in Idx,
         Holds(slots, a, p, b, w), Dist(a, p) < Dist(a, b), Dist(a, b) <= Dist(a, w),
         Dist(a, w) <= Size
  PROVE  Holds([slots EXCEPT ![p % Size] = <<"response", x>>], a, Wrapped(p + 1), b, w)
<1> DEFINE new == [slots EXCEPT ![p % Size] = <<"response", x>>]
           d(j) == Dist(a, j)
<1>1. d(w) \in Nat /\ d(p) \in Nat /\ d(b) \in Nat
  BY DistPositive
<1>2. d(Wrapped(p + 1)) = d(p) + 1
  <2>1. d(p) < IndexMod - 1
    BY <1>1, Sane
  <2> QED BY <2>1, DistNext
<1>3. SUFFICES ASSUME NEW i \in Idx
      PROVE  /\ d(i) < d(p) + 1 => new[i % Size][1] = "response"
             /\ d(b) <= d(i) /\ d(i) < d(w) => new[i % Size] = <<"request", i>>
  BY <1>2 DEF Holds
<1>4. d(i) \in Nat /\ i % Size \in 0..(Size - 1) /\ p % Size \in 0..(Size - 1)
  BY DistPositive, SlotIn
<1>5. CASE d(i) < d(p)
  <2>1. d(p) < d(i) + Size
    BY <1>1, <1>4, Sane
  <2>2. i % Size # p % Size
    BY <1>5, <2>1, Apart
  <2>3. new[i % Size] = slots[i % Size]
    BY <1>4, <2>2
  <2> QED BY <1>1, <1>4, <1>5, <2>3 DEF Holds
<1>6. CASE d(i) = d(p)
  <2>1. Dist(i, p) = 0
    BY <1>4, <1>6, DistFrom
  <2>2. i = p
    BY <2>1, DistPositive
  <2>3. new[i % Size] = <<"response", x>>
    BY <1>4, <2>2
  <2> QED BY <1>1, <1>6, <2>3
<1>7. CASE d(i) > d(p)
  <2> SUFFICES ASSUME d(b) <= d(i), d(i) < d(w) PROVE new[i % Size] = <<"request", i>>
    BY <1>1, <1>4, <1>7
  <2>1. d(i) < d(p) + Size
    BY <1>1, <1>4, <1>7, Sane
  <2>2. p % Size # i % Size
    BY <1>7, <2>1, Apart
  <2>3. new[i % Size] = slots[i % Size]
    BY <1>4, <2>2
  <2> QED BY <2>3 DEF Holds
<1> QED BY <1>1, <1>4, <1>5, <1>6, <1>7
-----------------------------------------------------------------------------
(***************************************************************************)
(* Every step keeps the invariant                                          *)
(***************************************************************************)
LEMMA Ordered ==
  ASSUME TypeOK, Order
  PROVE  /\ Dist(cons["front"], prod["back"]) <= Dist(cons["front"], prod_pvt["back"])
         /\ Dist(cons["front"], prod_pvt["back"]) <= Dist(cons["front"], cons["back"])
         /\ Len(owed) > 0 =>
              Dist(cons["front"], prod_pvt["back"]) < Dist(cons["front"], cons["back"])
         /\ Dist(cons["front"], cons["back"]) <= Dist(cons["front"], prod["front"])
         /\ Dist(cons["front"], prod["front"]) <= Dist(cons["front"], prod_pvt["front"])
         /\ Dist(cons["front"], prod_pvt["front"]) <= Size
<1>1. /\ Dist(cons["front"], prod["back"]) \in Nat /\ Dist(cons["front"], prod_pvt["back"]) \in Nat
      /\ Dist(cons["front"], cons["back"]) \in Nat /\ Dist(cons["front"], prod["front"]) \in Nat
      /\ Dist(cons["front"], prod_pvt["front"]) \in Nat /\ Len(owed) \in Nat
  BY Known
<1> QED BY <1>1, Sane DEF Order, InOrder

LEMMA PutRequestSafe == ASSUME RingInv, PutRequest PROVE RingInv'
<1> DEFINE at == prod_pvt["front"]
<1> USE DEF RingInv
<1>1. /\ prod_pvt' = [prod_pvt EXCEPT !["front"] = Wrapped(at + 1)]
      /\ slot' = [slot EXCEPT ![at % Size] = <<"request", at>>]
      /\ pc' = [pc EXCEPT !["front"] = "running"]
      /\ pc["front"] \in {"running", "asleep"}
      /\ UNCHANGED <<prod, event, cons, old, pending, owed, restarts, cut>>
  BY DEF PutRequest, Put, TypeOK
<1>2. at \in Idx /\ at % Size \in 0..(Size - 1) /\ Wrapped(at + 1) \in Idx
  BY Known, NextIs, SlotIn
<1>3. prod_pvt'["front"] = Wrapped(at + 1) /\ prod_pvt'["back"] = prod_pvt["back"]
  BY <1>1, EndsAre DEF TypeOK
<1>4. Dist(cons["front"], at) < Size
  <2>1. Size - Dist(cons["front"], at) # 0
    BY DEF PutRequest, RING_FULL, RING_FREE_REQUESTS, Dist
  <2>2. Dist(cons["front"], at) \in Nat
    BY Known
  <2> QED BY <2>1, <2>2, Ordered, Sane
<1>5. TypeOK'
  <2>1. slot' \in [0..(Size - 1) -> {"none", "request", "response"} \X Idx]
    BY <1>1, <1>2 DEF TypeOK
  <2>2. prod_pvt' \in [Ends -> Idx] /\ pc' \in [Ends -> Places]
    BY <1>1, <1>2 DEF TypeOK, Places
  <2> QED BY <1>1, <2>1, <2>2 DEF TypeOK
<1>6. Order'
  <2>1. InOrder(cons["front"], prod["back"], prod_pvt["back"], Len(owed),
                cons["back"], prod["front"], Wrapped(at + 1))
    BY <1>4, Known, OrderKept DEF Order
  <2> QED BY <1>1, <1>3, <2>1 DEF Order
<1>7. SlotsKept'
  <2>1. DOMAIN slot = 0..(Size - 1)
    BY DEF TypeOK
  <2>2. Dist(cons["front"], prod_pvt["back"]) <= Dist(cons["front"], at)
    <3>1. /\ Dist(cons["front"], cons["back"]) \in Nat /\ Dist(cons["front"], prod["front"]) \in Nat
          /\ Dist(cons["front"], at) \in Nat /\ Dist(cons["front"], prod_pvt["back"]) \in Nat
      BY Known
    <3> QED BY <3>1, Ordered
  <2>3. Holds(slot', cons["front"], prod_pvt["back"], cons["back"], Wrapped(at + 1))
    BY <1>1, <1>4, <2>1, <2>2, Known, HoldsRequest DEF SlotsKept
  <2> QED BY <1>1, <1>3, <2>3 DEF SlotsKept
<1>8. Asked'
  BY <1>1, EndsAre DEF Asked, TypeOK
<1>9. Woken'
  BY <1>1, EndsAre DEF Woken, Told, TypeOK
<1> QED BY <1>5, <1>6, <1>7, <1>8, <1>9

LEMMA PutResponseSafe == ASSUME RingInv, PutResponse PROVE RingInv'
<1> DEFINE at == prod_pvt["back"]
<1> USE DEF RingInv
<1>1. /\ prod_pvt' = [prod_pvt EXCEPT !["back"] = Wrapped(at + 1)]
      /\ slot' = [slot EXCEPT ![at % Size] = <<"response", Head(owed)>>]
      /\ pc' = [pc EXCEPT !["back"] = "running"]
      /\ pc["back"] \in {"running", "asleep"}
      /\ owed # <<>> /\ owed' = Tail(owed)
      /\ UNCHANGED <<prod, event, cons, old, pending, restarts, cut>>
  BY DEF PutResponse, Put, TypeOK
<1>2. at \in Idx /\ at % Size \in 0..(Size - 1) /\ Wrapped(at + 1) \in Idx
  BY Known, NextIs, SlotIn
<1>3. prod_pvt'["back"] = Wrapped(at + 1) /\ prod_pvt'["front"] = prod_pvt["front"]
  BY <1>1, EndsAre DEF TypeOK
<1>4. Head(owed) \in Idx /\ owed' \in Seq(Idx) /\ Len(owed') = Len(owed) - 1 /\ Len(owed) > 0
  BY <1>1 DEF TypeOK
<1>5. TypeOK'
  <2>1. slot' \in [0..(Size - 1) -> {"none", "request", "response"} \X Idx]
    BY <1>1, <1>2, <1>4 DEF TypeOK
  <2>2. prod_pvt' \in [Ends -> Idx] /\ pc' \in [Ends -> Places]
    BY <1>1, <1>2 DEF TypeOK, Places
  <2> QED BY <1>1, <1>4, <2>1, <2>2 DEF TypeOK
<1>6. Order'
  <2>1. InOrder(cons["front"], prod["back"], Wrapped(at + 1), Len(owed) - 1,
                cons["back"], prod["front"], prod_pvt["front"])
    BY <1>4, Known, OrderKept DEF Order
  <2> QED BY <1>1, <1>3, <1>4, <2>1 DEF Order
<1>7. SlotsKept'
  <2>1. DOMAIN slot = 0..(Size - 1)
    BY DEF TypeOK
  <2>2. /\ Dist(cons["front"], at) < Dist(cons["front"], cons["back"])
        /\ Dist(cons["front"], cons["back"]) <= Dist(cons["front"], prod_pvt["front"])
        /\ Dist(cons["front"], prod_pvt["front"]) <= Size
    <3>1. /\ Dist(cons["front"], cons["back"]) \in Nat /\ Dist(cons["front"], prod["front"]) \in Nat
          /\ Dist(cons["front"], prod_pvt["front"]) \in Nat
      BY Known
    <3> QED BY <1>4, <3>1, Ordered
  <2>3. Holds(slot', cons["front"], Wrapped(at + 1), cons["back"], prod_pvt["front"])
    BY <1>1, <2>1, <2>2, Known, HoldsResponse DEF SlotsKept
  <2> QED BY <1>1, <1>3, <2>3 DEF SlotsKept
<1>8. Asked'
  BY <1>1, EndsAre DEF Asked, TypeOK
<1>9. Woken'
  BY <1>1, EndsAre DEF Woken, Told, TypeOK
<1> QED BY <1>5, <1>6, <1>7, <1>8, <1>9

\* A push wakes the other end if it has asked for it.
LEMMA PushSafe == ASSUME RingInv, NEW s \in Ends, Push(s) PROVE RingInv'
<1> USE DEF RingInv
<1>1. /\ pc[s] = "running" /\ prod_pvt[s] # prod[s]
      /\ old' = [old EXCEPT ![s] = prod[s]] /\ prod' = [prod EXCEPT ![s] = prod_pvt[s]]
      /\ pc' = [pc EXCEPT ![s] = "pushed"]
      /\ UNCHANGED <<slot, event, prod_pvt, cons, pending, owed, restarts, cut>>
  BY DEF Push
<1>2. TypeOK'
  BY <1>1, Known, EndsAre DEF TypeOK, Places
<1>3. Order'
  <2>1. CASE s = "front"
    <3>1. InOrder(cons["front"], prod["back"], prod_pvt["back"], Len(owed),
                  cons["back"], prod_pvt["front"], prod_pvt["front"])
      BY Known, OrderKept DEF Order
    <3>2. prod'["front"] = prod_pvt["front"] /\ prod'["back"] = prod["back"]
      BY <1>1, <2>1, EndsAre DEF TypeOK
    <3> QED BY <1>1, <3>1, <3>2 DEF Order
  <2>2. CASE s = "back"
    <3>1. InOrder(cons["front"], prod_pvt["back"], prod_pvt["back"], Len(owed),
                  cons["back"], prod["front"], prod_pvt["front"])
      BY Known, OrderKept DEF Order
    <3>2. prod'["back"] = prod_pvt["back"] /\ prod'["front"] = prod["front"]
      BY <1>1, <2>2, EndsAre DEF TypeOK
    <3> QED BY <1>1, <3>1, <3>2 DEF Order
  <2> QED BY <2>1, <2>2, EndsAre
<1>4. SlotsKept'
  BY <1>1 DEF SlotsKept
<1>5. Asked'
  BY <1>1, EndsAre DEF Asked, TypeOK
<1>6. Woken'
  <2> SUFFICES ASSUME NEW t \in Ends, pc'[t] = "asleep", cons'[t] # prod'[Other(t)]
               PROVE  Told(t)'
    BY DEF Woken
  <2>1. t # s /\ Other(t) = s /\ pc[t] = "asleep"
    BY <1>1, EndsAre DEF TypeOK
  <2>2. CASE cons[t] = prod[s]
    <3>1. event[t] = Wrapped(prod[s] + 1) /\ prod[s] \in Idx /\ prod_pvt[s] \in Idx
      BY <2>1, <2>2, Indices DEF Asked
    <3>2. MustNotify(prod_pvt[s], prod[s], event[t])
      BY <1>1, <3>1, Notifies
    <3>3. prod'[s] = prod_pvt[s] /\ old'[s] = prod[s] /\ pc'[s] = "pushed" /\ event' = event
      BY <1>1 DEF TypeOK
    <3> QED BY <2>1, <3>2, <3>3 DEF Told
  <2>3. CASE cons[t] # prod[s]
    BY <1>1, <2>1, <2>3 DEF Woken, Told
  <2> QED BY <2>2, <2>3
<1> QED BY <1>2, <1>3, <1>4, <1>5, <1>6

LEMMA CheckNotifySafe == ASSUME RingInv, NEW s \in Ends, CheckNotify(s) PROVE RingInv'
<1> USE DEF RingInv
<1>1. /\ pc[s] = "pushed" /\ old' = [old EXCEPT ![s] = 0]
      /\ pending' = [pending EXCEPT ![Other(s)] =
                       pending[Other(s)] \/ MustNotify(prod[s], old[s], event[Other(s)])]
      /\ pc' = [pc EXCEPT ![s] = "running"]
      /\ UNCHANGED <<slot, prod, event, prod_pvt, cons, owed, restarts, cut>>
  BY DEF CheckNotify
<1>2. 0 \in Idx /\ MustNotify(prod[s], old[s], event[Other(s)]) \in BOOLEAN
  BY Sane DEF Idx, MustNotify
<1>3. TypeOK'
  BY <1>1, <1>2, EndsAre DEF TypeOK, Places
<1>4. Order' /\ SlotsKept'
  BY <1>1 DEF Order, SlotsKept
<1>5. Asked'
  BY <1>1, EndsAre DEF Asked, TypeOK
<1>6. Woken'
  <2> SUFFICES ASSUME NEW t \in Ends, pc'[t] = "asleep", cons'[t] # prod'[Other(t)]
               PROVE  Told(t)'
    BY DEF Woken
  <2>1. t # s /\ Other(t) = s /\ pc[t] = "asleep" /\ Other(s) = t
    BY <1>1, EndsAre DEF TypeOK
  <2>2. Told(t)
    BY <1>1, <2>1 DEF Woken
  <2>3. pending[t] \/ MustNotify(prod[s], old[s], event[t]) \/ cut[s]
    BY <2>1, <2>2 DEF Told
  <2>4. pending'[t] \/ cut'[s]
    BY <1>1, <2>1, <2>3 DEF TypeOK
  <2> QED BY <2>1, <2>4 DEF Told
<1> QED BY <1>3, <1>4, <1>5, <1>6

LEMMA TakeSafe == ASSUME RingInv, NEW s \in Ends, Take(s) PROVE RingInv'
<1> USE DEF RingInv
<1>1. /\ pc[s] = "running" /\ HasUnconsumed(s)
      /\ owed' = IF s = "back" THEN Append(owed, slot[cons[s] % Size][2]) ELSE owed
      /\ cons' = [cons EXCEPT ![s] = Wrapped(cons[s] + 1)]
      /\ UNCHANGED <<slot, prod, event, prod_pvt, old, pc, pending, restarts, cut>>
  BY DEF Take, ReadSlot
<1>2. cons[s] # prod[Other(s)]
  BY <1>1, Consumable
<1>3. cons[s] \in Idx /\ cons[s] % Size \in 0..(Size - 1) /\ Wrapped(cons[s] + 1) \in Idx
  BY Indices, SlotIn, NextIs
<1>4. TypeOK'
  <2>1. slot[cons[s] % Size][2] \in Idx
    BY <1>3 DEF TypeOK
  <2> QED BY <1>1, <1>3, <2>1 DEF TypeOK
<1>5. ASSUME s = "front" PROVE Order' /\ SlotsKept'
  <2> DEFINE a == cons["front"]
  <2>1. cons'["front"] = Wrapped(a + 1) /\ cons'["back"] = cons["back"] /\ owed' = owed
    BY <1>1, <1>5, EndsAre DEF TypeOK
  <2>2. a # prod["back"]
    BY <1>2, <1>5, EndsAre
  <2>3. Order'
    <3>1. InOrder(Wrapped(a + 1), prod["back"], prod_pvt["back"], Len(owed),
                  cons["back"], prod["front"], prod_pvt["front"])
      BY <2>2, Known, OrderKept DEF Order
    <3> QED BY <1>1, <2>1, <3>1 DEF Order
  <2>4. SlotsKept'
    <3>1. Dist(a, a) = 0 /\ Dist(a, prod["back"]) > 0
      BY <2>2, Known, DistPositive
    <3>2. 0 < IndexMod - 1
      BY Sane
    <3>3. Dist(a, Wrapped(a + 1)) = 1
      <4>1. a \in Idx /\ Dist(a, a) < IndexMod - 1
        BY <3>1, <3>2, Known
      <4>2. Dist(a, Wrapped(a + 1)) = Dist(a, a) + 1
        BY <4>1, DistNext
      <4> QED BY <3>1, <4>2
    <3>4. /\ Dist(a, cons["back"]) \in Nat /\ Dist(a, prod["front"]) \in Nat
          /\ Dist(a, prod_pvt["front"]) \in Nat /\ Dist(a, prod_pvt["back"]) \in Nat
          /\ Dist(a, prod["back"]) \in Nat
      BY Known
    <3>5. /\ 1 <= Dist(a, prod_pvt["back"]) /\ 1 <= Dist(a, cons["back"])
          /\ Dist(a, cons["back"]) <= Dist(a, prod_pvt["front"])
          /\ Dist(a, prod_pvt["front"]) <= Size
          /\ Dist(a, prod_pvt["back"]) <= Dist(a, prod_pvt["back"])
          /\ Dist(a, cons["back"]) <= Dist(a, cons["back"])
          /\ Dist(a, prod_pvt["front"]) <= Dist(a, prod_pvt["front"])
      BY <3>1, <3>4, Ordered
    <3>6. Holds(slot, Wrapped(a + 1), prod_pvt["back"], cons["back"], prod_pvt["front"])
      BY <1>3, <1>5, <3>3, <3>5, Known, HoldsFewer DEF SlotsKept
    <3> QED BY <1>1, <2>1, <3>6 DEF SlotsKept
  <2> QED BY <2>3, <2>4
<1>6. ASSUME s = "back" PROVE Order' /\ SlotsKept'
  <2> DEFINE b == cons["back"]
             d(i) == Dist(cons["front"], i)
  <2>1. cons'["back"] = Wrapped(b + 1) /\ cons'["front"] = cons["front"]
    BY <1>1, <1>6, EndsAre DEF TypeOK
  <2>2. b # prod["front"]
    BY <1>2, <1>6, EndsAre
  <2>3. Len(owed') = Len(owed) + 1
    BY <1>1, <1>6 DEF TypeOK
  <2>4. InOrder(cons["front"], prod["back"], prod_pvt["back"], Len(owed) + 1,
                Wrapped(b + 1), prod["front"], prod_pvt["front"])
    BY <2>2, Known, OrderKept DEF Order
  <2>5. Order'
    BY <1>1, <2>1, <2>3, <2>4 DEF Order
  <2>6. SlotsKept'
    <3>1. /\ d(prod_pvt["back"]) \in Nat /\ d(b) \in Nat /\ d(Wrapped(b + 1)) \in Nat
          /\ d(prod["front"]) \in Nat /\ d(prod_pvt["front"]) \in Nat /\ Len(owed) \in Nat
      BY <1>3, <1>6, Known
    <3>2. d(Wrapped(b + 1)) = d(b) + 1
      <4>1. Dist(b, prod["front"]) > 0
        BY <2>2, Known, DistPositive
      <4>2. Dist(b, prod["front"]) = d(prod["front"]) - d(b)
        BY Known, Ordered, DistFrom
      <4>3. d(b) < IndexMod - 1
        BY <3>1, <4>1, <4>2, Ordered, Sane
      <4> QED BY <4>3, Known, DistNext
    <3>3. /\ d(cons["front"]) = 0 /\ d(Wrapped(b + 1)) <= d(prod_pvt["front"])
          /\ d(b) <= d(Wrapped(b + 1))
      <4>1. d(cons["front"]) = 0
        BY Known, DistPositive
      <4> QED BY <2>4, <3>1, <3>2, <4>1, Sane DEF InOrder
    <3>4. /\ d(cons["front"]) <= d(prod_pvt["back"]) /\ d(cons["front"]) <= d(Wrapped(b + 1))
          /\ d(prod_pvt["back"]) <= d(prod_pvt["back"])
          /\ d(prod_pvt["front"]) <= d(prod_pvt["front"])
      BY <3>1, <3>3
    <3>5. Holds(slot, cons["front"], prod_pvt["back"], Wrapped(b + 1), prod_pvt["front"])
      BY <1>3, <1>6, <3>3, <3>4, Known, Ordered, HoldsFewer DEF SlotsKept
    <3> QED BY <1>1, <2>1, <3>5 DEF SlotsKept
  <2> QED BY <2>5, <2>6
<1>7. Asked'
  BY <1>1, EndsAre DEF Asked, TypeOK
<1>8. Woken'
  BY <1>1, EndsAre DEF Woken, Told, TypeOK
<1> QED BY <1>4, <1>5, <1>6, <1>7, <1>8, EndsAre

\* An end that has found nothing asks for an event, or does not sleep.
LEMMA SleepSafe ==
  ASSUME RingInv, NEW s \in Ends,
         FinalCheck(s) \/ AskForEvent(s) \/ LookAgain(s) \/ Wake(s)
  PROVE  RingInv'
<1> USE DEF RingInv
<1>1. CASE FinalCheck(s)
  <2>1. /\ pc[s] = "running" /\ pc' = [pc EXCEPT ![s] = "idle"]
        /\ UNCHANGED <<slot, prod, event, prod_pvt, cons, old, pending, owed, restarts, cut>>
    BY <1>1 DEF FinalCheck, shared
  <2>2. TypeOK'
    BY <2>1 DEF TypeOK, Places
  <2>3. Order' /\ SlotsKept'
    BY <2>1 DEF Order, SlotsKept
  <2>4. Asked' /\ Woken'
    BY <2>1, EndsAre DEF Asked, Woken, Told, TypeOK
  <2> QED BY <2>2, <2>3, <2>4
<1>2. CASE AskForEvent(s)
  <2>1. /\ pc[s] = "idle" /\ pc' = [pc EXCEPT ![s] = "checked"]
        /\ event' = [event EXCEPT ![s] = Wrapped(cons[s] + 1)]
        /\ UNCHANGED <<slot, prod, prod_pvt, cons, old, pending, owed, restarts, cut>>
    BY <1>2 DEF AskForEvent
  <2>2. Wrapped(cons[s] + 1) \in Idx
    BY Indices, NextIs
  <2>3. TypeOK'
    BY <2>1, <2>2 DEF TypeOK, Places
  <2>4. Order' /\ SlotsKept'
    BY <2>1 DEF Order, SlotsKept
  <2>5. Asked'
    BY <2>1, EndsAre DEF Asked, TypeOK
  <2>6. Woken'
    BY <2>1, EndsAre DEF Woken, Told, TypeOK
  <2> QED BY <2>3, <2>4, <2>5, <2>6
<1>3. CASE LookAgain(s)
  <2>1. /\ pc[s] = "checked"
        /\ pc' = [pc EXCEPT ![s] = IF HasUnconsumed(s) THEN "running" ELSE "asleep"]
        /\ cut' = [cut EXCEPT ![Other(s)] = FALSE]
        /\ UNCHANGED <<slot, prod, event, prod_pvt, cons, old, pending, owed, restarts>>
    BY <1>3 DEF LookAgain, shared
  <2>2. HasUnconsumed(s) <=> cons[s] # prod[Other(s)]
    BY Consumable
  <2>3. TypeOK'
    BY <2>1 DEF TypeOK, Places
  <2>4. Order' /\ SlotsKept'
    BY <2>1 DEF Order, SlotsKept
  <2>5. Asked'
    BY <2>1, EndsAre DEF Asked, TypeOK
  <2>6. Woken'
    BY <2>1, <2>2, EndsAre DEF Woken, Told, TypeOK
  <2> QED BY <2>3, <2>4, <2>5, <2>6
<1>4. CASE Wake(s)
  <2>1. /\ pc[s] = "asleep" /\ pc' = [pc EXCEPT ![s] = "running"]
        /\ pending' = [pending EXCEPT ![s] = FALSE]
        /\ UNCHANGED <<slot, prod, event, prod_pvt, cons, old, owed, restarts, cut>>
    BY <1>4 DEF Wake, shared
  <2>2. TypeOK'
    BY <2>1 DEF TypeOK, Places
  <2>3. Order' /\ SlotsKept'
    BY <2>1 DEF Order, SlotsKept
  <2>4. Asked' /\ Woken'
    BY <2>1, EndsAre DEF Asked, Woken, Told, TypeOK
  <2> QED BY <2>2, <2>3, <2>4
<1> QED BY <1>1, <1>2, <1>3, <1>4

\* An end that is attached again knows only the published indices.
LEMMA AttachSafe == ASSUME RingInv, NEW s \in Ends, Attach(s) PROVE RingInv'
<1> USE DEF RingInv
<1>1. /\ restarts[s] < MaxRestarts
      /\ restarts' = [restarts EXCEPT ![s] = restarts[s] + 1]
      /\ cut' = [cut EXCEPT ![s] = cut[s] \/ pc[s] = "pushed"]
      /\ prod_pvt' = [prod_pvt EXCEPT ![s] = prod[s]]
      /\ cons' = [cons EXCEPT ![s] = prod[Other(s)]]
      /\ owed' = IF s = "back" THEN <<>> ELSE owed
      /\ pc' = [pc EXCEPT ![s] = "running"] /\ old' = [old EXCEPT ![s] = 0]
      /\ UNCHANGED <<slot, prod, event, pending>>
  BY DEF Attach, shared
<1>2. 0 \in Idx /\ prod[s] \in Idx /\ prod[Other(s)] \in Idx
  BY Sane, Indices, EndsAre DEF Idx
<1> DEFINE times == restarts[s]
<1>9. times \in 0..MaxRestarts /\ times < MaxRestarts /\ MaxRestarts \in Nat
  BY <1>1, RingAssumption DEF TypeOK
<1>10. times + 1 \in 0..MaxRestarts
  BY <1>9
<1>3. TypeOK'
  <2>1. owed' \in Seq(Idx) /\ restarts' \in [Ends -> 0..MaxRestarts] /\ cut' \in [Ends -> BOOLEAN]
    BY <1>1, <1>10 DEF TypeOK
  <2> QED BY <1>1, <1>2, <2>1 DEF TypeOK, Places
<1> DEFINE a == cons["front"]
           r == prod["back"]
           p == prod_pvt["back"]
           b == cons["back"]
           q == prod["front"]
           w == prod_pvt["front"]
<1>4. /\ Dist(a, r) \in Nat /\ Dist(a, p) \in Nat /\ Dist(a, b) \in Nat
      /\ Dist(a, q) \in Nat /\ Dist(a, w) \in Nat /\ Dist(a, a) = 0
  BY Known, DistPositive
<1>5. /\ Dist(a, r) <= Dist(a, p) /\ Dist(a, p) <= Dist(a, b) /\ Dist(a, b) <= Dist(a, q)
      /\ Dist(a, q) <= Dist(a, w) /\ Dist(a, w) <= Size
  BY Ordered
<1>6. ASSUME s = "front" PROVE Order' /\ SlotsKept'
  <2>1. /\ cons'["front"] = r /\ cons'["back"] = b /\ prod_pvt'["front"] = q
        /\ prod_pvt'["back"] = p /\ owed' = owed
    BY <1>1, <1>6, EndsAre DEF TypeOK
  <2>2. InOrder(r, r, p, Len(owed), b, q, q)
    BY Known, OrderKept DEF Order
  <2>3. Holds(slot, r, p, b, q)
    <3>1. /\ Dist(a, p) <= Dist(a, p) /\ Dist(a, r) <= Dist(a, b) /\ Dist(a, b) <= Dist(a, b)
      BY <1>4, <1>5
    <3> QED BY <1>5, <3>1, Known, HoldsFewer DEF SlotsKept
  <2> QED BY <1>1, <2>1, <2>2, <2>3 DEF Order, SlotsKept
<1>7. ASSUME s = "back" PROVE Order' /\ SlotsKept'
  <2>1. /\ cons'["front"] = a /\ cons'["back"] = q /\ prod_pvt'["front"] = w
        /\ prod_pvt'["back"] = r /\ owed' = <<>> /\ Len(owed') = 0
    BY <1>1, <1>7, EndsAre DEF TypeOK
  <2>2. InOrder(a, r, r, 0, q, q, w)
    BY Known, OrderKept DEF Order
  <2>3. Holds(slot, a, r, q, w)
    <3>1. /\ Dist(a, a) <= Dist(a, r) /\ Dist(a, a) <= Dist(a, q) /\ Dist(a, b) <= Dist(a, q)
          /\ Dist(a, w) <= Dist(a, w)
      BY <1>4, <1>5
    <3> QED BY <1>5, <3>1, Known, HoldsFewer DEF SlotsKept
  <2> QED BY <1>1, <2>1, <2>2, <2>3 DEF Order, SlotsKept
<1>8. Asked'
  BY <1>1, EndsAre DEF Asked, TypeOK
<1>11. Woken'
  <2> SUFFICES ASSUME NEW t \in Ends, pc'[t] = "asleep", cons'[t] # prod'[Other(t)]
               PROVE  Told(t)'
    BY DEF Woken
  <2>1. t # s /\ Other(t) = s /\ pc[t] = "asleep"
    BY <1>1, EndsAre DEF TypeOK
  <2>2. Told(t)
    BY <1>1, <2>1 DEF Woken
  <2>3. pending[t] \/ pc[s] = "pushed" \/ cut[s]
    BY <2>1, <2>2 DEF Told
  <2>4. pending'[t] \/ cut'[s]
    BY <1>1, <2>3 DEF TypeOK
  <2> QED BY <2>1, <2>4 DEF Told
<1> QED BY <1>3, <1>6, <1>7, <1>8, <1>11, EndsAre
-----------------------------------------------------------------------------
(***************************************************************************)
(* The invariant holds, and with it what SharedRing promises               *)
(***************************************************************************)
LEMMA InitSafe == Init => RingInv
<1> SUFFICES ASSUME Init PROVE RingInv
  OBVIOUS
<1>1. 0 \in Idx /\ 1 \in Idx /\ 0 \in 0..MaxRestarts
  BY Sane, RingAssumption DEF Idx
<1>2. TypeOK
  BY <1>1 DEF Init, TypeOK, Places
<1>3. Dist(0, 0) = 0 /\ \A i \in Idx : Dist(0, i) \in Nat
  BY <1>1, DistPositive
<1>4. /\ cons = [s \in Ends |-> 0] /\ prod = [s \in Ends |-> 0]
      /\ prod_pvt = [s \in Ends |-> 0] /\ owed = <<>> /\ Len(owed) = 0
      /\ pc = [s \in Ends |-> "running"]
  BY DEF Init
<1>5. Order
  BY <1>3, <1>4, EndsAre, Sane DEF Order, InOrder
<1>6. SlotsKept
  <2>1. Holds(slot, 0, 0, 0, 0)
    BY <1>3 DEF Holds
  <2> QED BY <1>4, <2>1, EndsAre DEF SlotsKept
<1>7. Asked /\ Woken
  BY <1>4 DEF Asked, Woken
<1> QED BY <1>2, <1>5, <1>6, <1>7 DEF RingInv

LEMMA NextSafe == RingInv /\ [Next]_vars => RingInv'
<1> SUFFICES ASSUME RingInv, [Next]_vars PROVE RingInv'
  OBVIOUS
<1>1. CASE PutRequest
  BY <1>1, PutRequestSafe
<1>2. CASE PutResponse
  BY <1>2, PutResponseSafe
<1>3. ASSUME NEW s \in Ends, Step(s) PROVE RingInv'
  BY <1>3, PushSafe, CheckNotifySafe, TakeSafe, SleepSafe DEF Step
<1>4. ASSUME NEW s \in Ends, Attach(s) PROVE RingInv'
  BY <1>4, AttachSafe
<1>5. CASE UNCHANGED vars
  BY <1>5 DEF vars, RingInv, TypeOK, Order, SlotsKept, Asked, Woken, Told
<1> QED BY <1>1, <1>2, <1>3, <1>4, <1>5 DEF Next

\* An end that is asleep while there is something to take has its event on the way.
LEMMA InvWakes == RingInv => NoWakeUpLost
BY Consumable DEF RingInv, Woken, Told, NoWakeUpLost

\* Between cons and prod_pvt the slots hold what was put into them.
LEMMA InvKeeps == RingInv => NothingOverwritten
<1> SUFFICES ASSUME RingInv PROVE NothingOverwritten
  OBVIOUS
<1> USE DEF RingInv
<1> DEFINE a == cons["front"]
           p == prod_pvt["back"]
           b == cons["back"]
           w == prod_pvt["front"]
           d(i) == Dist(a, i)
<1>1. a \in Idx /\ p \in Idx /\ b \in Idx /\ w \in Idx
  BY Known
<1>2. \A i \in Idx : d(i) \in Nat /\ d(i) < IndexMod
  BY Known
<1>3. d(b) <= d(w)
  <2>1. d(prod["front"]) \in Nat
    BY Known
  <2> QED BY <1>1, <1>2, <2>1, Ordered
<1>4. ASSUME NEW k \in DOMAIN Span(b, w)
      PROVE  slot[Span(b, w)[k] % Size] = <<"request", Span(b, w)[k]>>
  <2> DEFINE at == Span(b, w)[k]
  <2>1. at \in Idx /\ Dist(b, at) \in Nat /\ Dist(b, at) < Dist(b, w)
    BY <1>1, InSpan
  <2> HIDE DEF at
  <2>2. Dist(b, w) = d(w) - d(b)
    BY <1>1, <1>3, DistFrom
  <2>3. Dist(b, at) = IF d(b) <= d(at) THEN d(at) - d(b) ELSE d(at) - d(b) + IndexMod
    BY <1>1, <2>1, DistFrom
  <2>4. d(at) \in Nat /\ d(b) \in Nat /\ d(w) \in Nat /\ d(w) < IndexMod
    BY <1>1, <1>2, <2>1
  <2>5. d(b) <= d(at) /\ d(at) < d(w)
    BY <2>1, <2>2, <2>3, <2>4, Sane
  <2>6. slot[at % Size] = <<"request", at>>
    BY <2>1, <2>5 DEF SlotsKept, Holds
  <2> QED BY <2>6 DEF at
<1>5. ASSUME NEW k \in DOMAIN Span(a, p)
      PROVE  slot[Span(a, p)[k] % Size][1] = "response"
  <2>1. Span(a, p)[k] \in Idx /\ Dist(a, Span(a, p)[k]) < Dist(a, p)
    BY <1>1, InSpan
  <2> QED BY <2>1 DEF SlotsKept, Holds
<1> QED BY <1>4, <1>5 DEF NothingOverwritten

\* For rings of any size, whatever the two ends do, in whatever order, and whenever one of them
\* is attached again: the indices, the slots and the event indices of the macros of ring.h have
\* their types; no end sleeps over a message that no event tells it of, unless the other was
\* restarted between publishing that message and reading the event index; and no slot is
\* written again before what is in it was read.
THEOREM RingCorrect == Spec => []RingSafe
<1>1. RingInv => RingSafe
  BY InvWakes, InvKeeps DEF RingInv, RingSafe
<1>2. Spec => []RingInv
  BY InitSafe, NextSafe, PTL DEF Spec
<1> QED BY <1>1, <1>2, PTL
-----------------------------------------------------------------------------
(***************************************************************************)
(* What lies between two indices, as a sequence                            *)
(***************************************************************************)
Held(slots, a, b) == [i \in DOMAIN Span(a, b) |-> slots[Span(a, b)[i] % Size][2]]

Slots == [0..(Size - 1) -> {"none", "request", "response"} \X Idx]

LEMMA HeldIs ==
  ASSUME NEW slots \in Slots, NEW a \in Idx, NEW b \in Idx
  PROVE  /\ Held(slots, a, b) \in Seq(Idx) /\ Len(Held(slots, a, b)) = Dist(a, b)
         /\ \A k \in 1..Dist(a, b) :
              Held(slots, a, b)[k] = slots[Wrapped(a + k - 1) % Size][2]
<1> DEFINE n == Dist(a, b)
           h == [k \in 1..n |-> slots[Span(a, b)[k] % Size][2]]
<1>1. n \in Nat /\ DOMAIN Span(a, b) = 1..n
  BY SpanIs, DistPositive
<1>2. ASSUME NEW k \in 1..n
      PROVE  slots[Span(a, b)[k] % Size][2] \in Idx /\ Span(a, b)[k] = Wrapped(a + k - 1)
  <2>1. Span(a, b)[k] \in Idx /\ Span(a, b)[k] = Wrapped(a + k - 1)
    BY SpanIs
  <2>2. slots[Span(a, b)[k] % Size] \in {"none", "request", "response"} \X Idx
    BY <2>1, SlotIn DEF Slots
  <2> QED BY <2>1, <2>2
<1>3. Held(slots, a, b) = h
  BY <1>1 DEF Held
<1> HIDE DEF n
<1>4. h \in [1..n -> Idx]
  BY <1>2
<1>5. h \in Seq(Idx)
  BY <1>1, <1>4, SeqDef
<1>6. Len(h) = n
  BY <1>1, <1>5
<1> QED BY <1>2, <1>3, <1>5, <1>6 DEF n

\* The index of the k-th entry, and what is there.
LEMMA HeldAt ==
  ASSUME NEW slots \in Slots, NEW a \in Idx, NEW b \in Idx, NEW k \in 1..Dist(a, b)
  PROVE  \E i \in Idx : Dist(a, i) = k - 1 /\ Held(slots, a, b)[k] = slots[i % Size][2]
<1>1. Wrapped(a + k - 1) \in Idx /\ Dist(a, Wrapped(a + k - 1)) = k - 1
  BY SpanIs
<1> QED BY <1>1, HeldIs

\* An index is known by its distance.
LEMMA SameDist ==
  ASSUME NEW a \in Idx, NEW i \in Idx, NEW j \in Idx, Dist(a, i) = Dist(a, j)
  PROVE  i = j
<1>1. Dist(i, j) = 0
  <2>1. Dist(a, i) \in Nat
    BY DistPositive
  <2> QED BY <2>1, DistFrom
<1> QED BY <1>1, DistPositive

\* The slots of the indices from a up to b are the same.
LEMMA HeldSame ==
  ASSUME NEW s \in Slots, NEW t \in Slots, NEW a \in Idx, NEW b \in Idx,
         \A i \in Idx : Dist(a, i) < Dist(a, b) => s[i % Size] = t[i % Size]
  PROVE  Held(s, a, b) = Held(t, a, b)
<1>1. Dist(a, b) \in Nat
  BY DistPositive
<1>2. \A k \in 1..Dist(a, b) : Held(s, a, b)[k] = Held(t, a, b)[k]
  <2> SUFFICES ASSUME NEW k \in 1..Dist(a, b) PROVE Held(s, a, b)[k] = Held(t, a, b)[k]
    OBVIOUS
  <2> DEFINE i == Wrapped(a + k - 1)
  <2>1. i \in Idx /\ Dist(a, i) = k - 1
    BY SpanIs
  <2>2. Held(s, a, b)[k] = s[i % Size][2] /\ Held(t, a, b)[k] = t[i % Size][2]
    BY HeldIs
  <2> HIDE DEF i
  <2>3. s[i % Size] = t[i % Size]
    BY <1>1, <2>1
  <2> QED BY <2>2, <2>3
<1>3. /\ Held(s, a, b) \in Seq(Idx) /\ Len(Held(s, a, b)) = Dist(a, b)
      /\ Held(t, a, b) \in Seq(Idx) /\ Len(Held(t, a, b)) = Dist(a, b)
  BY HeldIs
<1> QED BY <1>2, <1>3, SeqEqual

LEMMA HeldNone ==
  ASSUME NEW s \in Slots, NEW a \in Idx
  PROVE  Held(s, a, a) = <<>>
<1>1. Held(s, a, a) \in Seq(Idx) /\ Len(Held(s, a, a)) = 0
  BY HeldIs, DistPositive
<1> QED BY <1>1, EmptySeq

\* From a up to c by way of b.
LEMMA HeldSplit ==
  ASSUME NEW s \in Slots, NEW a \in Idx, NEW b \in Idx, NEW c \in Idx,
         Dist(a, b) <= Dist(a, c)
  PROVE  Held(s, a, c) = Held(s, a, b) \o Held(s, b, c)
<1>1. Dist(a, b) \in Nat /\ Dist(a, c) \in Nat /\ Dist(a, c) < IndexMod /\ Dist(b, c) \in Nat
      /\ Dist(b, c) = Dist(a, c) - Dist(a, b)
  BY DistPositive, DistFrom
<1>2. /\ Held(s, a, c) \in Seq(Idx) /\ Len(Held(s, a, c)) = Dist(a, c)
      /\ Held(s, a, b) \in Seq(Idx) /\ Len(Held(s, a, b)) = Dist(a, b)
      /\ Held(s, b, c) \in Seq(Idx) /\ Len(Held(s, b, c)) = Dist(b, c)
  BY HeldIs
<1> DEFINE both == Held(s, a, b) \o Held(s, b, c)
<1>3. /\ both \in Seq(Idx) /\ Len(both) = Dist(a, c)
      /\ \A k \in 1..Dist(a, c) :
           both[k] = IF k <= Dist(a, b) THEN Held(s, a, b)[k] ELSE Held(s, b, c)[k - Dist(a, b)]
  <2> DEFINE x == Held(s, a, b)
             y == Held(s, b, c)
  <2>1. x \in Seq(Idx) /\ y \in Seq(Idx) /\ Len(x) = Dist(a, b)
        /\ Dist(a, c) = Len(x) + Len(y)
    BY <1>1, <1>2
  <2> HIDE DEF x, y
  <2>2. /\ x \o y \in Seq(Idx) /\ Len(x \o y) = Dist(a, c)
        /\ \A k \in 1..Dist(a, c) :
             (x \o y)[k] = IF k <= Dist(a, b) THEN x[k] ELSE y[k - Dist(a, b)]
    BY <2>1, ConcatProperties
  <2> QED BY <2>2 DEF x, y
<1> HIDE DEF both
<1>4. ASSUME NEW k \in 1..Dist(a, c) PROVE Held(s, a, c)[k] = both[k]
  <2>1. PICK i \in Idx : Dist(a, i) = k - 1 /\ Held(s, a, c)[k] = s[i % Size][2]
    BY HeldAt
  <2>2. CASE k <= Dist(a, b)
    <3>1. k \in 1..Dist(a, b)
      BY <1>1, <2>2
    <3>2. PICK j \in Idx : Dist(a, j) = k - 1 /\ Held(s, a, b)[k] = s[j % Size][2]
      BY <3>1, HeldAt
    <3>3. i = j
      BY <2>1, <3>2, SameDist
    <3>4. both[k] = Held(s, a, b)[k]
      BY <1>3, <2>2
    <3> QED BY <2>1, <3>2, <3>3, <3>4
  <2>3. CASE k > Dist(a, b)
    <3> DEFINE m == k - Dist(a, b)
    <3>1. m \in 1..Dist(b, c) /\ m = k - Dist(a, b) /\ ~(k <= Dist(a, b))
      BY <1>1, <2>3
    <3>2. both[k] = Held(s, b, c)[m]
      BY <1>3, <3>1
    <3> HIDE DEF m
    <3>3. PICK j \in Idx : Dist(b, j) = m - 1 /\ Held(s, b, c)[m] = s[j % Size][2]
      BY <3>1, HeldAt
    <3>4. Dist(b, i) = m - 1
      <4>1. Dist(a, b) <= Dist(a, i)
        BY <1>1, <2>1, <2>3
      <4>2. Dist(b, i) = Dist(a, i) - Dist(a, b)
        BY <4>1, DistFrom
      <4> QED BY <1>1, <2>1, <3>1, <4>2
    <3>5. i = j
      BY <3>3, <3>4, SameDist
    <3> QED BY <2>1, <3>2, <3>3, <3>5
  <2>4. k <= Dist(a, b) \/ k > Dist(a, b)
    BY <1>1
  <2> QED BY <2>2, <2>3, <2>4
<1>5. Held(s, a, c) = both
  BY <1>2, <1>3, <1>4, SeqEqual
<1> QED BY <1>5 DEF both

\* One index only.
LEMMA HeldOne ==
  ASSUME NEW s \in Slots, NEW a \in Idx
  PROVE  Held(s, a, Wrapped(a + 1)) = <<s[a % Size][2]>> /\ s[a % Size][2] \in Idx
<1>1. Wrapped(a + 1) \in Idx
  BY NextIs
<1>2. Dist(a, Wrapped(a + 1)) = 1
  <2>1. Dist(a, a) = 0 /\ 0 < IndexMod - 1
    BY DistPositive, Sane
  <2> QED BY <2>1, DistNext
<1>3. s[a % Size] \in {"none", "request", "response"} \X Idx
  BY SlotIn DEF Slots
<1> DEFINE h == Held(s, a, Wrapped(a + 1))
<1>4. h \in Seq(Idx) /\ Len(h) = 1
  BY <1>1, <1>2, HeldIs
<1>5. h[1] = s[a % Size][2]
  <2>1. PICK i \in Idx : Dist(a, i) = 1 - 1 /\ h[1] = s[i % Size][2]
    BY <1>1, <1>2, HeldAt
  <2>2. i = a
    BY <2>1, DistPositive
  <2> QED BY <2>1, <2>2
<1> HIDE DEF h
<1>6. h = <<s[a % Size][2]>>
  BY <1>3, <1>4, <1>5
<1> QED BY <1>3, <1>6 DEF h

\* What is between x and y, seen from o.
LEMMA Within ==
  ASSUME NEW o \in Idx, NEW x \in Idx, NEW y \in Idx, NEW i \in Idx,
         Dist(o, x) <= Dist(o, y), Dist(x, i) < Dist(x, y)
  PROVE  Dist(o, x) <= Dist(o, i) /\ Dist(o, i) < Dist(o, y)
<1>1. /\ Dist(o, x) \in Nat /\ Dist(o, y) \in Nat /\ Dist(o, i) \in Nat /\ Dist(o, y) < IndexMod
      /\ Dist(x, y) = Dist(o, y) - Dist(o, x)
      /\ Dist(x, i) = IF Dist(o, x) <= Dist(o, i) THEN Dist(o, i) - Dist(o, x)
                      ELSE Dist(o, i) - Dist(o, x) + IndexMod
  BY DistPositive, DistFrom
<1> QED BY <1>1, Sane

\* What is written less than the ring behind or ahead of them leaves the indices from x up to
\* y alone.
LEMMA Untouched ==
  ASSUME NEW slots \in Slots, NEW new \in Slots, NEW at \in Idx,
         \A j \in 0..(Size - 1) : j # at % Size => new[j] = slots[j],
         NEW o \in Idx, NEW x \in Idx, NEW y \in Idx, Dist(o, x) <= Dist(o, y),
         \/ Dist(o, y) <= Dist(o, at) /\ Dist(o, at) < Dist(o, x) + Size
         \/ Dist(o, at) < Dist(o, x) /\ Dist(o, y) <= Dist(o, at) + Size
  PROVE  Held(new, x, y) = Held(slots, x, y)
<1> SUFFICES ASSUME NEW i \in Idx, Dist(x, i) < Dist(x, y)
             PROVE  new[i % Size] = slots[i % Size]
  BY HeldSame
<1>1. Dist(o, x) <= Dist(o, i) /\ Dist(o, i) < Dist(o, y)
  BY Within
<1>2. /\ Dist(o, x) \in Nat /\ Dist(o, y) \in Nat /\ Dist(o, i) \in Nat /\ Dist(o, at) \in Nat
      /\ Size \in Nat
  BY DistPositive, Sane
<1>3. i % Size # at % Size
  <2>1. CASE Dist(o, y) <= Dist(o, at) /\ Dist(o, at) < Dist(o, x) + Size
    <3>1. Dist(o, i) < Dist(o, at) /\ Dist(o, at) < Dist(o, i) + Size
      BY <1>1, <1>2, <2>1
    <3> QED BY <3>1, Apart
  <2>2. CASE Dist(o, at) < Dist(o, x) /\ Dist(o, y) <= Dist(o, at) + Size
    <3>1. Dist(o, at) < Dist(o, i) /\ Dist(o, i) < Dist(o, at) + Size
      BY <1>1, <1>2, <2>2
    <3> QED BY <3>1, Apart
  <2> QED BY <2>1, <2>2
<1> QED BY <1>3, SlotIn

LEMMA FirstAndRest ==
  ASSUME NEW S, NEW e \in S, NEW t \in Seq(S)
  PROVE  /\ <<e>> \o t \in Seq(S) /\ <<e>> \o t # <<>>
         /\ Head(<<e>> \o t) = e /\ Tail(<<e>> \o t) = t
<1>1. <<e>> \in Seq(S) /\ Len(<<e>>) = 1 /\ <<e>>[1] = e
  OBVIOUS
<1> DEFINE c == <<e>> \o t
<1>2. c \in Seq(S) /\ Len(c) = 1 + Len(t) /\ Len(t) \in Nat
      /\ \A i \in 1..(1 + Len(t)) : c[i] = IF i <= 1 THEN <<e>>[i] ELSE t[i - 1]
  BY <1>1, ConcatProperties, LenProperties
<1> HIDE DEF c
<1>3. c # <<>> /\ Head(c) = e
  BY <1>1, <1>2
<1>4. Tail(c) \in Seq(S) /\ Len(Tail(c)) = Len(t) /\ \A i \in 1..Len(t) : Tail(c)[i] = c[i + 1]
  BY <1>2, <1>3, HeadTailProperties
<1>5. \A i \in 1..Len(t) : Tail(c)[i] = t[i]
  BY <1>2, <1>4
<1>6. Tail(c) = t
  BY <1>4, <1>5, SeqEqual
<1> QED BY <1>2, <1>3, <1>6 DEF c

LEMMA HeadAndTail ==
  ASSUME NEW S, NEW t \in Seq(S), t # <<>>
  PROVE  <<Head(t)>> \o Tail(t) = t /\ Head(t) \in S /\ Tail(t) \in Seq(S)
<1>1. /\ Head(t) \in S /\ Tail(t) \in Seq(S) /\ Len(Tail(t)) = Len(t) - 1 /\ Len(t) \in Nat \ {0}
      /\ \A i \in 1..Len(Tail(t)) : Tail(t)[i] = t[i + 1]
  BY HeadTailProperties, EmptySeq
<1> DEFINE one == <<Head(t)>>
           rest == Tail(t)
           c == one \o rest
<1>2. one \in Seq(S) /\ Len(one) = 1 /\ one[1] = t[1] /\ rest \in Seq(S)
  BY <1>1
<1> HIDE DEF one, rest
<1>3. c \in Seq(S) /\ Len(c) = 1 + Len(rest)
      /\ \A i \in 1..(1 + Len(rest)) : c[i] = IF i <= 1 THEN one[i] ELSE rest[i - 1]
  <2>1. c \in Seq(S) /\ Len(c) = Len(one) + Len(rest)
        /\ \A i \in 1..(Len(one) + Len(rest)) :
             c[i] = IF i <= Len(one) THEN one[i] ELSE rest[i - Len(one)]
    BY <1>2, ConcatProperties
  <2> QED BY <1>2, <2>1
<1>4. Len(rest) = Len(t) - 1 /\ Len(t) \in Nat \ {0} /\ \A i \in 1..Len(rest) : rest[i] = t[i + 1]
  BY <1>1 DEF rest
<1> HIDE DEF c
<1>5. Len(c) = Len(t) /\ \A i \in 1..Len(t) : c[i] = t[i]
  BY <1>2, <1>3, <1>4
<1>6. c = t
  BY <1>3, <1>5, SeqEqual
<1> QED BY <1>1, <1>6 DEF c, one, rest
-----------------------------------------------------------------------------
(***************************************************************************)
(* The ring is a channel of requests and responses                         *)
(***************************************************************************)
Sent == Content(cons["back"], prod["front"])
Worked == Content(prod["back"], prod_pvt["back"])
Answered == Content(cons["front"], prod["back"])

LEMMA Views ==
  /\ Sent = Held(slot, cons["back"], prod["front"])
  /\ Worked = Held(slot, prod["back"], prod_pvt["back"])
  /\ Answered = Held(slot, cons["front"], prod["back"])
BY DEF Sent, Worked, Answered, Content, Held

LEMMA ViewsNext ==
  /\ Sent' = Held(slot', cons'["back"], prod'["front"])
  /\ Worked' = Held(slot', prod'["back"], prod_pvt'["back"])
  /\ Answered' = Held(slot', cons'["front"], prod'["back"])
BY DEF Sent, Worked, Answered, Content, Held, Span

LEMMA ViewTypes ==
  ASSUME RingInv
  PROVE  /\ slot \in Slots /\ owed \in Seq(Idx)
         /\ Sent \in Seq(Idx) /\ Worked \in Seq(Idx) /\ Answered \in Seq(Idx)
         /\ Len(Sent) = Dist(cons["back"], prod["front"])
         /\ Len(Worked) = Dist(prod["back"], prod_pvt["back"])
         /\ Len(Answered) = Dist(cons["front"], prod["back"])
<1> USE DEF RingInv
<1>1. slot \in Slots /\ owed \in Seq(Idx)
  BY DEF TypeOK, Slots
<1>2. /\ cons["front"] \in Idx /\ cons["back"] \in Idx /\ prod["front"] \in Idx
      /\ prod["back"] \in Idx /\ prod_pvt["back"] \in Idx
  BY Known
<1>3. Sent \in Seq(Idx) /\ Len(Sent) = Dist(cons["back"], prod["front"])
  BY <1>1, <1>2, Views, HeldIs
<1>4. Worked \in Seq(Idx) /\ Len(Worked) = Dist(prod["back"], prod_pvt["back"])
  BY <1>1, <1>2, Views, HeldIs
<1>5. Answered \in Seq(Idx) /\ Len(Answered) = Dist(cons["front"], prod["back"])
  BY <1>1, <1>2, Views, HeldIs
<1> QED BY <1>1, <1>3, <1>4, <1>5

\* What is put but not published is on no one's way yet.
LEMMA PutRequestHidden ==
  ASSUME RingInv, RingInv', PutRequest
  PROVE  UNCHANGED <<Sent, Worked, Answered, owed>>
<1> USE DEF RingInv
<1> DEFINE a == cons["front"]
           at == prod_pvt["front"]
           new == <<"request", at>>
<1>1. /\ slot' = [slot EXCEPT ![at % Size] = new] /\ owed' = owed /\ cons' = cons /\ prod' = prod
      /\ prod_pvt'["back"] = prod_pvt["back"]
  BY EndsAre DEF PutRequest, Put, TypeOK
<1>2. slot \in Slots /\ slot' \in Slots
  BY DEF TypeOK, Slots
<1>3. Dist(a, at) < Size
  <2>1. Size - Dist(a, at) # 0
    BY DEF PutRequest, RING_FULL, RING_FREE_REQUESTS, Dist
  <2>2. Dist(a, at) \in Nat
    BY Known
  <2> QED BY <2>1, <2>2, Ordered, Sane
<1>4. /\ Dist(a, prod["back"]) \in Nat /\ Dist(a, prod_pvt["back"]) \in Nat
      /\ Dist(a, cons["back"]) \in Nat /\ Dist(a, prod["front"]) \in Nat /\ Dist(a, at) \in Nat
      /\ Dist(a, a) = 0 /\ Size \in Nat
  BY Known, DistPositive, Sane
<1>5. /\ \A x \in Idx : Dist(a, x) \in Nat => Dist(a, at) < Dist(a, x) + Size
      /\ Dist(a, prod["back"]) <= Dist(a, at) /\ Dist(a, prod_pvt["back"]) <= Dist(a, at)
      /\ Dist(a, prod["front"]) <= Dist(a, at)
      /\ Dist(a, a) <= Dist(a, prod["back"])
  BY <1>3, <1>4, Ordered
<1>6. /\ Dist(a, at) < Dist(a, prod["back"]) + Size /\ Dist(a, at) < Dist(a, cons["back"]) + Size
      /\ Dist(a, at) < Dist(a, a) + Size
  BY <1>4, <1>5, Known
<1> HIDE DEF new
<1>10. a \in Idx /\ at \in Idx
  BY Known
<1>11. ASSUME NEW x \in Idx, NEW y \in Idx, Dist(a, x) <= Dist(a, y), Dist(a, y) <= Dist(a, at),
             Dist(a, at) < Dist(a, x) + Size
      PROVE  Held(slot', x, y) = Held(slot, x, y)
  <2>1. \A j \in 0..(Size - 1) : j # at % Size => slot'[j] = slot[j]
    BY <1>1, <1>2 DEF Slots
  <2> QED BY <1>2, <1>10, <1>11, <2>1, Untouched
<1>7. Held(slot', cons["back"], prod["front"]) = Held(slot, cons["back"], prod["front"])
  BY <1>5, <1>6, <1>11, Known, Ordered
<1>8. Held(slot', prod["back"], prod_pvt["back"]) = Held(slot, prod["back"], prod_pvt["back"])
  BY <1>5, <1>6, <1>11, Known, Ordered
<1>9. Held(slot', a, prod["back"]) = Held(slot, a, prod["back"])
  BY <1>5, <1>6, <1>11, Known
<1> QED BY <1>1, <1>7, <1>8, <1>9, Views, ViewsNext

\* A response that is put is still the back end's.
LEMMA PutResponseHidden ==
  ASSUME RingInv, RingInv', PutResponse
  PROVE  Sent' = Sent /\ (Worked \o owed)' = Worked \o owed /\ Answered' = Answered
<1> USE DEF RingInv
<1> DEFINE a == cons["front"]
           r == prod["back"]
           at == prod_pvt["back"]
           new == <<"response", Head(owed)>>
<1>1. /\ slot' = [slot EXCEPT ![at % Size] = new] /\ owed # <<>> /\ owed' = Tail(owed)
      /\ cons' = cons /\ prod' = prod /\ prod_pvt'["back"] = Wrapped(at + 1)
  BY EndsAre DEF PutResponse, Put, TypeOK
<1>2. slot \in Slots /\ slot' \in Slots /\ owed \in Seq(Idx)
  BY DEF TypeOK, Slots
<1> HIDE DEF new
<1>11. a \in Idx /\ at \in Idx /\ r \in Idx
  BY Known
<1>12. Size \in Nat \ {0} /\ Len(owed) > 0
  BY <1>1, <1>2, Sane, EmptySeq
<1>3. /\ Dist(a, r) \in Nat /\ Dist(a, at) \in Nat /\ Dist(a, cons["back"]) \in Nat
      /\ Dist(a, prod["front"]) \in Nat /\ Dist(a, prod_pvt["front"]) \in Nat
      /\ Dist(a, a) = 0
  BY Known, DistPositive
<1>4. /\ Dist(a, a) <= Dist(a, r) /\ Dist(a, r) <= Dist(a, at)
      /\ Dist(a, at) < Dist(a, cons["back"]) /\ Dist(a, cons["back"]) <= Dist(a, prod["front"])
      /\ Dist(a, prod["front"]) <= Dist(a, at) + Size
      /\ Dist(a, at) < Size
  BY <1>3, <1>12, Ordered
<1>5. Dist(a, at) < Dist(a, r) + Size /\ Dist(a, at) < Dist(a, a) + Size
      /\ Dist(a, at) <= Dist(a, at)
  BY <1>3, <1>4, <1>12
<1>13. ASSUME NEW x \in Idx, NEW y \in Idx, Dist(a, x) <= Dist(a, y),
              \/ Dist(a, y) <= Dist(a, at) /\ Dist(a, at) < Dist(a, x) + Size
              \/ Dist(a, at) < Dist(a, x) /\ Dist(a, y) <= Dist(a, at) + Size
       PROVE  Held(slot', x, y) = Held(slot, x, y)
  <2>1. \A j \in 0..(Size - 1) : j # at % Size => slot'[j] = slot[j]
    BY <1>1, <1>2 DEF Slots
  <2> QED BY <1>2, <1>11, <1>13, <2>1, Untouched
<1>6. Held(slot', cons["back"], prod["front"]) = Held(slot, cons["back"], prod["front"])
  BY <1>4, <1>13, Known
<1>7. Held(slot', a, r) = Held(slot, a, r)
  BY <1>4, <1>5, <1>11, <1>13
<1>8. Held(slot', r, at) = Held(slot, r, at)
  BY <1>4, <1>5, <1>11, <1>13
<1>9. Held(slot', r, Wrapped(at + 1)) = Held(slot, r, at) \o <<Head(owed)>>
  <2>1. Held(slot', at, Wrapped(at + 1)) = <<Head(owed)>>
    <3>1. slot'[at % Size] = new
      BY <1>1, <1>2, <1>11, SlotIn DEF Slots
    <3>2. Held(slot', at, Wrapped(at + 1)) = <<slot'[at % Size][2]>>
      BY <1>2, <1>11, HeldOne
    <3> QED BY <3>1, <3>2 DEF new
  <2>2. Dist(r, at) <= Dist(r, Wrapped(at + 1)) /\ Wrapped(at + 1) \in Idx
    <3>1. Dist(r, at) = Dist(a, at) - Dist(a, r)
      BY <1>4, <1>11, DistFrom
    <3>2. Dist(r, at) < IndexMod - 1 /\ Dist(r, at) \in Nat
      BY <1>3, <1>4, <3>1, Sane
    <3>3. Dist(r, Wrapped(at + 1)) = Dist(r, at) + 1
      BY <1>11, <3>2, DistNext
    <3>4. Dist(r, at) <= Dist(r, Wrapped(at + 1))
      BY <3>2, <3>3
    <3> QED BY <1>11, <3>4, NextIs
  <2> DEFINE n == Wrapped(at + 1)
  <2> HIDE DEF n, at
  <2>3. Held(slot', r, n) = Held(slot', r, at) \o Held(slot', at, n)
    BY <1>2, <1>11, <2>2, HeldSplit DEF n
  <2> QED BY <1>8, <2>1, <2>3 DEF n
<1>10. (Held(slot, r, at) \o <<Head(owed)>>) \o Tail(owed) = Held(slot, r, at) \o owed
  <2>1. Held(slot, r, at) \in Seq(Idx)
    BY <1>2, Known, HeldIs
  <2>2. <<Head(owed)>> \in Seq(Idx) /\ Tail(owed) \in Seq(Idx) /\ <<Head(owed)>> \o Tail(owed) = owed
    BY <1>1, <1>2, HeadAndTail
  <2> QED BY <2>1, <2>2, ConcatAssociative
<1> QED BY <1>1, <1>6, <1>7, <1>9, <1>10, Views, ViewsNext
\* The publication of requests is their sending.
LEMMA PushSends == ASSUME RingInv, Push("front") PROVE Channel!Send
<1> USE DEF RingInv
<1> DEFINE a == cons["front"]
           b == cons["back"]
           q == prod["front"]
           w == prod_pvt["front"]
           batch == Held(slot, q, w)
           n == Dist(q, w)
<1>1. /\ w # q /\ slot' = slot /\ cons' = cons /\ prod_pvt' = prod_pvt /\ owed' = owed
      /\ prod'["front"] = w /\ prod'["back"] = prod["back"]
  BY EndsAre DEF Push, TypeOK
<1>2. a \in Idx /\ b \in Idx /\ q \in Idx /\ w \in Idx /\ prod["back"] \in Idx
      /\ prod_pvt["back"] \in Idx /\ slot \in Slots /\ Len(owed) \in Nat /\ owed \in Seq(Idx)
  BY Known DEF TypeOK, Slots
<1>3. /\ Dist(a, prod["back"]) \in Nat /\ Dist(a, prod_pvt["back"]) \in Nat /\ Dist(a, b) \in Nat
      /\ Dist(a, q) \in Nat /\ Dist(a, w) \in Nat /\ n \in Nat /\ n > 0 /\ Size \in Nat
  BY <1>1, <1>2, DistPositive, Sane
<1>4. /\ Dist(b, q) = Dist(a, q) - Dist(a, b) /\ Dist(b, w) = Dist(a, w) - Dist(a, b)
      /\ n = Dist(a, w) - Dist(a, q)
      /\ Dist(prod["back"], prod_pvt["back"]) = Dist(a, prod_pvt["back"]) - Dist(a, prod["back"])
  <2>1. Dist(a, b) <= Dist(a, w)
    BY <1>3, Ordered
  <2> QED BY <1>2, <2>1, Ordered, DistFrom
<1>5. Sent' = Sent \o batch /\ UNCHANGED <<Worked, Answered, owed>>
  <2>1. Dist(b, q) <= Dist(b, w)
    BY <1>3, <1>4, Ordered
  <2>2. Held(slot, b, w) = Held(slot, b, q) \o batch
    BY <1>2, <2>1, HeldSplit
  <2> QED BY <1>1, <2>2, Views, ViewsNext
<1>6. n \in 1..Size /\ batch \in [1..n -> Idx]
  <2>1. n <= Size
    BY <1>3, <1>4, Ordered
  <2>2. batch \in Seq(Idx) /\ Len(batch) = n
    BY <1>2, HeldIs
  <2> HIDE DEF batch, n
  <2>3. batch \in [1..n -> Idx]
    BY <2>2, LenProperties
  <2> QED BY <1>3, <2>1, <2>3
<1>7. Len(Sent') + Len((Worked \o owed)') + Len(Answered') <= Size
  <2>1. Len(Sent') = Dist(b, w)
    <3>1. Sent' = Held(slot, b, w)
      BY <1>1, ViewsNext
    <3> QED BY <1>2, <3>1, HeldIs
  <2>2. Len(Worked \o owed) = Dist(prod["back"], prod_pvt["back"]) + Len(owed)
    <3>1. /\ Worked \in Seq(Idx) /\ owed \in Seq(Idx)
          /\ Len(Worked) = Dist(prod["back"], prod_pvt["back"])
      BY ViewTypes
    <3>2. Len(Worked \o owed) = Len(Worked) + Len(owed)
      BY <3>1, ConcatProperties
    <3> QED BY <3>1, <3>2
  <2>3. Len(Answered) = Dist(a, prod["back"])
    BY ViewTypes
  <2>4. Dist(a, prod_pvt["back"]) + Len(owed) <= Dist(a, b) /\ Dist(a, w) <= Size
    BY DEF Order, InOrder
  <2>5. Dist(b, w) + (Dist(prod["back"], prod_pvt["back"]) + Len(owed)) + Dist(a, prod["back"])
          <= Size
    BY <1>2, <1>3, <1>4, <2>4
  <2>6. (Worked \o owed)' = Worked \o owed /\ Answered' = Answered
    BY <1>5
  <2> QED BY <2>1, <2>2, <2>3, <2>5, <2>6
<1> HIDE DEF batch, n
<1>8. \E k \in 1..Size : \E x \in [1..k -> Idx] : Sent' = Sent \o x
  BY <1>5, <1>6
<1> QED BY <1>5, <1>7, <1>8 DEF Channel!Send, Sent, Worked, Answered

\* The publication of responses is their answering.
LEMMA PushAnswers == ASSUME RingInv, Push("back") PROVE Channel!Answer
<1> USE DEF RingInv
<1> DEFINE a == cons["front"]
           r == prod["back"]
           p == prod_pvt["back"]
           n == Dist(r, p)
           all == Worked \o owed
<1>1. /\ p # r /\ slot' = slot /\ cons' = cons /\ prod_pvt' = prod_pvt /\ owed' = owed
      /\ prod'["back"] = p /\ prod'["front"] = prod["front"]
  BY EndsAre DEF Push, TypeOK
<1>2. a \in Idx /\ r \in Idx /\ p \in Idx /\ slot \in Slots /\ owed \in Seq(Idx)
  BY Known DEF TypeOK, Slots
<1>3. n \in Nat /\ n > 0
  BY <1>1, <1>2, DistPositive
<1>4. Sent' = Sent /\ Answered' = Answered \o Worked
  <2>1. Held(slot, a, p) = Held(slot, a, r) \o Held(slot, r, p)
    BY <1>2, Ordered, HeldSplit
  <2> QED BY <1>1, <2>1, Views, ViewsNext
<1>5. (Worked \o owed)' = owed
  <2>1. Worked' = <<>>
    BY <1>1, <1>2, ViewsNext, HeldNone
  <2>2. <<>> \o owed = owed
    BY <1>2, ConcatEmptySeq
  <2> QED BY <1>1, <2>1, <2>2
<1>6. Worked \in Seq(Idx) /\ Len(Worked) = n
  BY ViewTypes
<1>7. n <= Len(all) /\ Len(all) \in Nat
  <2>1. Len(all) = Len(Worked) + Len(owed)
    BY <1>2, <1>6, ConcatProperties
  <2>2. Len(owed) \in Nat
    BY <1>2
  <2> HIDE DEF all, n
  <2> QED BY <1>3, <1>6, <2>1, <2>2
<1>8. SubSeq(all, 1, n) = Worked
  BY <1>2, <1>6, SubSeqOfConcat1, SubSeqFull
<1>9. SubSeq(all, n + 1, Len(all)) = owed
  BY <1>2, <1>6, SubSeqOfConcat2, SubSeqFull
<1> HIDE DEF all, n
<1>10. n \in 1..Len(all)
  BY <1>3, <1>7
<1>11. \E k \in 1..Len(all) : /\ Answered' = Answered \o SubSeq(all, 1, k)
                              /\ (Worked \o owed)' = SubSeq(all, k + 1, Len(all))
  BY <1>4, <1>5, <1>8, <1>9, <1>10
<1> QED BY <1>4, <1>11 DEF Channel!Answer, Sent, Worked, Answered, all
\* The first of the indices between x and y, and the others.
LEMMA HeldFirst ==
  ASSUME NEW s \in Slots, NEW x \in Idx, NEW y \in Idx, x # y
  PROVE  /\ Held(s, x, y) # <<>> /\ Head(Held(s, x, y)) = s[x % Size][2]
         /\ Tail(Held(s, x, y)) = Held(s, Wrapped(x + 1), y)
<1> DEFINE n == Wrapped(x + 1)
<1>1. n \in Idx /\ Dist(x, n) = 1
  <2>1. Dist(x, x) = 0 /\ 0 < IndexMod - 1
    BY DistPositive, Sane
  <2> QED BY <2>1, DistNext, NextIs
<1>2. Held(s, x, n) = <<s[x % Size][2]>> /\ s[x % Size][2] \in Idx
  BY HeldOne
<1> HIDE DEF n
<1>3. Dist(x, n) <= Dist(x, y)
  BY <1>1, DistPositive
<1>4. Held(s, x, y) = <<s[x % Size][2]>> \o Held(s, n, y)
  <2>1. Held(s, x, y) = Held(s, x, n) \o Held(s, n, y)
    BY <1>1, <1>3, HeldSplit
  <2> QED BY <1>2, <2>1
<1>5. Held(s, n, y) \in Seq(Idx)
  BY <1>1, HeldIs
<1> QED BY <1>2, <1>4, <1>5, FirstAndRest DEF n

\* The front end completes the oldest response.
LEMMA TakeCompletes == ASSUME RingInv, Take("front") PROVE Channel!Complete
<1> USE DEF RingInv
<1> DEFINE a == cons["front"]
           r == prod["back"]
<1>1. /\ slot' = slot /\ prod' = prod /\ prod_pvt' = prod_pvt /\ owed' = owed
      /\ cons'["front"] = Wrapped(a + 1) /\ cons'["back"] = cons["back"] /\ HasUnconsumed("front")
  BY EndsAre DEF Take, TypeOK
<1>2. a # r
  BY <1>1, Consumable, EndsAre
<1>3. a \in Idx /\ r \in Idx /\ slot \in Slots
  BY Known DEF TypeOK, Slots
<1>4. Held(slot, a, r) # <<>> /\ Tail(Held(slot, a, r)) = Held(slot, Wrapped(a + 1), r)
  BY <1>2, <1>3, HeldFirst
<1>5. Answered # <<>> /\ Answered' = Tail(Answered) /\ UNCHANGED <<Sent, Worked, owed>>
  BY <1>1, <1>4, Views, ViewsNext
<1> QED BY <1>5 DEF Channel!Complete, Sent, Worked, Answered

\* The back end takes the oldest request.
LEMMA TakeTakes == ASSUME RingInv, Take("back") PROVE Channel!Take
<1> USE DEF RingInv
<1> DEFINE b == cons["back"]
           q == prod["front"]
           e == slot[b % Size][2]
<1>1. /\ slot' = slot /\ prod' = prod /\ prod_pvt' = prod_pvt /\ owed' = Append(owed, e)
      /\ cons'["back"] = Wrapped(b + 1) /\ cons'["front"] = cons["front"] /\ HasUnconsumed("back")
  BY EndsAre DEF Take, ReadSlot, TypeOK
<1>2. b # q
  BY <1>1, Consumable, EndsAre
<1>3. b \in Idx /\ q \in Idx /\ slot \in Slots /\ owed \in Seq(Idx)
  BY Known DEF TypeOK, Slots
<1>4. /\ Held(slot, b, q) # <<>> /\ Head(Held(slot, b, q)) = e
      /\ Tail(Held(slot, b, q)) = Held(slot, Wrapped(b + 1), q)
  BY <1>2, <1>3, HeldFirst
<1>5. Sent # <<>> /\ Sent' = Tail(Sent) /\ e = Head(Sent) /\ Worked' = Worked /\ Answered' = Answered
  BY <1>1, <1>4, Views, ViewsNext
<1>6. e \in Idx /\ Worked \in Seq(Idx)
  BY <1>3, HeldOne, ViewTypes
<1> HIDE DEF e
<1>7. Worked \o Append(owed, e) = Append(Worked \o owed, e)
  <2>1. /\ Append(owed, e) = owed \o <<e>> /\ <<e>> \in Seq(Idx) /\ Worked \o owed \in Seq(Idx)
    BY <1>3, <1>6, AppendIsConcat, ConcatProperties
  <2>2. Append(Worked \o owed, e) = (Worked \o owed) \o <<e>>
    BY <1>6, <2>1, AppendIsConcat
  <2> QED BY <1>3, <1>6, <2>1, <2>2, ConcatAssociative
<1>8. (Worked \o owed)' = Append(Worked \o owed, Head(Sent))
  BY <1>1, <1>5, <1>7 DEF e
<1> QED BY <1>5, <1>8 DEF Channel!Take, Sent, Worked, Answered

\* A front end that is attached again forgets the responses on their way.
LEMMA AttachFront == ASSUME RingInv, Attach("front") PROVE Channel!RestartFront
<1> USE DEF RingInv
<1>1. /\ slot' = slot /\ prod' = prod /\ owed' = owed
      /\ prod_pvt'["back"] = prod_pvt["back"]
      /\ cons'["front"] = prod["back"] /\ cons'["back"] = cons["back"]
  BY EndsAre DEF Attach, shared, TypeOK
<1>2. prod["back"] \in Idx /\ slot \in Slots
  BY Known DEF TypeOK, Slots
<1>3. Answered' = <<>>
  BY <1>1, <1>2, ViewsNext, HeldNone
<1>4. UNCHANGED <<Sent, Worked, owed>>
  BY <1>1, Views, ViewsNext
<1> QED BY <1>3, <1>4 DEF Channel!RestartFront, Sent, Worked, Answered

\* A back end that is attached again takes the requests on their way, and those it was at
\* work on, for done.
LEMMA AttachBack == ASSUME RingInv, Attach("back") PROVE Channel!RestartBack
<1> USE DEF RingInv
<1>1. /\ slot' = slot /\ prod' = prod /\ owed' = <<>>
      /\ prod_pvt'["back"] = prod["back"]
      /\ cons'["back"] = prod["front"] /\ cons'["front"] = cons["front"]
  BY EndsAre DEF Attach, shared, TypeOK
<1>2. prod["back"] \in Idx /\ prod["front"] \in Idx /\ slot \in Slots
  BY Known DEF TypeOK, Slots
<1>3. Sent' = <<>> /\ Worked' = <<>>
  BY <1>1, <1>2, ViewsNext, HeldNone
<1>4. (Worked \o owed)' = <<>> /\ Answered' = Answered
  <2>1. <<>> \o <<>> = <<>>
    BY ConcatEmptySeq, EmptySeq
  <2> QED BY <1>1, <1>3, <2>1, Views, ViewsNext
<1> QED BY <1>3, <1>4 DEF Channel!RestartBack, Sent, Worked, Answered

\* Each step of the ring is a step of the channel or hidden from it.
LEMMA StepImplements ==
  ASSUME RingInv, RingInv', [Next]_vars
  PROVE  [Channel!Next]_Channel!vars
<1> DEFINE Hidden == Sent' = Sent /\ (Worked \o owed)' = Worked \o owed /\ Answered' = Answered
<1>1. ASSUME Hidden PROVE UNCHANGED Channel!vars
  BY <1>1 DEF Channel!vars, Sent, Worked, Answered
<1>2. CASE PutRequest
  BY <1>1, <1>2, PutRequestHidden
<1>3. CASE PutResponse
  BY <1>1, <1>3, PutResponseHidden
<1>4. ASSUME NEW s \in Ends, Push(s) PROVE Channel!Next
  BY <1>4, PushSends, PushAnswers, EndsAre DEF Channel!Next
<1>5. ASSUME NEW s \in Ends, Take(s) PROVE Channel!Next
  BY <1>5, TakeCompletes, TakeTakes, EndsAre DEF Channel!Next
<1>6. ASSUME NEW s \in Ends, Attach(s) PROVE Channel!Next
  BY <1>6, AttachFront, AttachBack, EndsAre DEF Channel!Next
<1>7. ASSUME UNCHANGED <<slot, cons, prod, prod_pvt, owed>> PROVE Hidden
  BY <1>7, Views, ViewsNext
<1>8. ASSUME NEW s \in Ends,
             CheckNotify(s) \/ FinalCheck(s) \/ AskForEvent(s) \/ LookAgain(s) \/ Wake(s)
      PROVE  Hidden
  BY <1>7, <1>8 DEF CheckNotify, FinalCheck, AskForEvent, LookAgain, Wake, shared
<1>9. CASE UNCHANGED vars
  BY <1>1, <1>7, <1>9 DEF vars
<1> HIDE DEF Hidden
<1> QED BY <1>1, <1>2, <1>3, <1>4, <1>5, <1>6, <1>8, <1>9 DEF Next, Step

LEMMA InitImplements == Init => Channel!Init
<1> SUFFICES ASSUME Init PROVE Channel!Init
  OBVIOUS
<1>1. RingInv
  BY InitSafe
<1>2. /\ cons["front"] = 0 /\ cons["back"] = 0 /\ prod["front"] = 0 /\ prod["back"] = 0
      /\ prod_pvt["back"] = 0 /\ owed = <<>>
  BY EndsAre DEF Init
<1>3. 0 \in Idx /\ slot \in Slots
  BY <1>1, Sane DEF RingInv, TypeOK, Slots, Idx
<1>4. Sent = <<>> /\ Worked = <<>> /\ Answered = <<>>
  BY <1>2, <1>3, Views, HeldNone
<1>5. <<>> \o <<>> = <<>>
  BY ConcatEmptySeq, EmptySeq
<1> QED BY <1>2, <1>4, <1>5 DEF Channel!Init, Sent, Worked, Answered

\* The ring is a channel: requests reach the back end, and responses the front end, in the
\* order in which they were published, none is lost or read twice unless an end is attached
\* again, and the macros let no more of them into the ring than it has slots, for any number
\* of slots and wherever the indices wrap.
THEOREM RingImplementsChannel == Spec => ImplementsChannel
<1>1. Init => Channel!Init
  BY InitImplements
<1>2. RingInv /\ RingInv' /\ [Next]_vars => [Channel!Next]_Channel!vars
  BY StepImplements
<1>3. Spec => []RingInv
  BY InitSafe, NextSafe, PTL DEF Spec
<1> QED BY <1>1, <1>2, <1>3, PTL DEF Spec, ImplementsChannel
=============================================================================
