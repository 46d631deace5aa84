------------------------- MODULE MessageRingProofs -------------------------
(***************************************************************************)
(* The message ring of inc/vring.h, for any number of bytes that           *)
(* divides the range of indices, and messages whose size and pad an        *)
(* unsigned short holds.                                                   *)
(***************************************************************************)
EXTENDS MessageRing, Recursion, SequenceTheorems, TLAPS

\* How far the index i is behind the index a: indices wrap.
Dist(a, i) == Wrapped(i - a)

C == receiver.local_cons_pvt
P == sender.local_prod_pvt

\* Finished, read, published, written; what the receiver has seen is published.
Order ==
  /\ Dist(cons, C) <= Dist(cons, prod)
  /\ Dist(cons, prod) <= Dist(cons, P)
  /\ Dist(cons, P) <= Bytes
  /\ IF receiver.pc = "reading"
     THEN /\ Dist(cons, C) <= Dist(cons, receiver.seen)
          /\ Dist(cons, receiver.seen) <= Dist(cons, prod)
     ELSE cons = C /\ receiver.seen = C

\* A pad has its message behind it, and both are published together.
Paired(i, slots) ==
  slots[Offset(i)].type = "pad" =>
    LET j == Wrapped(i + slots[Offset(i)].size)
    IN  j \notin {prod, P} /\ slots[Offset(j)].type # "pad"

\* The indices in S are where messages and pads start that were not read, and where the
\* sender is: one starts where another ends, and prod is such a place.
Starts(S, slots) ==
  /\ {C, prod, P} \subseteq S
  /\ receiver.pc = "reading" => receiver.seen \in S
  /\ \A i \in S : i \in Idx /\ Dist(cons, C) <= Dist(cons, i) /\ Dist(cons, i) <= Dist(cons, P)
  /\ \A i \in S \ {P} :
       Contained(i, slots[Offset(i)]) /\ Wrapped(i + slots[Offset(i)].size) \in S
  /\ \A i \in S \ {P} : Paired(i, slots)
  /\ \A i, j \in S :
       Dist(cons, i) < Dist(cons, j) => Dist(cons, i) + slots[Offset(i)].size <= Dist(cons, j)

Chained == \E S : Starts(S, payload)

\* What a message and its pad take.
Total(n) == IF WouldWrap(n) THEN PadNeeded + n ELSE n

Granted ==
  /\ sender.pc \notin {"idle", "pushed"} => sender.want \in Sizes
  /\ sender.pc = "granted" => Total(sender.want) <= sender.available

\* A receiver that is about to sleep, or asleep, has asked for the next message.
Asked == receiver.pc \in {"armed", "asleep"} => prod_event = Wrapped(C + 1)

\* A sender that is refused has asked for the first byte that is finished after it found too
\* little room, and if one was finished since, it is told.
Awaited == Wrapped(cons_event - 1)
Refused ==
  /\ sender.pc \in {"noroom", "armed"} => Space(sender.seen) < Needed(sender.want)
  /\ sender.pc = "armed" => cons_event = Wrapped(sender.seen + 1)
  /\ sender.pc \in {"refused", "pushed refused", "asleep"} =>
       /\ Space(Awaited) < Needed(sender.want)
       /\ \/ cons = Awaited
          \/ pending["sender"]
          \/ receiver.pc = "finished" /\ Crosses(cons, receiver.old, cons_event)

\* Half of NoWakeUpLost: the other half follows from Refused.
ReceiverTold ==
  receiver.pc = "asleep" /\ prod # C =>
    \/ pending["receiver"]
    \/ sender.pc \in {"pushed", "pushed refused"} /\ Crosses(prod, sender.old, prod_event)

RingInv ==
  TypeOK /\ Order /\ Chained /\ Granted /\ SpaceIsThere /\ Asked /\ Refused /\ ReceiverTold
-----------------------------------------------------------------------------
(***************************************************************************)
(* Arithmetic of indices that wrap                                         *)
(***************************************************************************)
LEMMA Sane == IndexMod \in Nat \ {0} /\ Bytes \in Nat \ {0} /\ Bytes < IndexMod
BY RingAssumption

\* What wrapping does to a number that is less than one round off.
LEMMA WrappedIs ==
  ASSUME NEW i \in Int
  PROVE  /\ Wrapped(i) \in Idx
         /\ i \in Idx => Wrapped(i) = i
         /\ i \in IndexMod..(2 * IndexMod - 1) => Wrapped(i) = i - IndexMod
         /\ i \in (-IndexMod)..(-1) => Wrapped(i) = i + IndexMod
<1>1. Wrapped(i) \in Idx
  BY Sane DEF Wrapped, Idx
<1>2. i \in Idx => Wrapped(i) = i
  BY Sane DEF Wrapped, Idx
<1>3. i \in IndexMod..(2 * IndexMod - 1) => Wrapped(i) = i - IndexMod
  BY Sane DEF Wrapped
<1>4. i \in (-IndexMod)..(-1) => Wrapped(i) = i + IndexMod
  BY Sane DEF Wrapped
<1> QED BY <1>1, <1>2, <1>3, <1>4

\* A distance without %.
LEMMA DistIs ==
  ASSUME NEW a \in Idx, NEW i \in Idx
  PROVE  /\ Dist(a, i) = IF i >= a THEN i - a ELSE i - a + IndexMod
         /\ Dist(a, i) \in Idx
         /\ Dist(a, i) = 0 <=> a = i
         /\ Dist(a, i) \in Nat /\ Dist(a, i) < IndexMod
<1>1. i - a \in Int /\ (i >= a => i - a \in Idx) /\ (i < a => i - a \in (-IndexMod)..(-1))
  BY Sane DEF Idx
<1>2. Wrapped(i - a) \in Idx /\ (i >= a => Wrapped(i - a) = i - a)
      /\ (i < a => Wrapped(i - a) = i - a + IndexMod)
  BY <1>1, WrappedIs
<1> QED BY <1>2, Sane DEF Dist, Idx

\* The index n further on.
LEMMA Further ==
  ASSUME NEW a \in Idx, NEW i \in Idx, NEW n \in Nat, Dist(a, i) + n < IndexMod
  PROVE  /\ Wrapped(i + n) \in Idx
         /\ Dist(a, Wrapped(i + n)) = Dist(a, i) + n
<1> DEFINE m == i + n
           j == IF m < IndexMod THEN m ELSE m - IndexMod
<1>0. a \in 0..(IndexMod - 1) /\ i \in 0..(IndexMod - 1) /\ IndexMod \in Nat
  BY Sane DEF Idx
<1>1. Dist(a, i) = IF i >= a THEN i - a ELSE i - a + IndexMod
  BY DistIs
<1>2. m \in Int /\ (m < IndexMod => m \in Idx)
      /\ (m >= IndexMod => m \in IndexMod..(2 * IndexMod - 1))
  BY <1>0, <1>1 DEF Idx
<1> HIDE DEF m
<1>3. Wrapped(m) \in Idx /\ Wrapped(m) = j
  BY <1>0, <1>2, WrappedIs
<1> HIDE DEF j
<1>4. Dist(a, j) = IF j >= a THEN j - a ELSE j - a + IndexMod
  BY <1>3, DistIs
<1>5. Dist(a, j) = Dist(a, i) + n
  BY <1>0, <1>1, <1>4 DEF j, m
<1> QED BY <1>3, <1>5 DEF m

\* The distance between two indices, measured from a third.
LEMMA DistFrom ==
  ASSUME NEW a \in Idx, NEW i \in Idx, NEW j \in Idx
  PROVE  Dist(i, j) = IF Dist(a, i) <= Dist(a, j) THEN Dist(a, j) - Dist(a, i)
                      ELSE Dist(a, j) - Dist(a, i) + IndexMod
<1>1. /\ Dist(a, i) = IF i >= a THEN i - a ELSE i - a + IndexMod
      /\ Dist(a, j) = IF j >= a THEN j - a ELSE j - a + IndexMod
      /\ Dist(i, j) = IF j >= i THEN j - i ELSE j - i + IndexMod
  BY DistIs
<1> QED BY <1>1, Sane DEF Idx

\* Different indices are at different distances.
LEMMA DistApart ==
  ASSUME NEW a \in Idx, NEW i \in Idx, NEW j \in Idx, i # j
  PROVE  Dist(a, i) # Dist(a, j)
<1>1. Dist(a, i) \in Nat /\ Dist(a, j) \in Nat /\ Dist(i, j) # 0
  BY DistIs
<1> QED BY <1>1, DistFrom

\* The least positive multiple.
LEMMA Multiple ==
  ASSUME NEW m \in Nat, NEW n \in Int, m * n > 0
  PROVE  m * n >= m
<1>1. CASE n <= 0
  BY <1>1
<1>2. CASE n >= 1
  BY <1>2
<1> QED BY <1>1, <1>2

LEMMA OffsetIn ==
  ASSUME NEW i \in Idx
  PROVE  Offset(i) \in 0..(Bytes - 1)
BY Sane DEF Idx, Offset

\* Indices that are less than the ring apart have offsets of their own.
LEMMA OffsetsDiffer ==
  ASSUME NEW i \in Idx, NEW j \in Idx, Dist(i, j) > 0, Dist(i, j) < Bytes
  PROVE  Offset(i) # Offset(j)
<1> SUFFICES ASSUME i % Bytes = j % Bytes PROVE FALSE
  BY DEF Offset
<1> DEFINE k == IndexMod \div Bytes
           p == i \div Bytes
           q == j \div Bytes
<1>1. IndexMod = Bytes * k /\ k \in Int
  BY RingAssumption
<1>2. i = Bytes * p + (i % Bytes) /\ p \in Int /\ j = Bytes * q + (j % Bytes) /\ q \in Int
  BY Sane DEF Idx
<1> HIDE DEF k, p, q
<1>3. Bytes * (q - p) = Bytes * q - Bytes * p
      /\ Bytes * (q - p + k) = Bytes * q - Bytes * p + Bytes * k
  BY <1>1, <1>2, Sane
<1>4. Dist(i, j) = j - i \/ Dist(i, j) = j - i + IndexMod
  BY DistIs
<1>5. j - i = Bytes * q - Bytes * p
  <2>1. Bytes * p \in Int /\ Bytes * q \in Int /\ i % Bytes \in Int
    BY <1>2, Sane DEF Idx
  <2> QED BY <1>2, <2>1
<1>6. Dist(i, j) = Bytes * (q - p) \/ Dist(i, j) = Bytes * (q - p + k)
  BY <1>1, <1>3, <1>4, <1>5
<1>7. q - p \in Int /\ q - p + k \in Int
  BY <1>1, <1>2
<1> QED BY <1>6, <1>7, Multiple, Sane

\* Behind a pad the ring starts anew.
LEMMA PadToStart ==
  ASSUME NEW i \in Idx
  PROVE  Offset(Wrapped(i + (Bytes - Offset(i)))) = 0
<1> DEFINE k == IndexMod \div Bytes
           p == i \div Bytes
           m == i + (Bytes - Offset(i))
<1>1. IndexMod = Bytes * k /\ k \in Int
  BY RingAssumption
<1>2. i = Bytes * p + Offset(i) /\ p \in Int /\ Offset(i) \in 0..(Bytes - 1)
  BY Sane, OffsetIn DEF Idx, Offset
<1>3. m = Bytes * (p + 1) /\ m \in Int /\ m >= 0 /\ m < 2 * IndexMod
  <2>1. Bytes * (p + 1) = Bytes * p + Bytes /\ Bytes * p \in Int
    BY <1>2, Sane
  <2>2. m = Bytes * p + Bytes /\ m = i + (Bytes - Offset(i))
    BY <1>2, <2>1, Sane
  <2>3. i \in 0..(IndexMod - 1)
    BY DEF Idx
  <2> QED BY <1>2, <2>1, <2>2, <2>3, Sane
<1> HIDE DEF k, m
<1>4. CASE m < IndexMod
  <2>1. Wrapped(m) = m
    BY <1>3, <1>4, WrappedIs, Sane DEF Idx
  <2>2. Offset(m) = 0
    <3>1. (Bytes * (p + 1)) % Bytes = 0
      BY <1>2, Sane
    <3> QED BY <1>3, <3>1 DEF Offset
  <2> QED BY <2>1, <2>2 DEF m
<1>5. CASE m >= IndexMod
  <2>1. Wrapped(m) = m - IndexMod
    BY <1>3, <1>5, WrappedIs, Sane
  <2>2. m - IndexMod = Bytes * (p + 1 - k)
    <3>1. Bytes * (p + 1 - k) = Bytes * (p + 1) - Bytes * k
      BY <1>1, <1>2, Sane
    <3> QED BY <1>1, <1>3, <3>1
  <2>3. (Bytes * (p + 1 - k)) % Bytes = 0
    BY <1>1, <1>2, Sane
  <2> QED BY <2>1, <2>2, <2>3 DEF Offset, m
<1> QED BY <1>3, <1>4, <1>5, Sane
-----------------------------------------------------------------------------
(***************************************************************************)
(* Types                                                                   *)
(***************************************************************************)
LEMMA Terms ==
  ASSUME TypeOK
  PROVE  /\ C \in Idx /\ P \in Idx /\ cons \in Idx /\ prod \in Idx
         /\ receiver.seen \in Idx /\ sender.seen \in Idx
         /\ sender.available \in 0..Bytes
         /\ \A i \in Idx : payload[Offset(i)] \in Headers
BY OffsetIn DEF TypeOK, C, P

\* What a message and its pad take is no more than twice the message.
LEMMA TotalIs ==
  ASSUME TypeOK, NEW n \in Sizes
  PROVE  /\ n \in 1..Bytes /\ n \in Nat /\ PadNeeded \in 1..Bytes
         /\ WouldWrap(n) => PadNeeded <= n
         /\ Total(n) \in Nat /\ n <= Total(n) /\ Total(n) <= 2 * n
         /\ Needed(n) \in Nat
<1>1. n \in 1..Bytes /\ Bytes \in Nat /\ ShortMod \in Nat \ {0}
  BY RingAssumption
<1>2. Offset(P) \in 0..(Bytes - 1)
  BY Terms, OffsetIn
<1> DEFINE o == Offset(P)
<1>3. PadNeeded = Bytes - o /\ (WouldWrap(n) <=> o + n >= Bytes)
  BY DEF PadNeeded, WouldWrap, P
<1> HIDE DEF o
<1>4. PadNeeded \in 1..Bytes /\ (WouldWrap(n) => PadNeeded <= n)
  BY <1>1, <1>2, <1>3 DEF o
<1>5. Total(n) \in Nat /\ n <= Total(n) /\ Total(n) <= 2 * n
  BY <1>1, <1>4 DEF Total
<1>6. Needed(n) \in Nat
  BY <1>1, <1>4 DEF Needed
<1> QED BY <1>1, <1>4, <1>5, <1>6

\* If the sizes fit, the sum in an unsigned short is what a message and its pad take.
LEMMA NeededIs ==
  ASSUME TypeOK, SizesFit, NEW n \in Sizes
  PROVE  Needed(n) = Total(n)
<1>1. /\ n \in Nat /\ PadNeeded \in Nat /\ ShortMod \in Nat \ {0}
      /\ WouldWrap(n) => PadNeeded <= n
  BY TotalIs, RingAssumption
<1>2. 2 * n < ShortMod
  BY DEF SizesFit
<1>3. CASE WouldWrap(n)
  <2>1. n + PadNeeded \in Nat /\ n + PadNeeded < ShortMod
    BY <1>1, <1>2, <1>3
  <2>2. (n + PadNeeded) % ShortMod = n + PadNeeded
    BY <1>1, <2>1
  <2> QED BY <1>1, <1>3, <2>2 DEF Needed, Total
<1>4. CASE ~ WouldWrap(n)
  BY <1>4 DEF Needed, Total
<1> QED BY <1>3, <1>4

\* The room counted from an index.
LEMMA SpaceIs == \A at : Space(at) = Bytes - Dist(at, P)
BY DEF Space, Dist, P

\* What a granted message does to the sender's end.
LEMMA Sending ==
  ASSUME TypeOK, Order, Granted, SpaceIsThere, sender.pc = "granted"
  PROVE  LET n == sender.want
             pad == IF WouldWrap(n) THEN PadNeeded ELSE 0
             at == Wrapped(P + pad)
         IN  /\ n \in 1..Bytes /\ pad \in 0..Bytes /\ Total(n) = pad + n
             /\ pad + n <= sender.available
             /\ Dist(cons, P) + pad + n <= Bytes
             /\ at \in Idx /\ Dist(cons, at) = Dist(cons, P) + pad
             /\ Wrapped(at + n) \in Idx /\ Dist(cons, Wrapped(at + n)) = Dist(cons, P) + pad + n
             /\ pad > 0 => Offset(P) + pad = Bytes /\ Offset(at) = 0
             /\ Offset(at) + n <= Bytes
<1> DEFINE n == sender.want
           pad == IF WouldWrap(n) THEN PadNeeded ELSE 0
           at == Wrapped(P + pad)
           d == Dist(cons, P)
<1>1. n \in Sizes /\ Total(n) <= sender.available
  BY DEF Granted
<1>2. n \in 1..Bytes /\ PadNeeded \in 1..Bytes
  BY <1>1, TotalIs
<1>3. pad \in 0..Bytes /\ Total(n) = pad + n
  BY <1>2, Sane DEF Total
<1>4. sender.available <= Bytes - d /\ d \in Nat /\ P \in Idx /\ cons \in Idx
      /\ sender.available \in 0..Bytes
  BY Terms, SpaceIs, DistIs DEF SpaceIsThere
<1>5. Offset(P) \in 0..(Bytes - 1) /\ PadNeeded = Bytes - Offset(P)
      /\ (WouldWrap(n) <=> Offset(P) + n >= Bytes)
  BY <1>4, OffsetIn DEF PadNeeded, WouldWrap, P
<1>6. pad > 0 => pad = Bytes - Offset(P) /\ Offset(P) + pad = Bytes
  BY <1>5, Sane
<1>7. pad = 0 => Offset(P) + n <= Bytes
  BY <1>2, <1>5, Sane
<1> HIDE DEF n, pad, d
<1>8. d + pad + n <= Bytes
  BY <1>1, <1>2, <1>3, <1>4, Sane
<1>9. at \in Idx /\ Dist(cons, at) = d + pad
  <2>1. pad \in Nat /\ d + pad < IndexMod
    BY <1>2, <1>3, <1>4, <1>8, Sane
  <2> QED BY <1>4, <2>1, Further DEF d
<1>10. Offset(at) + n <= Bytes /\ (pad > 0 => Offset(at) = 0)
  <2>1. CASE pad = 0
    <3>1. at = P
      BY <1>4, <2>1, WrappedIs DEF Idx
    <3> QED BY <1>7, <2>1, <3>1
  <2>2. CASE pad > 0
    BY <1>2, <1>4, <1>6, <2>2, PadToStart
  <2> QED BY <1>3, <2>1, <2>2
<1> HIDE DEF at
<1>11. Wrapped(at + n) \in Idx /\ Dist(cons, Wrapped(at + n)) = d + pad + n
  <2>1. n \in Nat /\ Dist(cons, at) + n < IndexMod
    BY <1>2, <1>3, <1>4, <1>8, <1>9, Sane
  <2> QED BY <1>4, <1>9, <2>1, Further
<1> QED BY <1>1, <1>2, <1>3, <1>6, <1>8, <1>9, <1>10, <1>11 DEF n, pad, d, at

LEMMA NextTypes ==
  ASSUME TypeOK, Order, Granted, SpaceIsThere, [Next]_vars
  PROVE  TypeOK'
<1>1. ASSUME NEW n \in Sizes, CanSend(n) PROVE TypeOK'
  BY <1>1 DEF CanSend, TypeOK
<1>2. CASE ReadCons
  <2>1. Space(cons) >= Needed(sender.want) => Space(cons) \in 0..Bytes
    <3>1. Space(cons) = Bytes - Dist(cons, P) /\ Dist(cons, P) \in Nat
      BY SpaceIs, Terms, DistIs
    <3> QED BY <3>1, Sane DEF Order
  <2> QED BY <1>2, <2>1 DEF ReadCons, TypeOK
<1>3. CASE ArmConsEvent \/ Retry \/ NotifyReceiver \/ SenderSleeps \/ SenderWakes
  <2>1. Wrapped(sender.seen + 1) \in Idx /\ 0 \in Idx
    <3>1. sender.seen + 1 \in Int
      BY Terms DEF Idx
    <3> QED BY <3>1, WrappedIs, Sane DEF Idx
  <2>2. CASE ArmConsEvent
    BY <2>1, <2>2 DEF ArmConsEvent, TypeOK
  <2>3. CASE Retry
    BY <2>1, <2>3 DEF Retry, TypeOK
  <2>4. CASE NotifyReceiver
    <3>1. sender' = [sender EXCEPT !.pc = IF sender.pc = "pushed" THEN "idle" ELSE "refused", !.old = 0]
      BY <2>4 DEF NotifyReceiver
    <3>2. pending' \in [Ends -> BOOLEAN]
      <4>1. pending \in [Ends -> BOOLEAN]
        BY DEF TypeOK
      <4>2. Crosses(prod, sender.old, prod_event) \in BOOLEAN
        BY DEF Crosses
      <4> QED BY <2>4, <4>1, <4>2 DEF NotifyReceiver, Ends
    <3>3. sender' \in [pc : {"idle", "asking", "noroom", "armed", "granted", "refused", "asleep",
                            "pushed", "pushed refused"},
                       local_prod_pvt : Idx, available : 0..Bytes, want : Sizes \cup {0},
                       seen : Idx, old : Idx]
      BY <2>1, <3>1 DEF TypeOK
    <3> QED BY <2>4, <3>2, <3>3 DEF NotifyReceiver, TypeOK
  <2>5. CASE SenderSleeps
    BY <2>5 DEF SenderSleeps, TypeOK
  <2>6. CASE SenderWakes
    BY <2>6 DEF SenderWakes, TypeOK, Ends
  <2> QED BY <1>3, <2>2, <2>3, <2>4, <2>5, <2>6
<1>4. CASE Flush
  BY <1>4 DEF Flush, TypeOK
<1>5. CASE Send
  <2> DEFINE n == sender.want
             pad == IF WouldWrap(n) THEN PadNeeded ELSE 0
             at == Wrapped(P + pad)
  <2>1. /\ n \in 1..Bytes /\ pad \in 0..Bytes /\ pad + n <= sender.available
        /\ at \in Idx /\ Wrapped(at + n) \in Idx /\ sender.available \in 0..Bytes
        /\ P \in Idx
    BY <1>5, Sending, Terms DEF Send
  <2>2. /\ payload' = [[payload EXCEPT ![Offset(P)] = [type |-> "pad", size |-> pad]]
                          EXCEPT ![Offset(at)] = [type |-> "message", size |-> n]]
        /\ sender' = [sender EXCEPT !.pc = "idle", !.want = 0,
                                    !.available = sender.available - (pad + n),
                                    !.local_prod_pvt = Wrapped(at + n)]
    BY <1>5 DEF Send, Taken, P
  <2> HIDE DEF n, pad, at
  <2>3. sender.available - (pad + n) \in 0..Bytes
    BY <2>1, Sane
  <2>4. [type |-> "pad", size |-> pad] \in Headers /\ [type |-> "message", size |-> n] \in Headers
    BY <2>1, Sane DEF Headers
  <2>5. payload' \in [0..(Bytes - 1) -> Headers]
    BY <2>2, <2>4 DEF TypeOK
  <2>6. sender' \in [pc : {"idle", "asking", "noroom", "armed", "granted", "refused", "asleep",
                          "pushed", "pushed refused"},
                     local_prod_pvt : Idx, available : 0..Bytes, want : Sizes \cup {0},
                     seen : Idx, old : Idx]
    BY <2>1, <2>2, <2>3 DEF TypeOK
  <2> QED BY <1>5, <2>5, <2>6 DEF Send, TypeOK
<1>6. CASE ReadProd \/ FinishMessages \/ FinalCheck \/ CheckAgain
  BY <1>6 DEF ReadProd, FinishMessages, FinalCheck, CheckAgain, TypeOK
<1>7. CASE ReadMessage
  <2>1. Wrapped(C + IncomingMessage.size) \in Idx
    <3>1. IncomingMessage.size \in Int
      BY Terms, Sane DEF IncomingMessage, C, Headers
    <3>2. C + IncomingMessage.size \in Int
      BY <3>1, Terms DEF Idx
    <3> QED BY <3>2, WrappedIs
  <2> QED BY <1>7, <2>1 DEF ReadMessage, TypeOK, C
<1>8. CASE NotifySender \/ ArmProdEvent \/ ReceiverWakes
  <2>1. Wrapped(receiver.seen + 1) \in Idx /\ 0 \in Idx
    <3>1. receiver.seen + 1 \in Int
      BY Terms DEF Idx
    <3> QED BY <3>1, WrappedIs, Sane DEF Idx
  <2>2. CASE NotifySender
    <3>1. pending' \in [Ends -> BOOLEAN]
      <4>1. pending \in [Ends -> BOOLEAN]
        BY DEF TypeOK
      <4>2. Crosses(cons, receiver.old, cons_event) \in BOOLEAN
        BY DEF Crosses
      <4> QED BY <2>2, <4>1, <4>2 DEF NotifySender, Ends
    <3> QED BY <2>1, <2>2, <3>1 DEF NotifySender, TypeOK
  <2>3. CASE ArmProdEvent
    BY <2>1, <2>3 DEF ArmProdEvent, TypeOK
  <2>4. CASE ReceiverWakes
    BY <2>1, <2>4 DEF ReceiverWakes, TypeOK, Ends
  <2> QED BY <1>8, <2>2, <2>3, <2>4
<1>9. CASE UNCHANGED vars
  BY <1>9 DEF vars, TypeOK
<1> QED
  BY <1>1, <1>2, <1>3, <1>4, <1>5, <1>6, <1>7, <1>8, <1>9 DEF Next, SenderStep, ReceiverStep
-----------------------------------------------------------------------------
(***************************************************************************)
(* The order of the indices and the chain of headers                       *)
(***************************************************************************)
\* Steps that leave them alone.
LEMMA QuietChain ==
  ASSUME Order, NEW S, Starts(S, payload), UNCHANGED <<cons, prod, payload>>, C' = C, P' = P,
         receiver'.seen = receiver.seen,
         receiver'.pc = "reading" <=> receiver.pc = "reading"
  PROVE  Order' /\ Starts(S, payload)'
BY DEF Order, Starts, Paired, Dist, Wrapped, Contained, Offset

LEMMA FlushChain ==
  ASSUME TypeOK, Order, NEW S, Starts(S, payload), Flush
  PROVE  Order' /\ Starts(S, payload)'
<1>1. /\ UNCHANGED <<cons, payload, receiver>> /\ prod' = P /\ C' = C /\ P' = P
  BY DEF Flush, TypeOK, C, P
<1>2. Dist(cons, prod) \in Nat /\ Dist(cons, P) \in Nat /\ Dist(cons, C) \in Nat
      /\ Dist(cons, receiver.seen) \in Nat
  BY Terms, DistIs
<1>3. Order'
  <2>1. Dist(cons, C) <= Dist(cons, P)
    BY <1>2 DEF Order
  <2>2. receiver.pc = "reading" => Dist(cons, receiver.seen) <= Dist(cons, P)
    BY <1>2 DEF Order
  <2>3. Dist(cons, P) <= Dist(cons, P)
    BY <1>2
  <2> QED BY <1>1, <2>1, <2>2, <2>3 DEF Order, Dist, Wrapped
<1>4. Starts(S, payload)'
  BY <1>1 DEF Starts, Paired, Dist, Wrapped, Contained, Offset
<1> QED BY <1>3, <1>4

LEMMA ReadProdChain ==
  ASSUME TypeOK, Order, NEW S, Starts(S, payload), ReadProd
  PROVE  Order' /\ Starts(S, payload)'
<1>1. /\ UNCHANGED <<cons, payload, prod>> /\ C' = C /\ P' = P
      /\ receiver'.pc = "reading" /\ receiver'.seen = prod /\ receiver.pc = "top"
  BY DEF ReadProd, TypeOK, C, P
<1>2. Dist(cons, prod) \in Nat
  BY Terms, DistIs
<1>3. Order'
  BY <1>1, <1>2 DEF Order, Dist, Wrapped
<1>4. Starts(S, payload)'
  BY <1>1 DEF Starts, Paired, Dist, Wrapped, Contained, Offset
<1> QED BY <1>3, <1>4

\* Where the header at an index says the next one is.
LEMMA NextStart ==
  ASSUME TypeOK, Order, NEW S, Starts(S, payload), NEW i \in S, i # P
  PROVE  /\ i \in Idx /\ Dist(cons, i) < Dist(cons, P)
         /\ payload[Offset(i)].size \in 1..Bytes
         /\ Wrapped(i + payload[Offset(i)].size) \in S
         /\ Dist(cons, Wrapped(i + payload[Offset(i)].size)) = Dist(cons, i) + payload[Offset(i)].size
         /\ Dist(cons, i) + payload[Offset(i)].size <= Dist(cons, P)
<1> DEFINE n == payload[Offset(i)].size
<1>1. i \in Idx /\ P \in Idx /\ cons \in Idx /\ P \in S /\ Dist(cons, i) <= Dist(cons, P)
      /\ Contained(i, payload[Offset(i)]) /\ Wrapped(i + n) \in S
  BY Terms DEF Starts
<1>2. payload[Offset(i)] \in Headers
  BY <1>1, Terms
<1>3. n \in 1..Bytes
  BY <1>1, <1>2, Sane DEF Contained, Headers
<1> HIDE DEF n
<1>4. Dist(cons, i) < Dist(cons, P)
  <2>1. Dist(cons, i) # Dist(cons, P)
    BY <1>1, DistApart
  <2>2. Dist(cons, i) \in Nat /\ Dist(cons, P) \in Nat
    BY <1>1, DistIs
  <2> QED BY <1>1, <2>1, <2>2
<1>5. Dist(cons, i) + n <= Dist(cons, P)
  BY <1>1, <1>4 DEF Starts, n
<1>6. Dist(cons, i) + n < IndexMod /\ n \in Nat
  <2>1. Dist(cons, i) \in Nat /\ Dist(cons, P) \in Nat /\ Dist(cons, P) < IndexMod
    BY <1>1, DistIs
  <2> QED BY <1>3, <1>5, <2>1, Sane
<1>7. Dist(cons, Wrapped(i + n)) = Dist(cons, i) + n
  BY <1>1, <1>6, Further
<1> QED BY <1>1, <1>3, <1>4, <1>5, <1>7 DEF n

LEMMA ReadMessageChain ==
  ASSUME TypeOK, Order, NEW S, Starts(S, payload), ReadMessage
  PROVE  Order' /\ \E R : Starts(R, payload)'
<1> DEFINE n == payload[Offset(C)].size
           seen == receiver.seen
<1>0. C' = Wrapped(C + n) /\ P' = P /\ C # seen /\ receiver.pc = "reading"
      /\ receiver'.pc = "reading" /\ receiver'.seen = seen
      /\ UNCHANGED <<cons, prod, payload>>
  BY DEF ReadMessage, TypeOK, C, P, IncomingMessage
<1>1. C \in S /\ P \in S /\ prod \in S /\ seen \in S
      /\ \A i \in S : i \in Idx /\ Dist(cons, C) <= Dist(cons, i) /\ Dist(cons, i) <= Dist(cons, P)
  BY <1>0 DEF Starts
<1>2. cons \in Idx /\ \A i \in S : Dist(cons, i) \in Nat
  BY <1>1, Terms, DistIs
<1>3. \A i \in S : i # C => Dist(cons, C) < Dist(cons, i) /\ Dist(cons, C) + n <= Dist(cons, i)
  <2> SUFFICES ASSUME NEW i \in S, i # C
               PROVE  Dist(cons, C) < Dist(cons, i) /\ Dist(cons, C) + n <= Dist(cons, i)
    OBVIOUS
  <2>1. Dist(cons, C) # Dist(cons, i)
    BY <1>1, <1>2, DistApart
  <2>2. Dist(cons, C) < Dist(cons, i)
    BY <1>1, <1>2, <2>1
  <2> QED BY <1>1, <2>2 DEF Starts
<1>4. Dist(cons, seen) <= Dist(cons, prod) /\ Dist(cons, prod) <= Dist(cons, P)
  BY <1>0 DEF Order
<1>5. prod # C /\ P # C
  BY <1>0, <1>1, <1>2, <1>3, <1>4
<1>6. Wrapped(C + n) \in S /\ Dist(cons, Wrapped(C + n)) = Dist(cons, C) + n /\ n \in 1..Bytes
  BY <1>1, <1>5, NextStart
<1> HIDE DEF n
<1>7. Order'
  <2>1. Dist(cons, C') <= Dist(cons, seen) /\ Dist(cons, C') <= Dist(cons, prod)
    BY <1>0, <1>1, <1>3, <1>5, <1>6
  <2> QED BY <1>0, <1>4, <2>1 DEF Order, Dist, Wrapped
<1>8. Wrapped(C + n) # C
  BY <1>1, <1>2, <1>6, Sane
<1> PICK R : R = S \ {C}
  OBVIOUS
<1>9. ASSUME NEW i \in S, i # C, i # P
      PROVE  Wrapped(i + payload[Offset(i)].size) \in R
  <2>1. Wrapped(i + payload[Offset(i)].size) \in S
        /\ Dist(cons, Wrapped(i + payload[Offset(i)].size)) = Dist(cons, i) + payload[Offset(i)].size
        /\ payload[Offset(i)].size \in 1..Bytes
    BY <1>9, NextStart
  <2>2. Dist(cons, i) + payload[Offset(i)].size # Dist(cons, C)
    BY <1>1, <1>2, <1>3, <1>9, <2>1, Sane
  <2> QED BY <2>1, <2>2
<1>10. Starts(R, payload)'
  <2>1. {C', prod, P} \subseteq R /\ seen \in R
    BY <1>0, <1>1, <1>5, <1>6, <1>8
  <2>2. \A i \in R : i \in Idx /\ Dist(cons, C') <= Dist(cons, i) /\ Dist(cons, i) <= Dist(cons, P)
    BY <1>0, <1>1, <1>3, <1>6
  <2>3. \A i \in R \ {P} :
          Contained(i, payload[Offset(i)]) /\ Wrapped(i + payload[Offset(i)].size) \in R
    BY <1>9 DEF Starts
  <2>4. \A i, j \in R :
          Dist(cons, i) < Dist(cons, j) => Dist(cons, i) + payload[Offset(i)].size <= Dist(cons, j)
    BY DEF Starts
  <2>5. \A i \in R \ {P} : Paired(i, payload)
    BY DEF Starts
  <2>6. \A i \in R \ {P} : Paired(i, payload)'
    BY <1>0, <2>5 DEF Paired, Wrapped, Offset
  <2> HIDE DEF seen
  <2> QED
    BY <1>0, <2>1, <2>2, <2>3, <2>4, <2>6 DEF Starts, Paired, Dist, Wrapped, Contained, Offset
<1> QED BY <1>7, <1>10

LEMMA FinishChain ==
  ASSUME TypeOK, Order, NEW S, Starts(S, payload), FinishMessages
  PROVE  Order' /\ Starts(S, payload)'
<1>1. /\ cons' = C /\ C' = C /\ P' = P /\ C = receiver.seen /\ receiver'.seen = receiver.seen
      /\ receiver.pc = "reading" /\ receiver'.pc = "finished" /\ UNCHANGED <<prod, payload>>
  BY DEF FinishMessages, TypeOK, C, P
<1>2. cons \in Idx /\ C \in Idx /\ prod \in Idx /\ P \in Idx
  BY Terms
<1>3. ASSUME NEW i \in Idx, Dist(cons, C) <= Dist(cons, i)
      PROVE  Dist(C, i) = Dist(cons, i) - Dist(cons, C) /\ Dist(cons, i) \in Nat
  BY <1>2, <1>3, DistFrom, DistIs
<1>4. /\ Dist(cons, C) <= Dist(cons, prod) /\ Dist(cons, prod) <= Dist(cons, P)
      /\ Dist(cons, P) <= Bytes /\ Dist(cons, C) \in Nat /\ Dist(cons, C) <= Dist(cons, P)
  <2>1. Dist(cons, C) \in Nat /\ Dist(cons, prod) \in Nat /\ Dist(cons, P) \in Nat
    BY <1>2, DistIs
  <2> QED BY <2>1 DEF Order
<1>5. Order'
  <2>1. Dist(C, C) = 0 /\ Dist(C, prod) \in Nat
    BY <1>2, DistIs
  <2>2. Dist(C, C) <= Dist(C, prod) /\ Dist(C, prod) <= Dist(C, P) /\ Dist(C, P) <= Bytes
    BY <1>2, <1>3, <1>4, <2>1, Sane
  <2> QED BY <1>1, <2>2 DEF Order, Dist, Wrapped
<1>6. Starts(S, payload)'
  <2>1. \A i \in S : i \in Idx /\ Dist(cons, C) <= Dist(cons, i) /\ Dist(cons, i) <= Dist(cons, P)
    BY DEF Starts
  <2>2. \A i \in S : Dist(C, C) <= Dist(C, i) /\ Dist(C, i) <= Dist(C, P)
    BY <1>2, <1>3, <1>4, <2>1
  <2>3. \A i, j \in S :
          Dist(C, i) < Dist(C, j) => Dist(C, i) + payload[Offset(i)].size <= Dist(C, j)
    <3> SUFFICES ASSUME NEW i \in S, NEW j \in S, Dist(C, i) < Dist(C, j)
                 PROVE  Dist(C, i) + payload[Offset(i)].size <= Dist(C, j)
      OBVIOUS
    <3>1. Dist(cons, i) < Dist(cons, j)
      BY <1>2, <1>3, <1>4, <2>1
    <3>2. Dist(cons, i) + payload[Offset(i)].size <= Dist(cons, j)
      BY <3>1 DEF Starts
    <3>3. payload[Offset(i)].size \in Int
      BY <2>1, Terms, Sane DEF Headers
    <3> QED BY <1>2, <1>3, <1>4, <2>1, <3>2, <3>3
  <2>4. /\ {C, prod, P} \subseteq S
        /\ \A i \in S \ {P} :
             Contained(i, payload[Offset(i)]) /\ Wrapped(i + payload[Offset(i)].size) \in S
    BY DEF Starts
  <2>5. \A i \in S \ {P} : Paired(i, payload)
    BY DEF Starts
  <2>6. \A i \in S \ {P} : Paired(i, payload)'
    BY <1>1, <2>5 DEF Paired, Wrapped, Offset
  <2> QED
    BY <1>1, <2>1, <2>2, <2>3, <2>4, <2>6 DEF Starts, Dist, Wrapped, Contained, Offset
<1> QED BY <1>5, <1>6

\* What is written goes behind the last message, and over nothing that was not finished.
LEMMA SendDoes ==
  ASSUME TypeOK, Order, Granted, SpaceIsThere, NEW S, Starts(S, payload), Send
  PROVE  LET n == sender.want
             pad == IF WouldWrap(n) THEN PadNeeded ELSE 0
             at == Wrapped(P + pad)
             q == Wrapped(at + n)
         IN  /\ P' = q /\ C' = C /\ UNCHANGED <<cons, prod, receiver>>
             /\ n \in 1..Bytes /\ pad \in 0..Bytes
             /\ Dist(cons, P) + pad + n <= Bytes
             /\ at \in Idx /\ Dist(cons, at) = Dist(cons, P) + pad
             /\ q \in Idx /\ Dist(cons, q) = Dist(cons, P) + pad + n
             /\ pad > 0 => Offset(P) + pad = Bytes /\ Offset(at) = 0
             /\ Offset(at) + n <= Bytes
             /\ \A i \in S : i # P => payload'[Offset(i)] = payload[Offset(i)]
             /\ payload'[Offset(at)].size = n /\ payload'[Offset(at)].type = "message"
             /\ at # P => /\ pad > 0
                          /\ payload'[Offset(P)].size = pad /\ payload'[Offset(P)].type = "pad"
<1> DEFINE n == sender.want
           pad == IF WouldWrap(n) THEN PadNeeded ELSE 0
           at == Wrapped(P + pad)
           q == Wrapped(at + n)
<1>1. /\ P' = q /\ C' = C /\ UNCHANGED <<cons, prod, receiver>>
      /\ payload' = [[payload EXCEPT ![Offset(P)] = [type |-> "pad", size |-> pad]]
                       EXCEPT ![Offset(at)] = [type |-> "message", size |-> n]]
  BY DEF Send, TypeOK, P, C
<1>2. /\ n \in 1..Bytes /\ pad \in 0..Bytes
      /\ Dist(cons, P) + pad + n <= Bytes
      /\ at \in Idx /\ Dist(cons, at) = Dist(cons, P) + pad
      /\ q \in Idx /\ Dist(cons, q) = Dist(cons, P) + pad + n
      /\ pad > 0 => Offset(P) + pad = Bytes /\ Offset(at) = 0
      /\ Offset(at) + n <= Bytes
  BY Sending DEF Send
<1>3. cons \in Idx /\ P \in Idx /\ Dist(cons, P) \in Nat /\ q = Wrapped(at + n)
      /\ at = Wrapped(P + pad)
  BY Terms, DistIs
<1>4. pad = 0 => at = P
  BY <1>3, WrappedIs DEF Idx
<1>5. pad > 0 => Offset(P) # Offset(at)
  <2> SUFFICES ASSUME pad > 0 PROVE Offset(P) # Offset(at)
    OBVIOUS
  <2> HIDE DEF n, pad, at, q
  <2>1. Dist(P, at) = pad /\ pad < Bytes
    <3>1. Dist(cons, at) = Dist(cons, P) + pad /\ pad \in Nat
      BY <1>2, Sane
    <3> QED BY <1>2, <1>3, <3>1, DistFrom, Sane
  <2> QED BY <1>2, <1>3, <2>1, OffsetsDiffer
<1>6. Offset(P) \in 0..(Bytes - 1) /\ Offset(at) \in 0..(Bytes - 1)
  BY <1>2, <1>3, OffsetIn
<1>7. ASSUME NEW i \in S, i # P
      PROVE  payload'[Offset(i)] = payload[Offset(i)]
  <2> HIDE DEF n, pad, at, q
  <2>1. i \in Idx /\ Dist(cons, i) < Dist(cons, P) /\ Dist(cons, i) \in Nat
    BY <1>3, <1>7, NextStart, DistIs
  <2>2. Dist(i, P) = Dist(cons, P) - Dist(cons, i) /\ Dist(i, at) = Dist(cons, at) - Dist(cons, i)
    BY <1>2, <1>3, <2>1, DistFrom
  <2>3. Dist(i, P) > 0 /\ Dist(i, P) < Bytes /\ Dist(i, at) > 0 /\ Dist(i, at) < Bytes
    BY <1>2, <1>3, <2>1, <2>2, Sane
  <2>4. Offset(i) # Offset(P) /\ Offset(i) # Offset(at) /\ Offset(i) \in 0..(Bytes - 1)
    BY <1>2, <1>3, <2>1, <2>3, OffsetsDiffer, OffsetIn
  <2> QED BY <1>1, <2>4 DEF TypeOK
<1>8. payload'[Offset(at)].size = n /\ payload'[Offset(at)].type = "message"
  <2> HIDE DEF n, pad, at, q
  <2> QED BY <1>1, <1>6 DEF TypeOK
<1>9. at # P => /\ pad > 0
               /\ payload'[Offset(P)].size = pad /\ payload'[Offset(P)].type = "pad"
  <2>1. pad > 0 => payload'[Offset(P)].size = pad /\ payload'[Offset(P)].type = "pad"
    <3> HIDE DEF n, pad, at, q
    <3> QED BY <1>1, <1>5, <1>6 DEF TypeOK
  <2> HIDE DEF n, at, q
  <2> QED BY <1>2, <1>4, <2>1, Sane
<1> HIDE DEF n, pad, at, q
<1>10. /\ P' = q /\ C' = C /\ cons' = cons /\ prod' = prod /\ receiver' = receiver
  BY <1>1
<1>11. \A i \in S : i # P => payload'[Offset(i)] = payload[Offset(i)]
  BY <1>7
<1> QED BY <1>2, <1>8, <1>9, <1>10, <1>11 DEF n, pad, at, q

\* A message, and its pad, are the last of the chain.
LEMMA SendChain ==
  ASSUME TypeOK, Order, Granted, SpaceIsThere, NEW S, Starts(S, payload), Send
  PROVE  Order' /\ \E T : Starts(T, payload)'
<1> DEFINE n == sender.want
           pad == IF WouldWrap(n) THEN PadNeeded ELSE 0
           at == Wrapped(P + pad)
           q == Wrapped(at + n)
<1>1. P' = q /\ C' = C /\ UNCHANGED <<cons, prod, receiver>>
  BY SendDoes
<1>2. /\ n \in 1..Bytes /\ pad \in 0..Bytes
      /\ Dist(cons, P) + pad + n <= Bytes
      /\ at \in Idx /\ Dist(cons, at) = Dist(cons, P) + pad
      /\ q \in Idx /\ Dist(cons, q) = Dist(cons, P) + pad + n
      /\ pad > 0 => Offset(P) + pad = Bytes /\ Offset(at) = 0
      /\ Offset(at) + n <= Bytes
  BY SendDoes
<1>3. cons \in Idx /\ P \in Idx /\ Dist(cons, P) \in Nat /\ q = Wrapped(at + n)
      /\ at = Wrapped(P + pad)
  BY Terms, DistIs
<1>4. ASSUME NEW i \in S, i # P
      PROVE  payload'[Offset(i)] = payload[Offset(i)]
  BY <1>4, SendDoes
<1>5. payload'[Offset(at)].size = n /\ payload'[Offset(at)].type = "message"
  BY SendDoes
<1>6. at # P => payload'[Offset(P)].size = pad /\ pad > 0
  BY SendDoes
<1> HIDE DEF n, pad, at, q
<1>7. \A i \in S : i \in Idx /\ Dist(cons, C) <= Dist(cons, i) /\ Dist(cons, i) <= Dist(cons, P)
                   /\ Dist(cons, i) \in Nat
  BY <1>3, DistIs DEF Starts
<1>8. P \in S /\ C \in S /\ prod \in S
  BY DEF Starts
<1>9. /\ Dist(cons, P) <= Dist(cons, at) /\ Dist(cons, at) < Dist(cons, q)
       /\ Dist(cons, at) \in Nat /\ Dist(cons, q) \in Nat /\ Dist(cons, q) <= Bytes
  BY <1>2, <1>3
<1> PICK T : T = S \cup {at, q}
  OBVIOUS
<1>10. ASSUME NEW i \in T, i # q
       PROVE  Contained(i, payload'[Offset(i)]) /\ Wrapped(i + payload'[Offset(i)].size) \in T
  <2>1. CASE i \in S /\ i # P
    BY <1>4, <2>1 DEF Starts
  <2>2. CASE i = at
    <3>1. Contained(at, payload'[Offset(at)])
      BY <1>2, <1>5 DEF Contained
    <3> QED BY <1>3, <1>5, <2>2, <3>1
  <2>3. CASE i = P /\ at # P
    <3>1. Contained(P, payload'[Offset(P)])
      BY <1>2, <1>6, <2>3, Sane DEF Contained
    <3> QED BY <1>3, <1>6, <2>3, <3>1
  <2> QED BY <1>10, <2>1, <2>2, <2>3
<1>11. ASSUME NEW i \in T, NEW j \in T, Dist(cons, i) < Dist(cons, j)
       PROVE  Dist(cons, i) + payload'[Offset(i)].size <= Dist(cons, j)
  <2>1. CASE i \in S /\ i # P
    <3>1. Dist(cons, i) + payload[Offset(i)].size <= Dist(cons, P) /\ payload[Offset(i)].size \in 1..Bytes
      BY <2>1, NextStart
    <3>2. CASE j \in S
      BY <1>4, <1>11, <2>1, <3>2 DEF Starts
    <3>3. CASE j \in {at, q}
      BY <1>3, <1>4, <1>7, <1>9, <2>1, <3>1, <3>3, Sane
    <3> QED BY <3>2, <3>3
  <2>2. CASE i = at
    <3>1. j = q
      BY <1>3, <1>7, <1>9, <1>11, <2>2
    <3> QED BY <1>2, <1>3, <1>5, <2>2, <3>1
  <2>3. CASE i = P /\ at # P
    <3>1. j \in {at, q}
      BY <1>3, <1>7, <1>11, <2>3
    <3>2. Dist(cons, at) <= Dist(cons, j)
      BY <1>9, <3>1
    <3> QED BY <1>2, <1>6, <2>3, <3>2
  <2>4. CASE i = q
    BY <1>3, <1>7, <1>9, <1>11, <2>4
  <2> QED BY <2>1, <2>2, <2>3, <2>4
<1>12. \A i \in T : i \in Idx /\ Dist(cons, C) <= Dist(cons, i) /\ Dist(cons, i) <= Dist(cons, q)
  <2> SUFFICES ASSUME NEW i \in T
               PROVE  i \in Idx /\ Dist(cons, C) <= Dist(cons, i) /\ Dist(cons, i) <= Dist(cons, q)
    OBVIOUS
  <2>1. CASE i \in S
    BY <1>3, <1>7, <1>9, <2>1
  <2>2. CASE i = at \/ i = q
    BY <1>2, <1>3, <1>7, <1>8, <1>9, <2>2
  <2> QED BY <2>1, <2>2
\* The pairs are those of before, and the one written.
<1>13. ASSUME NEW i \in T, i # q PROVE Paired(i, payload)'
  <2> DEFINE next == Wrapped(i + payload'[Offset(i)].size)
  <2> SUFFICES ASSUME payload'[Offset(i)].type = "pad"
               PROVE  next # prod /\ next # q /\ payload'[Offset(next)].type # "pad"
    BY <1>1 DEF Paired, Wrapped, Offset
  <2>1. CASE i \in S /\ i # P
    <3>1. payload'[Offset(i)] = payload[Offset(i)]
      BY <1>4, <2>1
    <3>2. next \in S /\ next # prod /\ next # P /\ payload[Offset(next)].type # "pad"
      BY <2>1, <3>1 DEF Starts, Paired
    <3> HIDE DEF next
    <3>3. payload'[Offset(next)] = payload[Offset(next)]
      BY <1>4, <3>2
    <3>4. next # q
      BY <1>3, <1>7, <1>9, <3>2
    <3> QED BY <3>2, <3>3, <3>4
  <2>2. CASE i = at
    BY <1>5, <2>2
  <2>3. CASE i = P /\ at # P
    <3>1. next = at
      BY <1>3, <1>6, <2>3
    <3>2. Dist(cons, P) < Dist(cons, at)
      BY <1>2, <1>3, <1>6, <2>3
    <3>3. Dist(cons, prod) <= Dist(cons, P) /\ Dist(cons, prod) \in Nat
      BY <1>7, <1>8
    <3>4. at # prod /\ at # q
      BY <1>3, <1>9, <3>2, <3>3
    <3> QED BY <1>5, <3>1, <3>4
  <2> QED BY <1>13, <2>1, <2>2, <2>3
<1>14. Starts(T, payload)'
  <2>1. {C, prod, q} \subseteq T /\ (receiver.pc = "reading" => receiver.seen \in T)
    BY <1>8 DEF Starts
  <2>2. \A i \in T \ {q} :
          Contained(i, payload'[Offset(i)]) /\ Wrapped(i + payload'[Offset(i)].size) \in T
    BY <1>10
  <2>3. \A i \in T \ {q} : Paired(i, payload)'
    BY <1>13
  <2> QED
    BY <1>1, <1>11, <1>12, <2>1, <2>2, <2>3 DEF Starts, Dist, Wrapped, Contained, Offset
<1>15. Order'
  <2>1. Dist(cons, prod) <= Dist(cons, q)
    BY <1>8, <1>12
  <2> QED BY <1>1, <1>9, <2>1 DEF Order, Dist, Wrapped
<1> QED BY <1>14, <1>15

\* Every step keeps the order and the chain.
LEMMA NextChain ==
  ASSUME TypeOK, Order, Chained, Granted, SpaceIsThere, [Next]_vars
  PROVE  Order' /\ Chained'
<1> PICK S : Starts(S, payload)
  BY DEF Chained
<1>1. ASSUME UNCHANGED <<cons, prod, payload>>, C' = C, P' = P, receiver'.seen = receiver.seen,
             receiver'.pc = "reading" <=> receiver.pc = "reading"
      PROVE  Order' /\ Chained'
  BY <1>1, QuietChain DEF Chained
<1>2. ASSUME NEW n \in Sizes, CanSend(n) PROVE Order' /\ Chained'
  BY <1>1, <1>2 DEF CanSend, TypeOK, C, P
<1>3. CASE \/ ReadCons \/ ArmConsEvent \/ Retry \/ NotifyReceiver \/ SenderSleeps \/ SenderWakes
  <2>1. UNCHANGED <<cons, prod, payload, receiver>> /\ P' = P
    BY <1>3 DEF ReadCons, ArmConsEvent, Retry, NotifyReceiver, SenderSleeps, SenderWakes, TypeOK, P
  <2> QED BY <1>1, <2>1 DEF C
<1>4. CASE \/ NotifySender \/ FinalCheck \/ ArmProdEvent \/ CheckAgain \/ ReceiverWakes
  <2>1. /\ UNCHANGED <<cons, prod, payload, sender>> /\ C' = C /\ receiver'.seen = receiver.seen
        /\ receiver'.pc # "reading" /\ receiver.pc # "reading"
    BY <1>4 DEF NotifySender, FinalCheck, ArmProdEvent, CheckAgain, ReceiverWakes, TypeOK, C
  <2> QED BY <1>1, <2>1 DEF P
<1>5. CASE Send
  BY <1>5, SendChain DEF Chained
<1>6. CASE Flush
  BY <1>6, FlushChain DEF Chained
<1>7. CASE ReadProd
  BY <1>7, ReadProdChain DEF Chained
<1>8. CASE ReadMessage
  BY <1>8, ReadMessageChain DEF Chained
<1>9. CASE FinishMessages
  BY <1>9, FinishChain DEF Chained
<1>10. CASE UNCHANGED vars
  BY <1>1, <1>10 DEF vars, C, P
<1> QED
  BY <1>2, <1>3, <1>4, <1>5, <1>6, <1>7, <1>8, <1>9, <1>10 DEF Next, SenderStep, ReceiverStep
-----------------------------------------------------------------------------
(***************************************************************************)
(* Room                                                                    *)
(***************************************************************************)
\* A grant is for a message and the pad it needs.
LEMMA NextGranted ==
  ASSUME SizesFit, TypeOK, Order, Granted, SpaceIsThere, [Next]_vars
  PROVE  Granted'
<1>1. ASSUME UNCHANGED sender PROVE Granted'
  BY <1>1 DEF Granted, Total, WouldWrap, PadNeeded, Offset
<1>2. ASSUME sender'.local_prod_pvt = sender.local_prod_pvt, sender'.want = sender.want,
             sender'.pc # "granted",
             sender'.pc \notin {"idle", "pushed"} => sender.pc \notin {"idle", "pushed"}
      PROVE  Granted'
  BY <1>2 DEF Granted
<1>3. ASSUME NEW n \in Sizes, CanSend(n) PROVE Granted'
  <2>1. sender' = [sender EXCEPT !.want = n,
                                 !.pc = IF sender.available > 2 * n THEN "granted" ELSE "asking"]
    BY <1>3 DEF CanSend
  <2>2. sender'.want = n /\ sender'.available = sender.available
        /\ sender'.local_prod_pvt = sender.local_prod_pvt
        /\ (sender'.pc = "granted" => sender.available > 2 * n)
    BY <2>1 DEF TypeOK
  <2>3. n \in Nat /\ Total(n) \in Nat /\ Total(n) <= 2 * n /\ sender.available \in Int
    BY TotalIs, Terms, Sane
  <2>4. Total(n)' = Total(n)
    BY <2>2 DEF Total, WouldWrap, PadNeeded, Offset
  <2> HIDE DEF Granted
  <2>5. sender'.pc = "granted" => Total(n) <= sender.available
    BY <2>2, <2>3
  <2> QED BY <2>2, <2>4, <2>5 DEF Granted
<1>4. CASE ReadCons
  <2>1. sender.want \in Sizes /\ sender.pc = "asking"
    BY <1>4 DEF ReadCons, Granted
  <2>2. Needed(sender.want) = Total(sender.want) /\ Total(sender.want) \in Nat
    BY <2>1, TotalIs, NeededIs
  <2>3. CASE Space(cons) >= Needed(sender.want)
    <3>1. sender' = [sender EXCEPT !.pc = "granted", !.available = Space(cons)]
      BY <1>4, <2>3 DEF ReadCons
    <3>2. sender'.want = sender.want /\ sender'.local_prod_pvt = sender.local_prod_pvt
          /\ sender'.available = Space(cons)
      BY <3>1 DEF TypeOK
    <3>3. Total(sender.want)' = Total(sender.want)
      BY <3>2 DEF Total, WouldWrap, PadNeeded, Offset
    <3>4. Space(cons) \in Int
      BY SpaceIs, Terms, DistIs, Sane
    <3>5. Total(sender.want) <= Space(cons)
      BY <2>2, <2>3, <3>4
    <3> QED BY <2>1, <3>2, <3>3, <3>5 DEF Granted
  <2>4. CASE ~ (Space(cons) >= Needed(sender.want))
    <3>1. sender' = [sender EXCEPT !.pc = "noroom", !.seen = cons]
      BY <1>4, <2>4 DEF ReadCons
    <3> QED BY <1>2, <2>1, <3>1 DEF TypeOK
  <2> QED BY <2>3, <2>4
<1>5. CASE ArmConsEvent \/ Retry \/ Flush \/ NotifyReceiver \/ SenderSleeps \/ SenderWakes
  <2>1. /\ sender'.local_prod_pvt = sender.local_prod_pvt /\ sender'.want = sender.want
        /\ sender'.pc # "granted"
        /\ sender'.pc \notin {"idle", "pushed"} => sender.pc \notin {"idle", "pushed"}
    BY <1>5 DEF ArmConsEvent, Retry, Flush, NotifyReceiver, SenderSleeps, SenderWakes, TypeOK
  <2> QED BY <1>2, <2>1
<1>6. CASE Send
  <2>1. sender'.pc = "idle"
    BY <1>6 DEF Send, TypeOK
  <2> QED BY <2>1 DEF Granted
<1>7. CASE ReceiverStep \/ UNCHANGED vars
  BY <1>1, <1>7 DEF ReceiverStep, ReadProd, ReadMessage, FinishMessages, NotifySender,
     FinalCheck, ArmProdEvent, CheckAgain, ReceiverWakes, vars
<1> QED BY <1>3, <1>4, <1>5, <1>6, <1>7 DEF Next, SenderStep

\* The receiver makes room, the sender uses what it was promised.
LEMMA NextSpace ==
  ASSUME TypeOK, Order, Granted, SpaceIsThere, [Next]_vars
  PROVE  SpaceIsThere'
<1>1. ASSUME P' = P, cons' = cons, sender'.available = sender.available
      PROVE  SpaceIsThere'
  BY <1>1 DEF SpaceIsThere, Space, Wrapped, P
<1>2. ASSUME NEW n \in Sizes, CanSend(n) PROVE SpaceIsThere'
  BY <1>1, <1>2 DEF CanSend, TypeOK, P
<1>3. CASE ReadCons
  <2>1. CASE Space(cons) >= Needed(sender.want)
    <3>1. sender' = [sender EXCEPT !.pc = "granted", !.available = Space(cons)] /\ cons' = cons
      BY <1>3, <2>1 DEF ReadCons
    <3>2. sender'.available = Space(cons) /\ Space(cons)' = Space(cons)
      BY <3>1 DEF TypeOK, Space, Wrapped
    <3>3. Space(cons) \in Int
      BY SpaceIs, Terms, DistIs, Sane
    <3> QED BY <3>2, <3>3 DEF SpaceIsThere
  <2>2. CASE ~ (Space(cons) >= Needed(sender.want))
    BY <1>1, <1>3, <2>2 DEF ReadCons, TypeOK, P
  <2> QED BY <2>1, <2>2
<1>4. CASE ArmConsEvent \/ Retry \/ Flush \/ NotifyReceiver \/ SenderSleeps \/ SenderWakes
  BY <1>1, <1>4 DEF ArmConsEvent, Retry, Flush, NotifyReceiver, SenderSleeps, SenderWakes, TypeOK, P
<1>5. CASE Send
  <2> DEFINE n == sender.want
             pad == IF WouldWrap(n) THEN PadNeeded ELSE 0
             at == Wrapped(P + pad)
             q == Wrapped(at + n)
  <2>1. P' = q /\ cons' = cons /\ sender'.available = sender.available - (pad + n)
    BY <1>5 DEF Send, TypeOK, P, Taken
  <2>2. /\ n \in 1..Bytes /\ pad \in 0..Bytes
        /\ q \in Idx /\ Dist(cons, q) = Dist(cons, P) + pad + n
    BY <1>5, Sending DEF Send
  <2>3. sender.available <= Bytes - Dist(cons, P) /\ sender.available \in 0..Bytes
        /\ Dist(cons, P) \in Nat
    BY SpaceIs, Terms, DistIs DEF SpaceIsThere
  <2>4. Space(cons)' = Bytes - Dist(cons, q)
    BY <2>1 DEF Space, Wrapped, P, Dist
  <2> HIDE DEF n, pad, at, q
  <2>5. sender.available - (pad + n) <= Bytes - Dist(cons, q)
    BY <2>2, <2>3, Sane
  <2> QED BY <2>1, <2>4, <2>5 DEF SpaceIsThere
<1>6. CASE FinishMessages
  <2>1. cons' = C /\ UNCHANGED sender /\ receiver.pc = "reading" /\ C = receiver.seen
    BY <1>6 DEF FinishMessages, C
  <2>2. Dist(cons, C) <= Dist(cons, prod) /\ Dist(cons, prod) <= Dist(cons, P)
    BY DEF Order
  <2>3. cons \in Idx /\ C \in Idx /\ P \in Idx /\ Dist(cons, C) \in Nat /\ Dist(cons, P) \in Nat
        /\ Dist(cons, prod) \in Nat
    BY Terms, DistIs
  <2>4. Dist(C, P) = Dist(cons, P) - Dist(cons, C)
    BY <2>2, <2>3, DistFrom
  <2>5. Space(cons)' = Bytes - Dist(C, P) /\ Space(cons) = Bytes - Dist(cons, P)
    BY <2>1, SpaceIs DEF Space, Wrapped, P, Dist
  <2>6. sender.available <= Bytes - Dist(C, P)
    BY <2>3, <2>4, <2>5, Terms, Sane DEF SpaceIsThere
  <2> QED BY <2>1, <2>5, <2>6 DEF SpaceIsThere
<1>7. CASE \/ ReadProd \/ ReadMessage \/ NotifySender \/ FinalCheck \/ ArmProdEvent
           \/ CheckAgain \/ ReceiverWakes \/ UNCHANGED vars
  BY <1>1, <1>7 DEF ReadProd, ReadMessage, NotifySender, FinalCheck, ArmProdEvent, CheckAgain,
     ReceiverWakes, vars, P
<1> QED BY <1>2, <1>3, <1>4, <1>5, <1>6, <1>7 DEF Next, SenderStep, ReceiverStep
-----------------------------------------------------------------------------
(***************************************************************************)
(* Events                                                                  *)
(***************************************************************************)
\* The index behind another, and back.
LEMMA NextIndexIs ==
  ASSUME NEW i \in Idx
  PROVE  /\ Wrapped(i + 1) \in Idx /\ Wrapped(Wrapped(i + 1) - 1) = i
         /\ Wrapped(i - 1) \in Idx /\ Wrapped(Wrapped(i - 1) + 1) = i
<1>0. i \in Int /\ 0 <= i /\ i < IndexMod /\ IndexMod \in Nat /\ IndexMod > 1
  BY Sane DEF Idx
<1> DEFINE up == IF i + 1 < IndexMod THEN i + 1 ELSE 0
           down == IF i > 0 THEN i - 1 ELSE IndexMod - 1
<1>1. Wrapped(i + 1) = up /\ up \in Idx
  <2> DEFINE m == i + 1
  <2>1. m \in Int /\ (m < IndexMod => m \in Idx) /\ (~ (m < IndexMod) => m = IndexMod)
        /\ IndexMod \in IndexMod..(2 * IndexMod - 1) /\ 0 \in Idx
    BY <1>0 DEF Idx
  <2> HIDE DEF m
  <2>2. Wrapped(m) = IF m < IndexMod THEN m ELSE 0
    BY <1>0, <2>1, WrappedIs
  <2> QED BY <2>1, <2>2 DEF m
<1>2. Wrapped(i - 1) = down /\ down \in Idx
  <2> DEFINE m == i - 1
  <2>1. m \in Int /\ (i > 0 => m \in Idx) /\ (~ (i > 0) => m = -1)
        /\ -1 \in (-IndexMod)..(-1) /\ IndexMod - 1 \in Idx
    BY <1>0 DEF Idx
  <2> HIDE DEF m
  <2>2. Wrapped(m) = IF i > 0 THEN m ELSE IndexMod - 1
    <3>1. CASE i > 0
      BY <2>1, <3>1, WrappedIs
    <3>2. CASE ~ (i > 0)
      <4>1. Wrapped(m) = -1 + IndexMod
        BY <2>1, <3>2, WrappedIs
      <4> QED BY <1>0, <3>2, <4>1
    <3> QED BY <3>1, <3>2
  <2> QED BY <2>1, <2>2 DEF m
<1>3. Wrapped(up - 1) = i
  <2>1. CASE i + 1 < IndexMod
    <3>1. up - 1 = i
      BY <1>0, <2>1
    <3>2. Wrapped(i) = i
      BY <1>0, WrappedIs
    <3> QED BY <3>1, <3>2
  <2>2. CASE ~ (i + 1 < IndexMod)
    <3>1. up - 1 = -1 /\ -1 \in (-IndexMod)..(-1) /\ -1 \in Int
      BY <1>0, <2>2
    <3>2. Wrapped(-1) = -1 + IndexMod
      BY <3>1, WrappedIs
    <3> QED BY <1>0, <2>2, <3>1, <3>2
  <2> QED BY <2>1, <2>2
<1>4. Wrapped(down + 1) = i
  <2>1. CASE i > 0
    <3>1. down + 1 = i
      BY <1>0, <2>1
    <3>2. Wrapped(i) = i
      BY <1>0, WrappedIs
    <3> QED BY <3>1, <3>2
  <2>2. CASE ~ (i > 0)
    <3>1. down + 1 = IndexMod /\ IndexMod \in IndexMod..(2 * IndexMod - 1) /\ IndexMod \in Int
      BY <1>0, <2>2
    <3>2. Wrapped(IndexMod) = IndexMod - IndexMod
      BY <3>1, WrappedIs
    <3> QED BY <1>0, <2>2, <3>1, <3>2
  <2> QED BY <2>1, <2>2
<1> QED BY <1>1, <1>2, <1>3, <1>4

\* Who moves its index on from the one it was asked to pass notices it.
LEMMA CrossesNext ==
  ASSUME NEW a \in Idx, NEW i \in Idx, a # i
  PROVE  Crosses(i, a, Wrapped(a + 1))
<1>1. Dist(a, a) = 0 /\ Dist(a, i) \in Nat /\ Dist(a, i) # 0 /\ 1 \in Nat /\ 0 + 1 = 1
      /\ 1 < IndexMod
  BY DistIs, Sane
<1>2. Wrapped(a + 1) \in Idx /\ Dist(a, Wrapped(a + 1)) = 1
  BY <1>1, Further
<1>3. Dist(Wrapped(a + 1), i) = Dist(a, i) - 1
  BY <1>1, <1>2, DistFrom
<1>4. Dist(Wrapped(a + 1), i) < Dist(a, i)
  BY <1>1, <1>3
<1> QED BY <1>4 DEF Crosses, Dist

LEMMA NextAsked ==
  ASSUME TypeOK, Order, Asked, [Next]_vars
  PROVE  Asked'
<1>1. ASSUME UNCHANGED <<receiver, prod_event>> PROVE Asked'
  BY <1>1 DEF Asked, C, Wrapped
<1>2. CASE ArmProdEvent
  BY <1>2 DEF ArmProdEvent, Order, Asked, TypeOK, C, Wrapped
<1>3. CASE CheckAgain
  BY <1>3 DEF CheckAgain, Asked, TypeOK, C, Wrapped
<1>4. CASE ReadProd \/ ReadMessage \/ FinishMessages \/ NotifySender \/ FinalCheck \/ ReceiverWakes
  <2>1. receiver'.pc \notin {"armed", "asleep"}
    BY <1>4 DEF ReadProd, ReadMessage, FinishMessages, NotifySender, FinalCheck, ReceiverWakes, TypeOK
  <2> QED BY <2>1 DEF Asked
<1> QED
  BY <1>1, <1>2, <1>3, <1>4 DEF Next, SenderStep, ReceiverStep, vars, CanSend, ReadCons, ArmConsEvent,
     Retry, Send, Flush, NotifyReceiver, SenderSleeps, SenderWakes

\* A flush notices the receiver that asked; a receiver that asked looks once more.
LEMMA NextReceiverTold ==
  ASSUME TypeOK, Order, Asked, ReceiverTold, [Next]_vars
  PROVE  ReceiverTold'
<1>1. ASSUME UNCHANGED <<prod, prod_event, receiver>>, pending'["receiver"] = pending["receiver"],
             sender.pc \in {"pushed", "pushed refused"} =>
               sender'.pc = sender.pc /\ sender'.old = sender.old
      PROVE  ReceiverTold'
  BY <1>1 DEF ReceiverTold, C, Crosses, Wrapped
<1>2. ASSUME NEW n \in Sizes, CanSend(n) PROVE ReceiverTold'
  BY <1>1, <1>2 DEF CanSend
<1>3. CASE ReadCons \/ ArmConsEvent \/ Retry \/ Send \/ SenderSleeps \/ SenderWakes
  <2>1. /\ UNCHANGED <<prod, prod_event, receiver>> /\ pending'["receiver"] = pending["receiver"]
        /\ sender.pc \notin {"pushed", "pushed refused"}
    BY <1>3 DEF ReadCons, ArmConsEvent, Retry, Send, SenderSleeps, SenderWakes, TypeOK, Ends
  <2> QED BY <1>1, <2>1
<1>4. CASE Flush
  <2> SUFFICES ASSUME receiver.pc = "asleep", P # C, ~ pending["receiver"]
               PROVE  Crosses(P, prod, prod_event)
    BY <1>4 DEF Flush, ReceiverTold, TypeOK, P, C, Crosses, Wrapped
  <2>1. prod = C
    BY <1>4 DEF Flush, ReceiverTold
  <2>2. prod_event = Wrapped(C + 1)
    BY DEF Asked
  <2> QED BY <2>1, <2>2, Terms, CrossesNext
<1>5. CASE NotifyReceiver
  <2>1. pending'["receiver"] = (pending["receiver"] \/ Crosses(prod, sender.old, prod_event))
        /\ UNCHANGED <<prod, receiver>>
    BY <1>5 DEF NotifyReceiver, TypeOK, Ends
  <2> QED BY <2>1 DEF ReceiverTold, C
<1>6. CASE CheckAgain
  <2>1. UNCHANGED prod /\ C' = C /\ (receiver'.pc = "asleep" => prod = receiver.seen)
        /\ receiver.seen = C
    BY <1>6 DEF CheckAgain, TypeOK, C, Order
  <2> QED BY <2>1 DEF ReceiverTold
<1>7. CASE \/ ReadProd \/ ReadMessage \/ FinishMessages \/ NotifySender \/ FinalCheck
           \/ ArmProdEvent \/ ReceiverWakes
  <2>1. receiver'.pc # "asleep"
    BY <1>7 DEF ReadProd, ReadMessage, FinishMessages, NotifySender, FinalCheck, ArmProdEvent,
       ReceiverWakes, TypeOK
  <2> QED BY <2>1 DEF ReceiverTold
<1>8. CASE UNCHANGED vars
  BY <1>1, <1>8 DEF vars
<1> QED
  BY <1>2, <1>3, <1>4, <1>5, <1>6, <1>7, <1>8 DEF Next, SenderStep, ReceiverStep

\* The sender's half of the same.
LEMMA NextRefused ==
  ASSUME TypeOK, Order, Granted, Refused, [Next]_vars
  PROVE  Refused'
<1> DEFINE Waiting == {"refused", "pushed refused", "asleep"}
\* What Refused asks of a waiting sender, for other values of what the sender does not write.
<1>1. ASSUME P' = P, sender'.want = sender.want, sender'.pc \in Waiting, sender.pc \in Waiting,
             UNCHANGED cons_event,
             \/ cons' = Awaited
             \/ pending'["sender"]
             \/ receiver'.pc = "finished" /\ Crosses(cons', receiver'.old, cons_event)
      PROVE  Refused'
  BY <1>1 DEF Refused, Awaited, Space, Needed, WouldWrap, PadNeeded, Offset, Wrapped, Crosses, P
<1>2. ASSUME sender'.pc \notin {"noroom", "armed"}, sender'.pc \notin Waiting PROVE Refused'
  BY <1>2 DEF Refused
<1>3. ASSUME NEW n \in Sizes, CanSend(n) PROVE Refused'
  BY <1>2, <1>3 DEF CanSend, TypeOK
<1>4. CASE Send \/ SenderWakes
  BY <1>2, <1>4 DEF Send, SenderWakes, TypeOK
<1>5. CASE ReadCons
  <2>1. CASE Space(cons) >= Needed(sender.want)
    BY <1>2, <1>5, <2>1 DEF ReadCons, TypeOK
  <2>2. CASE ~ (Space(cons) >= Needed(sender.want))
    <3>1. sender' = [sender EXCEPT !.pc = "noroom", !.seen = cons]
      BY <1>5, <2>2 DEF ReadCons
    <3>2. sender'.pc = "noroom" /\ sender'.seen = cons /\ sender'.want = sender.want
          /\ sender'.local_prod_pvt = sender.local_prod_pvt
      BY <3>1 DEF TypeOK
    <3>3. sender.want \in Sizes
      BY <1>5 DEF ReadCons, Granted
    <3>4. Space(cons) \in Int /\ Needed(sender.want) \in Int
      BY <3>3, SpaceIs, TotalIs, Terms, DistIs, Sane
    <3>5. Space(cons) < Needed(sender.want)
      BY <2>2, <3>4
    <3> QED BY <3>2, <3>5 DEF Refused, Space, Needed, WouldWrap, PadNeeded, Offset
  <2> QED BY <2>1, <2>2
<1>6. CASE ArmConsEvent
  <2>1. /\ sender'.pc = "armed" /\ sender'.seen = sender.seen /\ sender'.want = sender.want
        /\ sender'.local_prod_pvt = sender.local_prod_pvt /\ sender.pc = "noroom"
        /\ cons_event' = Wrapped(sender.seen + 1)
    BY <1>6 DEF ArmConsEvent, TypeOK
  <2> QED BY <2>1 DEF Refused, Space, Needed, WouldWrap, PadNeeded, Offset, Wrapped
<1>7. CASE Retry
  <2>1. /\ sender' = [sender EXCEPT !.pc = IF cons # sender.seen THEN "asking" ELSE "refused",
                                     !.seen = 0]
        /\ sender.pc = "armed" /\ UNCHANGED <<cons, cons_event>>
    BY <1>7 DEF Retry
  <2>2. CASE cons # sender.seen
    BY <1>2, <2>1, <2>2 DEF TypeOK
  <2>3. CASE cons = sender.seen
    <3>1. sender'.pc = "refused" /\ sender'.want = sender.want
          /\ sender'.local_prod_pvt = sender.local_prod_pvt
      BY <2>1, <2>3 DEF TypeOK
    <3>2. Space(cons) < Needed(sender.want) /\ Wrapped(cons_event - 1) = cons
      BY <2>1, <2>3, Terms, NextIndexIs DEF Refused
    <3> QED
      BY <2>1, <3>1, <3>2 DEF Refused, Awaited, Space, Needed, WouldWrap, PadNeeded, Offset, Wrapped
  <2> QED BY <2>2, <2>3
<1>8. CASE Flush \/ NotifyReceiver \/ SenderSleeps
  <2>1. /\ UNCHANGED <<cons, cons_event, receiver>> /\ pending'["sender"] = pending["sender"]
        /\ P' = P /\ sender'.want = sender.want
        /\ \/ sender.pc \in Waiting /\ sender'.pc \in Waiting
           \/ sender'.pc \in {"idle", "pushed"}
    BY <1>8 DEF Flush, NotifyReceiver, SenderSleeps, TypeOK, P, Ends
  <2>2. CASE sender.pc \in Waiting /\ sender'.pc \in Waiting
    BY <1>1, <2>1, <2>2 DEF Refused
  <2>3. CASE sender'.pc \in {"idle", "pushed"}
    BY <1>2, <2>3
  <2> QED BY <2>1, <2>2, <2>3
<1>9. ASSUME UNCHANGED <<sender, cons_event>>,
             sender.pc \in Waiting =>
               \/ cons' = Awaited
               \/ pending'["sender"]
               \/ receiver'.pc = "finished" /\ Crosses(cons', receiver'.old, cons_event)
      PROVE  Refused'
  <2>1. CASE sender.pc \in Waiting
    BY <1>1, <1>9, <2>1 DEF P
  <2>2. CASE sender.pc \notin Waiting
    BY <1>9, <2>2 DEF Refused, Space, Needed, WouldWrap, PadNeeded, Offset, Wrapped
  <2> QED BY <2>1, <2>2
<1>10. CASE FinishMessages
  <2>1. /\ UNCHANGED <<sender, cons_event, pending>> /\ cons' = C
        /\ receiver'.pc = "finished" /\ receiver'.old = cons /\ receiver.pc = "reading"
    BY <1>10 DEF FinishMessages, TypeOK, C
  <2>2. cons = Awaited /\ C # cons => Crosses(C, cons, cons_event)
    <3>1. cons_event \in Idx /\ cons \in Idx /\ C \in Idx
      BY Terms DEF TypeOK
    <3> QED BY <3>1, NextIndexIs, CrossesNext DEF Awaited
  <2> QED BY <1>9, <2>1, <2>2 DEF Refused
<1>11. CASE NotifySender
  <2>1. /\ UNCHANGED <<sender, cons, cons_event>>
        /\ pending'["sender"] = (pending["sender"] \/ Crosses(cons, receiver.old, cons_event))
    BY <1>11 DEF NotifySender, TypeOK, Ends
  <2> QED BY <1>9, <2>1 DEF Refused
<1>12. CASE ReadProd \/ ReadMessage \/ FinalCheck \/ ArmProdEvent \/ CheckAgain \/ ReceiverWakes
  <2>1. /\ UNCHANGED <<sender, cons, cons_event>> /\ pending'["sender"] = pending["sender"]
        /\ receiver.pc # "finished"
    BY <1>12 DEF ReadProd, ReadMessage, FinalCheck, ArmProdEvent, CheckAgain, ReceiverWakes, TypeOK, Ends
  <2> QED BY <1>9, <2>1 DEF Refused
<1>13. CASE UNCHANGED vars
  BY <1>9, <1>13 DEF vars, Refused
<1> QED
  BY <1>3, <1>4, <1>5, <1>6, <1>7, <1>8, <1>10, <1>11, <1>12, <1>13 DEF Next, SenderStep, ReceiverStep
-----------------------------------------------------------------------------
(***************************************************************************)
(* Correctness                                                             *)
(***************************************************************************)
LEMMA InitRing == Init => RingInv
<1> SUFFICES ASSUME Init PROVE RingInv
  OBVIOUS
<1>0. 0 \in Idx /\ 1 \in Idx /\ Dist(0, 0) = 0 /\ Bytes \in Nat /\ Bytes > 0
  <2>1. 0 \in Idx /\ 1 \in Idx
    BY Sane DEF Idx
  <2> QED BY <2>1, DistIs, Sane
<1>1. TypeOK
  BY <1>0, Sane DEF Init, TypeOK, Headers, Ends
<1>2. C = 0 /\ P = 0 /\ prod = 0 /\ cons = 0 /\ receiver.pc = "top" /\ receiver.seen = 0
      /\ sender.pc = "idle" /\ sender.available = 0
  BY DEF Init, C, P
<1>3. Order
  BY <1>0, <1>2 DEF Order
<1>4. Chained
  <2>1. Starts({0}, payload)
    BY <1>0, <1>2 DEF Starts
  <2> QED BY <2>1 DEF Chained
<1>5. Granted /\ Asked /\ Refused /\ ReceiverTold
  BY <1>2 DEF Granted, Asked, Refused, ReceiverTold
<1>6. SpaceIsThere
  <2>1. Space(cons) = Bytes - Dist(0, 0)
    BY <1>2, SpaceIs
  <2> QED BY <1>0, <1>2, <2>1 DEF SpaceIsThere
<1> QED BY <1>1, <1>3, <1>4, <1>5, <1>6 DEF RingInv

LEMMA NextRing == ASSUME SizesFit PROVE RingInv /\ [Next]_vars => RingInv'
BY NextTypes, NextChain, NextGranted, NextSpace, NextAsked, NextRefused, NextReceiverTold
DEF RingInv

\* The chain seen from the receiver.
LEMMA ChainIsOnePiece ==
  ASSUME TypeOK, Order, Chained
  PROVE  OnePiece
<1>1. PICK S : Starts(S, payload)
  BY DEF Chained
<1>2. C \in S /\ P \in S /\ C \in Idx /\ P \in Idx /\ cons \in Idx
  BY <1>1, Terms DEF Starts
<1>3. ASSUME NEW i \in S
      PROVE  /\ i \in Idx /\ Dist(C, i) <= Dist(C, P) /\ Dist(cons, i) \in Nat /\ Dist(cons, P) \in Nat
             /\ Dist(i, P) = Dist(cons, P) - Dist(cons, i)
  <2>1. /\ i \in Idx /\ Dist(cons, C) <= Dist(cons, i) /\ Dist(cons, i) <= Dist(cons, P)
        /\ Dist(cons, C) <= Dist(cons, P)
    BY <1>1, <1>2 DEF Starts
  <2>2. Dist(cons, i) \in Nat /\ Dist(cons, P) \in Nat /\ Dist(cons, C) \in Nat
    BY <1>2, <2>1, DistIs
  <2>3. Dist(C, i) = Dist(cons, i) - Dist(cons, C) /\ Dist(C, P) = Dist(cons, P) - Dist(cons, C)
        /\ Dist(i, P) = Dist(cons, P) - Dist(cons, i)
    BY <1>2, <2>1, DistFrom
  <2> QED BY <2>1, <2>2, <2>3
<1>4. S \in SUBSET Unread
  BY <1>3 DEF Unread, Dist, C, P
<1>5. ASSUME NEW i \in S \ {P}
      PROVE  /\ Contained(i, payload[Offset(i)])
             /\ payload[Offset(i)].size <= Wrapped(P - i)
             /\ Wrapped(i + payload[Offset(i)].size) \in S
  <2>1. /\ payload[Offset(i)].size \in 1..Bytes
        /\ Dist(cons, i) + payload[Offset(i)].size <= Dist(cons, P)
    BY <1>1, <1>5, NextStart
  <2>2. payload[Offset(i)].size <= Dist(i, P)
    BY <1>3, <2>1, Sane
  <2> QED BY <1>1, <1>5, <2>2 DEF Starts, Dist
<1> QED BY <1>2, <1>4, <1>5 DEF OnePiece, C, P

LEMMA InvIsSafe == RingInv => MessagesSafe
<1> SUFFICES ASSUME RingInv PROVE MessagesSafe
  OBVIOUS
<1>1. TypeOK /\ OnePiece /\ SpaceIsThere
  BY ChainIsOnePiece DEF RingInv
<1>2. ASSUME sender.pc = "asleep", Space(cons) >= Needed(sender.want)
      PROVE  cons # Awaited
  <2>1. sender.want \in Sizes /\ Space(Awaited) < Needed(sender.want)
    BY <1>2 DEF RingInv, Granted, Refused
  <2>2. Space(cons) \in Int /\ Needed(sender.want) \in Int
    BY <1>1, <2>1, SpaceIs, TotalIs, Terms, DistIs, Sane
  <2> QED BY <1>2, <2>1, <2>2
<1>3. NoWakeUpLost
  BY <1>2 DEF RingInv, Refused, ReceiverTold, NoWakeUpLost, C
<1> QED BY <1>1, <1>3 DEF MessagesSafe

\* Whatever the size of the ring, for messages whose size and pad an unsigned short holds, and
\* however often the indices wrap: what the receiver has not read lies in one piece where the
\* headers say, the sender never counts on room that is not there, and no end sleeps on what
\* the other has done (vring.h:186-415).
THEOREM MessagesCorrect == ASSUME SizesFit PROVE Spec => []MessagesSafe
BY InitRing, NextRing, InvIsSafe, PTL DEF Spec
-----------------------------------------------------------------------------
(***************************************************************************)
(* The streams of messages                                                 *)
(***************************************************************************)
Slots == [0..(Bytes - 1) -> Headers]

\* What the headers say of the index i: where the message is, if a pad is in front, which it
\* is, and where the next one starts.
Past(slots, i) ==
  IF slots[Offset(i)].type = "pad" THEN Wrapped(i + slots[Offset(i)].size) ELSE i
Message(slots, i) == slots[Offset(Past(slots, i))]
Onward(slots, i) == Wrapped(Past(slots, i) + Message(slots, i).size)

\* p goes on for c messages without coming to the index b; it leads from a to b.
Runs(p, c, slots, b) ==
  \A k \in 0..(c - 1) : p[k] \in Idx /\ p[k] # b /\ p[k + 1] = Onward(slots, p[k])
Path(p, c, slots, a, b) == c \in Nat /\ p[0] = a /\ p[c] = b /\ Runs(p, c, slots, b)

Reads(p, c, slots) == [k \in 1..c |-> Message(slots, p[k - 1])]

LEMMA MessageIn ==
  ASSUME NEW slots \in Slots, NEW i \in Idx
  PROVE  /\ Past(slots, i) \in Idx /\ Message(slots, i) \in Headers /\ Onward(slots, i) \in Idx
<1>1. ASSUME NEW j \in Idx
      PROVE  slots[Offset(j)] \in Headers /\ Wrapped(j + slots[Offset(j)].size) \in Idx
  <2>1. slots[Offset(j)] \in Headers
    BY OffsetIn DEF Slots
  <2>2. j + slots[Offset(j)].size \in Int
    BY <2>1, Sane DEF Headers, Idx
  <2> QED BY <2>1, <2>2, WrappedIs
<1>2. Past(slots, i) \in Idx
  BY <1>1 DEF Past
<1> QED BY <1>1, <1>2 DEF Message, Onward

\* The messages on a path are a sequence.
LEMMA ReadsIs ==
  ASSUME NEW slots \in Slots, NEW p, NEW c, NEW a, NEW b, Path(p, c, slots, a, b)
  PROVE  /\ c \in Nat /\ Reads(p, c, slots) \in Seq(Headers) /\ Len(Reads(p, c, slots)) = c
         /\ \A k \in 1..c : Reads(p, c, slots)[k] = Message(slots, p[k - 1])
<1>1. c \in Nat
  BY DEF Path
<1>2. ASSUME NEW k \in 1..c PROVE Message(slots, p[k - 1]) \in Headers
  <2>1. k - 1 \in 0..(c - 1)
    BY <1>1
  <2>2. p[k - 1] \in Idx
    BY <2>1 DEF Path, Runs
  <2> QED BY <2>2, MessageIn
<1>3. Reads(p, c, slots) = [k \in 1..c |-> Message(slots, p[k - 1])]
  BY DEF Reads
<1> QED BY <1>1, <1>2, <1>3

\* There is one path from an index to another.
LEMMA OnePath ==
  ASSUME NEW slots, NEW a, NEW b, NEW p, NEW c, Path(p, c, slots, a, b),
         NEW q, NEW d, Path(q, d, slots, a, b)
  PROVE  d = c /\ Reads(q, d, slots) = Reads(p, c, slots)
<1>1. c \in Nat /\ d \in Nat /\ p[c] = b /\ q[d] = b
  BY DEF Path
<1> DEFINE H == {k \in Nat : k <= c /\ k <= d => q[k] = p[k]}
<1>2. 0 \in H
  BY DEF Path
<1>3. ASSUME NEW k \in Nat, k \in H PROVE k + 1 \in H
  <2> SUFFICES ASSUME k + 1 <= c, k + 1 <= d PROVE q[k + 1] = p[k + 1]
    OBVIOUS
  <2>1. k \in 0..(c - 1) /\ k \in 0..(d - 1) /\ k <= c /\ k <= d
    BY <1>1
  <2>2. q[k] = p[k]
    BY <1>3, <2>1
  <2>3. p[k + 1] = Onward(slots, p[k]) /\ q[k + 1] = Onward(slots, q[k])
    BY <2>1 DEF Path, Runs
  <2> QED BY <2>2, <2>3
<1> HIDE DEF H
<1>4. Nat \subseteq H
  BY <1>2, <1>3, SetInduction
<1>5. \A k \in Nat : k <= c /\ k <= d => q[k] = p[k]
  BY <1>4 DEF H
<1>6. ~ (c < d)
  <2> SUFFICES ASSUME c < d PROVE FALSE
    OBVIOUS
  <2>1. c \in 0..(d - 1) /\ c <= c /\ c <= d
    BY <1>1
  <2>2. q[c] # b
    BY <2>1 DEF Path, Runs
  <2> QED BY <1>1, <1>5, <2>1, <2>2
<1>7. ~ (d < c)
  <2> SUFFICES ASSUME d < c PROVE FALSE
    OBVIOUS
  <2>1. d \in 0..(c - 1) /\ d <= d /\ d <= c
    BY <1>1
  <2>2. p[d] # b
    BY <2>1 DEF Path, Runs
  <2> QED BY <1>1, <1>5, <2>1, <2>2
<1>8. d = c
  BY <1>1, <1>6, <1>7
<1>9. ASSUME NEW k \in 1..c PROVE q[k - 1] = p[k - 1]
  <2>1. k - 1 \in Nat /\ k - 1 <= c
    BY <1>1
  <2> QED BY <1>5, <1>8, <2>1
<1>10. [k \in 1..c |-> Message(slots, q[k - 1])] = [k \in 1..c |-> Message(slots, p[k - 1])]
  BY <1>9
<1> QED BY <1>8, <1>10 DEF Reads

\* The headers on p are the same.
Alike(p, c, slots, slots2) ==
  \A k \in 0..(c - 1) : /\ Message(slots2, p[k]) = Message(slots, p[k])
                        /\ Onward(slots2, p[k]) = Onward(slots, p[k])

LEMMA AlikePath ==
  ASSUME NEW slots, NEW slots2, NEW a, NEW b, NEW p, NEW c, Path(p, c, slots, a, b),
         Alike(p, c, slots, slots2)
  PROVE  Path(p, c, slots2, a, b) /\ Reads(p, c, slots2) = Reads(p, c, slots)
<1>1. Path(p, c, slots2, a, b)
  BY DEF Path, Runs, Alike
<1>2. c \in Nat
  BY DEF Path
<1>3. ASSUME NEW k \in 1..c PROVE Message(slots2, p[k - 1]) = Message(slots, p[k - 1])
  <2>1. k - 1 \in 0..(c - 1)
    BY <1>2
  <2> QED BY <2>1 DEF Alike
<1>4. [k \in 1..c |-> Message(slots2, p[k - 1])] = [k \in 1..c |-> Message(slots, p[k - 1])]
  BY <1>3
<1> QED BY <1>1, <1>4 DEF Reads

\* A path back to where it starts is none.
LEMMA NoPath ==
  ASSUME NEW slots, NEW b, NEW p, NEW c, Path(p, c, slots, b, b)
  PROVE  c = 0 /\ Reads(p, c, slots) = <<>>
<1>1. c \in Nat /\ p[0] = b
  BY DEF Path
<1>2. ~ (0 \in 0..(c - 1))
  BY <1>1 DEF Path, Runs
<1>3. c = 0
  BY <1>1, <1>2
<1> QED BY <1>3 DEF Reads

Misses(p, c, x) == \A k \in 0..(c - 1) : p[k] # x

\* Two paths, one behind the other.
LEMMA JoinPath ==
  ASSUME NEW slots \in Slots, NEW a, NEW x, NEW b, NEW p, NEW c, Path(p, c, slots, a, x),
         NEW q, NEW d, Path(q, d, slots, x, b), Misses(p, c, b)
  PROVE  \E j, e : /\ Path(j, e, slots, a, b)
                   /\ Reads(j, e, slots) = Reads(p, c, slots) \o Reads(q, d, slots)
<1>1. c \in Nat /\ d \in Nat /\ p[0] = a /\ p[c] = x /\ q[0] = x /\ q[d] = b
  BY DEF Path
<1> DEFINE e == c + d
           j == [k \in 0..e |-> IF k <= c THEN p[k] ELSE q[k - c]]
<1>2. e \in Nat /\ e = c + d
  BY <1>1
<1>3. ASSUME NEW k \in 0..c PROVE j[k] = p[k]
  BY <1>1
<1>4. ASSUME NEW k \in 0..d PROVE j[c + k] = q[k]
  <2>1. c + k \in 0..e /\ (c + k <= c => k = 0) /\ (c + k) - c = k /\ c + 0 = c
    BY <1>1
  <2> QED BY <1>1, <2>1
<1> HIDE DEF e, j
<1>5. j[0] = a /\ j[e] = b
  BY <1>1, <1>2, <1>3, <1>4
<1>6. ASSUME NEW k \in 0..(e - 1)
      PROVE  j[k] \in Idx /\ j[k] # b /\ j[k + 1] = Onward(slots, j[k])
  <2>1. CASE k < c
    <3>1. k \in 0..(c - 1) /\ k \in 0..c /\ k + 1 \in 0..c
      BY <1>1, <2>1
    <3>2. p[k] \in Idx /\ p[k + 1] = Onward(slots, p[k]) /\ p[k] # b
      BY <3>1 DEF Path, Runs, Misses
    <3>3. j[k] = p[k] /\ j[k + 1] = p[k + 1]
      BY <1>3, <3>1
    <3> QED BY <3>2, <3>3
  <2>2. CASE ~ (k < c)
    <3> DEFINE i == k - c
    <3>1. i \in 0..(d - 1) /\ i \in 0..d /\ i + 1 \in 0..d /\ c + i = k /\ c + (i + 1) = k + 1
      BY <1>1, <1>2, <2>2
    <3> HIDE DEF i
    <3>2. q[i] \in Idx /\ q[i + 1] = Onward(slots, q[i]) /\ q[i] # b
      BY <3>1 DEF Path, Runs
    <3>3. j[c + i] = q[i] /\ j[c + (i + 1)] = q[i + 1]
      BY <1>4, <3>1
    <3> QED BY <3>1, <3>2, <3>3
  <2> QED BY <2>1, <2>2
<1>7. Path(j, e, slots, a, b)
  BY <1>2, <1>5, <1>6 DEF Path, Runs
<1> DEFINE r == Reads(j, e, slots)
           s == Reads(p, c, slots)
           t == Reads(q, d, slots)
<1>8. /\ r \in Seq(Headers) /\ Len(r) = e /\ \A k \in 1..e : r[k] = Message(slots, j[k - 1])
      /\ s \in Seq(Headers) /\ Len(s) = c /\ \A k \in 1..c : s[k] = Message(slots, p[k - 1])
      /\ t \in Seq(Headers) /\ Len(t) = d /\ \A k \in 1..d : t[k] = Message(slots, q[k - 1])
  BY <1>7, ReadsIs
<1> HIDE DEF r, s, t
<1>9. ASSUME NEW k \in 1..e PROVE r[k] = IF k <= c THEN s[k] ELSE t[k - c]
  <2>0. r[k] = Message(slots, j[k - 1])
    BY <1>8
  <2>1. CASE k <= c
    <3>1. k - 1 \in 0..c /\ k \in 1..c
      BY <1>1, <2>1
    <3>2. j[k - 1] = p[k - 1] /\ s[k] = Message(slots, p[k - 1])
      BY <1>3, <1>8, <3>1
    <3> QED BY <2>0, <2>1, <3>2
  <2>2. CASE ~ (k <= c)
    <3> DEFINE i == k - c
    <3>1. i \in 1..d /\ i - 1 \in 0..d /\ c + (i - 1) = k - 1
      BY <1>1, <1>2, <2>2
    <3>2. j[c + (i - 1)] = q[i - 1] /\ t[i] = Message(slots, q[i - 1])
      <4> HIDE DEF i
      <4> QED BY <1>4, <1>8, <3>1
    <3> QED BY <2>0, <2>2, <3>1, <3>2
  <2> QED BY <2>1, <2>2
<1>10. r = s \o t
  <2> DEFINE u == s \o t
  <2>1. u \in Seq(Headers) /\ Len(u) = c + d
        /\ \A k \in 1..(c + d) : u[k] = IF k <= c THEN s[k] ELSE t[k - c]
    BY <1>8, ConcatProperties
  <2> HIDE DEF u
  <2>2. \A k \in 1..Len(r) : r[k] = u[k]
    <3> SUFFICES ASSUME NEW k \in 1..e PROVE r[k] = u[k]
      BY <1>8
    <3>1. k \in 1..(c + d)
      BY <1>2
    <3>2. u[k] = IF k <= c THEN s[k] ELSE t[k - c]
      BY <2>1, <3>1
    <3> QED BY <1>9, <3>2
  <2>3. Len(r) = Len(u)
    BY <1>2, <1>8, <2>1
  <2>4. r = u
    BY <1>8, <2>1, <2>2, <2>3, SeqEqual
  <2> QED BY <2>4 DEF u
<1> QED BY <1>7, <1>10 DEF r, s, t

\* A path of one message.
LEMMA StepPath ==
  ASSUME NEW slots \in Slots, NEW a \in Idx, NEW b, a # b, Onward(slots, a) = b
  PROVE  \E p, c : /\ Path(p, c, slots, a, b)
                   /\ Reads(p, c, slots) = <<Message(slots, a)>>
<1> DEFINE p == [k \in 0..1 |-> IF k = 0 THEN a ELSE b]
<1>1. p[0] = a /\ p[1] = b
  OBVIOUS
<1> HIDE DEF p
<1>2. Path(p, 1, slots, a, b)
  BY <1>1 DEF Path, Runs
<1>3. Reads(p, 1, slots) = <<Message(slots, a)>>
  <2>1. /\ Reads(p, 1, slots) \in Seq(Headers) /\ Len(Reads(p, 1, slots)) = 1
        /\ \A k \in 1..1 : Reads(p, 1, slots)[k] = Message(slots, p[k - 1])
    <3> DEFINE c == 1
    <3>1. Path(p, c, slots, a, b)
      BY <1>2
    <3> HIDE DEF c
    <3>2. /\ Reads(p, c, slots) \in Seq(Headers) /\ Len(Reads(p, c, slots)) = c
          /\ \A k \in 1..c : Reads(p, c, slots)[k] = Message(slots, p[k - 1])
      BY <3>1, ReadsIs
    <3> QED BY <3>2 DEF c
  <2> DEFINE r == Reads(p, 1, slots)
             m == Message(slots, a)
  <2> HIDE DEF r
  <2>2. 1 \in 1..1 /\ 1 - 1 = 0
    OBVIOUS
  <2>3. r[1] = m
    BY <1>1, <2>1, <2>2 DEF r
  <2> HIDE DEF m
  <2>4. r \in Seq(Headers) /\ Len(r) = 1
    BY <2>1 DEF r
  <2>5. r = <<m>>
    BY <2>3, <2>4
  <2> QED BY <2>5 DEF r, m
<1> QED BY <1>2, <1>3

\* What is behind the first message of a path.
LEMMA RestPath ==
  ASSUME NEW slots \in Slots, NEW a, NEW b, NEW p, NEW c, Path(p, c, slots, a, b), a # b
  PROVE  /\ Reads(p, c, slots) # <<>>
         /\ \E q, d : /\ Path(q, d, slots, Onward(slots, a), b)
                      /\ Reads(q, d, slots) = Tail(Reads(p, c, slots))
<1>1. c \in Nat \ {0} /\ p[0] = a /\ p[c] = b
  BY DEF Path
<1> DEFINE d == c - 1
           q == [k \in 0..d |-> p[k + 1]]
<1>2. d \in Nat /\ d + 1 = c /\ \A k \in 0..d : q[k] = p[k + 1]
  BY <1>1
<1> HIDE DEF d, q
<1>3. q[0] = Onward(slots, a)
  <2>1. 0 \in 0..(c - 1) /\ 0 \in 0..d /\ 0 + 1 = 1
    BY <1>1, <1>2
  <2> QED BY <1>1, <1>2, <2>1 DEF Path, Runs
<1>4. q[d] = b
  <2>1. d \in 0..d
    BY <1>2
  <2> QED BY <1>1, <1>2, <2>1
<1>5. ASSUME NEW k \in 0..(d - 1)
      PROVE  q[k] \in Idx /\ q[k] # b /\ q[k + 1] = Onward(slots, q[k])
  <2>1. k \in 0..d /\ k + 1 \in 0..d /\ k + 1 \in 0..(c - 1)
    BY <1>2
  <2> QED BY <1>2, <2>1 DEF Path, Runs
<1>6. Path(q, d, slots, Onward(slots, a), b)
  BY <1>2, <1>3, <1>4, <1>5 DEF Path, Runs
<1> DEFINE r == Reads(q, d, slots)
           s == Reads(p, c, slots)
<1>7. /\ r \in Seq(Headers) /\ Len(r) = d /\ \A k \in 1..d : r[k] = Message(slots, q[k - 1])
      /\ s \in Seq(Headers) /\ Len(s) = c /\ \A k \in 1..c : s[k] = Message(slots, p[k - 1])
  BY <1>6, ReadsIs
<1> HIDE DEF r, s
<1>8. s # <<>>
  BY <1>1, <1>7
<1>9. \A k \in 1..Len(r) : r[k] = s[k + 1]
  <2> SUFFICES ASSUME NEW k \in 1..d PROVE r[k] = s[k + 1]
    BY <1>7
  <2>1. k - 1 \in 0..d /\ (k - 1) + 1 = k /\ k + 1 \in 1..c /\ (k + 1) - 1 = k
    BY <1>2
  <2>2. r[k] = Message(slots, q[k - 1]) /\ q[k - 1] = p[(k - 1) + 1]
    BY <1>2, <1>7, <2>1
  <2>3. s[k + 1] = Message(slots, p[(k + 1) - 1])
    BY <1>7, <2>1
  <2> QED BY <2>1, <2>2, <2>3
<1>10. r = Tail(s)
  <2> DEFINE u == Tail(s)
  <2>1. u \in Seq(Headers) /\ Len(u) = Len(s) - 1 /\ \A k \in 1..Len(u) : u[k] = s[k + 1]
    BY <1>7, <1>8, HeadTailProperties
  <2> HIDE DEF u
  <2>2. Len(r) = Len(u)
    BY <1>1, <1>2, <1>7, <2>1
  <2>3. r = u
    BY <1>7, <1>9, <2>1, <2>2, SeqEqual
  <2> QED BY <2>3 DEF u
<1> QED BY <1>6, <1>8, <1>10 DEF r, s

\* A path that starts behind the pad.
LEMMA PastPath ==
  ASSUME NEW slots, NEW a, NEW x \in Idx, NEW b, NEW p, NEW c, Path(p, c, slots, a, b), a # b, x # b,
         Message(slots, x) = Message(slots, a), Onward(slots, x) = Onward(slots, a)
  PROVE  \E q, d : Path(q, d, slots, x, b) /\ Reads(q, d, slots) = Reads(p, c, slots)
<1>1. c \in Nat \ {0} /\ p[0] = a /\ p[c] = b
  BY DEF Path
<1> DEFINE q == [k \in 0..c |-> IF k = 0 THEN x ELSE p[k]]
<1>2. q[0] = x /\ \A k \in 1..c : q[k] = p[k]
  BY <1>1
<1> HIDE DEF q
<1>3. q[c] = b
  BY <1>1, <1>2
<1>4. ASSUME NEW k \in 0..(c - 1)
      PROVE  /\ q[k] \in Idx /\ q[k] # b /\ q[k + 1] = Onward(slots, q[k])
             /\ Message(slots, q[k]) = Message(slots, p[k])
  <2>1. k + 1 \in 1..c /\ (k # 0 => k \in 1..c)
    BY <1>1
  <2>2. p[k] \in Idx /\ p[k] # b /\ p[k + 1] = Onward(slots, p[k])
    BY DEF Path, Runs
  <2>3. CASE k = 0
    BY <1>1, <1>2, <2>1, <2>2, <2>3
  <2>4. CASE k # 0
    BY <1>2, <2>1, <2>2, <2>4
  <2> QED BY <2>3, <2>4
<1>5. Path(q, c, slots, x, b)
  BY <1>1, <1>2, <1>3, <1>4 DEF Path, Runs
<1>6. ASSUME NEW k \in 1..c PROVE Message(slots, q[k - 1]) = Message(slots, p[k - 1])
  <2>1. k - 1 \in 0..(c - 1)
    BY <1>1
  <2> QED BY <1>4, <2>1
<1>7. [k \in 1..c |-> Message(slots, q[k - 1])] = [k \in 1..c |-> Message(slots, p[k - 1])]
  BY <1>6
<1>8. Reads(q, c, slots) = Reads(p, c, slots)
  BY <1>7 DEF Reads
<1> QED BY <1>5, <1>8
-----------------------------------------------------------------------------
(***************************************************************************)
(* The streams of the ring                                                 *)
(***************************************************************************)
Flushed == Stream(C, prod)
Written == Stream(prod, P)

\* What the headers say is a path to prod and on to where the sender is.
Streamed ==
  /\ \E p, c : Path(p, c, payload, C, prod) /\ Flushed = Reads(p, c, payload)
  /\ \E p, c : Path(p, c, payload, prod, P) /\ Written = Reads(p, c, payload)

\* From one message to the next: not past prod, and not past the sender.
LEMMA OneOn ==
  ASSUME TypeOK, Order, NEW S, Starts(S, payload), NEW b \in {prod, P},
         NEW i \in S, i # b, Dist(cons, i) <= Dist(cons, b)
  PROVE  /\ i \in Idx /\ i # P
         /\ Past(payload, i) \in S /\ Past(payload, i) # P /\ Past(payload, i) # b
         /\ payload[Offset(Past(payload, i))].type # "pad"
         /\ Onward(payload, i) \in S /\ Dist(cons, i) + 1 <= Dist(cons, Onward(payload, i))
         /\ Dist(cons, Onward(payload, i)) <= Dist(cons, b)
<1>1. /\ b \in S /\ cons \in Idx /\ prod \in S /\ P \in S
      /\ \A j \in S : j \in Idx /\ Dist(cons, j) <= Dist(cons, P)
  BY Terms DEF Starts
<1>2. \A j \in S : Dist(cons, j) \in Nat
  BY <1>1, DistIs
<1>3. ASSUME NEW j \in S, j # b, Dist(cons, j) <= Dist(cons, b)
      PROVE  LET m == Wrapped(j + payload[Offset(j)].size)
             IN  /\ j # P /\ m \in S /\ Dist(cons, j) + 1 <= Dist(cons, m)
                 /\ Dist(cons, m) <= Dist(cons, b)
  <2>1. Dist(cons, j) # Dist(cons, b)
    BY <1>1, <1>3, DistApart
  <2>2. Dist(cons, j) < Dist(cons, b)
    BY <1>1, <1>2, <1>3, <2>1
  <2>3. j # P
    BY <1>1, <1>2, <2>2
  <2> DEFINE n == payload[Offset(j)].size
             m == Wrapped(j + n)
  <2>4. n \in 1..Bytes /\ m \in S /\ Dist(cons, m) = Dist(cons, j) + n
    BY <2>3, NextStart
  <2>5. Dist(cons, j) + n <= Dist(cons, b)
    BY <1>1, <2>2 DEF Starts
  <2> HIDE DEF n, m
  <2>6. Dist(cons, j) + 1 <= Dist(cons, m) /\ Dist(cons, m) <= Dist(cons, b)
    BY <1>2, <2>4, <2>5, Sane
  <2> QED BY <2>3, <2>4, <2>6 DEF n, m
<1>4. i \in Idx /\ i # P
  BY <1>1, <1>3
<1> DEFINE j == Wrapped(i + payload[Offset(i)].size)
           x == Past(payload, i)
           y == Onward(payload, i)
<1>5. y = Wrapped(x + payload[Offset(x)].size)
  BY DEF Onward, Message
<1>6. CASE payload[Offset(i)].type = "pad"
  <2>1. x = j
    BY <1>6 DEF Past
  <2>2. j \in S /\ Dist(cons, i) + 1 <= Dist(cons, j) /\ Dist(cons, j) <= Dist(cons, b)
    BY <1>3
  <2>3. j # prod /\ j # P /\ payload[Offset(j)].type # "pad"
    BY <1>4, <1>6 DEF Starts, Paired
  <2> HIDE DEF j, x, y
  <2>4. y \in S /\ Dist(cons, x) + 1 <= Dist(cons, y) /\ Dist(cons, y) <= Dist(cons, b)
    BY <1>3, <1>5, <2>1, <2>2, <2>3
  <2>5. Dist(cons, i) + 1 <= Dist(cons, y)
    BY <1>2, <2>1, <2>2, <2>4
  <2> QED BY <1>4, <2>1, <2>2, <2>3, <2>4, <2>5 DEF x, y
<1>7. CASE payload[Offset(i)].type # "pad"
  <2>1. x = i
    BY <1>7 DEF Past
  <2> HIDE DEF x, y
  <2>2. y \in S /\ Dist(cons, i) + 1 <= Dist(cons, y) /\ Dist(cons, y) <= Dist(cons, b)
    BY <1>3, <1>5, <2>1
  <2> QED BY <1>4, <1>7, <2>1, <2>2 DEF x, y
<1> QED BY <1>6, <1>7

\* Who goes on stays on the indices where messages and pads start.
LEMMA OnStarts ==
  ASSUME TypeOK, Order, NEW S, Starts(S, payload), NEW b \in {prod, P},
         NEW w, NEW c \in Nat, w[0] \in S, Dist(cons, w[0]) <= Dist(cons, b), Runs(w, c, payload, b)
  PROVE  \A k \in 0..c : w[k] \in S /\ k <= Dist(cons, w[k]) /\ Dist(cons, w[k]) <= Dist(cons, b)
<1> DEFINE H == {k \in Nat : k <= c =>
                   w[k] \in S /\ k <= Dist(cons, w[k]) /\ Dist(cons, w[k]) <= Dist(cons, b)}
<1>0. \A i \in S : Dist(cons, i) \in Nat
  BY Terms, DistIs DEF Starts
<1>1. 0 \in H
  BY <1>0
<1>2. ASSUME NEW k \in Nat, k \in H PROVE k + 1 \in H
  <2> SUFFICES ASSUME k + 1 <= c
               PROVE  /\ w[k + 1] \in S /\ k + 1 <= Dist(cons, w[k + 1])
                      /\ Dist(cons, w[k + 1]) <= Dist(cons, b)
    OBVIOUS
  <2>1. k \in 0..(c - 1) /\ w[k] \in S /\ k <= Dist(cons, w[k]) /\ Dist(cons, w[k]) <= Dist(cons, b)
    BY <1>2
  <2>2. w[k] # b /\ w[k + 1] = Onward(payload, w[k])
    BY <2>1 DEF Runs
  <2>3. /\ w[k + 1] \in S /\ Dist(cons, w[k]) + 1 <= Dist(cons, w[k + 1])
        /\ Dist(cons, w[k + 1]) <= Dist(cons, b)
    BY <2>1, <2>2, OneOn
  <2> QED BY <1>0, <2>1, <2>3
<1> HIDE DEF H
<1>3. Nat \subseteq H
  BY <1>1, <1>2, SetInduction
<1> QED BY <1>3 DEF H

\* The stream is what a path reads.
LEMMA StreamPath ==
  ASSUME TypeOK, Order, NEW S, Starts(S, payload), NEW a \in S, NEW b \in {prod, P},
         Dist(cons, a) <= Dist(cons, b)
  PROVE  \E p, c : Path(p, c, payload, a, b) /\ Stream(a, b) = Reads(p, c, payload)
<1>1. a \in Idx /\ b \in Idx /\ payload \in Slots /\ cons \in Idx /\ b \in S
      /\ Dist(cons, b) \in Nat /\ Dist(cons, b) <= Bytes
  <2>1. a \in Idx /\ b \in Idx /\ payload \in Slots /\ cons \in Idx /\ b \in S
        /\ Dist(cons, b) <= Dist(cons, P) /\ Dist(cons, P) <= Bytes /\ P \in Idx
    BY Terms DEF Starts, Order, TypeOK, Slots
  <2> QED BY <2>1, DistIs, Sane
<1>2. Following \in [Idx -> Idx] /\ \A i \in Idx : Following[i] = Onward(payload, i)
  <2>1. \A i : Unpadded(i) = Past(payload, i)
    BY DEF Unpadded, Past
  <2>2. \A i \in Idx : Following[i] = Onward(payload, i)
    BY <2>1 DEF Following, Onward, Message
  <2>3. \A i \in Idx : Onward(payload, i) \in Idx
    BY <1>1, MessageIn
  <2> QED BY <2>2, <2>3 DEF Following
<1> DEFINE next == Following
           w == CHOOSE f : Recursive(f, next, a)
           Good(n) == (w[n] = b \/ n = Bytes) /\ \A k \in 0..(n - 1) : w[k] # b
           count == CHOOSE n \in 0..Bytes : Good(n)
<1>3. Stream(a, b) = Reads(w, count, payload)
  BY DEF Stream, Recursive, Reads, Message, Past, Unpadded
<1>4. w \in [Nat -> Idx] /\ w[0] = a /\ \A k \in Nat : w[k + 1] = next[w[k]]
  <2>1. next \in [Idx -> Idx]
    BY <1>2
  <2> HIDE DEF next
  <2>2. \E f : Recursive(f, next, a)
    BY <1>1, <2>1, RecursiveExists
  <2> DEFINE v == w
  <2>3. Recursive(v, next, a)
    BY <2>2
  <2> HIDE DEF v
  <2>4. v \in [Nat -> Idx] /\ v[0] = a /\ \A k \in Nat : v[k + 1] = next[v[k]]
    BY <1>1, <2>1, <2>3, RecursiveIs
  <2> QED BY <2>4 DEF v
<1> HIDE DEF w
<1>5. \A k \in Nat : w[k] \in Idx /\ w[k + 1] = Onward(payload, w[k])
  BY <1>2, <1>4
<1>6. ASSUME NEW c \in Nat, \A k \in 0..(c - 1) : w[k] # b PROVE Runs(w, c, payload, b) /\ c <= Bytes
  <2>1. Runs(w, c, payload, b)
    <3> SUFFICES ASSUME NEW k \in 0..(c - 1)
                 PROVE  w[k] \in Idx /\ w[k] # b /\ w[k + 1] = Onward(payload, w[k])
      BY DEF Runs
    <3>1. k \in Nat
      OBVIOUS
    <3> QED BY <1>5, <1>6, <3>1
  <2>2. w[c] \in S /\ c <= Dist(cons, w[c]) /\ Dist(cons, w[c]) <= Dist(cons, b)
    <3>1. w[0] \in S /\ Dist(cons, w[0]) <= Dist(cons, b) /\ c \in 0..c
      BY <1>4
    <3> QED BY <2>1, <3>1, OnStarts
  <2>3. Dist(cons, w[c]) \in Nat
    BY <1>1, <2>2, DistIs DEF Starts
  <2> QED BY <1>1, <2>1, <2>2, <2>3, Sane
<1> DEFINE T == {n \in Nat : w[n] = b}
<1>7. T # {}
  <2> SUFFICES ASSUME T = {} PROVE FALSE
    OBVIOUS
  <2>1. Bytes + 1 \in Nat /\ \A k \in 0..((Bytes + 1) - 1) : w[k] # b
    BY Sane
  <2>2. Bytes + 1 <= Bytes
    BY <1>6, <2>1
  <2> QED BY <2>2, Sane
<1>8. PICK m \in T : \A n \in T : m <= n
  <2>1. T \subseteq Nat
    OBVIOUS
  <2> HIDE DEF T
  <2> QED BY <1>7, <2>1, LeastOne
<1>9. m \in Nat /\ w[m] = b
  OBVIOUS
<1>10. \A k \in 0..(m - 1) : w[k] # b
  <2> SUFFICES ASSUME NEW k \in 0..(m - 1), w[k] = b PROVE FALSE
    OBVIOUS
  <2>1. k \in T /\ ~ (m <= k)
    BY <1>9
  <2> QED BY <1>8, <2>1
<1>11. m <= Bytes /\ m \in 0..Bytes
  BY <1>6, <1>9, <1>10, Sane
<1>12. count \in 0..Bytes /\ Good(count)
  <2>1. \E n \in 0..Bytes : Good(n)
    BY <1>9, <1>10, <1>11
  <2> HIDE DEF Good
  <2> QED BY <2>1
<1> HIDE DEF count
<1>13. w[count] = b
  <2> SUFFICES ASSUME count = Bytes, m # count PROVE FALSE
    BY <1>9, <1>12
  <2>1. m \in 0..(count - 1)
    BY <1>9, <1>11, Sane
  <2> QED BY <1>9, <1>12, <2>1
<1>14. count \in Nat /\ \A k \in 0..(count - 1) : w[k] # b
  BY <1>12, Sane
<1>15. Path(w, count, payload, a, b)
  BY <1>4, <1>6, <1>13, <1>14 DEF Path
<1> QED BY <1>3, <1>15

LEMMA RingStreams == RingInv => Streamed
<1> SUFFICES ASSUME RingInv PROVE Streamed
  OBVIOUS
<1>1. TypeOK /\ Order /\ Chained
  BY DEF RingInv
<1>2. PICK S : Starts(S, payload)
  BY <1>1 DEF Chained
<1>3. /\ C \in S /\ prod \in S /\ Dist(cons, C) <= Dist(cons, prod)
      /\ Dist(cons, prod) <= Dist(cons, P)
  BY <1>1, <1>2 DEF Starts, Order
<1>4. \E p, c : Path(p, c, payload, C, prod) /\ Stream(C, prod) = Reads(p, c, payload)
  BY <1>1, <1>2, <1>3, StreamPath
<1>5. \E p, c : Path(p, c, payload, prod, P) /\ Stream(prod, P) = Reads(p, c, payload)
  BY <1>1, <1>2, <1>3, StreamPath
<1> QED BY <1>4, <1>5 DEF Streamed, Flushed, Written

\* The streams stay while the headers, prod and both ends do.
LEMMA SameStreams ==
  ASSUME Streamed, Streamed', UNCHANGED <<payload, prod>>, C' = C, P' = P
  PROVE  Flushed' = Flushed /\ Written' = Written
<1>1. PICK p, c, q, d : /\ Path(p, c, payload, C, prod) /\ Flushed = Reads(p, c, payload)
                        /\ Path(q, d, payload, prod, P) /\ Written = Reads(q, d, payload)
  BY DEF Streamed
<1> DEFINE f == Flushed'
           w == Written'
<1>2. PICK p2, c2, q2, d2 : /\ Path(p2, c2, payload, C, prod) /\ f = Reads(p2, c2, payload)
                            /\ Path(q2, d2, payload, prod, P) /\ w = Reads(q2, d2, payload)
  BY DEF Streamed
<1> HIDE DEF f, w
<1>3. f = Flushed
  BY <1>1, <1>2, OnePath
<1>4. w = Written
  BY <1>1, <1>2, OnePath
<1> QED BY <1>3, <1>4 DEF f, w

\* What was flushed before is read before.
LEMMA FlushStreams ==
  ASSUME RingInv, Streamed, Streamed', Flush
  PROVE  Flushed' = Flushed \o Written /\ Written' = <<>>
<1>1. PICK S : Starts(S, payload)
  BY DEF RingInv, Chained
<1>2. TypeOK /\ Order /\ payload \in Slots
  BY DEF RingInv, TypeOK, Slots
<1>3. /\ C \in S /\ Dist(cons, C) <= Dist(cons, prod)
  BY <1>1, <1>2 DEF Starts, Order
<1>4. payload' = payload /\ prod' = P /\ C' = C /\ P' = P
  BY <1>2 DEF Flush, TypeOK, C, P
<1>5. PICK p, c, q, d : /\ Path(p, c, payload, C, prod) /\ Flushed = Reads(p, c, payload)
                        /\ Path(q, d, payload, prod, P) /\ Written = Reads(q, d, payload)
  BY DEF Streamed
<1> DEFINE f == Flushed'
           w == Written'
<1>6. PICK p2, c2, q2, d2 : /\ Path(p2, c2, payload, C, P) /\ f = Reads(p2, c2, payload)
                            /\ Path(q2, d2, payload, P, P) /\ w = Reads(q2, d2, payload)
  BY <1>4 DEF Streamed
<1> HIDE DEF f, w
<1>7. Misses(p, c, P)
  <2> SUFFICES ASSUME NEW k \in 0..(c - 1) PROVE p[k] # P
    BY DEF Misses
  <2>1. c \in Nat /\ p[0] = C /\ Runs(p, c, payload, prod)
    BY <1>5 DEF Path
  <2>2. p[k] # prod /\ k \in 0..c
    BY <2>1 DEF Runs
  <2>3. p[k] \in S /\ Dist(cons, p[k]) <= Dist(cons, prod)
    BY <1>1, <1>2, <1>3, <2>1, <2>2, OnStarts
  <2> QED BY <1>1, <1>2, <2>2, <2>3, OneOn
<1>8. PICK j, e : Path(j, e, payload, C, P)
                  /\ Reads(j, e, payload) = Reads(p, c, payload) \o Reads(q, d, payload)
  <2>1. Path(p, c, payload, C, prod) /\ Path(q, d, payload, prod, P)
    BY <1>5
  <2> QED BY <1>2, <1>7, <2>1, JoinPath
<1>9. f = Flushed \o Written
  BY <1>5, <1>6, <1>8, OnePath
<1>10. w = <<>>
  BY <1>6, NoPath
<1> QED BY <1>9, <1>10 DEF f, w

\* A message sent is the last that is written.
LEMMA SendStreams ==
  ASSUME RingInv, TypeOK', Streamed, Streamed', Send
  PROVE  Flushed' = Flushed /\ \E m \in Headers : Written' = Append(Written, m)
<1>1. PICK S : Starts(S, payload)
  BY DEF RingInv, Chained
<1>2. TypeOK /\ Order /\ Granted /\ SpaceIsThere /\ payload \in Slots /\ cons \in Idx /\ P \in Idx
  BY Terms DEF RingInv, TypeOK, Slots
<1>3. /\ C \in S /\ Dist(cons, C) <= Dist(cons, prod) /\ prod \in S
      /\ Dist(cons, prod) <= Dist(cons, P) /\ Dist(cons, P) \in Nat
  BY <1>1, <1>2, DistIs DEF Starts, Order
<1> DEFINE slots2 == payload'
           P2 == P'
           f == Flushed'
           w == Written'
<1>4. /\ C' = C /\ prod' = prod
      /\ \A i \in S : i # P => slots2[Offset(i)] = payload[Offset(i)]
      /\ Onward(slots2, P) = P2 /\ P2 \in Idx /\ Dist(cons, P) < Dist(cons, P2)
  <2> DEFINE n == sender.want
             pad == IF WouldWrap(n) THEN PadNeeded ELSE 0
             at == Wrapped(P + pad)
             q == Wrapped(at + n)
  <2>1. /\ P2 = q /\ C' = C /\ prod' = prod
        /\ n \in 1..Bytes /\ pad \in 0..Bytes
        /\ at \in Idx /\ Dist(cons, at) = Dist(cons, P) + pad
        /\ q \in Idx /\ Dist(cons, q) = Dist(cons, P) + pad + n
        /\ \A i \in S : i # P => slots2[Offset(i)] = payload[Offset(i)]
        /\ slots2[Offset(at)].size = n /\ slots2[Offset(at)].type = "message"
        /\ at # P => /\ pad > 0
                     /\ slots2[Offset(P)].size = pad /\ slots2[Offset(P)].type = "pad"
    BY <1>1, <1>2, SendDoes
  <2>2. at = Wrapped(P + pad) /\ q = Wrapped(at + n)
    OBVIOUS
  <2> HIDE DEF n, pad, at, q, slots2, P2
  <2>3. Dist(cons, P) < Dist(cons, q)
    BY <1>3, <2>1
  <2>4. Past(slots2, P) = at
    BY <2>1, <2>2 DEF Past
  <2>5. Onward(slots2, P) = q
    BY <2>1, <2>2, <2>4 DEF Onward, Message
  <2> QED BY <2>1, <2>3, <2>5
<1>5. slots2 \in Slots
  BY DEF TypeOK, Slots
<1>6. PICK p, c, q, d : /\ Path(p, c, payload, C, prod) /\ Flushed = Reads(p, c, payload)
                        /\ Path(q, d, payload, prod, P) /\ Written = Reads(q, d, payload)
  BY DEF Streamed
<1>7. PICK p2, c2, q2, d2 : /\ Path(p2, c2, slots2, C, prod) /\ f = Reads(p2, c2, slots2)
                            /\ Path(q2, d2, slots2, prod, P2) /\ w = Reads(q2, d2, slots2)
  BY <1>4 DEF Streamed
<1> HIDE DEF slots2, P2, f, w
<1>8. ASSUME NEW b \in {prod, P}, NEW i \in S, i # b, Dist(cons, i) <= Dist(cons, b)
      PROVE  Message(slots2, i) = Message(payload, i) /\ Onward(slots2, i) = Onward(payload, i)
  <2>1. i # P /\ Past(payload, i) \in S /\ Past(payload, i) # P
    BY <1>1, <1>2, <1>8, OneOn
  <2>2. slots2[Offset(i)] = payload[Offset(i)]
    BY <1>4, <2>1
  <2>3. Past(slots2, i) = Past(payload, i)
    BY <2>2 DEF Past
  <2>4. Message(slots2, i) = Message(payload, i)
    BY <1>4, <2>1, <2>3 DEF Message
  <2> QED BY <2>3, <2>4 DEF Onward
<1>9. ASSUME NEW r, NEW n, NEW a \in S, NEW b \in {prod, P}, Dist(cons, a) <= Dist(cons, b),
             Path(r, n, payload, a, b)
      PROVE  /\ Alike(r, n, payload, slots2)
             /\ \A k \in 0..(n - 1) : Dist(cons, r[k]) <= Dist(cons, b)
  <2>1. n \in Nat /\ r[0] = a /\ Runs(r, n, payload, b)
    BY <1>9 DEF Path
  <2>2. ASSUME NEW k \in 0..(n - 1)
        PROVE  r[k] \in S /\ r[k] # b /\ Dist(cons, r[k]) <= Dist(cons, b)
    <3>1. r[k] # b /\ k \in 0..n
      BY <2>1 DEF Runs
    <3>2. r[k] \in S /\ Dist(cons, r[k]) <= Dist(cons, b)
      BY <1>1, <1>2, <1>9, <2>1, <3>1, OnStarts
    <3> QED BY <3>1, <3>2
  <2>3. Alike(r, n, payload, slots2)
    BY <1>8, <2>2 DEF Alike
  <2> QED BY <2>2, <2>3
<1>10. Path(p, c, slots2, C, prod) /\ Reads(p, c, slots2) = Flushed
  <2>1. Alike(p, c, payload, slots2)
    BY <1>3, <1>6, <1>9
  <2> QED BY <1>6, <2>1, AlikePath
<1>11. Path(q, d, slots2, prod, P) /\ Reads(q, d, slots2) = Written
  <2>1. Alike(q, d, payload, slots2)
    BY <1>3, <1>6, <1>9
  <2> QED BY <1>6, <2>1, AlikePath
<1>12. f = Flushed
  BY <1>7, <1>10, OnePath
<1> DEFINE m == Message(slots2, P)
<1>13. m \in Headers
  BY <1>2, <1>5, MessageIn
<1>14. PICK r, n : Path(r, n, slots2, P, P2) /\ Reads(r, n, slots2) = <<m>>
  <2>1. P # P2
    BY <1>3, <1>4
  <2> QED BY <1>2, <1>4, <1>5, <2>1, StepPath
<1> HIDE DEF m
<1>15. Misses(q, d, P2)
  <2> SUFFICES ASSUME NEW k \in 0..(d - 1) PROVE q[k] # P2
    BY DEF Misses
  <2>1. Dist(cons, q[k]) <= Dist(cons, P)
    BY <1>3, <1>6, <1>9
  <2>2. Dist(cons, P2) \in Nat
    BY <1>2, <1>4, DistIs
  <2> QED BY <1>3, <1>4, <2>1, <2>2
<1>16. PICK j, e : Path(j, e, slots2, prod, P2)
                   /\ Reads(j, e, slots2) = Reads(q, d, slots2) \o Reads(r, n, slots2)
  <2>1. Path(q, d, slots2, prod, P) /\ Path(r, n, slots2, P, P2)
    BY <1>11, <1>14
  <2> QED BY <1>5, <1>15, <2>1, JoinPath
<1>17. w = Written \o <<m>>
  BY <1>7, <1>11, <1>14, <1>16, OnePath
<1>18. Written \in Seq(Headers)
  BY <1>2, <1>6, ReadsIs
<1>19. w = Append(Written, m)
  BY <1>13, <1>17, <1>18, AppendIsConcat
<1> QED BY <1>12, <1>13, <1>19 DEF f, w

\* What is read is the first message that was flushed; a pad was none.
LEMMA ReadStreams ==
  ASSUME RingInv, Streamed, Streamed', ReadMessage
  PROVE  /\ Written' = Written
         /\ Flushed' = Flushed \/ (Flushed # <<>> /\ Flushed' = Tail(Flushed))
<1>1. PICK S : Starts(S, payload)
  BY DEF RingInv, Chained
<1>2. TypeOK /\ Order /\ payload \in Slots /\ cons \in Idx
  BY Terms DEF RingInv, TypeOK, Slots
<1>3. C \in S /\ receiver.seen \in S /\ Dist(cons, C) <= Dist(cons, prod) /\ prod \in S /\ C \in Idx
      /\ Dist(cons, C) <= Dist(cons, receiver.seen) /\ Dist(cons, receiver.seen) <= Dist(cons, prod)
      /\ C # receiver.seen /\ receiver.seen \in Idx /\ prod \in Idx
  BY <1>1, <1>2, Terms DEF Starts, Order, ReadMessage, C
<1>4. C # prod
  <2>1. Dist(cons, C) # Dist(cons, receiver.seen)
    BY <1>2, <1>3, DistApart
  <2>2. Dist(cons, C) \in Nat /\ Dist(cons, receiver.seen) \in Nat /\ Dist(cons, prod) \in Nat
    BY <1>2, <1>3, DistIs
  <2> QED BY <1>3, <2>1, <2>2
<1> DEFINE C2 == C'
           f == Flushed'
           w == Written'
           x == Wrapped(C + payload[Offset(C)].size)
<1>5. payload' = payload /\ prod' = prod /\ P' = P /\ C2 = x
  BY <1>2 DEF ReadMessage, TypeOK, C, P, IncomingMessage
<1>6. PICK p, c, q, d : /\ Path(p, c, payload, C, prod) /\ Flushed = Reads(p, c, payload)
                        /\ Path(q, d, payload, prod, P) /\ Written = Reads(q, d, payload)
  BY DEF Streamed
<1>7. PICK p2, c2, q2, d2 : /\ Path(p2, c2, payload, C2, prod) /\ f = Reads(p2, c2, payload)
                            /\ Path(q2, d2, payload, prod, P) /\ w = Reads(q2, d2, payload)
  BY <1>5 DEF Streamed
<1> HIDE DEF C2, f, w, x
<1>8. w = Written
  BY <1>6, <1>7, OnePath
<1>9. CASE payload[Offset(C)].type = "pad"
  <2>1. Past(payload, C) = x
    BY <1>9 DEF Past, x
  <2>2. x # prod /\ payload[Offset(x)].type # "pad"
    BY <1>1, <1>2, <1>3, <1>4, <2>1, OneOn
  <2>3. Past(payload, x) = x
    BY <2>2 DEF Past
  <2>4. Message(payload, x) = Message(payload, C) /\ Onward(payload, x) = Onward(payload, C)
    BY <2>1, <2>3 DEF Message, Onward
  <2>5. x \in Idx
    BY <1>2, <1>3, <2>1, MessageIn
  <2>6. \E r, n : Path(r, n, payload, x, prod) /\ Reads(r, n, payload) = Reads(p, c, payload)
    BY <1>4, <1>6, <2>2, <2>4, <2>5, PastPath
  <2>7. f = Flushed
    BY <1>5, <1>6, <1>7, <2>6, OnePath
  <2> QED BY <1>8, <2>7 DEF f, w
<1>10. CASE payload[Offset(C)].type # "pad"
  <2>1. Past(payload, C) = C
    BY <1>10 DEF Past
  <2>2. Onward(payload, C) = x
    BY <2>1 DEF Onward, Message, x
  <2>3. /\ Reads(p, c, payload) # <<>>
        /\ \E r, n : Path(r, n, payload, x, prod) /\ Reads(r, n, payload) = Tail(Reads(p, c, payload))
    BY <1>2, <1>4, <1>6, <2>2, RestPath
  <2>4. Flushed # <<>> /\ f = Tail(Flushed)
    BY <1>5, <1>6, <1>7, <2>3, OnePath
  <2> QED BY <1>8, <2>4 DEF f, w
<1> QED BY <1>9, <1>10

LEMMA NextStreams ==
  ASSUME RingInv, RingInv', Streamed, Streamed', [Next]_vars
  PROVE  [Channel!Next]_<<Written, Flushed>>
<1>1. ASSUME UNCHANGED <<payload, prod>>, C' = C, P' = P PROVE UNCHANGED <<Written, Flushed>>
  BY <1>1, SameStreams
<1>2. ASSUME NEW n \in Sizes, CanSend(n) PROVE UNCHANGED <<Written, Flushed>>
  BY <1>1, <1>2 DEF CanSend, RingInv, TypeOK, C, P
<1>3. CASE \/ ReadCons \/ ArmConsEvent \/ Retry \/ NotifyReceiver \/ SenderSleeps \/ SenderWakes
  <2>1. UNCHANGED <<prod, payload, receiver>> /\ P' = P
    BY <1>3 DEF ReadCons, ArmConsEvent, Retry, NotifyReceiver, SenderSleeps, SenderWakes,
       RingInv, TypeOK, P
  <2> QED BY <1>1, <2>1 DEF C
<1>4. CASE \/ ReadProd \/ FinishMessages \/ NotifySender \/ FinalCheck \/ ArmProdEvent
           \/ CheckAgain \/ ReceiverWakes
  <2>1. UNCHANGED <<prod, payload, sender>> /\ C' = C
    BY <1>4 DEF ReadProd, FinishMessages, NotifySender, FinalCheck, ArmProdEvent, CheckAgain,
       ReceiverWakes, RingInv, TypeOK, C
  <2> QED BY <1>1, <2>1 DEF P
<1>5. CASE Send
  <2>1. Flushed' = Flushed /\ \E m \in Headers : Written' = Append(Written, m)
    BY <1>5, SendStreams DEF RingInv
  <2> QED BY <2>1 DEF Channel!Next, Channel!Write, Flushed, Written, C, P
<1>6. CASE Flush
  <2>1. Flushed' = Flushed \o Written /\ Written' = <<>>
    BY <1>6, FlushStreams
  <2> QED BY <2>1 DEF Channel!Next, Channel!Flush, Flushed, Written, C, P
<1>7. CASE ReadMessage
  <2>1. /\ Written' = Written
        /\ Flushed' = Flushed \/ (Flushed # <<>> /\ Flushed' = Tail(Flushed))
    BY <1>7, ReadStreams
  <2> QED BY <2>1 DEF Channel!Next, Channel!Read, Flushed, Written, C, P
<1>8. CASE UNCHANGED vars
  BY <1>1, <1>8 DEF vars, C, P
<1> QED
  BY <1>2, <1>3, <1>4, <1>5, <1>6, <1>7, <1>8 DEF Next, SenderStep, ReceiverStep

LEMMA InitStreams == ASSUME Init, Streamed PROVE Channel!Init
<1>1. C = 0 /\ prod = 0 /\ P = 0
  BY DEF Init, C, P
<1>2. Written = <<>> /\ Flushed = <<>>
  BY <1>1, NoPath DEF Streamed
<1> QED BY <1>2 DEF Channel!Init, Written, Flushed, C, P

\* A ring of any length is a channel, for messages whose size and pad an unsigned short holds:
\* what the receiver gets is what the sender wrote and flushed, in one piece, once, and in that
\* order; of pads, sizes, offsets and wrapped indices there is nothing to see (vring.h:186-415).
THEOREM MessagesImplementChannel == ASSUME SizesFit PROVE Spec => ImplementsChannel
<1>1. Init => Channel!Init
  BY InitRing, RingStreams, InitStreams
<1>2. /\ RingInv /\ RingInv' /\ Streamed /\ Streamed' /\ [Next]_vars
      => [Channel!Next]_<<Written, Flushed>>
  BY NextStreams
<1>3. Spec => []RingInv
  BY InitRing, NextRing, PTL DEF Spec
<1>4. [](RingInv => Streamed)
  BY RingStreams, PTL
<1>5. Spec => Channel!Init /\ [][Channel!Next]_<<Written, Flushed>>
  BY <1>1, <1>2, <1>3, <1>4, PTL DEF Spec
<1> QED BY <1>5 DEF ImplementsChannel, Channel!Spec, Channel!vars, Written, Flushed, C, P
=============================================================================
