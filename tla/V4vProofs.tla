----------------------------- MODULE V4vProofs -----------------------------
(***************************************************************************)
(* The V4V headers: the reader of a ring, for rings and payloads of any    *)
(* length; the kernel client, for any handles, whatever fails or pends and *)
(* whatever others open and close; and the user mode API, for any number   *)
(* of contexts, handles and pending requests. They share nothing.          *)
(***************************************************************************)
EXTENDS V4vRing, V4vKernel, V4vUser, Recursion, SequenceTheorems, TLAPS

\* How far the place i is behind the place a, and the place n bytes behind a.
Dist(a, i) == (i - a) % RingLen
Ahead(a, n) == (a + n) % RingLen

Places == 0..(RingLen - 1)

\* What a datagram whose header says n takes.
Total(n) == Header + Roundup(n - Header)

\* The places in S are where datagrams start, from what is read next to where the next one
\* will be written: one starts where another ends, and each holds its header and payload.
Starts(S, bytes, rx, tx) ==
  /\ S \subseteq Lines /\ {rx, tx} \subseteq S
  /\ \A s \in S : Dist(rx, s) <= Dist(rx, tx)
  /\ \A s \in S \ {tx} :
       /\ bytes[s] \in Header..(MaxLen + Header)
       /\ Ahead(s, Total(bytes[s])) \in S
       /\ \A i \in 0..(bytes[s] - Header - 1) : bytes[Ahead(s, Header + i)] = i
  /\ \A s, t \in S :
       Dist(rx, s) < Dist(rx, t) =>
         Dist(rx, s) + Total(bytes[s]) <= Dist(rx, t)

Chained == \E S \in SUBSET Lines : Starts(S, ring, rx_ptr, tx_ptr)

\* Whoever reads has found a datagram.
Found == reading => rx_ptr # tx_ptr

ReaderInv == RingTypeOK /\ Chained /\ Found
-----------------------------------------------------------------------------
(***************************************************************************)
(* Arithmetic of places                                                    *)
(***************************************************************************)
LEMMA Sane == RingLen \in Nat \ {0} /\ RingLen % 2 = 0 /\ MaxLen \in Nat /\ RingLen >= 2
BY RingLenAssumption DEF Line

LEMMA ModIs ==
  ASSUME NEW i \in Int
  PROVE  /\ i % RingLen \in Places
         /\ i \in Places => i % RingLen = i
         /\ i \in RingLen..(2 * RingLen - 1) => i % RingLen = i - RingLen
         /\ i \in (-RingLen)..(-1) => i % RingLen = i + RingLen
<1>1. i % RingLen \in Places
  BY Sane DEF Places
<1>2. i \in Places => i % RingLen = i
  BY Sane DEF Places
<1>3. i \in RingLen..(2 * RingLen - 1) => i % RingLen = i - RingLen
  BY Sane
<1>4. i \in (-RingLen)..(-1) => i % RingLen = i + RingLen
  BY Sane
<1> QED BY <1>1, <1>2, <1>3, <1>4

LEMMA DistIs ==
  ASSUME NEW a \in Places, NEW i \in Places
  PROVE  /\ Dist(a, i) = IF i >= a THEN i - a ELSE i - a + RingLen
         /\ Dist(a, i) \in Nat /\ Dist(a, i) < RingLen
         /\ Dist(a, i) = 0 <=> i = a
<1>1. i - a \in Int /\ (i >= a => i - a \in Places) /\ (i < a => i - a \in (-RingLen)..(-1))
  BY Sane DEF Places
<1>2. Dist(a, i) = IF i >= a THEN i - a ELSE i - a + RingLen
  BY <1>1, ModIs DEF Dist, Places
<1>3. a \in 0..(RingLen - 1) /\ i \in 0..(RingLen - 1) /\ RingLen \in Nat
  BY Sane DEF Places
<1> HIDE DEF Dist
<1> QED BY <1>2, <1>3

LEMMA AheadIs ==
  ASSUME NEW a \in Places, NEW n \in 0..RingLen
  PROVE  /\ Ahead(a, n) = IF a + n < RingLen THEN a + n ELSE a + n - RingLen
         /\ Ahead(a, n) \in Places
<1> DEFINE m == a + n
<1>1. m \in Int /\ (m < RingLen => m \in Places)
      /\ (~ (m < RingLen) => m \in RingLen..(2 * RingLen - 1))
  BY Sane DEF Places
<1> HIDE DEF m
<1>2. m % RingLen = (IF m < RingLen THEN m ELSE m - RingLen) /\ m % RingLen \in Places
  <2>1. CASE m < RingLen
    BY <1>1, <2>1, ModIs
  <2>2. CASE ~ (m < RingLen)
    BY <1>1, <2>2, ModIs
  <2> QED BY <2>1, <2>2
<1>3. Ahead(a, n) = m % RingLen
  BY DEF Ahead, m
<1>4. m = a + n
  BY DEF m
<1>5. a \in Int /\ n \in Int /\ RingLen \in Int
  BY Sane DEF Places
<1> QED BY <1>2, <1>3, <1>4, <1>5

LEMMA DistAhead ==
  ASSUME NEW a \in Places, NEW i \in Places, NEW n \in Nat, Dist(a, i) + n < RingLen
  PROVE  Ahead(i, n) \in Places /\ Dist(a, Ahead(i, n)) = Dist(a, i) + n
<1>1. Dist(a, i) = (IF i >= a THEN i - a ELSE i - a + RingLen) /\ Dist(a, i) \in Nat
      /\ n \in 0..RingLen
  BY DistIs, Sane
<1> DEFINE j == Ahead(i, n)
<1>2. j \in Places /\ j = IF i + n < RingLen THEN i + n ELSE i + n - RingLen
  BY <1>1, AheadIs
<1> HIDE DEF j
<1>3. Dist(a, j) = IF j >= a THEN j - a ELSE j - a + RingLen
  BY <1>2, DistIs
<1> QED BY <1>1, <1>2, <1>3, Sane DEF j, Places

LEMMA DistSame ==
  ASSUME NEW a \in Places, NEW i \in Places, NEW j \in Places, i # j
  PROVE  Dist(a, i) # Dist(a, j)
<1>1. /\ Dist(a, i) = IF i >= a THEN i - a ELSE i - a + RingLen
      /\ Dist(a, j) = IF j >= a THEN j - a ELSE j - a + RingLen
  BY DistIs
<1>2. a \in 0..(RingLen - 1) /\ i \in 0..(RingLen - 1) /\ j \in 0..(RingLen - 1) /\ RingLen \in Nat
  BY Sane DEF Places
<1> QED BY <1>1, <1>2

LEMMA DistFrom ==
  ASSUME NEW a \in Places, NEW x \in Places, NEW i \in Places, Dist(a, x) <= Dist(a, i)
  PROVE  Dist(x, i) = Dist(a, i) - Dist(a, x)
<1>1. /\ Dist(a, i) = IF i >= a THEN i - a ELSE i - a + RingLen
      /\ Dist(a, x) = IF x >= a THEN x - a ELSE x - a + RingLen
      /\ Dist(x, i) = IF i >= x THEN i - x ELSE i - x + RingLen
  BY DistIs
<1>2. a \in 0..(RingLen - 1) /\ i \in 0..(RingLen - 1) /\ x \in 0..(RingLen - 1) /\ RingLen \in Nat
  BY Sane DEF Places
<1> QED BY <1>1, <1>2

LEMMA RoundupIs ==
  ASSUME NEW n \in Nat
  PROVE  /\ Roundup(n) = IF n % 2 = 0 THEN n ELSE n + 1
         /\ Roundup(n) \in Nat /\ Roundup(n) % 2 = 0
         /\ n <= Roundup(n)
BY DEF Roundup, Line

\* Whole lines behind a line there is a line.
LEMMA LineAhead ==
  ASSUME NEW a \in Lines, NEW n \in 0..RingLen, n % 2 = 0
  PROVE  Ahead(a, n) \in Lines
<1>1. a \in Places /\ a % 2 = 0
  BY DEF Lines, Line, Places
<1>2. Ahead(a, n) \in Places
      /\ Ahead(a, n) = IF a + n < RingLen THEN a + n ELSE a + n - RingLen
  BY <1>1, AheadIs
<1>3. (a + n) % 2 = 0 /\ (a + n - RingLen) % 2 = 0
  BY <1>1, Sane DEF Places
<1> QED BY <1>1, <1>2, <1>3, Sane DEF Lines, Line, Places

-----------------------------------------------------------------------------
(***************************************************************************)
(* The queue in the ring                                                   *)
(***************************************************************************)
LEMMA Terms ==
  ASSUME RingTypeOK
  PROVE  /\ rx_ptr \in Lines /\ tx_ptr \in Lines /\ Lines \subseteq Places
         /\ rx_ptr \in Places /\ tx_ptr \in Places
         /\ ring \in [Places -> 0..(MaxLen + Header)]
         /\ BytesToRead = Dist(rx_ptr, tx_ptr)
         /\ \A i \in Places : Dist(rx_ptr, i) \in Nat /\ Dist(rx_ptr, i) < RingLen
<1>1. Lines \subseteq Places /\ rx_ptr \in Lines /\ tx_ptr \in Lines
      /\ ring \in [Places -> 0..(MaxLen + Header)]
  BY DEF RingTypeOK, Lines, Places
<1>2. Dist(rx_ptr, tx_ptr) =
        IF tx_ptr >= rx_ptr THEN tx_ptr - rx_ptr ELSE tx_ptr - rx_ptr + RingLen
  BY <1>1, DistIs
<1>3. BytesToRead = Dist(rx_ptr, tx_ptr)
  BY <1>1, <1>2, Sane DEF BytesToRead, Places
<1>4. \A i \in Places : Dist(rx_ptr, i) \in Nat /\ Dist(rx_ptr, i) < RingLen
  BY <1>1, DistIs
<1> QED BY <1>1, <1>3, <1>4

\* A datagram lies between its place and the next one.
LEMMA Fits ==
  ASSUME RingTypeOK, NEW S, Starts(S, ring, rx_ptr, tx_ptr), NEW s \in S, s # tx_ptr
  PROVE  /\ s \in Places /\ ring[s] - Header \in 0..MaxLen
         /\ Total(ring[s]) \in Nat /\ Total(ring[s]) % 2 = 0
         /\ ring[s] <= Total(ring[s]) /\ 2 <= Total(ring[s])
         /\ Dist(rx_ptr, s) + Total(ring[s]) <= Dist(rx_ptr, tx_ptr)
         /\ Dist(rx_ptr, tx_ptr) < RingLen
<1>1. s \in Places /\ ring[s] \in Header..(MaxLen + Header) /\ tx_ptr \in S
      /\ Dist(rx_ptr, s) <= Dist(rx_ptr, tx_ptr)
  BY Terms DEF Starts
<1>2. Dist(rx_ptr, s) \in Nat /\ Dist(rx_ptr, tx_ptr) \in Nat /\ Dist(rx_ptr, tx_ptr) < RingLen
  BY <1>1, Terms
<1>3. Dist(rx_ptr, s) # Dist(rx_ptr, tx_ptr)
  BY <1>1, Terms, DistSame
<1>4. Dist(rx_ptr, s) + Total(ring[s]) <= Dist(rx_ptr, tx_ptr)
  <2>1. Dist(rx_ptr, s) < Dist(rx_ptr, tx_ptr)
    BY <1>1, <1>2, <1>3
  <2> QED BY <1>1, <2>1 DEF Starts
<1> DEFINE n == ring[s] - Header
<1>5. n \in 0..MaxLen /\ n \in Nat /\ ring[s] = n + Header
  BY <1>1, Sane DEF Header, Line
<1>6. Roundup(n) \in Nat /\ Roundup(n) % 2 = 0 /\ n <= Roundup(n)
  BY <1>5, RoundupIs
<1>7. Total(ring[s]) = Header + Roundup(n)
  BY DEF Total
<1> HIDE DEF n
<1> QED BY <1>1, <1>2, <1>4, <1>5, <1>6, <1>7 DEF n, Header, Line

LEMMA InitReader == RingInit => ReaderInv
<1> SUFFICES ASSUME RingInit PROVE ReaderInv
  OBVIOUS
<1>1. RingTypeOK
  <2>1. 0 \in Lines /\ 0 \in 0..(MaxLen + Header)
    BY Sane DEF Lines, Header, Line
  <2> QED BY <2>1 DEF RingInit, RingTypeOK
<1>2. Starts({0}, ring, rx_ptr, tx_ptr)
  <2>1. 0 \in Places /\ 0 \in Lines /\ Dist(0, 0) = 0
    BY <1>1, Terms, DistIs DEF RingInit
  <2> QED BY <2>1 DEF Starts, RingInit
<1>3. {0} \in SUBSET Lines
  BY <1>1 DEF RingTypeOK, RingInit
<1> QED BY <1>1, <1>2, <1>3 DEF ReaderInv, Chained, Found, RingInit

\* What v4v_copy_out returns is the place behind the datagram: its end may be that of the
\* ring, its payload may start at the front, or go on there.
LEMMA EndIs ==
  ASSUME RingTypeOK, NEW S, Starts(S, ring, rx_ptr, tx_ptr), rx_ptr # tx_ptr, NEW t \in Nat
  PROVE  Payload(t).end = Ahead(rx_ptr, Total(ring[rx_ptr]))
<1> DEFINE len == ring[rx_ptr] - Header
           start == Around(rx_ptr + Header)
           bte == RingLen - start
<1>1. /\ rx_ptr \in Places /\ rx_ptr % 2 = 0 /\ len \in Nat
      /\ Total(ring[rx_ptr]) = 2 + Roundup(len)
  BY Terms, Fits DEF Starts, Lines, Line, Total, Header
<1>2. Total(ring[rx_ptr]) \in Nat /\ Total(ring[rx_ptr]) < RingLen
  <2>1. Dist(rx_ptr, rx_ptr) \in Nat
    BY Terms
  <2> QED BY <2>1, Fits, Terms, Sane DEF Starts
<1>3. Payload(t).end = IF bte < len THEN Around(Roundup(len - bte)) ELSE Around(start + Roundup(len))
  BY DEF Payload
<1> HIDE DEF len
<1>4. start = (IF rx_ptr + 2 = RingLen THEN 0 ELSE rx_ptr + 2) /\ start % 2 = 0 /\ start \in Nat
      /\ rx_ptr + 2 <= RingLen
  BY <1>1, Sane DEF Around, Header, Line, Places
<1> HIDE DEF start
<1>5. Roundup(len) = (IF len % 2 = 0 THEN len ELSE len + 1) /\ Roundup(len) \in Nat
  BY <1>1, RoundupIs
<1>6. Ahead(rx_ptr, Total(ring[rx_ptr])) =
        IF rx_ptr + (2 + Roundup(len)) < RingLen THEN rx_ptr + (2 + Roundup(len))
        ELSE rx_ptr + (2 + Roundup(len)) - RingLen
  <2>1. Total(ring[rx_ptr]) \in 0..RingLen
    BY <1>2, Sane
  <2> QED BY <1>1, <2>1, AheadIs
<1>7. CASE bte < len
  <2>1. len - bte \in Nat /\ bte \in Nat /\ bte % 2 = 0 /\ start = rx_ptr + 2
    BY <1>1, <1>2, <1>4, <1>5, <1>7, Sane
  <2>2. Roundup(len - bte) = Roundup(len) - bte
    BY <1>1, <1>5, <2>1, RoundupIs
  <2>3. Around(Roundup(len - bte)) = rx_ptr + (2 + Roundup(len)) - RingLen
    BY <1>1, <1>2, <1>5, <2>1, <2>2, Sane DEF Around, Places
  <2>4. ~ (rx_ptr + (2 + Roundup(len)) < RingLen)
    BY <1>1, <1>5, <1>7, <2>1, Sane DEF Places
  <2> QED BY <1>3, <1>6, <1>7, <2>3, <2>4
<1>8. CASE ~ (bte < len)
  <2>1. bte \in Nat /\ bte % 2 = 0 /\ Roundup(len) <= bte
    BY <1>1, <1>4, <1>5, <1>8, Sane DEF Places
  <2>2. Around(start + Roundup(len)) = Ahead(rx_ptr, Total(ring[rx_ptr]))
    BY <1>1, <1>2, <1>4, <1>5, <1>6, <2>1, Sane DEF Around, Places
  <2> QED BY <1>3, <1>8, <2>2
<1> QED BY <1>7, <1>8

\* A datagram is sent: it goes behind the others, and leaves them alone.
LEMMA SendDoes ==
  ASSUME ReaderInv, NEW len \in 0..MaxLen, Send(len),
         NEW S \in SUBSET Lines, Starts(S, ring, rx_ptr, tx_ptr)
  PROVE  /\ ReaderInv'
         /\ rx_ptr' = rx_ptr /\ tx_ptr' \notin S
         /\ tx_ptr' = Ahead(tx_ptr, Total(Header + len)) /\ ring'[tx_ptr] = Header + len
         /\ \A s \in S : s # tx_ptr => ring'[s] = ring[s]
<1> USE DEF ReaderInv
<1> DEFINE d == Dist(rx_ptr, tx_ptr)
           total == Header + Roundup(len)
<1>1. /\ d \in Nat /\ len \in Nat /\ total \in Nat /\ total % 2 = 0 /\ 2 + len <= total
      /\ d + total < RingLen /\ Total(Header + len) = total
  <2>1. len \in Nat /\ Header + len - Header = len
    BY Sane DEF Header, Line
  <2>2. Roundup(len) \in Nat /\ Roundup(len) % 2 = 0 /\ len <= Roundup(len)
    BY <2>1, RoundupIs
  <2>3. d \in Nat /\ d = BytesToRead
    BY Terms
  <2>4. total < RingLen - BytesToRead
    BY DEF Send
  <2>5. total = 2 + Roundup(len)
    BY DEF Header, Line
  <2>6. Total(Header + len) = total
    <3> DEFINE h == Header + len
    <3>1. h - Header = len
      BY <2>1 DEF Header, Line
    <3> HIDE DEF h
    <3>2. Total(h) = Header + Roundup(len)
      BY <3>1 DEF Total
    <3> QED BY <3>2 DEF h
  <2> HIDE DEF d, total
  <2> QED BY <2>1, <2>2, <2>3, <2>4, <2>5, <2>6, Sane
<1>2. /\ tx_ptr' = Ahead(tx_ptr, total) /\ UNCHANGED <<rx_ptr, reading>>
      /\ ring' = [j \in DOMAIN ring |->
           IF j = tx_ptr THEN Header + len
           ELSE IF \E i \in Header..(Header + len - 1) : Ahead(tx_ptr, i) = j
           THEN (j - tx_ptr - Header) % RingLen
           ELSE ring[j]]
  BY DEF Send, Ahead
<1> HIDE DEF d, total
<1>3. \A i \in 0..total : Ahead(tx_ptr, i) \in Places /\ Dist(rx_ptr, Ahead(tx_ptr, i)) = d + i
  <2> SUFFICES ASSUME NEW i \in 0..total
               PROVE  Ahead(tx_ptr, i) \in Places /\ Dist(rx_ptr, Ahead(tx_ptr, i)) = d + i
    OBVIOUS
  <2>1. i \in Nat /\ d + i < RingLen
    BY <1>1, Sane
  <2> QED BY <2>1, Terms, DistAhead DEF d
<1>4. \A i \in 0..total : Dist(tx_ptr, Ahead(tx_ptr, i)) = i
  <2> SUFFICES ASSUME NEW i \in 0..total PROVE Dist(tx_ptr, Ahead(tx_ptr, i)) = i
    OBVIOUS
  <2>1. Dist(tx_ptr, tx_ptr) = 0 /\ i \in Nat /\ 0 + i < RingLen
    BY <1>1, Terms, DistIs, Sane
  <2> QED BY <2>1, Terms, DistAhead
<1>5. ring'[tx_ptr] = Header + len
  BY <1>2, Terms
<1>6. \A i \in 0..(len - 1) : ring'[Ahead(tx_ptr, Header + i)] = i
  <2> SUFFICES ASSUME NEW i \in 0..(len - 1) PROVE ring'[Ahead(tx_ptr, Header + i)] = i
    OBVIOUS
  <2> DEFINE j == Ahead(tx_ptr, Header + i)
  <2>1. Header + i \in 0..total /\ Header + i \in Header..(Header + len - 1) /\ i \in Nat
        /\ Header + i = 2 + i
    BY <1>1 DEF Header, Line
  <2>2. j \in Places /\ Dist(tx_ptr, j) = 2 + i
    BY <1>3, <1>4, <2>1
  <2>3. j # tx_ptr
    BY <2>1, <2>2, Terms, DistIs
  <2>4. ring'[j] = (j - tx_ptr - Header) % RingLen
    BY <1>2, <2>1, <2>2, <2>3, Terms
  <2> HIDE DEF j
  <2>5. Dist(tx_ptr, j) = IF j >= tx_ptr THEN j - tx_ptr ELSE j - tx_ptr + RingLen
    BY <2>2, Terms, DistIs
  <2>6. j - tx_ptr - Header = i \/ j - tx_ptr - Header = i - RingLen
    <3>1. j \in Int /\ tx_ptr \in Int /\ RingLen \in Int /\ i \in Int
      BY <2>1, <2>2, Terms, Sane DEF Places
    <3> QED BY <2>2, <2>5, <3>1 DEF Header, Line
  <2>7. i \in Places /\ i - RingLen \in (-RingLen)..(-1) /\ i \in Int /\ i - RingLen \in Int
        /\ i - RingLen + RingLen = i
    BY <1>1, Sane DEF Places
  <2>8. i % RingLen = i /\ (i - RingLen) % RingLen = i
    BY <2>7, ModIs
  <2> QED BY <2>4, <2>6, <2>8 DEF j
<1>7. \A j \in Places : Dist(rx_ptr, j) < d => ring'[j] = ring[j]
  <2> SUFFICES ASSUME NEW j \in Places, ring'[j] # ring[j] PROVE ~ (Dist(rx_ptr, j) < d)
    OBVIOUS
  <2>1. CASE j = tx_ptr
    BY <1>1, <2>1 DEF d
  <2>2. CASE j # tx_ptr
    <3>1. PICK i \in Header..(Header + len - 1) : Ahead(tx_ptr, i) = j
      BY <1>2, <2>2, Terms
    <3>2. i \in 0..total
      BY <1>1 DEF Header, Line
    <3>3. Dist(rx_ptr, j) = d + i
      BY <1>3, <3>1, <3>2
    <3> QED BY <1>1, <3>2, <3>3
  <2> QED BY <2>1, <2>2
<1>8. RingTypeOK'
  <2>1. tx_ptr' \in Lines
    <3>1. total \in 0..RingLen
      BY <1>1, Sane
    <3> QED BY <1>1, <1>2, <3>1, Terms, LineAhead
  <2>2. ASSUME NEW j \in Places PROVE ring'[j] \in 0..(MaxLen + Header)
    <3>1. CASE j = tx_ptr
      BY <1>1, <1>5, <3>1, Sane DEF Header, Line
    <3>2. CASE j # tx_ptr /\ \E i \in Header..(Header + len - 1) : Ahead(tx_ptr, i) = j
      <4>1. PICK i \in Header..(Header + len - 1) : Ahead(tx_ptr, i) = j
        BY <3>2
      <4>2. i - Header \in 0..(len - 1) /\ Header + (i - Header) = i
        BY <1>1 DEF Header, Line
      <4>3. ring'[j] = i - Header
        BY <1>6, <4>1, <4>2
      <4> QED BY <1>1, <4>2, <4>3, Sane DEF Header, Line
    <3>3. CASE j # tx_ptr /\ ~ \E i \in Header..(Header + len - 1) : Ahead(tx_ptr, i) = j
      BY <1>2, <3>3, Terms
    <3> QED BY <3>1, <3>2, <3>3
  <2>3. ring' \in [Places -> 0..(MaxLen + Header)]
    BY <1>2, <2>2, Terms
  <2> QED BY <1>2, <2>1, <2>3 DEF RingTypeOK, Places
<1> DEFINE e == Ahead(tx_ptr, total)
<1>9. e \in Lines /\ e \in Places /\ Dist(rx_ptr, e) = d + total
  <2>1. tx_ptr' \in Lines
    BY <1>8 DEF RingTypeOK
  <2>2. e \in Lines
    BY <1>2, <2>1
  <2>3. total \in 0..total
    BY <1>1
  <2> QED BY <1>3, <2>2, <2>3
<1> HIDE DEF e
<1>10. \A s \in S : s \in Places /\ Dist(rx_ptr, s) \in Nat /\ Dist(rx_ptr, s) <= d
  BY Terms DEF Starts, d
<1>11. \A s \in S : s # tx_ptr =>
         /\ Dist(rx_ptr, s) < d /\ Dist(rx_ptr, s) + Total(ring[s]) <= d
         /\ ring[s] \in Nat /\ ring[s] <= Total(ring[s]) /\ Total(ring[s]) \in Nat
         /\ ring'[s] = ring[s]
  <2> SUFFICES ASSUME NEW s \in S, s # tx_ptr
               PROVE  /\ Dist(rx_ptr, s) < d /\ Dist(rx_ptr, s) + Total(ring[s]) <= d
                      /\ ring[s] \in Nat /\ ring[s] <= Total(ring[s]) /\ Total(ring[s]) \in Nat
                      /\ ring'[s] = ring[s]
    OBVIOUS
  <2>1. /\ Dist(rx_ptr, s) + Total(ring[s]) <= d /\ 2 <= Total(ring[s])
        /\ ring[s] <= Total(ring[s]) /\ Total(ring[s]) \in Nat
    BY Fits DEF d
  <2>2. ring[s] \in Nat
    BY <1>10, Terms, Sane DEF Header, Line
  <2>3. Dist(rx_ptr, s) < d
    BY <1>1, <1>10, <2>1
  <2> QED BY <1>7, <1>10, <2>1, <2>2, <2>3
<1>12. \A s \in S : s # tx_ptr =>
         \A i \in 0..(ring[s] - Header - 1) : ring'[Ahead(s, Header + i)] = i
  <2> SUFFICES ASSUME NEW s \in S, s # tx_ptr, NEW i \in 0..(ring[s] - Header - 1)
               PROVE  ring'[Ahead(s, Header + i)] = i
    OBVIOUS
  <2>1. ring[Ahead(s, Header + i)] = i
    BY DEF Starts
  <2>2. Header + i \in Nat /\ Dist(rx_ptr, s) + (Header + i) < d /\ d < RingLen
    BY <1>1, <1>10, <1>11, Sane DEF Header, Line
  <2>3. Ahead(s, Header + i) \in Places
        /\ Dist(rx_ptr, Ahead(s, Header + i)) = Dist(rx_ptr, s) + (Header + i)
    <3>1. Dist(rx_ptr, s) + (Header + i) < RingLen
      BY <1>1, <1>10, <2>2, Sane
    <3> QED BY <1>10, <2>2, <3>1, Terms, DistAhead
  <2> QED BY <1>7, <2>1, <2>2, <2>3
<1>13. e \notin S /\ e # tx_ptr
  BY <1>1, <1>9, <1>10 DEF d
<1>14. PICK T : T = S \cup {e}
  OBVIOUS
<1>15. Starts(T, ring', rx_ptr, e)
  <2>1. T \subseteq Lines /\ {rx_ptr, e} \subseteq T /\ tx_ptr \in S
    BY <1>9, <1>14 DEF Starts
  <2>2. \A s \in T : Dist(rx_ptr, s) <= Dist(rx_ptr, e)
    BY <1>1, <1>9, <1>10, <1>14
  <2>3. ASSUME NEW s \in T \ {e}
        PROVE  /\ ring'[s] \in Header..(MaxLen + Header)
               /\ Ahead(s, Total(ring'[s])) \in T
               /\ \A i \in 0..(ring'[s] - Header - 1) : ring'[Ahead(s, Header + i)] = i
    <3>1. CASE s = tx_ptr
      <4>1. Header + len \in Header..(MaxLen + Header) /\ Header + len - Header = len
        BY <1>1, Sane DEF Header, Line
      <4>2. ring'[s] = Header + len /\ Ahead(s, Total(ring'[s])) = e
        BY <1>1, <1>5, <3>1 DEF e
      <4>3. ring'[s] - Header - 1 = len - 1
        BY <1>1, <4>2 DEF Header, Line
      <4> QED BY <1>6, <1>14, <3>1, <4>1, <4>2, <4>3
    <3>2. CASE s # tx_ptr
      BY <1>11, <1>12, <1>14, <2>3, <3>2 DEF Starts
    <3> QED BY <3>1, <3>2
  <2>4. ASSUME NEW s \in T, NEW t \in T, Dist(rx_ptr, s) < Dist(rx_ptr, t)
        PROVE  Dist(rx_ptr, s) + Total(ring'[s]) <= Dist(rx_ptr, t)
    <3>1. s # e /\ s \in S
      BY <1>1, <1>9, <1>10, <1>14, <2>4
    <3>2. CASE s = tx_ptr
      <4>1. t = e
        BY <1>1, <1>10, <1>14, <2>4, <3>2 DEF d
      <4> QED BY <1>1, <1>5, <1>9, <3>2, <4>1 DEF d
    <3>3. CASE s # tx_ptr /\ t = e
      BY <1>1, <1>9, <1>10, <1>11, <3>1, <3>3
    <3>4. CASE s # tx_ptr /\ t # e
      BY <1>11, <1>14, <2>4, <3>1, <3>4 DEF Starts
    <3> QED BY <3>2, <3>3, <3>4
  <2> QED BY <2>1, <2>2, <2>3, <2>4 DEF Starts
<1>16. Chained'
  <2>1. Starts(T, ring', rx_ptr', tx_ptr') /\ T \in SUBSET Lines
    BY <1>2, <1>15 DEF e, Starts
  <2> QED BY <2>1 DEF Chained
<1>17. Found'
  BY <1>2, <1>9, <1>13 DEF Found, e, Starts
<1> QED BY <1>1, <1>2, <1>5, <1>8, <1>11, <1>13, <1>16, <1>17 DEF e

LEMMA SendSafe == ASSUME ReaderInv, NEW len \in 0..MaxLen, Send(len) PROVE ReaderInv'
<1>1. PICK S \in SUBSET Lines : Starts(S, ring, rx_ptr, tx_ptr)
  BY DEF ReaderInv, Chained
<1> QED BY <1>1, SendDoes

\* What is next to be read is behind nothing else, and the rest is behind it.
LEMMA Rest ==
  ASSUME RingTypeOK, rx_ptr # tx_ptr, NEW S, S \subseteq Lines,
         Starts(S, ring, rx_ptr, tx_ptr), NEW e, e = Ahead(rx_ptr, Total(ring[rx_ptr]))
  PROVE  e \in Lines /\ Starts(S \ {rx_ptr}, ring, e, tx_ptr)
<1> DEFINE n == Total(ring[rx_ptr])
           d(i) == Dist(rx_ptr, i)
<1>1. S \subseteq Places /\ rx_ptr \in S /\ tx_ptr \in S /\ rx_ptr \in Places /\ d(rx_ptr) = 0
      /\ \A s \in S : d(s) \in Nat /\ d(s) < RingLen /\ d(s) <= d(tx_ptr)
  BY Terms, DistIs DEF Starts
<1>2. n \in Nat /\ 2 <= n /\ d(rx_ptr) + n <= d(tx_ptr)
  BY <1>1, Fits
<1>3. e \in S /\ d(e) = n
  <2>1. d(rx_ptr) + n < RingLen
    BY <1>1, <1>2, Sane
  <2>2. d(e) = d(rx_ptr) + n
    BY <1>1, <1>2, <2>1, DistAhead
  <2> QED BY <1>1, <1>2, <2>2 DEF Starts
<1>4. \A s \in S \ {rx_ptr} : n <= d(s)
  <2> SUFFICES ASSUME NEW s \in S, s # rx_ptr PROVE n <= d(s)
    OBVIOUS
  <2>1. d(s) # 0 /\ d(s) \in Nat
    BY <1>1, DistIs
  <2>2. d(rx_ptr) < d(s)
    BY <1>1, <2>1
  <2>3. d(rx_ptr) + n <= d(s)
    BY <1>1, <2>2 DEF Starts
  <2> QED BY <1>1, <1>2, <2>1, <2>3
<1>5. \A s \in S \ {rx_ptr} : Dist(e, s) = d(s) - n
  <2> SUFFICES ASSUME NEW s \in S, s # rx_ptr PROVE Dist(e, s) = d(s) - n
    OBVIOUS
  <2>1. d(e) <= d(s)
    BY <1>3, <1>4
  <2> QED BY <1>1, <1>3, <2>1, DistFrom
<1>6. e # rx_ptr
  BY <1>1, <1>2, <1>3
<1>7. ASSUME NEW s \in S \ {rx_ptr}, s # tx_ptr
      PROVE  /\ ring[s] \in Header..(MaxLen + Header)
             /\ Ahead(s, Total(ring[s])) \in S \ {rx_ptr}
             /\ \A i \in 0..(ring[s] - Header - 1) : ring[Ahead(s, Header + i)] = i
             /\ Total(ring[s]) \in Nat
  <2>1. Total(ring[s]) \in Nat /\ d(s) + Total(ring[s]) <= d(tx_ptr) /\ 2 <= Total(ring[s])
    BY <1>7, Fits
  <2>2. d(s) + Total(ring[s]) < RingLen
    BY <1>1, <2>1, Sane
  <2>3. d(Ahead(s, Total(ring[s]))) = d(s) + Total(ring[s])
    BY <1>1, <1>7, <2>1, <2>2, DistAhead
  <2>4. Ahead(s, Total(ring[s])) # rx_ptr
    BY <1>1, <1>7, <2>1, <2>3
  <2> QED BY <1>7, <2>1, <2>4 DEF Starts
<1>8. ASSUME NEW s \in S \ {rx_ptr}, NEW t \in S \ {rx_ptr}, Dist(e, s) < Dist(e, t)
      PROVE  Dist(e, s) + Total(ring[s]) <= Dist(e, t)
  <2>1. Dist(e, s) = d(s) - n /\ Dist(e, t) = d(t) - n /\ d(s) \in Nat /\ d(t) \in Nat
    BY <1>1, <1>5
  <2>2. d(s) < d(t)
    BY <1>2, <1>8, <2>1
  <2>3. s # tx_ptr
    BY <1>1, <2>1, <2>2
  <2>4. d(s) + Total(ring[s]) <= d(t) /\ Total(ring[s]) \in Nat
    BY <1>7, <2>2, <2>3 DEF Starts
  <2> QED BY <1>2, <2>1, <2>4
<1>9. \A s \in S \ {rx_ptr} : Dist(e, s) <= Dist(e, tx_ptr)
  <2> SUFFICES ASSUME NEW s \in S \ {rx_ptr} PROVE Dist(e, s) <= Dist(e, tx_ptr)
    OBVIOUS
  <2>1. Dist(e, s) = d(s) - n /\ Dist(e, tx_ptr) = d(tx_ptr) - n /\ d(s) \in Nat
        /\ d(tx_ptr) \in Nat /\ d(s) <= d(tx_ptr)
    BY <1>1, <1>5
  <2> QED BY <1>2, <2>1
<1> QED BY <1>1, <1>3, <1>6, <1>7, <1>8, <1>9 DEF Starts

LEMMA CopySafe ==
  ASSUME ReaderInv, NEW t \in 0..MaxLen, NEW consume \in BOOLEAN, Copy(t, consume)
  PROVE  ReaderInv'
<1> USE DEF ReaderInv
<1> DEFINE e == Ahead(rx_ptr, Total(ring[rx_ptr]))
<1>1. PICK S \in SUBSET Lines : Starts(S, ring, rx_ptr, tx_ptr)
  BY DEF Chained
<1>2. rx_ptr # tx_ptr /\ t \in Nat
  BY Sane DEF Copy, Found
<1>3. UNCHANGED <<ring, tx_ptr>> /\ reading' = FALSE
      /\ rx_ptr' = IF consume THEN e ELSE rx_ptr
  BY <1>1, <1>2, EndIs DEF Copy
<1>4. PICK T : T = S \ {rx_ptr}
  OBVIOUS
<1>5. e \in Lines /\ Starts(T, ring, e, tx_ptr)
  BY <1>1, <1>2, <1>4, Rest
<1> HIDE DEF e
<1>6. RingTypeOK'
  BY <1>3, <1>5 DEF RingTypeOK
<1>7. Chained'
  <2>1. CASE consume
    <3>1. Starts(T, ring', rx_ptr', tx_ptr') /\ T \in SUBSET Lines
      BY <1>3, <1>4, <1>5, <2>1
    <3> QED BY <3>1 DEF Chained
  <2>2. CASE ~ consume
    <3>1. Starts(S, ring', rx_ptr', tx_ptr')
      BY <1>1, <1>3, <2>2
    <3> QED BY <3>1 DEF Chained
  <2> QED BY <2>1, <2>2
<1> QED BY <1>3, <1>6, <1>7 DEF Found

LEMMA NextReader == ASSUME ReaderInv, [RingNext]_ringVars PROVE ReaderInv'
<1>1. CASE Look
  <2>1. rx_ptr # tx_ptr
    BY <1>1 DEF Look, Available, BytesToRead, Header, Line, ReaderInv, RingTypeOK, Lines
  <2> QED BY <1>1, <2>1 DEF Look, ReaderInv, RingTypeOK, Chained, Found
<1>2. CASE UNCHANGED ringVars
  BY <1>2 DEF ringVars, ReaderInv, RingTypeOK, Chained, Found
<1> QED BY <1>1, <1>2, SendSafe, CopySafe DEF RingNext
-----------------------------------------------------------------------------
(***************************************************************************)
(* What is copied                                                          *)
(***************************************************************************)
\* The numbers from c on, of which there are n.
From(c, n) == [i \in 1..n |-> c + i - 1]

LEMMA BytesAre ==
  ASSUME NEW from \in Nat, NEW n \in Nat, NEW c \in Nat,
         \A i \in 0..(n - 1) : ring[from + i] = c + i
  PROVE  Bytes(from, n) = From(c, n)
<1>1. ASSUME NEW i \in 1..n PROVE ring[from + i - 1] = c + i - 1
  <2>1. i - 1 \in 0..(n - 1) /\ from + (i - 1) = from + i - 1 /\ c + (i - 1) = c + i - 1
    OBVIOUS
  <2> QED BY <2>1
<1> QED BY <1>1 DEF Bytes, From

LEMMA Joined ==
  ASSUME NEW p \in Nat, NEW q \in Nat
  PROVE  From(0, p) \o From(p, q) = From(0, p + q)
<1> DEFINE s == From(0, p)
           u == From(p, q)
<1>1. s \in Seq(Int) /\ u \in Seq(Int) /\ Len(s) = p /\ Len(u) = q
      /\ (\A i \in 1..p : s[i] = 0 + i - 1) /\ (\A i \in 1..q : u[i] = p + i - 1)
  BY DEF From
<1> HIDE DEF s, u
<1>2. /\ s \o u \in Seq(Int) /\ Len(s \o u) = p + q
      /\ \A i \in 1..(p + q) : (s \o u)[i] = IF i <= p THEN s[i] ELSE u[i - p]
  BY <1>1, ConcatProperties
<1>3. ASSUME NEW i \in 1..(p + q)
      PROVE  (IF i <= p THEN s[i] ELSE u[i - p]) = 0 + i - 1
  <2>1. CASE i <= p
    BY <1>1, <2>1
  <2>2. CASE ~ (i <= p)
    <3>1. i - p \in 1..q /\ p + (i - p) - 1 = 0 + i - 1
      BY <2>2
    <3> QED BY <1>1, <2>2, <3>1
  <2> QED BY <2>1, <2>2
<1>4. s \o u = [i \in 1..(p + q) |-> 0 + i - 1]
  <2> DEFINE v == s \o u
  <2>1. v = [i \in 1..(p + q) |-> v[i]]
    <3>1. v \in Seq(Int) /\ Len(v) = p + q
      BY <1>2
    <3> HIDE DEF v
    <3> QED BY <3>1, LenProperties
  <2> QED BY <1>2, <1>3, <2>1
<1> QED BY <1>4 DEF s, u, From

LEMMA SkippedIs ==
  ASSUME NEW m \in Nat, NEW k \in Nat
  PROVE  Skipped(From(0, m), k) = From(k, IF k < m THEN m - k ELSE 0)
<1> DEFINE s == From(0, m)
           n == IF k < m THEN m - k ELSE 0
<1>1. s \in Seq(Int) /\ Len(s) = m /\ \A i \in 1..m : s[i] = i - 1
  BY DEF From
<1> HIDE DEF s
<1>2. Skipped(s, k) = [i \in 1..(1 + m - (k + 1)) |-> s[i + (k + 1) - 1]]
  BY <1>1 DEF Skipped
<1>3. 1..(1 + m - (k + 1)) = 1..n
  OBVIOUS
<1>4. ASSUME NEW i \in 1..n PROVE s[i + (k + 1) - 1] = k + i - 1
  <2>1. i + (k + 1) - 1 \in 1..m
    OBVIOUS
  <2>2. s[i + (k + 1) - 1] = (i + (k + 1) - 1) - 1
    BY <1>1, <2>1
  <2>3. i \in Int /\ (i + (k + 1) - 1) - 1 = k + i - 1
    OBVIOUS
  <2> QED BY <2>2, <2>3
<1> HIDE DEF n
<1>5. Skipped(s, k) = [i \in 1..n |-> k + i - 1]
  BY <1>2, <1>3, <1>4
<1> QED BY <1>5 DEF s, n, From

\* The bytes copied from the one or two parts of the payload.
LEMMA PayloadIs ==
  ASSUME ReaderInv, reading, NEW t \in Nat
  PROVE  /\ ring[rx_ptr] - Header \in Nat
         /\ Payload(t).bytes = From(0, Least(t, ring[rx_ptr] - Header))
<1> USE DEF ReaderInv
<1> DEFINE len == ring[rx_ptr] - Header
           start == Around(rx_ptr + Header)
           bte == RingLen - start
<1>1. PICK S \in SUBSET Lines : Starts(S, ring, rx_ptr, tx_ptr)
  BY DEF Chained
<1>2. rx_ptr # tx_ptr /\ rx_ptr \in S
  BY <1>1 DEF Found, Starts
<1>3. /\ rx_ptr \in Places /\ rx_ptr % 2 = 0 /\ len \in Nat /\ 2 + len < RingLen
  <2>1. Dist(rx_ptr, rx_ptr) \in Nat /\ rx_ptr \in Lines
    BY Terms
  <2>2. /\ len \in 0..MaxLen /\ ring[rx_ptr] <= Total(ring[rx_ptr]) /\ Total(ring[rx_ptr]) \in Nat
        /\ Dist(rx_ptr, rx_ptr) + Total(ring[rx_ptr]) <= Dist(rx_ptr, tx_ptr)
        /\ Dist(rx_ptr, tx_ptr) < RingLen /\ Dist(rx_ptr, tx_ptr) \in Nat
    BY <1>1, <1>2, Fits, Terms
  <2>3. ring[rx_ptr] \in Nat /\ ring[rx_ptr] = 2 + len
    BY Terms, Sane DEF Header, Line
  <2> QED BY <2>1, <2>2, <2>3, Terms, Sane DEF Lines, Line
<1>4. \A i \in 0..(len - 1) : ring[Ahead(rx_ptr, Header + i)] = i
  BY <1>1, <1>2 DEF Starts
<1>5. Payload(t).bytes =
        IF bte < len
        THEN Bytes(start, Least(t, bte))
               \o (IF t > bte THEN Bytes(0, Least(t - bte, len - bte)) ELSE <<>>)
        ELSE Bytes(start, Least(t, len))
  BY DEF Payload
<1> HIDE DEF len
<1>6. start = (IF rx_ptr + 2 = RingLen THEN 0 ELSE rx_ptr + 2) /\ start \in Nat
      /\ rx_ptr + 2 <= RingLen /\ start < RingLen /\ RingLen \in Nat /\ bte \in Nat
  BY <1>3, Sane DEF Around, Header, Line, Places
<1> HIDE DEF start
<1>7. \A i \in 0..(len - 1) : IF i < bte THEN ring[start + i] = i ELSE ring[i - bte] = i
  <2> SUFFICES ASSUME NEW i \in 0..(len - 1)
               PROVE  IF i < bte THEN ring[start + i] = i ELSE ring[i - bte] = i
    OBVIOUS
  <2>1. 2 + i \in 0..RingLen /\ Header + i = 2 + i
    BY <1>3, <1>6 DEF Header, Line
  <2>2. Ahead(rx_ptr, 2 + i) = IF rx_ptr + (2 + i) < RingLen THEN rx_ptr + (2 + i)
                               ELSE rx_ptr + (2 + i) - RingLen
    BY <1>3, <2>1, AheadIs
  <2>3. Ahead(rx_ptr, 2 + i) = IF i < bte THEN start + i ELSE i - bte
    BY <1>3, <1>6, <2>1, <2>2 DEF Places
  <2> QED BY <1>4, <2>1, <2>3
<1> HIDE DEF bte
<1>8. start \in Nat /\ bte \in Nat /\ 0 \in Nat
  BY <1>6
<1>9. CASE bte < len /\ t > bte
  <2> DEFINE m == Least(t - bte, len - bte)
  <2>1. m \in Nat /\ bte + m = Least(t, len) /\ m <= len - bte /\ Least(t, bte) = bte
    BY <1>3, <1>6, <1>9 DEF Least
  <2> HIDE DEF m
  <2>2. Bytes(start, bte) = From(0, bte)
    <3>1. \A i \in 0..(bte - 1) : ring[start + i] = 0 + i
      <4> SUFFICES ASSUME NEW i \in 0..(bte - 1) PROVE ring[start + i] = 0 + i
        OBVIOUS
      <4>1. i \in 0..(len - 1) /\ i < bte /\ 0 + i = i
        BY <1>3, <1>6, <1>9
      <4> QED BY <1>7, <4>1
    <3> QED BY <1>8, <3>1, BytesAre
  <2>3. Bytes(0, m) = From(bte, m)
    <3>1. \A i \in 0..(m - 1) : ring[0 + i] = bte + i
      <4> SUFFICES ASSUME NEW i \in 0..(m - 1) PROVE ring[0 + i] = bte + i
        OBVIOUS
      <4> DEFINE j == bte + i
      <4>1. j \in 0..(len - 1) /\ ~ (j < bte) /\ j - bte = 0 + i
        BY <1>3, <1>6, <2>1
      <4> HIDE DEF j
      <4>2. ring[j - bte] = j
        BY <1>7, <4>1
      <4> QED BY <4>1, <4>2 DEF j
    <3> QED BY <1>8, <2>1, <3>1, BytesAre
  <2>4. Payload(t).bytes = From(0, bte) \o From(bte, m)
    BY <1>5, <1>9, <2>1, <2>2, <2>3 DEF m
  <2> QED BY <1>3, <1>6, <2>1, <2>4, Joined DEF len
<1>10. CASE bte < len /\ ~ (t > bte)
  <2>1. Least(t, bte) = t /\ Least(t, len) = t
    BY <1>3, <1>6, <1>10 DEF Least
  <2>2. Bytes(start, t) = From(0, t)
    <3>1. \A i \in 0..(t - 1) : ring[start + i] = 0 + i
      <4> SUFFICES ASSUME NEW i \in 0..(t - 1) PROVE ring[start + i] = 0 + i
        OBVIOUS
      <4>1. i \in 0..(len - 1) /\ i < bte /\ 0 + i = i
        BY <1>3, <1>6, <1>10
      <4> QED BY <1>7, <4>1
    <3> QED BY <1>8, <3>1, BytesAre
  <2>3. From(0, t) \in Seq(Int)
    BY DEF From
  <2>4. From(0, t) \o <<>> = From(0, t)
    BY <2>3
  <2> QED BY <1>3, <1>5, <1>10, <2>1, <2>2, <2>4 DEF len
<1>11. CASE ~ (bte < len)
  <2> DEFINE m == Least(t, len)
  <2>1. m \in Nat /\ m <= len
    BY <1>3 DEF Least
  <2>2. Payload(t).bytes = Bytes(start, m)
    BY <1>5, <1>11
  <2> HIDE DEF m
  <2>3. \A i \in 0..(m - 1) : ring[start + i] = 0 + i
    <3> SUFFICES ASSUME NEW i \in 0..(m - 1) PROVE ring[start + i] = 0 + i
      OBVIOUS
    <3>1. i \in 0..(len - 1) /\ i < bte /\ 0 + i = i
      BY <1>3, <1>6, <1>11, <2>1
    <3> QED BY <1>7, <3>1
  <2>4. Bytes(start, m) = From(0, m)
    BY <1>8, <2>1, <2>3, BytesAre
  <2>5. Payload(t).bytes = From(0, m)
    BY <2>2, <2>4
  <2> QED BY <1>3, <2>5 DEF len, m
<1> QED BY <1>9, <1>10, <1>11

LEMMA InvReads == ASSUME ReaderInv PROVE ReadsPayload
<1> SUFFICES ASSUME reading, NEW t \in 0..MaxLen, NEW skip \in 0..MaxLen
             PROVE  LET n == CopyOut(t, skip)[1]
                        upto == Least(t, n)
                    IN  CopyOut(t, skip)[2] =
                          [i \in 1..(IF skip < upto THEN upto - skip ELSE 0) |-> skip + i - 1]
  BY DEF ReadsPayload
<1> DEFINE n == ring[rx_ptr] - Header
           upto == Least(t, n)
<1>1. t \in Nat /\ skip \in Nat
  BY Sane
<1>2. n \in Nat /\ Payload(t).bytes = From(0, upto)
  BY <1>1, PayloadIs
<1>3. CopyOut(t, skip)[1] = n /\ CopyOut(t, skip)[2] = Skipped(Payload(t).bytes, skip)
  BY DEF CopyOut
<1>4. upto \in Nat
  BY <1>1, <1>2 DEF Least
<1> HIDE DEF upto, n
<1>5. CopyOut(t, skip)[2] = From(skip, IF skip < upto THEN upto - skip ELSE 0)
  BY <1>1, <1>2, <1>3, <1>4, SkippedIs
<1> QED BY <1>3, <1>5 DEF From, upto

\* Whatever the lengths of ring, datagrams and buffer, and wherever they wrap: what
\* v4v_copy_out_offset copies is what was sent, while the hypervisor goes on writing
\* (v4v.h:311-520).
THEOREM ReaderCorrect == RingSpec => []ReaderSafe
<1>1. ReaderInv => ReaderSafe
  BY InvReads DEF ReaderInv, ReaderSafe
<1> QED BY <1>1, InitReader, NextReader, PTL DEF RingSpec
-----------------------------------------------------------------------------
(***************************************************************************)
(* The queue of datagrams                                                  *)
(***************************************************************************)
\* w is the walk over the datagrams in bytes that starts at rx, and is at tx after c of them.
Walks(w, c, bytes, rx, tx) ==
  /\ w \in [Nat -> Places] /\ w[0] = rx
  /\ \A k \in Nat : w[k + 1] = Ahead(w[k], Roundup(bytes[w[k]]))
  /\ c \in Nat /\ w[c] = tx /\ \A k \in 0..(c - 1) : w[k] # tx

Walked == Walks(Walk, Count, ring, rx_ptr, tx_ptr)

LEMMA WalkIs ==
  ASSUME RingTypeOK
  PROVE  /\ Walk \in [Nat -> Places] /\ Walk[0] = rx_ptr
         /\ \A k \in Nat : Walk[k + 1] = Ahead(Walk[k], Roundup(ring[Walk[k]]))
<1>1. ASSUME NEW i \in Places PROVE (i + Roundup(ring[i])) % RingLen \in Places
  <2>1. i \in Int /\ ring[i] \in Nat
    BY Terms, Sane DEF Places, Header, Line
  <2>2. i + Roundup(ring[i]) \in Int
    BY <2>1, RoundupIs
  <2> QED BY <2>2, ModIs
<1>2. Following \in [Places -> Places]
      /\ \A i \in Places : Following[i] = Ahead(i, Roundup(ring[i]))
  BY <1>1 DEF Following, Places, Ahead
<1>3. rx_ptr \in Places
  BY Terms
<1> DEFINE w == Walk
           next == Following
<1>4. w = CHOOSE f : Recursive(f, next, rx_ptr)
  BY DEF Walk, Recursive
<1>5. next \in [Places -> Places]
  BY <1>2
<1> HIDE DEF next, w
<1>6. w \in [Nat -> Places] /\ w[0] = rx_ptr /\ \A k \in Nat : w[k + 1] = next[w[k]]
  <2>1. \E f : Recursive(f, next, rx_ptr)
    BY <1>3, <1>5, RecursiveExists
  <2>2. Recursive(w, next, rx_ptr)
    BY <1>4, <2>1
  <2> QED BY <1>3, <1>5, <2>2, RecursiveIs
<1>7. \A k \in Nat : w[k + 1] = Ahead(w[k], Roundup(ring[w[k]]))
  BY <1>2, <1>6 DEF next
<1> QED BY <1>6, <1>7 DEF w

\* A line of header and the payload rounded up is what the length rounded up is.
LEMMA TotalIs == ASSUME NEW n \in Nat PROVE Total(n + 2) = Roundup(n + 2)
<1> DEFINE m == n + 2
<1>1. m \in Nat /\ m - Header = n /\ m % 2 = n % 2
  BY DEF Header, Line
<1>2. Roundup(n) = (IF n % 2 = 0 THEN n ELSE n + 1) /\ Roundup(m) = IF m % 2 = 0 THEN m ELSE m + 1
  BY <1>1, RoundupIs
<1>3. Total(m) = 2 + Roundup(n)
  BY <1>1 DEF Total, Header, Line
<1> QED BY <1>1, <1>2, <1>3

\* Until it comes to tx_ptr, the walk is on the places where datagrams start.
LEMMA WalkOn ==
  ASSUME RingTypeOK, NEW S, Starts(S, ring, rx_ptr, tx_ptr),
         NEW c \in Nat, \A k \in 0..(c - 1) : Walk[k] # tx_ptr
  PROVE  \A k \in 0..c : Walk[k] \in S /\ 2 * k <= Dist(rx_ptr, Walk[k])
<1> DEFINE H == {k \in Nat : k <= c => Walk[k] \in S /\ 2 * k <= Dist(rx_ptr, Walk[k])}
<1>1. 0 \in H
  BY WalkIs, Terms DEF Starts
<1>2. ASSUME NEW k \in Nat, k \in H PROVE k + 1 \in H
  <2> SUFFICES ASSUME k + 1 <= c
               PROVE  Walk[k + 1] \in S /\ 2 * (k + 1) <= Dist(rx_ptr, Walk[k + 1])
    OBVIOUS
  <2> DEFINE s == Walk[k]
             n == Total(ring[s])
  <2>1. s \in S /\ s # tx_ptr /\ 2 * k <= Dist(rx_ptr, s)
    BY <1>2
  <2> HIDE DEF s
  <2>2. /\ s \in Places /\ ring[s] - Header \in 0..MaxLen /\ n \in Nat /\ 2 <= n
        /\ Dist(rx_ptr, s) + n <= Dist(rx_ptr, tx_ptr) /\ Dist(rx_ptr, tx_ptr) < RingLen
    BY <2>1, Fits
  <2>3. Roundup(ring[s]) = n
    <3> DEFINE m == ring[s] - Header
    <3>1. m \in Nat /\ ring[s] = m + 2
      BY <2>2, Terms, Sane DEF Header, Line
    <3> HIDE DEF m
    <3> QED BY <3>1, TotalIs
  <2>4. Walk[k + 1] = Ahead(s, n)
    BY <2>3, WalkIs DEF s
  <2>5. Ahead(s, n) \in S
    BY <2>1 DEF Starts
  <2>6. Dist(rx_ptr, s) \in Nat /\ Dist(rx_ptr, tx_ptr) \in Nat
    BY <2>2, Terms
  <2> HIDE DEF n
  <2>7. Dist(rx_ptr, Ahead(s, n)) = Dist(rx_ptr, s) + n
    <3>1. Dist(rx_ptr, s) + n < RingLen
      BY <2>2, <2>6, Sane
    <3> QED BY <2>2, <3>1, Terms, DistAhead
  <2> QED BY <2>1, <2>2, <2>4, <2>5, <2>6, <2>7
<1> HIDE DEF H
<1>3. Nat \subseteq H
  BY <1>1, <1>2, SetInduction
<1> QED BY <1>3 DEF H

\* It does come there, and Count says when.
LEMMA ReaderWalks == ReaderInv => Walked
<1> SUFFICES ASSUME ReaderInv PROVE Walked
  OBVIOUS
<1>1. RingTypeOK /\ Chained
  BY DEF ReaderInv
<1>2. PICK S : Starts(S, ring, rx_ptr, tx_ptr)
  BY <1>1 DEF Chained
<1>3. Dist(rx_ptr, tx_ptr) < RingLen /\ Dist(rx_ptr, tx_ptr) \in Nat
      /\ \A s \in S : Dist(rx_ptr, s) \in Nat /\ Dist(rx_ptr, s) <= Dist(rx_ptr, tx_ptr)
  BY <1>1, <1>2, Terms DEF Starts
<1>4. ASSUME NEW c \in Nat, \A k \in 0..(c - 1) : Walk[k] # tx_ptr PROVE 2 * c < RingLen
  <2>1. Walk[c] \in S /\ 2 * c <= Dist(rx_ptr, Walk[c])
    BY <1>1, <1>2, <1>4, WalkOn
  <2> QED BY <1>3, <2>1, Sane
<1> DEFINE T == {n \in Nat : Walk[n] = tx_ptr}
<1>5. T # {}
  <2> SUFFICES ASSUME T = {} PROVE FALSE
    OBVIOUS
  <2>1. RingLen \in Nat /\ \A k \in 0..(RingLen - 1) : Walk[k] # tx_ptr
    BY Sane
  <2> QED BY <1>4, <2>1, Sane
<1>6. PICK m \in T : \A n \in T : m <= n
  <2>1. T \subseteq Nat
    OBVIOUS
  <2> HIDE DEF T
  <2> QED BY <1>5, <2>1, LeastOne
<1>7. m \in Nat /\ Walk[m] = tx_ptr
  OBVIOUS
<1>8. \A k \in 0..(m - 1) : Walk[k] # tx_ptr
  <2> SUFFICES ASSUME NEW k \in 0..(m - 1), Walk[k] = tx_ptr PROVE FALSE
    OBVIOUS
  <2>1. k \in T /\ ~ (m <= k)
    BY <1>7
  <2> QED BY <1>6, <2>1
<1>9. m < RingLen /\ m \in 0..RingLen
  BY <1>4, <1>7, <1>8, Sane
<1> DEFINE Good(n) == (Walk[n] = tx_ptr \/ n = RingLen) /\ \A k \in 0..(n - 1) : Walk[k] # tx_ptr
<1>10. Count = CHOOSE n \in 0..RingLen : Good(n)
  BY DEF Count
<1>11. Count \in 0..RingLen /\ Good(Count)
  <2>1. \E n \in 0..RingLen : Good(n)
    BY <1>7, <1>8, <1>9
  <2> HIDE DEF Good
  <2> QED BY <1>10, <2>1
<1>12. Walk[Count] = tx_ptr
  <2> SUFFICES ASSUME Count = RingLen PROVE FALSE
    BY <1>11
  <2>1. m \in 0..(Count - 1)
    BY <1>7, <1>9, Sane
  <2> QED BY <1>7, <1>11, <2>1
<1>13. Count \in Nat /\ \A k \in 0..(Count - 1) : Walk[k] # tx_ptr
  BY <1>11, Sane
<1> QED BY <1>1, <1>12, <1>13, WalkIs DEF Walked, Walks

Alike(w, c, bytes, bytes2) == \A k \in 0..(c - 1) : bytes2[w[k]] = bytes[w[k]]
Misses(w, c, x) == \A k \in 0..c : w[k] # x

\* Two walks from one place go together as long as the datagrams are the same.
LEMMA SameWalk ==
  ASSUME NEW w, NEW c, NEW bytes, NEW rx, NEW tx, Walks(w, c, bytes, rx, tx),
         NEW w2, NEW c2, NEW bytes2, NEW tx2, Walks(w2, c2, bytes2, rx, tx2),
         Alike(w, c, bytes, bytes2)
  PROVE  \A k \in 0..c : w2[k] = w[k]
<1> DEFINE H == {k \in Nat : k <= c => w2[k] = w[k]}
<1>1. 0 \in H
  BY DEF Walks
<1>2. ASSUME NEW k \in Nat, k \in H PROVE k + 1 \in H
  <2>1. CASE k + 1 <= c
    <3>1. k \in 0..(c - 1) /\ w2[k] = w[k]
      BY <1>2, <2>1 DEF Walks
    <3>2. w2[k + 1] = Ahead(w2[k], Roundup(bytes2[w2[k]]))
          /\ w[k + 1] = Ahead(w[k], Roundup(bytes[w[k]]))
      BY DEF Walks
    <3> QED BY <3>1, <3>2 DEF Alike
  <2> QED BY <2>1
<1> HIDE DEF H
<1>3. Nat \subseteq H
  BY <1>1, <1>2, SetInduction
<1>4. c \in Nat
  BY DEF Walks
<1> QED BY <1>3, <1>4 DEF H

\* How long a walk is: it ends when it comes to tx for the first time.
LEMMA WalkEnds ==
  ASSUME NEW w, NEW c, NEW bytes, NEW rx, NEW tx, Walks(w, c, bytes, rx, tx),
         NEW n \in Nat, w[n] = tx, \A k \in 0..(n - 1) : w[k] # tx
  PROVE  c = n
<1>1. c \in Nat /\ w[c] = tx /\ \A k \in 0..(c - 1) : w[k] # tx
  BY DEF Walks
<1>2. ~ (c \in 0..(n - 1)) /\ ~ (n \in 0..(c - 1))
  BY <1>1
<1> QED BY <1>1, <1>2

LEMMA Longer ==
  ASSUME NEW w, NEW c, NEW bytes, NEW rx, NEW tx, Walks(w, c, bytes, rx, tx),
         NEW w2, NEW c2, NEW bytes2, NEW tx2, Walks(w2, c2, bytes2, rx, tx2),
         Alike(w, c, bytes, bytes2), Misses(w, c, tx2), tx2 = Ahead(tx, Roundup(bytes2[tx]))
  PROVE  c2 = c + 1 /\ \A k \in 0..c : w2[k] = w[k]
<1>1. \A k \in 0..c : w2[k] = w[k]
  BY SameWalk
<1>2. c \in Nat /\ w[c] = tx
  BY DEF Walks
<1>3. w2[c] = tx
  BY <1>1, <1>2
<1>4. w2[c + 1] = tx2
  BY <1>2, <1>3 DEF Walks
<1>5. \A k \in 0..((c + 1) - 1) : w2[k] # tx2
  BY <1>1, <1>2 DEF Misses
<1>6. c + 1 \in Nat
  BY <1>2
<1> QED BY <1>1, <1>4, <1>5, <1>6, WalkEnds

LEMMA Shorter ==
  ASSUME NEW w, NEW c, NEW bytes, NEW rx, NEW tx, Walks(w, c, bytes, rx, tx), rx # tx,
         NEW w2, NEW c2, Walks(w2, c2, bytes, w[1], tx)
  PROVE  c \in Nat \ {0} /\ c2 = c - 1 /\ \A k \in 0..(c - 1) : w2[k] = w[k + 1]
<1> DEFINE H == {k \in Nat : w2[k] = w[k + 1]}
<1>1. 0 \in H
  BY DEF Walks
<1>2. ASSUME NEW k \in Nat, k \in H PROVE k + 1 \in H
  <2>1. w2[k] = w[k + 1]
    BY <1>2
  <2>2. k + 1 \in Nat /\ w2[k + 1] = Ahead(w2[k], Roundup(bytes[w2[k]]))
        /\ w[(k + 1) + 1] = Ahead(w[k + 1], Roundup(bytes[w[k + 1]]))
    BY DEF Walks
  <2> QED BY <2>1, <2>2
<1> HIDE DEF H
<1>3. Nat \subseteq H
  BY <1>1, <1>2, SetInduction
<1>4. \A k \in Nat : w2[k] = w[k + 1]
  BY <1>3 DEF H
<1>5. c \in Nat \ {0} /\ w[c] = tx /\ \A k \in 0..(c - 1) : w[k] # tx
  BY DEF Walks
<1>6. c - 1 \in Nat /\ w2[c - 1] = tx
  <2>1. c - 1 \in Nat /\ (c - 1) + 1 = c
    BY <1>5
  <2> QED BY <1>4, <1>5, <2>1
<1>7. ASSUME NEW k \in 0..((c - 1) - 1) PROVE w2[k] # tx
  <2>1. k \in Nat /\ k + 1 \in 0..(c - 1)
    BY <1>5
  <2> QED BY <1>4, <1>5, <2>1
<1>8. c2 = c - 1
  BY <1>6, <1>7, WalkEnds
<1> QED BY <1>4, <1>5, <1>8

LEMMA AppendIs ==
  ASSUME NEW q \in Seq(Int), NEW r \in Seq(Int), NEW d \in Int, Len(r) = Len(q) + 1,
         \A k \in 1..Len(q) : r[k] = q[k], r[Len(q) + 1] = d
  PROVE  r = Append(q, d)
<1> DEFINE a == Append(q, d)
<1>1. a \in Seq(Int) /\ Len(a) = Len(q) + 1 /\ a[Len(q) + 1] = d
      /\ \A k \in 1..Len(q) : a[k] = q[k]
  BY AppendProperties
<1> HIDE DEF a
<1>2. Len(q) \in Nat
  BY LenProperties
<1>3. \A k \in 1..(Len(q) + 1) : r[k] = a[k]
  <2> SUFFICES ASSUME NEW k \in 1..(Len(q) + 1) PROVE r[k] = a[k]
    OBVIOUS
  <2>1. k \in 1..Len(q) \/ k = Len(q) + 1
    BY <1>2
  <2> QED BY <1>1, <2>1
<1>4. r = a
  BY <1>1, <1>3, SeqEqual
<1> QED BY <1>4 DEF a

LEMMA TailIs ==
  ASSUME NEW q \in Seq(Int), NEW r \in Seq(Int), q # <<>>, Len(r) = Len(q) - 1,
         \A k \in 1..Len(r) : r[k] = q[k + 1]
  PROVE  r = Tail(q)
<1>1. Tail(q) \in Seq(Int) /\ Len(Tail(q)) = Len(q) - 1
      /\ \A k \in 1..Len(Tail(q)) : Tail(q)[k] = q[k + 1]
  BY HeadTailProperties
<1> QED BY <1>1, SeqEqual

Lengths(w, c, bytes) == [k \in 1..c |-> bytes[w[k - 1]] - Header]

LEMMA LengthsIs ==
  ASSUME NEW w, NEW c, NEW bytes, NEW rx, NEW tx, Walks(w, c, bytes, rx, tx),
         bytes \in [Places -> 0..(MaxLen + Header)]
  PROVE  /\ c \in Nat /\ Lengths(w, c, bytes) \in Seq(Int) /\ Len(Lengths(w, c, bytes)) = c
         /\ \A k \in 1..c : Lengths(w, c, bytes)[k] = bytes[w[k - 1]] - Header
<1>1. c \in Nat
  BY DEF Walks
<1>2. ASSUME NEW k \in 1..c PROVE bytes[w[k - 1]] - Header \in Int
  <2>1. k - 1 \in Nat
    BY <1>1
  <2>2. w[k - 1] \in Places
    BY <2>1 DEF Walks
  <2> QED BY <2>2, Sane DEF Header, Line
<1>3. Lengths(w, c, bytes) = [k \in 1..c |-> bytes[w[k - 1]] - Header]
  BY DEF Lengths
<1> QED BY <1>1, <1>2, <1>3

\* A datagram sent is the last of the queue.
LEMMA SendAppends ==
  ASSUME ReaderInv, Walked, Walked', NEW len \in 0..MaxLen, Send(len)
  PROVE  Queued' = Append(Queued, len)
<1>1. RingTypeOK /\ Chained
  BY DEF ReaderInv
<1>2. PICK S \in SUBSET Lines : Starts(S, ring, rx_ptr, tx_ptr)
  BY <1>1 DEF Chained
<1>3. /\ ReaderInv' /\ rx_ptr' = rx_ptr /\ tx_ptr' \notin S
      /\ tx_ptr' = Ahead(tx_ptr, Total(Header + len)) /\ ring'[tx_ptr] = Header + len
      /\ \A s \in S : s # tx_ptr => ring'[s] = ring[s]
  BY <1>2, SendDoes
<1> DEFINE w == Walk
           c == Count
           w2 == Walk'
           c2 == Count'
           bytes == ring
           bytes2 == ring'
           tx2 == tx_ptr'
           q == Queued
           q2 == Queued'
<1>4. Walks(w, c, bytes, rx_ptr, tx_ptr) /\ Walks(w2, c2, bytes2, rx_ptr, tx2)
  BY <1>3 DEF Walked
<1>5. bytes \in [Places -> 0..(MaxLen + Header)] /\ bytes2 \in [Places -> 0..(MaxLen + Header)]
  BY <1>1, <1>3 DEF ReaderInv, RingTypeOK, Places
<1>6. q = Lengths(w, c, bytes) /\ q2 = Lengths(w2, c2, bytes2)
  BY DEF Queued, Lengths
<1>7. c \in Nat /\ \A k \in 0..(c - 1) : w[k] # tx_ptr
  BY <1>4 DEF Walks
<1>8. \A k \in 0..c : w[k] \in S
  BY <1>1, <1>2, <1>7, WalkOn
<1>9. bytes2[tx_ptr] = Header + len /\ tx2 = Ahead(tx_ptr, Total(Header + len)) /\ tx2 \notin S
      /\ \A s \in S : s # tx_ptr => bytes2[s] = bytes[s]
  BY <1>3
<1> HIDE DEF w, c, w2, c2, bytes, bytes2, tx2, q, q2
<1>10. \A k \in 0..(c - 1) : bytes2[w[k]] = bytes[w[k]]
  BY <1>7, <1>8, <1>9
<1>11. tx2 = Ahead(tx_ptr, Roundup(bytes2[tx_ptr]))
  <2>1. len \in Nat /\ Header + len = len + 2
    BY Sane DEF Header, Line
  <2>2. Total(len + 2) = Roundup(len + 2)
    BY <2>1, TotalIs
  <2> QED BY <1>9, <2>1, <2>2
<1>12. \A k \in 0..c : w[k] # tx2
  BY <1>8, <1>9
<1>13. c2 = c + 1 /\ \A k \in 0..c : w2[k] = w[k]
  <2>1. Alike(w, c, bytes, bytes2) /\ Misses(w, c, tx2)
    BY <1>10, <1>12 DEF Alike, Misses
  <2> QED BY <1>4, <1>11, <2>1, Longer
<1>14. /\ q \in Seq(Int) /\ Len(q) = c /\ \A k \in 1..c : q[k] = bytes[w[k - 1]] - Header
       /\ q2 \in Seq(Int) /\ Len(q2) = c2 /\ \A k \in 1..c2 : q2[k] = bytes2[w2[k - 1]] - Header
  <2> DEFINE l == Lengths(w, c, bytes)
             l2 == Lengths(w2, c2, bytes2)
  <2>1. l \in Seq(Int) /\ Len(l) = c /\ \A k \in 1..c : l[k] = bytes[w[k - 1]] - Header
    BY <1>4, <1>5, LengthsIs
  <2>2. l2 \in Seq(Int) /\ Len(l2) = c2 /\ \A k \in 1..c2 : l2[k] = bytes2[w2[k - 1]] - Header
    BY <1>4, <1>5, LengthsIs
  <2>3. q = l /\ q2 = l2
    BY <1>6
  <2> HIDE DEF l, l2
  <2> QED BY <2>1, <2>2, <2>3
<1>15. \A k \in 1..Len(q) : q2[k] = q[k]
  <2> SUFFICES ASSUME NEW k \in 1..Len(q) PROVE q2[k] = q[k]
    OBVIOUS
  <2>1. k \in 1..c /\ k \in 1..c2 /\ k - 1 \in 0..c /\ k - 1 \in 0..(c - 1)
    BY <1>7, <1>13, <1>14
  <2>2. q2[k] = bytes2[w2[k - 1]] - Header /\ q[k] = bytes[w[k - 1]] - Header
    BY <1>14, <2>1
  <2>3. w2[k - 1] = w[k - 1]
    BY <1>13, <2>1
  <2>4. bytes2[w[k - 1]] = bytes[w[k - 1]]
    BY <1>10, <2>1
  <2> QED BY <2>2, <2>3, <2>4
<1>16. q2[Len(q) + 1] = len
  <2>1. c + 1 \in 1..c2 /\ (c + 1) - 1 = c /\ c \in 0..c
    BY <1>7, <1>13
  <2>2. w[c] = tx_ptr
    BY <1>4 DEF Walks
  <2>3. q2[c + 1] = bytes2[tx_ptr] - Header
    BY <1>13, <1>14, <2>1, <2>2
  <2>4. bytes2[tx_ptr] = Header + len
    BY <1>9
  <2>5. q2[c + 1] = len
    BY <2>3, <2>4, Sane DEF Header, Line
  <2>6. Len(q) = c
    BY <1>14
  <2> QED BY <2>5, <2>6
<1>17. q2 = Append(q, len)
  <2>1. Len(q2) = Len(q) + 1 /\ len \in Int
    BY <1>13, <1>14, Sane
  <2> QED BY <1>14, <1>15, <1>16, <2>1, AppendIs
<1> QED BY <1>17 DEF q, q2

\* A datagram consumed was the first of the queue.
LEMMA ConsumeTakes ==
  ASSUME ReaderInv, Walked, Walked', NEW t \in 0..MaxLen, Copy(t, TRUE)
  PROVE  Queued # <<>> /\ Queued' = Tail(Queued)
<1>1. RingTypeOK /\ Chained /\ rx_ptr # tx_ptr /\ t \in Nat
  BY Sane DEF ReaderInv, Copy, Found
<1>2. PICK S : Starts(S, ring, rx_ptr, tx_ptr)
  BY <1>1 DEF Chained
<1>3. UNCHANGED <<ring, tx_ptr>> /\ rx_ptr' = Ahead(rx_ptr, Total(ring[rx_ptr]))
  BY <1>1, <1>2, EndIs DEF Copy
<1> DEFINE w == Walk
           c == Count
           w2 == Walk'
           c2 == Count'
           rx2 == rx_ptr'
           q == Queued
           q2 == Queued'
<1>4. Walks(w, c, ring, rx_ptr, tx_ptr) /\ Walks(w2, c2, ring, rx2, tx_ptr)
  BY <1>3 DEF Walked
<1>5. q = Lengths(w, c, ring) /\ q2 = Lengths(w2, c2, ring)
  BY <1>3 DEF Queued, Lengths
<1>6. ring \in [Places -> 0..(MaxLen + Header)]
  BY <1>1, Terms
<1>7. rx2 = Ahead(rx_ptr, Roundup(ring[rx_ptr]))
  <2> DEFINE m == ring[rx_ptr] - Header
  <2>1. m \in Nat /\ ring[rx_ptr] = m + 2
    <3>1. rx_ptr \in S /\ rx_ptr \in Places
      BY <1>1, <1>2, Terms DEF Starts
    <3> QED BY <1>1, <1>2, <1>6, <3>1, Fits, Sane DEF Header, Line
  <2> HIDE DEF m
  <2>2. Total(ring[rx_ptr]) = Roundup(ring[rx_ptr])
    BY <2>1, TotalIs
  <2> QED BY <1>3, <2>2
<1> HIDE DEF w, c, w2, c2, rx2, q, q2
<1>8. rx2 = w[1]
  <2>1. w[0] = rx_ptr /\ w[0 + 1] = Ahead(w[0], Roundup(ring[w[0]]))
    BY <1>4 DEF Walks
  <2> QED BY <1>7, <2>1
<1>9. c \in Nat \ {0} /\ c2 = c - 1 /\ \A k \in 0..(c - 1) : w2[k] = w[k + 1]
  <2>1. Walks(w2, c2, ring, w[1], tx_ptr)
    BY <1>4, <1>8
  <2> QED BY <1>1, <1>4, <2>1, Shorter
<1>10. /\ q \in Seq(Int) /\ Len(q) = c /\ \A k \in 1..c : q[k] = ring[w[k - 1]] - Header
       /\ q2 \in Seq(Int) /\ Len(q2) = c2 /\ \A k \in 1..c2 : q2[k] = ring[w2[k - 1]] - Header
  <2> DEFINE l == Lengths(w, c, ring)
             l2 == Lengths(w2, c2, ring)
  <2>1. l \in Seq(Int) /\ Len(l) = c /\ \A k \in 1..c : l[k] = ring[w[k - 1]] - Header
    BY <1>4, <1>6, LengthsIs
  <2>2. l2 \in Seq(Int) /\ Len(l2) = c2 /\ \A k \in 1..c2 : l2[k] = ring[w2[k - 1]] - Header
    BY <1>4, <1>6, LengthsIs
  <2>3. q = l /\ q2 = l2
    BY <1>5
  <2> HIDE DEF l, l2
  <2> QED BY <2>1, <2>2, <2>3
<1>11. q # <<>>
  BY <1>9, <1>10
<1>12. \A k \in 1..Len(q2) : q2[k] = q[k + 1]
  <2> SUFFICES ASSUME NEW k \in 1..Len(q2) PROVE q2[k] = q[k + 1]
    OBVIOUS
  <2>1. k \in 1..c2 /\ k - 1 \in 0..(c - 1) /\ (k - 1) + 1 = k /\ k + 1 \in 1..c /\ (k + 1) - 1 = k
    BY <1>9, <1>10
  <2>2. q2[k] = ring[w2[k - 1]] - Header
    BY <1>10, <2>1
  <2>3. q[k + 1] = ring[w[(k + 1) - 1]] - Header
    BY <1>10, <2>1
  <2>4. w2[k - 1] = w[(k - 1) + 1]
    BY <1>9, <2>1
  <2> QED BY <2>1, <2>2, <2>3, <2>4
<1>13. q2 = Tail(q)
  BY <1>9, <1>10, <1>11, <1>12, TailIs
<1> QED BY <1>11, <1>13 DEF q, q2

\* Otherwise the queue stays as it is.
LEMMA QueueStays ==
  ASSUME UNCHANGED <<ring, rx_ptr, tx_ptr>>
  PROVE  Queued' = Queued
<1>1. Following' = Following
  BY DEF Following
<1>2. Walk' = Walk
  BY <1>1 DEF Walk
<1>3. Count' = Count
  BY <1>2 DEF Count
<1> QED BY <1>2, <1>3 DEF Queued

LEMMA NextQueue ==
  ASSUME ReaderInv, Walked, Walked', [RingNext]_ringVars
  PROVE  [Queue!Next]_Queued
<1>1. ASSUME NEW len \in 0..MaxLen, Send(len) PROVE Queue!Send
  BY <1>1, SendAppends DEF Queue!Send
<1>2. ASSUME Look \/ UNCHANGED ringVars PROVE UNCHANGED Queued
  BY <1>2, QueueStays DEF Look, ringVars
<1>3. ASSUME NEW t \in 0..MaxLen, NEW consume \in BOOLEAN, Copy(t, consume)
      PROVE  [Queue!Next]_Queued
  <2>1. CASE consume
    <3>1. Copy(t, TRUE)
      BY <1>3, <2>1
    <3> QED BY <3>1, ConsumeTakes DEF Queue!Next, Queue!Consume
  <2>2. CASE ~ consume
    <3>1. UNCHANGED <<ring, rx_ptr, tx_ptr>>
      BY <1>3, <2>2 DEF Copy
    <3> QED BY <3>1, QueueStays
  <2> QED BY <2>1, <2>2
<1> QED BY <1>1, <1>2, <1>3 DEF RingNext, Queue!Next

LEMMA InitQueue == ASSUME RingInit, Walked PROVE Queue!Init
<1>1. rx_ptr = tx_ptr
  BY DEF RingInit
<1> DEFINE w == Walk
           c == Count
<1>2. w[0] = tx_ptr /\ c \in Nat /\ \A k \in 0..(c - 1) : w[k] # tx_ptr
  BY <1>1 DEF Walked, Walks
<1> HIDE DEF w, c
<1>3. c = 0
  BY <1>2
<1>4. Queued = <<>>
  BY <1>3 DEF Queued, c
<1> QED BY <1>4 DEF Queue!Init

\* The reader of a ring of any length gets the datagrams one by one and in the order in
\* which they were sent, each until it is consumed, wherever they wrap (v4v.h:295-520).
THEOREM ReaderImplementsQueue == RingSpec => ImplementsQueue
<1>1. RingInit => Queue!Init
  BY InitReader, InitQueue, ReaderWalks
<1>2. ReaderInv /\ Walked /\ Walked' /\ [RingNext]_ringVars => [Queue!Next]_Queued
  BY NextQueue
<1>3. RingSpec => []ReaderInv
  BY InitReader, NextReader, PTL DEF RingSpec
<1>4. [](ReaderInv => Walked)
  BY ReaderWalks, PTL
<1> QED BY <1>1, <1>2, <1>3, <1>4, PTL DEF RingSpec, ImplementsQueue, Queue!Spec
-----------------------------------------------------------------------------
(***************************************************************************)
(* The clients: what an open of the kernel client has got so far           *)
(***************************************************************************)
recvHandle == pV4v.recvEventHandle

\* The handles of the client but for those that closes have left open.
HeldNow == Mine \ leaked

\* What a close has left open is still the client's, and is no file of a closed channel.
LeakedHeld ==
  /\ leaked \subseteq Mine
  /\ pV4v.state = "V4vClosed" => pV4v.v4vHandle \notin leaked

\* What an open that has got so far holds.
BothHeld == call.hd \in Handles /\ recvHandle \in Handles /\ call.hd # recvHandle
            /\ HeldNow = {call.hd, recvHandle}

\* Which calls are in which step, and whether the channel is open then.
CallsInStep ==
  /\ call.pc \in {"create", "init", "bind", "connect"} =>
       ~opened /\ call.success /\ call.of \in {"dgram", "device"}
  /\ call.pc = "connect" => call.of = "device"
  /\ call.pc = "pended" => call.success /\ call.mishaps # {}
  /\ call.pc \in {"pended", "finish"} =>
       /\ call.of # "none"
       /\ opened <=> call.of \in {"disconnect", "transfer"}

\* The handles that the client holds in each step.
HandlesInStep ==
  /\ call.pc \in {"idle", "pended", "finish"} /\ opened =>
       /\ recvHandle \in Handles /\ pV4v.v4vHandle \in Handles
       /\ recvHandle # pV4v.v4vHandle /\ HeldNow = {recvHandle, pV4v.v4vHandle}
  /\ call.pc = "idle" /\ ~opened => HeldNow = {}
  /\ call.pc = "create" => HeldNow = {} /\ call.hd = None
  /\ call.pc = "init" => call.hd \in Handles /\ HeldNow = {call.hd}
  /\ call.pc \in {"bind", "connect"} => BothHeld
  /\ call.pc \in {"pended", "finish"} /\ ~opened /\ call.success => BothHeld
  /\ call.pc = "finish" /\ ~opened =>
       HeldNow \subseteq {call.hd, recvHandle} /\ (call.hd # None => call.hd \in HeldNow)

\* What the structure of an open has where the receive event belongs: with a structure that
\* is zeroed and an event that is referenced, nothing or an event of the client.
StructureInStep ==
  zeroes =>
    /\ call.pc \in {"create", "init"} => recvHandle = None
    /\ call.pc = "finish" /\ ~opened /\ "no reference" \notin call.mishaps =>
         recvHandle = None \/ recvHandle \in HeldNow

\* How far the driver is in each step of an open, unless a mishap has been passed over.
ChannelInStep ==
  /\ call.pc \in {"create", "init"} \/ (call.pc = "idle" /\ ~opened) => requests = {}
  /\ call.pc \in {"bind", "connect", "finish"} /\ ~opened /\ call.mishaps = {} =>
       \A r \in requests : r.op \in {"initialize", "bind"}
  /\ call.pc = "connect" /\ call.mishaps = {} => channel = "bound"
  /\ call.pc = "finish" /\ ~opened /\ call.success /\ call.mishaps = {} =>
       channel = IF call.of = "device" THEN "connected" ELSE "bound"

KernelInv ==
  /\ TypeOK /\ EventOutlivesRequest /\ LeakedHeld
  /\ CallsInStep /\ HandlesInStep /\ StructureInStep /\ ChannelInStep

LEMMA InitSafe == ASSUME None \notin Handles, Init PROVE KernelInv
<1>1. TypeOK
  BY DEF Init, TypeOK, Channels
<1> QED BY <1>1 DEF Init, KernelInv, EventOutlivesRequest, LeakedHeld, CallsInStep, HandlesInStep,
                    StructureInStep, ChannelInStep, HeldNow, Mine

\* What the driver makes of a request leaves the types, and every event of a call that waits.
LEMMA RequestKept ==
  ASSUME TypeOK, EventOutlivesRequest, NEW op \in Requests, NEW event \in {"live", "closed"},
         op \in {"connect", "disconnect", "transfer"} => event = "live",
         Done(op) \/ Refused \/ Pending(op, event)
  PROVE  /\ channel' \in Channels
         /\ requests' \subseteq [op : Requests, event : {"live", "closed"}]
         /\ EventOutlivesRequest'
<1>1. CASE Done(op)
  <2>1. To[op] \in Channels
    BY DEF Requests, To, Channels
  <2> QED BY <1>1, <2>1 DEF Done, TypeOK, EventOutlivesRequest
<1>2. CASE Refused
  BY <1>2 DEF Refused, TypeOK, EventOutlivesRequest
<1>3. CASE Pending(op, event)
  <2>1. requests' = requests \cup {[op |-> op, event |-> event]} /\ channel' = channel
    BY <1>3 DEF Pending
  <2>2. [op |-> op, event |-> event] \in [op : Requests, event : {"live", "closed"}]
    OBVIOUS
  <2>3. /\ channel' \in Channels
        /\ requests' \subseteq [op : Requests, event : {"live", "closed"}]
    BY <2>1, <2>2 DEF TypeOK
  <2>4. EventOutlivesRequest'
    BY <2>1 DEF EventOutlivesRequest
  <2> QED BY <2>3, <2>4
<1> QED BY <1>1, <1>2, <1>3

\* Fewer requests are as well typed, and their events as live.
LEMMA FewerRequests ==
  ASSUME TypeOK, EventOutlivesRequest, requests' \subseteq requests
  PROVE  /\ requests' \subseteq [op : Requests, event : {"live", "closed"}]
         /\ EventOutlivesRequest'
<1>1. requests \subseteq [op : Requests, event : {"live", "closed"}]
  BY DEF TypeOK
<1>2. requests' \subseteq [op : Requests, event : {"live", "closed"}]
  BY <1>1
<1>3. EventOutlivesRequest'
  BY DEF EventOutlivesRequest
<1> QED BY <1>2, <1>3

\* What the driver does on its own leaves the types of the rest.
LEMMA DriverTyped ==
  ASSUME TypeOK, UNCHANGED <<table, pV4v, call, opened, zeroes, leaked>>, channel' \in Channels,
         requests' \subseteq [op : Requests, event : {"live", "closed"}]
  PROVE  TypeOK'
<1>1. table' \in [Handles -> {"free", "mine", "foreign"}]
  BY DEF TypeOK
<1>2. pV4v' \in [state : {"V4vUnset", "V4vOpen", "V4vConnected", "V4vDisconnected", "V4vClosed",
                         "V4vError"},
                recvEventHandle : Handles \cup {None}, v4vHandle : Handles \cup {None}]
  BY DEF TypeOK
<1>3. call' \in [pc : {"idle", "create", "init", "bind", "connect", "pended", "finish",
                      "bugcheck"},
                of : {"none", "dgram", "device", "disconnect", "transfer"},
                hd : Handles \cup {None}, success : BOOLEAN,
                mishaps : SUBSET {"no reference", "no IRP", "pended"}]
  BY DEF TypeOK
<1>4. opened' \in BOOLEAN /\ zeroes' \in BOOLEAN /\ leaked' \subseteq Handles
  BY DEF TypeOK
<1> QED BY <1>1, <1>2, <1>3, <1>4 DEF TypeOK

\* What closes have left open is disturbed by no step that closes nothing of the client's.
LEMMA LeakedKept ==
  ASSUME LeakedHeld, UNCHANGED leaked, Mine \subseteq Mine',
         UNCHANGED pV4v \/ (pV4v'.state # "V4vClosed")
  PROVE  LeakedHeld'
BY DEF LeakedHeld

LEMMA LeakedStays ==
  ASSUME LeakedHeld, UNCHANGED <<table, leaked>>,
         UNCHANGED pV4v \/ pV4v'.state # "V4vClosed"
  PROVE  LeakedHeld' /\ HeldNow' = HeldNow
<1>1. Mine' = Mine
  BY DEF Mine
<1> QED BY <1>1, LeakedKept DEF HeldNow

LEMMA OpenSafe ==
  ASSUME None \notin Handles, KernelInv, NEW of \in {"dgram", "device"}, Open(of)
  PROVE  KernelInv'
<1>1. TypeOK' /\ EventOutlivesRequest'
  BY DEF Open, KernelInv, TypeOK, EventOutlivesRequest
<1>2. CallsInStep'
  BY DEF Open, KernelInv, CallsInStep
<1>3. HandlesInStep'
  BY DEF Open, KernelInv, HandlesInStep, HeldNow, Mine
<1>4. StructureInStep'
  BY DEF Open, KernelInv, StructureInStep, recvHandle
<1>5. ChannelInStep'
  BY DEF Open, KernelInv, ChannelInStep
<1>6. LeakedHeld'
  BY LeakedStays DEF Open, KernelInv
<1> QED BY <1>1, <1>2, <1>3, <1>4, <1>5, <1>6 DEF KernelInv

\* A handle that the client makes is one of its own from then on.
LEMMA HandleOpened ==
  ASSUME TypeOK, LeakedHeld, NEW h \in Unused, table' = Opened(table, h), UNCHANGED leaked
  PROVE  /\ HeldNow' = HeldNow \cup {h} /\ Mine \subseteq Mine' /\ h \notin HeldNow
         /\ table' \in [Handles -> {"free", "mine", "foreign"}]
<1>1. h \in Handles /\ h \notin Mine
  BY DEF Unused, Mine
<1>2. \A g \in Handles : table'[g] = IF g = h THEN "mine" ELSE table[g]
  BY <1>1 DEF TypeOK, Opened
<1>3. table' \in [Handles -> {"free", "mine", "foreign"}]
  BY <1>1 DEF TypeOK, Opened
<1>4. Mine' = Mine \cup {h}
  BY <1>1, <1>2, Z3 DEF Mine
<1> QED BY <1>1, <1>3, <1>4 DEF HeldNow, LeakedHeld

LEMMA CreateSafe == ASSUME None \notin Handles, KernelInv, CreateFile PROVE KernelInv'
<1>1. CASE \E h \in Unused :
             /\ table' = Opened(table, h)
             /\ \E pc \in {"init", "bugcheck"} : call' = [Proceed(pc) EXCEPT !.hd = h]
             /\ channel' = "new"
  <2>1. PICK h \in Unused, pc \in {"init", "bugcheck"} :
          /\ table' = Opened(table, h)
          /\ call' = [call EXCEPT !.pc = pc, !.hd = h]
          /\ channel' = "new"
    BY <1>1 DEF Proceed
  <2>2. UNCHANGED <<pV4v, requests, opened, zeroes, leaked>> /\ call.pc = "create"
    BY DEF CreateFile
  <2>3. TypeOK' /\ EventOutlivesRequest'
    BY <2>1, <2>2 DEF KernelInv, TypeOK, Channels, EventOutlivesRequest, Unused, Opened
  <2>4. HeldNow' = HeldNow \cup {h} /\ LeakedHeld'
    BY <2>1, <2>2, HandleOpened, LeakedKept DEF KernelInv
  <2>5. call'.pc = pc /\ call'.hd = h /\ call'.of = call.of /\ call'.success = call.success
        /\ call'.mishaps = call.mishaps
    BY <2>1 DEF KernelInv, TypeOK
  <2>6. CallsInStep' /\ HandlesInStep'
    BY <2>1, <2>2, <2>4, <2>5 DEF KernelInv, CallsInStep, HandlesInStep, Unused
  <2>7. StructureInStep' /\ ChannelInStep'
    BY <2>1, <2>2, <2>5 DEF KernelInv, StructureInStep, ChannelInStep, recvHandle
  <2> QED BY <2>3, <2>4, <2>6, <2>7 DEF KernelInv
<1>2. CASE call' = Fail /\ UNCHANGED <<table, channel>>
  <2>1. UNCHANGED <<table, channel, pV4v, requests, opened, zeroes, leaked>> /\ call.pc = "create"
    BY <1>2 DEF CreateFile
  <2>2. call' = [call EXCEPT !.pc = "finish", !.success = FALSE]
    BY <1>2 DEF Fail
  <2>3. TypeOK' /\ EventOutlivesRequest'
    BY <2>1, <2>2 DEF KernelInv, TypeOK, EventOutlivesRequest
  <2>4. call'.pc = "finish" /\ ~call'.success /\ call'.of = call.of /\ call'.hd = call.hd
        /\ call'.mishaps = call.mishaps
    BY <2>2 DEF KernelInv, TypeOK
  <2>5. HeldNow' = HeldNow /\ LeakedHeld'
    BY <2>1, LeakedStays DEF KernelInv
  <2>6. CallsInStep' /\ HandlesInStep'
    BY <2>1, <2>4, <2>5 DEF KernelInv, CallsInStep, HandlesInStep
  <2>7. StructureInStep' /\ ChannelInStep'
    BY <2>1, <2>4, <2>5 DEF KernelInv, StructureInStep, ChannelInStep, recvHandle
  <2> QED BY <2>3, <2>5, <2>6, <2>7 DEF KernelInv
<1> QED BY <1>1, <1>2 DEF CreateFile
\* A handle that is closed is nobody's.
LEMMA MineClosed ==
  ASSUME NEW t \in [Handles -> {"free", "mine", "foreign"}], NEW h \in Handles \cup {None},
         None \notin Handles
  PROVE  /\ ZwClose(t, h) \in [Handles -> {"free", "mine", "foreign"}]
         /\ \A g \in Handles : ZwClose(t, h)[g] = IF g = h THEN "free" ELSE t[g]
BY DEF ZwClose

LEMMA InitDevSafe == ASSUME None \notin Handles, KernelInv, XenV4VInitDev PROVE KernelInv'
<1> SUFFICES ASSUME call.pc = "init" PROVE KernelInv'
  BY DEF XenV4VInitDev
<1>1. /\ UNCHANGED <<opened, zeroes, leaked>> /\ ~opened /\ call.success
      /\ call.of \in {"dgram", "device"}
      /\ call.hd \in Handles /\ HeldNow = {call.hd} /\ requests = {}
      /\ zeroes => recvHandle = None
  BY DEF XenV4VInitDev, KernelInv, CallsInStep, HandlesInStep, StructureInStep, ChannelInStep
<1>2. CASE call' = Fail /\ UNCHANGED <<table, pV4v, channel, requests>>
  <2>1. /\ call' \in [pc : {"finish"}, of : {call.of}, hd : {call.hd}, success : {FALSE},
                      mishaps : {call.mishaps}]
    BY <1>2 DEF Fail, KernelInv, TypeOK
  <2>2. TypeOK' /\ EventOutlivesRequest'
    BY <1>1, <1>2, <2>1 DEF KernelInv, TypeOK, EventOutlivesRequest
  <2>5. HeldNow' = HeldNow /\ LeakedHeld'
    BY <1>1, <1>2, LeakedStays DEF KernelInv
  <2>3. CallsInStep' /\ HandlesInStep'
    BY <1>1, <1>2, <2>1, <2>5 DEF CallsInStep, HandlesInStep
  <2>4. StructureInStep' /\ ChannelInStep'
    BY <1>1, <1>2, <2>1 DEF StructureInStep, ChannelInStep, recvHandle
  <2> QED BY <2>2, <2>3, <2>4, <2>5 DEF KernelInv
<1>3. ASSUME Refused, pV4v' = pV4v, call' = Fail, UNCHANGED table
      PROVE  KernelInv'
  BY <1>2, <1>3 DEF Refused
<1>4. ASSUME NEW h \in Unused, Done("initialize") \/ Pending("initialize", "closed"),
             table' = Opened(table, h),
             pV4v' = [pV4v EXCEPT !.recvEventHandle = h, !.state = "V4vOpen"],
             call' = Proceed("bind")
      PROVE  KernelInv'
  <2>1. h \in Handles /\ h # call.hd /\ pV4v'.recvEventHandle = h
    BY <1>1, <1>4, HandleOpened DEF Unused, KernelInv, TypeOK
  <2>2. call' \in [pc : {"bind"}, of : {call.of}, hd : {call.hd}, success : {TRUE},
                   mishaps : {call.mishaps}]
    BY <1>1, <1>4 DEF Proceed, KernelInv, TypeOK
  <2>3. /\ HeldNow' = {call.hd, h} /\ table' \in [Handles -> {"free", "mine", "foreign"}]
        /\ Mine \subseteq Mine'
    BY <1>1, <1>4, HandleOpened DEF KernelInv
  <2>9. LeakedHeld'
    <3>1. pV4v'.state # "V4vClosed"
      BY <1>4 DEF KernelInv, TypeOK
    <3> QED BY <1>1, <2>3, <3>1, LeakedKept DEF KernelInv
  <2>4. /\ channel' \in Channels /\ EventOutlivesRequest'
        /\ requests' \subseteq [op : Requests, event : {"live", "closed"}]
    BY <1>4, RequestKept DEF KernelInv, Requests
  <2>5. TypeOK'
    BY <1>1, <1>4, <2>1, <2>2, <2>3, <2>4 DEF KernelInv, TypeOK
  <2>6. CallsInStep' /\ HandlesInStep'
    BY <1>1, <2>1, <2>2, <2>3 DEF CallsInStep, HandlesInStep, BothHeld, recvHandle
  <2>7. \A r \in requests' : r.op = "initialize"
    BY <1>1, <1>4 DEF Done, Pending
  <2>8. StructureInStep' /\ ChannelInStep'
    BY <1>1, <2>2, <2>7 DEF StructureInStep, ChannelInStep
  <2> QED BY <2>4, <2>5, <2>6, <2>8, <2>9 DEF KernelInv
<1>5. ASSUME NEW h \in Unused, Done("initialize") \/ Pending("initialize", "closed"),
             UNCHANGED table,
             pV4v' = [pV4v EXCEPT !.recvEventHandle = h],
             call' = [Mishap("no reference") EXCEPT !.pc = "finish", !.success = FALSE]
      PROVE  KernelInv'
  <2>1. h \in Handles /\ HeldNow' = HeldNow /\ LeakedHeld'
    <3>1. pV4v'.state = pV4v.state /\ pV4v'.v4vHandle = pV4v.v4vHandle
      BY <1>5 DEF KernelInv, TypeOK
    <3>2. Mine' = Mine
      BY <1>5 DEF Mine
    <3> QED BY <1>1, <1>5, <3>1, <3>2 DEF Unused, HeldNow, LeakedHeld, KernelInv
  <2>2. call' \in [pc : {"finish"}, of : {call.of}, hd : {call.hd}, success : {FALSE},
                   mishaps : {call.mishaps \cup {"no reference"}}]
    BY <1>5 DEF Mishap, KernelInv, TypeOK
  <2>3. /\ channel' \in Channels /\ EventOutlivesRequest'
        /\ requests' \subseteq [op : Requests, event : {"live", "closed"}]
    BY <1>5, RequestKept DEF KernelInv, Requests
  <2>4. TypeOK'
    BY <1>1, <1>5, <2>1, <2>2, <2>3 DEF KernelInv, TypeOK
  <2>5. CallsInStep' /\ HandlesInStep'
    BY <1>1, <2>1, <2>2 DEF CallsInStep, HandlesInStep
  <2>6. StructureInStep' /\ ChannelInStep'
    BY <1>1, <2>2 DEF StructureInStep, ChannelInStep
  <2> QED BY <2>1, <2>3, <2>4, <2>5, <2>6 DEF KernelInv
<1> QED BY <1>2, <1>3, <1>4, <1>5 DEF XenV4VInitDev, AfterRefusal
\* A request that changes neither the handles nor the structure; the call goes on or fails.
LEMMA BindSafe == ASSUME None \notin Handles, KernelInv, XenV4VBind PROVE KernelInv'
<1>1. /\ UNCHANGED <<table, pV4v, opened, zeroes, leaked>> /\ call.pc = "bind" /\ ~opened
      /\ call.success /\ call.of \in {"dgram", "device"} /\ BothHeld
  BY DEF XenV4VBind, KernelInv, CallsInStep, HandlesInStep
<1>2. HeldNow' = HeldNow /\ recvHandle' = recvHandle /\ LeakedHeld'
  BY <1>1, LeakedStays DEF recvHandle, KernelInv
<1>3. /\ channel' \in Channels /\ EventOutlivesRequest'
      /\ requests' \subseteq [op : Requests, event : {"live", "closed"}]
  BY RequestKept DEF XenV4VBind, KernelInv, Requests
<1>4. /\ call' \in [pc : {AfterBind, "finish"}, of : {call.of}, hd : {call.hd},
                    success : BOOLEAN, mishaps : SUBSET {"no reference", "no IRP", "pended"}]
      /\ call'.pc # AfterBind => ~call'.success
      /\ call.mishaps \subseteq call'.mishaps
  <2>1. CASE call' = Proceed(AfterBind)
    BY <1>1, <2>1 DEF Proceed, KernelInv, TypeOK
  <2>2. CASE call' = Fail
    BY <1>1, <2>2 DEF Fail, KernelInv, TypeOK
  <2>3. CASE call' = [Mishap("no IRP") EXCEPT !.pc = AfterBind]
    BY <1>1, <2>3 DEF Mishap, KernelInv, TypeOK
  <2> QED BY <2>1, <2>2, <2>3 DEF XenV4VBind
<1>5. call'.pc \in {"connect", "finish"} /\ (call'.pc = "connect" => call'.of = "device")
  BY <1>4 DEF AfterBind
<1>6. TypeOK'
  BY <1>1, <1>3, <1>4, <1>5 DEF KernelInv, TypeOK
<1>7. CallsInStep'
  <2>1. call'.pc = "connect" => call'.success
    BY <1>1 DEF XenV4VBind, Proceed, Fail, Mishap, KernelInv, TypeOK
  <2> QED BY <1>1, <1>4, <1>5, <2>1 DEF CallsInStep
<1>8. HandlesInStep'
  BY <1>1, <1>2, <1>4, <1>5 DEF HandlesInStep, BothHeld
<1>9. StructureInStep'
  BY <1>1, <1>2, <1>5 DEF StructureInStep, BothHeld
<1>10. ChannelInStep'
  <2> SUFFICES ASSUME call'.mishaps = {} PROVE ChannelInStep'
    BY <1>1, <1>5 DEF ChannelInStep
  <2>1. call.mishaps = {}
    BY <1>4
  <2>2. \A r \in requests' : r.op \in {"initialize", "bind"}
    <3>1. \A r \in requests : r.op \in {"initialize", "bind"}
      BY <1>1, <2>1 DEF KernelInv, ChannelInStep
    <3>2. requests' = requests \/ requests' = requests \cup {[op |-> "bind", event |-> "closed"]}
      BY DEF XenV4VBind, Done, Refused, Pending
    <3> QED BY <3>1, <3>2
  <2>3. call'.success => channel' = "bound"
    <3>1. CASE Done("bind")
      BY <3>1 DEF Done, To
    <3>2. CASE call' = Fail
      BY <3>2 DEF Fail, KernelInv, TypeOK
    <3>3. CASE call' = [Mishap("no IRP") EXCEPT !.pc = AfterBind]
      BY <3>3 DEF Mishap, KernelInv, TypeOK
    <3> QED BY <3>1, <3>2, <3>3 DEF XenV4VBind
  <2>4. call'.success /\ call'.pc = "finish" => call'.of # "device"
    <3>1. CASE call' = Proceed(AfterBind) \/ call' = [Mishap("no IRP") EXCEPT !.pc = AfterBind]
      BY <3>1 DEF Proceed, Mishap, AfterBind, KernelInv, TypeOK
    <3>2. CASE call' = Fail
      BY <3>2 DEF Fail, KernelInv, TypeOK
    <3> QED BY <3>1, <3>2 DEF XenV4VBind
  <2>5. call'.pc = "connect" => call'.success
    BY <1>5, <1>7 DEF CallsInStep
  <2> QED BY <1>1, <1>5, <2>2, <2>3, <2>4, <2>5 DEF ChannelInStep
<1> QED BY <1>2, <1>3, <1>6, <1>7, <1>8, <1>9, <1>10 DEF KernelInv

LEMMA ConnectSafe == ASSUME None \notin Handles, KernelInv, XenV4VConnect PROVE KernelInv'
<1>1. /\ UNCHANGED <<table, opened, zeroes, leaked>> /\ call.pc = "connect" /\ ~opened
      /\ call.success /\ call.of = "device" /\ BothHeld
  BY DEF XenV4VConnect, KernelInv, CallsInStep, HandlesInStep
<1>2. pV4v' = [pV4v EXCEPT !.state = "V4vConnected"]
  BY DEF XenV4VConnect
<1>3. HeldNow' = HeldNow /\ recvHandle' = recvHandle /\ LeakedHeld'
  <2>1. pV4v'.state # "V4vClosed" /\ recvHandle' = recvHandle
    BY <1>2 DEF recvHandle, KernelInv, TypeOK
  <2> QED BY <1>1, <2>1, LeakedStays DEF KernelInv
<1>4. /\ channel' \in Channels /\ EventOutlivesRequest'
      /\ requests' \subseteq [op : Requests, event : {"live", "closed"}]
  BY RequestKept DEF XenV4VConnect, KernelInv, Requests
<1>5. /\ call' \in [pc : {"finish", "pended", "bugcheck"}, of : {"device"}, hd : {call.hd},
                    success : BOOLEAN, mishaps : SUBSET {"no reference", "no IRP", "pended"}]
      /\ call'.pc = "pended" => call'.success /\ call'.mishaps # {}
      /\ call.mishaps \subseteq call'.mishaps
  <2>1. CASE call' = Proceed("finish") \/ call' = Proceed("bugcheck")
    BY <1>1, <2>1 DEF Proceed, KernelInv, TypeOK
  <2>2. CASE call' = Fail
    BY <1>1, <2>2 DEF Fail, KernelInv, TypeOK
  <2>3. CASE call' = [Mishap("pended") EXCEPT !.pc = "pended"]
    BY <1>1, <2>3 DEF Mishap, KernelInv, TypeOK
  <2> QED BY <2>1, <2>2, <2>3 DEF XenV4VConnect
<1>6. TypeOK'
  BY <1>1, <1>2, <1>4, <1>5 DEF KernelInv, TypeOK
<1>7. CallsInStep' /\ HandlesInStep' /\ StructureInStep'
  BY <1>1, <1>3, <1>5 DEF CallsInStep, HandlesInStep, StructureInStep, BothHeld
<1>8. ChannelInStep'
  <2> SUFFICES ASSUME call'.mishaps = {}, call'.pc = "finish" PROVE ChannelInStep'
    BY <1>1, <1>5 DEF ChannelInStep
  <2>1. call.mishaps = {}
    BY <1>5
  <2>2. ~Pending("connect", "live") \/ requests' = requests
    BY DEF XenV4VConnect, Proceed, Fail, Mishap, Done, Refused, Pending, KernelInv, TypeOK
  <2>3. \A r \in requests' : r.op \in {"initialize", "bind"}
    BY <1>1, <2>1, <2>2 DEF XenV4VConnect, Done, Refused, KernelInv, ChannelInStep
  <2>4. call'.success => channel' = "connected"
    <3>1. CASE Done("connect")
      BY <3>1 DEF Done, To
    <3>2. CASE call' = Fail
      BY <3>2 DEF Fail, KernelInv, TypeOK
    <3>3. CASE call' = [Mishap("pended") EXCEPT !.pc = "pended"] \/ call' = Proceed("bugcheck")
      BY <3>3 DEF Mishap, Proceed, KernelInv, TypeOK
    <3> QED BY <3>1, <3>2, <3>3 DEF XenV4VConnect
  <2> QED BY <1>1, <1>5, <2>3, <2>4 DEF ChannelInStep
<1> QED BY <1>3, <1>4, <1>6, <1>7, <1>8 DEF KernelInv

\* The wait ends a mishap: what the channel has come to is not known.
LEMMA WaitSafe == ASSUME None \notin Handles, KernelInv, WaitReturns PROVE KernelInv'
<1>1. /\ UNCHANGED <<table, pV4v, requests, channel, opened, zeroes, leaked>> /\ call.pc = "pended"
      /\ call' \in [pc : {"finish"}, of : {call.of}, hd : {call.hd}, success : {TRUE},
                    mishaps : {call.mishaps}]
  BY DEF WaitReturns, Proceed, KernelInv, TypeOK, CallsInStep
<1>5. HeldNow' = HeldNow /\ LeakedHeld'
  BY <1>1, LeakedStays DEF KernelInv
<1>2. TypeOK' /\ EventOutlivesRequest'
  BY <1>1 DEF KernelInv, TypeOK, EventOutlivesRequest
<1>3. CallsInStep' /\ HandlesInStep'
  BY <1>1, <1>5 DEF KernelInv, CallsInStep, HandlesInStep, BothHeld, recvHandle
<1>4. StructureInStep' /\ ChannelInStep'
  BY <1>1, <1>5 DEF KernelInv, StructureInStep, ChannelInStep, HandlesInStep, CallsInStep, BothHeld,
                    recvHandle
<1> QED BY <1>2, <1>3, <1>4, <1>5 DEF KernelInv
\* A successful open hands its handles on, any other closes them.
LEMMA OpenReturnsSafe ==
  ASSUME None \notin Handles, KernelInv, OpenReturns
  PROVE  KernelInv'
<1>1. /\ call.pc = "finish" /\ ~opened /\ UNCHANGED zeroes /\ opened' = call.success
      /\ call' \in [pc : {"idle"}, of : {call.of}, hd : {None}, success : {call.success},
                    mishaps : {call.mishaps}]
  BY DEF OpenReturns, Proceed, KernelInv, TypeOK, CallsInStep
<1>2. CallsInStep' /\ StructureInStep'
  BY <1>1 DEF CallsInStep, StructureInStep
<1>3. CASE call.success
  <2>1. pV4v' = [pV4v EXCEPT !.v4vHandle = call.hd] /\ UNCHANGED <<table, channel, requests, leaked>>
    BY <1>3 DEF OpenReturns
  <2>2. BothHeld
    BY <1>1, <1>3 DEF KernelInv, HandlesInStep
  <2>3. pV4v'.v4vHandle = call.hd /\ recvHandle' = recvHandle /\ HeldNow' = HeldNow
    BY <2>1 DEF HeldNow, Mine, recvHandle, KernelInv, TypeOK
  <2>6. LeakedHeld'
    BY <2>1, <2>2, <2>3 DEF LeakedHeld, Mine, HeldNow, BothHeld, KernelInv
  <2>4. TypeOK' /\ EventOutlivesRequest'
    BY <1>1, <2>1 DEF KernelInv, TypeOK, EventOutlivesRequest
  <2>5. HandlesInStep' /\ ChannelInStep'
    BY <1>1, <1>3, <2>2, <2>3 DEF HandlesInStep, ChannelInStep, BothHeld
  <2> QED BY <1>2, <2>4, <2>5, <2>6 DEF KernelInv
<1>4. CASE ~call.success
  <2>1. table' = ClosedAfterFailure(table) /\ channel' = "none" /\ requests' = {}
        /\ UNCHANGED pV4v /\ leaked' = leaked \ {recvHandle}
    BY <1>4 DEF OpenReturns, recvHandle
  <2>2. /\ table' \in [Handles -> {"free", "mine", "foreign"}]
        /\ \A g \in Handles : table'[g] = IF g \in {call.hd, recvHandle} THEN "free" ELSE table[g]
    <3>1. table \in [Handles -> {"free", "mine", "foreign"}] /\ call.hd \in Handles \cup {None}
          /\ recvHandle \in Handles \cup {None}
      BY DEF recvHandle, KernelInv, TypeOK
    <3>2. table' = ZwClose(ZwClose(table, call.hd), recvHandle)
      BY <2>1 DEF ClosedAfterFailure, recvHandle
    <3>3. /\ ZwClose(table, call.hd) \in [Handles -> {"free", "mine", "foreign"}]
          /\ \A g \in Handles :
               ZwClose(table, call.hd)[g] = IF g = call.hd THEN "free" ELSE table[g]
      BY <3>1, MineClosed
    <3>4. /\ ZwClose(ZwClose(table, call.hd), recvHandle) \in [Handles -> {"free", "mine", "foreign"}]
          /\ \A g \in Handles : ZwClose(ZwClose(table, call.hd), recvHandle)[g] =
                                 IF g = recvHandle THEN "free" ELSE ZwClose(table, call.hd)[g]
      BY <3>1, <3>3, MineClosed
    <3> QED BY <3>2, <3>3, <3>4
  <2>3. HeldNow \subseteq {call.hd, recvHandle}
    BY <1>1 DEF KernelInv, HandlesInStep
  <2>4. HeldNow' = {} /\ LeakedHeld'
    <3>1. Mine' = Mine \ {call.hd, recvHandle}
      BY <2>2 DEF Mine
    <3>2. call.hd = None \/ call.hd \in HeldNow
      BY <1>1 DEF KernelInv, HandlesInStep
    <3>3. leaked \subseteq Mine /\ call.hd \notin leaked
      BY <3>2 DEF KernelInv, LeakedHeld, TypeOK, HeldNow
    <3>4. leaked' \subseteq Mine'
      BY <2>1, <3>1, <3>3
    <3> QED BY <2>1, <2>3, <3>1, <3>4 DEF HeldNow, LeakedHeld, KernelInv
  <2>5. TypeOK' /\ EventOutlivesRequest'
    BY <1>1, <2>1, <2>2 DEF KernelInv, TypeOK, EventOutlivesRequest, Channels
  <2>6. HandlesInStep' /\ ChannelInStep'
    BY <1>1, <1>4, <2>1, <2>4 DEF HandlesInStep, ChannelInStep
  <2> QED BY <1>2, <2>4, <2>5, <2>6 DEF KernelInv
<1> QED BY <1>3, <1>4 DEF KernelInv, TypeOK

LEMMA ConnectWaitSafe ==
  ASSUME None \notin Handles, KernelInv, XenV4VConnectWait
  PROVE  KernelInv'
<1>1. /\ UNCHANGED <<table, pV4v, opened, zeroes, leaked>> /\ call.pc = "idle" /\ opened
      /\ call' \in [pc : {"idle", "bugcheck"}, of : {call.of}, hd : {call.hd},
                    success : {call.success}, mishaps : {call.mishaps}]
  BY DEF XenV4VConnectWait, Proceed, KernelInv, TypeOK
<1>2. /\ channel' \in Channels /\ EventOutlivesRequest'
      /\ requests' \subseteq [op : Requests, event : {"live", "closed"}]
  BY RequestKept DEF XenV4VConnectWait, KernelInv, Requests
<1>3. TypeOK'
  BY <1>1, <1>2 DEF KernelInv, TypeOK
<1>4. CallsInStep' /\ StructureInStep' /\ ChannelInStep'
  BY <1>1 DEF CallsInStep, StructureInStep, ChannelInStep
<1>6. HeldNow' = HeldNow /\ LeakedHeld'
  BY <1>1, LeakedStays DEF KernelInv
<1>5. HandlesInStep'
  BY <1>1, <1>6 DEF KernelInv, HandlesInStep, recvHandle
<1> QED BY <1>2, <1>3, <1>4, <1>5, <1>6 DEF KernelInv

LEMMA TransferSafe ==
  ASSUME None \notin Handles, KernelInv, NEW op \in {"disconnect", "transfer"}, Transfer(op)
  PROVE  KernelInv'
<1>1. /\ UNCHANGED <<table, pV4v, opened, zeroes, leaked>> /\ call.pc = "idle" /\ opened
      /\ call' \in [pc : {"finish", "pended", "bugcheck"}, of : {op}, hd : {None},
                    success : BOOLEAN, mishaps : SUBSET {"pended"}]
      /\ call'.pc = "pended" => call'.success /\ call'.mishaps # {}
  <2>1. \/ call' = Start(op)
        \/ call' = [Start(op) EXCEPT !.success = FALSE]
        \/ call' = [Start(op) EXCEPT !.pc = "pended", !.mishaps = {"pended"}]
        \/ call' = [Start(op) EXCEPT !.pc = "bugcheck"]
    BY DEF Transfer
  <2>2. /\ call' \in [pc : {"finish", "pended", "bugcheck"}, of : {op}, hd : {None},
                      success : BOOLEAN, mishaps : SUBSET {"pended"}]
        /\ call'.pc = "pended" => call'.success /\ call'.mishaps # {}
    <3>1. CASE call' = Start(op)
      BY <3>1 DEF Start
    <3>4. CASE call' = [Start(op) EXCEPT !.success = FALSE]
      BY <3>4 DEF Start
    <3>2. CASE call' = [Start(op) EXCEPT !.pc = "pended", !.mishaps = {"pended"}]
      BY <3>2 DEF Start
    <3>3. CASE call' = [Start(op) EXCEPT !.pc = "bugcheck"]
      BY <3>3 DEF Start
    <3> QED BY <2>1, <3>1, <3>2, <3>3, <3>4
  <2> QED BY <2>2 DEF Transfer
<1>2. /\ channel' \in Channels /\ EventOutlivesRequest'
      /\ requests' \subseteq [op : Requests, event : {"live", "closed"}]
  BY RequestKept DEF Transfer, KernelInv, Requests
<1>3. TypeOK'
  BY <1>1, <1>2 DEF KernelInv, TypeOK
<1>4. CallsInStep' /\ StructureInStep' /\ ChannelInStep'
  BY <1>1 DEF CallsInStep, StructureInStep, ChannelInStep
<1>6. HeldNow' = HeldNow /\ LeakedHeld'
  BY <1>1, LeakedStays DEF KernelInv
<1>5. HandlesInStep'
  BY <1>1, <1>6 DEF KernelInv, HandlesInStep, recvHandle
<1> QED BY <1>2, <1>3, <1>4, <1>5, <1>6 DEF KernelInv

LEMMA TransferReturnsSafe ==
  ASSUME None \notin Handles, KernelInv, TransferReturns
  PROVE  KernelInv'
<1>1. /\ UNCHANGED <<table, requests, channel, opened, zeroes, leaked>> /\ call.pc = "finish" /\ opened
      /\ call' \in [pc : {"idle"}, of : {call.of}, hd : {call.hd}, success : {call.success},
                    mishaps : {call.mishaps}]
  BY DEF TransferReturns, Proceed, KernelInv, TypeOK, CallsInStep
<1>2. /\ pV4v'.v4vHandle = pV4v.v4vHandle /\ recvHandle' = recvHandle /\ HeldNow' = HeldNow
      /\ TypeOK' /\ EventOutlivesRequest' /\ LeakedHeld'
  <2>1. \/ pV4v' = pV4v
        \/ pV4v' = [pV4v EXCEPT !.state = "V4vDisconnected"]
        \/ pV4v' = [pV4v EXCEPT !.state = "V4vError"]
    BY DEF TransferReturns
  <2>2. pV4v'.v4vHandle = pV4v.v4vHandle /\ recvHandle' = recvHandle
    BY <2>1 DEF recvHandle, KernelInv, TypeOK
  <2>3. TypeOK'
    BY <1>1, <2>1 DEF KernelInv, TypeOK
  <2>4. UNCHANGED pV4v \/ pV4v'.state # "V4vClosed"
    BY <2>1 DEF KernelInv, TypeOK
  <2>5. HeldNow' = HeldNow /\ LeakedHeld'
    BY <1>1, <2>4, LeakedStays DEF KernelInv
  <2> QED BY <1>1, <2>2, <2>3, <2>5 DEF KernelInv, EventOutlivesRequest
<1>3. CallsInStep' /\ StructureInStep' /\ ChannelInStep'
  BY <1>1 DEF CallsInStep, StructureInStep, ChannelInStep
<1>4. HandlesInStep'
  BY <1>1, <1>2 DEF KernelInv, HandlesInStep
<1> QED BY <1>2, <1>3, <1>4 DEF KernelInv

LEMMA CloseSafe == ASSUME None \notin Handles, KernelInv, XenV4VClose PROVE KernelInv'
<1> DEFINE both == {recvHandle, pV4v.v4vHandle}
<1>1. PICK unclosed \in SUBSET both :
        /\ table' = [h \in Handles |-> IF h \in both \ unclosed THEN "free" ELSE table[h]]
        /\ leaked' = leaked \cup unclosed /\ pV4v' = ClosedStructure(unclosed)
  BY DEF XenV4VClose, recvHandle
<1>2. /\ UNCHANGED <<call, zeroes>> /\ call.pc = "idle" /\ opened /\ opened' = FALSE
      /\ channel' = "none" /\ requests' = {}
  BY DEF XenV4VClose
<1>3. both = HeldNow /\ both \subseteq Handles
  BY <1>2 DEF KernelInv, HandlesInStep
<1> HIDE DEF both
<1>4. \A h \in Handles : table'[h] = IF h \in both \ unclosed THEN "free" ELSE table[h]
  BY <1>1
<1>5. Mine' = Mine \ (both \ unclosed)
  BY <1>4 DEF Mine
<1>6. leaked \subseteq Mine /\ HeldNow = Mine \ leaked
  BY DEF KernelInv, LeakedHeld, HeldNow
<1>7. leaked' \subseteq Mine' /\ HeldNow' = {}
  BY <1>1, <1>3, <1>5, <1>6 DEF HeldNow
<1>8. pV4v'.v4vHandle = pV4v.v4vHandle
      /\ pV4v' \in [state : {"V4vError", "V4vClosed"}, recvEventHandle : Handles \cup {None},
                    v4vHandle : Handles \cup {None}]
      /\ (pV4v'.state = "V4vClosed" => pV4v.v4vHandle \notin unclosed)
  BY <1>1 DEF ClosedStructure, KernelInv, TypeOK
<1>9. pV4v.v4vHandle \notin leaked
  <2>1. pV4v.v4vHandle \in HeldNow
    BY <1>3 DEF both
  <2> QED BY <2>1, <1>6
<1>10. LeakedHeld'
  BY <1>1, <1>7, <1>8, <1>9 DEF LeakedHeld
<1>11. TypeOK' /\ EventOutlivesRequest'
  <2>1. /\ requests' \subseteq [op : Requests, event : {"live", "closed"}]
        /\ EventOutlivesRequest'
    BY <1>2, FewerRequests DEF KernelInv
  <2>2. table' \in [Handles -> {"free", "mine", "foreign"}]
    BY <1>1 DEF KernelInv, TypeOK
  <2>3. leaked' \subseteq Handles
    BY <1>1, <1>3 DEF KernelInv, TypeOK
  <2> QED BY <1>2, <1>8, <2>1, <2>2, <2>3 DEF KernelInv, TypeOK, Channels
<1>12. CallsInStep' /\ HandlesInStep' /\ StructureInStep' /\ ChannelInStep'
  BY <1>2, <1>7 DEF CallsInStep, HandlesInStep, StructureInStep, ChannelInStep
<1> QED BY <1>10, <1>11, <1>12 DEF KernelInv

\* A completion cannot undo what a later request has done: it is for an earlier state.
LEMMA CompleteSafe ==
  ASSUME None \notin Handles, KernelInv, NEW r \in requests, Complete(r)
  PROVE  KernelInv'
<1>1. /\ UNCHANGED <<table, pV4v, call, opened, zeroes, leaked>> /\ requests' = requests \ {r}
      /\ channel' = channel \/ (channel = For[r.op] /\ channel' = To[r.op])
  BY DEF Complete
<1>2. r.op \in Requests
  BY DEF KernelInv, TypeOK
<1>3. To[r.op] \in Channels
  BY <1>2 DEF Requests, To, Channels
<1>4. TypeOK' /\ EventOutlivesRequest'
  <2>1. /\ requests' \subseteq [op : Requests, event : {"live", "closed"}]
        /\ EventOutlivesRequest'
    BY <1>1, FewerRequests DEF KernelInv
  <2>2. channel' \in Channels
    BY <1>1, <1>3 DEF KernelInv, TypeOK
  <2> QED BY <1>1, <2>1, <2>2, DriverTyped DEF KernelInv
<1>7. HeldNow' = HeldNow /\ LeakedHeld'
  BY <1>1, LeakedStays DEF KernelInv
<1>5. CallsInStep' /\ HandlesInStep' /\ StructureInStep'
  BY <1>1, <1>7 DEF KernelInv, CallsInStep, HandlesInStep, StructureInStep, BothHeld, recvHandle
<1>6. ChannelInStep'
  <2>1. r.op \in {"initialize", "bind"} => For[r.op] \in {"new", "initialized"}
    BY DEF For
  <2>2. requests # {} /\ requests' \subseteq requests
    BY <1>1
  <2>3. /\ ~(call.pc \in {"create", "init"} \/ (call.pc = "idle" /\ ~opened))
        /\ call.pc \in {"bind", "connect", "finish"} /\ ~opened /\ call.mishaps = {} =>
             \A q \in requests : q.op \in {"initialize", "bind"}
    BY <2>2 DEF KernelInv, ChannelInStep
  <2>4. channel \in {"bound", "connected"} /\ r.op \in {"initialize", "bind"} => channel' = channel
    BY <1>1, <2>1
  <2>5. call.pc = "connect" => ~opened
    BY DEF KernelInv, CallsInStep
  <2>6. (call.pc = "connect" /\ call.mishaps = {} => channel = "bound") /\
        (call.pc = "finish" /\ ~opened /\ call.success /\ call.mishaps = {} =>
          channel = IF call.of = "device" THEN "connected" ELSE "bound")
    BY DEF KernelInv, ChannelInStep
  <2>7. call.pc \in {"bind", "connect", "finish"} /\ ~opened /\ call.mishaps = {} =>
          channel' = channel \/ channel \notin {"bound", "connected"}
    BY <2>3, <2>4
  <2>8. UNCHANGED <<call, opened>>
    BY <1>1
  <2>9. call.pc \in {"bind", "connect", "finish"} /\ ~opened /\ call.mishaps = {} =>
          \A q \in requests' : q.op \in {"initialize", "bind"}
    BY <2>2, <2>3
  <2>10. call.pc = "connect" /\ call.mishaps = {} => channel' = "bound"
    BY <2>5, <2>6, <2>7
  <2>11. call.pc = "finish" /\ ~opened /\ call.success /\ call.mishaps = {} =>
           channel' = IF call.of = "device" THEN "connected" ELSE "bound"
    BY <2>6, <2>7
  <2>12. ~(call.pc \in {"create", "init"} \/ (call.pc = "idle" /\ ~opened))
    BY <2>3
  <2> QED BY <2>8, <2>9, <2>10, <2>11, <2>12, Zenon DEF ChannelInStep
<1> QED BY <1>4, <1>5, <1>6, <1>7 DEF KernelInv

LEMMA OthersSafe ==
  ASSUME None \notin Handles, KernelInv, NEW h \in Handles, OthersOpen(h) \/ OthersClose(h)
  PROVE  KernelInv'
<1>1. UNCHANGED <<pV4v, call, requests, channel, opened, zeroes, leaked>>
  BY DEF OthersOpen, OthersClose
<1>2. TypeOK'
  BY DEF OthersOpen, OthersClose, KernelInv, TypeOK
<1>3. HeldNow' = HeldNow /\ LeakedHeld'
  <2>1. \A g \in Handles : table'[g] = "mine" <=> table[g] = "mine"
    BY DEF OthersOpen, OthersClose, KernelInv, TypeOK
  <2>2. Mine' = Mine
    BY <2>1 DEF Mine
  <2> QED BY <1>1, <2>2, LeakedKept DEF HeldNow, KernelInv
<1> QED BY <1>1, <1>2, <1>3 DEF KernelInv, EventOutlivesRequest, CallsInStep, HandlesInStep,
                          StructureInStep, ChannelInStep, BothHeld, recvHandle

LEMMA NextSafe == ASSUME None \notin Handles, KernelInv, Next PROVE KernelInv'
<1>1. CASE XenV4VOpenDgramPort \/ XenV4VOpenDevice
  BY <1>1, OpenSafe DEF XenV4VOpenDgramPort, XenV4VOpenDevice
<1>2. CASE XenV4VDisconnect \/ XenV4VReadOrWrite
  BY <1>2, TransferSafe DEF XenV4VDisconnect, XenV4VReadOrWrite
<1> QED BY <1>1, <1>2, CreateSafe, InitDevSafe, BindSafe, ConnectSafe, WaitSafe,
           OpenReturnsSafe, ConnectWaitSafe, TransferReturnsSafe, CloseSafe, CompleteSafe,
           OthersSafe DEF Next

LEMMA StutterSafe == ASSUME KernelInv, UNCHANGED vars PROVE KernelInv'
<1>1. TypeOK' /\ EventOutlivesRequest'
  <2>1. /\ requests' \subseteq [op : Requests, event : {"live", "closed"}]
        /\ EventOutlivesRequest'
    BY FewerRequests DEF KernelInv, vars
  <2>2. UNCHANGED <<table, pV4v, call, opened, zeroes, leaked>> /\ channel' \in Channels
    BY DEF KernelInv, TypeOK, vars
  <2> QED BY <2>1, <2>2, DriverTyped DEF KernelInv
<1>2. /\ HeldNow' = HeldNow /\ LeakedHeld' /\ recvHandle' = recvHandle
      /\ UNCHANGED <<pV4v, call, requests, channel, opened, zeroes>>
  BY LeakedStays DEF KernelInv, recvHandle, vars
<1> QED BY <1>1, <1>2 DEF KernelInv, CallsInStep, HandlesInStep, StructureInStep, ChannelInStep,
                          BothHeld

LEMMA Inductive == ASSUME None \notin Handles PROVE Spec => []KernelInv
<1>1. KernelInv /\ [Next]_vars => KernelInv'
  BY NextSafe, StutterSafe
<1> QED BY <1>1, InitSafe, PTL DEF Spec

\* For any handles: when no call of v4vkapi.h is under way the client has open the two handles
\* of its channel, if it has one, and those that a close could not close, and no others,
\* whatever failed; a channel is called closed only when its file is closed; and the driver
\* never signals the event of a connect, disconnect, read or write that has returned.
THEOREM KernelCorrect == ASSUME None \notin Handles PROVE Spec => []KernelSafe
<1>1. KernelInv => KernelSafe
  <2> SUFFICES ASSUME KernelInv PROVE HandlesBalanced
    BY DEF KernelInv, KernelSafe
  <2>1. CASE call.pc = "idle" /\ opened
    <3>1. recvHandle # pV4v.v4vHandle /\ HeldNow = {recvHandle, pV4v.v4vHandle}
      BY <2>1 DEF KernelInv, HandlesInStep
    <3> QED BY <2>1, <3>1 DEF HandlesBalanced, HeldNow, recvHandle
  <2>2. CASE call.pc = "idle" /\ ~opened
    BY <2>2 DEF KernelInv, HandlesBalanced, HandlesInStep, LeakedHeld, HeldNow
  <2> QED BY <2>1, <2>2 DEF HandlesBalanced
<1> QED BY <1>1, Inductive, PTL
\* The handles an open closes when it fails are its own, unless the structure was used before
\* and not zeroed, or the receive event could not be referenced.
LEMMA OthersStay == ASSUME None \notin Handles, KernelInv, Next PROVE OthersKept
<1> SUFFICES ASSUME NEW h \in Handles, table[h] = "foreign", table'[h] # "foreign"
             PROVE  OthersClose(h) \/ ~zeroes \/ "no reference" \in call.mishaps
  BY DEF OthersKept
<1>1. CASE \/ XenV4VOpenDgramPort \/ XenV4VOpenDevice \/ XenV4VBind \/ XenV4VConnect
           \/ WaitReturns \/ XenV4VConnectWait \/ XenV4VDisconnect \/ XenV4VReadOrWrite
           \/ TransferReturns \/ \E r \in requests : Complete(r)
  BY <1>1 DEF XenV4VOpenDgramPort, XenV4VOpenDevice, Open, XenV4VBind, XenV4VConnect, WaitReturns,
              XenV4VConnectWait, XenV4VDisconnect, XenV4VReadOrWrite, Transfer, TransferReturns,
              Complete
<1>2. CASE CreateFile \/ XenV4VInitDev
  <2>1. ASSUME NEW g \in Unused, table' = Opened(table, g) PROVE FALSE
    BY <2>1 DEF Opened, Unused, KernelInv, TypeOK
  <2> QED BY <1>2, <2>1 DEF CreateFile, XenV4VInitDev
<1>3. CASE OpenReturns
  <2>1. call.pc = "finish" /\ ~opened /\ table' = ClosedAfterFailure(table)
    BY <1>3 DEF OpenReturns, KernelInv, CallsInStep
  <2>2. call.hd = None \/ table[call.hd] = "mine"
    BY <2>1 DEF KernelInv, HandlesInStep, HeldNow, Mine
  <2>3. zeroes /\ "no reference" \notin call.mishaps => recvHandle = None \/ table[recvHandle] = "mine"
    BY <2>1 DEF KernelInv, StructureInStep, HeldNow, Mine
  <2>4. h = call.hd \/ h = recvHandle
    BY <2>1 DEF ClosedAfterFailure, ZwClose, recvHandle, KernelInv, TypeOK
  <2> QED BY <2>2, <2>3, <2>4
<1>4. CASE XenV4VClose
  <2>1. table[recvHandle] = "mine" /\ table[pV4v.v4vHandle] = "mine"
    BY <1>4 DEF XenV4VClose, KernelInv, HandlesInStep, HeldNow, Mine
  <2>2. h = recvHandle \/ h = pV4v.v4vHandle
    BY <1>4 DEF XenV4VClose, recvHandle
  <2> QED BY <2>1, <2>2
<1>5. ASSUME NEW g \in Handles, OthersOpen(g) \/ OthersClose(g)
      PROVE  OthersClose(h)
  BY <1>5 DEF OthersOpen, OthersClose, KernelInv, TypeOK
<1> QED BY <1>1, <1>2, <1>3, <1>4, <1>5 DEF Next

\* The one step that opens the channel is the return of a successful open.
LEMMA OpenedReady == ASSUME None \notin Handles, KernelInv, Next PROVE OpenMeansReady
<1> SUFFICES ASSUME ~opened, opened', call.mishaps = {}
             PROVE  channel = IF call.of = "device" THEN "connected" ELSE "bound"
  BY DEF OpenMeansReady
<1>1. OpenReturns
  BY DEF Next, XenV4VOpenDgramPort, XenV4VOpenDevice, Open, CreateFile, XenV4VInitDev, XenV4VBind,
         XenV4VConnect, WaitReturns, XenV4VConnectWait, XenV4VDisconnect, XenV4VReadOrWrite,
         Transfer, TransferReturns, XenV4VClose, Complete, OthersOpen, OthersClose
<1>2. call.pc = "finish" /\ call.success
  BY <1>1 DEF OpenReturns
<1> QED BY <1>2 DEF KernelInv, ChannelInStep

\* For any handles: but for the two known cases the calls of v4vkapi.h close nothing that is
\* not theirs, whatever values handles get again, and an open that passed over no mishap
\* returns success only on a channel that the driver has bound or connected.
THEOREM KernelHonest == ASSUME None \notin Handles PROVE Spec => KernelKeepsWord
<1>1. KernelInv /\ [Next]_vars => [OthersKept /\ OpenMeansReady]_vars
  BY OthersStay, OpenedReady
<1> QED BY <1>1, Inductive, PTL DEF Spec, KernelKeepsWord
-----------------------------------------------------------------------------
(***************************************************************************)
(* The user mode API                                                       *)
(***************************************************************************)
\* The file is that of a context with overlapped calls.
Overlapped(file) ==
  \E c \in Contexts : context[c].v4vHandle = file /\ context[c].overlapped

\* What makes UserSafe inductive: nothing is pending on the file of a blocking context.
RequestsOwned ==
  \A r \in pending : Overlapped(r.file) /\ (r.new # Null => Overlapped(r.new))

UserInv == UserTypeOK /\ HandlesOwned /\ BlockingMeansDone /\ RequestsOwned

\* A handle that is in use is in one context only.
LEMMA OneContext ==
  ASSUME Null \notin HANDLE, UserTypeOK, HandlesOwned, NEW c \in Contexts, NEW d \in Contexts,
         NEW h \in Held(c), h \in Held(d)
  PROVE  c = d
<1>1. h \in HANDLE /\ objects[h] \in {"file", "event"}
  BY DEF UserTypeOK, HandlesOwned, Held
<1> QED BY <1>1 DEF HandlesOwned

\* Owned files are open, so requests are on open files alone.
LEMMA InvSafe == ASSUME Null \notin HANDLE, UserInv PROVE UserSafe
<1>1. ASSUME NEW r \in pending, NEW h \in {r.file, r.new}, h # Null, Overlapped(h)
      PROVE  objects[h] = "file"
  BY <1>1 DEF UserInv, HandlesOwned, Overlapped
<1>2. \A r \in pending : r.file # Null
  BY DEF UserInv, UserTypeOK
<1> QED BY <1>1, <1>2 DEF UserInv, UserSafe, RequestsOnOpenFiles, RequestsOwned

LEMMA UserInitSafe == ASSUME Null \notin HANDLE, UserInit PROVE UserInv
<1>1. UserTypeOK
  BY DEF UserInit, UserTypeOK, States
<1>2. HandlesOwned /\ BlockingMeansDone /\ RequestsOwned
  BY DEF UserInit, HandlesOwned, BlockingMeansDone, RequestsOwned, Held
<1> QED BY <1>1, <1>2 DEF UserInv

\* Whatever the driver makes of a request of a kind that leads to a state, only the channel
\* the request is about changes, and to that state.
LEMMA RequestTyped ==
  ASSUME UserTypeOK, NEW op \in IOCTLs, NEW overlapped \in BOOLEAN, NEW file \in HANDLE,
         NEW new \in HANDLE \cup {Null}, NEW result \in {"refused", "pending", "done"},
         op = "accept" => new \in HANDLE,
         Request(op, overlapped, file, new, result)
  PROVE  /\ channels' \in [HANDLE -> States]
         /\ pending' \subseteq [op : IOCTLs, file : HANDLE, new : HANDLE \cup {Null}]
<1>1. CASE result = "refused"
  BY <1>1 DEF Request, UserTypeOK
<1>2. CASE result = "pending"
  BY <1>2 DEF Request, UserTypeOK
<1>3. CASE result = "done"
  <2>1. channels' = Reached(op, file, new) /\ pending' = pending
    BY <1>3 DEF Request
  <2>2. op = "query" \/ StateAfter[op] \in States
    BY DEF IOCTLs, States, StateFor, StateAfter
  <2> QED BY <2>1, <2>2 DEF Reached, UserTypeOK
<1> QED BY <1>1, <1>2, <1>3

\* A new channel goes into an empty context, with an overlapped request only if the context
\* has overlapped calls.
LEMMA NewChannelSafe ==
  ASSUME Null \notin HANDLE, UserInv, NEW op \in {"initialize", "accept"},
         NEW into \in Contexts, NEW overlapped \in BOOLEAN, NEW listener, Empty(into),
         op = "accept" => \E c \in Contexts \ {into} :
           /\ listener = context[c].v4vHandle /\ listener # Null
           /\ overlapped = context[c].overlapped,
         NewChannel(op, into, overlapped, listener)
  PROVE  UserInv'
<1>1. CASE UNCHANGED userVars
  BY <1>1 DEF UserInv, UserTypeOK, HandlesOwned, BlockingMeansDone, RequestsOwned, Overlapped,
              Held, userVars
<1>2. ASSUME NEW file \in FreeHandles, NEW event \in FreeHandles,
             NEW result \in {"refused", "pending", "done"}, file # event,
             IF op = "accept" THEN Request(op, overlapped, listener, file, result)
             ELSE Request(op, overlapped, file, Null, result),
             IF ReturnsTrue(overlapped, result)
             THEN /\ objects' = [objects EXCEPT ![file] = "file", ![event] = "event"]
                  /\ context' = [context EXCEPT ![into] =
                       [v4vHandle |-> file, recvEvent |-> event, overlapped |-> overlapped]]
                  /\ known' = [known EXCEPT ![into] = IF overlapped THEN "new" ELSE StateAfter[op]]
             ELSE /\ objects' = BothClosed(objects, file, event)
                  /\ UNCHANGED <<context, known>>
      PROVE  UserInv'
  <2> USE <1>2
  <2>1. op = "accept" => listener \in HANDLE
    BY DEF UserInv, UserTypeOK
  <2>2. file \in HANDLE /\ event \in HANDLE /\ op \in IOCTLs
    BY DEF FreeHandles, IOCTLs, StateFor
  <2>3. /\ channels' \in [HANDLE -> States]
        /\ pending' \subseteq [op : IOCTLs, file : HANDLE, new : HANDLE \cup {Null}]
    <3>1. CASE op = "accept" BY <3>1, <2>1, <2>2, RequestTyped DEF UserInv
    <3>2. CASE op # "accept" BY <3>2, <2>2, RequestTyped DEF UserInv
    <3> QED BY <3>1, <3>2
  <2>4. StateAfter[op] \in States /\ "new" \in States
    BY DEF States, StateAfter
  <2>5. UserTypeOK'
    <3>1. objects' \in [HANDLE -> {"free", "file", "event", "foreign"}]
      BY <2>2 DEF UserInv, UserTypeOK, BothClosed
    <3>2. context' \in [Contexts -> [v4vHandle : HANDLE \cup {Null}, recvEvent : HANDLE \cup {Null},
                                     overlapped : BOOLEAN]]
      BY <2>2 DEF UserInv, UserTypeOK
    <3>3. known' \in [Contexts -> States]
      BY <2>4 DEF UserInv, UserTypeOK
    <3> QED BY <2>3, <3>1, <3>2, <3>3 DEF UserTypeOK
  <2>6. \A c \in Contexts : file \notin Held(c) /\ event \notin Held(c)
    BY <2>2 DEF UserInv, HandlesOwned, Held, FreeHandles
  <2>7. CASE ReturnsTrue(overlapped, result)
    <3>1. /\ objects' = [objects EXCEPT ![file] = "file", ![event] = "event"]
          /\ context' = [context EXCEPT ![into] =
               [v4vHandle |-> file, recvEvent |-> event, overlapped |-> overlapped]]
          /\ known' = [known EXCEPT ![into] = IF overlapped THEN "new" ELSE StateAfter[op]]
      BY <2>7
    <3>2. \A c \in Contexts :
            Held(c)' = IF c = into THEN {file, event} ELSE Held(c)
      BY <3>1, <2>2 DEF UserInv, UserTypeOK, Held
    <3>3. HandlesOwned'
      <4>1. \A h \in HANDLE : objects'[h] \in {"file", "event"} =>
              \E c \in Contexts : h \in Held(c)' /\ \A d \in Contexts \ {c} : h \notin Held(d)'
        <5> SUFFICES ASSUME NEW h \in HANDLE, objects'[h] \in {"file", "event"}
                     PROVE  \E c \in Contexts :
                              h \in Held(c)' /\ \A d \in Contexts \ {c} : h \notin Held(d)'
          OBVIOUS
        <5>1. CASE h \in {file, event}
          BY <5>1, <3>2, <2>6
        <5>2. CASE h \notin {file, event}
          <6>1. objects[h] \in {"file", "event"}
            BY <5>2, <3>1 DEF UserInv, UserTypeOK
          <6>2. PICK c \in Contexts : h \in Held(c) /\ \A d \in Contexts \ {c} : h \notin Held(d)
            BY <6>1 DEF UserInv, HandlesOwned
          <6>3. c # into
            BY <6>2 DEF Empty, Held
          <6> QED BY <6>2, <6>3, <5>2, <3>2
        <5> QED BY <5>1, <5>2
      <4>2. \A c \in Contexts :
              /\ context'[c].v4vHandle # Null => objects'[context'[c].v4vHandle] = "file"
              /\ context'[c].recvEvent # Null => objects'[context'[c].recvEvent] = "event"
        <5> SUFFICES ASSUME NEW c \in Contexts
                     PROVE  /\ context'[c].v4vHandle # Null => objects'[context'[c].v4vHandle] = "file"
                            /\ context'[c].recvEvent # Null => objects'[context'[c].recvEvent] = "event"
          OBVIOUS
        <5>1. CASE c = into
          BY <5>1, <3>1, <2>2 DEF UserInv, UserTypeOK
        <5>2. CASE c # into
          <6>1. context'[c] = context[c]
            BY <5>2, <3>1 DEF UserInv, UserTypeOK
          <6>2. file \notin Held(c) /\ event \notin Held(c)
            BY <2>6
          <6> QED BY <6>1, <6>2, <3>1 DEF UserInv, UserTypeOK, HandlesOwned, Held
        <5> QED BY <5>1, <5>2
      <4> QED BY <4>1, <4>2 DEF HandlesOwned
    <3>4. \A h \in HANDLE \ {file} : channels'[h] = channels[h]
      BY <2>1 DEF Request, Reached, UserInv, UserTypeOK
    <3>5. ~overlapped => channels'[file] = StateAfter[op] /\ pending' = pending
      BY <2>7, <2>1, <2>2 DEF Request, Reached, ReturnsTrue, UserInv, UserTypeOK
    <3>6. BlockingMeansDone'
      <4> SUFFICES ASSUME NEW c \in Contexts, context'[c].v4vHandle # Null,
                          ~context'[c].overlapped
                   PROVE  known'[c] = channels'[context'[c].v4vHandle]
        BY DEF BlockingMeansDone
      <4>1. CASE c = into
        BY <4>1, <3>1, <3>5, <2>2 DEF UserInv, UserTypeOK
      <4>2. CASE c # into
        <5>1. context'[c] = context[c] /\ known'[c] = known[c]
          BY <4>2, <3>1 DEF UserInv, UserTypeOK
        <5>2. context[c].v4vHandle \in HANDLE \ {file}
          BY <5>1, <2>6 DEF UserInv, UserTypeOK, Held
        <5> QED BY <5>1, <5>2, <3>4 DEF UserInv, BlockingMeansDone
      <4> QED BY <4>1, <4>2
    <3>7. \A h : h # Null /\ Overlapped(h) => Overlapped(h)'
      <4> SUFFICES ASSUME NEW h, h # Null, NEW c \in Contexts,
                          context[c].v4vHandle = h, context[c].overlapped
                   PROVE  Overlapped(h)'
        BY DEF Overlapped
      <4>1. c # into
        BY DEF Empty
      <4>2. context'[c] = context[c]
        BY <4>1, <3>1 DEF UserInv, UserTypeOK
      <4> QED BY <4>2 DEF Overlapped
    <3>8. overlapped => Overlapped(file)'
      BY <3>1 DEF Overlapped, UserInv, UserTypeOK
    <3>9. overlapped /\ op = "accept" => Overlapped(listener)
      BY DEF Overlapped
    <3>10. RequestsOwned'
      <4> SUFFICES ASSUME NEW r \in pending'
                   PROVE  Overlapped(r.file)' /\ (r.new # Null => Overlapped(r.new)')
        BY DEF RequestsOwned
      <4>1. CASE r \in pending
        <5>1. r.file # Null
          BY <4>1 DEF UserInv, UserTypeOK
        <5> QED BY <4>1, <5>1, <3>7 DEF UserInv, RequestsOwned
      <4>2. CASE r \notin pending
        <5>1. overlapped /\ pending' # pending
          BY <4>2, <3>5
        <5>2. CASE op = "accept"
          <6>1. r = [op |-> op, file |-> listener, new |-> file]
            BY <5>1, <5>2, <4>2 DEF Request
          <6> QED BY <6>1, <5>1, <5>2, <3>7, <3>8, <3>9
        <5>3. CASE op # "accept"
          <6>1. r = [op |-> op, file |-> file, new |-> Null]
            BY <5>1, <5>3, <4>2 DEF Request
          <6> QED BY <6>1, <5>1, <3>8
        <5> QED BY <5>2, <5>3
      <4> QED BY <4>1, <4>2
    <3> QED BY <2>5, <3>3, <3>6, <3>10 DEF UserInv
  <2>8. CASE ~ReturnsTrue(overlapped, result)
    <3>1. objects' = objects /\ context' = context /\ known' = known
      BY <2>8 DEF BothClosed, FreeHandles, UserInv, UserTypeOK
    <3>2. channels' = channels /\ pending' = pending
      BY <2>8 DEF ReturnsTrue, Request
    <3> QED BY <3>1, <3>2 DEF UserInv, UserTypeOK, HandlesOwned, BlockingMeansDone, RequestsOwned,
                              Overlapped, Held
  <2> QED BY <2>7, <2>8
<1> QED BY <1>1, <1>2 DEF NewChannel

\* A request on an open channel changes the state of its file only, which its context knows
\* if it waits.
LEMMA CallSafe ==
  ASSUME Null \notin HANDLE, UserInv, NEW c \in Contexts,
         NEW op \in IOCTLs \ {"initialize", "accept"}, Call(c, op)
  PROVE  UserInv'
<1> DEFINE file == context[c].v4vHandle
<1>1. PICK result \in {"refused", "pending", "done"} :
        /\ Request(op, context[c].overlapped, file, Null, result)
        /\ known' = IF ~context[c].overlapped /\ op # "query"
                        /\ ReturnsTrue(context[c].overlapped, result)
                     THEN [known EXCEPT ![c] = StateAfter[op]] ELSE known
  BY DEF Call
<1>2. file \in HANDLE /\ objects' = objects /\ context' = context
  BY DEF Call, Usable, UserInv, UserTypeOK
<1>3. op = "query" \/ StateAfter[op] \in States
  BY DEF IOCTLs, StateFor, States, StateAfter
<1>4. UserTypeOK'
  <2>1. context[c].overlapped \in BOOLEAN
    BY DEF UserInv, UserTypeOK
  <2>2. /\ channels' \in [HANDLE -> States]
        /\ pending' \subseteq [op : IOCTLs, file : HANDLE, new : HANDLE \cup {Null}]
    BY <1>1, <1>2, <2>1, RequestTyped DEF UserInv
  <2> QED BY <1>1, <1>2, <1>3, <2>2 DEF UserInv, UserTypeOK
<1>5. HandlesOwned'
  BY <1>2 DEF UserInv, HandlesOwned, Held
<1>6. BlockingMeansDone'
  <2> SUFFICES ASSUME NEW d \in Contexts, context[d].v4vHandle # Null, ~context[d].overlapped
               PROVE  known'[d] = channels'[context[d].v4vHandle]
    BY <1>2 DEF BlockingMeansDone
  <2>1. CASE d = c
    <3>1. CASE result = "done"
      BY <1>1, <1>2, <2>1, <3>1 DEF Request, Reached, ReturnsTrue, UserInv, UserTypeOK, BlockingMeansDone
    <3>2. CASE result # "done"
      BY <1>1, <1>2, <2>1, <3>2 DEF Request, ReturnsTrue, UserInv, BlockingMeansDone
    <3> QED BY <3>1, <3>2
  <2>2. CASE d # c
    <3>1. context[d].v4vHandle # file
      <4>1. context[d].v4vHandle = file => context[d].v4vHandle \in Held(c) /\ context[d].v4vHandle \in Held(d)
        BY DEF Held
      <4> QED BY <4>1, <2>2, OneContext DEF UserInv
    <3>2. context[d].v4vHandle \in HANDLE
      BY DEF UserInv, UserTypeOK
    <3>3. channels'[context[d].v4vHandle] = channels[context[d].v4vHandle]
      BY <1>1, <1>2, <3>1, <3>2 DEF Request, Reached, UserInv, UserTypeOK
    <3>4. known'[d] = known[d]
      BY <1>1, <2>2 DEF UserInv, UserTypeOK
    <3> QED BY <3>3, <3>4 DEF UserInv, BlockingMeansDone
  <2> QED BY <2>1, <2>2
<1>7. RequestsOwned'
  <2>1. \A r \in pending' \ pending :
          context[c].overlapped /\ r = [op |-> op, file |-> file, new |-> Null]
    BY <1>1 DEF Request
  <2>2. \A h : Overlapped(h) => Overlapped(h)'
    BY <1>2 DEF Overlapped
  <2>3. context[c].overlapped => Overlapped(file)
    BY DEF Overlapped
  <2> QED BY <2>1, <2>2, <2>3 DEF UserInv, RequestsOwned
<1> QED BY <1>4, <1>5, <1>6, <1>7 DEF UserInv

\* What a close leaves: none of the handles it closed, in this context or in another, and no
\* request on its file.
LEMMA UserCloseSafe ==
  ASSUME Null \notin HANDLE, UserInv, NEW c \in Contexts, V4vClose(c)
  PROVE  UserInv'
<1>1. PICK S \in SUBSET Held(c) :
        /\ objects' = [h \in HANDLE |-> IF h \in S THEN "free" ELSE objects[h]]
        /\ context' = [context EXCEPT ![c] = WithoutHandles(@, S)]
        /\ channels' = [h \in HANDLE |-> IF h \in S THEN "new" ELSE channels[h]]
        /\ pending' = {r \in pending : r.file \notin S}
        /\ known' = IF context[c].v4vHandle \in S THEN [known EXCEPT ![c] = "new"] ELSE known
  BY DEF V4vClose, Held
<1>2. S \subseteq HANDLE
  BY DEF UserInv, UserTypeOK, Held
<1>3. \A d \in Contexts : Held(d)' = Held(d) \ S
  <2> SUFFICES ASSUME NEW d \in Contexts PROVE Held(d)' = Held(d) \ S
    OBVIOUS
  <2>1. CASE d = c
    <3>1. context'[c] = WithoutHandles(context[c], S)
      BY <1>1 DEF UserInv, UserTypeOK
    <3>2. /\ context'[c].v4vHandle = IF context[c].v4vHandle \in S THEN Null ELSE context[c].v4vHandle
          /\ context'[c].recvEvent = IF context[c].recvEvent \in S THEN Null ELSE context[c].recvEvent
      BY <3>1 DEF WithoutHandles, UserInv, UserTypeOK
    <3> QED BY <2>1, <3>2 DEF Held
  <2>2. CASE d # c
    <3>1. context'[d] = context[d]
      BY <1>1, <2>2 DEF UserInv, UserTypeOK
    <3>2. \A h \in S : h \notin Held(d)
      BY <2>2, OneContext DEF UserInv
    <3> QED BY <3>1, <3>2 DEF Held
  <2> QED BY <2>1, <2>2
<1>4. \A d \in Contexts :
        /\ context'[d].v4vHandle = IF context[d].v4vHandle \in S THEN Null ELSE context[d].v4vHandle
        /\ context'[d].recvEvent = IF context[d].recvEvent \in S THEN Null ELSE context[d].recvEvent
        /\ context'[d].overlapped = context[d].overlapped
  <2> SUFFICES ASSUME NEW d \in Contexts
               PROVE  /\ context'[d].v4vHandle = IF context[d].v4vHandle \in S THEN Null ELSE context[d].v4vHandle
                      /\ context'[d].recvEvent = IF context[d].recvEvent \in S THEN Null ELSE context[d].recvEvent
                      /\ context'[d].overlapped = context[d].overlapped
    OBVIOUS
  <2>1. CASE d = c
    <3>1. context'[c] = WithoutHandles(context[c], S)
      BY <1>1 DEF UserInv, UserTypeOK
    <3> QED BY <2>1, <3>1 DEF WithoutHandles, UserInv, UserTypeOK
  <2>2. CASE d # c
    <3>1. context'[d] = context[d]
      BY <1>1, <2>2 DEF UserInv, UserTypeOK
    <3>2. \A h \in S : h \notin Held(d)
      BY <2>2, OneContext DEF UserInv
    <3>3. Null \notin S
      BY <1>2
    <3> QED BY <3>1, <3>2, <3>3 DEF Held
  <2> QED BY <2>1, <2>2
<1>5. UserTypeOK'
  <2>1. context' \in [Contexts -> [v4vHandle : HANDLE \cup {Null}, recvEvent : HANDLE \cup {Null},
                                   overlapped : BOOLEAN]]
    <3>1. WithoutHandles(context[c], S) \in
            [v4vHandle : HANDLE \cup {Null}, recvEvent : HANDLE \cup {Null}, overlapped : BOOLEAN]
      BY DEF WithoutHandles, UserInv, UserTypeOK
    <3> QED BY <1>1, <3>1 DEF UserInv, UserTypeOK
  <2>2. "new" \in States
    BY DEF States
  <2> QED BY <1>1, <2>1, <2>2 DEF UserInv, UserTypeOK
<1>6. HandlesOwned'
  <2>1. \A h \in HANDLE : objects'[h] \in {"file", "event"} =>
          \E d \in Contexts : h \in Held(d)' /\ \A e \in Contexts \ {d} : h \notin Held(e)'
    BY <1>1, <1>3 DEF UserInv, HandlesOwned
  <2>2. \A d \in Contexts :
          /\ context'[d].v4vHandle # Null => objects'[context'[d].v4vHandle] = "file"
          /\ context'[d].recvEvent # Null => objects'[context'[d].recvEvent] = "event"
    BY <1>1, <1>4 DEF UserInv, UserTypeOK, HandlesOwned
  <2> QED BY <2>1, <2>2 DEF HandlesOwned
<1>7. BlockingMeansDone'
  <2> SUFFICES ASSUME NEW d \in Contexts, context'[d].v4vHandle # Null, ~context'[d].overlapped
               PROVE  known'[d] = channels'[context'[d].v4vHandle]
    BY DEF BlockingMeansDone
  <2>1. /\ context'[d].v4vHandle = context[d].v4vHandle /\ context[d].v4vHandle \notin S
        /\ ~context[d].overlapped
    BY <1>4
  <2>2. known'[d] = known[d]
    BY <1>1, <2>1 DEF UserInv, UserTypeOK
  <2>3. channels'[context[d].v4vHandle] = channels[context[d].v4vHandle]
    BY <1>1, <2>1 DEF UserInv, UserTypeOK
  <2> QED BY <2>1, <2>2, <2>3 DEF UserInv, BlockingMeansDone
<1>8. RequestsOwned'
  <2>1. \A h : Overlapped(h) /\ h # Null /\ h \notin S => Overlapped(h)'
    BY <1>4 DEF Overlapped
  <2>2. \A r \in pending : r.new # Null => r.new \notin S
    <3> SUFFICES ASSUME NEW r \in pending, r.new # Null, r.new \in S PROVE FALSE
      OBVIOUS
    <3>1. r.new # context[c].v4vHandle
      BY DEF V4vClose, AcceptingInto
    <3>2. r.new = context[c].recvEvent /\ objects[r.new] = "event"
      BY <3>1 DEF Held, UserInv, HandlesOwned
    <3>3. objects[r.new] = "file"
      BY DEF UserInv, RequestsOwned, Overlapped, HandlesOwned
    <3> QED BY <3>2, <3>3
  <2>3. \A r \in pending : r.file # Null
    BY DEF UserInv, UserTypeOK
  <2> QED BY <1>1, <2>1, <2>2, <2>3 DEF UserInv, RequestsOwned
<1> QED BY <1>5, <1>6, <1>7, <1>8 DEF UserInv

\* The driver changes the channels of overlapped files only.
LEMMA UserCompleteSafe ==
  ASSUME Null \notin HANDLE, UserInv, NEW r \in pending, CompleteRequest(r)
  PROVE  UserInv'
<1>1. /\ pending' = pending \ {r} /\ UNCHANGED <<objects, context, known>>
      /\ channels' = channels \/ channels' = Reached(r.op, r.file, r.new)
  BY DEF CompleteRequest
<1>2. /\ r.op \in IOCTLs /\ r.file \in HANDLE /\ r.new \in HANDLE \cup {Null}
  BY DEF UserInv, UserTypeOK
<1>3. r.op = "query" \/ StateAfter[r.op] \in States
  BY <1>2 DEF IOCTLs, StateFor, States, StateAfter
<1>4. UserTypeOK'
  <2>1. channels' \in [HANDLE -> States]
    BY <1>1, <1>2, <1>3 DEF Reached, UserInv, UserTypeOK
  <2> QED BY <1>1, <2>1 DEF UserInv, UserTypeOK
<1>5. HandlesOwned' /\ RequestsOwned'
  BY <1>1 DEF UserInv, HandlesOwned, Held, RequestsOwned, Overlapped
<1>6. BlockingMeansDone'
  <2> SUFFICES ASSUME NEW d \in Contexts, context[d].v4vHandle # Null, ~context[d].overlapped
               PROVE  known[d] = channels'[context[d].v4vHandle]
    BY <1>1 DEF BlockingMeansDone
  <2>1. ASSUME NEW h, h # Null, Overlapped(h) PROVE h # context[d].v4vHandle
    <3>1. PICK e \in Contexts : context[e].v4vHandle = h /\ context[e].overlapped
      BY <2>1 DEF Overlapped
    <3>2. h \in Held(e)
      BY <2>1, <3>1 DEF Held
    <3>3. h = context[d].v4vHandle => h \in Held(d)
      BY <2>1 DEF Held
    <3> QED BY <3>1, <3>2, <3>3, OneContext DEF UserInv
  <2>2. context[d].v4vHandle # r.file /\ context[d].v4vHandle # r.new
    BY <2>1, <1>2 DEF UserInv, RequestsOwned
  <2>3. channels'[context[d].v4vHandle] = channels[context[d].v4vHandle]
    BY <1>1, <2>2 DEF Reached, UserInv, UserTypeOK
  <2> QED BY <2>3 DEF UserInv, BlockingMeansDone
<1> QED BY <1>4, <1>5, <1>6 DEF UserInv

LEMMA UserOthersSafe ==
  ASSUME Null \notin HANDLE, UserInv, NEW h \in HANDLE, OthersOpenOrClose(h)
  PROVE  UserInv'
<1>1. objects' \in [HANDLE -> {"free", "file", "event", "foreign"}]
  BY DEF OthersOpenOrClose, UserInv, UserTypeOK
<1>2. HandlesOwned'
  BY DEF OthersOpenOrClose, UserInv, UserTypeOK, HandlesOwned, Held
<1> QED BY <1>1, <1>2 DEF OthersOpenOrClose, UserInv, UserTypeOK, BlockingMeansDone, RequestsOwned,
                          Overlapped

LEMMA UserNextSafe == ASSUME Null \notin HANDLE, UserInv, UserNext PROVE UserInv'
<1>1. ASSUME NEW c \in Contexts, V4vOpen(c) PROVE UserInv'
  <2>1. context[c].overlapped \in BOOLEAN
    BY DEF UserInv, UserTypeOK
  <2> QED BY <1>1, <2>1, NewChannelSafe DEF V4vOpen
<1>2. ASSUME NEW c \in Contexts, NEW d \in Contexts, V4vAccept(c, d) PROVE UserInv'
  <2>1. context[c].overlapped \in BOOLEAN
    BY DEF UserInv, UserTypeOK
  <2>2. c # d /\ context[c].v4vHandle # Null
    BY <1>2 DEF V4vAccept, Usable, Empty
  <2> QED BY <1>2, <2>1, <2>2, NewChannelSafe DEF V4vAccept
<1>3. ASSUME NEW c \in Contexts,
             \/ V4vBind(c) \/ V4vListen(c) \/ V4vConnect(c) \/ V4vConnectWait(c)
             \/ V4vDisconnect(c) \/ V4vGetInfo(c) \/ V4vDumpRing(c)
      PROVE  UserInv'
  <2>1. PICK op \in {"bind", "listen", "connect", "wait", "disconnect", "query"} : Call(c, op)
    BY <1>3 DEF V4vBind, V4vListen, V4vConnect, V4vConnectWait, V4vDisconnect, V4vGetInfo,
                V4vDumpRing
  <2>2. op \in IOCTLs \ {"initialize", "accept"}
    BY DEF IOCTLs, StateFor
  <2> QED BY <2>1, <2>2, CallSafe
<1> QED BY <1>1, <1>2, <1>3, UserCloseSafe, UserCompleteSafe, UserOthersSafe DEF UserNext

\* In any number of contexts, with any failures, pending requests and handles whose values
\* are used again: the calls of v4vapi.h lose and mix up no handle, leave no request on a
\* closed file, and return TRUE only for what has happened.
THEOREM UserCorrect == ASSUME Null \notin HANDLE PROVE UserSpec => []UserSafe
<1>1. UserInit => UserInv
  BY UserInitSafe
<1>2. UserInv /\ [UserNext]_userVars => UserInv'
  <2>1. ASSUME UserInv, UNCHANGED userVars PROVE UserInv'
    BY <2>1 DEF UserInv, UserTypeOK, HandlesOwned, BlockingMeansDone, RequestsOwned, Overlapped,
                Held, userVars
  <2> QED BY <2>1, UserNextSafe
<1>3. UserInv => UserSafe
  BY InvSafe
<1> QED BY <1>1, <1>2, <1>3, PTL DEF UserSpec
=============================================================================
