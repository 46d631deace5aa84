------------------------------ MODULE V4vRing ------------------------------
(***************************************************************************)
(* inc/v4v.h: the reader of a ring of V4V datagrams, whose writer is the   *)
(* hypervisor. A line is two bytes (sixteen in the code) and a header is   *)
(* one line. A byte of payload is its place in the datagram.               *)
(***************************************************************************)
EXTENDS Integers, Sequences

CONSTANTS
  RingLen,  \* r->len, a multiple of the line: lines 184 and 328 count on that, 142 asks for half
  MaxLen    \* the longest payload

Line == 2
Header == Line

ASSUME RingLenAssumption == RingLen \in Nat \ {0} /\ RingLen % Line = 0 /\ MaxLen \in Nat

VARIABLES
  ring,    \* the bytes; a header shows the length of header and payload
  tx_ptr,  \* written by the hypervisor
  rx_ptr,  \* written by the reader
  reading  \* the reader is between its look at tx_ptr and its copying

ringVars == <<ring, tx_ptr, rx_ptr, reading>>

Lines == {i \in 0..(RingLen - 1) : i % Line = 0}

RingTypeOK ==
  /\ ring \in [0..(RingLen - 1) -> 0..(MaxLen + Header)]
  /\ tx_ptr \in Lines /\ rx_ptr \in Lines /\ reading \in BOOLEAN

\* V4V_ROUNDUP, a slip first: down to the line.
RoundDown(n) == (n \div Line) * Line
Roundup(n) == ((n + Line - 1) \div Line) * Line

Around(i) == IF i = RingLen THEN 0 ELSE i

BytesToRead == IF tx_ptr >= rx_ptr THEN tx_ptr - rx_ptr ELSE RingLen + tx_ptr - rx_ptr
Available == BytesToRead >= Header /\ BytesToRead >= ring[rx_ptr]

Least(a, b) == IF a < b THEN a ELSE b
Bytes(from, n) == [i \in 1..n |-> ring[from + i - 1]]

\* The payload, its first part and, if it goes on at the front of the ring, its second:
\* where it starts, how many bytes are copied of the t asked for, where it ends. A slip
\* first: it ends where copying ends.
PayloadAsCopied(t) ==
  LET start == Around(rx_ptr + Header)
      len == ring[rx_ptr] - Header
  IN  [bytes |-> Bytes(start, Least(t, Least(len, RingLen - start))),
       end |-> (start + Roundup(Least(t, len))) % RingLen]

Payload(t) ==
  LET start == Around(rx_ptr + Header)
      len == ring[rx_ptr] - Header
      bte == RingLen - start
  IN  IF bte < len
      THEN [bytes |-> Bytes(start, Least(t, bte))
                        \o (IF t > bte THEN Bytes(0, Least(t - bte, len - bte)) ELSE <<>>),
            end |-> Around(Roundup(len - bte))]
      ELSE [bytes |-> Bytes(start, Least(t, len)), end |-> Around(start + Roundup(len))]

\* v4v_memcpy_skip: skip bytes are left out of the parts as if they were one.
Skipped(bytes, skip) == SubSeq(bytes, skip + 1, Len(bytes))

\* v4v_copy_out_offset (v4v_copy_out with skip 0): the length it returns, what it copies.
CopyOut(t, skip) ==
  <<ring[rx_ptr] - Header, Skipped(Payload(t).bytes, skip)>>

\* The hypervisor never fills the ring to the last line.
Send(len) ==
  LET at(i) == (tx_ptr + i) % RingLen
      total == Header + Roundup(len)
  IN  /\ total < RingLen - BytesToRead
      /\ ring' = [j \in DOMAIN ring |->
           IF j = tx_ptr THEN Header + len
           ELSE IF \E i \in Header..(Header + len - 1) : at(i) = j
           THEN (j - tx_ptr - Header) % RingLen
           ELSE ring[j]]
      /\ tx_ptr' = at(total)
      /\ UNCHANGED <<rx_ptr, reading>>

Look ==
  /\ ~reading /\ Available
  /\ reading' = TRUE
  /\ UNCHANGED <<ring, tx_ptr, rx_ptr>>

\* Copied, and consumed if the caller asks for it.
Copy(t, consume) ==
  /\ reading
  /\ rx_ptr' = IF consume THEN Payload(t).end ELSE rx_ptr
  /\ reading' = FALSE
  /\ UNCHANGED <<ring, tx_ptr>>

RingInit ==
  /\ ring = [i \in 0..(RingLen - 1) |-> 0]
  /\ tx_ptr = 0 /\ rx_ptr = 0 /\ reading = FALSE

RingNext ==
  \/ \E len \in 0..MaxLen : Send(len)
  \/ Look
  \/ \E t \in 0..MaxLen, consume \in BOOLEAN : Copy(t, consume)

RingSpec == RingInit /\ [][RingNext]_ringVars
-----------------------------------------------------------------------------
\* Whatever the ends of ring and datagram, and wherever the caller's buffer ends: the bytes
\* copied are those of the datagram, from the first that is not skipped on, in their order.
ReadsPayload ==
  reading =>
    \A t \in 0..MaxLen, skip \in 0..MaxLen :
      LET n == CopyOut(t, skip)[1]
          upto == Least(t, n)
      IN  CopyOut(t, skip)[2] = [i \in 1..(IF skip < upto THEN upto - skip ELSE 0) |-> skip + i - 1]

\* What holds of the ring and its pointers.
ReaderSafe == RingTypeOK /\ ReadsPayload

\* The datagrams from rx_ptr on: where each starts, how many there are before tx_ptr
\* (RingLen, if the walk over them does not get there), and their lengths.
Following == [i \in 0..(RingLen - 1) |-> (i + Roundup(ring[i])) % RingLen]
Walk[k \in Nat] == IF k = 0 THEN rx_ptr ELSE Following[Walk[k - 1]]
Count == CHOOSE n \in 0..RingLen : (Walk[n] = tx_ptr \/ n = RingLen)
                                   /\ \A k \in 0..(n - 1) : Walk[k] # tx_ptr
Queued == [k \in 1..Count |-> ring[Walk[k - 1]] - Header]

Queue == INSTANCE DatagramQueue WITH Datagrams <- 0..MaxLen, queue <- Queued

\* Consuming a datagram, and not looking at one, brings the reader to the next, with none
\* left out, whatever arrives meanwhile.
ImplementsQueue == Queue!Spec
=============================================================================
