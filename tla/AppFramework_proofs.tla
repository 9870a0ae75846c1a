------------------------- MODULE AppFramework_proofs -------------------------
(***************************************************************************)
(* Proofs about the two parts of app_framework.                            *)
(*                                                                         *)
(* The ring buffer keeps its counters consistent and implements the queue  *)
(* of ByteQueue, whatever its length, its bytes and the data written.      *)
(*                                                                         *)
(* The message bus, for any set of services, of sending threads and of     *)
(* heap blocks and any number of messages.  TypeOK is not inductive        *)
(* by itself: that an application may read the entry it has popped is      *)
(* BlockOwnership (nobody freed it), that the distribution may read the    *)
(* object under its cursor is NoDanglingApp; IInv has all three and        *)
(* ControlInv, and is preserved by every step.  Sending order needs more:  *)
(* OrderInv says of every place between a sender and an application that   *)
(* it is in order and newer than all that is further down.                 *)
(***************************************************************************)
EXTENDS AppFramework, RingBuffer, Queues_proofs

-----------------------------------------------------------------------------
(* The ring buffer                                                          *)

\* What reading n bytes of a memory from an offset yields.
Bytes_from(buf, r, n) ==
  [i \in 1..n |-> IF i <= ring_buffer_len - r THEN buf[r + i - 1]
                                              ELSE buf[i - (ring_buffer_len - r) - 1]]

LEMMA BytesFrom ==
  ASSUME NEW buf \in [Offsets -> Bytes], NEW r \in Offsets,
         NEW n \in 0..ring_buffer_len
  PROVE  /\ Bytes_from(buf, r, n) \in Seq(Bytes)
         /\ Len(Bytes_from(buf, r, n)) = n
<1>1. \A i \in 1..n : (IF i <= ring_buffer_len - r THEN buf[r + i - 1]
                         ELSE buf[i - (ring_buffer_len - r) - 1]) \in Bytes
  BY LenAssumption DEF Offsets
<1>2. Bytes_from(buf, r, n) \in [1..n -> Bytes]
  BY <1>1 DEF Bytes_from
<1> QED
  BY <1>2

\* The bytes that are read are the model's memcpys.
LEMMA CopyOutIs == \A n : CopyOut(n) = Bytes_from(ring_buffer, read_addr, n)
BY DEF CopyOut, Bytes_from

LEMMA ContentsIs ==
  /\ Contents = Bytes_from(ring_buffer, read_addr, curr_len)
  /\ Contents' = Bytes_from(ring_buffer', read_addr', curr_len')
BY DEF Contents, CopyOut, Bytes_from

-----------------------------------------------------------------------------
(* The counters of app_ring_buffer.c                                       *)

\* The two conjuncts support each other: that an address stays in the memory
\* needs the bound on curr_len, and that a write has room needs both.
RingInv == RingTypeOK /\ AddressesAgree

\* An address that moves by n goes round the memory once at most.
LEMMA AdvanceFacts ==
  ASSUME NEW a \in Offsets, NEW n \in 0..ring_buffer_len
  PROVE  /\ Advance(a, n) \in Offsets
         /\ Advance(a, n) = IF a + n < ring_buffer_len THEN a + n
                                                       ELSE a + n - ring_buffer_len
BY LenAssumption DEF Advance, Offsets

\* The memory after a write is still one.
LEMMA CopyInType ==
  ASSUME RingTypeOK, NEW data \in Seq(Bytes), NEW n \in 0..ring_buffer_len, n <= Len(data)
  PROVE  CopyIn(data, n) \in [Offsets -> Bytes]
<1>1. \A k \in 1..Len(data) : data[k] \in Bytes
  OBVIOUS
<1> QED
  BY <1>1, LenAssumption DEF RingTypeOK, CopyIn, Offsets

LEMMA InitRingInv == RingInit => RingInv
BY LenAssumption DEF RingInit, RingInv, RingTypeOK, AddressesAgree, Offsets

LEMMA TakeIInv ==
  ASSUME RingInv, NEW n \in 0..curr_len, Take(n)
  PROVE  RingInv'
<1> n \in 0..ring_buffer_len
  BY LenAssumption DEF RingInv, RingTypeOK
<1>1. data_out' \in Seq(Bytes)
  BY BytesFrom, CopyOutIs DEF Take, RingInv, RingTypeOK
<1>2. /\ read_addr' \in Offsets
      /\ read_addr' = IF read_addr + n < ring_buffer_len THEN read_addr + n
                                       ELSE read_addr + n - ring_buffer_len
  BY AdvanceFacts DEF Take, RingInv, RingTypeOK
<1>3. RingTypeOK'
  BY <1>1, <1>2, LenAssumption DEF Take, RingInv, RingTypeOK
<1>4. AddressesAgree'
  BY <1>2, LenAssumption DEF Take, RingInv, RingTypeOK, AddressesAgree, Offsets
<1> QED
  BY <1>3, <1>4 DEF RingInv

\* Every read is a Take of as many bytes as there are, or nothing.
LEMMA ReadIsTake ==
  ASSUME RingInv, NEW size \in Sizes
  PROVE  /\ Read(size) /\ curr_len > 0 =>
              Take(IF size <= curr_len THEN size ELSE curr_len)
         /\ Read(size) /\ curr_len = 0 => Nothing
         /\ Readn(size) /\ size <= curr_len => Take(size)
         /\ Readn(size) /\ ~(size <= curr_len) => Nothing
BY LenAssumption DEF RingInv, RingTypeOK, Sizes, Read, Readn

LEMMA WriteFacts ==
  ASSUME RingInv, NEW data \in Inputs, curr_len < ring_buffer_len
  PROVE  /\ data \in Seq(Bytes)
         /\ Len(data) \in Nat
         /\ WriteLen(data) \in 1..ring_buffer_len
         /\ WriteLen(data) <= Len(data)
         /\ WriteLen(data) <= ring_buffer_len - curr_len
<1>1. data \in Seq(Bytes) /\ data # << >>
  BY InputsAssumption
<1>2. Len(data) \in Nat \ {0}
  BY <1>1, EmptySeq
<1> QED
  BY <1>1, <1>2, LenAssumption DEF RingInv, RingTypeOK, WriteLen

LEMMA WriteIInv ==
  ASSUME RingInv, NEW data \in Inputs, Write(data)
  PROVE  RingInv'
<1>1. CASE ~(curr_len < ring_buffer_len)
  BY <1>1, LenAssumption DEF RingInv, RingTypeOK, AddressesAgree, Write
<1>2. CASE curr_len < ring_buffer_len
  <2> DEFINE n == WriteLen(data)
  <2>1. /\ data \in Seq(Bytes) /\ n \in 0..ring_buffer_len /\ n <= Len(data)
        /\ n <= ring_buffer_len - curr_len
    BY <1>2, WriteFacts
  <2>2. /\ ring_buffer' = CopyIn(data, n)
        /\ write_addr' = Advance(write_addr, n)
        /\ curr_len' = curr_len + n
        /\ ret' = n
        /\ UNCHANGED <<read_addr, data_out>>
    <3>1. ~(curr_len >= ring_buffer_len)
      BY <1>2, LenAssumption DEF RingInv, RingTypeOK
    <3> QED
      BY <3>1, Zenon DEF Write
  <2> HIDE DEF n
  <2>3. ring_buffer' \in [Offsets -> Bytes]
    BY <2>1, <2>2, CopyInType DEF RingInv
  <2>4. /\ write_addr' \in Offsets
        /\ write_addr' = IF write_addr + n < ring_buffer_len THEN write_addr + n
                                        ELSE write_addr + n - ring_buffer_len
    BY <2>1, <2>2, AdvanceFacts DEF RingInv, RingTypeOK
  <2>5. RingTypeOK'
    BY <2>1, <2>2, <2>3, <2>4, LenAssumption DEF RingInv, RingTypeOK
  <2>6. AddressesAgree'
    BY <2>1, <2>2, <2>4, LenAssumption DEF RingInv, RingTypeOK, AddressesAgree, Offsets
  <2> QED
    BY <2>5, <2>6 DEF RingInv
<1> QED
  BY <1>1, <1>2

LEMMA NothingRingInv == ASSUME RingInv, Nothing PROVE RingInv'
BY LenAssumption, EmptySeq DEF RingInv, RingTypeOK, AddressesAgree, Nothing

LEMMA NextRingInv == RingInv /\ [RingNext]_ringVars => RingInv'
<1> SUFFICES ASSUME RingInv, [RingNext]_ringVars PROVE RingInv'
  OBVIOUS
<1>1. ASSUME NEW data \in Inputs, Write(data) PROVE RingInv'
  BY <1>1, WriteIInv
<1>2. ASSUME NEW size \in Sizes, Read(size) PROVE RingInv'
  <2>1. curr_len \in Nat /\ size \in Nat
    BY LenAssumption DEF RingInv, RingTypeOK, Sizes
  <2> QED
    BY <1>2, <2>1, ReadIsTake, TakeIInv, NothingRingInv
<1>3. ASSUME NEW size \in Sizes, Readn(size) PROVE RingInv'
  <2>1. curr_len \in Nat /\ size \in Nat
    BY LenAssumption DEF RingInv, RingTypeOK, Sizes
  <2> QED
    BY <1>3, <2>1, ReadIsTake, TakeIInv, NothingRingInv
<1>4. CASE Clear
  BY <1>4, LenAssumption DEF RingInv, RingTypeOK, AddressesAgree, Clear, Offsets
<1>5. CASE UNCHANGED ringVars
  BY <1>5 DEF RingInv, RingTypeOK, AddressesAgree, ringVars
<1> QED
  BY <1>1, <1>2, <1>3, <1>4, <1>5 DEF RingNext

LEMMA RingInvAlways == RingSpec => []RingInv
BY InitRingInv, NextRingInv, PTL DEF RingSpec

\* The counters of the buffer stay in the memory: curr_len, which is unsigned,
\* never passes below 0 or above the length.
THEOREM RingTypeCorrect == RingSpec => []RingTypeOK
<1>1. RingInv => RingTypeOK
  BY DEF RingInv
<1> QED
  BY <1>1, RingInvAlways, PTL

\* write_addr is always curr_len bytes after read_addr.
THEOREM AddressesCorrect == RingSpec => []AddressesAgree
<1>1. RingInv => AddressesAgree
  BY DEF RingInv
<1> QED
  BY <1>1, RingInvAlways, PTL

-----------------------------------------------------------------------------
(* The queue                                                                *)

\* Two sequences of bytes with the same length and the same bytes are equal.
LEMMA SameBytes ==
  ASSUME NEW s \in Seq(Bytes), NEW t \in Seq(Bytes), Len(s) = Len(t),
         \A i \in 1..Len(s) : s[i] = t[i]
  PROVE  s = t
BY SeqEqual

\* Reading n bytes yields the first n of the longer read from the same place.
LEMMA Prefix ==
  ASSUME NEW buf \in [Offsets -> Bytes], NEW r \in Offsets,
         NEW m \in 0..ring_buffer_len, NEW n \in 0..m
  PROVE  Bytes_from(buf, r, n) = SubSeq(Bytes_from(buf, r, m), 1, n)
<1> DEFINE s == Bytes_from(buf, r, m)
           t == Bytes_from(buf, r, n)
<1>1. /\ s \in Seq(Bytes) /\ Len(s) = m
      /\ t \in Seq(Bytes) /\ Len(t) = n
  BY BytesFrom, LenAssumption
<1>2. \A i \in 1..n : t[i] = s[i]
  BY LenAssumption DEF Bytes_from
<1> HIDE DEF s, t
<1>3. \A i \in 1..n : s[i] \in Bytes
  BY <1>1, ElementOfSeq
<1>4. /\ SubSeq(s, 1, n) \in Seq(Bytes)
      /\ Len(SubSeq(s, 1, n)) = n
      /\ \A i \in 1..n : SubSeq(s, 1, n)[i] = s[i]
  BY <1>3, SubSeqProperties
<1>5. t = SubSeq(s, 1, n)
  BY <1>1, <1>2, <1>4, SameBytes
<1> QED
  BY <1>5 DEF s, t

\* What is left after n bytes is what follows them, read from n further on.
LEMMA Suffix ==
  ASSUME NEW buf \in [Offsets -> Bytes], NEW r \in Offsets,
         NEW m \in 0..ring_buffer_len, NEW n \in 0..m
  PROVE  Bytes_from(buf, Advance(r, n), m - n) = SubSeq(Bytes_from(buf, r, m), n + 1, m)
<1> DEFINE s == Bytes_from(buf, r, m)
           t == Bytes_from(buf, Advance(r, n), m - n)
<1>0. Advance(r, n) \in Offsets /\ n \in 0..ring_buffer_len /\ m - n \in 0..ring_buffer_len
  BY AdvanceFacts, LenAssumption
<1>1. /\ s \in Seq(Bytes) /\ Len(s) = m
      /\ t \in Seq(Bytes) /\ Len(t) = m - n
  BY <1>0, BytesFrom
<1>2. \A i \in 1..m - n : t[i] = s[n + i]
  <2> SUFFICES ASSUME NEW i \in 1..m - n PROVE t[i] = s[n + i]
    OBVIOUS
  <2> DEFINE a == Advance(r, n)
  <2>1. t[i] = IF i <= ring_buffer_len - a THEN buf[a + i - 1]
                                           ELSE buf[i - (ring_buffer_len - a) - 1]
    BY DEF Bytes_from
  <2>2. n + i \in 1..m
    BY LenAssumption
  <2>3. s[n + i] = IF n + i <= ring_buffer_len - r
                     THEN buf[r + (n + i) - 1]
                     ELSE buf[(n + i) - (ring_buffer_len - r) - 1]
    BY <2>2 DEF Bytes_from
  <2>4. a = IF r + n < ring_buffer_len THEN r + n ELSE r + n - ring_buffer_len
    BY <1>0, AdvanceFacts
  <2> HIDE DEF a, s, t
  <2>5. CASE r + n < ring_buffer_len
    BY <2>1, <2>3, <2>4, <2>5, LenAssumption DEF Offsets
  <2>6. CASE ~(r + n < ring_buffer_len)
    BY <2>1, <2>3, <2>4, <2>6, LenAssumption DEF Offsets
  <2> QED
    BY <2>5, <2>6
<1> HIDE DEF s, t
<1>3. \A i \in n + 1..m : s[i] \in Bytes
  BY <1>1, ElementOfSeq
<1>4. /\ SubSeq(s, n + 1, m) \in Seq(Bytes)
      /\ Len(SubSeq(s, n + 1, m)) = m - n
      /\ \A i \in 1..m - n : SubSeq(s, n + 1, m)[i] = s[n + i]
  BY <1>3, SubSeqProperties
<1>5. t = SubSeq(s, n + 1, m)
  BY <1>1, <1>2, <1>4, SameBytes
<1> QED
  BY <1>5 DEF s, t

\* A write appends: the memory after it, read from the same place, holds what
\* it held and then the n bytes of data, and nothing it held is overwritten.
LEMMA Extension ==
  ASSUME RingInv, NEW data \in Seq(Bytes), NEW n \in 0..ring_buffer_len,
         n <= Len(data), n <= ring_buffer_len - curr_len
  PROVE  Bytes_from(CopyIn(data, n), read_addr, curr_len + n)
           = Contents \o SubSeq(data, 1, n)
<1> DEFINE s == Bytes_from(ring_buffer, read_addr, curr_len)
           d == SubSeq(data, 1, n)
           t == Bytes_from(CopyIn(data, n), read_addr, curr_len + n)
<1>0. /\ ring_buffer \in [Offsets -> Bytes] /\ read_addr \in Offsets
      /\ curr_len \in 0..ring_buffer_len /\ curr_len + n \in 0..ring_buffer_len
      /\ CopyIn(data, n) \in [Offsets -> Bytes]
  BY CopyInType, LenAssumption DEF RingInv, RingTypeOK
<1>1. /\ s \in Seq(Bytes) /\ Len(s) = curr_len
      /\ t \in Seq(Bytes) /\ Len(t) = curr_len + n
  BY <1>0, BytesFrom
<1>2. \A i \in 1..n : data[i] \in Bytes
  BY ElementOfSeq
<1>3. /\ d \in Seq(Bytes)
      /\ Len(d) = n
      /\ \A i \in 1..n : d[i] = data[i]
  BY <1>2, SubSeqProperties
<1>4. \A i \in 1..curr_len : t[i] = s[i]
  BY <1>0, LenAssumption DEF Bytes_from, CopyIn, Offsets, RingInv, AddressesAgree, RingTypeOK
<1>5. \A i \in curr_len + 1..curr_len + n : t[i] = data[i - curr_len]
  <2> SUFFICES ASSUME NEW i \in curr_len + 1..curr_len + n
               PROVE  t[i] = data[i - curr_len]
    OBVIOUS
  <2> DEFINE buf == CopyIn(data, n)
             k == IF i <= ring_buffer_len - read_addr
                    THEN read_addr + i - 1
                    ELSE i - (ring_buffer_len - read_addr) - 1
  <2>1. i \in 1..curr_len + n
    BY <1>0, LenAssumption
  <2>2. t[i] = buf[k]
    BY <2>1 DEF Bytes_from
  <2>3. k \in Offsets
    BY <1>0, <2>1, LenAssumption DEF Offsets
  <2>4. buf[k] = IF k >= write_addr /\ k < write_addr + n
                   THEN data[k - write_addr + 1]
                   ELSE IF k < n - (ring_buffer_len - write_addr)
                          THEN data[k + (ring_buffer_len - write_addr) + 1]
                          ELSE ring_buffer[k]
    BY <2>3 DEF CopyIn
  <2>5. \/ /\ k >= write_addr /\ k < write_addr + n
           /\ k - write_addr + 1 = i - curr_len
        \/ /\ ~(k >= write_addr /\ k < write_addr + n)
           /\ k < n - (ring_buffer_len - write_addr)
           /\ k + (ring_buffer_len - write_addr) + 1 = i - curr_len
    <3>1. write_addr = IF read_addr + curr_len < ring_buffer_len
                         THEN read_addr + curr_len
                         ELSE read_addr + curr_len - ring_buffer_len
      BY DEF RingInv, AddressesAgree
    <3> QED
      BY <1>0, <3>1, LenAssumption DEF Offsets
  <2> HIDE DEF buf, k, t
  <2> QED
    BY <2>2, <2>4, <2>5
<1> HIDE DEF s, d, t
<1>6. /\ s \o d \in Seq(Bytes)
      /\ Len(s \o d) = curr_len + n
      /\ \A i \in 1..curr_len + n :
            (s \o d)[i] = IF i <= curr_len THEN s[i] ELSE d[i - curr_len]
  BY <1>1, <1>3, ConcatProperties
<1>7. \A i \in 1..curr_len + n : t[i] = (s \o d)[i]
  <2> SUFFICES ASSUME NEW i \in 1..curr_len + n PROVE t[i] = (s \o d)[i]
    OBVIOUS
  <2>1. CASE i <= curr_len
    <3>1. i \in 1..curr_len
      BY <1>0, <2>1
    <3> QED
      BY <3>1, <2>1, <1>4, <1>6
  <2>2. CASE ~(i <= curr_len)
    <3>1. i \in curr_len + 1..curr_len + n /\ i - curr_len \in 1..n
      BY <1>0, <2>2
    <3>2. t[i] = data[i - curr_len] /\ d[i - curr_len] = data[i - curr_len]
      BY <3>1, <1>3, <1>5
    <3>3. (s \o d)[i] = d[i - curr_len]
      BY <2>2, <1>6
    <3> QED
      BY <3>2, <3>3
  <2> QED
    BY <2>1, <2>2
<1>8. t = s \o d
  BY <1>1, <1>6, <1>7, SameBytes
<1> QED
  BY <1>8, ContentsIs DEF s, d, t

\* A read of n bytes takes the n oldest.
LEMMA TakeMaps ==
  ASSUME RingInv, NEW n \in 0..curr_len, Take(n)
  PROVE  Queue!Take(n)
<1>0. /\ ring_buffer \in [Offsets -> Bytes] /\ read_addr \in Offsets
      /\ curr_len \in 0..ring_buffer_len
  BY DEF RingInv, RingTypeOK
<1>1. Len(Contents) = curr_len
  BY <1>0, BytesFrom, ContentsIs
<1>2. data_out' = SubSeq(Contents, 1, n)
  BY <1>0, Prefix, CopyOutIs, ContentsIs DEF Take
<1>3. Contents' = SubSeq(Contents, n + 1, Len(Contents))
  BY <1>0, <1>1, Suffix, ContentsIs DEF Take
<1> QED
  BY <1>2, <1>3 DEF Take, Queue!Take

\* A read that returns 0 takes nothing from the queue.
LEMMA NothingMaps ==
  ASSUME RingInv, Nothing
  PROVE  Queue!Take(0)
<1>0. /\ ring_buffer \in [Offsets -> Bytes] /\ read_addr \in Offsets
      /\ curr_len \in 0..ring_buffer_len
  BY DEF RingInv, RingTypeOK
<1>1. Contents \in Seq(Bytes) /\ Len(Contents) = curr_len
  BY <1>0, BytesFrom, ContentsIs
<1>2. Contents' = Contents
  BY ContentsIs DEF Nothing
<1>3. SubSeq(Contents, 1, Len(Contents)) = Contents
  BY <1>1, SubSeqFull
<1>4. SubSeq(Contents, 1, 0) = << >>
  BY SubSeqEmpty
<1>5. SubSeq(Contents, 0 + 1, Len(Contents)) = Contents
  BY <1>3
<1> QED
  BY <1>2, <1>4, <1>5, Zenon DEF Nothing, Queue!Take

\* A write appends as many of its bytes as there is room for.
LEMMA WriteMaps ==
  ASSUME RingInv, NEW data \in Inputs, Write(data)
  PROVE  Queue!Write(data)
<1>0. /\ ring_buffer \in [Offsets -> Bytes] /\ read_addr \in Offsets
      /\ curr_len \in 0..ring_buffer_len /\ curr_len \in Int
      /\ ring_buffer_len \in Int
  BY LenAssumption DEF RingInv, RingTypeOK
<1>1. Contents \in Seq(Bytes) /\ Len(Contents) = curr_len
  BY <1>0, BytesFrom, ContentsIs
<1>2. data \in Seq(Bytes) /\ Len(data) \in Nat /\ Len(data) > 0
  BY InputsAssumption, EmptySeq
<1>3. CASE curr_len = ring_buffer_len
  <2>1. /\ ret' = 0
        /\ UNCHANGED <<ring_buffer, curr_len, read_addr, write_addr, data_out>>
    BY <1>0, <1>3 DEF Write
  <2>2. Queue!Lesser(Len(data), ring_buffer_len - Len(Contents)) = 0
    BY <1>0, <1>1, <1>2, <1>3 DEF Queue!Lesser
  <2>3. Contents' = Contents
    BY <2>1, ContentsIs
  <2>4. Contents \o SubSeq(data, 1, 0) = Contents
    BY <1>1, SubSeqEmpty, ConcatEmptySeq
  <2> QED
    BY <2>1, <2>2, <2>3, <2>4 DEF Queue!Write
<1>4. CASE curr_len # ring_buffer_len
  <2> DEFINE n == WriteLen(data)
  <2>1. curr_len < ring_buffer_len
    BY <1>0, <1>4
  <2>2. /\ n \in 0..ring_buffer_len /\ n <= Len(data)
        /\ n <= ring_buffer_len - curr_len
    BY <2>1, WriteFacts
  <2>3. n = Queue!Lesser(Len(data), ring_buffer_len - Len(Contents))
    BY <1>1 DEF WriteLen, Queue!Lesser
  <2>4. /\ ring_buffer' = CopyIn(data, n)
        /\ curr_len' = curr_len + n
        /\ ret' = n
        /\ UNCHANGED <<read_addr, data_out>>
    <3>1. ~(curr_len >= ring_buffer_len)
      BY <1>0, <2>1
    <3> QED
      BY <3>1, Zenon DEF Write
  <2> HIDE DEF n
  <2>5. Contents' = Contents \o SubSeq(data, 1, n)
    BY <1>2, <2>2, <2>4, Extension, ContentsIs
  <2> QED
    BY <2>3, <2>4, <2>5 DEF Queue!Write
<1> QED
  BY <1>3, <1>4

LEMMA InitMaps == RingInit => Queue!Init
<1> SUFFICES ASSUME RingInit PROVE Queue!Init
  OBVIOUS
<1>1. ring_buffer \in [Offsets -> Bytes] /\ read_addr \in Offsets /\ curr_len = 0
  BY InitRingInv DEF RingInit, RingInv, RingTypeOK
<1>2. Contents \in Seq(Bytes) /\ Len(Contents) = 0
  BY <1>1, BytesFrom, ContentsIs, LenAssumption
<1>3. Contents = << >>
  BY <1>2, EmptySeq
<1> QED
  BY <1>3 DEF RingInit, Queue!Init

LEMMA NextMaps == RingInv /\ RingInv' /\ [RingNext]_ringVars => [Queue!Next]_(Queue!vars)
<1> SUFFICES ASSUME RingInv, RingInv', [RingNext]_ringVars PROVE [Queue!Next]_(Queue!vars)
  OBVIOUS
<1>0. /\ ring_buffer \in [Offsets -> Bytes] /\ read_addr \in Offsets
      /\ curr_len \in 0..ring_buffer_len /\ curr_len \in Int
  BY LenAssumption DEF RingInv, RingTypeOK
<1>1. Len(Contents) = curr_len
  BY <1>0, BytesFrom, ContentsIs
<1>2. ASSUME NEW data \in Inputs, Write(data) PROVE Queue!Next
  BY <1>2, WriteMaps DEF Queue!Next
<1>3. ASSUME NEW size \in Sizes, Read(size) PROVE Queue!Next
  <2>1. size \in Nat \ {0}
    BY LenAssumption DEF Sizes
  <2>2. Queue!Lesser(size, Len(Contents)) = IF size <= curr_len THEN size ELSE curr_len
    BY <1>1 DEF Queue!Lesser
  <2>3. Queue!Take(IF size <= curr_len THEN size ELSE curr_len)
    <3>1. CASE curr_len = 0
      <4>1. (IF size <= curr_len THEN size ELSE curr_len) = 0
        BY <2>1, <3>1
      <4> QED
        BY <1>3, <3>1, <4>1, ReadIsTake, NothingMaps
    <3>2. CASE curr_len # 0
      <4>1. (IF size <= curr_len THEN size ELSE curr_len) \in 0..curr_len /\ curr_len > 0
        BY <1>0, <2>1, <3>2
      <4> QED
        BY <1>3, <4>1, ReadIsTake, TakeMaps
    <3> QED
      BY <3>1, <3>2
  <2>4. Queue!Read(size)
    BY <2>2, <2>3 DEF Queue!Read
  <2> QED
    BY <2>4 DEF Queue!Next, Sizes
<1>4. ASSUME NEW size \in Sizes, Readn(size) PROVE Queue!Next
  <2>1. size \in Nat \ {0}
    BY LenAssumption DEF Sizes
  <2>2. CASE size <= curr_len
    <3>1. size \in 0..curr_len
      BY <1>0, <2>1, <2>2
    <3>2. Queue!Take(size)
      BY <1>4, <2>2, <3>1, ReadIsTake, TakeMaps
    <3>3. Queue!Readn(size)
      BY <1>1, <2>2, <3>2 DEF Queue!Readn
    <3> QED
      BY <3>3 DEF Queue!Next, Sizes
  <2>3. CASE ~(size <= curr_len)
    <3>1. Queue!Take(0)
      BY <1>4, <2>3, ReadIsTake, NothingMaps
    <3>2. Queue!Readn(size)
      BY <1>1, <2>3, <3>1 DEF Queue!Readn
    <3> QED
      BY <3>2 DEF Queue!Next, Sizes
  <2> QED
    BY <2>2, <2>3
<1>5. CASE Clear
  <2>1. Contents' \in Seq(Bytes) /\ Len(Contents') = 0
    <3>1. /\ ring_buffer' \in [Offsets -> Bytes] /\ read_addr' \in Offsets
          /\ curr_len' = 0 /\ 0 \in 0..ring_buffer_len
      BY <1>5, LenAssumption DEF RingInv, RingTypeOK, Clear
    <3> QED
      BY <3>1, BytesFrom, ContentsIs
  <2>2. Contents' = << >>
    BY <2>1, EmptySeq
  <2>3. Queue!Clear
    BY <1>5, <2>2 DEF Clear, Queue!Clear
  <2> QED
    BY <2>3 DEF Queue!Next
<1>6. CASE UNCHANGED ringVars
  <2>1. Contents' = Contents
    BY <1>6, ContentsIs DEF ringVars
  <2> QED
    BY <1>6, <2>1 DEF ringVars, Queue!vars
<1> QED
  BY <1>2, <1>3, <1>4, <1>5, <1>6 DEF RingNext

\* app_ring_buffer.c is a bounded queue of bytes: each of its calls, with its
\* wrapped copies and early returns, does what ByteQueue's call does.
THEOREM Implements == RingSpec => ImplementsQueue
<1>1. RingInit => Queue!Init
  BY InitMaps
<1>2. RingInv /\ RingInv' /\ [RingNext]_ringVars => [Queue!Next]_(Queue!vars)
  BY NextMaps
<1> QED
  BY <1>1, <1>2, RingInvAlways, PTL DEF RingSpec, ImplementsQueue, Queue!Spec

-----------------------------------------------------------------------------
(* The bus                                                                  *)

USE AppsAssumption, BlocksAssumption, EventsAssumption, BoundAssumption, MallocAssumption

LEMMA InitIInv == Init => IInv
<1> SUFFICES ASSUME Init PROVE IInv
  OBVIOUS
<1> USE DEF Init
<1>1. TypeOK
  <2>1. << >> \in Seq(Apps) /\ << >> \in Seq(Blocks)
    BY EmptySeq
  <2>2. taken \in [Apps -> [Threads -> 0..MaxSends]] /\ sent \in [Threads -> 0..MaxSends]
    OBVIOUS
  <2>3. msg_queue \in [Apps -> Seq(Blocks)]
    BY <2>1
  <2>4. QED
    BY <2>1, <2>2, <2>3 DEF TypeOK, Status
<1>2. ControlInv
  BY DEF ControlInv
<1>3. NoDanglingApp
  BY ElemsEmpty DEF NoDanglingApp
<1>4. BlockOwnership
  BY ElemsEmpty DEF BlockOwnership, UsedIsHeld, HoldersDisjoint, MainHeld, AppHeld, SendHeld
<1>5. QED
  BY <1>1, <1>2, <1>3, <1>4 DEF IInv

\* malloc returns a free block.
LEMMA MallocIsFree ==
  ASSUME NEW b \in Malloc(FreeBlocks)
  PROVE  b \in Blocks /\ heap[b] = None
<1>1. FreeBlocks \in SUBSET Blocks
  BY DEF FreeBlocks
<1>2. Malloc(FreeBlocks) \subseteq FreeBlocks
  BY <1>1
<1>3. QED
  BY <1>2 DEF FreeBlocks

\* An entry in somebody's hands is a filled one.
LEMMA HeldIsMsg ==
  ASSUME IInv
  PROVE  /\ main_qe # None => main_qe \in Blocks /\ heap[main_qe] \in Msg
         /\ \A a \in Apps : qe[a] # None => qe[a] \in Blocks /\ heap[qe[a]] \in Msg
BY DEF IInv, TypeOK, BlockOwnership, UsedIsHeld, MainHeld, AppHeld

-----------------------------------------------------------------------------
(* Types                                                                   *)

LEMMA NextTypeOK ==
  ASSUME IInv, [Next]_vars
  PROVE  TypeOK'
<1> USE DEF TypeOK, heapVars, mainVars, appVars
<1>0. TypeOK
  BY DEF IInv
<1>1. ASSUME NEW a \in Apps, AppNew(a) PROVE TypeOK'
  BY <1>0, <1>1, PushFacts DEF AppNew, Status
<1>2. ASSUME NEW a \in Apps, NEW e \in Events, AppAddEvent(a, e) PROVE TypeOK'
  BY <1>0, <1>2 DEF AppAddEvent
<1>3. ASSUME NEW a \in Apps, AppDispatch(a) PROVE TypeOK'
  BY <1>0, <1>3 DEF AppDispatch, Status
<1>4. ASSUME NEW a \in Apps, AppListRemove(a) PROVE TypeOK'
  BY <1>0, <1>4, RemoveFacts DEF AppListRemove, Status
<1>5. ASSUME NEW a \in Apps, AppObjectDelete(a) PROVE TypeOK'
  BY <1>0, <1>5, EmptySeq DEF AppObjectDelete, Status
<1>6. ASSUME NEW t \in Threads, NEW from \in Apps, NEW to \in Apps \cup {ToAll},
             NEW e \in Events, SendAlloc(t, from, to, e)
      PROVE  TypeOK'
  <2>1. sent[t] + 1 \in 1..MaxSends
    BY <1>0, <1>6 DEF SendAlloc
  <2>2. [by |-> t, from |-> from, to |-> to, event |-> e, seq |-> sent[t] + 1] \in Msg
    BY <2>1 DEF Msg
  <2>3. PICK b \in Blocks :
             /\ heap' = [heap EXCEPT ![b] = [by |-> t, from |-> from, to |-> to,
                                             event |-> e, seq |-> sent[t] + 1]]
             /\ out' = [out EXCEPT ![t] = b]
    BY <1>6, MallocIsFree DEF SendAlloc
  <2>4. heap' \in [Blocks -> Msg \cup {None}]
    BY <1>0, <2>2, <2>3
  <2>5. out' \in [Threads -> Blocks \cup {None}]
    BY <1>0, <2>3
  <2>6. sent' \in [Threads -> 0..MaxSends]
    BY <1>0, <1>6, <2>1 DEF SendAlloc
  <2>7. QED
    BY <1>0, <1>6, <2>4, <2>5, <2>6 DEF SendAlloc
<1>7. ASSUME NEW t \in Threads, SendInsert(t) PROVE TypeOK'
  BY <1>0, <1>7, AppendProperties DEF SendInsert
<1>8. CASE MainRecv
  BY <1>0, <1>8, HeadTailProperties DEF MainRecv
<1>9. CASE DistributeBegin
  <2>1. app_new' \in Apps \cup {None}
    BY <1>0, <1>9, NextFacts, ElemsType DEF DistributeBegin
  <2>2. QED
    BY <1>0, <1>9, <2>1 DEF DistributeBegin
<1>10. CASE DistributeSkip
  <2>1. app_new' \in Apps \cup {None}
    BY <1>0, <1>10, NextFacts, ElemsType DEF DistributeSkip
  <2>2. QED
    BY <1>0, <1>10, <2>1 DEF DistributeSkip
<1>11. AfterMatch \in Apps \cup {None}
  BY <1>0, NextFacts, ElemsType DEF AfterMatch
<1>12. CASE DistributeSend
  <2>1. main_qe \in Blocks /\ app_new \in Apps
    BY <1>0, <1>12, HeldIsMsg DEF DistributeSend, IInv, ControlInv
  <2>2. PICK b \in Blocks :
             /\ heap' = [heap EXCEPT ![b] = heap[main_qe]]
             /\ msg_queue' = [msg_queue EXCEPT ![app_new] = Append(@, b)]
    BY <1>12, MallocIsFree DEF DistributeSend
  <2>3. heap' \in [Blocks -> Msg \cup {None}]
    BY <1>0, <2>1, <2>2
  <2>4. Append(msg_queue[app_new], b) \in Seq(Blocks)
    BY <1>0, <2>1, AppendProperties
  <2>5. msg_queue' \in [Apps -> Seq(Blocks)]
    BY <1>0, <2>2, <2>4
  <2>6. QED
    BY <1>0, <1>11, <1>12, <2>3, <2>5 DEF DistributeSend
<1>13. CASE DistributeLose
  BY <1>0, <1>11, <1>13 DEF DistributeLose
<1>14. CASE DistributeEnd
  BY <1>0, <1>14 DEF DistributeEnd
<1>15. CASE MainFree
  BY <1>0, <1>15 DEF MainFree
<1>16. ASSUME NEW a \in Apps, AppRecv(a) PROVE TypeOK'
  <2>1. Head(msg_queue[a]) \in Blocks /\ Tail(msg_queue[a]) \in Seq(Blocks)
    BY <1>0, <1>16, HeadTailProperties DEF AppRecv
  <2>2. QED
    BY <1>0, <1>16, <2>1 DEF AppRecv
<1>17. ASSUME NEW a \in Apps, AppProc(a) PROVE TypeOK'
  <2>1. heap[qe[a]] \in Msg
    BY <1>17, HeldIsMsg DEF AppProc
  <2>2. heap[qe[a]].by \in Threads /\ heap[qe[a]].seq \in 0..MaxSends
    BY <2>1 DEF Msg
  <2>3. status' \in [Apps -> Status] /\ taken' \in [Apps -> [Threads -> 0..MaxSends]]
    BY <1>0, <1>17, <2>2 DEF AppProc, Status
  <2>4. QED
    BY <1>0, <1>17, <2>3 DEF AppProc
<1>18. CASE UNCHANGED vars
  BY <1>0, <1>18 DEF vars
<1>19. QED
  BY <1>1, <1>2, <1>3, <1>4, <1>5, <1>6, <1>7, <1>8, <1>9, <1>10, <1>12, <1>13,
     <1>14, <1>15, <1>16, <1>17, <1>18 DEF Next, Main, Send, App

-----------------------------------------------------------------------------
(* Control                                                                 *)

LEMMA NextControlInv ==
  ASSUME IInv, [Next]_vars
  PROVE  ControlInv'
<1> USE DEF ControlInv, TypeOK, Status, heapVars, mainVars, appVars
<1>0. TypeOK /\ ControlInv
  BY DEF IInv
<1>1. ASSUME NEW a \in Apps, AppNew(a) PROVE ControlInv'
  BY <1>0, <1>1 DEF AppNew
<1>2. ASSUME NEW a \in Apps, NEW e \in Events, AppAddEvent(a, e) PROVE ControlInv'
  BY <1>0, <1>2 DEF AppAddEvent
<1>3. ASSUME NEW a \in Apps, AppDispatch(a) PROVE ControlInv'
  BY <1>0, <1>3 DEF AppDispatch
<1>4. ASSUME NEW a \in Apps, AppListRemove(a) PROVE ControlInv'
  BY <1>0, <1>4 DEF AppListRemove
<1>5. ASSUME NEW a \in Apps, AppObjectDelete(a) PROVE ControlInv'
  BY <1>0, <1>5 DEF AppObjectDelete
<1>6. ASSUME NEW t \in Threads, NEW from \in Apps, NEW to \in Apps \cup {ToAll},
             NEW e \in Events, SendAlloc(t, from, to, e)
      PROVE  ControlInv'
  BY <1>0, <1>6 DEF SendAlloc
<1>7. ASSUME NEW t \in Threads, SendInsert(t) PROVE ControlInv'
  BY <1>0, <1>7 DEF SendInsert
<1>8. CASE MainRecv
  <2>1. Head(main_queue) # None
    BY <1>0, <1>8, HeadTailProperties DEF MainRecv
  <2>2. QED
    BY <1>0, <1>8, <2>1 DEF MainRecv
<1>9. CASE DistributeBegin
  BY <1>0, <1>9 DEF DistributeBegin
<1>10. CASE DistributeSkip
  BY <1>0, <1>10 DEF DistributeSkip
<1>11. CASE DistributeSend
  <2>1. app_new \in Apps /\ status[app_new] \notin {"absent", "freed"}
    BY <1>0, <1>11, ElemsType DEF DistributeSend, IInv, NoDanglingApp
  <2>2. PICK b \in Blocks : msg_queue' = [msg_queue EXCEPT ![app_new] = Append(@, b)]
    BY <1>11, MallocIsFree DEF DistributeSend
  <2>3. \A a \in Apps : status[a] \in {"absent", "freed"} => msg_queue'[a] = << >>
    BY <1>0, <2>1, <2>2
  <2>4. QED
    BY <1>0, <1>11, <2>3 DEF DistributeSend
<1>12. CASE DistributeLose
  BY <1>0, <1>12 DEF DistributeLose
<1>13. CASE DistributeEnd
  BY <1>0, <1>13 DEF DistributeEnd
<1>14. CASE MainFree
  BY <1>0, <1>14 DEF MainFree
<1>15. ASSUME NEW a \in Apps, AppRecv(a) PROVE ControlInv'
  BY <1>0, <1>15 DEF AppRecv
<1>16. ASSUME NEW a \in Apps, AppProc(a) PROVE ControlInv'
  BY <1>0, <1>16 DEF AppProc
<1>17. CASE UNCHANGED vars
  BY <1>0, <1>17 DEF vars
<1>18. QED
  BY <1>1, <1>2, <1>3, <1>4, <1>5, <1>6, <1>7, <1>8, <1>9, <1>10, <1>11, <1>12,
     <1>13, <1>14, <1>15, <1>16, <1>17 DEF Next, Main, Send, App

-----------------------------------------------------------------------------
(* The list of applications                                                *)

LEMMA NextNoDanglingApp ==
  ASSUME IInv, [Next]_vars
  PROVE  NoDanglingApp'
<1> USE DEF NoDanglingApp, TypeOK, Status, heapVars, mainVars, appVars
<1>0. TypeOK /\ ControlInv /\ NoDanglingApp
  BY DEF IInv
<1>1. ASSUME NEW a \in Apps, AppNew(a) PROVE NoDanglingApp'
  <2>1. /\ a \notin Elems(apps_list)
        /\ app_new = None
    BY <1>0, <1>1 DEF AppNew, ControlInv
  <2>2. NoRepeat(apps_list') /\ Elems(apps_list') = Elems(apps_list) \cup {a}
    BY <1>0, <1>1, <2>1, PushFacts DEF AppNew
  <2>3. QED
    BY <1>0, <1>1, <2>1, <2>2, ZenonT(40) DEF AppNew
<1>2. ASSUME NEW a \in Apps, NEW e \in Events, AppAddEvent(a, e) PROVE NoDanglingApp'
  BY <1>0, <1>2 DEF AppAddEvent
<1>3. ASSUME NEW a \in Apps, AppDispatch(a) PROVE NoDanglingApp'
  BY <1>0, <1>3 DEF AppDispatch
<1>4. ASSUME NEW a \in Apps, AppListRemove(a) PROVE NoDanglingApp'
  <2>1. app_new = None
    BY <1>0, <1>4 DEF AppListRemove, ControlInv
  <2>2. NoRepeat(apps_list') /\ Elems(apps_list') = Elems(apps_list) \ {a}
    BY <1>0, <1>4, RemoveFacts DEF AppListRemove
  <2>3. QED
    BY <1>0, <1>4, <2>1, <2>2 DEF AppListRemove
<1>5. ASSUME NEW a \in Apps, AppObjectDelete(a) PROVE NoDanglingApp'
  BY <1>0, <1>5 DEF AppObjectDelete
<1>6. ASSUME NEW t \in Threads, NEW from \in Apps, NEW to \in Apps \cup {ToAll},
             NEW e \in Events, SendAlloc(t, from, to, e)
      PROVE  NoDanglingApp'
  BY <1>0, <1>6 DEF SendAlloc
<1>7. ASSUME NEW t \in Threads, SendInsert(t) PROVE NoDanglingApp'
  BY <1>0, <1>7 DEF SendInsert
<1>8. CASE MainRecv
  BY <1>0, <1>8 DEF MainRecv
<1>9. CASE DistributeBegin
  BY <1>0, <1>9, NextFacts DEF DistributeBegin
<1>10. CASE DistributeSkip
  BY <1>0, <1>10, NextFacts DEF DistributeSkip
<1>11. CASE DistributeSend
  BY <1>0, <1>11, NextFacts DEF DistributeSend, AfterMatch
<1>12. CASE DistributeLose
  BY <1>0, <1>12, NextFacts DEF DistributeLose, AfterMatch
<1>13. CASE DistributeEnd
  BY <1>0, <1>13 DEF DistributeEnd
<1>14. CASE MainFree
  BY <1>0, <1>14 DEF MainFree
<1>15. ASSUME NEW a \in Apps, AppRecv(a) PROVE NoDanglingApp'
  BY <1>0, <1>15 DEF AppRecv
<1>16. ASSUME NEW a \in Apps, AppProc(a) PROVE NoDanglingApp'
  BY <1>0, <1>16 DEF AppProc, ControlInv
<1>17. CASE UNCHANGED vars
  BY <1>0, <1>17 DEF vars
<1>18. QED
  BY <1>1, <1>2, <1>3, <1>4, <1>5, <1>6, <1>7, <1>8, <1>9, <1>10, <1>11, <1>12,
     <1>13, <1>14, <1>15, <1>16, <1>17 DEF Next, Main, Send, App

-----------------------------------------------------------------------------
(* Ownership of the heap blocks                                            *)

\* A step that leaves the heap and every place that refers to it alone.
LEMMA SameHeap ==
  ASSUME BlockOwnership, UNCHANGED heapVars
  PROVE  BlockOwnership'
BY DEF BlockOwnership, UsedIsHeld, HoldersDisjoint, MainHeld, AppHeld, SendHeld, heapVars

\* A free block is in nobody's hands.
LEMMA FreeIsNotHeld ==
  ASSUME IInv, NEW b \in Blocks, heap[b] = None
  PROVE  /\ b \notin MainHeld
         /\ \A a \in Apps : b \notin AppHeld[a]
         /\ \A t \in Threads : b \notin SendHeld[t]
BY DEF IInv, BlockOwnership, UsedIsHeld

LEMMA NextBlockOwnership ==
  ASSUME IInv, [Next]_vars
  PROVE  BlockOwnership'
<1>0. TypeOK /\ ControlInv /\ BlockOwnership
  BY DEF IInv
<1>a. UsedIsHeld /\ HoldersDisjoint
  BY <1>0 DEF BlockOwnership
<1> USE DEF TypeOK, mainVars, appVars
<1>1. ASSUME NEW a \in Apps, AppNew(a) PROVE BlockOwnership'
  BY <1>0, <1>1, SameHeap DEF AppNew
<1>2. ASSUME NEW a \in Apps, NEW e \in Events, AppAddEvent(a, e) PROVE BlockOwnership'
  BY <1>0, <1>2, SameHeap DEF AppAddEvent
<1>3. ASSUME NEW a \in Apps, AppDispatch(a) PROVE BlockOwnership'
  BY <1>0, <1>3, SameHeap DEF AppDispatch
<1>4. ASSUME NEW a \in Apps, AppListRemove(a) PROVE BlockOwnership'
  BY <1>0, <1>4, SameHeap DEF AppListRemove
<1>5. ASSUME NEW a \in Apps, AppObjectDelete(a) PROVE BlockOwnership'
  <2>1. qe[a] = None
    BY <1>0, <1>5 DEF AppObjectDelete, ControlInv
  <2>2. /\ AppHeld[a] = Elems(msg_queue[a])
        /\ AppHeld'[a] = {}
        /\ NoRepeat(msg_queue[a])'
        /\ (qe[a] \notin Elems(msg_queue[a]))'
    BY <1>0, <1>5, <2>1, ElemsEmpty, ElemsType DEF AppObjectDelete, AppHeld
  <2>3. /\ \A c \in Apps \ {a} : /\ AppHeld'[c] = AppHeld[c]
                                 /\ msg_queue'[c] = msg_queue[c] /\ qe'[c] = qe[c]
        /\ \A t \in Threads : SendHeld'[t] = SendHeld[t]
        /\ MainHeld' = MainHeld
    BY <1>0, <1>5 DEF AppObjectDelete, AppHeld, SendHeld, MainHeld
  <2>4. \A b \in Blocks : heap'[b] # None <=> heap[b] # None /\ b \notin AppHeld[a]
    BY <1>0, <1>5, <2>2 DEF AppObjectDelete
  <2>5. main_queue' = main_queue /\ main_qe' = main_qe
    BY <1>5 DEF AppObjectDelete
  <2>6. UsedIsHeld'
    BY <1>a, <2>2, <2>3, <2>4 DEF UsedIsHeld, HoldersDisjoint
  <2>7. HoldersDisjoint'
    BY <1>a, <2>2, <2>3 DEF HoldersDisjoint
  <2>8. QED
    BY <1>0, <2>2, <2>3, <2>5, <2>6, <2>7 DEF BlockOwnership
<1>6. ASSUME NEW t \in Threads, NEW from \in Apps, NEW to \in Apps \cup {ToAll},
             NEW e \in Events, SendAlloc(t, from, to, e)
      PROVE  BlockOwnership'
  <2> DEFINE m == [by |-> t, from |-> from, to |-> to, event |-> e, seq |-> sent[t] + 1]
  <2>1. PICK b \in Malloc(FreeBlocks) : /\ heap' = [heap EXCEPT ![b] = m]
                                        /\ out' = [out EXCEPT ![t] = b]
    BY <1>6 DEF SendAlloc
  <2>2. b \in Blocks /\ heap[b] = None
    BY <2>1, MallocIsFree
  <2>3. m # None
    BY <1>0, <1>6, MsgAssumption DEF SendAlloc, Msg
  <2> HIDE DEF m
  <2>4. \A c \in Blocks : heap'[c] # None <=> heap[c] # None \/ c = b
    BY <1>0, <2>1, <2>2, <2>3
  <2>5. SendHeld[t] = {} /\ SendHeld'[t] = {b}
    BY <1>0, <1>6, <2>1, <2>2 DEF SendAlloc, SendHeld
  <2>6. /\ \A u \in Threads \ {t} : SendHeld'[u] = SendHeld[u]
        /\ \A a \in Apps : AppHeld'[a] = AppHeld[a]
        /\ MainHeld' = MainHeld
    BY <1>0, <1>6, <2>1 DEF SendAlloc, SendHeld, AppHeld, MainHeld
  <2>7. UsedIsHeld'
    BY <1>a, <2>4, <2>5, <2>6 DEF UsedIsHeld
  <2>8. HoldersDisjoint'
    BY <1>a, <2>2, <2>5, <2>6, FreeIsNotHeld DEF HoldersDisjoint
  <2>9. QED
    BY <1>0, <1>6, <2>7, <2>8 DEF SendAlloc, BlockOwnership
<1>7. ASSUME NEW t \in Threads, SendInsert(t) PROVE BlockOwnership'
  <2>1. /\ out[t] \in Blocks /\ SendHeld[t] = {out[t]} /\ SendHeld'[t] = {}
        /\ out[t] \notin MainHeld
    BY <1>0, <1>7 DEF SendInsert, SendHeld, BlockOwnership, HoldersDisjoint
  <2>2. /\ Elems(main_queue') = Elems(main_queue) \cup {out[t]}
        /\ NoRepeat(main_queue')
    BY <1>0, <1>7, <2>1, AppendFacts DEF SendInsert, MainHeld, BlockOwnership
  <2>3. MainHeld' = MainHeld \cup {out[t]} /\ main_qe' = main_qe
    BY <1>7, <2>2 DEF SendInsert, MainHeld
  <2>4. /\ \A u \in Threads \ {t} : SendHeld'[u] = SendHeld[u]
        /\ \A a \in Apps : AppHeld'[a] = AppHeld[a]
    BY <1>0, <1>7 DEF SendInsert, SendHeld, AppHeld
  <2>5. UsedIsHeld'
    BY <1>a, <1>7, <2>1, <2>3, <2>4 DEF SendInsert, UsedIsHeld
  <2>6. HoldersDisjoint'
    BY <1>a, <2>1, <2>3, <2>4 DEF HoldersDisjoint
  <2>7. main_qe' \notin Elems(main_queue')
    BY <1>0, <2>1, <2>2, <2>3 DEF BlockOwnership, MainHeld
  <2>8. QED
    BY <1>0, <1>7, <2>2, <2>5, <2>6, <2>7 DEF SendInsert, BlockOwnership
<1>8. CASE MainRecv
  <2>1. /\ Head(main_queue) \in Blocks \cap Elems(main_queue)
        /\ Elems(main_queue') = Elems(main_queue) \ {Head(main_queue)}
        /\ NoRepeat(main_queue')
    BY <1>0, <1>8, TailFacts DEF MainRecv, BlockOwnership
  <2>2. main_qe = None /\ main_qe' = Head(main_queue)
    BY <1>0, <1>8 DEF MainRecv, ControlInv
  <2>3. MainHeld' = MainHeld
    BY <1>0, <2>1, <2>2, ElemsType DEF MainHeld
  <2>4. /\ \A u \in Threads : SendHeld'[u] = SendHeld[u]
        /\ \A a \in Apps : AppHeld'[a] = AppHeld[a]
    BY <1>0, <1>8 DEF MainRecv, SendHeld, AppHeld
  <2>5. UsedIsHeld' /\ HoldersDisjoint'
    BY <1>a, <1>8, <2>3, <2>4 DEF MainRecv, UsedIsHeld, HoldersDisjoint
  <2>6. QED
    BY <1>0, <1>8, <2>1, <2>2, <2>5 DEF MainRecv, BlockOwnership
<1>9. CASE DistributeBegin
  BY <1>0, <1>9, SameHeap DEF DistributeBegin
<1>10. CASE DistributeSkip
  BY <1>0, <1>10, SameHeap DEF DistributeSkip
<1>11. CASE DistributeSend
  <2>1. /\ app_new \in Apps /\ main_qe \in Blocks
        /\ heap[main_qe] # None
    BY <1>0, <1>11, HeldIsMsg, MsgAssumption DEF DistributeSend, ControlInv
  <2>2. PICK b \in Malloc(FreeBlocks) :
             /\ heap' = [heap EXCEPT ![b] = heap[main_qe]]
             /\ msg_queue' = [msg_queue EXCEPT ![app_new] = Append(@, b)]
    BY <1>11 DEF DistributeSend
  <2>3. b \in Blocks /\ heap[b] = None
    BY <2>2, MallocIsFree
  <2>4. \A c \in Blocks : heap'[c] # None <=> heap[c] # None \/ c = b
    BY <1>0, <2>1, <2>2, <2>3
  <2>5. b \notin AppHeld[app_new] /\ b \notin Elems(msg_queue[app_new])
    BY <2>1, <2>3, FreeIsNotHeld DEF AppHeld
  <2>6. /\ Elems(msg_queue'[app_new]) = Elems(msg_queue[app_new]) \cup {b}
        /\ NoRepeat(msg_queue'[app_new])
    BY <1>0, <2>1, <2>2, <2>3, <2>5, AppendFacts DEF BlockOwnership
  <2>7. /\ AppHeld'[app_new] = AppHeld[app_new] \cup {b}
        /\ qe' = qe /\ qe[app_new] # b
    BY <1>11, <2>1, <2>3, <2>5, <2>6 DEF DistributeSend, AppHeld
  <2>8. /\ \A a \in Apps \ {app_new} : AppHeld'[a] = AppHeld[a] /\ msg_queue'[a] = msg_queue[a]
        /\ \A u \in Threads : SendHeld'[u] = SendHeld[u]
        /\ MainHeld' = MainHeld
    BY <1>0, <1>11, <2>2 DEF DistributeSend, AppHeld, SendHeld, MainHeld
  <2>9. UsedIsHeld'
    <3>1. ASSUME NEW c \in Blocks
          PROVE  (heap[c] # None \/ c = b) <=>
                    \/ c \in MainHeld'
                    \/ \E a \in Apps : c \in AppHeld'[a]
                    \/ \E t \in Threads : c \in SendHeld'[t]
      BY <1>0, <2>1, <2>7, <2>8 DEF BlockOwnership, UsedIsHeld
    <3>2. QED
      BY <2>4, <3>1 DEF UsedIsHeld
  <2>10. HoldersDisjoint'
    BY <1>a, <2>1, <2>3, <2>7, <2>8, FreeIsNotHeld DEF HoldersDisjoint
  <2>11. \A a \in Apps : NoRepeat(msg_queue'[a]) /\ qe'[a] \notin Elems(msg_queue'[a])
    BY <1>0, <2>1, <2>6, <2>7, <2>8 DEF BlockOwnership
  <2>12. QED
    BY <1>0, <1>11, <2>9, <2>10, <2>11 DEF DistributeSend, BlockOwnership
<1>12. CASE DistributeLose
  BY <1>0, <1>12, SameHeap DEF DistributeLose
<1>13. CASE DistributeEnd
  BY <1>0, <1>13, SameHeap DEF DistributeEnd
<1>14. CASE MainFree
  <2>1. /\ main_qe \in Blocks /\ main_qe \in MainHeld
        /\ MainHeld' = MainHeld \ {main_qe}
    BY <1>0, <1>14, ElemsType DEF MainFree, ControlInv, MainHeld, BlockOwnership
  <2>2. \A c \in Blocks : heap'[c] # None <=> heap[c] # None /\ c # main_qe
    BY <1>0, <1>14, <2>1 DEF MainFree
  <2>3. /\ \A u \in Threads : SendHeld'[u] = SendHeld[u]
        /\ \A a \in Apps : AppHeld'[a] = AppHeld[a]
    BY <1>0, <1>14 DEF MainFree, SendHeld, AppHeld
  <2>4. UsedIsHeld'
    BY <1>a, <2>1, <2>2, <2>3 DEF UsedIsHeld, HoldersDisjoint
  <2>5. HoldersDisjoint'
    BY <1>a, <2>1, <2>3 DEF HoldersDisjoint
  <2>6. None \notin Elems(main_queue)
    BY <1>0, ElemsType
  <2>7. QED
    BY <1>0, <1>14, <2>4, <2>5, <2>6 DEF MainFree, BlockOwnership
<1>15. ASSUME NEW a \in Apps, AppRecv(a) PROVE BlockOwnership'
  <2> DEFINE q == msg_queue[a]
  <2>1. /\ Head(q) \in Blocks \cap Elems(q)
        /\ Elems(Tail(q)) = Elems(q) \ {Head(q)}
        /\ NoRepeat(Tail(q))
    BY <1>0, <1>15, TailFacts DEF AppRecv, BlockOwnership
  <2>2. /\ msg_queue'[a] = Tail(q) /\ qe'[a] = Head(q) /\ qe[a] = None
        /\ \A c \in Apps \ {a} : msg_queue'[c] = msg_queue[c] /\ qe'[c] = qe[c]
    BY <1>0, <1>15 DEF AppRecv
  <2>3. \A c \in Apps : AppHeld'[c] = AppHeld[c]
    <3>1. None \notin Elems(q)
      BY <1>0, ElemsType
    <3>2. AppHeld'[a] = AppHeld[a]
      BY <2>1, <2>2, <3>1 DEF AppHeld
    <3>3. \A c \in Apps \ {a} : AppHeld'[c] = AppHeld[c]
      BY <2>2 DEF AppHeld
    <3>4. QED
      BY <3>2, <3>3
  <2>4. MainHeld' = MainHeld /\ \A t \in Threads : SendHeld'[t] = SendHeld[t]
    BY <1>15 DEF AppRecv, MainHeld, SendHeld
  <2>5. UsedIsHeld' /\ HoldersDisjoint'
    BY <1>a, <1>15, <2>3, <2>4 DEF AppRecv, UsedIsHeld, HoldersDisjoint
  <2>6. QED
    BY <1>0, <1>15, <2>1, <2>2, <2>5 DEF AppRecv, BlockOwnership
<1>16. ASSUME NEW a \in Apps, AppProc(a) PROVE BlockOwnership'
  <2>1. /\ qe[a] \in Blocks /\ qe[a] \in AppHeld[a]
        /\ AppHeld'[a] = AppHeld[a] \ {qe[a]}
    BY <1>0, <1>16, ElemsType DEF AppProc, AppHeld, BlockOwnership
  <2>2. \A c \in Blocks : heap'[c] # None <=> heap[c] # None /\ c # qe[a]
    BY <1>0, <1>16, <2>1 DEF AppProc
  <2>3. /\ \A c \in Apps \ {a} : AppHeld'[c] = AppHeld[c] /\ qe'[c] = qe[c]
        /\ MainHeld' = MainHeld
        /\ \A t \in Threads : SendHeld'[t] = SendHeld[t]
    BY <1>0, <1>16 DEF AppProc, AppHeld, MainHeld, SendHeld
  <2>4. UsedIsHeld'
    BY <1>a, <2>1, <2>2, <2>3 DEF UsedIsHeld, HoldersDisjoint
  <2>5. HoldersDisjoint'
    BY <1>a, <2>1, <2>3 DEF HoldersDisjoint
  <2>6. None \notin Elems(msg_queue[a]) /\ qe'[a] = None
    BY <1>0, <1>16, ElemsType DEF AppProc
  <2>7. QED
    BY <1>0, <1>16, <2>3, <2>4, <2>5, <2>6 DEF AppProc, BlockOwnership
<1>17. CASE UNCHANGED vars
  BY <1>0, <1>17, SameHeap DEF vars, heapVars
<1>18. QED
  BY <1>1, <1>2, <1>3, <1>4, <1>5, <1>6, <1>7, <1>8, <1>9, <1>10, <1>11, <1>12,
     <1>13, <1>14, <1>15, <1>16, <1>17 DEF Next, Main, Send, App

-----------------------------------------------------------------------------
(* What a step may do to each part of the state the order of messages is   *)
(* about.                                                                  *)

\* A block in use before and after a step holds the same message.
LEMMA HeapStep ==
  ASSUME IInv, [Next]_vars, NEW b \in Blocks
  PROVE  \/ heap'[b] = None
         \/ heap'[b] = heap[b]
         \/ /\ heap[b] = None /\ DistributeSend
            /\ main_qe \in Blocks /\ heap[main_qe] # None /\ heap'[b] = heap[main_qe]
         \/ /\ heap[b] = None
            /\ \E t \in Threads : /\ out'[t] = b /\ heap'[b].by = t
                                  /\ heap'[b].seq = sent[t] + 1 /\ sent'[t] = sent[t] + 1
<1> USE DEF heapVars
<1>0. TypeOK /\ ControlInv
  BY DEF IInv
<1>1. ASSUME NEW a \in Apps, AppObjectDelete(a) PROVE heap'[b] \in {None, heap[b]}
  BY <1>0, <1>1 DEF AppObjectDelete, TypeOK
<1>2. ASSUME NEW t \in Threads, NEW from \in Apps, NEW to \in Apps \cup {ToAll},
             NEW e \in Events, SendAlloc(t, from, to, e), heap'[b] # heap[b]
      PROVE  /\ heap[b] = None
             /\ out'[t] = b /\ heap'[b].by = t
             /\ heap'[b].seq = sent[t] + 1 /\ sent'[t] = sent[t] + 1
  <2> DEFINE m == [by |-> t, from |-> from, to |-> to, event |-> e, seq |-> sent[t] + 1]
  <2>1. PICK c \in Malloc(FreeBlocks) : /\ heap' = [heap EXCEPT ![c] = m]
                                        /\ out' = [out EXCEPT ![t] = c]
    BY <1>2 DEF SendAlloc
  <2>2. c = b
    BY <1>0, <1>2, <2>1 DEF TypeOK
  <2>3. heap[b] = None
    BY <2>1, <2>2, MallocIsFree
  <2>4. heap'[b] = m /\ out'[t] = b
    BY <1>0, <2>1, <2>2 DEF TypeOK
  <2>5. sent'[t] = sent[t] + 1
    BY <1>0, <1>2 DEF TypeOK, SendAlloc
  <2>6. QED
    BY <2>3, <2>4, <2>5
<1>3. ASSUME DistributeSend, heap'[b] # heap[b]
      PROVE  /\ heap[b] = None
             /\ main_qe \in Blocks /\ heap[main_qe] # None /\ heap'[b] = heap[main_qe]
  <2>1. PICK c \in Malloc(FreeBlocks) : heap' = [heap EXCEPT ![c] = heap[main_qe]]
    BY <1>3 DEF DistributeSend
  <2>2. c = b
    BY <1>0, <1>3, <2>1 DEF TypeOK
  <2>3. heap[b] = None
    BY <2>1, <2>2, MallocIsFree
  <2>4. heap'[b] = heap[main_qe]
    BY <1>0, <2>1, <2>2 DEF TypeOK
  <2>5. main_qe \in Blocks /\ heap[main_qe] # None
    BY <1>0, <1>3, HeldIsMsg, MsgAssumption DEF DistributeSend, ControlInv
  <2>6. QED
    BY <2>3, <2>4, <2>5
<1>4. CASE MainFree
  BY <1>0, <1>4 DEF MainFree, TypeOK
<1>5. ASSUME NEW a \in Apps, AppProc(a) PROVE heap'[b] \in {None, heap[b]}
  BY <1>0, <1>5 DEF AppProc, TypeOK
<1>6. CASE UNCHANGED heap
  BY <1>6
<1>7. QED
  BY <1>1, <1>2, <1>3, <1>4, <1>5, <1>6
  DEF Next, Main, Send, App, vars, AppNew, AppAddEvent, AppDispatch, AppListRemove,
      SendInsert, MainRecv, DistributeBegin, DistributeSkip, DistributeLose,
      DistributeEnd, AppRecv

LEMMA SameMessage ==
  ASSUME IInv, [Next]_vars, NEW b \in Blocks, heap[b] # None, heap'[b] # None
  PROVE  heap'[b] = heap[b]
BY HeapStep

\* Blocks in somebody's hands hold messages, before and after the step.
LEMMA HeldMsg ==
  ASSUME IInv
  PROVE  /\ \A b \in MainHeld : b \in Blocks /\ heap[b] \in Msg /\ heap[b] # None
         /\ \A a \in Apps : \A b \in AppHeld[a] :
               b \in Blocks /\ heap[b] \in Msg /\ heap[b] # None
         /\ \A t \in Threads : out[t] # None =>
               out[t] \in Blocks /\ heap[out[t]] \in Msg /\ heap[out[t]] # None
<1>0. TypeOK /\ UsedIsHeld
  BY DEF IInv, BlockOwnership
<1>1. ASSUME NEW b \in MainHeld PROVE b \in Blocks
  BY <1>0, ElemsType DEF MainHeld, TypeOK
<1>2. ASSUME NEW a \in Apps, NEW b \in AppHeld[a] PROVE b \in Blocks
  BY <1>0, ElemsType DEF AppHeld, TypeOK
<1>3. ASSUME NEW t \in Threads, out[t] # None PROVE out[t] \in Blocks /\ out[t] \in SendHeld[t]
  BY <1>0, <1>3 DEF SendHeld, TypeOK
<1>4. \A b \in Blocks : heap[b] # None => heap[b] \in Msg
  BY <1>0 DEF TypeOK
<1>5. QED
  BY <1>0, <1>1, <1>2, <1>3, <1>4 DEF UsedIsHeld

LEMMA NextIInv ==
  ASSUME IInv, [Next]_vars
  PROVE  IInv'
BY NextTypeOK, NextControlInv, NextNoDanglingApp, NextBlockOwnership DEF IInv

LEMMA HeldMsgNext ==
  ASSUME IInv, [Next]_vars
  PROVE  /\ \A b \in MainHeld' : b \in Blocks /\ heap'[b] \in Msg /\ heap'[b] # None
         /\ \A a \in Apps : \A b \in AppHeld'[a] :
               b \in Blocks /\ heap'[b] \in Msg /\ heap'[b] # None
         /\ \A t \in Threads : out'[t] # None =>
               out'[t] \in Blocks /\ heap'[out'[t]] \in Msg /\ heap'[out'[t]] # None
<1>0. TypeOK' /\ UsedIsHeld'
  BY NextIInv DEF IInv, BlockOwnership
<1>1. ASSUME NEW b \in MainHeld' PROVE b \in Blocks
  BY <1>0, ElemsType DEF MainHeld, TypeOK
<1>2. ASSUME NEW a \in Apps, NEW b \in AppHeld'[a] PROVE b \in Blocks
  BY <1>0, ElemsType DEF AppHeld, TypeOK
<1>3. ASSUME NEW t \in Threads, out'[t] # None
      PROVE  out'[t] \in Blocks /\ out'[t] \in SendHeld'[t]
  BY <1>0, <1>3 DEF SendHeld, TypeOK
<1>4. \A b \in Blocks : heap'[b] # None => heap'[b] \in Msg
  BY <1>0 DEF TypeOK
<1>5. QED
  BY <1>0, <1>1, <1>2, <1>3, <1>4 DEF UsedIsHeld

\* What an application has in hand after a step it had before, or it is the
\* copy just made of the message the main task holds.
LEMMA HoldingsStep ==
  ASSUME IInv, [Next]_vars, NEW a \in Apps, NEW c \in AppHeld'[a]
  PROVE  \/ c \in AppHeld[a] /\ heap'[c] = heap[c]
         \/ DistributeSend /\ a = app_new /\ heap'[c] = heap[main_qe]
<1> USE DEF heapVars
<1>0. TypeOK /\ ControlInv /\ BlockOwnership
  BY DEF IInv
<1>a. ASSUME c \in AppHeld[a] PROVE heap'[c] = heap[c]
  BY <1>a, HeldMsg, HeldMsgNext, SameMessage
<1>1. ASSUME NEW d \in Apps, AppObjectDelete(d) PROVE c \in AppHeld[a]
  BY <1>0, <1>1, ElemsEmpty DEF AppObjectDelete, AppHeld, TypeOK
<1>2. ASSUME NEW d \in Apps, AppRecv(d) PROVE c \in AppHeld[a]
  <2>1. /\ Head(msg_queue[d]) \in Elems(msg_queue[d])
        /\ Elems(Tail(msg_queue[d])) \subseteq Elems(msg_queue[d])
    BY <1>0, <1>2, TailFacts DEF AppRecv, TypeOK, BlockOwnership
  <2>2. None \notin Elems(msg_queue[d])
    BY <1>0, ElemsType DEF TypeOK
  <2>3. QED
    BY <1>0, <1>2, <2>1, <2>2 DEF AppRecv, AppHeld, TypeOK
<1>3. ASSUME NEW d \in Apps, AppProc(d) PROVE c \in AppHeld[a]
  BY <1>0, <1>3 DEF AppProc, AppHeld, TypeOK
<1>4. ASSUME DistributeSend, c \notin AppHeld[a]
      PROVE  a = app_new /\ heap'[c] = heap[main_qe]
  <2>1. app_new \in Apps
    BY <1>0, <1>4 DEF DistributeSend, TypeOK
  <2>2. PICK b \in Malloc(FreeBlocks) :
             /\ heap' = [heap EXCEPT ![b] = heap[main_qe]]
             /\ msg_queue' = [msg_queue EXCEPT ![app_new] = Append(@, b)]
    BY <1>4 DEF DistributeSend
  <2>3. b \in Blocks
    BY <2>2, MallocIsFree
  <2>4. qe' = qe
    BY <1>4 DEF DistributeSend
  <2>5. a = app_new
    BY <1>0, <1>4, <2>2, <2>4 DEF AppHeld, TypeOK
  <2>6. Elems(msg_queue'[a]) = Elems(msg_queue[a]) \cup {b}
    BY <1>0, <2>2, <2>3, <2>5, AppendFacts DEF TypeOK
  <2>7. c = b
    BY <1>4, <2>4, <2>6 DEF AppHeld
  <2>8. QED
    BY <1>0, <2>2, <2>3, <2>5, <2>7 DEF TypeOK
<1>5. CASE UNCHANGED <<msg_queue, qe>>
  BY <1>5, <1>a DEF AppHeld
<1>6. QED
  BY <1>a, <1>1, <1>2, <1>3, <1>4, <1>5
  DEF Next, Main, Send, App, vars, AppNew, AppAddEvent, AppDispatch, AppListRemove,
      SendAlloc, SendInsert, MainRecv, DistributeBegin, DistributeSkip, DistributeLose,
      DistributeEnd, MainFree

\* An application's count of a sender moves to the entry it processes.
LEMMA TakenStep ==
  ASSUME IInv, [Next]_vars, NEW a \in Apps, NEW t \in Threads
  PROVE  \/ taken'[a][t] = taken[a][t]
         \/ /\ AppProc(a) /\ qe[a] \in AppHeld[a]
            /\ t = heap[qe[a]].by /\ taken'[a][t] = heap[qe[a]].seq
<1>0. TypeOK
  BY DEF IInv
<1>1. ASSUME NEW d \in Apps, AppProc(d), taken'[a][t] # taken[a][t]
      PROVE  /\ d = a /\ qe[a] \in AppHeld[a]
             /\ t = heap[qe[a]].by /\ taken'[a][t] = heap[qe[a]].seq
  <2>1. taken' = [taken EXCEPT ![d][heap[qe[d]].by] = heap[qe[d]].seq]
    BY <1>1 DEF AppProc
  <2>2. d = a
    BY <1>0, <1>1, <2>1 DEF TypeOK
  <2>3. t = heap[qe[a]].by /\ taken'[a][t] = heap[qe[a]].seq
    BY <1>0, <1>1, <2>1, <2>2 DEF TypeOK
  <2>4. QED
    BY <1>1, <2>2, <2>3 DEF AppProc, AppHeld
<1>2. CASE UNCHANGED taken
  BY <1>2
<1>3. QED
  BY <1>1, <1>2
  DEF Next, Main, Send, App, vars, AppNew, AppAddEvent, AppDispatch, AppListRemove,
      AppObjectDelete, SendAlloc, SendInsert, MainRecv, DistributeBegin, DistributeSkip,
      DistributeSend, DistributeLose, DistributeEnd, MainFree, AppRecv

\* The main object gets an entry from a sender only.
LEMMA MainStep ==
  ASSUME IInv, [Next]_vars, NEW b \in MainHeld'
  PROVE  /\ heap'[b] = heap[b]
         /\ \/ b \in MainHeld
            \/ \E u \in Threads : SendInsert(u) /\ b = out[u]
<1> USE DEF heapVars
<1>0. TypeOK /\ ControlInv /\ BlockOwnership
  BY DEF IInv
<1>1. ASSUME NEW u \in Threads, SendInsert(u), b \notin MainHeld PROVE b = out[u]
  <2>1. out[u] \in Blocks
    BY <1>0, <1>1 DEF SendInsert, TypeOK
  <2>2. QED
    BY <1>0, <1>1, <2>1, AppendFacts DEF SendInsert, MainHeld, TypeOK
<1>2. CASE MainRecv
  <2>1. /\ Head(main_queue) \in Elems(main_queue)
        /\ Elems(Tail(main_queue)) \subseteq Elems(main_queue)
    BY <1>0, <1>2, TailFacts DEF MainRecv, TypeOK, BlockOwnership
  <2>2. b \in MainHeld
    BY <1>0, <1>2, <2>1, ElemsType DEF MainRecv, MainHeld, TypeOK
  <2>3. QED
    BY <2>2, HeldMsg, HeldMsgNext, SameMessage
<1>3. CASE MainFree
  <2>1. b \in MainHeld
    BY <1>3 DEF MainFree, MainHeld
  <2>2. QED
    BY <2>1, HeldMsg, HeldMsgNext, SameMessage
<1>4. CASE UNCHANGED <<main_queue, main_qe>>
  <2>1. b \in MainHeld
    BY <1>4 DEF MainHeld
  <2>2. QED
    BY <2>1, HeldMsg, HeldMsgNext, SameMessage
<1>5. ASSUME NEW u \in Threads, SendInsert(u) PROVE heap'[b] = heap[b]
  BY <1>5 DEF SendInsert
<1>6. QED
  BY <1>1, <1>2, <1>3, <1>4, <1>5, HeldMsg, HeldMsgNext, SameMessage
  DEF Next, Main, Send, App, vars, AppNew, AppAddEvent, AppDispatch, AppListRemove,
      AppObjectDelete, SendAlloc, DistributeBegin, DistributeSkip,
      DistributeSend, DistributeLose, DistributeEnd, AppRecv, AppProc

\* A message newer than what an application has stays so, unless the
\* application is being given a copy that is not older than it.
LEMMA NewToKept ==
  ASSUME IInv, [Next]_vars, NEW b \in Blocks, heap[b] # None, heap'[b] # None,
         NEW a \in Apps, NewTo(b, a),
         DistributeSend /\ a = app_new => Older(heap[main_qe], heap[b])
  PROVE  NewTo(b, a)'
<1>1. heap'[b] = heap[b] /\ heap[b] \in Msg
  BY SameMessage DEF IInv, TypeOK
<1>2. heap[b].by \in Threads
  BY <1>1 DEF Msg
<1>3. heap[b].seq > taken'[a][heap[b].by]
  <2>1. CASE taken'[a][heap[b].by] = taken[a][heap[b].by]
    BY <2>1 DEF NewTo
  <2>2. CASE /\ qe[a] \in AppHeld[a] /\ heap[b].by = heap[qe[a]].by
             /\ taken'[a][heap[b].by] = heap[qe[a]].seq
    <3>1. heap[qe[a]] \in Msg
      BY <2>2, HeldMsg
    <3>2. heap[qe[a]].seq < heap[b].seq
      BY <2>2 DEF NewTo, Older
    <3>3. QED
      BY <1>1, <2>2, <3>1, <3>2 DEF Msg
  <2>3. QED
    BY <1>2, <2>1, <2>2, TakenStep
<1>4. \A c \in AppHeld'[a] : Older(heap'[c], heap[b])
  BY HoldingsStep DEF NewTo
<1>5. QED
  BY <1>1, <1>3, <1>4 DEF NewTo

-----------------------------------------------------------------------------
(* Sending order and addressees                                            *)

\* A queue whose entries keep their messages keeps its order when an entry
\* newer than all of them is added at its tail or its head is removed.
LEMMA AppendInOrder ==
  ASSUME NEW s \in Seq(Blocks), NEW x \in Blocks, InSendingOrder(s),
         \A b \in Elems(s) \cup {x} : heap'[b] = heap[b],
         \A b \in Elems(s) : Older(heap[b], heap[x])
  PROVE  \A i, j \in 1..Len(Append(s, x)) :
           i < j => Older(heap'[Append(s, x)[i]], heap'[Append(s, x)[j]])
<1>1. /\ Len(s) \in Nat /\ Len(Append(s, x)) = Len(s) + 1
      /\ \A i \in 1..Len(s) : Append(s, x)[i] = s[i]
      /\ Append(s, x)[Len(s) + 1] = x
  BY AppendProperties, LenProperties
<1>2. \A i \in 1..Len(s) : s[i] \in Elems(s)
  BY DEF Elems
<1> SUFFICES ASSUME NEW i \in 1..Len(Append(s, x)), NEW j \in 1..Len(Append(s, x)), i < j
             PROVE  Older(heap'[Append(s, x)[i]], heap'[Append(s, x)[j]])
  OBVIOUS
<1>3. i \in 1..Len(s)
  BY <1>1
<1>4. CASE j \in 1..Len(s)
  BY <1>1, <1>2, <1>3, <1>4 DEF InSendingOrder
<1>5. CASE j = Len(s) + 1
  BY <1>1, <1>2, <1>3, <1>5
<1>6. QED
  BY <1>1, <1>4, <1>5

LEMMA TailInOrder ==
  ASSUME NEW s \in Seq(Blocks), s # << >>, InSendingOrder(s),
         \A b \in Elems(s) : heap'[b] = heap[b]
  PROVE  /\ \A i, j \in 1..Len(Tail(s)) :
              i < j => Older(heap'[Tail(s)[i]], heap'[Tail(s)[j]])
         /\ \A b \in Elems(Tail(s)) : Older(heap'[Head(s)], heap'[b])
<1>1. /\ Len(s) \in Nat \ {0} /\ Len(Tail(s)) = Len(s) - 1
      /\ \A i \in 1..Len(Tail(s)) : Tail(s)[i] = s[i + 1]
      /\ Head(s) = s[1]
  BY HeadTailProperties, EmptySeq
<1>2. \A i \in 1..Len(s) : s[i] \in Elems(s)
  BY DEF Elems
<1>3. ASSUME NEW i \in 1..Len(Tail(s)), NEW j \in 1..Len(Tail(s)), i < j
      PROVE  Older(heap'[Tail(s)[i]], heap'[Tail(s)[j]])
  <2>1. i + 1 \in 1..Len(s) /\ j + 1 \in 1..Len(s) /\ i + 1 < j + 1
    BY <1>1, <1>3
  <2>2. QED
    BY <1>1, <1>2, <2>1 DEF InSendingOrder
<1>4. ASSUME NEW b \in Elems(Tail(s)) PROVE Older(heap'[Head(s)], heap'[b])
  <2>1. PICK i \in 1..Len(Tail(s)) : b = Tail(s)[i]
    BY DEF Elems
  <2>2. 1 \in 1..Len(s) /\ i + 1 \in 1..Len(s) /\ 1 < i + 1 /\ b = s[i + 1]
    BY <1>1, <2>1
  <2>3. QED
    BY <1>1, <1>2, <2>2 DEF InSendingOrder
<1>5. QED
  BY <1>3, <1>4

\* A queue nobody touched
LEMMA SameInOrder ==
  ASSUME NEW s, InSendingOrder(s), \A b \in Elems(s) : heap'[b] = heap[b]
  PROVE  \A i, j \in 1..Len(s) : i < j => Older(heap'[s[i]], heap'[s[j]])
BY DEF InSendingOrder, Elems

LEMMA NextSendersCount ==
  ASSUME IInv, OrderInv, [Next]_vars
  PROVE  SendersCount'
<1>0. TypeOK /\ TypeOK' /\ SendersCount
  BY NextIInv DEF IInv, OrderInv
<1>1. \A t \in Threads : sent'[t] \in Nat /\ sent[t] \in Nat /\ sent[t] <= sent'[t]
  <2>1. ASSUME NEW t \in Threads, NEW from \in Apps, NEW to \in Apps \cup {ToAll},
               NEW e \in Events, SendAlloc(t, from, to, e)
        PROVE  \A u \in Threads : sent[u] <= sent'[u]
    <3>1. sent' = [sent EXCEPT ![t] = sent[t] + 1] /\ sent \in [Threads -> Nat]
      BY <1>0, <2>1 DEF SendAlloc, TypeOK
    <3>2. QED
      BY <3>1
  <2>2. CASE UNCHANGED sent
    BY <1>0, <2>2 DEF TypeOK
  <2>3. \A u \in Threads : sent[u] <= sent'[u]
    BY <2>1, <2>2
    DEF Next, Main, Send, App, vars, AppNew, AppAddEvent, AppDispatch, AppListRemove,
        AppObjectDelete, SendInsert, MainRecv, DistributeBegin, DistributeSkip,
        DistributeSend, DistributeLose, DistributeEnd, MainFree, AppRecv, AppProc
  <2>4. QED
    BY <1>0, <2>3 DEF TypeOK
<1>2. ASSUME NEW b \in Blocks, heap'[b] # None
      PROVE  heap'[b].seq <= sent'[heap'[b].by]
  <2>1. heap'[b] \in Msg
    BY <1>0, <1>2 DEF TypeOK
  <2>2. CASE \E c \in Blocks : heap[c] # None /\ heap'[b] = heap[c]
    <3>1. PICK c \in Blocks : heap[c] # None /\ heap'[b] = heap[c]
      BY <2>2
    <3>2. heap'[b].seq <= sent[heap'[b].by]
      BY <1>0, <3>1 DEF SendersCount
    <3>3. QED
      BY <1>1, <2>1, <3>2 DEF Msg
  <2>3. CASE \E t \in Threads : /\ heap'[b].by = t
                                /\ heap'[b].seq = sent[t] + 1 /\ sent'[t] = sent[t] + 1
    BY <1>1, <2>3
  <2>4. QED
    BY <1>2, <2>2, <2>3, HeapStep
<1>3. ASSUME NEW a \in Apps, NEW t \in Threads PROVE taken'[a][t] <= sent'[t]
  <2>1. taken'[a][t] <= sent[t]
    BY <1>0, TakenStep, HeldMsg DEF SendersCount
  <2>2. taken'[a][t] \in Nat
    BY <1>0 DEF TypeOK
  <2>3. QED
    BY <1>1, <2>1, <2>2
<1>4. QED
  BY <1>2, <1>3 DEF SendersCount

LEMMA NextOutIsNewest ==
  ASSUME IInv, OrderInv, [Next]_vars
  PROVE  OutIsNewest'
<1>0. /\ TypeOK /\ SendersCount /\ OutIsNewest
      /\ main_qe # None => main_qe \in MainHeld
  BY DEF IInv, OrderInv, TypeOK, MainHeld
<1> SUFFICES ASSUME NEW t \in Threads, out'[t] # None
             PROVE  /\ heap'[out'[t]].by = t
                    /\ \A b \in MainHeld' : Older(heap'[b], heap'[out'[t]])
                    /\ \A a \in Apps : NewTo(out[t], a)'
  BY DEF OutIsNewest
<1>1. CASE out'[t] = out[t]
  <2>1. /\ out[t] # None /\ out[t] \in Blocks
        /\ heap[out[t]] # None /\ heap'[out[t]] # None /\ heap'[out[t]] = heap[out[t]]
    BY <1>1, HeldMsg, HeldMsgNext, SameMessage
  <2>2. heap'[out'[t]].by = t
    BY <1>0, <1>1, <2>1 DEF OutIsNewest
  <2>3. ASSUME NEW b \in MainHeld' PROVE Older(heap'[b], heap'[out'[t]])
    <3>1. CASE b \in MainHeld
      BY <1>0, <1>1, <2>1, <3>1, MainStep DEF OutIsNewest
    <3>2. ASSUME NEW u \in Threads, SendInsert(u), b = out[u]
          PROVE  Older(heap'[b], heap'[out'[t]])
      <4>1. u # t
        BY <1>0, <1>1, <2>1, <3>2 DEF SendInsert, TypeOK
      <4>2. heap'[b].by = u
        BY <1>0, <3>2, MainStep DEF SendInsert, OutIsNewest
      <4>3. QED
        BY <2>2, <4>1, <4>2 DEF Older
    <3>3. QED
      BY <3>1, <3>2, MainStep
  <2>4. ASSUME NEW a \in Apps PROVE NewTo(out[t], a)'
    <3>1. NewTo(out[t], a)
      BY <1>0, <2>1 DEF OutIsNewest
    <3>2. DistributeSend => Older(heap[main_qe], heap[out[t]])
      BY <1>0, <2>1 DEF DistributeSend, OutIsNewest, IInv, ControlInv
    <3>3. /\ heap'[out[t]].seq > taken'[a][heap'[out[t]].by]
          /\ \A c \in AppHeld'[a] : Older(heap'[c], heap'[out[t]])
      BY <2>1, <3>1, <3>2, NewToKept DEF NewTo
    <3>4. QED
      BY <1>1, <3>3 DEF NewTo
  <2>5. QED
    BY <2>2, <2>3, <2>4
<1>2. CASE out'[t] # out[t]
  <2>1. PICK from \in Apps, to \in Apps \cup {ToAll}, e \in Events : SendAlloc(t, from, to, e)
    <3>1. ASSUME NEW u \in Threads, SendInsert(u) PROVE FALSE
      BY <1>0, <1>2, <3>1 DEF SendInsert, TypeOK
    <3>2. ASSUME NEW u \in Threads, NEW from \in Apps, NEW to \in Apps \cup {ToAll},
                 NEW e \in Events, SendAlloc(u, from, to, e)
          PROVE  u = t
      BY <1>0, <1>2, <3>2 DEF SendAlloc, TypeOK
    <3>3. \/ \E u \in Threads : SendInsert(u)
          \/ \E u \in Threads, from \in Apps, to \in Apps \cup {ToAll}, e \in Events :
               SendAlloc(u, from, to, e)
          \/ UNCHANGED out
      BY DEF Next, Main, Send, App, vars, heapVars, AppNew, AppAddEvent, AppDispatch,
             AppListRemove, AppObjectDelete, MainRecv, DistributeBegin, DistributeSkip,
             DistributeSend, DistributeLose, DistributeEnd, MainFree, AppRecv, AppProc
    <3>4. QED
      BY <1>2, <3>1, <3>2, <3>3
  <2> DEFINE m == [by |-> t, from |-> from, to |-> to, event |-> e, seq |-> sent[t] + 1]
  <2>2. PICK b \in Malloc(FreeBlocks) : /\ heap' = [heap EXCEPT ![b] = m]
                                        /\ out' = [out EXCEPT ![t] = b]
    BY <2>1 DEF SendAlloc
  <2>3. b \in Blocks /\ heap[b] = None
    BY <2>2, MallocIsFree
  <2>4. out'[t] = b /\ heap'[b].by = t /\ heap'[b].seq = sent[t] + 1
    BY <1>0, <2>2, <2>3 DEF TypeOK
  <2>5. sent[t] \in Nat
    BY <1>0 DEF TypeOK
  <2>6. ASSUME NEW c \in Blocks, heap[c] # None
        PROVE  Older(heap'[c], heap'[b])
    <3>1. heap'[c] = heap[c] /\ heap[c] \in Msg /\ heap[c].seq <= sent[heap[c].by]
      BY <1>0, <2>2, <2>3, <2>6 DEF TypeOK, SendersCount
    <3>2. QED
      BY <2>4, <2>5, <3>1 DEF Older, Msg
  <2>7. MainHeld' = MainHeld /\ taken' = taken /\ \A a \in Apps : AppHeld'[a] = AppHeld[a]
    BY <2>1 DEF SendAlloc, MainHeld, AppHeld
  <2>8. \A c \in MainHeld' : Older(heap'[c], heap'[b])
    BY <2>6, <2>7, HeldMsg
  <2>9. ASSUME NEW a \in Apps
        PROVE  /\ heap'[b].seq > taken'[a][heap'[b].by]
               /\ \A c \in AppHeld'[a] : Older(heap'[c], heap'[b])
    <3>1. taken[a][t] <= sent[t] /\ taken[a][t] \in Nat
      BY <1>0 DEF TypeOK, SendersCount
    <3>2. heap'[b].seq > taken'[a][heap'[b].by]
      BY <2>4, <2>5, <2>7, <3>1
    <3>3. \A c \in AppHeld'[a] : Older(heap'[c], heap'[b])
      BY <2>6, <2>7, HeldMsg
    <3>4. QED
      BY <3>2, <3>3
  <2>10. QED
    BY <2>4, <2>8, <2>9 DEF NewTo
<1>3. QED
  BY <1>1, <1>2

LEMMA NextMainInOrder ==
  ASSUME IInv, OrderInv, [Next]_vars
  PROVE  MainInOrder'
<1>0. TypeOK /\ ControlInv /\ BlockOwnership /\ OutIsNewest /\ MainInOrder
  BY DEF IInv, OrderInv
<1>1. \A b \in Elems(main_queue) : b \in MainHeld /\ b \in Blocks
  BY HeldMsg DEF MainHeld
<1>2. ASSUME NEW b \in Elems(main_queue)', NEW a \in Apps PROVE NewTo(b, a)'
  <2>1. /\ b \in MainHeld' /\ b \in Blocks /\ heap'[b] # None /\ heap'[b] = heap[b]
        /\ heap[b] # None
    BY HeldMsgNext, MainStep DEF MainHeld
  <2>2. CASE b \in Elems(main_queue)
    <3>1. NewTo(b, a) /\ (main_qe # None => Older(heap[main_qe], heap[b]))
      BY <1>0, <2>2 DEF MainInOrder
    <3>2. DistributeSend => main_qe # None
      BY <1>0 DEF DistributeSend, ControlInv
    <3>3. QED
      BY <2>1, <3>1, <3>2, NewToKept
  <2>3. CASE b \notin Elems(main_queue)
    <3>1. PICK u \in Threads : SendInsert(u)
      <4>1. MainRecv => Elems(main_queue') \subseteq Elems(main_queue)
        BY <1>0, TailFacts DEF MainRecv, TypeOK, BlockOwnership
      <4>2. QED
        BY <2>3, <4>1
        DEF Next, Main, Send, App, vars, heapVars, AppNew, AppAddEvent, AppDispatch,
            AppListRemove, AppObjectDelete, SendAlloc, DistributeBegin, DistributeSkip,
            DistributeSend, DistributeLose, DistributeEnd, MainFree, AppRecv, AppProc
    <3>2. b = out[u] /\ out[u] # None
      BY <1>0, <2>3, <3>1, AppendFacts DEF SendInsert, TypeOK
    <3>3. NewTo(b, a) /\ \A c \in MainHeld : Older(heap[c], heap[b])
      BY <1>0, <3>2 DEF OutIsNewest
    <3>4. DistributeSend => main_qe \in MainHeld
      BY <1>0 DEF DistributeSend, ControlInv, MainHeld
    <3>5. QED
      BY <2>1, <3>3, <3>4, NewToKept
  <2>4. QED
    BY <2>2, <2>3
<1> DEFINE InLine ==
      /\ \A i, j \in 1..Len(main_queue') :
            i < j => Older(heap'[main_queue'[i]], heap'[main_queue'[j]])
      /\ main_qe' # None => \A b \in Elems(main_queue') : Older(heap'[main_qe'], heap'[b])
<1>3. InLine
  <2>1. ASSUME NEW t \in Threads, SendInsert(t) PROVE InLine
    <3>1. /\ out[t] \in Blocks /\ out[t] # None /\ main_queue' = Append(main_queue, out[t])
          /\ heap' = heap /\ main_qe' = main_qe
      BY <1>0, <2>1 DEF SendInsert, TypeOK
    <3>2. \A b \in MainHeld : Older(heap[b], heap[out[t]])
      BY <1>0, <3>1 DEF OutIsNewest
    <3>3. Elems(main_queue') = Elems(main_queue) \cup {out[t]}
      BY <1>0, <3>1, AppendFacts DEF TypeOK
    <3>4. main_qe' # None => \A b \in Elems(main_queue') : Older(heap'[main_qe'], heap'[b])
      BY <1>0, <3>1, <3>2, <3>3 DEF MainInOrder, MainHeld
    <3>5. QED
      BY <1>0, <1>1, <3>1, <3>2, <3>4, AppendInOrder DEF MainInOrder, TypeOK
  <2>2. CASE MainRecv
    BY <1>0, <2>2, TailInOrder DEF MainRecv, MainInOrder, TypeOK
  <2>3. CASE UNCHANGED main_queue /\ main_qe' \in {None, main_qe}
    <3>1. \A b \in Elems(main_queue) : heap'[b] = heap[b]
      BY <2>3, MainStep DEF MainHeld
    <3>2. main_qe' # None => heap'[main_qe'] = heap[main_qe]
      <4>1. main_qe' # None => main_qe' \in MainHeld'
        BY DEF MainHeld
      <4>2. QED
        BY <2>3, <4>1, MainStep
    <3>3. QED
      BY <1>0, <2>3, <3>1, <3>2, SameInOrder DEF MainInOrder
  <2>4. QED
    BY <2>1, <2>2, <2>3
    DEF Next, Main, Send, App, vars, heapVars, AppNew, AppAddEvent, AppDispatch,
        AppListRemove, AppObjectDelete, SendAlloc, DistributeBegin, DistributeSkip,
        DistributeSend, DistributeLose, DistributeEnd, MainFree, AppRecv, AppProc
<1>4. QED
  BY <1>2, <1>3 DEF MainInOrder, InSendingOrder

\* LIST_NEXT moves one place on in a list without duplicates.
LEMMA NextOfMovesOn ==
  ASSUME NEW s \in Seq(Apps), NoRepeat(s), NEW x \in Elems(s),
         NEW k \in 1..Len(s), s[k] = NextOf(s, x, None)
  PROVE  k - 1 \in 1..Len(s) /\ s[k - 1] = x
<1>0. Len(s) \in Nat /\ \A i \in 1..Len(s) : s[i] \in Apps
  BY LenProperties, ElementOfSeq
<1>1. CASE \E i \in 1..(Len(s) - 1) : s[i] = x
  <2> DEFINE n == CHOOSE i \in 1..(Len(s) - 1) : s[i] = x
  <2>1. n \in 1..(Len(s) - 1) /\ s[n] = x
    BY <1>1
  <2>2. NextOf(s, x, None) = s[1 + n]
    BY <1>1 DEF NextOf
  <2> HIDE DEF n
  <2>3. 1 + n \in 1..Len(s) /\ s[k] = s[1 + n]
    BY <1>0, <2>1, <2>2
  <2>4. k = 1 + n
    BY <2>3 DEF NoRepeat
  <2>5. QED
    BY <1>0, <2>1, <2>4
<1>2. CASE ~\E i \in 1..(Len(s) - 1) : s[i] = x
  BY <1>0, <1>2 DEF NextOf
<1>3. QED
  BY <1>1, <1>2

\* The cursor leaves applications behind: whom it has yet to pass after a move
\* it had yet to pass before, and the one it left is not among them.
LEMMA CursorMoves ==
  ASSUME IInv, main_pc = "walk", app_new # None, main_pc' = main_pc, apps_list' = apps_list,
         app_new' \in {None, NextOf(apps_list, app_new, None)},
         NEW a \in Apps, Ahead(a)'
  PROVE  Ahead(a) /\ a # app_new
<1>0. /\ apps_list \in Seq(Apps) /\ NoRepeat(apps_list) /\ app_new \in Elems(apps_list)
      /\ Len(apps_list) \in Nat
  BY LenProperties DEF IInv, TypeOK, NoDanglingApp
<1>1. PICK k, j \in 1..Len(apps_list) :
         k <= j /\ apps_list[k] = app_new' /\ apps_list[j] = a
  BY DEF Ahead
<1>2. app_new' # None
  BY <1>0, <1>1, ElementOfSeq
<1>3. k - 1 \in 1..Len(apps_list) /\ apps_list[k - 1] = app_new
  BY <1>0, <1>1, <1>2, NextOfMovesOn
<1>4. Ahead(a)
  BY <1>0, <1>1, <1>3 DEF Ahead
<1>5. a # app_new
  BY <1>0, <1>1, <1>3 DEF NoRepeat
<1>6. QED
  BY <1>4, <1>5

LEMMA NextCopyIsNew ==
  ASSUME IInv, OrderInv, [Next]_vars
  PROVE  CopyIsNew'
<1>0. /\ TypeOK /\ ControlInv /\ NoDanglingApp /\ MainInOrder /\ CopyIsNew
      /\ TypeOK' /\ ControlInv'
  BY NextIInv DEF IInv, OrderInv
<1> SUFFICES ASSUME NEW a \in Apps, Ahead(a)'
             PROVE  NewTo(main_qe, a)'
  BY DEF CopyIsNew
<1>1. main_qe' # None /\ main_qe' \in MainHeld'
  BY <1>0 DEF Ahead, ControlInv, MainHeld
<1>2. main_qe' \in Blocks /\ heap'[main_qe'] # None /\ heap'[main_qe'] = heap[main_qe']
      /\ heap[main_qe'] # None
  BY <1>1, HeldMsgNext, MainStep
<1>3. CASE /\ Ahead(a) /\ main_qe' = main_qe
           /\ DistributeSend => a # app_new
  <2>1. NewTo(main_qe, a)
    BY <1>0, <1>3 DEF CopyIsNew
  <2>2. QED
    BY <1>2, <1>3, <2>1, NewToKept DEF NewTo
<1>4. CASE MainRecv
  <2>1. main_qe' \in Elems(main_queue)
    BY <1>0, <1>4, EmptySeq, HeadTailProperties DEF MainRecv, TypeOK, Elems
  <2>2. NewTo(main_qe', a)
    BY <1>0, <2>1 DEF MainInOrder
  <2>3. ~DistributeSend
    BY <1>4 DEF MainRecv, DistributeSend
  <2>4. QED
    BY <1>2, <2>2, <2>3, NewToKept DEF NewTo
<1>5. CASE DistributeBegin
  BY <1>3, <1>5 DEF DistributeBegin, DistributeSend, Ahead, heapVars
<1>6. CASE DistributeSkip \/ DistributeSend \/ DistributeLose
  <2>1. /\ main_pc = "walk" /\ app_new # None /\ main_pc' = main_pc
        /\ apps_list' = apps_list /\ main_qe' = main_qe
        /\ app_new' \in {None, NextOf(apps_list, app_new, None)}
    BY <1>6 DEF DistributeSkip, DistributeSend, DistributeLose, AfterMatch, heapVars, appVars
  <2>2. QED
    BY <1>3, <2>1, CursorMoves
<1>7. CASE DistributeEnd \/ MainFree
  BY <1>7 DEF DistributeEnd, MainFree, Ahead
<1>8. CASE /\ UNCHANGED <<main_pc, app_new, main_qe>> /\ ~DistributeSend
           /\ main_pc = "walk" => UNCHANGED apps_list
  BY <1>3, <1>8 DEF Ahead
<1>9. CASE Main
  BY <1>4, <1>5, <1>6, <1>7, <1>9 DEF Main
<1>10. CASE ~Main
  <2>1. /\ UNCHANGED <<main_pc, app_new, main_qe>>
        /\ main_pc = "walk" => UNCHANGED apps_list
    BY <1>0, <1>10
    DEF ControlInv, Next, Send, App, vars, heapVars, mainVars, appVars, AppNew, AppAddEvent,
        AppDispatch, AppListRemove, AppObjectDelete, SendAlloc, SendInsert, AppRecv, AppProc
  <2>2. QED
    BY <1>8, <1>10, <2>1 DEF Main
<1>11. QED
  BY <1>9, <1>10

LEMMA NextAppsInOrder ==
  ASSUME IInv, OrderInv, [Next]_vars
  PROVE  AppsInOrder'
<1>0. TypeOK /\ ControlInv /\ BlockOwnership /\ CopyIsNew /\ AppsInOrder
  BY DEF IInv, OrderInv
<1> SUFFICES ASSUME NEW a \in Apps
             PROVE  /\ InSendingOrder(msg_queue[a])'
                    /\ \A b \in AppHeld'[a] : heap'[b].seq > taken'[a][heap'[b].by]
                    /\ qe'[a] # None =>
                         \A b \in Elems(msg_queue'[a]) : Older(heap'[qe'[a]], heap'[b])
  BY DEF AppsInOrder
<1>a. /\ msg_queue[a] \in Seq(Blocks)
      /\ \A b \in Elems(msg_queue[a]) : b \in AppHeld[a]
      /\ qe[a] # None => qe[a] \in AppHeld[a]
      /\ InSendingOrder(msg_queue[a])
      /\ \A b \in AppHeld[a] : heap[b].seq > taken[a][heap[b].by]
      /\ qe[a] # None => \A b \in Elems(msg_queue[a]) : Older(heap[qe[a]], heap[b])
  BY <1>0 DEF TypeOK, AppHeld, AppsInOrder
<1>b. \A b \in Elems(msg_queue'[a]) : b \in AppHeld'[a]
  BY DEF AppHeld
<1>1. CASE DistributeSend /\ app_new = a
  <2>1. PICK b \in Malloc(FreeBlocks) :
             /\ heap' = [heap EXCEPT ![b] = heap[main_qe]]
             /\ msg_queue' = [msg_queue EXCEPT ![a] = Append(@, b)]
    BY <1>1 DEF DistributeSend
  <2>2. b \in Blocks /\ heap[b] = None /\ b \notin AppHeld[a]
    BY <2>1, MallocIsFree, FreeIsNotHeld
  <2>3. /\ heap'[b] = heap[main_qe]
        /\ \A c \in Blocks \ {b} : heap'[c] = heap[c]
        /\ msg_queue'[a] = Append(msg_queue[a], b)
        /\ qe' = qe /\ taken' = taken
    BY <1>0, <1>1, <2>1, <2>2 DEF TypeOK, DistributeSend
  <2>4. Ahead(a)
    <3>1. a \in Elems(apps_list) /\ main_pc = "walk"
      BY <1>1 DEF DistributeSend, IInv, NoDanglingApp
    <3>2. PICK i \in 1..Len(apps_list) : apps_list[i] = a
      BY <3>1 DEF Elems
    <3>3. i <= i
      BY <1>0, LenProperties DEF TypeOK
    <3>4. QED
      BY <1>1, <3>1, <3>2, <3>3 DEF Ahead
  <2>5. /\ heap'[b].seq > taken'[a][heap'[b].by]
        /\ \A c \in AppHeld[a] : Older(heap'[c], heap'[b]) /\ heap'[c] = heap[c]
    <3>1. NewTo(main_qe, a)
      BY <1>0, <2>4 DEF CopyIsNew
    <3>2. \A c \in AppHeld[a] : heap'[c] = heap[c]
      BY <2>2, <2>3, HeldMsg
    <3>3. QED
      BY <2>3, <3>1, <3>2 DEF NewTo
  <2>6. Elems(msg_queue'[a]) = Elems(msg_queue[a]) \cup {b}
    BY <1>a, <2>2, <2>3, AppendFacts
  <2>7. AppHeld'[a] = AppHeld[a] \cup {b}
    BY <2>3, <2>6 DEF AppHeld
  <2>8. \A i, j \in 1..Len(msg_queue'[a]) :
           i < j => Older(heap'[msg_queue'[a][i]], heap'[msg_queue'[a][j]])
    <3> DEFINE s == msg_queue[a]
    <3>2. Len(s) \in Nat /\ Len(Append(s, b)) = Len(s) + 1
          /\ (\A i \in 1..Len(s) : Append(s, b)[i] = s[i]) /\ Append(s, b)[Len(s) + 1] = b
      BY <1>a, <2>2, AppendProperties, LenProperties
    <3>3. \A i \in 1..Len(s) : s[i] \in AppHeld[a]
      BY <1>a DEF Elems
    <3>4. ASSUME NEW i \in 1..Len(Append(s, b)), NEW j \in 1..Len(Append(s, b)), i < j
          PROVE  Older(heap'[Append(s, b)[i]], heap'[Append(s, b)[j]])
      <4>1. i \in 1..Len(s)
        BY <3>2, <3>4
      <4>2. CASE j \in 1..Len(s)
        BY <1>a, <2>5, <3>2, <3>3, <3>4, <4>1, <4>2 DEF InSendingOrder
      <4>3. CASE j = Len(s) + 1
        BY <2>5, <3>2, <3>3, <4>1, <4>3
      <4>4. QED
        BY <3>2, <4>2, <4>3
    <3>5. QED
      BY <2>3, <3>4
  <2>9. QED
    BY <1>a, <2>3, <2>5, <2>6, <2>7, <2>8 DEF InSendingOrder
<1>2. ASSUME NEW b \in AppHeld'[a], ~(DistributeSend /\ app_new = a)
      PROVE  b \in AppHeld[a] /\ heap'[b] = heap[b]
  BY <1>2, HoldingsStep
<1>3. CASE AppRecv(a)
  <2> DEFINE s == msg_queue[a]
  <2>1. /\ s # << >> /\ msg_queue'[a] = Tail(s) /\ qe'[a] = Head(s)
        /\ heap' = heap /\ taken' = taken
    BY <1>0, <1>3 DEF AppRecv, TypeOK
  <2>2. ~DistributeSend
    <3>1. qe[a] = None /\ qe'[a] \in Blocks
      BY <1>a, <1>3, <2>1, HeadTailProperties DEF AppRecv
    <3>2. QED
      BY <3>1 DEF DistributeSend
  <2>3. QED
    BY <1>a, <1>2, <2>1, <2>2, TailInOrder DEF InSendingOrder
<1>4. CASE AppProc(a)
  <2>1. /\ qe[a] # None /\ qe'[a] = None /\ msg_queue' = msg_queue
        /\ taken' = [taken EXCEPT ![a][heap[qe[a]].by] = heap[qe[a]].seq]
    BY <1>0, <1>4 DEF AppProc, TypeOK
  <2>2. AppHeld'[a] = Elems(msg_queue[a])
    BY <1>0, <2>1, ElemsType DEF AppHeld, TypeOK
  <2>3. ~(DistributeSend /\ app_new = a)
    BY <1>4, <2>1 DEF DistributeSend
  <2>4. \A b \in Elems(msg_queue[a]) : heap'[b] = heap[b]
    BY <1>2, <2>2, <2>3
  <2>5. ASSUME NEW b \in Elems(msg_queue[a])
        PROVE  heap[b].seq > taken'[a][heap[b].by]
    <3>1. heap[b] \in Msg /\ Older(heap[qe[a]], heap[b])
      BY <1>a, <2>1, HeldMsg
    <3>2. heap[b].by \in Threads /\ heap[b].seq > taken[a][heap[b].by]
      BY <1>a, <3>1 DEF Msg
    <3>3. CASE heap[b].by = heap[qe[a]].by
      <4>1. taken'[a][heap[b].by] = heap[qe[a]].seq
        BY <1>0, <2>1, <3>2, <3>3 DEF TypeOK
      <4>2. heap[qe[a]] \in Msg
        BY <2>1, <1>a, HeldMsg
      <4>3. QED
        BY <3>1, <3>3, <4>1, <4>2 DEF Older, Msg
    <3>4. CASE heap[b].by # heap[qe[a]].by
      <4>1. taken'[a][heap[b].by] = taken[a][heap[b].by]
        BY <1>0, <2>1, <3>2, <3>4 DEF TypeOK
      <4>2. QED
        BY <3>2, <4>1
    <3>5. QED
      BY <3>3, <3>4
  <2>6. QED
    BY <1>a, <2>1, <2>2, <2>4, <2>5, SameInOrder DEF InSendingOrder
<1>5. CASE AppObjectDelete(a)
  <2>1. msg_queue'[a] = << >> /\ qe'[a] = None
    BY <1>0, <1>5 DEF AppObjectDelete, TypeOK, ControlInv
  <2>2. AppHeld'[a] = {} /\ Elems(msg_queue'[a]) = {} /\ Len(msg_queue'[a]) = 0
    BY <2>1, ElemsEmpty DEF AppHeld
  <2>3. QED
    BY <2>1, <2>2 DEF InSendingOrder
<1>6. CASE /\ msg_queue'[a] = msg_queue[a] /\ qe'[a] = qe[a] /\ taken'[a] = taken[a]
           /\ ~(DistributeSend /\ app_new = a)
  <2>1. \A b \in AppHeld[a] : b \in AppHeld'[a] /\ heap'[b] = heap[b]
    BY <1>2, <1>6 DEF AppHeld
  <2>2. \A i, j \in 1..Len(msg_queue[a]) :
           i < j => Older(heap'[msg_queue[a][i]], heap'[msg_queue[a][j]])
    BY <1>a, <2>1, SameInOrder
  <2>3. QED
    BY <1>a, <1>2, <1>6, <2>1, <2>2 DEF InSendingOrder
<1>7. ASSUME ~AppRecv(a), ~AppProc(a), ~AppObjectDelete(a), ~(DistributeSend /\ app_new = a)
      PROVE  msg_queue'[a] = msg_queue[a] /\ qe'[a] = qe[a] /\ taken'[a] = taken[a]
  <2>1. ASSUME NEW c \in Apps \ {a}, AppRecv(c) \/ AppProc(c) \/ AppObjectDelete(c)
        PROVE  msg_queue'[a] = msg_queue[a] /\ qe'[a] = qe[a] /\ taken'[a] = taken[a]
    BY <1>0, <2>1 DEF AppRecv, AppProc, AppObjectDelete, TypeOK
  <2>2. ASSUME DistributeSend, app_new # a
        PROVE  msg_queue'[a] = msg_queue[a] /\ qe'[a] = qe[a] /\ taken'[a] = taken[a]
    BY <1>0, <2>2 DEF DistributeSend, TypeOK
  <2>3. QED
    BY <1>7, <2>1, <2>2
    DEF Next, Main, Send, App, vars, heapVars, AppNew, AppAddEvent, AppDispatch,
        AppListRemove, SendAlloc, SendInsert, MainRecv, DistributeBegin, DistributeSkip,
        DistributeLose, DistributeEnd, MainFree
<1>8. QED
  BY <1>1, <1>3, <1>4, <1>5, <1>6, <1>7

LEMMA NextOnlyAddressees ==
  ASSUME IInv, OrderInv, [Next]_vars
  PROVE  OnlyAddressees'
<1>1. ASSUME NEW a \in Apps, NEW b \in AppHeld'[a] PROVE Addressed(heap'[b], a)
  <2>1. CASE b \in AppHeld[a] /\ heap'[b] = heap[b]
    BY <2>1 DEF OrderInv, OnlyAddressees
  <2>2. CASE DistributeSend /\ a = app_new /\ heap'[b] = heap[main_qe]
    BY <2>2 DEF DistributeSend
  <2>3. QED
    BY <2>1, <2>2, HoldingsStep
<1>2. QED
  BY <1>1 DEF OnlyAddressees, Addressed

\* Pending is the queue with the entry in hand before it, so its order is that
\* of the queue and of the entry in hand.
LEMMA OrderIsInOrder ==
  ASSUME IInv, OrderInv
  PROVE  InOrder
<1> SUFFICES ASSUME NEW a \in Apps, NEW i \in 1..Len(Pending(a))
             PROVE  LET m == heap[Pending(a)[i]]
                    IN  /\ m.seq > taken[a][m.by]
                        /\ \A j \in 1..(i - 1) : LET k == heap[Pending(a)[j]]
                                                 IN  k.by = m.by => k.seq < m.seq
  BY DEF InOrder
<1> DEFINE s == msg_queue[a]
<1>0. /\ s \in Seq(Blocks) /\ Len(s) \in Nat /\ qe[a] \in Blocks \cup {None}
      /\ InSendingOrder(s)
      /\ \A b \in AppHeld[a] : heap[b].seq > taken[a][heap[b].by]
      /\ qe[a] # None => \A b \in Elems(s) : Older(heap[qe[a]], heap[b])
      /\ \A j \in 1..Len(s) : s[j] \in Elems(s) /\ s[j] \in AppHeld[a]
      /\ qe[a] # None => qe[a] \in AppHeld[a]
  BY LenProperties DEF IInv, TypeOK, OrderInv, AppsInOrder, AppHeld, Elems
<1>1. CASE qe[a] = None
  <2>1. Pending(a) = s
    BY <1>0, <1>1 DEF Pending
  <2>2. QED
    BY <1>0, <2>1 DEF InSendingOrder, Older
<1>2. CASE qe[a] # None
  <2>1. /\ Pending(a) = <<qe[a]>> \o s /\ <<qe[a]>> \in Seq(Blocks)
        /\ Len(<<qe[a]>>) = 1 /\ <<qe[a]>>[1] = qe[a]
    BY <1>0, <1>2 DEF Pending
  <2>2. /\ Len(Pending(a)) = 1 + Len(s)
        /\ \A j \in 1..(1 + Len(s)) : Pending(a)[j] = IF j <= 1 THEN qe[a] ELSE s[j - 1]
    BY <1>0, <2>1, ConcatProperties
  <2> HIDE DEF s
  <2>3. CASE i = 1
    BY <1>0, <1>2, <2>2, <2>3
  <2>4. CASE i # 1
    <3>1. i - 1 \in 1..Len(s) /\ Pending(a)[i] = s[i - 1]
      BY <1>0, <2>2, <2>4
    <3>2. heap[s[i - 1]].seq > taken[a][heap[s[i - 1]].by]
      BY <1>0, <3>1
    <3>3. ASSUME NEW j \in 1..(i - 1)
          PROVE  Older(heap[Pending(a)[j]], heap[s[i - 1]])
      <4>1. CASE j = 1
        BY <1>0, <1>2, <2>2, <3>1, <4>1
      <4>2. CASE j # 1
        <5>1. j - 1 \in 1..Len(s) /\ j - 1 < i - 1 /\ Pending(a)[j] = s[j - 1]
          BY <1>0, <2>2, <3>1, <4>2
        <5>2. QED
          BY <1>0, <3>1, <5>1 DEF InSendingOrder
      <4>3. QED
        BY <4>1, <4>2
    <3>4. QED
      BY <3>1, <3>2, <3>3 DEF Older
  <2>5. QED
    BY <2>3, <2>4
<1>3. QED
  BY <1>1, <1>2

-----------------------------------------------------------------------------
(* The theorems                                                            *)

LEMMA IInvAlways == Spec => []IInv
<1>1. IInv /\ [Next]_vars => IInv'
  BY NextTypeOK, NextControlInv, NextNoDanglingApp, NextBlockOwnership DEF IInv
<1>2. QED
  BY InitIInv, <1>1, PTL DEF Spec

\* The values of app_framework.c's variables are always of the types the code
\* gives them.
THEOREM TypeCorrect == Spec => []TypeOK
<1>1. IInv => TypeOK
  BY DEF IInv
<1>2. QED
  BY IInvAlways, <1>1, PTL

\* No message entry of app_framework.c is leaked, freed twice or used after its
\* free, for any number of services, senders and heap blocks.
THEOREM EntriesOwned == Spec => []BlockOwnership
<1>1. IInv => BlockOwnership
  BY DEF IInv
<1>2. QED
  BY IInvAlways, <1>1, PTL

\* The main task never walks over an application that app_delete has freed.
THEOREM WalkIsSafe == Spec => []NoDanglingApp
<1>1. IInv => NoDanglingApp
  BY DEF IInv
<1>2. QED
  BY IInvAlways, <1>1, PTL

\* Every service processes what is addressed to it and nothing else, a sender's
\* messages at most once each and in the order they were sent, for any number
\* of services and senders and whatever copies the distribution drops.
THEOREM CopiesInOrder == Spec => []CopiesAreRight
<1>1. Init => OrderInv
  <2> SUFFICES ASSUME Init PROVE OrderInv
    OBVIOUS
  <2>1. main_queue = << >> /\ \A a \in Apps : msg_queue[a] = << >>
    BY DEF Init
  <2>2. MainHeld = {} /\ \A a \in Apps : AppHeld[a] = {}
    BY <2>1, ElemsEmpty DEF Init, MainHeld, AppHeld
  <2>3. SendersCount
    BY DEF Init, SendersCount
  <2>4. OutIsNewest /\ CopyIsNew
    BY DEF Init, OutIsNewest, CopyIsNew, Ahead
  <2>5. MainInOrder
    BY <2>1, ElemsEmpty DEF MainInOrder, InSendingOrder
  <2>6. AppsInOrder
    BY <2>1, <2>2, ElemsEmpty DEF AppsInOrder, InSendingOrder
  <2>7. OnlyAddressees
    BY <2>2 DEF OnlyAddressees
  <2>8. QED
    BY <2>3, <2>4, <2>5, <2>6, <2>7 DEF OrderInv
<1>2. IInv /\ OrderInv /\ [Next]_vars => OrderInv'
  BY NextSendersCount, NextOutIsNewest, NextMainInOrder, NextCopyIsNew, NextAppsInOrder,
     NextOnlyAddressees DEF OrderInv
<1>3. IInv /\ OrderInv => CopiesAreRight
  BY OrderIsInOrder DEF OrderInv, CopiesAreRight
<1>4. QED
  BY IInvAlways, <1>1, <1>2, <1>3, PTL DEF Spec
=============================================================================
