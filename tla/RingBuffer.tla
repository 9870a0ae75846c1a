----------------------------- MODULE RingBuffer -----------------------------
(***************************************************************************)
(* components/app_framework/app_ring_buffer.c: the byte buffer between the  *)
(* recording callback, which runs in the AIP task, and the task that plays  *)
(* the sound back (record_playback.c) or looks for the wakeup word          *)
(* (keyword_wakeup.c).  Every call is one section of mutex_lock, hence one  *)
(* step.  An address is an offset in ring_buffer.                           *)
(***************************************************************************)
EXTENDS Integers, Sequences

CONSTANTS
  Bytes,            \* values of a byte
  ring_buffer_len,  \* bytes in ring_buffer
  Inputs            \* the data writers may offer: no write of size 0

ASSUME LenAssumption == ring_buffer_len \in Nat \ {0}
ASSUME BytesAssumption == Bytes # {}
ASSUME InputsAssumption == Inputs \subseteq Seq(Bytes) \ {<< >>}

VARIABLES
  ring_buffer,      \* the memory
  curr_len,         \* bytes written and not read
  read_addr,
  write_addr,
  data_out,         \* what the last read copied to its caller
  ret               \* the value the last read or write returned

ringVars == <<ring_buffer, curr_len, read_addr, write_addr, data_out, ret>>

Offsets == 0..ring_buffer_len - 1
Sizes == 1..ring_buffer_len + 1

\* app_ring_buffer_new; malloc leaves the memory as it was
RingInit ==
  /\ ring_buffer \in [Offsets -> Bytes]
  /\ curr_len = 0
  /\ read_addr = 0
  /\ write_addr = 0
  /\ data_out = << >>
  /\ ret = 0

-----------------------------------------------------------------------------
\* Variant: >= for >.
Advance_NotWrapped(addr, n) ==
  LET left == ring_buffer_len - addr
  IN  IF left >= n THEN addr + n ELSE n - left

\* addr after n bytes: the comparison of left_*_len with *_len
Advance(addr, n) ==
  LET left == ring_buffer_len - addr
  IN  IF left > n THEN addr + n ELSE n - left

\* the one or two memcpy of a read of n bytes
CopyOut(n) ==
  LET left == ring_buffer_len - read_addr
  IN  [i \in 1..n |-> IF i <= left THEN ring_buffer[read_addr + i - 1]
                                   ELSE ring_buffer[i - left - 1]]

\* Variant: the second memcpy starts at data.
CopyIn_Restart(data, n) ==
  LET left == ring_buffer_len - write_addr
  IN  [k \in Offsets |->
         IF k >= write_addr /\ k < write_addr + n THEN data[k - write_addr + 1]
         ELSE IF k < n - left THEN data[k + 1]
         ELSE ring_buffer[k]]

\* the one or two memcpy of a write of n bytes
CopyIn(data, n) ==
  LET left == ring_buffer_len - write_addr
  IN  [k \in Offsets |->
         IF k >= write_addr /\ k < write_addr + n THEN data[k - write_addr + 1]
         ELSE IF k < n - left THEN data[k + left + 1]
         ELSE ring_buffer[k]]

\* n bytes are taken out and returned
Take(n) ==
  /\ data_out' = CopyOut(n)
  /\ read_addr' = Advance(read_addr, n)
  /\ curr_len' = curr_len - n
  /\ ret' = n
  /\ UNCHANGED <<ring_buffer, write_addr>>

\* an early return of 0
Nothing ==
  /\ data_out' = << >>
  /\ ret' = 0
  /\ UNCHANGED <<ring_buffer, curr_len, read_addr, write_addr>>

\* app_ring_buffer_read
Read(size) ==
  \/ curr_len = 0 /\ Nothing
  \/ curr_len > 0 /\ Take(IF curr_len >= size THEN size ELSE curr_len)

\* app_ring_buffer_readn
Readn(size) ==
  \/ curr_len < size /\ Nothing
  \/ curr_len >= size /\ Take(size)

\* write_len: what fits
WriteLen(data) ==
  LET room == ring_buffer_len - curr_len
  IN  IF Len(data) <= room THEN Len(data) ELSE room

\* app_ring_buffer_write
Write(data) ==
  \/ /\ curr_len >= ring_buffer_len
     /\ ret' = 0
     /\ UNCHANGED <<ring_buffer, curr_len, read_addr, write_addr, data_out>>
  \/ /\ curr_len < ring_buffer_len
     /\ ring_buffer' = CopyIn(data, WriteLen(data))
     /\ write_addr' = Advance(write_addr, WriteLen(data))
     /\ curr_len' = curr_len + WriteLen(data)
     /\ ret' = WriteLen(data)
     /\ UNCHANGED <<read_addr, data_out>>

\* Variant: the write address is not reset.
Clear_ReadAddr ==
  /\ curr_len' = 0
  /\ read_addr' = 0
  /\ UNCHANGED <<ring_buffer, write_addr, data_out, ret>>

\* app_ring_buffer_clear
Clear ==
  /\ curr_len' = 0
  /\ read_addr' = 0
  /\ write_addr' = 0
  /\ UNCHANGED <<ring_buffer, data_out, ret>>

RingNext == \/ \E data \in Inputs : Write(data)
        \/ \E size \in Sizes : Read(size) \/ Readn(size)
        \/ Clear

RingSpec == RingInit /\ [][RingNext]_ringVars

-----------------------------------------------------------------------------
(* Properties                                                               *)

\* Type invariant; curr_len is unsigned, so it must not go below zero.
RingTypeOK ==
  /\ ring_buffer \in [Offsets -> Bytes]
  /\ curr_len \in 0..ring_buffer_len
  /\ read_addr \in Offsets
  /\ write_addr \in Offsets
  /\ data_out \in Seq(Bytes)
  /\ ret \in 0..ring_buffer_len

\* The redundant counters agree: write_addr is curr_len bytes after read_addr,
\* going round.  An empty buffer and a full one have equal addresses.
AddressesAgree ==
  write_addr = IF read_addr + curr_len < ring_buffer_len
                 THEN read_addr + curr_len
                 ELSE read_addr + curr_len - ring_buffer_len

\* the bytes written and not read, oldest first
Contents == CopyOut(curr_len)

Queue == INSTANCE ByteQueue WITH
           Capacity <- ring_buffer_len, queue <- Contents,
           out <- data_out

\* Through wrapping, partial writes and clears, the buffer is a queue of at
\* most ring_buffer_len bytes: no byte is lost, repeated or moved.
ImplementsQueue == Queue!Spec
=============================================================================
