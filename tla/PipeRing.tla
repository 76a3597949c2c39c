------------------------------ MODULE PipeRing ------------------------------
(***************************************************************************)
(* The array of page-sized buffers of fs/pipe.c, a power of two of them,   *)
(* used as a ring: nrbufs buffers in use from curbuf on.  A buffer holds   *)
(* the bytes from offset on in its page; len is the length of data.        *)
(***************************************************************************)
EXTENDS Naturals, Sequences, SequencesExt

CONSTANT PAGE_SIZE

ASSUME PageSize == PAGE_SIZE \in Nat \ {0}

NoBuffer == [offset |-> 0, data |-> <<>>, packet |-> FALSE]

EmptyRing(n) == [bufs |-> [i \in 0 .. n - 1 |-> NoBuffer], curbuf |-> 0, nrbufs |-> 0, buffers |-> n]

\* The i-th buffer in use; & (buffers - 1) is the remainder of a power of two.
Index(r, i) == (r.curbuf + i) % r.buffers
LastBuf(r) == Index(r, r.nrbufs - 1)

Full(r) == r.nrbufs = r.buffers

\* All bytes in the ring, in the order FIONREAD walks it and pipe_read reads it.
Content(r) == FlattenSeq([i \in 1 .. r.nrbufs |-> r.bufs[Index(r, i - 1)].data])

\* pipe_read takes n bytes from the first buffer; what is left of a packet is
\* discarded with it, and an empty buffer is released.
TakenFrom(buf, n) ==
    [buf EXCEPT !.offset = @ + n,
                !.data = IF buf.packet THEN <<>> ELSE SubSeq(@, n + 1, Len(@))]

Consumes(r, n) == TakenFrom(r.bufs[r.curbuf], n).data = <<>>

Consume(r, n) ==
    IF Consumes(r, n)
    THEN [r EXCEPT !.bufs[r.curbuf] = NoBuffer, !.curbuf = Index(r, 1), !.nrbufs = @ - 1]
    ELSE [r EXCEPT !.bufs[r.curbuf] = TakenFrom(@, n)]

\* pipe_write appends n bytes to the page of the last buffer, if it may.
CanMerge(r, n) ==
    /\ r.nrbufs > 0 /\ n # 0
    /\ LET buf == r.bufs[LastBuf(r)] IN
       ~buf.packet /\ buf.offset + Len(buf.data) + n <= PAGE_SIZE

Merge(r, bytes) == [r EXCEPT !.bufs[LastBuf(r)].data = @ \o bytes]

\* pipe_write puts a new buffer behind the last one.
Insert(r, bytes, packetized) ==
    [r EXCEPT !.bufs[Index(r, r.nrbufs)] = [offset |-> 0, data |-> bytes, packet |-> packetized],
              !.nrbufs = @ + 1]

\* The smallest power of two that is at least n (roundup_pow_of_two).
roundup_pow_of_two(n) ==
    LET pow[i \in 0 .. n] == IF i = 0 THEN 1 ELSE 2 * pow[i - 1]
    IN  CHOOSE p \in {pow[i] : i \in 0 .. n} : p >= n /\ p \div 2 < n

\* Mutated form: the array is copied as it is, with its first buffer anywhere.
ResizeInPlace(r, n) ==
    [bufs |-> [i \in 0 .. n - 1 |-> IF i < r.buffers THEN r.bufs[i] ELSE NoBuffer],
     curbuf |-> 0, nrbufs |-> r.nrbufs, buffers |-> n]

\* pipe_set_size copies the buffers in use to the start of a new array, in two
\* parts when they wrap around the end of the old one.
Resize(r, n) ==
    LET end  == r.curbuf + r.nrbufs
        tail == IF end < r.buffers THEN 0 ELSE end % r.buffers
        head == r.nrbufs - tail
    IN [bufs |-> [i \in 0 .. n - 1 |->
                    IF i < head THEN r.bufs[r.curbuf + i]
                    ELSE IF i < head + tail THEN r.bufs[i - head] ELSE NoBuffer],
        curbuf |-> 0, nrbufs |-> r.nrbufs, buffers |-> n]
=============================================================================
