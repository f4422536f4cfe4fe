---------------------------- MODULE Sha256Hasher ----------------------------
(***************************************************************************)
(* The incremental hasher (src/hash.cpp) behind every identity of a run and*)
(* behind the trace hash of the failure injector: bytes arrive in chunks   *)
(* of any size, whole blocks go to transform, the rest waits in a buffer   *)
(* that is never cleared.  A digest is kept as what it is computed from,   *)
(* the sequence of blocks handed to transform.                             *)
(***************************************************************************)
EXTENDS Naturals, Sequences, FiniteSetsExt

CONSTANTS
    Byte,         \* values of a byte
    BitsPerByte,
    Marker,       \* 0x80, the first byte of the padding
    BlockSize,    \* bytes of a block
    LengthSize,   \* bytes of total_bytes_ and of the length in the padding
    Alphabet,     \* bytes that occur in messages
    MaxBytes      \* bound on the length of a message

VARIABLES
    message,         \* history: the bytes of all updates so far
    fed,             \* state_: the blocks that went to transform
    buffer_,         \* what update left over, over what it left before
    buffered_bytes_,
    total_bytes_

vars == <<message, fed, buffer_, buffered_bytes_, total_bytes_>>

-----------------------------------------------------------------------------

Zeros(n) == [i \in 1 .. n |-> 0]

\* The array with bytes written into it behind the first `at` cells.
Overlay(array, at, bytes) ==
    [i \in DOMAIN array |->
        IF i \in at + 1 .. at + Len(bytes) THEN bytes[i - at] ELSE array[i]]

\* The blocks of a sequence of bytes, an incomplete last one left out.
WholeBlocks(bytes) ==
    [k \in 1 .. Len(bytes) \div BlockSize |->
        SubSeq(bytes, (k - 1) * BlockSize + 1, k * BlockSize)]

\* A number as LengthSize bytes, the most significant first.
BigEndian(n) ==
    [i \in 1 .. LengthSize |-> (n \div Byte ^ (LengthSize - i)) % Byte]

\* The bytes with which update() tops up a buffer that is not empty.
Copied(bytes) ==
    IF buffered_bytes_ = 0 THEN 0 ELSE Min({BlockSize - buffered_bytes_, Len(bytes)})

Full(bytes) == buffered_bytes_ + Copied(bytes) = BlockSize

\* Sha256Hasher::update
Update(bytes) ==
    LET filled == Overlay(buffer_, buffered_bytes_, SubSeq(bytes, 1, Copied(bytes)))
        rest == SubSeq(bytes, Copied(bytes) + 1, Len(bytes))
        tail == SubSeq(rest, Len(rest) - (Len(rest) % BlockSize) + 1, Len(rest))
        kept == IF Full(bytes) THEN 0 ELSE buffered_bytes_ + Copied(bytes)
    IN /\ total_bytes_' = (total_bytes_ + Len(bytes)) % Byte ^ LengthSize
       /\ fed' = fed \o (IF Full(bytes) THEN <<filled>> ELSE <<>>) \o WholeBlocks(rest)
       /\ buffer_' = Overlay(filled, kept, tail)
       /\ buffered_bytes_' = kept + Len(tail)
       /\ message' = message \o bytes

PaddedSize == IF buffered_bytes_ < BlockSize - LengthSize THEN BlockSize ELSE 2 * BlockSize

\* Fault: the tail is the buffer, whatever it holds behind buffered_bytes_.
StaleTailBlocks == Overlay(Zeros(2 * BlockSize), 0, buffer_)

\* The two blocks finalize() works on, before the padding is written.
TailBlocks == Overlay(Zeros(2 * BlockSize), 0, SubSeq(buffer_, 1, buffered_bytes_))

\* finalize(), which leaves the hasher as it is and may be called at any time.
Finalized ==
    LET bits == (total_bytes_ * BitsPerByte) % Byte ^ LengthSize
        marked == Overlay(TailBlocks, buffered_bytes_, <<Marker>>)
        padded == Overlay(marked, PaddedSize - LengthSize, BigEndian(bits))
    IN fed \o WholeBlocks(SubSeq(padded, 1, PaddedSize))

Init ==
    /\ message = <<>> /\ fed = <<>>
    /\ buffer_ = Zeros(BlockSize)
    /\ buffered_bytes_ = 0 /\ total_bytes_ = 0

Chunks == UNION {[1 .. n -> Alphabet] : n \in 0 .. MaxBytes - Len(message)}

Next == \E bytes \in Chunks : Update(bytes)

Spec == Init /\ [][Next]_vars

-----------------------------------------------------------------------------
(* Correctness *)

\* The padding of FIPS 180-4: the marker, as few zeros as fill a block, and
\* the length.
Padded(bytes) ==
    LET zeros == CHOOSE n \in 0 .. BlockSize - 1 :
                    (Len(bytes) + 1 + n + LengthSize) % BlockSize = 0
    IN bytes \o <<Marker>> \o Zeros(zeros) \o BigEndian(Len(bytes) * BitsPerByte)

\* However a message is cut into updates, empty ones included, and whatever
\* earlier chunks left in the buffer, finalize() hashes the message with the
\* standard padding: a streamed hash is the hash sha256() makes in one call.
DigestOfMessage == Finalized = WholeBlocks(Padded(message))

\* What reaches transform determines the message: the last bytes say how long
\* it is, and it is what the blocks begin with.  Two messages never share a
\* digest for lack of a boundary between message and padding.
MessageRecoverable ==
    LET Cell(i) == Finalized[1 + ((i - 1) \div BlockSize)][1 + ((i - 1) % BlockSize)]
        size == Len(Finalized) * BlockSize
        digits == [i \in 1 .. LengthSize |-> Cell(size - LengthSize + i)]
    IN /\ digits = BigEndian(Len(message) * BitsPerByte)
       /\ Len(message) < size - LengthSize
       /\ \A i \in 1 .. Len(message) : Cell(i) = message[i]
=============================================================================
