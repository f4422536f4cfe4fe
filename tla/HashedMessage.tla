--------------------------- MODULE HashedMessage ---------------------------
(***************************************************************************)
(* One hasher and the message it is fed: Sha256Hasher with the sizes that  *)
(* make the standard padding possible.  The code has bytes of 8 bits,      *)
(* blocks of 64 bytes, a length of 8 bytes and the marker 0x80.            *)
(***************************************************************************)
EXTENDS Naturals

CONSTANTS ByteValues, BitsPerByte, Marker, BlockSize, LengthSize, Alphabet, MaxBytes

\* The length fits a block and can express the longest message in bits: longer
\* messages have no hash in FIPS 180-4.
ASSUME HasherAssumption ==
    /\ BlockSize \in Nat \ {0} /\ LengthSize \in 0 .. BlockSize
    /\ BitsPerByte \in Nat \ {0} /\ MaxBytes \in Nat
    /\ ByteValues ^ LengthSize \in Nat
    /\ MaxBytes * BitsPerByte < ByteValues ^ LengthSize

VARIABLES message, fed, buffer_, buffered_bytes_, total_bytes_

Hasher == INSTANCE Sha256Hasher WITH Byte <- ByteValues

\* However a message is streamed, what reaches transform is the message with
\* the standard padding, and determines the message.
DigestOfMessage == Hasher!DigestOfMessage /\ Hasher!MessageRecoverable
=============================================================================
