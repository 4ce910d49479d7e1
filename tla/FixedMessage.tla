---------------------------- MODULE FixedMessage ----------------------------
(***************************************************************************)
(* The message slot shared by SPSCQueue, MPMCQueue and SPMCMulticastQueue: *)
(* a fixed byte buffer, the number of its bytes in use, and the logical    *)
(* sequence of the publication it holds (include/orbitqueue/               *)
(* fixed_message.h).  A payload is a sequence of bytes; a destination is   *)
(* represented by its size alone.                                          *)
(***************************************************************************)
EXTENDS Naturals, Sequences

CONSTANTS
    Byte,             \* the byte values payloads are made of
    ZeroByte,         \* the value a value-initialised std::byte has
    MaxPayloadSize    \* the template argument

ASSUME ByteAssumption == ZeroByte \in Byte

ASSUME MaxPayloadSizeAssumption == MaxPayloadSize \in Nat

Storage == [1..MaxPayloadSize -> Byte]

Message == [storage : Storage, size : 0..MaxPayloadSize, sequence : Nat]

\* What the slots of a new queue hold.
EmptyMessage ==
    [storage |-> [i \in 1..MaxPayloadSize |-> ZeroByte], size |-> 0, sequence |-> 0]

\* The payloads assign() accepts; every queue tests the size before it calls.
Fits(payload) == Len(payload) <= MaxPayloadSize

\* Mutant: size_ is not set.
AssignKeepsSize(m, payload, sequence) ==
    [storage  |-> [i \in 1..MaxPayloadSize |->
                      IF i <= Len(payload) THEN payload[i] ELSE m.storage[i]],
     size     |-> m.size,
     sequence |-> sequence]

\* assign(): only the bytes of the payload are copied, so those of a longer
\* predecessor stay in the buffer behind them.
Assign(m, payload, sequence) ==
    [storage  |-> [i \in 1..MaxPayloadSize |->
                      IF i <= Len(payload) THEN payload[i] ELSE m.storage[i]],
     size     |-> Len(payload),
     sequence |-> sequence]

\* The bytes copy_to() writes to a destination that is large enough.
Contents(m) == [i \in 1..m.size |-> m.storage[i]]

\* copy_to(): a destination smaller than the message receives no byte.
CopyTo(m, destination) ==
    IF destination < m.size
    THEN [status |-> "message_too_large", payload |-> << >>, sequence |-> m.sequence]
    ELSE [status |-> "success", payload |-> Contents(m), sequence |-> m.sequence]

=============================================================================
