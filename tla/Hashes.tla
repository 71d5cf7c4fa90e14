-------------------------------- MODULE Hashes -------------------------------
(***************************************************************************)
(* The firmware's own hashing: the streaming sponge of keccak256.cpp and   *)
(* the padding of local_ripemd160.cpp.  What is modelled is which bytes    *)
(* reach the permutation and the compression function, in which blocks;    *)
(* both functions are opaque, and a hash is the sequence of blocks they    *)
(* are given.                                                              *)
(***************************************************************************)
EXTENDS Integers, Sequences, SequencesExt, Bitwise

CONSTANTS
    kRateBytes,         \* 136
    kBlockSize,         \* 64, of RIPEMD-160
    kLengthBytes        \* 8, the bytes of the bit count

ASSUME BlockAssumption == kRateBytes > 1 /\ kLengthBytes < kBlockSize

kKeccakDomainSuffix == 1
kFinalBit == 128

NoBytes(count) == [i \in 1 .. count |-> 0]

-----------------------------------------------------------------------------
(* SHA3_CTX; state is the sequence of blocks absorbed so far. *)

keccak_init == [state |-> <<>>, buffer |-> NoBytes(kRateBytes), used |-> 0, finalized |-> FALSE]

absorb_block(context) == [context EXCEPT !.state = Append(context.state, context.buffer)]

\* buffer[used .. used + take - 1] = data[0 .. take - 1]
Copied(buffer, used, data, take) ==
    [i \in DOMAIN buffer |-> IF i > used /\ i <= used + take THEN data[i - used] ELSE buffer[i]]

BufferIsFull(context) == context.used = kRateBytes

\* One turn of the loop: what fits is copied, and a full buffer is absorbed and emptied.
RECURSIVE Absorb(_, _)
Absorb(context, data) ==
    IF data = <<>> THEN context
    ELSE LET available == kRateBytes - context.used
             take == IF Len(data) < available THEN Len(data) ELSE available
             filled == [context EXCEPT !.buffer = Copied(context.buffer, context.used, data, take),
                                       !.used = context.used + take]
             next == IF BufferIsFull(filled)
                     THEN [absorb_block(filled) EXCEPT !.buffer = NoBytes(kRateBytes), !.used = 0]
                     ELSE filled
         IN  Absorb(next, SubSeq(data, take + 1, Len(data)))

keccak_update(context, data) ==
    IF context.finalized THEN [ok |-> FALSE, context |-> context]
    ELSE [ok |-> TRUE, context |-> Absorb(context, data)]

\* The rest of the buffer is zeroed, and the two bits of the padding are flipped in it, in one
\* byte when there is only one.
Padded(context) ==
    LET zeroed == [i \in DOMAIN context.buffer |->
                      IF i > context.used THEN 0 ELSE context.buffer[i]]
        suffixed == [zeroed EXCEPT ![context.used + 1] = @ ^^ kKeccakDomainSuffix]
    IN  [suffixed EXCEPT ![kRateBytes] = @ ^^ kFinalBit]

keccak_final(context) ==
    IF context.finalized THEN [ok |-> FALSE, context |-> context]
    ELSE [ok |-> TRUE,
          context |-> [absorb_block([context EXCEPT !.buffer = Padded(context)])
                          EXCEPT !.finalized = TRUE, !.buffer = NoBytes(kRateBytes)]]

\* crypto_keccak256, in one call
crypto_keccak256(data) == keccak_final(keccak_update(keccak_init, data).context).context.state

-----------------------------------------------------------------------------
\* Mutant: the padding bit and the length get no block of their own.
FitsOneBlockFull(rest) == Len(rest) <= kBlockSize - kLengthBytes

\* data_size < 56
FitsOneBlock(rest) == Len(rest) < kBlockSize - kLengthBytes

\* The bit count, the lowest byte first.
BitCount(size) == [i \in 1 .. kLengthBytes |-> ((size * 8) \div (256 ^ (i - 1))) % 256]

local_ripemd160(data) ==
    LET whole == Len(data) \div kBlockSize
        rest == SubSeq(data, whole * kBlockSize + 1, Len(data))
        padded_size == IF FitsOneBlock(rest) THEN kBlockSize ELSE 2 * kBlockSize
        final_blocks == [i \in 1 .. padded_size |->
            IF i <= Len(rest) THEN rest[i]
            ELSE IF i = Len(rest) + 1 THEN 128
            ELSE IF i > padded_size - kLengthBytes
                 THEN BitCount(Len(data))[i - (padded_size - kLengthBytes)]
            ELSE 0]
    IN  [b \in 1 .. whole |-> SubSeq(data, (b - 1) * kBlockSize + 1, b * kBlockSize)]
        \o <<SubSeq(final_blocks, 1, kBlockSize)>>
        \o IF padded_size = kBlockSize THEN <<>>
           ELSE <<SubSeq(final_blocks, kBlockSize + 1, padded_size)>>

-----------------------------------------------------------------------------
\* The context after a series of updates.
Updated(pieces) ==
    FoldLeft(LAMBDA context, piece : keccak_update(context, piece).context, keccak_init, pieces)

\* A message of the sponge: 1, zeros and a final 1 in bits, up to a whole number of blocks.
SpongePadding(size) ==
    LET fill == kRateBytes - (size % kRateBytes)
    IN  IF fill = 1 THEN <<kKeccakDomainSuffix + kFinalBit>>
        ELSE <<kKeccakDomainSuffix>> \o NoBytes(fill - 2) \o <<kFinalBit>>

\* However a message is cut into updates, empty ones among them, the blocks absorbed are the
\* message and its padding, nothing lost, kept over or put twice; a finished context takes no
\* more.
SpongeAbsorbsAll(pieces) ==
    LET message == FlattenSeq(pieces)
        final == keccak_final(Updated(pieces))
    IN  /\ final.ok
        /\ FlattenSeq(final.context.state) = message \o SpongePadding(Len(message))
        /\ \A b \in DOMAIN final.context.state : Len(final.context.state[b]) = kRateBytes
        /\ final.context.state = crypto_keccak256(message)
        /\ ~keccak_update(final.context, message).ok /\ ~keccak_final(final.context).ok

\* A message of any length is compressed in whole blocks: the message, one set bit, the fewest
\* zeros and the bit count.
RipemdAbsorbsAll(data) ==
    LET blocks == local_ripemd160(data)
        all == FlattenSeq(blocks)
        zeros == Len(all) - Len(data) - 1 - kLengthBytes
    IN  /\ \A b \in DOMAIN blocks : Len(blocks[b]) = kBlockSize
        /\ zeros \in 0 .. (kBlockSize - 1)
        /\ all = data \o <<128>> \o NoBytes(zeros) \o BitCount(Len(data))
=============================================================================
