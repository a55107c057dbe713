-------------------------------- MODULE Bloom --------------------------------
(***************************************************************************)
(* The Bloom filter that Table::Get asks before it reads a block.          *)
(* Source: src/src/bloom.cpp, src/include/lsm/bloom.h.                     *)
(*                                                                         *)
(* BloomHash is any function to words of WordBits bits.  The filter is the *)
(* set of its bits, with its size and the number of probes.                *)
(***************************************************************************)
EXTENDS Integers, FiniteSets

CONSTANTS
    WordBits,           \* 32 in the code
    Rotation,           \* 17 in the code
    MinBits,            \* 64 in the code
    MaxProbes,          \* 30 in the code
    BitsPerKey          \* values of bloom_bits_per_key

ASSUME BloomAssumption ==
    /\ WordBits \in Nat /\ Rotation \in 0..WordBits
    /\ MinBits \in Nat \ {0} /\ MaxProbes \in Nat \ {0}
    /\ BitsPerKey \subseteq Nat

Word == 0..(2^WordBits - 1)

\* The hash rotated: (h >> 17) | (h << 15).
Delta(h) ==
    (h \div 2^Rotation) + (h % 2^Rotation) * 2^(WordBits - Rotation)

\* The bits that k probes for the hash h visit in a filter of this size.
Probes(h, k, bits) ==
    {((h + i * Delta(h)) % 2^WordBits) % bits : i \in 0..(k - 1)}

\* A double times ln 2, cut to an int: 693 of a thousand.
BitsPerKeyToProbes(bits_per_key) ==
    LET k == (bits_per_key * 693) \div 1000
    IN  IF k > MaxProbes THEN MaxProbes ELSE IF k < 1 THEN 1 ELSE k

\* Rounded up to whole bytes.
FilterBits(n, bits_per_key) ==
    LET bits == IF n * bits_per_key < MinBits THEN MinBits ELSE n * bits_per_key
    IN  ((bits + 7) \div 8) * 8

\* Mutant: the bits are set for a filter that is not rounded to bytes.
BuildFilterUnrounded(hash, keys, n, bits_per_key) ==
    LET k == BitsPerKeyToProbes(bits_per_key)
        bits == FilterBits(n, bits_per_key)
        unrounded == IF n * bits_per_key < MinBits THEN MinBits
                     ELSE n * bits_per_key
    IN  [bits |-> bits, k |-> k,
         set |-> UNION {Probes(hash[key], k, unrounded) : key \in keys}]

\* BloomFilter::Build, of n entries that have these user keys.
BuildFilter(hash, keys, n, bits_per_key) ==
    LET k == BitsPerKeyToProbes(bits_per_key)
        bits == FilterBits(n, bits_per_key)
    IN  [bits |-> bits, k |-> k,
         set |-> UNION {Probes(hash[key], k, bits) : key \in keys}]

\* BloomFilter::MayContain.
MayContain(filter, hash, key) ==
    \/ filter.bits = 0
    \/ filter.k > MaxProbes
    \/ Probes(hash[key], filter.k, filter.bits) \subseteq filter.set

=============================================================================
