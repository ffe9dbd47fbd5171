------------------------------ MODULE BucketHash ------------------------------
(***************************************************************************)
(* The bucket transform of data_types/src/partition_template.rs:          *)
(* iceberg_hash (murmur3_32 of the UTF-8 bytes, seed 0) and               *)
(* bucket_for_tag_value (clear the sign bit, modulo num_buckets).         *)
(*                                                                         *)
(* TLC's integers are 32-bit signed, so a u32 is held as two 16-bit limbs *)
(* <<high, low>> and every operation wraps modulo 2^32 as Rust's          *)
(* wrapping_mul, wrapping_add, rotate_left and >> do inside murmur3_32.   *)
(***************************************************************************)
EXTENDS Naturals, Sequences, TLC
LOCAL INSTANCE SequencesExt

Limb == 65536

(* u32 arithmetic, wrapping. *)
AddU32(a, b) ==
    LET l == a[2] + b[2]
    IN  <<(a[1] + b[1] + l \div Limb) % Limb, l % Limb>>

(* The full 32-bit product of two limbs, computed in 8-bit halves so no  *)
(* intermediate leaves TLC's range.                                       *)
MulLimbs(l1, l2) ==
    LET p0 == l1 * (l2 % 256)
        p1 == l1 * (l2 \div 256)
        s  == p0 + ((p1 % 256) * 256)
    IN  <<s \div Limb + p1 \div 256, s % Limb>>

MulU32(a, b) ==
    LET ll == MulLimbs(a[2], b[2])
    IN  <<(ll[1] + MulLimbs(a[1], b[2])[2] + MulLimbs(a[2], b[1])[2]) % Limb,
          ll[2]>>

(* ^ on u32: a table of byte XORs, built bit by bit once, applied to each *)
(* byte of the limbs.                                                      *)
XorByte ==
    [p \in (0 .. 255) \X (0 .. 255) |->
        LET bit(i) == ((p[1] \div 2^i) + (p[2] \div 2^i)) % 2
        IN  bit(0) + 2 * bit(1) + 4 * bit(2) + 8 * bit(3) + 16 * bit(4)
            + 32 * bit(5) + 64 * bit(6) + 128 * bit(7)]
XorLimb(l1, l2) ==
    XorByte[<<l1 \div 256, l2 \div 256>>] * 256 + XorByte[<<l1 % 256, l2 % 256>>]
XorU32(a, b) == <<XorLimb(a[1], b[1]), XorLimb(a[2], b[2])>>

(* rotate_left by 0 < r < 16. *)
RotlU32(a, r) ==
    <<((a[1] * 2^r) % Limb) + a[2] \div 2^(16 - r),
      ((a[2] * 2^r) % Limb) + a[1] \div 2^(16 - r)>>

(* >> by 0 < r <= 16. *)
ShrU32(a, r) ==
    <<a[1] \div 2^r, ((a[1] % 2^r) * 2^(16 - r)) + a[2] \div 2^r>>

(* Up to four bytes read as a little-endian u32, missing bytes zero. *)
LeWord(bs) ==
    LET b(i) == IF i <= Len(bs) THEN bs[i] ELSE 0
    IN  <<b(3) + b(4) * 256, b(1) + b(2) * 256>>

C1 == <<\hcc9e, \h2d51>>
C2 == <<\h1b87, \h3593>>
BlockAdd == <<\he654, \h6b64>>
Fmix1 == <<\h85eb, \hca6b>>
Fmix2 == <<\hc2b2, \hae35>>

(* The scrambling of one 32-bit word k. *)
Scramble(k) == MulU32(RotlU32(MulU32(k, C1), 15), C2)

(* The body over each 4-byte block, then the tail of 1 to 3 bytes. *)
RECURSIVE MixBlocks(_, _)
MixBlocks(h, bs) ==
    IF Len(bs) < 4
    THEN IF bs = <<>> THEN h ELSE XorU32(h, Scramble(LeWord(bs)))
    ELSE MixBlocks(AddU32(MulU32(RotlU32(XorU32(h, Scramble(LeWord(SubSeq(bs, 1, 4)))),
                                         13),
                                 <<0, 5>>),
                          BlockAdd),
                   SubSeq(bs, 5, Len(bs)))

(* The finalisation avalanche. *)
Fmix(h) ==
    LET h1 == XorU32(h, ShrU32(h, 16))
        h2 == MulU32(h1, Fmix1)
        h3 == XorU32(h2, ShrU32(h2, 13))
        h4 == MulU32(h3, Fmix2)
    IN  XorU32(h4, ShrU32(h4, 16))

(* iceberg_hash: murmur3_32 with seed 0 of the value's bytes. *)
IcebergHash(bs) == Fmix(XorU32(MixBlocks(<<0, 0>>, bs), <<0, Len(bs)>>))

(* hash & i32::MAX as u32: the low 31 bits, within TLC's range. *)
SignCleared(h) == ((h[1] % 32768) * Limb) + h[2]

(* bucket_for_tag_value. *)
BucketForTagValue(bs, n) == SignCleared(IcebergHash(bs)) % n

(* The UTF-8 encoding (str::as_bytes) of the characters tag values are   *)
(* written with here; 测 and 试 are named by their code points.           *)
Letters == <<"a", "b", "c", "d", "e", "f", "g", "h", "i", "j", "k", "l", "m",
             "n", "o", "p", "q", "r", "s", "t", "u", "v", "w", "x", "y", "z">>
Utf8 ==
    [c \in {Letters[i] : i \in 1 .. 26} |-> <<96 + CHOOSE i \in 1 .. 26 : Letters[i] = c>>]
    @@ (" " :> <<32>>) @@ ("!" :> <<33>>) @@ ("#" :> <<35>>) @@ ("%" :> <<37>>)
    @@ ("0" :> <<48>>) @@ ("5" :> <<53>>) @@ ("^" :> <<94>>) @@ ("|" :> <<124>>)
    @@ ("á" :> <<\hc3, \ha1>>) @@ ("é" :> <<\hc3, \ha9>>) @@ ("í" :> <<\hc3, \had>>)
    @@ ("U+6D4B" :> <<\he6, \hb5, \h8b>>) @@ ("U+8BD5" :> <<\he8, \haf, \h95>>)
AsBytes(v) == FlattenSeq([i \in 1 .. Len(v) |-> Utf8[v[i]]])

=============================================================================
