------------------------------ MODULE Ciphers ------------------------------
(***************************************************************************)
(* Ciphers: the parts of crypto/ that are complete: the staging of bytes   *)
(* in blocks by MD5 (crypto/md5.c), LZ4 (crypto/lz4.c), Blowfish           *)
(* (crypto/blowfish.c) and the DES of the kernel (crypto/des.c).  What MD5 *)
(* does to a block is not looked at: a digest is the list of the blocks    *)
(* that are compressed.                                                    *)
(***************************************************************************)
EXTENDS Integers, Sequences, SequencesExt, FiniteSets

CONSTANTS
  Md5Block,       \* bytes of a block (64)
  Md5Chunks,      \* how many bytes a caller passes at once
  MaxFed,         \* bound: bytes of a message
  Lz4Streams,     \* what is packed: sequences of [lits, offset, len]
  Lz4Rooms,       \* sizes of the output
  DigitValues,    \* values of a quarter of a word (256)
  OrigP,          \* ORIG_P, in words of four digits
  SboxStep,       \* the factor of the S-boxes, likewise
  BlowfishKeys,   \* sequences of digits
  DesKeys,        \* 64-bit words: the positions, from the left, whose bit is 1
  DesBlocks

CiphersAssumption ==
  /\ Md5Block \in Nat \ {0} /\ Md5Chunks \subseteq Nat /\ MaxFed \in Nat
  /\ DigitValues \in Nat \ {0} /\ OrigP \in Seq(Nat) /\ Len(OrigP) = 18
  /\ \A k \in BlowfishKeys : k # <<>>
  /\ DesKeys \subseteq SUBSET (1..64) /\ DesBlocks \subseteq SUBSET (1..64)
ASSUME CiphersAssumption

VARIABLES
  md5,     \* [count, buffer, blocks: those given to crypto_md5_transform]
  fed,     \* history: bytes of the message so far; byte i is the number i
  tried    \* the input of the last call of one of the others

ciphersVars == <<md5, fed, tried>>

-----------------------------------------------------------------------------
(* MD5.  The count is kept in bits in the code. *)

Staged(buffer, at, bytes) ==
  [j \in 0..(Md5Block - 1) |-> IF j \in at..(at + Len(bytes) - 1) THEN bytes[j - at + 1] ELSE buffer[j]]

\* The block that is staged is filled up and goes first, whole blocks of the input
\* follow, what is left is staged from the start; or all of it behind what is there
Md5Updated(m, input) ==
  LET index == m.count % Md5Block
      part == Md5Block - index
      full == (Len(input) - part) \div Md5Block
      first == Staged(m.buffer, index, SubSeq(input, 1, part))
      i == part + full * Md5Block
  IN IF Len(input) < part
     THEN [m EXCEPT !.count = @ + Len(input), !.buffer = Staged(@, index, input)]
     ELSE [count |-> m.count + Len(input),
           buffer |-> Staged(first, 0, SubSeq(input, i + 1, Len(input))),
           blocks |-> Append(m.blocks, first) \o
                      [k \in 1..full |-> [j \in 0..(Md5Block - 1) |-> input[part + (k - 1) * Md5Block + j + 1]]]]

CryptoMd5Update(n) ==
  /\ fed + n <= MaxFed /\ fed' = fed + n
  /\ md5' = Md5Updated(md5, [i \in 1..n |-> fed + i])
  /\ UNCHANGED tried

-----------------------------------------------------------------------------
(* LZ4 *)

\* A length of 15 goes on in the bytes from pos up to one that is not 255
Lz4Length(source, nibble, pos) ==
  IF nibble < 15 THEN [n |-> nibble, pos |-> pos]
  ELSE LET end == CHOOSE q \in pos..Len(source) : source[q] # 255 /\ \A p \in pos..(q - 1) : source[p] = 255
       IN [n |-> 15 + 255 * (end - pos) + source[end], pos |-> end + 1]

\* byte by byte, so that a match may reach into what it writes: n bytes are one
\* half of them and then the other
CopyBack(dest, offset, n) ==
  LET copied[d \in Seq(Nat), m \in Nat] ==
        IF m = 0 THEN d ELSE IF m = 1 THEN Append(d, d[Len(d) - offset + 1])
        ELSE copied[copied[d, m \div 2], m - m \div 2]
  IN copied[dest, n]

Lz4Failed == [pos |-> 0, dest |-> <<>>, result |-> "full"]

\* One turn of the loop: a token, its literals, and its match unless the source ends
Lz4Turn(source, room, s) ==
  LET token == source[s.pos]
      lit == Lz4Length(source, token \div 16, s.pos + 1)
      read == s.dest \o SubSeq(source, lit.pos, lit.pos + lit.n - 1)
      at == lit.pos + lit.n
      offset == source[at] + 256 * source[at + 1]
      match == Lz4Length(source, token % 16, at + 2)
  IN IF Len(read) > room THEN Lz4Failed
     ELSE IF at > Len(source) THEN [pos |-> at, dest |-> read, result |-> "done"]
     ELSE IF Len(read) + match.n + 4 > room THEN Lz4Failed
     ELSE [pos |-> match.pos, dest |-> CopyBack(read, offset, match.n + 4), result |-> "done"]

Lz4DecompressUnknownSize(source, room) ==
  LET loop[s \in [pos : Nat, dest : Seq(Nat), result : {"done", "full"}]] ==
        IF s.result = "full" \/ s.pos > Len(source) THEN s ELSE loop[Lz4Turn(source, room, s)]
  IN loop[[pos |-> 1, dest |-> <<>>, result |-> "done"]]

-----------------------------------------------------------------------------
(* Blowfish *)

WordValues == DigitValues ^ 4
Xor(a, b) ==
  LET x[m \in Nat, n \in Nat] == IF m + n = 0 THEN 0 ELSE 2 * x[m \div 2, n \div 2] + ((m + n) % 2)
  IN x[a, b]
Sbox(j) == (j * SboxStep) % WordValues
DigitOf(x, i) == (x \div DigitValues ^ i) % DigitValues

BlowfishF(x) ==
  LET y == (Sbox(DigitOf(x, 3)) + Sbox(DigitOf(x, 2))) % WordValues
  IN (Xor(y, Sbox(DigitOf(x, 1))) + Sbox(DigitOf(x, 0))) % WordValues

\* The key goes round over the subkeys
BlowfishInit(key) ==
  LET Digit(n) == key[(n % Len(key)) + 1]
      Data(i) == FoldLeft(LAMBDA d, j : d * DigitValues + Digit(4 * i + j - 1), 0, [j \in 1..4 |-> j])
  IN [i \in 1..18 |-> Xor(OrigP[i], Data(i - 1))]

BlowfishEncrypt(P, b) ==
  LET Round(s, i) == LET l == Xor(s[1], P[i]) IN <<Xor(s[2], BlowfishF(l)), l>>
      e == FoldLeft(Round, b, [i \in 1..16 |-> i])
  IN <<Xor(e[2], P[18]), Xor(e[1], P[17])>>

-----------------------------------------------------------------------------
(* DES *)

IP_Table ==
  << 58, 50, 42, 34, 26, 18, 10, 2, 60, 52, 44, 36, 28, 20, 12, 4,
     62, 54, 46, 38, 30, 22, 14, 6, 64, 56, 48, 40, 32, 24, 16, 8,
     57, 49, 41, 33, 25, 17, 9, 1, 59, 51, 43, 35, 27, 19, 11, 3,
     61, 53, 45, 37, 29, 21, 13, 5, 63, 55, 47, 39, 31, 23, 15, 7 >>
FP_Table ==
  << 40, 8, 48, 16, 56, 24, 64, 32, 39, 7, 47, 15, 55, 23, 63, 31,
     38, 6, 46, 14, 54, 22, 62, 30, 37, 5, 45, 13, 53, 21, 61, 29,
     36, 4, 44, 12, 52, 20, 60, 28, 35, 3, 43, 11, 51, 19, 59, 11,
     34, 2, 42, 10, 50, 18, 58, 26, 33, 1, 41, 9, 49, 17, 57, 25 >>

DesPermute(input, table) == {i \in 1..64 : table[i] \in input}
DesXor(a, b) == SymDiff(a, b)
HighHalf(w) == w \intersect (1..32)
LowHalf(w) == {i \in 1..32 : i + 32 \in w}
Joined(high, low) == high \union {i + 32 : i \in low}

\* master_key ^ (r << 3r), of which the rounds take the lower half
BitOf(n, k) == IF k \in 0..3 THEN (n \div 2 ^ k) % 2 ELSE 0
DesSetKey(key) ==
  [r \in 0..15 |-> DesXor(LowHalf(key), {i \in 1..32 : BitOf(r, 32 - i - 3 * r) = 1})]

\* the 16 rounds, whose halves are swapped at the end
DesRounds(subkeys, decrypt, block) ==
  LET Round(s, r) ==
        LET f == DesXor(s[2], subkeys[IF decrypt THEN 16 - r ELSE r - 1]) IN <<s[2], DesXor(s[1], f)>>
      e == FoldLeft(Round, <<HighHalf(block), LowHalf(block)>>, [r \in 1..16 |-> r])
  IN Joined(e[2], e[1])

CryptoDesCryptBlock(subkeys, block, decrypt) ==
  DesPermute(DesRounds(subkeys, decrypt, DesPermute(block, IP_Table)), FP_Table)

-----------------------------------------------------------------------------
CiphersInit ==
  /\ md5 = [count |-> 0, buffer |-> [j \in 0..(Md5Block - 1) |-> 0], blocks |-> <<>>] /\ fed = 0
  /\ tried = [algorithm |-> "none"]

Unpack(stream, room) == tried' = [algorithm |-> "lz4", stream |-> stream, room |-> room] /\ UNCHANGED <<md5, fed>>
Encipher(key) == tried' = [algorithm |-> "blowfish", key |-> key] /\ UNCHANGED <<md5, fed>>
Crypt(key, block) == tried' = [algorithm |-> "des", key |-> key, block |-> block] /\ UNCHANGED <<md5, fed>>

\* A run feeds a message to MD5 or tries one of the others once
CiphersNext ==
  /\ tried.algorithm = "none"
  /\ \/ \E n \in Md5Chunks : CryptoMd5Update(n)
     \/ fed = 0 /\ \E stream \in Lz4Streams, room \in Lz4Rooms : Unpack(stream, room)
     \/ fed = 0 /\ \E key \in BlowfishKeys : Encipher(key)
     \/ fed = 0 /\ \E key \in DesKeys, block \in DesBlocks : Crypt(key, block)

-----------------------------------------------------------------------------
\* The digest does not depend on how the message was cut into calls: the blocks
\* compressed are those of the whole message and the rest is staged (crypto_md5_update).
DigestOfMessage ==
  /\ md5.count = fed
  /\ md5.blocks = [k \in 1..(fed \div Md5Block) |-> [j \in 0..(Md5Block - 1) |-> (k - 1) * Md5Block + j + 1]]
  /\ \A j \in 0..((fed % Md5Block) - 1) : md5.buffer[j] = Md5Block * (fed \div Md5Block) + j + 1

\* The LZ4 format: what a packer writes for a stream, and what the stream stands for
Extension(n) == IF n < 15 THEN <<>> ELSE [i \in 1..((n - 15) \div 255) |-> 255] \o <<(n - 15) % 255>>
Nibble(n) == IF n < 15 THEN n ELSE 15
Packed(stream) ==
  FoldLeftDomain(LAMBDA acc, i :
    LET s == stream[i] m == s.len - 4 last == i = Len(stream) IN
    acc \o <<16 * Nibble(Len(s.lits)) + IF last THEN 0 ELSE Nibble(m)>> \o Extension(Len(s.lits)) \o s.lits \o
    (IF last THEN <<>> ELSE <<s.offset % 256, s.offset \div 256>> \o Extension(m)), <<>>, stream)
\* A match of n bytes repeats the last offset bytes
Unpacked(stream) ==
  FoldLeftDomain(LAMBDA out, i :
    LET s == stream[i] d == out \o s.lits IN
    IF i = Len(stream) THEN d
    ELSE d \o [k \in 1..s.len |-> d[Len(d) - s.offset + ((k - 1) % s.offset) + 1]], <<>>, stream)

\* What was packed comes back, whatever the lengths and the overlap of the matches,
\* or -1 when it is longer than the room (lz4_decompress_unknown_size).
Lz4Agrees ==
  tried.algorithm = "lz4" =>
    LET got == Lz4DecompressUnknownSize(Packed(tried.stream), tried.room) IN
    IF Len(Unpacked(tried.stream)) > tried.room THEN got.result = "full"
    ELSE got.result = "done" /\ got.dest = Unpacked(tried.stream)

\* Blowfish with its subkeys the other way round is the inverse (crypto_blowfish_encrypt).
BlowfishInverts ==
  tried.algorithm = "blowfish" =>
    LET P == BlowfishInit(tried.key) IN
    \A l, r \in 0..(WordValues - 1) : BlowfishEncrypt(Reverse(P), BlowfishEncrypt(P, <<l, r>>)) = <<l, r>>

\* Decryption undoes encryption for every block whose bits 11 and 27 are equal before
\* both final permutations, of which FP_Table takes bit 11 twice (crypto_des_crypt_block).
DesInverts ==
  tried.algorithm = "des" =>
    LET keys == DesSetKey(tried.key)
        inner == DesPermute(tried.block, IP_Table)
        Agree(w) == (11 \in w) = (27 \in w)
    IN Agree(inner) /\ Agree(DesRounds(keys, FALSE, inner)) =>
         CryptoDesCryptBlock(keys, CryptoDesCryptBlock(keys, tried.block, FALSE), TRUE) = tried.block

CiphersAgree == DigestOfMessage /\ Lz4Agrees /\ BlowfishInverts /\ DesInverts
=============================================================================
