---------------------------- MODULE VbootCrypto -----------------------------
(***************************************************************************)
(* The cryptography of vboot_reference: the digests of crypto/sha1.c,      *)
(* crypto/sha2.c and crypto/sha_utility.c, and the exponentiation of       *)
(* crypto/rsa.c.                                                           *)
(***************************************************************************)
EXTENDS Integers, Sequences, SequencesExt

-----------------------------------------------------------------------------
(* The digests.  What is modelled is the buffering of a message that comes *)
(* in pieces, and its padding; the transformation of a block is the list   *)
(* of the blocks transformed so far, which is as good a digest as any.     *)
(* Byte i of a message is the number i, and a length field is two numbers, *)
(* the high and the low word.                                              *)

CONSTANTS Sha1Block, Sha256Block, Sha512Block,   \* block sizes
          LengthField, LongLengthField,          \* bytes of the length in SHA-1 and -256, and in SHA-512
          WordSize,                              \* 2^32, for the length of a message
          MaxMessage, MaxPieces                  \* bounds on the bytes and the calls

VARIABLE sha

EndMark == -2   \* 0x80

HashAlgorithms == {"sha1", "sha1_little_endian", "sha256", "sha512"}
BlockSize(a) == CASE a = "sha256" -> Sha256Block [] a = "sha512" -> Sha512Block [] OTHER -> Sha1Block
FieldSize(a) == IF a = "sha512" THEN LongLengthField ELSE LengthField

\* memcpy() to "at" of a buffer.
CopyTo(buffer, at, data) ==
  [i \in DOMAIN buffer |-> IF i \in (at + 1)..(at + Len(data)) THEN data[i - at] ELSE buffer[i]]

\* SHA1_init(), SHA256_init(), SHA512_init(): the buffer is what malloc() gives.  "len" is ctx->count of
\* SHA-1.
ShaInit(a) ==
  [h |-> <<>>, len |-> 0, tot_len |-> 0,
   block |-> [i \in 1..(IF a \in {"sha256", "sha512"} THEN 2 ELSE 1) * BlockSize(a) |-> -1]]

\* The digest of the blocks so far is the list of them; more blocks come from the start of "data".
WithBlocks(c, data, size, count) ==
  [c EXCEPT !.h = @ \o [k \in 1..count |-> SubSeq(data, (k - 1) * size + 1, k * size)]]

SHA256_transform(c, data, count) == WithBlocks(c, data, Sha256Block, count)

SHA512_transform(c, data, count) == WithBlocks(c, data, Sha512Block, count)

\* SHA-1 transforms ctx->buf, in a version for little-endian machines and a generic one.
SHA1_Transform(c) == WithBlocks(c, c.block, Sha1Block, 1)

SHA1_transform(c) == WithBlocks(c, c.block, Sha1Block, 1)

-----------------------------------------------------------------------------
\* SHA256_update(): the block is filled and transformed, then whole blocks of the data
\* are, and the rest is kept.
Sha2Update(c, data, size, transform(_, _, _)) ==
  LET room == size - c.len
      rem == IF Len(data) < room THEN Len(data) ELSE room
      filled == [c EXCEPT !.block = CopyTo(@, c.len, SubSeq(data, 1, rem))]
      rest == SubSeq(data, rem + 1, Len(data))
      blocks == Len(rest) \div size
      last == SubSeq(rest, blocks * size + 1, Len(rest))
  IN  IF c.len + Len(data) < size THEN [filled EXCEPT !.len = @ + Len(data)]
      ELSE LET done == transform(transform(filled, filled.block, 1), rest, blocks)
           IN  [done EXCEPT !.block = CopyTo(@, 0, last), !.len = Len(last),
                            !.tot_len = (@ + (blocks + 1) * size) % WordSize]

\* Mutant: a block that is just full is kept.
SHA256_updateLate(c, data) ==
  IF c.len + Len(data) = Sha256Block
  THEN [c EXCEPT !.block = CopyTo(@, c.len, data), !.len = @ + Len(data)]
  ELSE Sha2Update(c, data, Sha256Block, SHA256_transform)

SHA256_update(c, data) == Sha2Update(c, data, Sha256Block, SHA256_transform)

SHA512_update(c, data) == Sha2Update(c, data, Sha512Block, SHA512_transform)

\* SHA256_final(): one block more, or two, with a length of one word.
Sha2Final(c, size, field, transform(_, _, _)) ==
  LET blocks == IF size - (field + 1) < c.len % size THEN 2 ELSE 1
      zeros == [i \in 1..blocks * size - c.len |-> 0]
      padded == CopyTo(CopyTo(CopyTo(c.block, c.len, zeros), c.len, <<EndMark>>),
                       blocks * size - 1, <<(c.tot_len + c.len) % WordSize>>)
  IN  transform(c, padded, blocks)

SHA256_final(c) == Sha2Final(c, Sha256Block, LengthField, SHA256_transform)

SHA512_final(c) == Sha2Final(c, Sha512Block, LongLengthField, SHA512_transform)

-----------------------------------------------------------------------------
\* One byte of SHA1_update().
Sha1Byte(c, byte, transform(_)) ==
  LET at == c.len % Sha1Block
      d == [c EXCEPT !.block = CopyTo(@, at, <<byte>>), !.len = @ + 1]
  IN  IF at + 1 = Sha1Block THEN transform(d) ELSE d

\* SHA1_update() of the generic version: byte by byte.
SHA1_update(c, data) == FoldLeft(LAMBDA d, byte : Sha1Byte(d, byte, SHA1_transform), c, data)

\* SHA1_update() of the little-endian version: while more is left than fills the block
\* the block is filled, then it goes on byte by byte.
SHA1_updateFast(c, data) ==
  LET at == c.len % Sha1Block
      fills == IF Len(data) = 0 THEN 0 ELSE (at + Len(data) - 1) \div Sha1Block
      from(k) == IF k = 1 THEN 1 ELSE (k - 1) * Sha1Block - at + 1
      fill(d, k) == LET e == [d EXCEPT !.block = CopyTo(@, IF k = 1 THEN at ELSE 0,
                                                       SubSeq(data, from(k), k * Sha1Block - at))]
                    IN  SHA1_Transform(e)
      filled == FoldLeft(fill, c, [k \in 1..fills |-> k])
      \* The byte loop starts at i, not at what ctx->count says.
      rest == SubSeq(data, from(fills + 1), Len(data))
      done == FoldLeft(LAMBDA d, byte : Sha1Byte(d, byte, SHA1_Transform),
                       [filled EXCEPT !.len = IF fills = 0 THEN at ELSE 0], rest)
  IN  [done EXCEPT !.len = c.len + Len(data)]

\* The padding goes through the same updates.
Sha1Final(c, update(_, _)) ==
  LET ended == update(c, <<EndMark>>)
      zeros == (2 * Sha1Block - LengthField - (ended.len % Sha1Block)) % Sha1Block
      filled == FoldLeft(update, ended, [k \in 1..zeros |-> <<0>>])
  IN  FoldLeft(update, filled, [k \in 1..LengthField |->
                  IF k = LengthField THEN <<c.len % WordSize>>
                  ELSE IF k = LengthField - 1 THEN <<c.len \div WordSize>> ELSE <<0>>])

\* SHA1_final() of the two versions.
SHA1_final(c) == Sha1Final(c, SHA1_update)
SHA1_finalFast(c) == Sha1Final(c, SHA1_updateFast)

-----------------------------------------------------------------------------
\* DigestUpdate() and DigestFinal().
DigestUpdate(a, c, data) ==
  CASE a = "sha1" -> SHA1_update(c, data)
    [] a = "sha1_little_endian" -> SHA1_updateFast(c, data)
    [] a = "sha256" -> SHA256_update(c, data)
    [] a = "sha512" -> SHA512_update(c, data)

DigestFinal(a, c) ==
  CASE a = "sha1" -> SHA1_final(c)
    [] a = "sha1_little_endian" -> SHA1_finalFast(c)
    [] a = "sha256" -> SHA256_final(c)
    [] a = "sha512" -> SHA512_final(c)

\* The bytes of a message from "first" on.
Bytes(first, count) == [i \in 1..count |-> first + i - 1]

\* DigestBuf(): in one piece.
DigestBuf(a, data) == DigestFinal(a, DigestUpdate(a, ShaInit(a), data)).h

\* DigestInit().
DigestInit == \E a \in HashAlgorithms :
  sha = [algorithm |-> a, ctx |-> ShaInit(a), fed |-> 0, pieces |-> 0, digest |-> <<>>, one |-> <<>>]

\* A caller feeds another piece, of a structure as VerifyFirmwareImage() or of a file as
\* DigestFile(), or is done.
FeedPiece ==
  /\ sha.digest = <<>> /\ sha.pieces < MaxPieces
  /\ \E n \in 0..MaxMessage - sha.fed :
       sha' = [sha EXCEPT !.ctx = DigestUpdate(sha.algorithm, @, Bytes(sha.fed + 1, n)),
                          !.fed = @ + n, !.pieces = @ + 1]

FinishDigest ==
  /\ sha.digest = <<>>
  /\ sha' = [sha EXCEPT !.digest = DigestFinal(sha.algorithm, sha.ctx).h,
                        !.one = DigestBuf(sha.algorithm, Bytes(1, sha.fed))]

DigestNext == FeedPiece \/ FinishDigest

-----------------------------------------------------------------------------
\* FIPS 180-2: the message, an end mark, as few zeros as fill the block, and the length.
PaddedMessage(a, n) ==
  LET used == n + 1 + FieldSize(a)
      total == ((used + BlockSize(a) - 1) \div BlockSize(a)) * BlockSize(a)
  IN  [i \in 1..total |-> CASE i <= n -> i [] i = n + 1 -> EndMark [] i = total -> n % WordSize
                            [] i = total - 1 /\ total - 1 > n + 1 -> n \div WordSize
                            [] OTHER -> 0]

\* However a message is cut into pieces, at the ends of blocks or within the padding, its
\* digest is that of FIPS 180-2 and of the whole at once, as long as its length fits the
\* one word that SHA-2 writes; and SHA-2 never keeps a full block.
DigestOfWholeMessage ==
  /\ sha.algorithm \in {"sha256", "sha512"} => sha.ctx.len < BlockSize(sha.algorithm)
  /\ sha.digest # <<>> =>
       /\ sha.digest = sha.one
       /\ sha.fed < WordSize \/ sha.algorithm \in {"sha1", "sha1_little_endian"} =>
            FlattenSeq(sha.digest) = PaddedMessage(sha.algorithm, sha.fed)

-----------------------------------------------------------------------------
(* The exponentiation, with a key that utils/dumpRSAPublicKey.c has        *)
(* prepared: Montgomery products of numbers held as little-endian arrays   *)
(* of words.  The word and the keys are small here; a step is one product  *)
(* of modpowF4().                                                          *)

CONSTANTS RsaWord,   \* 2^32
          RsaWords   \* words of a key

VARIABLE rsa

RsaR == RsaWord^RsaWords

\* Numbers and their words, least significant first.
ToWords(v) == [i \in 1..RsaWords |-> (v \div RsaWord^(i - 1)) % RsaWord]
FromWords(w) == FoldLeft(LAMBDA v, i : v + w[i] * RsaWord^(i - 1), 0, [i \in 1..RsaWords |-> i])

\* output() of dumpRSAPublicKey.c: check() only lets moduli through that fill their words, and a
\* modulus is odd.
Moduli == {v \in (RsaR \div 2)..(RsaR - 1) : v % 2 = 1}
ProcessedKey(v) ==
  [n |-> ToWords(v), rr |-> ToWords((RsaR * RsaR) % v),
   n0inv |-> RsaWord - (CHOOSE i \in 1..RsaWord - 1 : (v * i) % RsaWord = 1)]

-----------------------------------------------------------------------------
\* subM(): a[] -= mod, with the borrow of the last word dropped.
subM(key, a) ==
  LET sub(s, i) == LET d == s.borrow + a[i] - key.n[i]
                   IN  [borrow |-> d \div RsaWord, out |-> Append(s.out, d % RsaWord)]
  IN  FoldLeft(sub, [borrow |-> 0, out |-> <<>>], [i \in 1..RsaWords |-> i]).out

\* geM(): a[] >= mod, from the most significant word on.
geM(key, a) ==
  \/ a = key.n
  \/ \E i \in 1..RsaWords : /\ a[i] > key.n[i]
                            /\ \A j \in (i + 1)..RsaWords : a[j] = key.n[j]

\* Mutant: the carry out of the last word is dropped.
montMulAddCarry(key, c, a, b) ==
  LET first == a * b[1] + c[1]
      d0 == ((first % RsaWord) * key.n0inv) % RsaWord
      step(s, i) ==
        LET A == (s.A \div RsaWord) + a * b[i] + c[i]
            B == (s.B \div RsaWord) + d0 * key.n[i] + (A % RsaWord)
        IN  [A |-> A, B |-> B, out |-> Append(s.out, B % RsaWord)]
      last == FoldLeft(step, [A |-> first, B |-> d0 * key.n[1] + (first % RsaWord), out |-> <<>>],
                       [i \in 1..RsaWords - 1 |-> i + 1])
      carry == (last.A \div RsaWord) + (last.B \div RsaWord)
  IN  Append(last.out, carry % RsaWord)

\* montMulAdd(): c[] += a * b[] / R % mod, one word of a, in 64-bit sums that cannot overflow.
montMulAdd(key, c, a, b) ==
  LET first == a * b[1] + c[1]
      d0 == ((first % RsaWord) * key.n0inv) % RsaWord
      step(s, i) ==
        LET A == (s.A \div RsaWord) + a * b[i] + c[i]
            B == (s.B \div RsaWord) + d0 * key.n[i] + (A % RsaWord)
        IN  [A |-> A, B |-> B, out |-> Append(s.out, B % RsaWord)]
      last == FoldLeft(step, [A |-> first, B |-> d0 * key.n[1] + (first % RsaWord), out |-> <<>>],
                       [i \in 1..RsaWords - 1 |-> i + 1])
      carry == (last.A \div RsaWord) + (last.B \div RsaWord)
      sum == Append(last.out, carry % RsaWord)
  IN  IF carry \div RsaWord > 0 THEN subM(key, sum) ELSE sum

\* montMul(): c[] = a[] * b[] / R % mod.
montMul(key, a, b) ==
  FoldLeft(LAMBDA c, i : montMulAdd(key, c, a[i], b), [i \in 1..RsaWords |-> 0],
           [i \in 1..RsaWords |-> i])

-----------------------------------------------------------------------------
\* modpowF4() is called with any signature, one above the modulus included.
RsaStart(v, s) == [modulus |-> v, signature |-> s, step |-> 0, aR |-> <<>>]

RsaInit == \E v \in Moduli, s \in 0..RsaR - 1 : rsa = RsaStart(v, s)

\* aR = a * RR / R, sixteen squarings, and a last product with a; then the result is made
\* smaller than the modulus.
ModpowStep ==
  LET key == ProcessedKey(rsa.modulus)
      a == ToWords(rsa.signature)
      c == CASE rsa.step = 0 -> montMul(key, a, key.rr)
             [] rsa.step \in 1..16 -> montMul(key, rsa.aR, rsa.aR)
             [] rsa.step = 17 -> LET aaa == montMul(key, rsa.aR, a)
                                 IN  IF geM(key, aaa) THEN subM(key, aaa) ELSE aaa
  IN  /\ rsa.step < 18
      /\ rsa' = [rsa EXCEPT !.step = @ + 1, !.aR = c]

RsaNext == ModpowStep

-----------------------------------------------------------------------------
\* After the k-th product the array holds a^(2^k) R up to a multiple of the modulus that
\* still fits the words, and modpowF4() ends with the 65537th power of the signature, fully reduced.
SignaturePowered ==
  LET n == rsa.modulus
      squared(k) == FoldLeft(LAMBDA x, i : (x * x) % n, rsa.signature % n, [i \in 1..k |-> i])
  IN  /\ rsa.step \in 1..17 =>
           FromWords(rsa.aR) % n = (squared(rsa.step - 1) * RsaR) % n
      /\ rsa.step = 18 => FromWords(rsa.aR) = (squared(16) * rsa.signature) % n

\* The cryptography computes what its references define, for any pieces, key and signature.
CryptoMatchesReference == DigestOfWholeMessage /\ SignaturePowered

=============================================================================
