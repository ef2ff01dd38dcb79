---------------------------- MODULE FirmwareImage ----------------------------
(***************************************************************************)
(* Firmware images of vboot_reference/utils/firmware_image.c: how they are *)
(* signed, written and read, and the two ways to verify them, from a blob  *)
(* in memory and field by field.  Memory is a sequence of cells, one for a *)
(* number or a piece of a key, a digest or a signature; sizes that depend  *)
(* on the algorithm keep doing so.                                         *)
(***************************************************************************)
EXTENDS Integers, Sequences, SequencesExt

CONSTANTS SignKeys,      \* signing keys, besides the root key
          KeyAlgorithm,  \* the algorithm of each key, the root key included
          RootKey,
          Versions,      \* values of the versions
          DataLengths,   \* lengths of the firmware
          MaxEdits       \* bound on changes to the image and to the blob

VARIABLE fw

\* Signature algorithms 0..NumAlgorithms - 1, the last one for the root key.
NumAlgorithms == 2
RootAlgorithm == NumAlgorithms - 1
siglen_map(a) == a + 1
RSAProcessedKeySize(a) == 2 * siglen_map(a) + 2

\* Every key has an algorithm, the root key the last one, and signs nothing but headers; the
\* names of no key and of an unknown one are no keys.
ASSUME FirmwareAssumption ==
  /\ KeyAlgorithm \in [SignKeys \cup {RootKey} -> 0..NumAlgorithms - 1]
  /\ KeyAlgorithm[RootKey] = RootAlgorithm /\ RootKey \notin SignKeys
  /\ {"null", "other"} \cap (SignKeys \cup {RootKey}) = {}
  /\ Versions \subseteq Nat /\ DataLengths \subseteq Nat

Num(n) == <<"num", n>>
Magic == <<"magic", 0>>
Outside == <<"outside", 0>>     \* memory that does not belong to the blob
Heap == <<"heap", 0>>           \* memory of the signer beyond a buffer of the image
NumberIn(cell) == IF cell[1] = "num" THEN cell[2] ELSE 99

\* The cells from "at" (counted from 0) on.
At(blob, at, n) == [i \in 1..n |-> IF at + i <= Len(blob) THEN blob[at + i] ELSE Outside]

\* The first cells of a field of the image, however long its buffer is.
Field(field, n) == [i \in 1..n |-> IF i <= Len(field) THEN field[i] ELSE Heap]

\* A key in its processed form, and what it signs: the padding names the algorithm.
KeyCells(k) == [i \in 1..RSAProcessedKeySize(KeyAlgorithm[k]) |-> <<"key", k, i>>]
Signature(k, a, cells) == [i \in 1..siglen_map(KeyAlgorithm[k]) |-> <<"sig", k, a, cells, i>>]

\* RSAPublicKeyFromBuf(): NULL unless the length it starts with accounts for all of the
\* buffer; "other" is a key nobody signs with.
RSAPublicKeyFromBuf(cells) ==
  LET starts == {k \in DOMAIN KeyAlgorithm : cells[1] = KeyCells(k)[1]}
      k == CHOOSE s \in starts : TRUE
  IN  IF starts = {} THEN "null"
      ELSE IF Len(cells) # Len(KeyCells(k)) THEN "null"
      ELSE IF cells = KeyCells(k) THEN k ELSE "other"

\* RSA_verify(), with a key of the algorithm's length.
RSA_verify(k, signature, a, cells) ==
  /\ k # "other"
  /\ siglen_map(KeyAlgorithm[k]) = siglen_map(a)
  /\ signature = Signature(k, a, cells)

\* RSAVerifyBinary_f().
RSAVerifyBinary(k, cells, signature, a) ==
  a < NumAlgorithms /\ k # "null" /\ RSA_verify(k, signature, a, cells)

-----------------------------------------------------------------------------
\* WriteFirmwareHeader(): header_len says how much of the key is written.
HeaderRest == 4   \* header_len, sign_algorithm, key_version and header_checksum
WriteFirmwareHeader(m) ==
  <<Num(m.header_len), Num(m.sign_algorithm)>> \o Field(m.sign_key, m.header_len - HeaderRest)
    \o <<Num(m.key_version), m.header_checksum>>

\* WriteFirmwarePreamble().
WriteFirmwarePreamble(m) == <<Num(m.firmware_version), Num(m.firmware_len), m.preamble>>

\* WriteFirmwareImage().
WriteFirmwareImage(m) ==
  <<m.magic>> \o WriteFirmwareHeader(m) \o m.key_signature \o WriteFirmwarePreamble(m)
    \o Field(m.preamble_signature, siglen_map(m.sign_algorithm))
    \o Field(m.firmware_signature, siglen_map(m.sign_algorithm))
    \o Field(m.firmware_data, m.firmware_len)

\* SignatureFile(): sign_data.sh makes a signature of the key's length, of which as much
\* is read as the algorithm asks for; less is an error.
SignatureFile(k, a, cells) ==
  IF siglen_map(KeyAlgorithm[k]) < siglen_map(a) THEN <<>>
  ELSE SubSeq(Signature(k, a, cells), 1, siglen_map(a))

\* AddKeySignature().
AddKeySignature(m) == [m EXCEPT !.key_signature = SignatureFile(RootKey, RootAlgorithm, WriteFirmwareHeader(m))]

\* AddFirmwareSignature(): nothing changes after a signature that failed.
AddFirmwareSignature(m, k, a) ==
  LET preamble == SignatureFile(k, a, WriteFirmwarePreamble(m))
      data == SignatureFile(k, a, Field(m.firmware_data, m.firmware_len))
  IN  IF preamble = <<>> THEN m
      ELSE [m EXCEPT !.preamble_signature = preamble, !.firmware_signature = data]

-----------------------------------------------------------------------------
\* Mutant: the root key's signature is not checked.
VerifyHeaderUnchecked(blob, dev_mode) ==
  LET hlen == NumberIn(At(blob, 1, 1)[1])
      a == NumberIn(At(blob, 2, 1)[1])
      header == At(blob, 1, hlen)
  IN  IF a >= NumAlgorithms THEN "invalid_algorithm"
      ELSE IF hlen # 3 + RSAProcessedKeySize(a) + 1 THEN "invalid_image"
      ELSE IF header[hlen] # <<"sha512", SubSeq(header, 1, hlen - 1)>> THEN "invalid_image"
      ELSE "success"

\* VerifyFirmwareHeader() of the header after the magic.
VerifyFirmwareHeader(blob, dev_mode) ==
  LET hlen == NumberIn(At(blob, 1, 1)[1])
      a == NumberIn(At(blob, 2, 1)[1])
      header == At(blob, 1, hlen)
  IN  IF a >= NumAlgorithms THEN "invalid_algorithm"
      ELSE IF hlen # 3 + RSAProcessedKeySize(a) + 1 THEN "invalid_image"
      ELSE IF header[hlen] # <<"sha512", SubSeq(header, 1, hlen - 1)>> THEN "invalid_image"
      ELSE IF /\ ~dev_mode
              /\ ~RSAVerifyBinary(RootKey, header, At(blob, 1 + hlen, siglen_map(RootAlgorithm)), RootAlgorithm)
           THEN "root_signature_failed"
      ELSE "success"

\* VerifyFirmwarePreamble() of the preamble at an offset.
VerifyFirmwarePreamble(k, blob, at, a) ==
  IF RSAVerifyBinary(k, At(blob, at, 3), At(blob, at + 3, siglen_map(a)), a) THEN "success"
  ELSE "preamble_signature_failed"

\* Mutant: the data come first.
VerifyDataFirst(k, blob, at, length, a) ==
  IF RSAVerifyBinary(k, At(blob, at, length), At(blob, at + length, siglen_map(a)), a) THEN "success"
  ELSE "signature_failed"

\* VerifyFirmwareData(): the signature comes first.
VerifyFirmwareData(k, blob, at, length, a) ==
  IF RSAVerifyBinary(k, At(blob, at + siglen_map(a), length), At(blob, at, siglen_map(a)), a) THEN "success"
  ELSE "signature_failed"

\* VerifyFirmware().
VerifyFirmware(blob, dev_mode) ==
  LET header == VerifyFirmwareHeader(blob, dev_mode)
      a == NumberIn(At(blob, 2, 1)[1])
      hlen == NumberIn(At(blob, 1, 1)[1])
      k == RSAPublicKeyFromBuf(At(blob, 3, RSAProcessedKeySize(a)))
      preamble == 1 + hlen + siglen_map(RootAlgorithm)
      checked == VerifyFirmwarePreamble(k, blob, preamble, a)
      length == NumberIn(At(blob, preamble + 1, 1)[1])
  IN  IF At(blob, 0, 1)[1] # Magic THEN "wrong_magic"
      ELSE IF header # "success" THEN header
      ELSE IF checked # "success" THEN checked
      ELSE VerifyFirmwareData(k, blob, preamble + 3 + siglen_map(a), length, a)

\* VerifyFirmwareImage(): neither the header's length nor its checksum is looked at, and
\* a key that does not parse is used.
VerifyFirmwareImage(m, dev_mode) ==
  LET header == <<Num(m.header_len), Num(m.sign_algorithm)>>
                  \o Field(m.sign_key, RSAProcessedKeySize(m.sign_algorithm))
                  \o <<Num(m.key_version), m.header_checksum>>
      k == RSAPublicKeyFromBuf(Field(m.sign_key, RSAProcessedKeySize(m.sign_algorithm)))
      signature(s) == Field(s, siglen_map(m.sign_algorithm))
  IN  IF ~dev_mode /\ ~RSA_verify(RootKey, m.key_signature, RootAlgorithm, header) THEN "root_signature_failed"
      ELSE IF m.sign_algorithm >= NumAlgorithms THEN "invalid_algorithm"
      ELSE IF k = "null" THEN "crash"
      ELSE IF ~RSA_verify(k, signature(m.preamble_signature), m.sign_algorithm, WriteFirmwarePreamble(m))
           THEN "preamble_signature_failed"
      ELSE IF ~RSA_verify(k, signature(m.firmware_signature), m.sign_algorithm, Field(m.firmware_data, m.firmware_len))
           THEN "signature_failed"
      ELSE "success"

-----------------------------------------------------------------------------
\* An image as the tests make one: a checksum of the header and no signatures.
GenerateFirmwareImage(k, version, length) ==
  LET a == KeyAlgorithm[k]
      hlen == HeaderRest + RSAProcessedKeySize(a)
  IN  [magic |-> Magic, header_len |-> hlen, sign_algorithm |-> a, sign_key |-> KeyCells(k),
       key_version |-> version,
       header_checksum |-> <<"sha512", <<Num(hlen), Num(a)>> \o KeyCells(k) \o <<Num(version)>> >>,
       key_signature |-> Field(<<>>, siglen_map(RootAlgorithm)),
       firmware_version |-> version, firmware_len |-> length, preamble |-> <<"preamble", 0>>,
       preamble_signature |-> <<>>, firmware_signature |-> <<>>,
       firmware_data |-> [i \in 1..length |-> <<"data", 0>>]]

\* History: the headers the root key signed, and what the signing keys signed.
FirmwareInit ==
  \E k \in SignKeys, v \in Versions, n \in DataLengths :
    fw = [image |-> GenerateFirmwareImage(k, v, n), blob |-> <<>>, edits |-> 0, asWritten |-> FALSE,
          headers |-> {}, preambles |-> {}, data |-> {}]

SignHeader ==
  /\ fw.blob = <<>> /\ fw.headers = {}
  /\ fw' = [fw EXCEPT !.image = AddKeySignature(@), !.headers = {WriteFirmwareHeader(fw.image)}]

SignFirmware(k) ==
  /\ fw.blob = <<>> /\ fw.preambles = {}
  /\ LET a == KeyAlgorithm[k]
         m == AddFirmwareSignature(fw.image, k, a)
     IN  fw' = [fw EXCEPT !.image = m, !.preambles = {<<k, WriteFirmwarePreamble(m)>>},
                          !.data = {<<k, Field(m.firmware_data, m.firmware_len)>>}]

\* A field of the image is changed, before it is signed or after.
EditImage ==
  /\ fw.blob = <<>> /\ fw.edits < MaxEdits
  /\ \E m \in [key_version : Versions] \cup [firmware_version : Versions] \cup [firmware_len : DataLengths]
            \cup [sign_algorithm : 0..NumAlgorithms - 1] \cup [sign_key : {KeyCells(k) : k \in SignKeys}]
            \cup [header_len : {HeaderRest + RSAProcessedKeySize(a) : a \in 0..NumAlgorithms - 1}]
            \cup [firmware_data : {[i \in 1..n |-> <<"data", 1>>] : n \in DataLengths}] :
       LET f == CHOOSE g \in DOMAIN m : TRUE IN
       /\ fw.image[f] # m[f]
       /\ fw' = [fw EXCEPT !.image = [@ EXCEPT ![f] = m[f]], !.edits = @ + 1]

WriteImage ==
  /\ fw.blob = <<>>
  /\ fw' = [fw EXCEPT !.blob = WriteFirmwareImage(fw.image), !.asWritten = TRUE]

\* A cell goes bad on its way to memory, or takes the value of another one.
DamageBlob ==
  /\ fw.blob # <<>> /\ fw.edits < MaxEdits
  /\ \E i \in DOMAIN fw.blob : \E cell \in {<<"bad", 0>>} \cup {Num(v) : v \in Versions \cup DataLengths} :
       /\ cell # fw.blob[i]
       /\ fw' = [fw EXCEPT !.blob[i] = cell, !.edits = @ + 1, !.asWritten = FALSE]

FirmwareNext ==
  \/ SignHeader \/ (\E k \in SignKeys : SignFirmware(k)) \/ EditImage \/ WriteImage \/ DamageBlob

-----------------------------------------------------------------------------
\* What boots is what was signed: if VerifyFirmware() succeeds, the preamble and the data
\* were signed by the key in the header, the data with the length that is in the preamble,
\* all of them within the blob, and unless in developer mode the root key signed the header.
AcceptedIsSigned ==
  \A dev \in BOOLEAN :
    fw.blob # <<>> /\ VerifyFirmware(fw.blob, dev) = "success" =>
      \E k \in SignKeys, p \in fw.preambles, d \in fw.data :
        LET hlen == NumberIn(fw.blob[2])
            siglen == siglen_map(KeyAlgorithm[k])
            after == 1 + hlen + siglen_map(RootAlgorithm)
            data == after + 3 + 2 * siglen
        IN  /\ SubSeq(fw.blob, 4, 3 + Len(KeyCells(k))) = KeyCells(k)
            /\ dev \/ SubSeq(fw.blob, 2, 1 + hlen) \in fw.headers
            /\ p = <<k, SubSeq(fw.blob, after + 1, after + 3)>>
            /\ data + NumberIn(p[2][2]) <= Len(fw.blob)
            /\ d = <<k, SubSeq(fw.blob, data + 1, data + NumberIn(p[2][2]))>>

\* An image whose blob is accepted is accepted field by field, too, and an image that was
\* built, signed and written without a change in between is accepted.
VerifiersAgree ==
  /\ \A dev \in BOOLEAN :
       fw.asWritten /\ VerifyFirmware(fw.blob, dev) = "success" =>
         VerifyFirmwareImage(fw.image, dev) = "success"
  /\ fw.asWritten /\ fw.edits = 0 /\ fw.headers # {} /\ fw.preambles # {}
       /\ (\A p \in fw.preambles : fw.image.sign_key = KeyCells(p[1])) =>
       VerifyFirmware(fw.blob, FALSE) = "success"

\* Both verifiers accept signed firmware only, and the same.
VerifiedIsSigned == AcceptedIsSigned /\ VerifiersAgree

=============================================================================
