------------------------------- MODULE Codecs -------------------------------
(***************************************************************************)
(* The encodings of bytes: Base64, in which device hashes are written, and *)
(* the values in Linux Audit messages.  Bytes and characters are numbers.  *)
(***************************************************************************)
EXTENDS Integers, Sequences, SequencesExt

CONSTANTS
  Bytes,     \* the bytes that occur
  MaxBytes   \* bound on the length of the data

VARIABLES data   \* the data to encode

Padding == 61   \* '='

-----------------------------------------------------------------------------
(* Base64 *)

\* encode_map
EncodeMap(n) ==
  CASE n < 26 -> 65 + n          \* 'A' ..
    [] n < 52 -> 97 + (n - 26)   \* 'a' ..
    [] n < 62 -> 48 + (n - 52)   \* '0' ..
    [] n = 62 -> 43              \* '+'
    [] n = 63 -> 47              \* '/'

\* decode_map, which has zeroes for the characters in between
DecodeMap(c) ==
  CASE c \in 65 .. 90  -> c - 65
    [] c \in 97 .. 122 -> c - 97 + 26
    [] c \in 48 .. 57  -> c - 48 + 52
    [] c = 43 -> 62
    [] c = 47 -> 63
    [] OTHER -> 0

Enc3(b) == <<EncodeMap(b[1] \div 4),
             EncodeMap((b[1] % 4) * 16 + b[2] \div 16),
             EncodeMap((b[2] % 16) * 4 + b[3] \div 64),
             EncodeMap(b[3] % 64)>>

\* Mutation: the low bits of the second byte are lost
Enc2Short(b) == <<EncodeMap(b[1] \div 4),
                  EncodeMap((b[1] % 4) * 16 + b[2] \div 16), Padding, Padding>>

Enc2(b) == <<EncodeMap(b[1] \div 4),
             EncodeMap((b[1] % 4) * 16 + b[2] \div 16),
             EncodeMap((b[2] % 16) * 4), Padding>>

Enc1(b) == <<EncodeMap(b[1] \div 4), EncodeMap((b[1] % 4) * 16), Padding, Padding>>

\* base64Encode, for data that is not empty
Base64Encode(s) ==
  LET blocks == Len(s) \div 3
      rest == SubSeq(s, 3 * blocks + 1, Len(s))
  IN  FlattenSeq([i \in 1 .. blocks |-> Enc3(SubSeq(s, 3 * i - 2, 3 * i))]) \o
      CASE Len(rest) = 2 -> Enc2(rest)
        [] Len(rest) = 1 -> Enc1(rest)
        [] OTHER -> <<>>

Base64EncodedSize(n) == (n \div 3) * 4 + (IF n % 3 = 0 THEN 0 ELSE 4)

\* __check_b64_input
ValidBase64(s) ==
  \A i \in DOMAIN s : s[i] \in {43} \cup (47 .. 57) \cup (65 .. 90) \cup (97 .. 122)

\* __b64_dec4, __b64_dec3, __b64_dec2: the first n bytes of a block, in uint8_t
Dec(c, n) ==
  LET d(i) == DecodeMap(c[i])
      out == <<(d(1) * 4 + d(2) \div 16) % 256,
               IF n > 1 THEN ((d(2) % 16) * 16 + (d(3) \div 4)) % 256 ELSE 0,
               IF n > 2 THEN ((d(3) % 4) * 64 + d(4)) % 256 ELSE 0>>
  IN  SubSeq(out, 1, n)

\* base64Decode; {} is an exception
Base64Decode(s) ==
  LET padding == CASE s[Len(s)] # Padding -> 0
                   [] s[Len(s) - 1] = Padding -> 2
                   [] OTHER -> 1
      blocks == Len(s) \div 4 - (IF padding = 0 THEN 0 ELSE 1)
      whole == SubSeq(s, 1, 4 * blocks)
      last == SubSeq(s, 4 * blocks + 1, Len(s) - padding)
  IN  IF Len(s) = 0 \/ Len(s) % 4 # 0 THEN {}
      ELSE IF ~ValidBase64(whole) \/ ~ValidBase64(last) THEN {}
      ELSE {FlattenSeq([i \in 1 .. blocks |-> Dec(SubSeq(s, 4 * i - 3, 4 * i), 3)]) \o
            (IF padding = 0 THEN <<>> ELSE Dec(last, 3 - padding))}

-----------------------------------------------------------------------------
(* Linux Audit messages *)

Quote == 34
Space == 32

\* audit_value_needs_encoding.  The characters are signed: from 128 on they are
\* negative.
NeedsEncoding(s) == \E i \in DOMAIN s : s[i] = Quote \/ s[i] < 33 \/ s[i] >= 127

Hex(n) == IF n < 10 THEN 48 + n ELSE 55 + n

\* audit_encode_nv_string, without the name: quoted, or in hexadecimal digits
EncodeValue(s) ==
  IF NeedsEncoding(s)
  THEN FlattenSeq([i \in DOMAIN s |-> <<Hex(s[i] \div 16), Hex(s[i] % 16)>>])
  ELSE <<Quote>> \o s \o <<Quote>>

\* appendToMessage, for two values
AuditMessage(s, t) == EncodeValue(s) \o <<Space>> \o EncodeValue(t)

-----------------------------------------------------------------------------

NextByte(b) == Len(data) < MaxBytes /\ data' = Append(data, b)

CodecInit == data = <<>>
CodecNext == \E b \in Bytes : NextByte(b)

-----------------------------------------------------------------------------
(* Properties *)

\* What was encoded in Base64 has the size that was allocated for it and is
\* decoded to the same bytes, at every length of the last block (base64Encode,
\* base64Decode).
Base64RoundTrip ==
  data # <<>> => LET s == Base64Encode(data)
                 IN  /\ Len(s) = Base64EncodedSize(Len(data))
                     /\ Base64Decode(s) = {data}

Unhex(c) == IF c < 58 THEN c - 48 ELSE c - 55

\* What a reader of the audit log does: a value in quotes stands for itself
ReadValue(s) ==
  IF s[1] = Quote THEN SubSeq(s, 2, Len(s) - 1)
  ELSE [i \in 1 .. Len(s) \div 2 |-> Unhex(s[2 * i - 1]) * 16 + Unhex(s[2 * i])]

\* A value in a Linux Audit message is read back as it was, and the first space
\* of a message of two values is the one between them
\* (LinuxAuditBackend::appendToMessage, audit_encode_nv_string).
AuditValuesReadable ==
  LET message == AuditMessage(data, Reverse(data))
      space == CHOOSE i \in DOMAIN message :
                 message[i] = Space /\ \A j \in 1 .. i - 1 : message[j] # Space
  IN  data # <<>> =>
        /\ ReadValue(SubSeq(message, 1, space - 1)) = data
        /\ ReadValue(SubSeq(message, space + 1, Len(message))) = Reverse(data)

\* What the daemon encodes is read back as it was: hashes in Base64, and values in
\* the messages of Linux Audit (Base64.cpp, LinuxAuditBackend.cpp).
EncodingsReadBack == Base64RoundTrip /\ AuditValuesReadable
=============================================================================
