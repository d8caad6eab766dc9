-------------------------------- MODULE Codec --------------------------------
(***************************************************************************)
(* How a proposal becomes the bytes that are dispersed and back: the       *)
(* length suffix of mvba.MainProcess and the padding of                    *)
(* reedsolomon.RScoder.  What the library makes of padded bytes is left    *)
(* out: any F+1 of its shares give them back.                              *)
(***************************************************************************)
EXTENDS Integers, Sequences

Byte == 0 .. 255

(* n without its last byte, and whether four bytes hold n.                 *)
Shift(n)     == n \div 256
FourBytes(n) == Shift(Shift(Shift(n))) < 256

(* uint32(n), the most significant byte first, and back.                   *)
IntToBytes(n) ==
  <<Shift(Shift(Shift(n))) % 256, Shift(Shift(n)) % 256, Shift(n) % 256, n % 256>>

BytesToUint32(b) == 256 * (256 * (256 * b[1] + b[2]) + b[3]) + b[4]

(* The validation and its length follow the value.                         *)
ValueAndValidation(value, validation) ==
  value \o validation \o IntToBytes(Len(validation))

ResultValue(m) ==
  LET validationLen == BytesToUint32(SubSeq(m, Len(m) - 3, Len(m)))
  IN  SubSeq(m, 1, Len(m) - validationLen - 4)

-----------------------------------------------------------------------------
(* Mutant: a message that fills its last row is not padded.                *)
PaddingNone(n, required) == (required - (n % required)) % required

(* A message of n bytes gets another row if it fills its last one.         *)
Padding(n, required) == required - (n % required)

(* Zeros follow the message, and the last byte is the length of the padding.*)
Pad(m, required) ==
  LET padding == Padding(Len(m), required)
      size    == Len(m) + padding
  IN  [i \in 1 .. size |->
         IF i = size THEN padding % 256 ELSE IF i <= Len(m) THEN m[i] ELSE 0]

(* Mutant: the padding is not cut off.                                     *)
UnpadNone(padded) == padded

Unpad(padded) == SubSeq(padded, 1, Len(padded) - padded[Len(padded)])
=============================================================================
