-------------------------------- MODULE ToUtf8 --------------------------------
(***************************************************************************)
(* to_utf8: converts a Cyrillic text in one of three eight-bit encodings   *)
(* to UTF-8, line by line or, where a line is longer than the buffer,      *)
(* piece by piece.                                                         *)
(***************************************************************************)
EXTENDS Integers, SequencesExt

CONSTANTS k_encoded_buf_sz,
          Texts         \* texts to convert, as sequences of code points

cp1251    == 1
koi8r     == 2
iso88595  == 3
undefined == -1         \* no option -e

Byte == 0..255
NUL  == 0
LF   == 10

\* The letters from A to ya: the texts are of them and of ASCII characters.
Letters == \h410..\h44F

\* what is assumed of the constants
BufferAssumption == k_encoded_buf_sz \in Nat /\ k_encoded_buf_sz > 1
TextAssumption == \A t \in Texts : t \in Seq(0..127 \cup Letters)

VARIABLES text,          \* the text in the input file
          encoding,      \* the encoding it is in, and the option -e
          input,         \* bytes of the file that are not read yet
          last_j,        \* where the last piece ended in utf8_buf
          printed,       \* the output file
          pc

vars == <<text, encoding, input, last_j, printed, pc>>

----------------------------------------------------------------------------
(* What the encodings are: the input files are written by their standards. *)

\* the letters from yu on in the order of KOI8-R, as places in the alphabet
KoiOrder == <<31, 1, 2, 23, 5, 6, 21, 4, 22, 9, 10, 11, 12, 13, 14, 15,
              16, 32, 17, 18, 19, 20, 7, 3, 29, 28, 8, 25, 30, 26, 24, 27>>

\* the place of a letter in KOI8-R: its capitals are behind its small letters
KoiPlace(c) == LET place == 1 + ((c - \h410) % 32)
                   n == CHOOSE k \in 1..32 : KoiOrder[k] = place
               IN  (n - 1) + (IF c < \h430 THEN 32 ELSE 0)

ByteOf(c, enc) == IF c < 128 THEN c
                  ELSE IF enc = koi8r THEN 192 + KoiPlace(c)
                  ELSE IF enc = iso88595 THEN 176 + (c - \h410)
                  ELSE 192 + (c - \h410)

\* UTF-8 of a character below 2^11
Utf8(c) == IF c < 128 THEN <<c>> ELSE <<192 + (c \div 64), 128 + (c % 64)>>

----------------------------------------------------------------------------
(* The program.                                                            *)

\* the rows of the tables behind byte 128: code points, 0 where there is none
cp1251_utf8   == [n \in 0..127 |-> IF n < 64 THEN 0 ELSE \h410 + (n - 64)]
iso88595_utf8 == [n \in 0..127 |-> IF n \in 48..111 THEN \h410 + (n - 48) ELSE 0]

koi8r_letters ==
  << \h44E, \h430, \h431, \h446, \h434, \h435, \h444, \h433, \h445, \h438, \h439, \h43A, \h43B, \h43C, \h43D, \h43E,
     \h43F, \h44F, \h440, \h441, \h442, \h443, \h436, \h432, \h44C, \h44B, \h437, \h448, \h44D, \h449, \h447, \h44A,
     \h42E, \h410, \h411, \h426, \h414, \h415, \h424, \h413, \h425, \h418, \h419, \h41A, \h41B, \h41C, \h41D, \h41E,
     \h41F, \h42F, \h420, \h421, \h422, \h423, \h416, \h412, \h42C, \h42B, \h417, \h428, \h42D, \h429, \h427, \h42A >>
koi8r_utf8 == [n \in 0..127 |-> IF n < 64 THEN 0 ELSE koi8r_letters[n - 63]]

get_characters_set(enc) == CASE enc = cp1251   -> cp1251_utf8
                             [] enc = koi8r    -> koi8r_utf8
                             [] enc = iso88595 -> iso88595_utf8

\* one symbol in UTF-8: 0xC0 | (code >> 6), 0x80 | (code & 0x3f)
Encode(symbol) ==
    IF symbol < 128 THEN <<symbol>>
    ELSE LET code == get_characters_set(encoding)[symbol - 128]
         IN  <<192 + (code \div 64), 128 + (code % 64)>>

Init == /\ text \in Texts
        /\ encoding \in {undefined, cp1251, koi8r, iso88595}
        /\ input = [k \in DOMAIN text |-> ByteOf(text[k], encoding)]
        /\ last_j = 0
        /\ printed = <<>>
        /\ pc = "open"

\* the input cannot be opened
OpenFails == /\ pc = "open"
             /\ pc' = "failed"
             /\ UNCHANGED <<text, encoding, input, last_j, printed>>

\* The output cannot be opened, which is not looked at: the stream that is
\* missing is written to, or closed.
OpenOutputFails == /\ pc = "open"
                   /\ pc' = IF encoding = undefined THEN "abort" ELSE "killed"
                   /\ UNCHANGED <<text, encoding, input, last_j, printed>>

\* both files are open; without an encoding the assertion ends the program
Open == /\ pc = "open"
        /\ pc' = IF encoding = undefined THEN "abort" ELSE "convert"
        /\ UNCHANGED <<text, encoding, input, last_j, printed>>

\* what fgets takes: up to a newline, and one byte less than the buffer holds
fgets_len == LET ends == {k \in DOMAIN input : input[k] = LF \/ k = k_encoded_buf_sz - 1
                                                             \/ k = Len(input)}
             IN  CHOOSE k \in ends : \A e \in ends : k <= e

\* the loop over the buffer stops at the first NUL, also at one of the text's
UntilNul(buf) == IF Contains(buf, NUL) THEN SubSeq(buf, 1, SelectInSeq(buf, LAMBDA b : b = NUL) - 1)
                                       ELSE buf

\* mutant: what is left of a line longer than the buffer is dropped
Convert_DropTail ==
    /\ pc = "convert" /\ input # <<>>
    /\ LET buf  == UntilNul(SubSeq(input, 1, fgets_len))
           utf8 == FlattenSeq([k \in DOMAIN buf |-> Encode(buf[k])])
       IN  /\ printed' = printed \o utf8
           /\ last_j' = Len(utf8)
    /\ input' = IF Contains(input, LF)
                THEN SubSeq(input, SelectInSeq(input, LAMBDA b : b = LF) + 1, Len(input)) ELSE <<>>
    /\ UNCHANGED <<text, encoding, pc>>

\* fgets reads a piece, which is converted and written
Convert == /\ pc = "convert" /\ input # <<>>
           /\ LET buf  == UntilNul(SubSeq(input, 1, fgets_len))
                  utf8 == FlattenSeq([k \in DOMAIN buf |-> Encode(buf[k])])
              IN  /\ printed' = printed \o utf8
                  /\ last_j' = Len(utf8)
           /\ input' = SubSeq(input, fgets_len + 1, Len(input))
           /\ UNCHANGED <<text, encoding, pc>>

Finish == /\ pc = "convert" /\ input = <<>>
          /\ pc' = "done"
          /\ UNCHANGED <<text, encoding, input, last_j, printed>>

Next == OpenFails \/ OpenOutputFails \/ Open \/ Convert \/ Finish

Spec == Init /\ [][Next]_vars /\ WF_vars(Next)

----------------------------------------------------------------------------
(* Properties.                                                             *)

TypeOK == /\ text \in Texts
          /\ encoding \in {undefined, cp1251, koi8r, iso88595}
          /\ input \in Seq(Byte) /\ printed \in Seq(Byte)
          /\ last_j \in Nat
          /\ pc \in {"open", "convert", "done", "failed", "abort", "killed"}

\* The output is the text, whatever the encoding of the input and wherever the
\* buffer cuts a line.
SameText == pc = "done" => printed = FlattenSeq([k \in DOMAIN text |-> Utf8(text[k])])

\* A converted piece and the NUL behind it fit in utf8_buf, which is twice as
\* long as the buffer of the input.
k_utf8_buf_sz == 2 * k_encoded_buf_sz
PieceFits == last_j < k_utf8_buf_sz

\* The program has ended.
Ended == pc \in {"done", "failed", "abort", "killed"}
=============================================================================
