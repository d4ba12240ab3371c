------------------------------- MODULE Bytes -------------------------------
(***************************************************************************)
(* Numbers in a buffer (byteorder.hpp).  A buffer is a sequence of cells and  *)
(* offsets count from 0, as pointers do.  A cell is one byte of a number that  *)
(* was stored: the number, the bytes it was stored in, and which of them this  *)
(* is.  A load gives a number back when it reads the very bytes of one store;  *)
(* from any others it gives a number nobody stored, of its own for each place.  *)
(***************************************************************************)
EXTENDS Integers, Sequences, SequencesExt

Letters == <<"A", "B", "C", "D", "E", "F", "H", "I", "J", "L", "M", "O", "P", "Q", "R", "S", "T",
             "U", "X", "Z", "z">>

\* A character is the number of its byte; digits are apart from letters.
Char(c) == CHOOSE k \in DOMAIN Letters : Letters[k] = c
Space == 32
Zero == 48

\* Bytes nobody wrote to.
Blank(n) == [i \in 1 .. n |-> <<0, 0, 0>>]

Torn(at, width) == -1000 * (10 * at + width)

\* Most significant byte first.
LoadBe(buf, at, width) ==
  IF at + width <= Len(buf) /\ \A k \in 1 .. width : buf[at + k] = <<buf[at + 1][1], width, k>>
    THEN buf[at + 1][1]
    ELSE Torn(at, width)

StoreBe(buf, at, width, v) ==
  [i \in DOMAIN buf |-> IF i \in at + 1 .. at + width THEN <<v, width, i - at>> ELSE buf[i]]

\* One store after another, each an offset, a width and a number.  A memcpy of a
\* text is the store of the text.
Put(buf, stores) == FoldLeft(LAMBDA b, s : StoreBe(b, s[1], s[2], s[3]), buf, stores)
=============================================================================
