----------------------------- MODULE MatrixHash -----------------------------
(***************************************************************************)
(* How a hash becomes one column and one sign per row of a matrix sketch   *)
(* (common/storage/matrix_storage.go and the column slicing of             *)
(* CountMinSketch).  The code has 64-bit words; WordBits is their width    *)
(* here.  A word is a natural number below 2^WordBits, and a hash function *)
(* is a record of what it returns for one key.                             *)
(***************************************************************************)
EXTENDS Integers, Sequences

CONSTANT WordBits  \* width of a machine word (64)

ASSUME WordAssumption == WordBits \in Nat \ {0}

Word == 0..(2^WordBits - 1)

(* What the hash functions give for one key: HashIt and Hash128It of its   *)
(* bytes, and HashIt with the seeds of the rows after the first.           *)
KeyHash == [hash : Word, hi : Word, lo : Word, seeded : Seq(Word)]

Bits(w, shift, n) == (w \div 2^shift) % 2^n

(* The least b > 0 with cols <= 2^b.                                       *)
maskBitsForCols(cols) ==
  CHOOSE b \in 1..WordBits : cols <= 2^b /\ (b = 1 \/ cols > 2^(b-1))

(* Mutant: the sign bits are forgotten.                                    *)
HashModeWithoutSigns(rows, cols) ==
  LET bitsRequired == rows * maskBitsForCols(cols)
  IN  IF bitsRequired <= WordBits THEN "packed64"
      ELSE IF bitsRequired <= 2 * WordBits THEN "packed128"
      ELSE "rows"

HashModeForMatrix(rows, cols) ==
  LET bitsRequired == rows * (maskBitsForCols(cols) + 1)  \* and a sign bit
  IN  IF bitsRequired <= WordBits THEN "packed64"
      ELSE IF bitsRequired <= 2 * WordBits THEN "packed128"
      ELSE "rows"

(* BuildMatrixHashFromInput: what Update, UpdateWeight and Estimate use.   *)
BuildMatrixHashFromInput(k, rows, cols) ==
  LET mode == HashModeForMatrix(rows, cols) IN
  [mode |-> mode,
   bits |-> CASE mode = "packed64"  -> k.hash
              [] mode = "packed128" -> k.hi * 2^WordBits + k.lo
              [] mode = "rows"      -> 0,
   rows |-> IF mode = "rows" THEN <<k.hash>> \o k.seeded ELSE << >>]

(* Rows are numbered from 0, as in the code.                               *)
RowHash(m, row, maskBits) ==
  IF m.mode = "rows" THEN Bits(m.rows[row+1], 0, maskBits)
                     ELSE Bits(m.bits, maskBits * row, maskBits)

SignForRow(m, row) ==
  LET bit == CASE m.mode = "packed64"  -> Bits(m.bits, WordBits - 1 - row, 1)
               [] m.mode = "packed128" -> Bits(m.bits, 2*WordBits - 1 - row, 1)
               [] m.mode = "rows"      -> Bits(m.rows[row+1], WordBits - 1, 1)
  IN  IF bit = 0 THEN -1 ELSE 1

(* The column Count-Min's Update and Estimate touch in a row ...           *)
MatrixCol(k, row, rows, cols) ==
  RowHash(BuildMatrixHashFromInput(k, rows, cols), row,
          maskBitsForCols(cols)) % cols

(* ... and the one ProcessInput, InsertWithHash and ColForRow slice out of *)
(* SketchInput.Hash, whatever the dimensions.                              *)
deriveIndex(k, row, cols) ==
  LET bitsPerRow == IF cols <= 1 THEN 0 ELSE maskBitsForCols(cols)
  IN  Bits(k.hash, row * bitsPerRow, bitsPerRow) % cols
=============================================================================
