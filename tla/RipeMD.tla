------------------------------- MODULE RipeMD -------------------------------
(***************************************************************************)
(* RIPEMD-160 as scripts/gen_founder_key.py computes it, because OpenSSL 3 *)
(* no longer does: one step of both lines at a time.  A word is its 32     *)
(* bits, by weight.                                                        *)
(***************************************************************************)
EXTENDS Integers, Sequences

VARIABLES vector,         \* the self-test vector that is hashed
          chaining,       \* h
          left, right,    \* a, b, c, d, e and ap, bp, cp, dp, ep
          offset, step    \* of the block, and of the step in it

hashVars == <<vector, chaining, left, right, offset, step>>

Bit == 0 .. 31

\* The word of two halves.
W(hi, lo) == [i \in Bit |-> ((IF i < 16 THEN lo ELSE hi) \div 2 ^ (i % 16)) % 2]

\* (x + y) & _MASK
Plus(x, y) ==
  LET carry[i \in 0 .. 32] == IF i = 0 THEN 0
                              ELSE IF x[i - 1] = y[i - 1] THEN x[i - 1] ELSE carry[i - 1]
  IN  [i \in Bit |-> (x[i] + y[i] + carry[i]) % 2]

_rol(x, n) == [i \in Bit |-> x[(i - n) % 32]]

_rmd_f(rnd, x, y, z) ==
  [i \in Bit |->
     CASE rnd = 0 -> (x[i] + y[i] + z[i]) % 2
       [] rnd = 1 -> IF x[i] = 1 THEN y[i] ELSE z[i]
       [] rnd = 2 -> (z[i] + (IF x[i] = 1 \/ y[i] = 0 THEN 1 ELSE 0)) % 2
       [] rnd = 3 -> IF z[i] = 1 THEN x[i] ELSE y[i]
       [] rnd = 4 -> (x[i] + (IF y[i] = 1 \/ z[i] = 0 THEN 1 ELSE 0)) % 2]

_RMD_R == << <<0, 1, 2, 3, 4, 5, 6, 7, 8, 9, 10, 11, 12, 13, 14, 15>>,
             <<7, 4, 13, 1, 10, 6, 15, 3, 12, 0, 9, 5, 2, 14, 11, 8>>,
             <<3, 10, 14, 4, 9, 15, 8, 1, 2, 7, 0, 6, 13, 11, 5, 12>>,
             <<1, 9, 11, 10, 0, 8, 12, 4, 13, 3, 7, 15, 14, 5, 6, 2>>,
             <<4, 0, 5, 9, 7, 12, 2, 10, 14, 1, 3, 8, 11, 6, 15, 13>> >>
_RMD_RP == << <<5, 14, 7, 0, 9, 2, 11, 4, 13, 6, 15, 8, 1, 10, 3, 12>>,
              <<6, 11, 3, 7, 0, 13, 5, 10, 14, 15, 8, 12, 4, 9, 1, 2>>,
              <<15, 5, 1, 3, 7, 14, 6, 9, 11, 8, 12, 2, 10, 0, 4, 13>>,
              <<8, 6, 4, 1, 3, 11, 15, 0, 5, 12, 2, 13, 9, 7, 10, 14>>,
              <<12, 15, 10, 4, 1, 5, 8, 7, 6, 2, 13, 14, 0, 3, 9, 11>> >>
_RMD_S == << <<11, 14, 15, 12, 5, 8, 7, 9, 11, 13, 14, 15, 6, 7, 9, 8>>,
             <<7, 6, 8, 13, 11, 9, 7, 15, 7, 12, 15, 9, 11, 7, 13, 12>>,
             <<11, 13, 6, 7, 14, 9, 13, 15, 14, 8, 13, 6, 5, 12, 7, 5>>,
             <<11, 12, 14, 15, 14, 15, 9, 8, 9, 14, 5, 6, 8, 6, 5, 12>>,
             <<9, 15, 5, 11, 6, 8, 13, 12, 5, 12, 13, 14, 11, 8, 5, 6>> >>
_RMD_SP == << <<8, 9, 9, 11, 13, 15, 15, 5, 7, 7, 8, 11, 14, 14, 12, 6>>,
              <<9, 13, 15, 7, 12, 8, 9, 11, 7, 7, 12, 7, 6, 15, 13, 11>>,
              <<9, 7, 15, 11, 8, 6, 6, 14, 12, 13, 5, 14, 13, 13, 7, 5>>,
              <<15, 5, 8, 11, 14, 14, 6, 14, 6, 9, 12, 9, 12, 5, 15, 8>>,
              <<8, 5, 12, 9, 12, 5, 14, 6, 8, 13, 6, 5, 15, 13, 11, 11>> >>
_RMD_K == <<W(0, 0), W(23170, 31129), W(28377, 60321), W(36635, 48348), W(43347, 64846)>>
_RMD_KP == <<W(20642, 35814), W(23629, 53540), W(28016, 16115), W(31341, 30441), W(0, 0)>>

\* What a hash starts from.
IV == <<W(26437, 8961), W(61389, 43913), W(39098, 56574), W(4146, 21622), W(50130, 57840)>>

\* 0x80, zeros to 56 mod 64, and the length in bits.  (No text here has 2^16.)
Padded(data) ==
  data \o <<128>> \o [i \in 1 .. (55 - Len(data)) % 64 |-> 0]
       \o <<(8 * Len(data)) % 256, (8 * Len(data)) \div 256, 0, 0, 0, 0, 0, 0>>

\* Little-endian words of a block, and bytes of a word.
WordAt(msg, at) == W(256 * msg[at + 4] + msg[at + 3], 256 * msg[at + 2] + msg[at + 1])
ByteOf(w, k) == LET b[i \in 0 .. 8] == IF i = 0 THEN 0
                                       ELSE b[i - 1] + (w[8 * k + i - 1] * 2 ^ (i - 1))
                IN  b[8]
Digest(h) == [i \in 1 .. 20 |-> ByteOf(h[((i - 1) \div 4) + 1], (i - 1) % 4)]

\* One step of a line: rnd of the function, and the tables of the line.
Line(v, rnd, f, R, S, K, msg) ==
  LET j == (step % 16) + 1
      t == Plus(Plus(v[1], _rmd_f(f, v[2], v[3], v[4])),
                Plus(WordAt(msg, offset + (4 * R[rnd + 1][j])), K[rnd + 1]))
  IN  <<v[5], Plus(_rol(t, S[rnd + 1][j]), v[5]), v[2], _rol(v[3], 10), v[4]>>

\* A mutant: the right line runs through the functions in the order of the left.
RightOrder_Same(rnd) == rnd
RightOrder(rnd) == 4 - rnd

-----------------------------------------------------------------------------
\* The published vectors that the self-test holds it to.
Vectors ==
 << [data |-> <<>>, digest |-> <<156,17,133,165,197,233,252,84,97,40,8,151,126,232,245,72,178,37,141,49>>],
    [data |-> <<97>>, digest |-> <<11,220,157,45,37,107,62,233,218,174,52,123,230,244,220,131,90,70,127,254>>],
    [data |-> <<97, 98, 99>>,
     digest |-> <<142,178,8,247,224,93,152,122,155,4,74,142,152,198,176,135,241,90,11,252>>],
    [data |-> <<109,101,115,115,97,103,101,32,100,105,103,101,115,116>>,
     digest |-> <<93,6,137,239,73,210,250,229,114,184,129,177,35,168,95,250,33,89,95,54>>],
    [data |-> [i \in 1 .. 26 |-> 96 + i],
     digest |-> <<247,28,39,16,156,105,44,27,86,187,220,235,91,157,40,101,179,112,141,188>>],
    [data |-> [i \in 1 .. 80 |-> 48 + (i % 10)],
     digest |-> <<155,117,46,69,87,61,75,57,244,219,211,50,60,171,130,191,99,50,107,251>>] >>

Message == Padded(Vectors[vector].data)

HashInit ==
  /\ vector \in DOMAIN Vectors
  /\ chaining = IV /\ left = IV /\ right = IV
  /\ offset = 0 /\ step = 0

HashStep ==
  /\ offset < Len(Message) /\ step < 80
  /\ LET rnd == step \div 16 IN
       /\ left' = Line(left, rnd, rnd, _RMD_R, _RMD_S, _RMD_K, Message)
       /\ right' = Line(right, rnd, RightOrder(rnd), _RMD_RP, _RMD_SP, _RMD_KP, Message)
  /\ step' = step + 1
  /\ UNCHANGED <<vector, chaining, offset>>

\* The end of a block.
HashBlock ==
  /\ step = 80
  /\ LET h == [i \in 1 .. 5 |->
                 Plus(Plus(chaining[(i % 5) + 1], left[((i + 1) % 5) + 1]),
                      right[((i + 2) % 5) + 1])]
     IN  chaining' = h /\ left' = h /\ right' = h
  /\ offset' = offset + 64 /\ step' = 0
  /\ UNCHANGED vector

HashNext == HashStep \/ HashBlock

-----------------------------------------------------------------------------
\* The hash that every address is made of is the published one.
DigestsAgree == offset = Len(Message) => Digest(chaining) = Vectors[vector].digest
=============================================================================
