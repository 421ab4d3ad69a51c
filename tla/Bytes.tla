------------------------------- MODULE Bytes -------------------------------
(***************************************************************************)
(* Byte strings as Python's struct and slices treat them, and the list of  *)
(* type, length and value that PFCP, GTP-C, S1AP and NAS share.  A string  *)
(* of text is the sequence of its character codes, an IPv4 address its     *)
(* four numbers.                                                           *)
(***************************************************************************)
EXTENDS Naturals, Sequences, SequencesExt

(* struct.pack: n in w bytes, the highest first.  TLC's numbers end before *)
(* the fifth byte begins.                                                  *)
U(n, w) == [i \in 1..w |-> IF w - i > 3 THEN 0 ELSE (n \div 256^(w - i)) % 256]

(* struct.unpack, int.from_bytes *)
Num(b) ==
    LET Upto[i \in 0..Len(b)] == IF i = 0 THEN 0 ELSE 256 * Upto[i - 1] + b[i]
    IN  Upto[Len(b)]

(* b[i:j]: from 0, and cut at the end of b. *)
Slice(b, i, j) == SubSeq(b, i + 1, Min({j, Len(b)}))

Zeros(n) == [i \in 1..n |-> 0]

---------------------------------------------------------------------------
(* An information element, and lists of them with tw bytes of type and lw  *)
(* of length.                                                              *)
Ie(t, v) == [t |-> t, v |-> v]

EncodeIes(tw, lw, ies) ==
    FlattenSeq([i \in DOMAIN ies |-> U(ies[i].t, tw) \o U(Len(ies[i].v), lw) \o ies[i].v])

DecodeIes(tw, lw, data) ==
    LET n == Len(data)
        h == tw + lw
        From[i \in 0..n] ==
            IF i + h > n THEN <<>>
            ELSE LET l == Num(Slice(data, i + tw, i + h))
                 IN  <<Ie(Num(Slice(data, i, i + tw)), Slice(data, i + h, i + h + l))>>
                     \o From[Min({n, i + h + l})]
    IN  From[0]

GetAll(ies, t) == SelectSeq(ies, LAMBDA ie : ie.t = t)

(* The first of a type.  No caller tells a missing element from an empty one. *)
First(found) == IF found = <<>> THEN <<>> ELSE found[1].v
Get(ies, t) == First(GetAll(ies, t))
=============================================================================
