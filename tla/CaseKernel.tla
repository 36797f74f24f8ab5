----------------------------- MODULE CaseKernel -----------------------------
(***************************************************************************)
(* What the RCPSP and EVRPTW search kernels share: the order they compare  *)
(* keys in, and how a round's proposals are cut out of a neighbourhood by  *)
(* the first word of the round's random tape.  A tape word is 64 bits wide *)
(* and pseudo-random: any word may come, so any rotation may.              *)
(***************************************************************************)
EXTENDS Integers, SequencesExt

(* The order of Python's tuples of one length. *)
LexLess(a, b) ==
  \E i \in DOMAIN a : a[i] < b[i] /\ \A j \in 1..i - 1 : a[j] = b[j]

(* tuple(dict.fromkeys(seq)): the first occurrence of every element. *)
Unique(seq) ==
  FoldLeft(LAMBDA kept, x : IF Contains(kept, x) THEN kept ELSE Append(kept, x),
           <<>>, seq)

(* The proposals of a round: its neighbourhood from some offset on, cut.   *)
Rotated(seq, word, cut) ==
  LET offset == word % Len(seq)
      turned == SubSeq(seq, offset + 1, Len(seq)) \o SubSeq(seq, 1, offset)
  IN  SubSeq(turned, 1, IF cut < Len(seq) THEN cut ELSE Len(seq))
=============================================================================
