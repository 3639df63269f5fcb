------------------------------- MODULE SeqNo -------------------------------
(***************************************************************************)
(* The arithmetic of RTP sequence numbers (seqno.go).  A seqno is a uint16 *)
(* that wraps around; seqnoDelta compares two of them and treats the two   *)
(* ends of the range, Guard numbers wide each, as neighbours.              *)
(*                                                                         *)
(* In the code Modulus is 65536 and Guard (seqnoguard) is 8192.            *)
(***************************************************************************)
EXTENDS Integers

CONSTANTS Modulus,  \* number of values of the seqno type
          Guard     \* seqnoguard: width of the zones next to the wrap

ASSUME SeqNoAssumption ==
  /\ Modulus \in Nat
  /\ Guard \in Nat \ {0}
  /\ 3 * Guard <= Modulus   \* the zones are further apart than they are wide

SeqNos == 0 .. (Modulus - 1)

(***************************************************************************)
(* uint16 addition, for n at most Modulus, and the uint16 difference: how  *)
(* many times from++ has to be executed to reach to.                       *)
(***************************************************************************)
PlusWide(sn, n) == sn + n                       \* mutant: does not wrap

Plus(sn, n) == IF sn + n >= Modulus THEN sn + n - Modulus ELSE sn + n

Dist(from, to) == IF to >= from THEN to - from ELSE to - from + Modulus

(***************************************************************************)
(* seqnoDelta(a, b): negative when a is behind b, positive when it is      *)
(* ahead of it.                                                            *)
(***************************************************************************)
SeqnoDeltaFlat(a, b) == a - b                   \* mutant: ignores the wrap

SeqnoDelta(a, b) ==
  IF a < Guard /\ b > Modulus - Guard THEN a - b + Modulus
  ELSE IF b < Guard /\ a > Modulus - Guard THEN a - b - Modulus
  ELSE a - b

(***************************************************************************)
(* The seqno of the packet at position i of the stream the source sends.   *)
(* Positions never wrap; they are what the seqnos stand for.               *)
(***************************************************************************)
SeqnoAt(i) == i % Modulus

=============================================================================
