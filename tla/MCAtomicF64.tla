---------------------------- MODULE MCAtomicF64 ----------------------------
(***************************************************************************)
(* AtomicF64 with integers for the finite values, whose sums are exact up  *)
(* to MaxFinite and overflow to an infinity beyond it.                     *)
(***************************************************************************)
EXTENDS AtomicF64, Integers

CONSTANTS NaN, PosInf, NegInf, MaxFinite, a, b, c

Finite   == -MaxFinite..MaxFinite
Infinite == {PosInf, NegInf}
AllF64   == Finite \cup Infinite \cup {NaN}

IeeePlus(x, y) ==
  CASE x = NaN \/ y = NaN -> NaN
    [] x \in Infinite /\ y \in Infinite -> IF x = y THEN x ELSE NaN
    [] x \in Infinite -> x
    [] y \in Infinite -> y
    [] x + y > MaxFinite -> PosInf
    [] x + y < -MaxFinite -> NegInf
    [] OTHER -> x + y

\* Overflows and infinities of both signs, NaN among them.
MixedDeltas == [t \in Threads |->
                  CASE t = a -> <<1, NaN>> [] t = b -> <<PosInf, -1>>
                    [] t = c -> <<NegInf>>]
=============================================================================
