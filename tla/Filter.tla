------------------------------- MODULE Filter -------------------------------
(***************************************************************************)
(* Array.prototype.filter as a recursive function.  SelectSeq takes an     *)
(* operator as its argument and has no definition the provers can expand.  *)
(***************************************************************************)
EXTENDS Integers, Sequences

\* What is left of s when only the members of S stay, in their order.
Keep(s, S) ==
  LET upTo[n \in 0 .. Len(s)] ==
        IF n = 0 THEN << >>
        ELSE IF s[n] \in S THEN Append(upTo[n - 1], s[n]) ELSE upTo[n - 1]
  IN upTo[Len(s)]
=============================================================================
