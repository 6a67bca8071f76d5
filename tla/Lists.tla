------------------------------- MODULE Lists -------------------------------
(***************************************************************************)
(* Lists as the code has them: slices that are put together and filtered   *)
(* in loops.  The loops are recursive functions, so that what they compute *)
(* can be proved for lists of any length (module Lists_proofs).            *)
(***************************************************************************)
EXTENDS Integers, Sequences

\* What is in a list.
Parts(s) == {s[i] : i \in 1..Len(s)}

\* The first n elements of s, or all if there are fewer.
Upto(s, n) == SubSeq(s, 1, IF Len(s) < n THEN Len(s) ELSE n)

\* The parts of s that are in T, in their order.
Only(s, T) ==
    LET kept[i \in 0..Len(s)] ==
            IF i = 0 THEN <<>>
            ELSE IF s[i] \in T THEN Append(kept[i - 1], s[i]) ELSE kept[i - 1]
    IN  kept[Len(s)]

\* The lists of a list, one after the other.
Joined(ss) ==
    LET joined[i \in 0..Len(ss)] == IF i = 0 THEN <<>> ELSE joined[i - 1] \o ss[i]
    IN  joined[Len(ss)]
=============================================================================
