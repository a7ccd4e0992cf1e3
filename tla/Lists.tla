-------------------------------- MODULE Lists --------------------------------
(***************************************************************************)
(* Two things that Python does to lists: keeping those elements that pass, *)
(* in order, and sorting.  The standard SelectSeq and SortSeq do the same; *)
(* these are given what passes, and the order, as sets, so that what they  *)
(* return can be proved once.                                              *)
(***************************************************************************)
EXTENDS Integers, Sequences, FiniteSets

\* [x for x in s if x in S]
Those(s, S) ==
    LET those[n \in 0..Len(s)] ==
            IF n = 0 THEN <<>>
            ELSE IF s[n] \in S THEN Append(those[n - 1], s[n])
            ELSE those[n - 1]
    IN  those[Len(s)]

\* sorted(S): at each place the element that has as many before it.
Sorted(S, order) ==
    [i \in 1..Cardinality(S) |->
        CHOOSE a \in S : Cardinality({b \in S : <<b, a>> \in order}) = i - 1]

=============================================================================
