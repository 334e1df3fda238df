----------------------------- MODULE Selections ------------------------------
(***************************************************************************)
(* What Observers and ModelAdapters say of lists and counters.  They are   *)
(* written so that they can be reasoned about: as a recursive function,    *)
(* and without going through the arguments of a function one by one.       *)
(***************************************************************************)
EXTENDS Naturals, Sequences, FiniteSets

\* The elements of s that are in S, in their order.
Selected(s, S) ==
    LET Until[n \in 0..Len(s)] ==
            IF n = 0 THEN <<>>
            ELSE IF s[n] \in S THEN Append(Until[n - 1], s[n]) ELSE Until[n - 1]
    IN  Until[Len(s)]

\* The sum of the natural numbers f takes: a pair for every unit of a value.
Units(f) == UNION {{x} \X (1..f[x]) : x \in DOMAIN f}
Total(f) == Cardinality(Units(f))
=============================================================================
