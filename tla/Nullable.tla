------------------------------ MODULE Nullable ------------------------------
(* Columns that may be empty, and sums over the rows of a table.             *)
EXTENDS Naturals, FiniteSets, Functions

CONSTANT NULL  \* what a nullable column holds when it holds nothing

\* SELECT COALESCE(MAX(...),0)+1 over a set of numbers.
NextNumber(numbers) ==
    1 + CHOOSE n \in {0} \cup numbers : \A m \in numbers : m <= n

\* R leads from the elements of S to nowhere else.
Leads(R, S) == \A e \in R : e[1] \in S => e[2] \in S

\* x and all that R leads to from it within D: the least set of that kind.
From(R, x, D) ==
    {y \in D : \A S \in SUBSET D : x \in S /\ Leads(R, S) => y \in S}

\* R has no cycle within D.
Acyclic(R, D) ==
    \A S \in (SUBSET D) \ {{}} : \E x \in S : \A y \in S : <<x, y>> \notin R
=============================================================================
