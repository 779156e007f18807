----------------------------- MODULE MCIdUtils -----------------------------
(* IdUtils with halves of four bits and three digit characters.            *)
EXTENDS IdUtils, Bitwise

BitXor(a, b) == a ^^ b

\* A round function that is not one to one.
Mix(a, k) == ((a ^^ k) * 7 + (a ^^ k) \div 4) % HalfSize

Keys == [i \in 1 .. 6 |-> (11 * i + 3) % HalfSize]
=============================================================================
