------------------------------ MODULE IdUtils ------------------------------
(***************************************************************************)
(* Ids as strings (utils/IdUtils.cpp): an id of two halves of a word is    *)
(* enciphered by a Feistel network of six rounds and written with six      *)
(* digits.  The size of a half (2^16 in the code), the base (62) and the   *)
(* round function are parameters: that decoding is the inverse of encoding *)
(* rests on none of them, only on the digits being enough.                 *)
(***************************************************************************)
EXTENDS Integers, Sequences

CONSTANTS
  HalfSize,      \* number of values of a half
  Base,          \* number of digit characters
  XorHalf(_, _), \* of two halves
  F(_, _),       \* the round function, of a half and a round key
  RoundKey       \* round -> key

Half == 0 .. HalfSize - 1
Modulus == HalfSize * HalfSize
Id == 0 .. Modulus - 1

ASSUME IdAssumption ==
  /\ HalfSize \in Nat \ {0}
  /\ Base \in Nat /\ Base > 1
  /\ Modulus <= Base * Base * Base * Base * Base * Base
  /\ RoundKey \in [1 .. 6 -> Half]
  /\ \A a, b \in Half : XorHalf(a, b) \in Half /\ XorHalf(XorHalf(a, b), b) = a
  /\ \A a, k \in Half : F(a, k) \in Half

----------------------------------------------------------------------------
(***************************************************************************)
(* The Feistel network                                                     *)
(***************************************************************************)

Split(x) == <<x \div HalfSize, x % HalfSize>>
Join(h) == h[1] * HalfSize + h[2]

Round(i, h) == <<h[2], XorHalf(h[1], F(h[2], RoundKey[i]))>>
Unround(i, h) == <<XorHalf(h[2], F(h[1], RoundKey[i])), h[1]>>

Encrypt(x) == Join(Round(6, Round(5, Round(4, Round(3, Round(2, Round(1, Split(x))))))))

\* Mutant: the round keys are taken in the order of encryption.
Decrypt_SameOrder(x) ==
  Join(Unround(6, Unround(5, Unround(4, Unround(3, Unround(2, Unround(1, Split(x))))))))

Decrypt(x) == Join(Unround(1, Unround(2, Unround(3, Unround(4, Unround(5, Unround(6, Split(x))))))))

----------------------------------------------------------------------------
(***************************************************************************)
(* Digits.  A character is the position at which it is found in            *)
(* kBase62Chars; Base is the NUL that ends that array, which the search    *)
(* includes, and a greater number a character that is not in it.           *)
(***************************************************************************)

\* What is left of a value after n divisions by the base.
Quotient(v, n) ==
  LET q[i \in 0 .. 6] == IF i = 0 THEN v ELSE q[i - 1] \div Base
  IN  q[n]

\* Six digits, but none for zero.
ToChars(v) == IF v = 0 THEN << >> ELSE [i \in 1 .. 6 |-> Quotient(v, 6 - i) % Base]

FromChars(chars) ==
  LET value[i \in 0 .. Len(chars)] ==
        IF i = 0 THEN 0 ELSE (value[i - 1] * Base + chars[i]) % Modulus
  IN  IF \E i \in DOMAIN chars : chars[i] > Base THEN 0 ELSE value[Len(chars)]

EncodeStringId(x) == ToChars(Encrypt(x))

DecodeStringId(chars) == Decrypt(FromChars(chars))

----------------------------------------------------------------------------
(***************************************************************************)
(* Ids are counted up from anywhere, as ++lastNodeId does, past the end of *)
(* their range.                                                            *)
(***************************************************************************)

VARIABLE id

Init == id \in Id
Next == id' = (id + 1) % Modulus
Spec == Init /\ [][Next]_id

\* Every id comes back from its string, the one whose string is empty and the
\* ends of the range included: so no two ids have the same string.
RoundTrip == DecodeStringId(EncodeStringId(id)) = id
=============================================================================
