------------------------ MODULE PureFunctions_proofs ------------------------
(***************************************************************************)
(* The algorithms on plain data.  Every id comes back from its string,     *)
(* whatever the size of a half, the base, the round function and the keys. *)
(* Drawing writes every pixel it should and none beyond the memory of a    *)
(* bitmap, whatever its size.  What the codecs of attributes write they    *)
(* read back, whatever the base of the digits and the greatest float.      *)
(***************************************************************************)
EXTENDS IdUtils, AttrCodecs, Drawing, SequenceTheorems, TLAPS

Halves == Half \X Half

----------------------------------------------------------------------------
(***************************************************************************)
(* Division                                                                *)
(***************************************************************************)

\* Quotient and remainder make up the value.
LEMMA DivisionParts ==
  ASSUME NEW b \in Nat \ {0}, NEW v \in Nat
  PROVE  /\ (v \div b) * b + (v % b) = v
         /\ v \div b \in Nat
         /\ v % b \in 0 .. b - 1
  BY SMT

\* A value below a product has a quotient below the other factor.
LEMMA QuotientBound ==
  ASSUME NEW b \in Nat, b > 1, NEW c \in Nat, NEW v \in Nat, v < c * b
  PROVE  v \div b < c
  BY SMTT(30)

\* A value that is given by its parts has these parts.
LEMMA PartsUnique ==
  ASSUME NEW b \in Nat \ {0}, NEW q \in Nat, NEW r \in 0 .. b - 1
  PROVE  /\ (q * b + r) \div b = q
         /\ (q * b + r) % b = r
  BY SMTT(30)

----------------------------------------------------------------------------
(***************************************************************************)
(* The Feistel network                                                     *)
(***************************************************************************)

\* Splitting an id and joining the halves again.
LEMMA JoinSplit == \A x \in Id : Split(x) \in Halves /\ Join(Split(x)) = x
<1> SUFFICES ASSUME NEW x \in Id
             PROVE  Split(x) \in Halves /\ Join(Split(x)) = x
    OBVIOUS
<1> HalfSize \in Nat \ {0}
    BY IdAssumption
<1>1. x \in Nat /\ x < HalfSize * HalfSize
    BY DEF Id, Modulus
<1>2. /\ (x \div HalfSize) * HalfSize + (x % HalfSize) = x
      /\ x \div HalfSize \in Nat
      /\ x % HalfSize \in 0 .. HalfSize - 1
    BY <1>1, DivisionParts
<1>3. x \div HalfSize < HalfSize
  <2>1. CASE HalfSize = 1
    BY <2>1, <1>1, <1>2
  <2>2. CASE HalfSize > 1
    BY <2>2, <1>1, QuotientBound
  <2> QED BY <2>1, <2>2
<1> QED BY <1>2, <1>3 DEF Split, Join, Halves, Half

\* Joining two halves and splitting the id again.
LEMMA SplitJoin == \A h \in Halves : Join(h) \in Id /\ Split(Join(h)) = h
<1> SUFFICES ASSUME NEW a \in Half, NEW b \in Half
             PROVE  Join(<<a, b>>) \in Id /\ Split(Join(<<a, b>>)) = <<a, b>>
    BY DEF Halves
<1> HalfSize \in Nat \ {0}
    BY IdAssumption
<1>1. a \in Nat /\ b \in 0 .. HalfSize - 1 /\ a <= HalfSize - 1
    BY DEF Half
<1>2. /\ (a * HalfSize + b) \div HalfSize = a
      /\ (a * HalfSize + b) % HalfSize = b
    BY <1>1, PartsUnique
<1>3. a * HalfSize + b \in 0 .. HalfSize * HalfSize - 1
    BY <1>1, SMTT(30)
<1> QED BY <1>2, <1>3 DEF Split, Join, Id, Modulus

\* A round and its inverse.
LEMMA RoundInverts ==
  ASSUME NEW i \in 1 .. 6, NEW h \in Halves
  PROVE  Round(i, h) \in Halves /\ Unround(i, Round(i, h)) = h
<1>1. h[1] \in Half /\ h[2] \in Half /\ h = <<h[1], h[2]>>
    BY DEF Halves
<1>2. F(h[2], RoundKey[i]) \in Half
    BY <1>1, IdAssumption
<1>3. /\ XorHalf(h[1], F(h[2], RoundKey[i])) \in Half
      /\ XorHalf(XorHalf(h[1], F(h[2], RoundKey[i])), F(h[2], RoundKey[i])) = h[1]
    BY <1>1, <1>2, IdAssumption
<1> QED BY <1>1, <1>3 DEF Round, Unround, Halves

\* Decryption is the inverse of encryption: six rounds undone in reverse order.
LEMMA DecryptInverts == \A x \in Id : Encrypt(x) \in Id /\ Decrypt(Encrypt(x)) = x
<1> SUFFICES ASSUME NEW x \in Id
             PROVE  Encrypt(x) \in Id /\ Decrypt(Encrypt(x)) = x
    OBVIOUS
<1> DEFINE h0 == Split(x)
           h1 == Round(1, h0)
           h2 == Round(2, h1)
           h3 == Round(3, h2)
           h4 == Round(4, h3)
           h5 == Round(5, h4)
           h6 == Round(6, h5)
<1>0. h0 \in Halves
    BY JoinSplit
<1> HIDE DEF h0
<1>1. h1 \in Halves /\ Unround(1, h1) = h0
    BY <1>0, RoundInverts
<1> HIDE DEF h1
<1>2. h2 \in Halves /\ Unround(2, h2) = h1
    BY <1>1, RoundInverts
<1> HIDE DEF h2
<1>3. h3 \in Halves /\ Unround(3, h3) = h2
    BY <1>2, RoundInverts
<1> HIDE DEF h3
<1>4. h4 \in Halves /\ Unround(4, h4) = h3
    BY <1>3, RoundInverts
<1> HIDE DEF h4
<1>5. h5 \in Halves /\ Unround(5, h5) = h4
    BY <1>4, RoundInverts
<1> HIDE DEF h5
<1>6. h6 \in Halves /\ Unround(6, h6) = h5
    BY <1>5, RoundInverts
<1> HIDE DEF h6
<1>7. Encrypt(x) = Join(h6)
    BY DEF Encrypt, h0, h1, h2, h3, h4, h5, h6
<1>8. Encrypt(x) \in Id /\ Split(Encrypt(x)) = h6
    BY <1>6, <1>7, SplitJoin
<1>9. Decrypt(Encrypt(x)) = Join(h0)
    BY <1>1, <1>2, <1>3, <1>4, <1>5, <1>6, <1>8 DEF Decrypt
<1> QED BY <1>8, <1>9, JoinSplit DEF h0

----------------------------------------------------------------------------
(***************************************************************************)
(* Digits                                                                  *)
(***************************************************************************)

\* The definition of Quotient, without recursion.
LEMMA QuotientSteps ==
  ASSUME NEW v \in Nat
  PROVE  /\ Quotient(v, 0) = v
         /\ \A n \in 0 .. 5 : Quotient(v, n + 1) = Quotient(v, n) \div Base
         /\ \A n \in 0 .. 6 : Quotient(v, n) \in Nat
<1> Base \in Nat \ {0}
    BY IdAssumption
<1> DEFINE q1 == v \div Base
           q2 == q1 \div Base
           q3 == q2 \div Base
           q4 == q3 \div Base
           q5 == q4 \div Base
           q6 == q5 \div Base
           g == [i \in 0 .. 6 |-> CASE i = 0 -> v [] i = 1 -> q1 [] i = 2 -> q2 [] i = 3 -> q3
                                    [] i = 4 -> q4 [] i = 5 -> q5 [] OTHER -> q6]
           q[i \in 0 .. 6] == IF i = 0 THEN v ELSE q[i - 1] \div Base
<1>1. g = [i \in 0 .. 6 |-> IF i = 0 THEN v ELSE g[i - 1] \div Base]
  <2>1. g[0] = v /\ g[1] = q1 /\ g[2] = q2 /\ g[3] = q3 /\ g[4] = q4 /\ g[5] = q5 /\ g[6] = q6
    BY DEF g
  <2>2. \A i \in 0 .. 6 : i \in {0, 1, 2, 3, 4, 5, 6}
    BY SMT
  <2>3. ASSUME NEW i \in 0 .. 6
        PROVE  g[i] = IF i = 0 THEN v ELSE g[i - 1] \div Base
    <3> HIDE DEF g
    <3> QED BY <2>1, <2>2
  <2> QED BY <2>3 DEF g
<1>2. q = [i \in 0 .. 6 |-> IF i = 0 THEN v ELSE q[i - 1] \div Base]
    BY <1>1 DEF q
<1>3. \A n : Quotient(v, n) = q[n]
    BY DEF Quotient, q
<1> HIDE DEF q, g
<1>4. q[0] = v
    BY <1>2
<1>5. \A n \in 0 .. 5 : q[n + 1] = q[n] \div Base
  <2> SUFFICES ASSUME NEW n \in 0 .. 5 PROVE q[n + 1] = q[n] \div Base
      OBVIOUS
  <2>1. n + 1 \in 0 .. 6 /\ n + 1 # 0 /\ (n + 1) - 1 = n
      BY SMT
  <2> QED BY <1>2, <2>1
<1>6. q[1] \in Nat /\ q[2] \in Nat /\ q[3] \in Nat /\ q[4] \in Nat /\ q[5] \in Nat /\ q[6] \in Nat
  <2>0. q[1] = q[0] \div Base /\ q[2] = q[1] \div Base /\ q[3] = q[2] \div Base
        /\ q[4] = q[3] \div Base /\ q[5] = q[4] \div Base /\ q[6] = q[5] \div Base
      BY <1>5, SMT
  <2>1. q[1] \in Nat
      BY <2>0, <1>4, DivisionParts
  <2>2. q[2] \in Nat
      BY <2>0, <2>1, DivisionParts
  <2>3. q[3] \in Nat
      BY <2>0, <2>2, DivisionParts
  <2>4. q[4] \in Nat
      BY <2>0, <2>3, DivisionParts
  <2>5. q[5] \in Nat
      BY <2>0, <2>4, DivisionParts
  <2> QED BY <2>0, <2>1, <2>2, <2>3, <2>4, <2>5, DivisionParts
<1>7. \A n \in 0 .. 6 : q[n] \in Nat
  <2>1. \A n \in 0 .. 6 : n \in {0, 1, 2, 3, 4, 5, 6}
      BY SMT
  <2> QED BY <2>1, <1>4, <1>6
<1> QED BY <1>3, <1>4, <1>5, <1>7

\* A quotient is not above the value, and six divisions of an id leave nothing.
LEMMA QuotientEnds ==
  ASSUME NEW v \in Id
  PROVE  /\ Quotient(v, 6) = 0
         /\ \A n \in 0 .. 6 : Quotient(v, n) \in Id
<1> Base \in Nat /\ Base > 1
    BY IdAssumption
<1> HalfSize \in Nat \ {0}
    BY IdAssumption
<1>0. v \in Nat /\ v < Base * Base * Base * Base * Base * Base
  <2>1. v \in Nat /\ v < Modulus /\ Modulus \in Nat
      BY SMT DEF Id, Modulus
  <2>2. Modulus <= Base * Base * Base * Base * Base * Base
      BY IdAssumption
  <2>3. Base * Base * Base * Base * Base * Base \in Nat
      BY SMT
  <2> HIDE DEF Modulus
  <2> DEFINE top == Base * Base * Base * Base * Base * Base
  <2>4. v < top
    <3>1. top \in Nat /\ Modulus <= top
        BY <2>2, <2>3
    <3> HIDE DEF top
    <3> QED BY <2>1, <3>1
  <2> QED BY <2>1, <2>4
<1> DEFINE q(n) == Quotient(v, n)
           b2 == Base * Base
           b3 == b2 * Base
           b4 == b3 * Base
           b5 == b4 * Base
<1>q. /\ q(0) = v
      /\ q(1) = q(0) \div Base /\ q(2) = q(1) \div Base /\ q(3) = q(2) \div Base
      /\ q(4) = q(3) \div Base /\ q(5) = q(4) \div Base /\ q(6) = q(5) \div Base
      /\ \A n \in 0 .. 6 : q(n) \in Nat
  <2>1. /\ q(0) = v
        /\ \A n \in 0 .. 5 : q(n + 1) = q(n) \div Base
        /\ \A n \in 0 .. 6 : q(n) \in Nat
      BY <1>0, QuotientSteps
  <2> HIDE DEF q
  <2>2. /\ q(0 + 1) = q(0) \div Base /\ q(1 + 1) = q(1) \div Base /\ q(2 + 1) = q(2) \div Base
        /\ q(3 + 1) = q(3) \div Base /\ q(4 + 1) = q(4) \div Base /\ q(5 + 1) = q(5) \div Base
      BY <2>1
  <2>3. 0 + 1 = 1 /\ 1 + 1 = 2 /\ 2 + 1 = 3 /\ 3 + 1 = 4 /\ 4 + 1 = 5 /\ 5 + 1 = 6
      BY SMT
  <2> QED BY <2>1, <2>2, <2>3
<1> HIDE DEF q
<1>n. q(0) \in Nat /\ q(1) \in Nat /\ q(2) \in Nat /\ q(3) \in Nat /\ q(4) \in Nat /\ q(5) \in Nat
      /\ q(6) \in Nat
    BY <1>q
<1>b. b2 \in Nat /\ b3 \in Nat /\ b4 \in Nat /\ b5 \in Nat
  <2>1. b2 \in Nat
      BY SMT
  <2>2. b3 \in Nat
    <3> HIDE DEF b2
    <3> QED BY <2>1, SMT
  <2>3. b4 \in Nat
    <3> HIDE DEF b3
    <3> QED BY <2>2, SMT
  <2>4. b5 \in Nat
    <3> HIDE DEF b4
    <3> QED BY <2>3, SMT
  <2> QED BY <2>1, <2>2, <2>3, <2>4
<1>z. q(6) = 0
  <2>0. q(0) < b5 * Base
      BY <1>0, <1>q
  <2> HIDE DEF b5
  <2>1. q(1) < b5
      BY <2>0, <1>b, <1>n, <1>q, QuotientBound
  <2>2. q(2) < b4
    <3>1. q(1) < b4 * Base
        BY <2>1 DEF b5
    <3> HIDE DEF b4
    <3> QED BY <3>1, <1>b, <1>n, <1>q, QuotientBound
  <2>3. q(3) < b3
    <3>1. q(2) < b3 * Base
        BY <2>2 DEF b4
    <3> HIDE DEF b3
    <3> QED BY <3>1, <1>b, <1>n, <1>q, QuotientBound
  <2>4. q(4) < b2
    <3>1. q(3) < b2 * Base
        BY <2>3 DEF b3
    <3> HIDE DEF b2
    <3> QED BY <3>1, <1>b, <1>n, <1>q, QuotientBound
  <2>5. q(5) < Base
    <3>1. q(4) < Base * Base
        BY <2>4 DEF b2
    <3> QED BY <3>1, <1>n, <1>q, QuotientBound
  <2>6. q(6) < 1
    <3>1. q(5) < 1 * Base
        BY <2>5, SMT
    <3> QED BY <3>1, <1>n, <1>q, QuotientBound
  <2> QED BY <2>6, <1>n
<1>l. \A n \in 0 .. 6 : q(n) <= v
  <2>1. \A m \in Nat : m \div Base <= m
    <3> SUFFICES ASSUME NEW m \in Nat PROVE m \div Base <= m
        OBVIOUS
    <3> DEFINE d == m \div Base
    <3>1. d * Base + (m % Base) = m /\ d \in Nat /\ m % Base \in Nat
        BY DivisionParts
    <3> HIDE DEF d
    <3>2. d <= d * Base
        BY <3>1, SMTT(30)
    <3>3. d <= m
        BY <3>1, <3>2, SMTT(30)
    <3> QED BY <3>3 DEF d
  <2>2. q(1) <= q(0) /\ q(2) <= q(1) /\ q(3) <= q(2) /\ q(4) <= q(3) /\ q(5) <= q(4) /\ q(6) <= q(5)
      BY <2>1, <1>q, <1>n
  <2>3. q(1) <= v /\ q(2) <= v /\ q(3) <= v /\ q(4) <= v /\ q(5) <= v /\ q(6) <= v
      BY <2>2, <1>0, <1>n, <1>q, SMT
  <2>4. \A n \in 0 .. 6 : n \in {0, 1, 2, 3, 4, 5, 6}
      BY SMT
  <2> QED BY <2>3, <2>4, <1>q, <1>0
<1>i. \A n \in 0 .. 6 : q(n) \in Id
    BY <1>l, <1>q, SMT DEF Id, Modulus
<1> QED BY <1>z, <1>i DEF q

\* The digits of an id read back are the id.
LEMMA CharsRoundTrip == \A v \in Id : FromChars(ToChars(v)) = v
<1> SUFFICES ASSUME NEW v \in Id PROVE FromChars(ToChars(v)) = v
    OBVIOUS
<1> Base \in Nat /\ Base > 1
    BY IdAssumption
<1> HalfSize \in Nat \ {0}
    BY IdAssumption
<1>m. Modulus \in Nat \ {0} /\ v \in Nat
    BY SMT DEF Modulus, Id
<1>1. CASE v = 0
  <2>1. ToChars(v) = << >>
      BY <1>1 DEF ToChars
  <2> DEFINE value[i \in 0 .. Len(<< >>)] ==
               IF i = 0 THEN 0 ELSE (value[i - 1] * Base + << >>[i]) % Modulus
             zero == [i \in 0 .. Len(<< >>) |-> 0]
  <2>2. 0 .. Len(<< >>) = {0}
      BY SMT
  <2>3. zero = [i \in 0 .. Len(<< >>) |->
                  IF i = 0 THEN 0 ELSE (zero[i - 1] * Base + << >>[i]) % Modulus]
      BY <2>2
  <2>4. value = [i \in 0 .. Len(<< >>) |->
                   IF i = 0 THEN 0 ELSE (value[i - 1] * Base + << >>[i]) % Modulus]
      BY <2>3 DEF value
  <2>5. value[0] = 0
      BY <2>2, <2>4
  <2>6. FromChars(<< >>) = value[0]
      BY DEF FromChars, value
  <2> QED BY <2>1, <2>5, <2>6, <1>1
<1>2. CASE v # 0
  <2> DEFINE chars == [i \in 1 .. 6 |-> Quotient(v, 6 - i) % Base]
             value[i \in 0 .. Len(chars)] ==
               IF i = 0 THEN 0 ELSE (value[i - 1] * Base + chars[i]) % Modulus
             read == [i \in 0 .. 6 |-> Quotient(v, 6 - i)]
  <2>1. ToChars(v) = chars
      BY <1>2 DEF ToChars
  <2>2. \A i \in 1 .. 6 : chars[i] \in 0 .. Base - 1
    <3> SUFFICES ASSUME NEW i \in 1 .. 6 PROVE Quotient(v, 6 - i) % Base \in 0 .. Base - 1
        BY DEF chars
    <3>1. 6 - i \in 0 .. 6
        BY SMT
    <3>2. Quotient(v, 6 - i) \in Nat
        BY <3>1, <1>m, QuotientSteps
    <3> DEFINE a == Quotient(v, 6 - i)
    <3>3. a \in Nat
        BY <3>2
    <3> HIDE DEF a
    <3>4. a % Base \in 0 .. Base - 1
        BY <3>3, DivisionParts
    <3> QED BY <3>4 DEF a
  <2>3. chars \in Seq(0 .. Base - 1) /\ Len(chars) = 6 /\ DOMAIN chars = 1 .. 6
    <3>1. chars \in [1 .. 6 -> 0 .. Base - 1]
        BY <2>2 DEF chars
    <3> HIDE DEF chars
    <3>2. chars \in Seq(0 .. Base - 1)
        BY <3>1, SeqDef
    <3>3. 6 \in Nat /\ DOMAIN chars = 1 .. Len(chars) /\ Len(chars) \in Nat
        BY <3>2, LenProperties
    <3> QED BY <3>1, <3>2, <3>3
  <2>4. ASSUME NEW i \in 1 .. 6
        PROVE  read[i] = (read[i - 1] * Base + chars[i]) % Modulus
    <3>1. i - 1 \in 0 .. 6 /\ i \in 0 .. 6 /\ 6 - i \in 0 .. 5 /\ 6 - (i - 1) = (6 - i) + 1
        BY SMT
    <3> DEFINE a == Quotient(v, 6 - i)
    <3>2. read[i] = a /\ read[i - 1] = Quotient(v, (6 - i) + 1) /\ chars[i] = a % Base
        BY <3>1 DEF read, chars
    <3>3. Quotient(v, (6 - i) + 1) = a \div Base
        BY <3>1, <1>m, QuotientSteps
    <3>4. a \in Id
      <4>1. 6 - i \in 0 .. 6
          BY SMT
      <4> QED BY <4>1, QuotientEnds
    <3> HIDE DEF a, read, chars
    <3>5. a \in Nat /\ a < Modulus
        BY <3>4, <1>m, SMT DEF Id
    <3>6. (a \div Base) * Base + (a % Base) = a
        BY <3>5, DivisionParts
    <3>7. a % Modulus = a
        BY <3>5, <1>m, SMT
    <3> QED BY <3>2, <3>3, <3>6, <3>7
  <2>5. read[0] = 0 /\ read[6] = v
    <3>1. 6 - 0 = 6 /\ 6 - 6 = 0 /\ 0 \in 0 .. 6 /\ 6 \in 0 .. 6
        BY SMT
    <3> QED BY <3>1, <1>m, QuotientEnds, QuotientSteps DEF read
  <2>6. read = [i \in 0 .. 6 |-> IF i = 0 THEN 0 ELSE (read[i - 1] * Base + chars[i]) % Modulus]
    <3>1. ASSUME NEW i \in 0 .. 6
          PROVE  read[i] = IF i = 0 THEN 0 ELSE (read[i - 1] * Base + chars[i]) % Modulus
      <4>1. i = 0 \/ i \in 1 .. 6
          BY SMT
      <4> HIDE DEF read, chars
      <4> QED BY <4>1, <2>4, <2>5
    <3> QED BY <3>1 DEF read
  <2>7. value = [i \in 0 .. 6 |-> IF i = 0 THEN 0 ELSE (value[i - 1] * Base + chars[i]) % Modulus]
    <3> HIDE DEF read
    <3>1. read = [i \in 0 .. Len(chars) |->
                    IF i = 0 THEN 0 ELSE (read[i - 1] * Base + chars[i]) % Modulus]
        BY <2>6, <2>3
    <3>2. value = [i \in 0 .. Len(chars) |->
                     IF i = 0 THEN 0 ELSE (value[i - 1] * Base + chars[i]) % Modulus]
        BY <3>1 DEF value
    <3> QED BY <3>2, <2>3
  <2>8. FromChars(chars) = value[6]
    <3>1. ~ \E i \in DOMAIN chars : chars[i] > Base
      <4> HIDE DEF chars
      <4> QED BY <2>2, <2>3, SMT
    <3>2. FromChars(chars) = value[Len(chars)]
        BY <3>1 DEF FromChars, value
    <3> QED BY <3>2, <2>3
  <2> HIDE DEF value, read, chars
  <2>9. value[0] = read[0]
      BY <2>7, <2>5
  <2>10. \A i \in 1 .. 6 : value[i] = (value[i - 1] * Base + chars[i]) % Modulus
    <3> SUFFICES ASSUME NEW i \in 1 .. 6
                 PROVE value[i] = (value[i - 1] * Base + chars[i]) % Modulus
        OBVIOUS
    <3>1. i \in 0 .. 6 /\ i # 0
        BY SMT
    <3> QED BY <3>1, <2>7
  <2>11. \A i \in 1 .. 6 : value[i - 1] = read[i - 1] => value[i] = read[i]
      BY <2>4, <2>10
  <2>12. value[6] = read[6]
    <3>1. /\ value[1 - 1] = read[1 - 1] => value[1] = read[1]
          /\ value[2 - 1] = read[2 - 1] => value[2] = read[2]
          /\ value[3 - 1] = read[3 - 1] => value[3] = read[3]
          /\ value[4 - 1] = read[4 - 1] => value[4] = read[4]
          /\ value[5 - 1] = read[5 - 1] => value[5] = read[5]
          /\ value[6 - 1] = read[6 - 1] => value[6] = read[6]
        BY <2>11
    <3>2. 1 - 1 = 0 /\ 2 - 1 = 1 /\ 3 - 1 = 2 /\ 4 - 1 = 3 /\ 5 - 1 = 4 /\ 6 - 1 = 5
        BY SMT
    <3> QED BY <3>1, <3>2, <2>9
  <2> QED BY <2>1, <2>5, <2>8, <2>12
<1> QED BY <1>1, <1>2

----------------------------------------------------------------------------
(***************************************************************************)
(* The theorem                                                             *)
(***************************************************************************)

\* The counter stays in the range of ids.
LEMMA IdInRange == Spec => [](id \in Id)
<1>1. Init => id \in Id
    BY DEF Init
<1>2. id \in Id /\ [Next]_id => (id \in Id)'
  <2> HalfSize \in Nat \ {0}
      BY IdAssumption
  <2>1. Modulus \in Nat \ {0}
      BY SMT DEF Modulus
  <2> SUFFICES ASSUME id \in Id, [Next]_id PROVE id' \in Id
      OBVIOUS
  <2>2. CASE Next
    <3>1. id + 1 \in Nat
        BY SMT DEF Id
    <3> QED BY <2>1, <2>2, <3>1, DivisionParts DEF Next, Id
  <2>3. CASE UNCHANGED id
      BY <2>3
  <2> QED BY <2>2, <2>3
<1> QED BY <1>1, <1>2, PTL DEF Spec

\* Every id comes back from its string: for every size of a half, base, round
\* function and keys, as long as six digits are enough.
THEOREM RoundTripAlways == Spec => []RoundTrip
<1>1. id \in Id => RoundTrip
    BY DecryptInverts, CharsRoundTrip DEF RoundTrip, EncodeStringId, DecodeStringId
<1> QED BY <1>1, IdInRange, PTL

----------------------------------------------------------------------------
(***************************************************************************)
(* Drawing                                                                 *)
(***************************************************************************)

Pixel == 0 .. ChannelMax \cup {Garbage}

Place(width, height) == (0 .. width - 1) \X (0 .. height - 1)

\* The pixels of a bitmap and what they may hold.
Pixels(width, height) == [0 .. width * height - 1 -> Pixel]

IsBitmap(bitmap) ==
  \E width, height \in Nat : \E pixels \in Pixels(width, height) :
    bitmap = [width |-> width, height |-> height, pixels |-> pixels]

\* A place of a bitmap has an offset of its own in it.
LEMMA OffsetOfPlace ==
  ASSUME NEW width \in Nat, NEW height \in Nat, NEW x \in 0 .. width - 1, NEW y \in 0 .. height - 1
  PROVE  /\ Offset(width, x, y) \in 0 .. width * height - 1
         /\ Offset(width, x, y) \div width = y /\ Offset(width, x, y) % width = x
<1>1. x \in Nat /\ y \in Nat /\ width \in Nat \ {0} /\ x + 1 <= width /\ y + 1 <= height
  OBVIOUS
<1>2. (y * width + x) \div width = y /\ (y * width + x) % width = x
  BY <1>1, PartsUnique
<1>3. y * width + x \in Nat
  <2>1. y * width \in Nat
    BY <1>1
  <2>2. QED
    BY <1>1, <2>1
<1>4. y * width + x < width * height
  <2>1. (y + 1) * width <= height * width
    BY <1>1, SMTT(30)
  <2>2. (y + 1) * width = y * width + width /\ height * width = width * height
    BY <1>1, SMTT(30)
  <2>3. y * width \in Nat /\ width * height \in Nat
    BY <1>1
  <2>4. QED
    BY <1>1, <2>1, <2>2, <2>3
<1>5. width * height \in Nat
  OBVIOUS
<1>6. QED
  BY <1>2, <1>3, <1>4, <1>5 DEF Offset

\* An offset in a bitmap is that of a place.
LEMMA PlaceOfOffset ==
  ASSUME NEW width \in Nat, NEW height \in Nat, NEW i \in 0 .. width * height - 1
  PROVE  /\ i % width \in 0 .. width - 1 /\ i \div width \in 0 .. height - 1
         /\ Offset(width, i % width, i \div width) = i
<1>1. i \in Nat /\ i < width * height /\ width * height \in Nat
  OBVIOUS
<1>2. width # 0
  <2>1. 0 * height = 0
    OBVIOUS
  <2>2. QED
    BY <1>1, <2>1
<1>3. (i \div width) * width + (i % width) = i /\ i \div width \in Nat /\ i % width \in 0 .. width - 1
  BY <1>1, <1>2, DivisionParts
<1>4. i \div width < height
  <2>1. CASE width = 1
    BY <1>1, <2>1
  <2>2. CASE width > 1
    <3>1. i < height * width
      BY <1>1
    <3>2. QED
      BY <1>1, <2>2, <3>1, QuotientBound
  <2>3. QED
    BY <1>2, <2>1, <2>2
<1>5. QED
  BY <1>3, <1>4 DEF Offset

\* Filling places of a bitmap writes inside it, and each place once.
LEMMA FillWrites ==
  ASSUME NEW width \in Nat, NEW height \in Nat, NEW painting,
         DOMAIN painting \subseteq Place(width, height),
         \A place \in DOMAIN painting : painting[place] \in Pixel
  PROVE  LET filled == Fill(New(width, height), painting)
         IN  /\ filled.pixels \in Pixels(width, height)
             /\ filled = [width |-> width, height |-> height, pixels |-> filled.pixels]
             /\ \A place \in DOMAIN painting :
                  filled.pixels[Offset(width, place[1], place[2])] = painting[place]
<1> DEFINE blank == New(width, height)
           offset(place) == Offset(width, place[1], place[2])
           offsets == {offset(place) : place \in DOMAIN painting}
           at(i) == CHOOSE place \in DOMAIN painting : offset(place) = i
           all == 0 .. width * height - 1
           written == [i \in all \cup offsets |-> IF i \in offsets THEN painting[at(i)] ELSE blank.pixels[i]]
<1>1. blank.width = width /\ blank.height = height /\ DOMAIN blank.pixels = all
      /\ \A i \in all : blank.pixels[i] = Garbage
  BY DEF New
<1>2. Fill(blank, painting) = [width |-> width, height |-> height, pixels |-> written]
  <2>1. \A p : [blank EXCEPT !.pixels = p] = [width |-> width, height |-> height, pixels |-> p]
    BY DEF New
  <2>2. Fill(blank, painting) = [blank EXCEPT !.pixels = written]
    <3> DEFINE Filled(w, places) ==
                 LET off(place) == Offset(w, place[1], place[2])
                     offs == {off(place) : place \in DOMAIN painting}
                     where(i) == CHOOSE place \in DOMAIN painting : off(place) = i
                 IN  [blank EXCEPT !.pixels =
                        [i \in places \cup offs |->
                           IF i \in offs THEN painting[where(i)] ELSE blank.pixels[i]]]
    <3> HIDE DEF blank
    <3>1. Fill(blank, painting) = Filled(blank.width, DOMAIN blank.pixels)
      BY Zenon DEF Fill
    <3>2. Filled(width, all) = [blank EXCEPT !.pixels = written]
      BY Zenon
    <3> HIDE DEF Filled, written, all
    <3>3. Filled(blank.width, DOMAIN blank.pixels) = Filled(width, all)
      BY <1>1, Zenon
    <3>4. QED
      BY <3>1, <3>2, <3>3, Zenon
  <2>3. QED
    BY <2>1, <2>2
<1>3. ASSUME NEW place \in DOMAIN painting
      PROVE  place \in Place(width, height) /\ offset(place) \in all
             /\ offset(place) \div width = place[2] /\ offset(place) % width = place[1]
  <2>1. place \in Place(width, height)
    OBVIOUS
  <2>2. place[1] \in 0 .. width - 1 /\ place[2] \in 0 .. height - 1
    BY <2>1 DEF Place
  <2>3. QED
    BY <2>1, <2>2, OffsetOfPlace
<1>4. ASSUME NEW place \in DOMAIN painting PROVE at(offset(place)) = place
  <2>1. at(offset(place)) \in DOMAIN painting /\ offset(at(offset(place))) = offset(place)
    OBVIOUS
  <2> DEFINE other == at(offset(place))
  <2>2. other \in Place(width, height) /\ place \in Place(width, height)
        /\ other[1] = place[1] /\ other[2] = place[2]
    <3>1. offset(other) \div width = other[2] /\ offset(other) % width = other[1] /\ other \in Place(width, height)
      BY <1>3, <2>1
    <3> HIDE DEF other
    <3>2. QED
      BY <1>3, <2>1, <3>1 DEF other
  <2> HIDE DEF other
  <2>3. other = place
    BY <2>2 DEF Place
  <2>4. QED
    BY <2>3 DEF other
<1>5. offsets \subseteq all
  BY <1>3
<1>6. ASSUME NEW i \in all PROVE written[i] \in Pixel
  <2>1. CASE i \in offsets
    <3>1. PICK place \in DOMAIN painting : i = offset(place)
      BY <2>1
    <3>2. at(i) = place
      BY <1>4, <3>1
    <3>3. QED
      BY <2>1, <3>2
  <2>2. CASE i \notin offsets
    BY <1>1, <2>2 DEF Pixel
  <2>3. QED
    BY <2>1, <2>2
<1>7. written \in Pixels(width, height)
  <2>1. written = [i \in all |-> written[i]]
    BY <1>5
  <2> HIDE DEF written
  <2>2. QED
    BY <1>6, <2>1 DEF Pixels
<1>8. ASSUME NEW place \in DOMAIN painting PROVE written[offset(place)] = painting[place]
  <2>1. offset(place) \in offsets
    OBVIOUS
  <2>2. written[offset(place)] = painting[at(offset(place))]
    BY <2>1
  <2>3. QED
    BY <1>4, <2>2
<1> HIDE DEF written
<1>9. QED
  BY <1>2, <1>7, <1>8

\* The rectangle in the middle is inside.
LEMMA RectInside ==
  ASSUME NEW width \in Nat, NEW height \in Nat
  PROVE  CenterRect(width, height) \subseteq Place(width, height)
<1> DEFINE rectWidth == width \div 2
           rectHeight == height \div 2
           startX == (width - rectWidth) \div 2
           startY == (height - rectHeight) \div 2
<1>1. startX .. startX + rectWidth - 1 \subseteq 0 .. width - 1
  OBVIOUS
<1>2. startY .. startY + rectHeight - 1 \subseteq 0 .. height - 1
  OBVIOUS
<1>3. CenterRect(width, height) = (startX .. startX + rectWidth - 1) \X (startY .. startY + rectHeight - 1)
  BY DEF CenterRect
<1> HIDE DEF startX, startY, rectWidth, rectHeight
<1>4. QED
  BY <1>1, <1>2, <1>3 DEF Place

\* The bitmap with a rectangle is one.
LEMMA EmittedInside ==
  ASSUME NEW width \in Nat, NEW height \in Nat
  PROVE  IsBitmap(Emitted(width, height))
<1> DEFINE painting == [place \in CenterRect(width, height) |-> ChannelMax]
<1>1. DOMAIN painting \subseteq Place(width, height) /\ \A place \in DOMAIN painting : painting[place] \in Pixel
  <2>1. ChannelMax \in Pixel
    BY DrawingAssumption DEF Pixel
  <2>2. QED
    BY <2>1, RectInside
<1> DEFINE filled == Fill(New(width, height), painting)
<1> HIDE DEF painting
<1>2. filled.pixels \in Pixels(width, height)
      /\ filled = [width |-> width, height |-> height, pixels |-> filled.pixels]
  BY <1>1, FillWrites
<1>3. Emitted(width, height) = filled
  BY DEF Emitted, painting
<1> HIDE DEF filled
<1>4. QED
  BY <1>2, <1>3 DEF IsBitmap

\* A band lies inside, and each column is in a band.
LEMMA BandsPartColumns ==
  ASSUME NEW width \in Nat, NEW colors \in Nat \ {0}
  PROVE  /\ \A i \in 0 .. colors - 1 : Band(width, colors, i) \subseteq 0 .. width - 1
         /\ \A x \in 0 .. width - 1 : \E i \in 0 .. colors - 1 : x \in Band(width, colors, i)
<1> DEFINE band == width \div colors
<1>1. band \in Nat /\ band * colors <= width
  <2>1. band * colors + (width % colors) = width /\ band \in Nat /\ width % colors \in 0 .. colors - 1
    BY DivisionParts
  <2> HIDE DEF band
  <2>2. band * colors \in Nat /\ width % colors \in Nat
    BY <2>1
  <2>3. QED
    BY <2>1, <2>2
<1> HIDE DEF band
<1>2. \A i \in 0 .. colors : i * band \in Nat /\ i * band <= width
  <2> SUFFICES ASSUME NEW i \in 0 .. colors PROVE i * band \in Nat /\ i * band <= width
    OBVIOUS
  <2>1. i * band \in Nat /\ band * colors \in Nat
    BY <1>1
  <2>2. i * band <= colors * band
    BY <1>1, SMTT(30)
  <2>3. colors * band = band * colors
    BY <1>1
  <2>4. QED
    BY <1>1, <2>1, <2>2, <2>3
<1>3. ASSUME NEW i \in 0 .. colors - 1
      PROVE  /\ i * band \in Nat /\ (i + 1) * band \in Nat /\ (i + 1) * band <= width
             /\ Band(width, colors, i) =
                  i * band .. (IF i = colors - 1 THEN width ELSE (i + 1) * band) - 1
  <2>1. i \in 0 .. colors /\ i + 1 \in 0 .. colors
    OBVIOUS
  <2>2. Band(width, colors, i) = i * band .. (IF i = colors - 1 THEN width ELSE (i + 1) * band) - 1
    BY Zenon DEF Band, band
  <2>3. QED
    BY <1>2, <2>1, <2>2
<1>4. ASSUME NEW i \in 0 .. colors - 1 PROVE Band(width, colors, i) \subseteq 0 .. width - 1
  <2> DEFINE a == i * band
             b == (i + 1) * band
  <2>1. a \in Nat /\ b \in Nat /\ b <= width
        /\ Band(width, colors, i) = a .. (IF i = colors - 1 THEN width ELSE b) - 1
    BY <1>3
  <2> HIDE DEF a, b
  <2>2. QED
    BY <2>1
<1>5. ASSUME NEW x \in 0 .. width - 1
      PROVE  \E i \in 0 .. colors - 1 : x \in Band(width, colors, i)
  <2> DEFINE last == colors - 1
  <2>1. last \in 0 .. colors - 1 /\ last * band \in Nat
        /\ Band(width, colors, last) = last * band .. width - 1
    BY <1>3
  <2>2. CASE last * band <= x
    <3> HIDE DEF last
    <3>1. x \in last * band .. width - 1
      BY <2>1, <2>2
    <3>2. QED
      BY <2>1, <3>1
  <2>3. CASE x < last * band
    <3> DEFINE i == x \div band
    <3>1. band # 0
      <4>1. last * 0 = 0
        BY <2>1
      <4>2. QED
        BY <2>3, <4>1
    <3>2. i * band + (x % band) = x /\ i \in Nat /\ x % band \in 0 .. band - 1
      BY <1>1, <3>1, DivisionParts
    <3>3. i < last
      <4> last \in Nat /\ x \in Nat
        OBVIOUS
      <4> HIDE DEF last
      <4>1. CASE band = 1
        <5>1. x \div 1 = x /\ last * 1 = last
          OBVIOUS
        <5>2. i = x /\ x < last
          BY <2>3, <4>1, <5>1
        <5>3. QED
          BY <5>2
      <4>2. CASE band > 1
        BY <1>1, <2>1, <2>3, <4>2, QuotientBound
      <4>3. QED
        BY <1>1, <3>1, <4>1, <4>2
    <3> HIDE DEF i
    <3>4. i \in 0 .. colors - 1 /\ i # colors - 1
      BY <3>2, <3>3
    <3>5. Band(width, colors, i) = i * band .. (i + 1) * band - 1
      BY <1>3, <3>4
    <3>6. (i + 1) * band = i * band + band /\ i * band \in Nat
      BY <1>1, <3>2
    <3>7. x \in i * band .. (i + 1) * band - 1
      <4> DEFINE a == i * band
                 b == (i + 1) * band
                 r == x % band
      <4>1. a + r = x /\ r \in 0 .. band - 1 /\ b = a + band /\ a \in Nat /\ band \in Nat
        BY <1>1, <3>2, <3>6
      <4> HIDE DEF a, b, r
      <4>2. x \in a .. b - 1
        BY <4>1
      <4>3. QED
        BY <4>2 DEF a, b
    <3>8. QED
      BY <3>4, <3>5, <3>7
  <2>4. last * band \in Int /\ x \in Int
    BY <2>1
  <2>5. QED
    BY <2>2, <2>3, <2>4
<1>6. QED
  BY <1>4, <1>5

\* What is filled everywhere is at each offset what was painted at its place.
LEMMA FillCovers ==
  ASSUME NEW width \in Nat, NEW height \in Nat, NEW painting,
         DOMAIN painting = Place(width, height),
         \A place \in DOMAIN painting : painting[place] \in Pixel,
         NEW i \in 0 .. width * height - 1
  PROVE  /\ <<i % width, i \div width>> \in Place(width, height)
         /\ Fill(New(width, height), painting).pixels[i] = painting[<<i % width, i \div width>>]
<1> DEFINE place == <<i % width, i \div width>>
           pixels == Fill(New(width, height), painting).pixels
<1>1. place \in Place(width, height) /\ Offset(width, place[1], place[2]) = i
  BY PlaceOfOffset DEF Place
<1>2. \A p \in DOMAIN painting : pixels[Offset(width, p[1], p[2])] = painting[p]
  BY FillWrites
<1> HIDE DEF place, pixels
<1>3. pixels[i] = painting[place]
  BY <1>1, <1>2
<1>4. QED
  BY <1>1, <1>3 DEF place, pixels

\* The bands are painted on every pixel.
LEMMA BandedCovers ==
  ASSUME NEW width \in Nat, NEW height \in Nat, NEW colors \in Nat \ {0}
  PROVE  /\ IsBitmap(Banded(width, height, colors))
         /\ \A i \in DOMAIN Banded(width, height, colors).pixels :
              Banded(width, height, colors).pixels[i] # Garbage
<1> DEFINE columns == UNION {Band(width, colors, i) : i \in 0 .. colors - 1}
           places == columns \X (0 .. height - 1)
           band(x) == CHOOSE i \in 0 .. colors - 1 : x \in Band(width, colors, i)
           painting == [place \in places |-> band(place[1]) % (ChannelMax + 1)]
           filled == Fill(New(width, height), painting)
<1>1. columns = 0 .. width - 1
  <2>1. \A i \in 0 .. colors - 1 : Band(width, colors, i) \subseteq 0 .. width - 1
    BY BandsPartColumns
  <2>2. \A x \in 0 .. width - 1 : \E i \in 0 .. colors - 1 : x \in Band(width, colors, i)
    BY BandsPartColumns
  <2>3. QED
    BY <2>1, <2>2, Zenon
<1>2. places = Place(width, height)
  BY <1>1 DEF Place
<1>3. ASSUME NEW place \in places PROVE painting[place] \in 0 .. ChannelMax
  <2>1. place[1] \in 0 .. width - 1
    BY <1>2 DEF Place
  <2>2. band(place[1]) \in 0 .. colors - 1
    BY <2>1, BandsPartColumns
  <2> DEFINE b == band(place[1])
  <2>3. painting[place] = b % (ChannelMax + 1)
    OBVIOUS
  <2>4. b \in Nat
    BY <2>2
  <2> HIDE DEF b, painting
  <2>5. QED
    BY <2>3, <2>4, DrawingAssumption
<1>4. DOMAIN painting = Place(width, height) /\ \A place \in DOMAIN painting : painting[place] \in Pixel
  <2>1. DOMAIN painting = places
    OBVIOUS
  <2> HIDE DEF painting, places
  <2>2. QED
    BY <1>2, <1>3, <2>1 DEF Pixel
<1>5. Banded(width, height, colors) = filled
  BY Zenon DEF Banded
<1> HIDE DEF painting
<1>6. filled.pixels \in Pixels(width, height)
      /\ filled = [width |-> width, height |-> height, pixels |-> filled.pixels]
  BY <1>4, FillWrites
<1>7. ASSUME NEW i \in 0 .. width * height - 1 PROVE filled.pixels[i] # Garbage
  <2> DEFINE place == <<i % width, i \div width>>
  <2>1. place \in Place(width, height) /\ filled.pixels[i] = painting[place]
    BY <1>4, FillCovers
  <2> HIDE DEF place, filled
  <2>2. QED
    BY <1>2, <1>3, <2>1, DrawingAssumption
<1> HIDE DEF filled
<1>8. DOMAIN filled.pixels = 0 .. width * height - 1
  BY <1>6 DEF Pixels
<1>9. IsBitmap(filled)
  BY <1>6 DEF IsBitmap
<1>10. QED
  BY <1>5, <1>7, <1>8, <1>9

\* Inverting replaces each value by its complement, and leaves what is not
\* written.
Complement(value) == IF value = Garbage THEN Garbage ELSE ChannelMax - value

\* The complement of a complement is the value, and of nothing nothing.
LEMMA ComplementTwice ==
  \A value \in Pixel : Complement(value) \in Pixel /\ Complement(Complement(value)) = value
                       /\ (Complement(value) = Garbage <=> value = Garbage)
<1> SUFFICES ASSUME NEW value \in Pixel
             PROVE  Complement(value) \in Pixel /\ Complement(Complement(value)) = value
                    /\ (Complement(value) = Garbage <=> value = Garbage)
  OBVIOUS
<1>1. CASE value = Garbage
  BY <1>1 DEF Complement, Pixel
<1>2. CASE value # Garbage
  <2>1. value \in 0 .. ChannelMax /\ ChannelMax \in Nat
    BY <1>2, DrawingAssumption DEF Pixel
  <2>2. ChannelMax - value \in 0 .. ChannelMax /\ ChannelMax - (ChannelMax - value) = value
    BY <2>1
  <2>3. Complement(value) = ChannelMax - value /\ ChannelMax - value # Garbage
    BY <1>2, <2>2, DrawingAssumption DEF Complement
  <2>4. QED
    BY <1>2, <2>2, <2>3 DEF Complement, Pixel
<1>3. QED
  BY <1>1, <1>2

\* Inverting a bitmap gives one of the same size, pixel by pixel.
LEMMA InvertedPixels ==
  ASSUME NEW width \in Nat, NEW height \in Nat, NEW pixels \in Pixels(width, height), NEW bitmap,
         bitmap = [width |-> width, height |-> height, pixels |-> pixels]
  PROVE  Inverted(bitmap) = [width |-> width, height |-> height,
                             pixels |-> [i \in 0 .. width * height - 1 |-> Complement(pixels[i])]]
<1> DEFINE source(place) == pixels[Offset(width, place[1], place[2])]
           painting == [place \in Place(width, height) |-> Complement(source(place))]
           filled == Fill(New(width, height), painting)
<1>1. bitmap.width = width /\ bitmap.height = height /\ bitmap.pixels = pixels
  OBVIOUS
<1>2. Inverted(bitmap) = filled
  <2> DEFINE Result(w, h, p) ==
               LET from(place) == p[Offset(w, place[1], place[2])]
                   shared == (0 .. w - 1) \X (0 .. h - 1)
               IN  Fill(New(w, h), [place \in shared |->
                                      IF from(place) = Garbage THEN Garbage ELSE ChannelMax - from(place)])
  <2>1. Inverted(bitmap) = Result(bitmap.width, bitmap.height, bitmap.pixels)
    BY Zenon DEF Inverted
  <2>2. Result(width, height, pixels) = filled
    BY Zenon DEF Complement, Place
  <2> HIDE DEF Result, filled
  <2>3. QED
    BY <1>1, <2>1, <2>2, Zenon
<1>3. ASSUME NEW place \in Place(width, height) PROVE source(place) \in Pixel
  <2>1. place[1] \in 0 .. width - 1 /\ place[2] \in 0 .. height - 1
    BY DEF Place
  <2>2. Offset(width, place[1], place[2]) \in 0 .. width * height - 1
    BY <2>1, OffsetOfPlace
  <2>3. QED
    BY <2>2 DEF Pixels
<1>4. DOMAIN painting = Place(width, height) /\ \A place \in DOMAIN painting : painting[place] \in Pixel
  BY <1>3, ComplementTwice
<1>5. \A place \in Place(width, height) : painting[place] = Complement(source(place))
  OBVIOUS
<1> HIDE DEF painting
<1>6. filled.pixels \in Pixels(width, height)
      /\ filled = [width |-> width, height |-> height, pixels |-> filled.pixels]
  BY <1>4, FillWrites
<1>7. ASSUME NEW i \in 0 .. width * height - 1 PROVE filled.pixels[i] = Complement(pixels[i])
  <2> DEFINE place == <<i % width, i \div width>>
  <2>1. place \in Place(width, height) /\ filled.pixels[i] = painting[place]
    BY <1>4, FillCovers
  <2>2. source(place) = pixels[i]
    BY PlaceOfOffset
  <2> HIDE DEF place, filled, source
  <2>3. QED
    BY <1>5, <2>1, <2>2
<1> DEFINE result == [i \in 0 .. width * height - 1 |-> Complement(pixels[i])]
<1>8. filled.pixels = result
  <2>1. filled.pixels \in [0 .. width * height - 1 -> Pixel]
    BY <1>6 DEF Pixels
  <2> HIDE DEF filled
  <2>2. QED
    BY <1>7, <2>1
<1> HIDE DEF filled, result
<1>9. Inverted(bitmap) = [width |-> width, height |-> height, pixels |-> result]
  BY <1>2, <1>6, <1>8
<1>10. QED
  BY <1>9 DEF result

\* Inverting a bitmap twice gives it back, and paints nothing anew.
LEMMA InvertedTwice ==
  ASSUME NEW bitmap, IsBitmap(bitmap)
  PROVE  /\ IsBitmap(Inverted(bitmap)) /\ Inverted(Inverted(bitmap)) = bitmap
         /\ DOMAIN Inverted(bitmap).pixels = DOMAIN bitmap.pixels
         /\ \A i \in DOMAIN bitmap.pixels : Inverted(bitmap).pixels[i] = Garbage <=> bitmap.pixels[i] = Garbage
<1>1. PICK width \in Nat, height \in Nat :
        \E pixels \in Pixels(width, height) :
          bitmap = [width |-> width, height |-> height, pixels |-> pixels]
  BY DEF IsBitmap
<1>2. PICK pixels \in Pixels(width, height) :
        bitmap = [width |-> width, height |-> height, pixels |-> pixels]
  BY <1>1
<1> DEFINE all == 0 .. width * height - 1
           once == [i \in all |-> Complement(pixels[i])]
           twice == [i \in all |-> Complement(once[i])]
           inverted == Inverted(bitmap)
<1>3. inverted = [width |-> width, height |-> height, pixels |-> once]
  BY <1>2, InvertedPixels
<1>4. pixels \in [all -> Pixel] /\ \A i \in all : pixels[i] \in Pixel
  BY DEF Pixels
<1> HIDE DEF all
<1>5. once \in [all -> Pixel] /\ \A i \in all : once[i] = Complement(pixels[i])
  BY <1>4, ComplementTwice
<1> HIDE DEF once
<1>6. once \in Pixels(width, height)
  BY <1>5 DEF all, Pixels
<1> HIDE DEF inverted
<1>7. Inverted(inverted) = [width |-> width, height |-> height, pixels |-> twice]
  BY <1>3, <1>6, InvertedPixels DEF all
<1>8. twice = pixels
  BY <1>4, <1>5, ComplementTwice
<1> HIDE DEF twice
<1>9. Inverted(inverted) = bitmap
  BY <1>2, <1>7, <1>8
<1>10. IsBitmap(inverted)
  BY <1>3, <1>6 DEF IsBitmap
<1>11. /\ DOMAIN inverted.pixels = DOMAIN bitmap.pixels
       /\ \A i \in DOMAIN bitmap.pixels : inverted.pixels[i] = Garbage <=> bitmap.pixels[i] = Garbage
  BY <1>2, <1>3, <1>4, <1>5, ComplementTwice
<1>12. QED
  BY <1>9, <1>10, <1>11 DEF inverted

\* The canvas is a bitmap, and every pixel of one with bands is written.
DrawingInv == IsBitmap(canvas) /\ BandsCoverCanvas

\* At the start the canvas is empty.
LEMMA DrawingInit == EmptyCanvas => DrawingInv
<1> SUFFICES ASSUME EmptyCanvas PROVE DrawingInv
  OBVIOUS
<1> DEFINE pixels == [i \in 0 .. 0 * 0 - 1 |-> Garbage]
<1>1. canvas = [width |-> 0, height |-> 0, pixels |-> pixels] /\ drawn = "nothing"
  BY DEF EmptyCanvas, New
<1>2. pixels \in Pixels(0, 0)
  BY DEF Pixels, Pixel
<1> HIDE DEF pixels
<1>3. IsBitmap(canvas)
  BY <1>1, <1>2 DEF IsBitmap
<1>4. QED
  BY <1>1, <1>3 DEF DrawingInv, BandsCoverCanvas

\* Each function leaves a bitmap on the canvas.
LEMMA DrawingStep == DrawingInv /\ [DrawingNext]_drawingVars => DrawingInv'
<1> SUFFICES ASSUME DrawingInv, [DrawingNext]_drawingVars PROVE DrawingInv'
  OBVIOUS
<1>1. \A n \in 1 .. MaxSize : n \in Nat
  BY DrawingAssumption
<1>2. ASSUME NEW width \in 1 .. MaxSize, NEW height \in 1 .. MaxSize, EmitBitmap(width, height)
      PROVE  DrawingInv'
  <2>1. canvas' = Emitted(width, height) /\ drawn' = "emit"
    BY <1>2 DEF EmitBitmap
  <2>2. IsBitmap(Emitted(width, height))
    BY <1>1, EmittedInside
  <2>3. QED
    BY <2>1, <2>2 DEF DrawingInv, BandsCoverCanvas, IsBitmap
<1>3. ASSUME NEW width \in 1 .. MaxSize, NEW height \in 1 .. MaxSize, NEW colors \in 0 .. MaxColors,
             DrawColorBands(width, height, colors)
      PROVE  DrawingInv'
  <2>1. CASE colors = 0 /\ drawn' = "trapped" /\ UNCHANGED canvas
    BY <2>1 DEF DrawingInv, BandsCoverCanvas, IsBitmap
  <2>2. CASE colors > 0 /\ canvas' = Banded(width, height, colors) /\ drawn' = "bands"
    <3>1. colors \in Nat \ {0}
      BY <2>2, DrawingAssumption
    <3>2. /\ IsBitmap(Banded(width, height, colors))
          /\ \A i \in DOMAIN Banded(width, height, colors).pixels :
               Banded(width, height, colors).pixels[i] # Garbage
      BY <1>1, <3>1, BandedCovers
    <3>3. QED
      BY <2>2, <3>2 DEF DrawingInv, BandsCoverCanvas, IsBitmap
  <2>3. QED
    BY <1>3, <2>1, <2>2 DEF DrawColorBands
<1>4. ASSUME InvertBitmap PROVE DrawingInv'
  <2>1. canvas' = Inverted(canvas) /\ drawn' = drawn /\ IsBitmap(canvas) /\ BandsCoverCanvas
    BY <1>4 DEF InvertBitmap, DrawingInv
  <2>2. /\ IsBitmap(Inverted(canvas)) /\ DOMAIN Inverted(canvas).pixels = DOMAIN canvas.pixels
        /\ \A i \in DOMAIN canvas.pixels : Inverted(canvas).pixels[i] = Garbage <=> canvas.pixels[i] = Garbage
    BY <2>1, InvertedTwice
  <2>3. QED
    BY <2>1, <2>2 DEF DrawingInv, BandsCoverCanvas, IsBitmap
<1>5. CASE UNCHANGED drawingVars
  BY <1>5 DEF drawingVars, DrawingInv, BandsCoverCanvas, IsBitmap
<1>6. QED
  BY <1>2, <1>3, <1>4, <1>5 DEF DrawingNext

\* For every size, number of colors and range of a channel: drawing stays inside
\* the memory of the bitmap, bands leave nothing unpainted, and inverting twice
\* gives the bitmap back.
THEOREM DrawingIsSoundAlways == DrawingSpec => []DrawingIsSound
<1>1. DrawingInv => DrawingIsSound
  <2> SUFFICES ASSUME DrawingInv PROVE DrawingIsSound
    OBVIOUS
  <2>1. IsBitmap(canvas) /\ BandsCoverCanvas
    BY DEF DrawingInv
  <2>2. InvertTwiceIsSame
    BY <2>1, InvertedTwice DEF InvertTwiceIsSame
  <2>3. WritesInside
    BY <2>1 DEF IsBitmap, Pixels, WritesInside
  <2>4. QED
    BY <2>1, <2>2, <2>3 DEF DrawingIsSound
<1>2. DrawingSpec => []DrawingInv
  BY DrawingInit, DrawingStep, PTL DEF DrawingSpec
<1>3. QED
  BY <1>1, <1>2, PTL

----------------------------------------------------------------------------
(***************************************************************************)
(* The digits of colors                                                    *)
(***************************************************************************)

Digit == 0 .. HexBase - 1

\* The number of values that n digits can have.
Power(n) ==
  LET power[i \in 0 .. 8] == IF i = 0 THEN 1 ELSE power[i - 1] * HexBase
  IN  power[n]

\* Stepping through the digits that are cut off.
LEMMA ShiftedSteps ==
  ASSUME NEW v
  PROVE  /\ Shifted(v, 0) = v
         /\ \A n \in 0 .. 7 : Shifted(v, n + 1) = Shifted(v, n) \div HexBase
<1> DEFINE left[i \in 0 .. 8] == IF i = 0 THEN v ELSE left[i - 1] \div HexBase
           d0 == v
           d1 == d0 \div HexBase
           d2 == d1 \div HexBase
           d3 == d2 \div HexBase
           d4 == d3 \div HexBase
           d5 == d4 \div HexBase
           d6 == d5 \div HexBase
           d7 == d6 \div HexBase
           d8 == d7 \div HexBase
           built == [i \in 0 .. 8 |->
                       IF i = 0 THEN d0 ELSE IF i = 1 THEN d1 ELSE IF i = 2 THEN d2
                       ELSE IF i = 3 THEN d3 ELSE IF i = 4 THEN d4 ELSE IF i = 5 THEN d5
                       ELSE IF i = 6 THEN d6 ELSE IF i = 7 THEN d7 ELSE d8]
<1>1. \A i \in 0 .. 8 : i = 0 \/ i = 1 \/ i = 2 \/ i = 3 \/ i = 4 \/ i = 5 \/ i = 6 \/ i = 7 \/ i = 8
  OBVIOUS
<1>2. built[0] = d0 /\ built[1] = d1 /\ built[2] = d2 /\ built[3] = d3 /\ built[4] = d4
      /\ built[5] = d5 /\ built[6] = d6 /\ built[7] = d7 /\ built[8] = d8
  <2> HIDE DEF d0, d1, d2, d3, d4, d5, d6, d7, d8
  <2>1. QED
    OBVIOUS
<1>3. built[1] = built[0] \div HexBase /\ built[2] = built[1] \div HexBase
      /\ built[3] = built[2] \div HexBase /\ built[4] = built[3] \div HexBase
      /\ built[5] = built[4] \div HexBase /\ built[6] = built[5] \div HexBase
      /\ built[7] = built[6] \div HexBase /\ built[8] = built[7] \div HexBase
  <2> HIDE DEF built
  <2>1. QED
    BY <1>2
<1>4. built = [i \in 0 .. 8 |-> IF i = 0 THEN v ELSE built[i - 1] \div HexBase]
  <2>1. ASSUME NEW i \in 0 .. 8 PROVE built[i] = IF i = 0 THEN v ELSE built[i - 1] \div HexBase
    <3> HIDE DEF built
    <3>1. 1 - 1 = 0 /\ 2 - 1 = 1 /\ 3 - 1 = 2 /\ 4 - 1 = 3 /\ 5 - 1 = 4 /\ 6 - 1 = 5 /\ 7 - 1 = 6 /\ 8 - 1 = 7
      OBVIOUS
    <3> HIDE DEF d1, d2, d3, d4, d5, d6, d7, d8
    <3>2. built[0] = v
      BY <1>2
    <3>3. QED
      BY <1>1, <1>3, <3>1, <3>2
  <2>2. built = [i \in 0 .. 8 |-> built[i]]
    OBVIOUS
  <2> HIDE DEF built
  <2>3. QED
    BY <2>1, <2>2
<1> HIDE DEF built, d0, d1, d2, d3, d4, d5, d6, d7, d8
<1>5. left = [i \in 0 .. 8 |-> IF i = 0 THEN v ELSE left[i - 1] \div HexBase]
  BY <1>4 DEF left
<1>6. \A n \in 0 .. 8 : Shifted(v, n) = left[n]
  BY DEF Shifted, left
<1> HIDE DEF left
<1>7. left[0] = v
  BY <1>5
<1>8. ASSUME NEW n \in 0 .. 7 PROVE left[n + 1] = left[n] \div HexBase
  <2>1. n + 1 \in 0 .. 8 /\ n + 1 # 0 /\ (n + 1) - 1 = n
    OBVIOUS
  <2>2. QED
    BY <1>5, <2>1
<1>9. \A n \in 0 .. 7 : n \in 0 .. 8 /\ n + 1 \in 0 .. 8
  OBVIOUS
<1>10. QED
  BY <1>6, <1>7, <1>8, <1>9

\* What holds at 0 and from each number to the next holds up to 8.
LEMMA EightSteps ==
  ASSUME NEW T, 0 \in T, \A n \in 0 .. 7 : n \in T => n + 1 \in T
  PROVE  \A n \in 0 .. 8 : n \in T
<1>1. 0 + 1 = 1 /\ 1 + 1 = 2 /\ 2 + 1 = 3 /\ 3 + 1 = 4 /\ 4 + 1 = 5 /\ 5 + 1 = 6 /\ 6 + 1 = 7 /\ 7 + 1 = 8
  OBVIOUS
<1>2. {0, 1, 2, 3, 4, 5, 6, 7} \subseteq 0 .. 7
  OBVIOUS
<1>3. 1 \in T /\ 2 \in T /\ 3 \in T /\ 4 \in T /\ 5 \in T /\ 6 \in T /\ 7 \in T /\ 8 \in T
  <2>1. /\ 0 \in T => 0 + 1 \in T
        /\ 1 \in T => 1 + 1 \in T
        /\ 2 \in T => 2 + 1 \in T
        /\ 3 \in T => 3 + 1 \in T
        /\ 4 \in T => 4 + 1 \in T
        /\ 5 \in T => 5 + 1 \in T
        /\ 6 \in T => 6 + 1 \in T
        /\ 7 \in T => 7 + 1 \in T
    BY <1>2
  <2>2. QED
    BY <1>1, <2>1
<1>4. \A n \in 0 .. 8 : n = 0 \/ n = 1 \/ n = 2 \/ n = 3 \/ n = 4 \/ n = 5 \/ n = 6 \/ n = 7 \/ n = 8
  OBVIOUS
<1>5. QED
  BY <1>3, <1>4

\* A number without some of its digits is a number; nothing is left of zero.
LEMMA ShiftedNat ==
  ASSUME NEW v \in Nat
  PROVE  \A n \in 0 .. 8 : Shifted(v, n) \in Nat /\ (v = 0 => Shifted(v, n) = 0)
<1> DEFINE T == {n \in 0 .. 8 : Shifted(v, n) \in Nat /\ (v = 0 => Shifted(v, n) = 0)}
<1>1. 0 \in T
  BY ShiftedSteps
<1>2. ASSUME NEW n \in 0 .. 7, n \in T PROVE n + 1 \in T
  <2> DEFINE s == Shifted(v, n)
  <2>1. s \in Nat /\ (v = 0 => s = 0)
    BY <1>2
  <2>2. Shifted(v, n + 1) = s \div HexBase
    BY ShiftedSteps
  <2> HIDE DEF s
  <2>3. HexBase \in Nat \ {0}
    BY CodecAssumption
  <2>4. s \div HexBase \in Nat /\ (s = 0 => s \div HexBase = 0)
    <3>1. s \div HexBase \in Nat
      BY <2>1, <2>3, DivisionParts
    <3>2. 0 \div HexBase = 0
      BY <2>3
    <3>3. QED
      BY <3>1, <3>2
  <2>5. n + 1 \in 0 .. 8
    OBVIOUS
  <2>6. QED
    BY <2>1, <2>2, <2>4, <2>5
<1> HIDE DEF T
<1>3. \A n \in 0 .. 8 : n \in T
  BY <1>1, <1>2, EightSteps
<1>4. QED
  BY <1>3 DEF T

\* Cutting off digits twice.
LEMMA ShiftedTwice ==
  ASSUME NEW v, NEW k \in 0 .. 8
  PROVE  \A n \in 0 .. 8 - k : Shifted(Shifted(v, k), n) = Shifted(v, k + n)
<1> DEFINE T == {n \in 0 .. 8 : n <= 8 - k => Shifted(Shifted(v, k), n) = Shifted(v, k + n)}
<1>1. 0 \in T
  BY ShiftedSteps
<1>2. ASSUME NEW n \in 0 .. 7, n \in T PROVE n + 1 \in T
  <2> SUFFICES ASSUME n + 1 <= 8 - k PROVE Shifted(Shifted(v, k), n + 1) = Shifted(v, k + (n + 1))
    OBVIOUS
  <2>1. k + n \in 0 .. 7 /\ k + (n + 1) = (k + n) + 1 /\ n <= 8 - k
    OBVIOUS
  <2>2. Shifted(Shifted(v, k), n) = Shifted(v, k + n)
    BY <1>2, <2>1
  <2> HIDE DEF T
  <2>3. Shifted(Shifted(v, k), n + 1) = Shifted(Shifted(v, k), n) \div HexBase
    BY ShiftedSteps
  <2>4. Shifted(v, (k + n) + 1) = Shifted(v, k + n) \div HexBase
    BY <2>1, ShiftedSteps
  <2>5. QED
    BY <2>1, <2>2, <2>3, <2>4
<1> HIDE DEF T
<1>3. \A n \in 0 .. 8 : n \in T
  BY <1>1, <1>2, EightSteps
<1>4. ASSUME NEW n \in 0 .. 8 - k PROVE n \in 0 .. 8 /\ n <= 8 - k
  OBVIOUS
<1>5. QED
  BY <1>3, <1>4 DEF T

\* Some numbers up to 8 have a greatest one.
LEMMA GreatestOfEight ==
  ASSUME NEW S \in SUBSET (0 .. 8), 0 \in S
  PROVE  \E i \in S : \A j \in S : j <= i
<1> DEFINE T == {n \in 0 .. 8 : \E i \in S : i <= n /\ \A j \in S : j <= n => j <= i}
<1>1. 0 \in T
  OBVIOUS
<1>2. ASSUME NEW n \in 0 .. 7, n \in T PROVE n + 1 \in T
  <2>1. PICK i \in S : i <= n /\ \A j \in S : j <= n => j <= i
    BY <1>2
  <2>2. n + 1 \in 0 .. 8
    OBVIOUS
  <2>3. CASE n + 1 \in S
    <3>1. \A j \in S : j <= n + 1 => j <= n + 1
      OBVIOUS
    <3>2. n + 1 <= n + 1
      OBVIOUS
    <3>3. QED
      BY <2>2, <2>3, <3>1, <3>2
  <2>4. CASE n + 1 \notin S
    <3>1. \A j \in S : j <= n + 1 => j <= n
      BY <2>4
    <3>2. i <= n + 1
      BY <2>1
    <3>3. QED
      BY <2>1, <2>2, <3>1, <3>2
  <2>5. QED
    BY <2>3, <2>4
<1> HIDE DEF T
<1>3. 8 \in T
  BY <1>1, <1>2, EightSteps
<1>4. PICK i \in S : \A j \in S : j <= 8 => j <= i
  BY <1>3 DEF T
<1>5. \A j \in S : j <= 8
  OBVIOUS
<1>6. QED
  BY <1>4, <1>5

\* value holds what the first digits of chars stand for, up to each of them.
ReadsDigits(chars, end, value) ==
  /\ end \in 0 .. 8 /\ value \in [0 .. end -> Nat] /\ value[0] = 0
  /\ \A i \in 1 .. end : chars[i] \in Digit /\ value[i] = value[i - 1] * HexBase + chars[i]

\* There is a function that adds up digits.
LEMMA SumsExist ==
  ASSUME NEW chars, NEW end \in 0 .. 8, \A i \in 1 .. end : chars[i] \in Nat
  PROVE  \E value \in [0 .. end -> Nat] :
           value = [i \in 0 .. end |-> IF i = 0 THEN 0 ELSE value[i - 1] * HexBase + chars[i]]
<1> DEFINE Sums(n, f) == /\ f \in [0 .. n -> Nat] /\ f[0] = 0
                         /\ \A i \in 1 .. n : f[i] = f[i - 1] * HexBase + chars[i]
           T == {n \in 0 .. 8 : n <= end => \E f : Sums(n, f)}
<1>1. 0 \in T
  <2> DEFINE f == [i \in 0 .. 0 |-> 0]
  <2>1. f \in [0 .. 0 -> Nat] /\ f[0] = 0
    OBVIOUS
  <2> HIDE DEF f
  <2>2. \A i \in 1 .. 0 : f[i] = f[i - 1] * HexBase + chars[i]
    OBVIOUS
  <2>3. Sums(0, f)
    BY <2>1, <2>2
  <2> HIDE DEF Sums
  <2>4. \E g : Sums(0, g)
    BY <2>3
  <2>5. QED
    BY <2>4
<1>2. ASSUME NEW n \in 0 .. 7, n \in T PROVE n + 1 \in T
  <2>a. n + 1 \in 0 .. 8
    OBVIOUS
  <2> HIDE DEF Sums
  <2> SUFFICES ASSUME n + 1 <= end PROVE \E f : Sums(n + 1, f)
    BY <2>a
  <2> USE DEF Sums
  <2>1. PICK f : Sums(n, f)
    BY <1>2
  <2> DEFINE x == f[n] * HexBase + chars[n + 1]
             g == [i \in 0 .. n + 1 |-> IF i = n + 1 THEN x ELSE f[i]]
  <2>2. f \in [0 .. n -> Nat] /\ f[0] = 0 /\ \A i \in 1 .. n : f[i] = f[i - 1] * HexBase + chars[i]
    BY <2>1
  <2>3. x \in Nat
    <3>1. f[n] \in Nat /\ chars[n + 1] \in Nat /\ HexBase \in Nat
      BY <2>2, CodecAssumption
    <3> DEFINE a == f[n]
               c == chars[n + 1]
    <3>2. a \in Nat /\ c \in Nat /\ HexBase \in Nat
      BY <3>1
    <3> HIDE DEF a, c
    <3>3. a * HexBase + c \in Nat
      BY <3>2
    <3>4. QED
      BY <3>3 DEF a, c
  <2> HIDE DEF x
  <2>4. g \in [0 .. n + 1 -> Nat] /\ g[n + 1] = x /\ \A i \in 0 .. n : g[i] = f[i]
    <3>1. \A i \in 0 .. n + 1 : i # n + 1 => i \in 0 .. n
      OBVIOUS
    <3>2. \A i \in 0 .. n : i \in 0 .. n + 1 /\ i # n + 1
      OBVIOUS
    <3>3. n + 1 \in 0 .. n + 1
      OBVIOUS
    <3>4. \A i \in 0 .. n + 1 : (IF i = n + 1 THEN x ELSE f[i]) \in Nat
      BY <2>2, <2>3, <3>1
    <3>5. g \in [0 .. n + 1 -> Nat]
      BY <3>4
    <3>6. QED
      BY <3>2, <3>3, <3>5
  <2> HIDE DEF g
  <2>5. ASSUME NEW i \in 1 .. n + 1 PROVE g[i] = g[i - 1] * HexBase + chars[i]
    <3>1. CASE i = n + 1
      <4>1. i - 1 = n /\ n \in 0 .. n
        BY <3>1
      <4>2. g[i] = x /\ g[i - 1] = f[n]
        BY <2>4, <3>1, <4>1
      <4>3. QED
        BY <3>1, <4>2 DEF x
    <3>2. CASE i # n + 1
      <4>1. i \in 1 .. n /\ i \in 0 .. n /\ i - 1 \in 0 .. n
        BY <3>2
      <4>2. QED
        BY <2>2, <2>4, <4>1
    <3>3. QED
      BY <3>1, <3>2
  <2>6. g[0] = 0
    <3>1. 0 \in 0 .. n
      OBVIOUS
    <3>2. QED
      BY <2>2, <2>4, <3>1
  <2>7. Sums(n + 1, g)
    BY <2>4, <2>5, <2>6
  <2> HIDE DEF Sums
  <2>8. QED
    BY <2>7
<1> HIDE DEF T
<1>3. end \in T
  BY <1>1, <1>2, EightSteps
<1>4. PICK f : Sums(end, f)
  BY <1>3 DEF T
<1>5. f \in [0 .. end -> Nat] /\ f[0] = 0 /\ \A i \in 1 .. end : f[i] = f[i - 1] * HexBase + chars[i]
  BY <1>4
<1>6. ASSUME NEW i \in 0 .. end PROVE f[i] = IF i = 0 THEN 0 ELSE f[i - 1] * HexBase + chars[i]
  <2>1. i = 0 \/ i \in 1 .. end
    OBVIOUS
  <2>2. 0 \notin 1 .. end
    OBVIOUS
  <2>3. QED
    BY <1>5, <2>1, <2>2
<1>7. f = [i \in 0 .. end |-> f[i]]
  BY <1>5
<1>8. f = [i \in 0 .. end |-> IF i = 0 THEN 0 ELSE f[i - 1] * HexBase + chars[i]]
  BY <1>6, <1>7
<1>9. QED
  BY <1>5, <1>8

\* Reading stops at the first character that is no digit; what is read is the
\* number the digits before it stand for.
LEMMA ReadDigits ==
  ASSUME NEW chars \in Seq(Nat), Len(chars) <= 8
  PROVE  \E end, value :
           /\ end \in 0 .. Len(chars)
           /\ ReadsDigits(chars, end, value)
           /\ FromChars16(chars) = IF end = 0 THEN Refused ELSE value[end]
           /\ (\A i \in 1 .. Len(chars) : chars[i] < HexBase) => end = Len(chars)
<1> DEFINE ends == {i \in 0 .. Len(chars) : \A j \in 1 .. i : chars[j] < HexBase}
           end == CHOOSE i \in ends : \A j \in ends : j <= i
           value[i \in 0 .. end] == IF i = 0 THEN 0 ELSE value[i - 1] * HexBase + chars[i]
<1>1. Len(chars) \in Nat /\ \A i \in 1 .. Len(chars) : chars[i] \in Nat
  OBVIOUS
<1>2. ends \in SUBSET (0 .. 8) /\ 0 \in ends
  <2>1. ends \subseteq 0 .. Len(chars)
    OBVIOUS
  <2>2. 0 .. Len(chars) \subseteq 0 .. 8
    <3>1. \A n \in Nat : n <= 8 => 0 .. n \subseteq 0 .. 8
      OBVIOUS
    <3> HIDE DEF ends, end, value
    <3>2. QED
      BY <1>1, <3>1
  <2>3. 0 \in 0 .. Len(chars) /\ \A j \in 1 .. 0 : chars[j] < HexBase
    BY <1>1
  <2>4. 0 \in ends
    BY <2>3
  <2> HIDE DEF ends
  <2>5. QED
    BY <2>1, <2>2, <2>4
<1>3. end \in ends /\ \A j \in ends : j <= end
  <2> HIDE DEF ends
  <2>1. \E i \in ends : \A j \in ends : j <= i
    BY <1>2, GreatestOfEight
  <2>2. QED
    BY <2>1
<1>4. FromChars16(chars) = IF end = 0 THEN Refused ELSE value[end]
  BY DEF FromChars16
<1> HIDE DEF end
<1>5. end \in 0 .. Len(chars) /\ end \in 0 .. 8 /\ \A i \in 1 .. end : chars[i] < HexBase
  BY <1>1, <1>3
<1>6. \A i \in 1 .. end : chars[i] \in Nat /\ chars[i] \in Digit
  <2>1. \A i \in 1 .. end : i \in 1 .. Len(chars)
    BY <1>1, <1>5
  <2>2. \A n \in Nat : n < HexBase => n \in Digit
    BY CodecAssumption DEF Digit
  <2>3. QED
    BY <1>1, <1>5, <2>1, <2>2
<1>7. PICK f \in [0 .. end -> Nat] :
        f = [i \in 0 .. end |-> IF i = 0 THEN 0 ELSE f[i - 1] * HexBase + chars[i]]
  BY <1>5, <1>6, SumsExist
<1>8. value = [i \in 0 .. end |-> IF i = 0 THEN 0 ELSE value[i - 1] * HexBase + chars[i]]
  BY <1>7 DEF value
<1> HIDE DEF value
<1>9. value[0] = 0 /\ \A i \in 1 .. end : value[i] = value[i - 1] * HexBase + chars[i]
  <2>1. 0 \in 0 .. end /\ \A i \in 1 .. end : i \in 0 .. end /\ i # 0
    BY <1>5
  <2>2. QED
    BY <1>8, <2>1
<1>10. value \in [0 .. end -> Nat]
  <2> DEFINE T == {n \in 0 .. 8 : n <= end => value[n] \in Nat}
  <2>1. 0 \in T
    BY <1>9
  <2>2. ASSUME NEW n \in 0 .. 7, n \in T PROVE n + 1 \in T
    <3> SUFFICES ASSUME n + 1 <= end PROVE value[n + 1] \in Nat
      OBVIOUS
    <3>1. n <= end /\ n + 1 \in 1 .. end /\ (n + 1) - 1 = n
      BY <1>5
    <3>2. value[n] \in Nat
      BY <2>2, <3>1
    <3>3. value[n + 1] = value[n] * HexBase + chars[n + 1] /\ chars[n + 1] \in Nat
      BY <1>6, <1>9, <3>1
    <3> DEFINE a == value[n]
               c == chars[n + 1]
    <3>4. a \in Nat /\ c \in Nat /\ HexBase \in Nat
      BY <3>2, <3>3, CodecAssumption
    <3> HIDE DEF a, c, T
    <3>5. a * HexBase + c \in Nat
      BY <3>4
    <3>6. QED
      BY <3>3, <3>5 DEF a, c
  <2> HIDE DEF T
  <2>3. \A n \in 0 .. 8 : n \in T
    BY <2>1, <2>2, EightSteps
  <2>4. ASSUME NEW n \in 0 .. end PROVE value[n] \in Nat
    <3>1. n \in 0 .. 8 /\ n <= end
      BY <1>5
    <3>2. QED
      BY <2>3, <3>1 DEF T
  <2>5. DOMAIN value = 0 .. end
    BY <1>8
  <2>6. value = [i \in 0 .. end |-> value[i]]
    BY <1>8
  <2>7. QED
    BY <2>4, <2>6
<1>11. ReadsDigits(chars, end, value)
  BY <1>5, <1>6, <1>9, <1>10 DEF ReadsDigits
<1>12. (\A i \in 1 .. Len(chars) : chars[i] < HexBase) => end = Len(chars)
  <2> SUFFICES ASSUME \A i \in 1 .. Len(chars) : chars[i] < HexBase
               PROVE  end = Len(chars)
    OBVIOUS
  <2> DEFINE n == Len(chars)
  <2>1. n \in ends
    <3>1. n \in 0 .. n
      BY <1>1
    <3>2. QED
      BY <3>1
  <2> HIDE DEF ends
  <2>2. n <= end
    BY <1>3, <2>1
  <2>3. n \in Nat /\ end \in 0 .. n
    BY <1>1, <1>5
  <2> HIDE DEF n
  <2>4. end = n
    BY <2>2, <2>3
  <2>5. QED
    BY <2>4 DEF n
<1>13. QED
  BY <1>4, <1>5, <1>11, <1>12, Zenon

\* Cutting off digits leaves what the digits before them stand for.
LEMMA SumShifts ==
  ASSUME NEW chars, NEW end, NEW value, ReadsDigits(chars, end, value), NEW n \in 0 .. end
  PROVE  \A k \in 0 .. n : Shifted(value[n], k) = value[n - k]
<1> DEFINE T == {k \in 0 .. 8 : k <= n => Shifted(value[n], k) = value[n - k]}
<1>1. /\ end \in 0 .. 8 /\ value \in [0 .. end -> Nat] /\ HexBase \in Nat \ {0}
      /\ \A i \in 1 .. end : chars[i] \in Digit /\ value[i] = value[i - 1] * HexBase + chars[i]
  BY CodecAssumption DEF ReadsDigits
<1>2. 0 \in T
  <2>1. n - 0 = n
    BY <1>1
  <2>2. QED
    BY <2>1, ShiftedSteps
<1>3. ASSUME NEW k \in 0 .. 7, k \in T PROVE k + 1 \in T
  <2> SUFFICES ASSUME k + 1 <= n PROVE Shifted(value[n], k + 1) = value[n - (k + 1)]
    OBVIOUS
  <2> DEFINE i == n - k
             a == value[i - 1]
             d == chars[i]
  <2>1. i \in 1 .. end /\ i - 1 \in 0 .. end /\ n - (k + 1) = i - 1 /\ k <= n
    BY <1>1
  <2>2. Shifted(value[n], k) = value[i]
    BY <1>3, <2>1
  <2>3. Shifted(value[n], k + 1) = value[i] \div HexBase
    BY <2>2, ShiftedSteps
  <2>4. value[i] = a * HexBase + d /\ a \in Nat /\ d \in 0 .. HexBase - 1
    BY <1>1, <2>1 DEF Digit
  <2> HIDE DEF a, d, T
  <2>5. value[i] \div HexBase = a
    BY <1>1, <2>4, PartsUnique
  <2>6. QED
    BY <2>1, <2>3, <2>5 DEF a
<1> HIDE DEF T
<1>4. \A k \in 0 .. 8 : k \in T
  BY <1>2, <1>3, EightSteps
<1>5. ASSUME NEW k \in 0 .. n PROVE k \in 0 .. 8 /\ k <= n
  BY <1>1
<1>6. QED
  BY <1>4, <1>5 DEF T

\* A pair of digits is a channel.
LEMMA PairBound ==
  ASSUME NEW a \in Digit, NEW b \in Digit
  PROVE  a * HexBase + b \in 0 .. ChannelSize - 1 /\ ChannelSize \in Nat \ {0}
<1>1. HexBase \in Nat /\ HexBase > 1 /\ a \in Nat /\ b \in Nat /\ a + 1 <= HexBase /\ b + 1 <= HexBase
  BY CodecAssumption DEF Digit
<1>2. (a + 1) * HexBase <= HexBase * HexBase /\ HexBase * HexBase \in Nat \ {0}
  BY <1>1, SMTT(30)
<1>3. (a + 1) * HexBase = a * HexBase + HexBase /\ a * HexBase \in Nat
  BY <1>1
<1> DEFINE p == a * HexBase
           s == HexBase * HexBase
<1>4. p + HexBase <= s /\ p \in Nat /\ s \in Nat \ {0}
  BY <1>2, <1>3
<1> HIDE DEF p, s
<1>5. p + b \in 0 .. s - 1
  BY <1>1, <1>4
<1>6. QED
  BY <1>4, <1>5 DEF p, s, ChannelSize

\* The last channel of a number, and what is left without it.
LEMMA LastChannel ==
  ASSUME NEW v \in Nat, NEW r \in 0 .. ChannelSize - 1
  PROVE  /\ v * ChannelSize + r \in Nat
         /\ Shifted(v * ChannelSize + r, 2) = v
         /\ (v * ChannelSize + r) \div ChannelSize = v /\ (v * ChannelSize + r) % ChannelSize = r
<1>1. HexBase \in Nat /\ HexBase > 1 /\ HexBase \in Nat \ {0}
  BY CodecAssumption
<1>2. ChannelSize \in Nat \ {0}
  BY <1>1, SMTT(30) DEF ChannelSize
<1>3. r \in Nat /\ r < ChannelSize
  BY <1>2
<1> DEFINE a == r \div HexBase
           b == r % HexBase
<1>4. a * HexBase + b = r /\ a \in Nat /\ b \in 0 .. HexBase - 1
  BY <1>1, <1>3, DivisionParts
<1>5. a < HexBase
  BY <1>1, <1>3, QuotientBound DEF ChannelSize
<1> HIDE DEF a, b
<1>6. v * ChannelSize + r = (v * HexBase + a) * HexBase + b /\ v * HexBase + a \in Nat
  <2>1. v * (HexBase * HexBase) = (v * HexBase) * HexBase /\ (v * HexBase + a) * HexBase = (v * HexBase) * HexBase + a * HexBase
    BY <1>1, <1>4, SMTT(30)
  <2>2. v * ChannelSize = (v * HexBase) * HexBase
    BY <2>1 DEF ChannelSize
  <2> DEFINE p == v * HexBase
             q == p * HexBase
             s == a * HexBase
  <2>3. p \in Nat /\ q \in Nat /\ s \in Nat
    BY <1>1, <1>4
  <2>4. v * ChannelSize = q /\ (p + a) * HexBase = q + s /\ s + b = r
    BY <1>4, <2>1, <2>2
  <2>5. b \in Nat
    BY <1>4
  <2> HIDE DEF p, q, s
  <2>6. v * ChannelSize + r = (p + a) * HexBase + b /\ p + a \in Nat
    BY <1>4, <2>3, <2>4, <2>5
  <2>7. QED
    BY <2>6 DEF p
<1> DEFINE w == v * HexBase + a
<1>7. w \in Nat /\ a \in 0 .. HexBase - 1
  BY <1>1, <1>4, <1>5, <1>6
<1>8. w \div HexBase = v
  BY <1>1, <1>7, PartsUnique
<1> HIDE DEF w
<1>9. (w * HexBase + b) \div HexBase = w
  BY <1>1, <1>4, <1>7, PartsUnique
<1> DEFINE x == v * ChannelSize + r
<1>10. x = w * HexBase + b
  BY <1>6 DEF w
<1>11. Shifted(x, 0) = x /\ Shifted(x, 1) = x \div HexBase /\ Shifted(x, 2) = (x \div HexBase) \div HexBase
  <2> HIDE DEF x
  <2>1. 0 + 1 = 1 /\ 1 + 1 = 2 /\ 0 \in 0 .. 7 /\ 1 \in 0 .. 7
    OBVIOUS
  <2>2. Shifted(x, 0) = x /\ Shifted(x, 0 + 1) = Shifted(x, 0) \div HexBase
        /\ Shifted(x, 1 + 1) = Shifted(x, 1) \div HexBase
    BY <2>1, ShiftedSteps
  <2>3. QED
    BY <2>1, <2>2
<1>12. Shifted(x, 2) = v
  <2> HIDE DEF x
  <2>1. QED
    BY <1>8, <1>9, <1>10, <1>11
<1>13. x \div ChannelSize = v /\ x % ChannelSize = r
  BY <1>2, PartsUnique
<1>14. x \in Nat
  <2>1. v * ChannelSize \in Nat
    BY <1>2
  <2>2. QED
    BY <1>3, <2>1
<1>15. QED
  BY <1>12, <1>13, <1>14

\* What has eight digits.
Color == {v \in Nat : Shifted(v, 8) = 0}

\* Six digits and a channel are a color, and a color is that.
LEMMA ColorOfSix ==
  ASSUME NEW v \in Nat, Shifted(v, 6) = 0, NEW r \in 0 .. ChannelSize - 1
  PROVE  v * ChannelSize + r \in Color
<1> DEFINE x == v * ChannelSize + r
<1>1. x \in Nat /\ Shifted(x, 2) = v
  BY LastChannel
<1> HIDE DEF x
<1>2. Shifted(Shifted(x, 2), 6) = Shifted(x, 2 + 6)
  <2>1. 2 \in 0 .. 8 /\ 6 \in 0 .. 8 - 2
    OBVIOUS
  <2>2. QED
    BY <2>1, ShiftedTwice
<1>3. Shifted(x, 8) = 0
  <2>1. 2 + 6 = 8
    OBVIOUS
  <2>2. QED
    BY <1>1, <1>2, <2>1
<1>4. QED
  BY <1>1, <1>3 DEF Color, x

\* A color is its first three channels and its alpha.
LEMMA ColorParts ==
  ASSUME NEW color \in Color
  PROVE  /\ color \in Nat /\ color \div ChannelSize \in Nat /\ color % ChannelSize \in 0 .. ChannelSize - 1
         /\ color = (color \div ChannelSize) * ChannelSize + (color % ChannelSize)
         /\ Shifted(color \div ChannelSize, 6) = 0 /\ Shifted(color, 8) = 0
<1>1. color \in Nat /\ Shifted(color, 8) = 0
  BY DEF Color
<1>2. ChannelSize \in Nat \ {0}
  BY CodecAssumption, SMTT(30) DEF ChannelSize
<1> DEFINE v == color \div ChannelSize
           r == color % ChannelSize
<1>3. v * ChannelSize + r = color /\ v \in Nat /\ r \in 0 .. ChannelSize - 1
  BY <1>1, <1>2, DivisionParts
<1> HIDE DEF v, r
<1>4. Shifted(color, 2) = v
  <2>1. Shifted(v * ChannelSize + r, 2) = v
    BY <1>3, LastChannel
  <2>2. QED
    BY <1>3, <2>1
<1>5. Shifted(v, 6) = 0
  <2>1. 2 \in 0 .. 8 /\ 6 \in 0 .. 8 - 2 /\ 2 + 6 = 8
    OBVIOUS
  <2>2. Shifted(Shifted(color, 2), 6) = Shifted(color, 2 + 6)
    BY <2>1, ShiftedTwice
  <2>3. QED
    BY <1>1, <1>4, <2>1, <2>2
<1>6. QED
  BY <1>1, <1>3, <1>5 DEF v, r

\* The digits of a number, read, give it back if they are enough.
LEMMA DigitsReadBack ==
  ASSUME NEW k \in {6, 8}, NEW v \in Nat, Shifted(v, k) = 0
  PROVE  /\ Digits(v, k) \in Seq(Nat) /\ Len(Digits(v, k)) = k
         /\ FromChars16(Digits(v, k)) = v
<1> DEFINE chars == Digits(v, k)
<1>1. k \in 1 .. 8 /\ k \in Nat /\ HexBase \in Nat \ {0}
  BY CodecAssumption
<1>2. \A i \in 1 .. k : k - i \in 0 .. 8 /\ k - i \in 0 .. 7 /\ (k - i) + 1 = k - (i - 1) /\ k - (i - 1) \in 0 .. 8
  BY <1>1
<1>3. DOMAIN chars = 1 .. k /\ \A i \in 1 .. k : chars[i] = Shifted(v, k - i) % HexBase
  BY DEF Digits
<1>4. ASSUME NEW i \in 1 .. k PROVE chars[i] \in Digit
  <2> DEFINE s == Shifted(v, k - i)
  <2>1. s \in Nat
    BY <1>2, ShiftedNat
  <2> HIDE DEF s
  <2>2. s % HexBase \in 0 .. HexBase - 1
    BY <1>1, <2>1, DivisionParts
  <2>3. QED
    BY <1>3, <2>2 DEF Digit, s
<1>5. \A d \in Digit : d \in Nat /\ d < HexBase
  BY <1>1 DEF Digit
<1>6. chars = [i \in 1 .. k |-> chars[i]]
  BY DEF Digits
<1> HIDE DEF chars
<1>7. chars \in Seq(Nat) /\ Len(chars) = k
  <2>1. chars \in [1 .. k -> Nat]
    BY <1>4, <1>5, <1>6
  <2>2. chars \in Seq(Nat)
    BY <1>1, <2>1, SeqDef
  <2>3. DOMAIN chars = 1 .. Len(chars) /\ Len(chars) \in Nat
    BY <2>2, LenProperties
  <2>4. QED
    BY <1>1, <1>3, <2>2, <2>3
<1>8. PICK end, value :
        /\ end \in 0 .. Len(chars)
        /\ ReadsDigits(chars, end, value)
        /\ FromChars16(chars) = IF end = 0 THEN Refused ELSE value[end]
        /\ (\A i \in 1 .. Len(chars) : chars[i] < HexBase) => end = Len(chars)
  <2>1. Len(chars) <= 8
    BY <1>1, <1>7
  <2>2. QED
    BY <1>7, <2>1, ReadDigits
<1>9. end = k
  BY <1>4, <1>5, <1>7, <1>8
<1>10. FromChars16(chars) = value[k]
  BY <1>1, <1>8, <1>9
<1>11. value[0] = 0 /\ \A i \in 1 .. k : value[i] = value[i - 1] * HexBase + chars[i]
  BY <1>8, <1>9 DEF ReadsDigits
<1> DEFINE T == {i \in 0 .. 8 : i <= k => value[i] = Shifted(v, k - i)}
<1>12. 0 \in T
  <2>1. k - 0 = k
    BY <1>1
  <2>2. QED
    BY <1>11, <2>1
<1>13. ASSUME NEW n \in 0 .. 7, n \in T PROVE n + 1 \in T
  <2> SUFFICES ASSUME n + 1 <= k PROVE value[n + 1] = Shifted(v, k - (n + 1))
    OBVIOUS
  <2> DEFINE i == n + 1
             s == Shifted(v, k - i)
  <2>1. i \in 1 .. k /\ i - 1 = n /\ n <= k
    BY <1>1
  <2>2. value[n] = Shifted(v, k - n)
    BY <1>13, <2>1
  <2> HIDE DEF T
  <2>3. Shifted(v, (k - i) + 1) = s \div HexBase /\ (k - i) + 1 = k - n
    <3>1. k - i \in 0 .. 7 /\ (k - i) + 1 = k - n
      BY <1>2, <2>1
    <3> HIDE DEF i
    <3>2. QED
      BY <3>1, ShiftedSteps
  <2>4. s \in Nat
    <3>1. k - i \in 0 .. 8
      BY <1>2, <2>1
    <3>2. QED
      BY <3>1, ShiftedNat
  <2>5. value[i] = (s \div HexBase) * HexBase + (s % HexBase)
    <3>1. value[i] = value[n] * HexBase + chars[i] /\ chars[i] = s % HexBase
      BY <1>3, <1>11, <2>1
    <3> HIDE DEF i, s
    <3>2. QED
      BY <2>2, <2>3, <3>1
  <2> HIDE DEF s
  <2>6. value[i] = s
    BY <1>1, <2>4, <2>5, DivisionParts
  <2>7. QED
    BY <2>6 DEF s
<1> HIDE DEF T
<1>14. k \in T
  <2>1. \A n \in 0 .. 8 : n \in T
    BY <1>12, <1>13, EightSteps
  <2>2. QED
    BY <1>1, <2>1
<1>15. value[k] = Shifted(v, 0)
  <2>1. k <= k /\ k - k = 0
    BY <1>1
  <2>2. QED
    BY <1>14, <2>1 DEF T
<1>16. QED
  BY <1>7, <1>10, <1>15, ShiftedSteps DEF chars

\* A text with the hash before it.
Hashed(digits) == <<Hash>> \o digits

\* What follows the hash are the digits.
LEMMA HashedText ==
  ASSUME NEW digits \in Seq(Nat)
  PROVE  /\ Hashed(digits) \in Seq(Nat) /\ Len(Hashed(digits)) = Len(digits) + 1
         /\ Hashed(digits)[1] = Hash /\ Tail(Hashed(digits)) = digits
<1>1. Hash \in Nat
  BY CodecAssumption DEF Hash
<1>2. <<Hash>> \in Seq(Nat) /\ Len(<<Hash>>) = 1 /\ Len(digits) \in Nat
  BY <1>1
<1> DEFINE text == <<Hash>> \o digits
<1>3. text \in Seq(Nat) /\ Len(text) = 1 + Len(digits)
      /\ \A i \in 1 .. 1 + Len(digits) : text[i] = IF i <= 1 THEN <<Hash>>[i] ELSE digits[i - 1]
  BY <1>2, ConcatProperties
<1> HIDE DEF text
<1>4. text[1] = Hash /\ text # << >>
  BY <1>2, <1>3
<1>5. Tail(text) \in Seq(Nat) /\ Len(Tail(text)) = Len(digits)
      /\ \A i \in 1 .. Len(digits) : Tail(text)[i] = text[i + 1]
  BY <1>2, <1>3, <1>4
<1>6. ASSUME NEW i \in 1 .. Len(digits) PROVE Tail(text)[i] = digits[i]
  <2>1. i + 1 \in 1 .. 1 + Len(digits) /\ ~ (i + 1 <= 1) /\ (i + 1) - 1 = i
    BY <1>2
  <2>2. QED
    BY <1>3, <1>5, <2>1
<1>7. Tail(text) = digits
  BY <1>5, <1>6, SeqEqual
<1>8. Len(text) = Len(digits) + 1
  BY <1>2, <1>3
<1>9. QED
  BY <1>3, <1>4, <1>7, <1>8 DEF text, Hashed

\* A color is read from the text it is written as.
LEMMA ColorReadsBack ==
  ASSUME NEW color \in Color
  PROVE  /\ PackedRGBAToHexString(color) \in Seq(Nat)
         /\ HexStringToPackedRGBA(PackedRGBAToHexString(color)) = color
<1> DEFINE v == color \div ChannelSize
           r == color % ChannelSize
<1>1. /\ color \in Nat /\ v \in Nat /\ r \in 0 .. ChannelSize - 1 /\ color = v * ChannelSize + r
      /\ Shifted(v, 6) = 0 /\ Shifted(color, 8) = 0
  BY ColorParts
<1>2. ChannelSize \in Nat \ {0} /\ HexBase \in Nat
  BY CodecAssumption, SMTT(30) DEF ChannelSize
<1>3. v # Refused /\ color # Refused
  BY <1>1, CodecAssumption
<1>4. CASE r = ChannelSize - 1
  <2> DEFINE digits == Digits(v, 6)
             text == Hashed(digits)
  <2>1. PackedRGBAToHexString(color) = text
    BY <1>4 DEF PackedRGBAToHexString, Hashed
  <2> HIDE DEF v
  <2>2. digits \in Seq(Nat) /\ Len(digits) = 6 /\ FromChars16(digits) = v
    BY <1>1, DigitsReadBack
  <2> HIDE DEF digits
  <2>3. text \in Seq(Nat) /\ Len(text) = 7 /\ text[1] = Hash /\ Tail(text) = digits
    <3>1. text \in Seq(Nat) /\ Len(text) = Len(digits) + 1 /\ text[1] = Hash /\ Tail(text) = digits
      BY <2>2, HashedText
    <3> HIDE DEF text
    <3>2. QED
      BY <2>2, <3>1
  <2> HIDE DEF text
  <2>4. HexStringToPackedRGBA(text) = v * ChannelSize + ChannelSize - 1
    BY <1>3, <2>2, <2>3 DEF HexStringToPackedRGBA
  <2>5. v * ChannelSize + ChannelSize - 1 = color
    <3> DEFINE p == v * ChannelSize
    <3>1. p \in Nat
      BY <1>1, <1>2
    <3> HIDE DEF p, r
    <3>2. p + ChannelSize - 1 = p + r
      BY <1>2, <1>4, <3>1
    <3>3. QED
      BY <1>1, <3>2 DEF p
  <2>6. QED
    BY <2>1, <2>3, <2>4, <2>5
<1>5. CASE r # ChannelSize - 1
  <2> DEFINE digits == Digits(color, 8)
             text == Hashed(digits)
  <2>1. PackedRGBAToHexString(color) = text
    BY <1>5 DEF PackedRGBAToHexString, Hashed
  <2>2. digits \in Seq(Nat) /\ Len(digits) = 8 /\ FromChars16(digits) = color
    BY <1>1, DigitsReadBack
  <2> HIDE DEF digits
  <2>3. text \in Seq(Nat) /\ Len(text) = 9 /\ text[1] = Hash /\ Tail(text) = digits
    <3>1. text \in Seq(Nat) /\ Len(text) = Len(digits) + 1 /\ text[1] = Hash /\ Tail(text) = digits
      BY <2>2, HashedText
    <3> HIDE DEF text
    <3>2. QED
      BY <2>2, <3>1
  <2> HIDE DEF text
  <2>4. HexStringToPackedRGBA(text) = color
    <3> HIDE DEF v, r
    <3>0. Len(text) \in {7, 9} /\ Len(text) # 7
      BY <2>3
    <3>1. FromChars16(Tail(text)) = color /\ Len(text) \in {7, 9} /\ Len(text) # 7
      BY <2>2, <2>3, <3>0, Zenon
    <3>2. QED
      BY <1>3, <2>3, <3>1 DEF HexStringToPackedRGBA
  <2>5. QED
    BY <2>1, <2>3, <2>4
<1>6. QED
  BY <1>4, <1>5

\* What follows the hash of a text.
LEMMA TextDigits ==
  ASSUME NEW chars \in Seq(Nat), Len(chars) \in {7, 9}
  PROVE  /\ Tail(chars) \in Seq(Nat) /\ Len(Tail(chars)) = Len(chars) - 1 /\ Len(Tail(chars)) <= 8
         /\ \A i \in 1 .. Len(chars) - 1 : Tail(chars)[i] = chars[i + 1]
<1> DEFINE n == Len(chars)
<1>1. chars # << >> /\ n \in {7, 9}
  <2>1. Len(<< >>) = 0 /\ 0 \notin {7, 9}
    OBVIOUS
  <2>2. QED
    BY <2>1, Zenon
<1>2. /\ Tail(chars) \in Seq(Nat) /\ Len(Tail(chars)) = Len(chars) - 1
      /\ \A i \in 1 .. Len(chars) - 1 : Tail(chars)[i] = chars[i + 1]
  BY <1>1, HeadTailProperties
<1>3. Len(Tail(chars)) <= 8
  <2>1. Len(Tail(chars)) = n - 1
    BY <1>2
  <2> HIDE DEF n
  <2>2. QED
    BY <1>1, <2>1
<1>4. QED
  BY <1>2, <1>3

\* The number that up to as many digits stand for has no more of them.
LEMMA SumFits ==
  ASSUME NEW chars, NEW end, NEW value, ReadsDigits(chars, end, value), NEW n \in 0 .. 8, end <= n
  PROVE  value[end] \in Nat /\ Shifted(value[end], n) = 0
<1>1. end \in 0 .. 8 /\ value \in [0 .. end -> Nat] /\ value[0] = 0
  BY DEF ReadsDigits
<1>2. end \in 0 .. end /\ end - end = 0
  BY <1>1
<1>3. Shifted(value[end], end) = value[end - end] /\ value[end] \in Nat
  BY <1>1, <1>2, SumShifts
<1>4. n - end \in 0 .. 8 - end /\ n - end \in 0 .. 8 /\ end + (n - end) = n
  BY <1>1
<1>5. Shifted(Shifted(value[end], end), n - end) = Shifted(value[end], end + (n - end))
  BY <1>1, <1>4, ShiftedTwice
<1>6. Shifted(0, n - end) = 0
  BY <1>4, ShiftedNat
<1>7. Shifted(value[end], end) = 0
  BY <1>1, <1>2, <1>3
<1>8. Shifted(value[end], n) = 0
  BY <1>4, <1>5, <1>6, <1>7
<1>9. QED
  BY <1>3, <1>8

\* What a text is read as is a color.
LEMMA ColorRead ==
  ASSUME NEW chars \in Seq(Nat), HexStringToPackedRGBA(chars) # Refused
  PROVE  HexStringToPackedRGBA(chars) \in Color
<1> DEFINE digits == Tail(chars)
           v == FromChars16(digits)
<1>1. /\ Len(chars) \in {7, 9} /\ v # Refused
      /\ HexStringToPackedRGBA(chars) = IF Len(chars) = 7 THEN v * ChannelSize + ChannelSize - 1 ELSE v
  BY Zenon DEF HexStringToPackedRGBA
<1>2. digits \in Seq(Nat) /\ Len(digits) = Len(chars) - 1 /\ Len(digits) <= 8
  BY <1>1, TextDigits
<1>3. PICK end, value :
        /\ end \in 0 .. Len(digits)
        /\ ReadsDigits(digits, end, value)
        /\ FromChars16(digits) = IF end = 0 THEN Refused ELSE value[end]
        /\ (\A i \in 1 .. Len(digits) : digits[i] < HexBase) => end = Len(digits)
  BY <1>2, ReadDigits
<1>4. v = value[end]
  BY <1>1, <1>3
<1> HIDE DEF digits, v
<1>5. Len(digits) \in 0 .. 8 /\ end <= Len(digits)
  <2>1. Len(digits) \in Nat
    BY <1>2
  <2> DEFINE n == Len(digits)
  <2>2. n \in Nat /\ n <= 8 /\ end \in 0 .. n
    BY <1>2, <1>3, <2>1
  <2> HIDE DEF n
  <2>3. n \in 0 .. 8 /\ end <= n
    BY <2>2
  <2>4. QED
    BY <2>3 DEF n
<1>6. v \in Nat /\ Shifted(v, Len(digits)) = 0
  BY <1>3, <1>4, <1>5, SumFits
<1>7. ChannelSize \in Nat \ {0}
  BY CodecAssumption, SMTT(30) DEF ChannelSize
<1>8. CASE Len(chars) = 7
  <2>1. Shifted(v, 6) = 0
    BY <1>2, <1>6, <1>8
  <2>2. ChannelSize - 1 \in 0 .. ChannelSize - 1
    BY <1>7
  <2>3. v * ChannelSize + (ChannelSize - 1) \in Color
    BY <1>6, <2>1, <2>2, ColorOfSix
  <2> DEFINE p == v * ChannelSize
  <2>4. p \in Nat
    BY <1>6, <1>7
  <2> HIDE DEF p
  <2>5. p + (ChannelSize - 1) = p + ChannelSize - 1
    BY <1>7, <2>4
  <2>6. QED
    BY <1>1, <1>8, <2>3, <2>5 DEF p
<1>9. CASE Len(chars) = 9
  <2>1. Shifted(v, 8) = 0
    BY <1>2, <1>6, <1>9
  <2>2. QED
    BY <1>1, <1>6, <1>9, <2>1 DEF Color
<1>10. QED
  BY <1>1, <1>8, <1>9

\* Two digits are the last channel of the number they end.
LEMMA PairIsChannel ==
  ASSUME NEW chars, NEW end, NEW value, ReadsDigits(chars, end, value),
         NEW i \in 0 .. 8, i + 2 <= end
  PROVE  value[i + 2] % ChannelSize = chars[i + 1] * HexBase + chars[i + 2]
<1>1. /\ end \in 0 .. 8 /\ value \in [0 .. end -> Nat]
      /\ \A n \in 1 .. end : chars[n] \in Digit /\ value[n] = value[n - 1] * HexBase + chars[n]
  BY DEF ReadsDigits
<1>2. i \in 0 .. end /\ i + 1 \in 1 .. end /\ i + 2 \in 1 .. end /\ (i + 1) - 1 = i /\ (i + 2) - 1 = i + 1
  BY <1>1
<1> DEFINE v == value[i]
           a == chars[i + 1]
           b == chars[i + 2]
<1>3. v \in Nat /\ a \in Digit /\ b \in Digit
      /\ value[i + 1] = v * HexBase + a /\ value[i + 2] = value[i + 1] * HexBase + b
  BY <1>1, <1>2
<1> HIDE DEF v, a, b
<1>4. a * HexBase + b \in 0 .. ChannelSize - 1
  BY <1>3, PairBound
<1>5. (v * HexBase + a) * HexBase + b = v * ChannelSize + (a * HexBase + b)
  <2>1. v \in Nat /\ a \in Nat /\ b \in Nat /\ HexBase \in Nat
    BY <1>3, CodecAssumption DEF Digit
  <2>2. (v * HexBase + a) * HexBase = v * (HexBase * HexBase) + a * HexBase
    BY <2>1, SMTT(30)
  <2> DEFINE p == v * (HexBase * HexBase)
             q == a * HexBase
  <2>3. p \in Nat /\ q \in Nat
    BY <2>1
  <2>4. (v * HexBase + a) * HexBase = p + q
    BY <2>2
  <2> HIDE DEF p, q
  <2>5. (v * HexBase + a) * HexBase + b = p + (q + b)
    BY <2>1, <2>3, <2>4
  <2>6. QED
    BY <2>5 DEF p, q, ChannelSize
<1> DEFINE r == a * HexBase + b
<1>6. value[i + 2] = v * ChannelSize + r /\ r \in 0 .. ChannelSize - 1
  BY <1>3, <1>4, <1>5
<1> HIDE DEF r
<1>7. value[i + 2] % ChannelSize = r
  BY <1>3, <1>6, LastChannel
<1>8. QED
  BY <1>7 DEF r, a, b

\* The channels of a color that is read are its pairs of digits.
LEMMA ChannelsRead ==
  ASSUME NEW chars \in Seq(Nat), WellFormed(chars)
  PROVE  LET color == HexStringToPackedRGBA(chars)
         IN  /\ \A c \in 1 .. (Len(chars) - 1) \div 2 :
                  Channel(color, c) = chars[2 * c] * HexBase + chars[2 * c + 1]
             /\ Len(chars) = 7 => Channel(color, 4) = ChannelSize - 1
<1> DEFINE digits == Tail(chars)
           v == FromChars16(digits)
           color == HexStringToPackedRGBA(chars)
           n == Len(chars) - 1
<1>1. Len(chars) \in {7, 9} /\ chars[1] = Hash /\ \A i \in 2 .. Len(chars) : chars[i] < HexBase
  BY DEF WellFormed
<1>2. /\ digits \in Seq(Nat) /\ Len(digits) = n /\ Len(digits) <= 8
      /\ \A i \in 1 .. n : digits[i] = chars[i + 1]
  BY <1>1, TextDigits
<1>3. PICK end, value :
        /\ end \in 0 .. Len(digits)
        /\ ReadsDigits(digits, end, value)
        /\ FromChars16(digits) = IF end = 0 THEN Refused ELSE value[end]
        /\ (\A i \in 1 .. Len(digits) : digits[i] < HexBase) => end = Len(digits)
  BY <1>2, ReadDigits
<1>4. n \in {6, 8} /\ \A i \in 1 .. n : i + 1 \in 2 .. Len(chars)
  BY <1>1
<1> HIDE DEF digits, n
<1>5. end = n
  BY <1>1, <1>2, <1>3, <1>4
<1>6. v = value[n] /\ v \in Nat
  <2>1. v = value[n]
    BY <1>3, <1>4, <1>5
  <2>2. n \in 0 .. end
    BY <1>4, <1>5
  <2>3. QED
    BY <1>3, <2>1, <2>2 DEF ReadsDigits
<1>7. v # Refused
  BY <1>6, CodecAssumption
<1>8. color = IF Len(chars) = 7 THEN v * ChannelSize + ChannelSize - 1 ELSE v
  <2> HIDE DEF v
  <2>1. v = FromChars16(Tail(chars))
    BY DEF v, digits
  <2>2. QED
    BY <1>1, <1>7, <2>1, Zenon DEF HexStringToPackedRGBA
<1> HIDE DEF v, color
<1>9. \A k \in 0 .. n : Shifted(v, k) = value[n - k]
  <2>1. n \in 0 .. end
    BY <1>4, <1>5
  <2>2. QED
    BY <1>3, <1>6, <2>1, SumShifts
<1>10. ASSUME NEW c \in 1 .. 4, 2 * c <= n
       PROVE  /\ Shifted(v, n - 2 * c) % ChannelSize = chars[2 * c] * HexBase + chars[2 * c + 1]
  <2> DEFINE i == 2 * c - 2
  <2>1. i \in 0 .. 8 /\ i + 2 = 2 * c /\ i + 1 = 2 * c - 1 /\ i + 2 <= end
    BY <1>4, <1>5, <1>10
  <2>2. value[i + 2] % ChannelSize = digits[i + 1] * HexBase + digits[i + 2]
    BY <1>3, <2>1, PairIsChannel
  <2>3. 2 * c - 1 \in 1 .. n /\ 2 * c \in 1 .. n /\ (2 * c - 1) + 1 = 2 * c
    BY <1>4, <1>10
  <2>4. digits[2 * c - 1] = chars[2 * c] /\ digits[2 * c] = chars[2 * c + 1]
    BY <1>2, <2>3
  <2>5. n - 2 * c \in 0 .. n /\ n - (n - 2 * c) = 2 * c
    BY <1>4, <1>10
  <2>6. Shifted(v, n - 2 * c) = value[2 * c]
    BY <1>9, <2>5
  <2> HIDE DEF i
  <2>7. QED
    BY <2>1, <2>2, <2>4, <2>6
<1>11. CASE Len(chars) = 9
  <2>1. n = 8 /\ (Len(chars) - 1) \div 2 = 4 /\ color = v
    BY <1>8, <1>11 DEF n
  <2>2. ASSUME NEW c \in 1 .. 4 PROVE Channel(color, c) = chars[2 * c] * HexBase + chars[2 * c + 1]
    <3>1. 2 * c <= n
      BY <2>1
    <3>2. Shifted(v, n - 2 * c) % ChannelSize = chars[2 * c] * HexBase + chars[2 * c + 1]
      BY <1>10, <3>1
    <3>3. QED
      BY <2>1, <3>2 DEF Channel
  <2>3. QED
    BY <1>11, <2>1, <2>2 DEF color
<1>12. CASE Len(chars) = 7
  <2>1. n = 6 /\ (Len(chars) - 1) \div 2 = 3 /\ ChannelSize \in Nat \ {0}
    BY <1>12, CodecAssumption, SMTT(30) DEF n, ChannelSize
  <2>2. color = v * ChannelSize + (ChannelSize - 1)
    <3> DEFINE p == v * ChannelSize
    <3>1. p \in Nat
      BY <1>6, <2>1
    <3>2. color = p + ChannelSize - 1
      BY <1>8, <1>12
    <3> HIDE DEF p
    <3>3. color = p + (ChannelSize - 1)
      BY <2>1, <3>1, <3>2
    <3>4. QED
      BY <3>3 DEF p
  <2>3. ChannelSize - 1 \in 0 .. ChannelSize - 1
    BY <2>1
  <2>4. Shifted(color, 2) = v /\ color % ChannelSize = ChannelSize - 1 /\ color \in Nat
    BY <1>6, <2>2, <2>3, LastChannel
  <2>5. ASSUME NEW c \in 1 .. 3 PROVE Channel(color, c) = chars[2 * c] * HexBase + chars[2 * c + 1]
    <3>1. c \in 1 .. 4 /\ 2 * c <= n /\ 2 + (n - 2 * c) = 8 - 2 * c /\ n - 2 * c \in 0 .. 8 - 2 /\ 2 \in 0 .. 8
      BY <2>1
    <3>2. Shifted(v, n - 2 * c) % ChannelSize = chars[2 * c] * HexBase + chars[2 * c + 1]
      BY <1>10, <3>1
    <3>3. Shifted(Shifted(color, 2), n - 2 * c) = Shifted(color, 2 + (n - 2 * c))
      BY <3>1, ShiftedTwice
    <3>4. QED
      BY <2>4, <3>1, <3>2, <3>3 DEF Channel
  <2>6. Channel(color, 4) = ChannelSize - 1
    <3>1. 8 - 2 * 4 = 0
      OBVIOUS
    <3>2. QED
      BY <2>4, <3>1, ShiftedSteps DEF Channel
  <2>7. QED
    BY <2>1, <2>5, <2>6 DEF color
<1>13. QED
  BY <1>1, <1>11, <1>12

----------------------------------------------------------------------------
(***************************************************************************)
(* The codecs                                                              *)
(***************************************************************************)

DTypes == {"colors", "floats", "points2d"}

Point == [x : Float, y : Float]

\* The values an attribute of each type has.
Values(dtype) == IF dtype = "colors" THEN Color ELSE IF dtype = "floats" THEN Float ELSE Point

\* The values that JSON can write.
Written(dtype, value) ==
  /\ dtype = "floats" => value # NotFinite
  /\ dtype = "points2d" => value.x # NotFinite /\ value.y # NotFinite

\* What the floats contain, and that sums of floats are floats.
LEMMA FloatFacts ==
  /\ NotFinite \in Float /\ 0 \in Float /\ Float \subseteq Int /\ Refused \notin Float
  /\ \A a \in Float, b \in Nat : Plus(a, b) \in Float
<1>1. FloatMax \in Nat /\ Refused \notin Int
  BY CodecAssumption
<1>2. NotFinite \in Float /\ 0 \in Float /\ Float \subseteq Int
  BY <1>1 DEF Float, NotFinite
<1>3. ASSUME NEW a \in Float, NEW b \in Nat PROVE Plus(a, b) \in Float
  <2>1. CASE NotFinite \in {a, b} \/ a + b > FloatMax \/ a + b < - FloatMax
    BY <1>2, <2>1 DEF Plus
  <2>2. CASE ~ (NotFinite \in {a, b} \/ a + b > FloatMax \/ a + b < - FloatMax)
    <3>1. a \in Int /\ a + b <= FloatMax /\ - FloatMax <= a + b
      BY <1>1, <1>2, <2>2
    <3>2. a + b \in Float
      BY <1>1, <3>1 DEF Float, NotFinite
    <3>3. QED
      BY <2>2, <3>2 DEF Plus
  <2>3. QED
    BY <2>1, <2>2
<1>4. QED
  BY <1>1, <1>2, <1>3

\* No value is the absence of one.
LEMMA ValuesAreThere ==
  ASSUME NEW dtype \in DTypes, NEW value \in Values(dtype)
  PROVE  value # Refused
<1>1. CASE dtype = "colors"
  BY <1>1, CodecAssumption DEF Values, Color
<1>2. CASE dtype = "floats"
  BY <1>2, FloatFacts DEF Values
<1>3. CASE dtype = "points2d"
  <2>1. value \in Point
    BY <1>3 DEF Values
  <2>2. value = [x |-> value.x, y |-> value.y] /\ value.x \in Float /\ value.y \in Float
    BY <2>1 DEF Point
  <2>3. QED
    BY <2>2, CodecAssumption
<1>4. QED
  BY <1>1, <1>2, <1>3 DEF DTypes

\* A float is read if it is finite, else refused.
LEMMA FloatReadsBack ==
  ASSUME NEW f \in Float
  PROVE  /\ IsNumber(FloatToJson(f))
         /\ FloatFromJson(FloatToJson(f)) = IF f = NotFinite THEN Refused ELSE f
  BY DEF IsNumber, FloatToJson, FloatFromJson, JsonNull, Number

\* A number that is read is a float.
LEMMA FloatRead ==
  ASSUME NEW json, IsNumber(json), FloatFromJson(json) # Refused
  PROVE  FloatFromJson(json) \in Float
  BY DEF IsNumber, FloatFromJson

\* A point that is read has two floats.
LEMMA PointRead ==
  ASSUME NEW json, IsJson(json), PointFromJson(json) # Refused
  PROVE  PointFromJson(json) \in Point
<1> DEFINE x == FloatFromJson(json.fields.x)
           y == FloatFromJson(json.fields.y)
<1>1. /\ json.kind = "object" /\ {"x", "y"} \subseteq DOMAIN json.fields
      /\ x # Refused /\ y # Refused /\ PointFromJson(json) = [x |-> x, y |-> y]
  BY DEF PointFromJson
<1>2. IsNumber(json.fields.x) /\ IsNumber(json.fields.y)
  BY <1>1 DEF IsJson
<1>3. x \in Float /\ y \in Float
  BY <1>1, <1>2, FloatRead
<1> HIDE DEF x, y
<1>4. QED
  BY <1>1, <1>3 DEF Point

\* A point is read if both its floats are finite, else refused.
LEMMA PointReadsBack ==
  ASSUME NEW point \in Point
  PROVE  /\ IsJson(PointToJson(point))
         /\ PointFromJson(PointToJson(point)) =
              IF point.x = NotFinite \/ point.y = NotFinite THEN Refused ELSE point
<1> DEFINE fields == [x |-> FloatToJson(point.x), y |-> FloatToJson(point.y)]
           json == [kind |-> "object", fields |-> fields]
<1>1. point.x \in Float /\ point.y \in Float /\ point = [x |-> point.x, y |-> point.y]
  BY DEF Point
<1>2. PointToJson(point) = json
  BY DEF PointToJson, Object
<1>3. /\ DOMAIN fields = {"x", "y"} /\ fields.x = FloatToJson(point.x) /\ fields.y = FloatToJson(point.y)
      /\ IsNumber(fields["x"]) /\ IsNumber(fields["y"])
  BY <1>1, FloatReadsBack
<1> HIDE DEF fields
<1>4. json.kind = "object" /\ json.fields = fields
  OBVIOUS
<1> HIDE DEF json
<1>5. IsJson(json)
  BY <1>3, <1>4 DEF IsJson, IsNumber
<1> DEFINE x == FloatFromJson(fields.x)
           y == FloatFromJson(fields.y)
<1>6. /\ x = (IF point.x = NotFinite THEN Refused ELSE point.x)
      /\ y = (IF point.y = NotFinite THEN Refused ELSE point.y)
  BY <1>1, <1>3, FloatReadsBack
<1>7. PointFromJson(json) = IF Refused \in {x, y} THEN Refused ELSE [x |-> x, y |-> y]
  BY <1>3, <1>4 DEF PointFromJson
<1> HIDE DEF x, y
<1>8. point.x # Refused /\ point.y # Refused
  BY <1>1, FloatFacts
<1>9. PointFromJson(json) = IF point.x = NotFinite \/ point.y = NotFinite THEN Refused ELSE point
  BY <1>1, <1>6, <1>7, <1>8
<1>10. QED
  BY <1>2, <1>5, <1>9

\* What a decoder gives is a value of its type.
LEMMA ItemRead ==
  ASSUME NEW dtype \in DTypes, NEW json, IsJson(json), DecodeItem(dtype, json) # Refused
  PROVE  DecodeItem(dtype, json) \in Values(dtype)
<1>1. CASE dtype = "colors"
  <2>1. DecodeItem(dtype, json) = HexStringToPackedRGBA(json.chars) /\ json.kind = "string"
    BY <1>1 DEF DecodeItem
  <2>2. json.chars \in Seq(Nat)
    BY <2>1 DEF IsJson
  <2>3. QED
    BY <1>1, <2>1, <2>2, ColorRead DEF Values
<1>2. CASE dtype = "floats"
  <2>1. DecodeItem(dtype, json) = FloatFromJson(json) /\ IsNumber(json)
    BY <1>2 DEF DecodeItem, IsJson
  <2>2. QED
    BY <1>2, <2>1, FloatRead DEF Values
<1>3. CASE dtype = "points2d"
  <2>1. DecodeItem(dtype, json) = PointFromJson(json)
    BY <1>3 DEF DecodeItem
  <2>2. QED
    BY <1>3, <2>1, PointRead DEF Values
<1>4. QED
  BY <1>1, <1>2, <1>3 DEF DTypes

\* What an encoder writes is read as what it was, or refused if it is not
\* finite.
LEMMA ItemReadsBack ==
  ASSUME NEW dtype \in DTypes, NEW value \in Values(dtype)
  PROVE  /\ IsJson(EncodeItem(dtype, value))
         /\ DecodeItem(dtype, EncodeItem(dtype, value)) = IF Written(dtype, value) THEN value ELSE Refused
<1>1. CASE dtype = "colors"
  <2> DEFINE chars == PackedRGBAToHexString(value)
             json == [kind |-> "string", chars |-> chars]
  <2>1. chars \in Seq(Nat) /\ HexStringToPackedRGBA(chars) = value
    BY <1>1, ColorReadsBack DEF Values
  <2>2. EncodeItem(dtype, value) = json
    BY <1>1 DEF EncodeItem, Text
  <2> HIDE DEF chars
  <2>3. json.kind = "string" /\ json.chars = chars
    OBVIOUS
  <2> HIDE DEF json
  <2>4. IsJson(json)
    BY <2>1, <2>3 DEF IsJson, IsNumber
  <2>5. DecodeItem(dtype, json) = value
    BY <1>1, <2>1, <2>3 DEF DecodeItem
  <2>6. Written(dtype, value)
    BY <1>1 DEF Written
  <2>7. QED
    BY <2>2, <2>4, <2>5, <2>6
<1>2. CASE dtype = "floats"
  <2> DEFINE json == FloatToJson(value)
  <2>1. value \in Float /\ EncodeItem(dtype, value) = json /\ DecodeItem(dtype, json) = FloatFromJson(json)
    BY <1>2 DEF Values, EncodeItem, DecodeItem
  <2>2. IsNumber(json) /\ FloatFromJson(json) = IF value = NotFinite THEN Refused ELSE value
    BY <2>1, FloatReadsBack
  <2>3. json.kind \in {"float", "null"}
    BY DEF FloatToJson, JsonNull, Number
  <2> HIDE DEF json
  <2>4. IsJson(json)
    BY <2>2, <2>3 DEF IsJson
  <2>5. Written(dtype, value) <=> value # NotFinite
    BY <1>2 DEF Written
  <2>6. QED
    BY <2>1, <2>2, <2>4, <2>5
<1>3. CASE dtype = "points2d"
  <2> DEFINE json == PointToJson(value)
  <2>1. value \in Point /\ EncodeItem(dtype, value) = json /\ DecodeItem(dtype, json) = PointFromJson(json)
    BY <1>3 DEF Values, EncodeItem, DecodeItem
  <2>2. /\ IsJson(json)
        /\ PointFromJson(json) = IF value.x = NotFinite \/ value.y = NotFinite THEN Refused ELSE value
    BY <2>1, PointReadsBack
  <2>3. Written(dtype, value) <=> ~ (value.x = NotFinite \/ value.y = NotFinite)
    BY <1>3 DEF Written
  <2> HIDE DEF json
  <2>4. QED
    BY <2>1, <2>2, <2>3
<1>4. QED
  BY <1>1, <1>2, <1>3 DEF DTypes

\* What a slot holds can be looked into by its decoder, and what came out was
\* written from the attribute.
CodecInv ==
  /\ IsDocument(doc)
  /\ ran = "encoded" => attr \in Seq(Values(doc.dtype)) /\ doc = Encode(doc.dtype, attr)

\* The items of a document are a list.
LEMMA DocumentItems ==
  ASSUME NEW d, IsDocument(d)
  PROVE  /\ d.dtype \in DTypes /\ Len(d.items) \in Nat /\ DOMAIN d.items = 1 .. Len(d.items)
         /\ \A i \in DOMAIN d.items : IsJson(d.items[i])
<1> DEFINE items == d.items
           S == {items[i] : i \in DOMAIN items}
<1>1. items \in Seq(S)
  BY DEF IsDocument
<1> HIDE DEF S, items
<1>2. Len(items) \in Nat /\ DOMAIN items = 1 .. Len(items)
  BY <1>1, LenProperties
<1>3. QED
  BY <1>2 DEF items, IsDocument, DTypes

\* What an accepted document is decoded to are values of its type.
LEMMA DecodedValues ==
  ASSUME NEW d, IsDocument(d), Accepts(d)
  PROVE  Decode(d) \in Seq(Values(d.dtype))
<1> DEFINE n == Len(d.items)
           V == Values(d.dtype)
           decoded == [i \in 1 .. n |-> DecodeItem(d.dtype, d.items[i])]
<1>1. d.dtype \in DTypes /\ n \in Nat /\ DOMAIN d.items = 1 .. n /\ \A i \in 1 .. n : IsJson(d.items[i])
  BY DocumentItems
<1>2. Decode(d) = decoded
  BY <1>1 DEF Decode
<1>3. \A i \in 1 .. n : DecodeItem(d.dtype, d.items[i]) \in V
  BY <1>1, ItemRead DEF Accepts
<1> HIDE DEF n, V
<1>4. decoded \in [1 .. n -> V]
  BY <1>3
<1> HIDE DEF decoded
<1>5. decoded \in Seq(V)
  BY <1>1, <1>4, SeqDef
<1>6. QED
  BY <1>2, <1>5 DEF V

\* What is given back can be entered.
LEMMA EncodedDocument ==
  ASSUME NEW dtype \in DTypes, NEW values \in Seq(Values(dtype))
  PROVE  IsDocument(Encode(dtype, values)) /\ Encode(dtype, values).dtype = dtype
<1> DEFINE n == Len(values)
           items == [i \in DOMAIN values |-> EncodeItem(dtype, values[i])]
           d == [dtype |-> dtype, items |-> items]
           S == {items[i] : i \in DOMAIN items}
<1>1. n \in Nat /\ DOMAIN values = 1 .. n /\ \A i \in 1 .. n : values[i] \in Values(dtype)
  OBVIOUS
<1>2. DOMAIN items = 1 .. n /\ \A i \in 1 .. n : items[i] = EncodeItem(dtype, values[i])
  BY <1>1
<1>3. \A i \in 1 .. n : IsJson(items[i])
  BY <1>1, <1>2, ItemReadsBack
<1>4. items = [i \in DOMAIN items |-> items[i]]
  OBVIOUS
<1> HIDE DEF n, items
<1>5. items \in [1 .. n -> S]
  BY <1>2, <1>4
<1> HIDE DEF S
<1>6. items \in Seq(S)
  BY <1>1, <1>5, SeqDef
<1>7. d.dtype = dtype /\ d.items = items
  OBVIOUS
<1> HIDE DEF d
<1>8. d.items \in Seq({d.items[i] : i \in DOMAIN d.items})
  BY <1>6, <1>7 DEF S
<1>9. IsDocument(d)
  BY <1>2, <1>3, <1>7, <1>8 DEF IsDocument, DTypes
<1>10. Encode(dtype, values) = d
  BY DEF Encode, d, items
<1>11. QED
  BY <1>7, <1>9, <1>10

\* At the start a document is entered.
LEMMA CodecInit == EnterData => CodecInv
  BY CodecAssumption DEF EnterData, CodecInv

\* Values that are given back are those the document was written from.
LEMMA GivenBack ==
  ASSUME CodecInv, NEW values \in Seq(Values(doc.dtype)), GiveBack(values)
  PROVE  CodecInv'
<1>1. doc.dtype \in DTypes
  BY DocumentItems DEF CodecInv
<1>2. attr' = values /\ doc' = Encode(doc.dtype, values)
  BY DEF GiveBack
<1>3. IsDocument(Encode(doc.dtype, values)) /\ Encode(doc.dtype, values).dtype = doc.dtype
  BY <1>1, EncodedDocument
<1>4. IsDocument(doc') /\ doc'.dtype = doc.dtype
  BY <1>2, <1>3
<1>5. attr' \in Seq(Values(doc'.dtype)) /\ doc' = Encode(doc'.dtype, attr')
  BY <1>2, <1>4
<1>6. IsDocument(doc)'
  BY <1>4 DEF IsDocument, IsJson, IsNumber
<1>7. Encode(doc.dtype, attr)' = Encode(doc'.dtype, attr')
  BY DEF Encode
<1>8. QED
  BY <1>5, <1>6, <1>7 DEF CodecInv

\* The floats by which a step displaces a point.
Displacements == {<< >>, <<1>>, <<FloatMax, 0>>}

\* Each step gives back values of the type of the document, or ends the run.
LEMMA CodecStep == CodecInv /\ [CodecNext]_codecVars => CodecInv'
<1> SUFFICES ASSUME CodecInv, [CodecNext]_codecVars PROVE CodecInv'
  OBVIOUS
<1>1. IsDocument(doc) /\ doc.dtype \in DTypes
  BY DocumentItems DEF CodecInv
<1>2. ASSUME UNCHANGED <<doc, attr>>, ran' = "aborted" \/ UNCHANGED ran PROVE CodecInv'
  BY <1>2 DEF CodecInv
<1>3. ASSUME PassOn PROVE CodecInv'
  <2>1. CASE Accepts(doc) /\ GiveBack(Decode(doc))
    <3>1. Decode(doc) \in Seq(Values(doc.dtype))
      BY <1>1, <2>1, DecodedValues
    <3>2. QED
      BY <2>1, <3>1, GivenBack
  <2>2. CASE ~ Accepts(doc) /\ ran' = "aborted" /\ UNCHANGED <<doc, attr>>
    BY <1>2, <2>2
  <2>3. QED
    BY <1>3, <2>1, <2>2 DEF PassOn
<1>4. ASSUME NEW dx \in Displacements, DisplacePoint(dx) PROVE CodecInv'
  <2> DEFINE origin == [x |-> 0, y |-> 0]
             point == First(Decode(doc), origin)
             moved == [x |-> Plus(point.x, First(dx, 0)), y |-> point.y]
  <2>1. doc.dtype = "points2d" /\ Accepts(doc) /\ GiveBack(<<moved>>)
    BY <1>4 DEF DisplacePoint
  <2>2. Values(doc.dtype) = Point
    BY <2>1 DEF Values
  <2>3. Decode(doc) \in Seq(Point)
    BY <1>1, <2>1, <2>2, DecodedValues
  <2>4. origin \in Point
    BY FloatFacts DEF Point
  <2>5. point \in Point
    <3>1. CASE Decode(doc) = << >>
      BY <2>4, <3>1 DEF First
    <3>2. CASE Decode(doc) # << >>
      <4> DEFINE s == Decode(doc)
      <4>1. s \in Seq(Point) /\ s # << >>
        BY <2>3, <3>2
      <4>2. First(s, origin) = s[1]
        BY <4>1 DEF First
      <4> HIDE DEF s
      <4>3. s[1] \in Point
        BY <4>1
      <4>4. QED
        BY <4>2, <4>3 DEF s
    <3>3. QED
      BY <3>1, <3>2
  <2>6. First(dx, 0) \in Nat
    BY CodecAssumption DEF First, Displacements
  <2> HIDE DEF point
  <2>7. point.x \in Float /\ point.y \in Float
    BY <2>5 DEF Point
  <2>8. moved \in Point
    BY <2>6, <2>7, FloatFacts DEF Point
  <2> HIDE DEF moved
  <2>9. <<moved>> \in Seq(Values(doc.dtype))
    BY <2>2, <2>8
  <2>10. QED
    BY <2>1, <2>9, GivenBack
<1>5. CASE UNCHANGED codecVars
  BY <1>2, <1>5 DEF codecVars
<1>6. QED
  BY <1>3, <1>4, <1>5 DEF CodecNext, Displacements

\* What came out is read as what it was written from, unless it cannot be
\* written.
LEMMA EncodedReadsBack ==
  ASSUME CodecInv
  PROVE  OutputsReadBack
<1> SUFFICES ASSUME ran = "encoded"
             PROVE  (Accepts(doc) <=> AllFinite) /\ (AllFinite => Decode(doc) = attr)
  BY DEF OutputsReadBack
<1> DEFINE dtype == doc.dtype
<1>1. dtype \in DTypes /\ attr \in Seq(Values(dtype)) /\ doc = Encode(dtype, attr)
  BY DocumentItems DEF CodecInv
<1>2. DOMAIN doc.items = DOMAIN attr /\ \A i \in DOMAIN attr : doc.items[i] = EncodeItem(dtype, attr[i])
  <2>1. doc.items = [i \in DOMAIN attr |-> EncodeItem(dtype, attr[i])]
    <3> HIDE DEF dtype
    <3>1. Encode(dtype, attr).items = [i \in DOMAIN attr |-> EncodeItem(dtype, attr[i])]
      BY DEF Encode
    <3>2. QED
      BY <1>1, <3>1
  <2>2. QED
    BY <2>1
<1>3. \A i \in DOMAIN attr : attr[i] \in Values(dtype)
  BY <1>1
<1>4. ASSUME NEW i \in DOMAIN attr
      PROVE  /\ DecodeItem(dtype, doc.items[i]) = IF Written(dtype, attr[i]) THEN attr[i] ELSE Refused
             /\ attr[i] # Refused
  BY <1>1, <1>2, <1>3, ItemReadsBack, ValuesAreThere
<1>5. AllFinite <=> \A i \in DOMAIN attr : Written(dtype, attr[i])
  <2>1. CASE dtype = "colors"
    BY <2>1 DEF AllFinite, Written
  <2>2. CASE dtype = "floats"
    BY <2>2 DEF AllFinite, Written
  <2>3. CASE dtype = "points2d"
    BY <2>3 DEF AllFinite, Written
  <2>4. QED
    BY <1>1, <2>1, <2>2, <2>3 DEF DTypes
<1>6. Accepts(doc) <=> \A i \in DOMAIN attr : Written(dtype, attr[i])
  BY <1>2, <1>4 DEF Accepts
<1>7. AllFinite => Decode(doc) = attr
  <2> SUFFICES ASSUME AllFinite PROVE Decode(doc) = attr
    OBVIOUS
  <2>1. \A i \in DOMAIN attr : DecodeItem(dtype, doc.items[i]) = attr[i]
    BY <1>4, <1>5
  <2>2. Decode(doc) = [i \in DOMAIN attr |-> DecodeItem(dtype, doc.items[i])]
    BY <1>2 DEF Decode
  <2>3. attr = [i \in DOMAIN attr |-> attr[i]]
    BY <1>1
  <2>4. QED
    BY <2>1, <2>2, <2>3
<1>8. QED
  BY <1>5, <1>6, <1>7

\* For every base of the digits, every greatest float and whatever is entered:
\* what comes out is read as what it was written from, and colors are written
\* channel by channel.
THEOREM CodecsAreSoundAlways == CodecSpec => []CodecsAreSound
<1>1. CodecInv => CodecsAreSound
  <2> SUFFICES ASSUME CodecInv PROVE CodecsAreSound
    OBVIOUS
  <2>1. OutputsReadBack
    BY EncodedReadsBack
  <2>2. DigitsAreChannels
    <3> SUFFICES ASSUME NEW i \in DOMAIN doc.items, doc.items[i].kind = "string",
                        WellFormed(doc.items[i].chars)
                 PROVE  LET chars == doc.items[i].chars
                            color == HexStringToPackedRGBA(chars)
                        IN  /\ \A c \in 1 .. (Len(chars) - 1) \div 2 :
                                 Channel(color, c) = chars[2 * c] * HexBase + chars[2 * c + 1]
                            /\ Len(chars) = 7 => Channel(color, 4) = ChannelSize - 1
      BY DEF DigitsAreChannels
    <3>1. IsJson(doc.items[i])
      BY DocumentItems DEF CodecInv
    <3>2. doc.items[i].chars \in Seq(Nat)
      BY <3>1 DEF IsJson
    <3>3. QED
      BY <3>2, ChannelsRead
  <2>3. QED
    BY <2>1, <2>2 DEF CodecsAreSound
<1>2. CodecSpec => []CodecInv
  BY CodecInit, CodecStep, PTL DEF CodecSpec
<1>3. QED
  BY <1>1, <1>2, PTL
=============================================================================
